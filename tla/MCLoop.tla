------------------------------- MODULE MCLoop -------------------------------
(* Servers for TLC: one with room for two connections, one with room for one. *)
EXTENDS EventLoop

MCServers == {<<"unix", 5>>, <<"inet", 4>>}
=============================================================================
