------------------------------ MODULE MCTimer -------------------------------
(* Values for the constants of Timer that a .cfg cannot write down. *)
EXTENDS Timer

\* A first value of 0, for which the interval is taken; what is left when such a
\* timer is paused makes first values other than the interval.
RepeatingSpecs == {[value |-> 0, interval |-> 2]}
=============================================================================
