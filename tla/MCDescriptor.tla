---------------------------- MODULE MCDescriptor ----------------------------
(* The places objects live in are interchangeable. *)
EXTENDS Descriptor, TLC

Places == Permutations(Objs)
=============================================================================
