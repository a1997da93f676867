----------------------------- MODULE ByteStream -----------------------------
(***************************************************************************)
(* What a pair of buffered_sockets promises its two applications: a FIFO   *)
(* of bytes of its own, whatever buffers, system calls and chunks are      *)
(* underneath.  Once a call has been cut in the middle the promise is off. *)
(***************************************************************************)
EXTENDS Integers, Sequences

CONSTANT MaxBytes  \* bound: bytes written

VARIABLES
    written, \* bytes inserted at one end
    got,     \* bytes extracted at the other
    broken   \* a call was cut in the middle

streamVars == <<written, got, broken>>

Init == written = <<>> /\ got = <<>> /\ broken = FALSE

\* A value, or a part of a long one, enters the stream: bytes not seen before.
Write ==
    /\ ~broken
    /\ \E from \in 1..MaxBytes : \E to \in from..MaxBytes :
          /\ \A i \in 1..Len(written) : written[i] < from
          /\ written' = written \o [i \in 1..(to - from + 1) |-> from + i - 1]
    /\ UNCHANGED <<got, broken>>

\* A value leaves it: the next m bytes, already written.
Read ==
    /\ ~broken
    /\ \E m \in 1..(Len(written) - Len(got)) :
          got' = got \o SubSeq(written, Len(got) + 1, Len(got) + m)
    /\ UNCHANGED <<written, broken>>

Break == broken' = TRUE

Next == Write \/ Read \/ Break

Spec == Init /\ [][Next]_streamVars
=============================================================================
