--------------------------- MODULE BufferedStream ---------------------------
(***************************************************************************)
(* Two buffered_sockets over one stream connection, one direction of it:   *)
(* the output half at the near end, the input half at the far end, and the *)
(* kernel between them, which holds at most SockCapacity bytes.            *)
(***************************************************************************)
EXTENDS Integers, Sequences

CONSTANTS
    OutCapacity, InCapacity, SockCapacity,
    InsertSizes, ExtractSizes,
    MaxBytes,      \* bound: bytes the near end offers
    MaxStream,     \* bound: bytes the kernel is given, retries included
    MaxRead,       \* bound: bytes the far end extracts
    MaxSendFailures, MaxRecvFailures

VARIABLES
    opc, out, arg, n, sent, made, accepted, flushed, torn, since, overtook,
    sendFailures,
    arrived, ended, taken, mem, rd, size, ipc, req, dst, read, short, recvFailures

outVars == <<opc, out, arg, n, sent, made, accepted, flushed, torn, since, overtook,
             sendFailures>>
inVars == <<arrived, ended, taken, mem, rd, size, ipc, req, dst, read, short, recvFailures>>
vars == <<outVars, inVars>>

\* What the far end has taken is what makes room for the near end.
Out == INSTANCE BufferedOutput
         WITH Sizes <- InsertSizes, MaxFailures <- MaxSendFailures,
              pc <- opc, failures <- sendFailures, drained <- taken
In == INSTANCE BufferedInput
         WITH Sizes <- ExtractSizes, MaxFailures <- MaxRecvFailures, OutCapacity <- 0,
              Junk <- {0}, MaxBytes <- MaxStream, pc <- ipc, failures <- recvFailures

ASSUME StreamAssumption == Out!OutAssumption /\ In!InAssumption

Init == Out!Init /\ In!Init

\* The kernel delivers in order what it was given, and the end of the stream
\* behind the last byte.
Deliver ==
    /\ \E k \in 1..SockCapacity : In!Arrive(k) /\ arrived + k <= Len(sent)
    /\ UNCHANGED outVars

Finish ==
    /\ In!Close /\ opc = "closed" /\ arrived = Len(sent)
    /\ UNCHANGED outVars

Send == Out!Step /\ UNCHANGED inVars

Extract ==
    /\ \E s \in ExtractSizes, k \in 0..InCapacity : In!ReadInputBuffer(s, k)
    /\ UNCHANGED outVars

Resume == In!Resume /\ UNCHANGED outVars

RecvFails == (In!ReceiveFails \/ In!WaitFails) /\ UNCHANGED outVars

Next == Send \/ Deliver \/ Finish \/ Extract \/ Resume \/ RecvFails

Spec == Init /\ [][Next]_vars

\* Running calls go on when the kernel lets them, the kernel delivers, and the
\* far end's application goes on extracting.  Nobody has to insert, or flush.
FairSpec ==
    /\ Spec
    /\ WF_vars((\E k \in 0..SockCapacity : Out!SendAll(k)) /\ UNCHANGED inVars)
    /\ WF_vars(Deliver) /\ WF_vars(Extract) /\ WF_vars(Resume)

-----------------------------------------------------------------------------
\* PROPERTIES

\* The bytes the far end's application has: the stream positions it read.
Data == [i \in 1..Len(read) |-> IF read[i] \in 1..Len(sent) THEN sent[read[i]] ELSE 0]

\* The two halves implement a FIFO of bytes.  A value being written straight
\* from the caller's memory has entered it as far as send() has taken it.
Stream == INSTANCE ByteStream
            WITH written <- accepted \o SubSeq(arg, 1, IF opc = "direct" THEN n ELSE 0),
                 got <- Data, broken <- torn \/ short \/ overtook
ImplementsStream == Stream!Spec

\* What was flushed gets, in the end, into the variables of an application that
\* keeps extracting, although the near end does nothing more.
FlushedIsRead ==
    \A m \in 1..MaxBytes : (flushed >= m ~> Len(read) + Len(dst) >= m \/ torn \/ short)
=============================================================================
