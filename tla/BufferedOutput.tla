--------------------------- MODULE BufferedOutput ---------------------------
(***************************************************************************)
(* The output half of fd::easy::buffered_socket: operator<<,               *)
(* write_output_buffer(), flush(), send_all() and the destructor, with the *)
(* kernel's send buffer below it.                                          *)
(*                                                                         *)
(* Only the identity of a byte matters: the k-th byte the application ever *)
(* offers is the number k.  One thread owns the object; send() blocks, so  *)
(* a call lasts several steps and the peer runs between them.              *)
(***************************************************************************)
EXTENDS Integers, Sequences, Functions

CONSTANTS
    OutCapacity,  \* _out_capacity
    Sizes,        \* byte sizes of the values the application inserts
    SockCapacity, \* bytes the kernel holds between the two ends
    MaxBytes,     \* bound: bytes the application offers
    MaxFailures   \* bound: send() calls that fail

ASSUME OutAssumption ==
    /\ OutCapacity \in Nat
    /\ Sizes \subseteq Nat \ {0}
    /\ SockCapacity \in Nat \ {0}
    /\ MaxBytes \in Nat
    /\ MaxFailures \in Nat

VARIABLES
    pc,       \* what the owning thread is doing, see States
    out,      \* _buffer_out[0 .. _out_size)
    arg,      \* bytes of the value the running operator<< inserts
    n,        \* send_all()'s n
    sent,     \* every byte the kernel has taken, in order (history)
    drained,  \* how many of them the peer has taken out again
    made,     \* bytes offered so far
    accepted, \* bytes of the insertions that returned, in order (history)
    flushed,  \* Len(accepted) when flush() last returned (history)
    overtook, \* a value was sent past smaller ones still buffered (history)
    torn,     \* a send_all() threw after it had sent something (history)
    since,    \* Len(sent) when one did so last (history)
    failures  \* send() calls that have failed

outVars == <<pc, out, arg, n, sent, accepted, made, flushed, torn, since,
             overtook, failures>>
vars == <<outVars, drained>>

\* direct: send_all(val); drain: send_all(_buffer_out) inside operator<<;
\* flush: send_all(_buffer_out) inside flush(); closed: after ~buffered_socket
Sending == {"direct", "drain", "flush"}
States == Sending \cup {"idle", "closed"}

TypeOK ==
    /\ pc \in States
    /\ out \in Seq(Nat) /\ Len(out) <= OutCapacity
    /\ arg \in Seq(Nat)
    /\ n \in Nat
    /\ sent \in Seq(Nat)
    /\ drained \in 0..Len(sent)
    /\ made \in 0..MaxBytes
    /\ accepted \in Seq(Nat)
    /\ flushed \in 0..Len(accepted)
    /\ torn \in BOOLEAN /\ since \in 0..Len(sent) /\ overtook \in BOOLEAN
    /\ failures \in 0..MaxFailures

Init ==
    /\ pc = "idle"
    /\ out = <<>> /\ arg = <<>> /\ sent = <<>> /\ accepted = <<>>
    /\ n = 0 /\ drained = 0 /\ made = 0 /\ flushed = 0 /\ failures = 0
    /\ torn = FALSE /\ since = 0 /\ overtook = FALSE

-----------------------------------------------------------------------------
\* The value of s bytes an operator<< is called with.
Value(s) == [i \in 1..s |-> made + i]

Offer(s) == pc = "idle" /\ made + s <= MaxBytes /\ made' = made + s

\* write_output_buffer(): a value as large as the buffer goes out at once.
InsertDirect(s) ==
    /\ Offer(s)
    /\ s >= OutCapacity
    /\ pc' = "direct" /\ arg' = Value(s) /\ n' = 0
    /\ overtook' = (overtook \/ out # <<>>)
    /\ UNCHANGED <<out, sent, drained, accepted, flushed, torn, since, failures>>

\* write_output_buffer(): the buffer has to be drained first.
InsertDrain(s) ==
    /\ Offer(s)
    /\ s < OutCapacity /\ Len(out) + s >= OutCapacity
    /\ pc' = "drain" /\ arg' = Value(s) /\ n' = 0
    /\ UNCHANGED <<out, sent, drained, accepted, flushed, torn, since, overtook, failures>>

\* Wrong variant: the second size check is missing.
InsertUnchecked(s) ==
    /\ Offer(s)
    /\ s < OutCapacity
    /\ out' = out \o Value(s)
    /\ accepted' = accepted \o Value(s)
    /\ UNCHANGED <<pc, arg, n, sent, drained, flushed, torn, since, overtook, failures>>

\* write_output_buffer(): the value fits, nothing is sent.
InsertBuffered(s) ==
    /\ Offer(s)
    /\ s < OutCapacity /\ Len(out) + s < OutCapacity
    /\ out' = out \o Value(s)
    /\ accepted' = accepted \o Value(s)
    /\ UNCHANGED <<pc, arg, n, sent, drained, flushed, torn, since, overtook, failures>>

Flush ==
    /\ pc = "idle"
    /\ pc' = "flush" /\ n' = 0
    /\ UNCHANGED <<out, arg, sent, drained, made, accepted, flushed, torn, since, overtook, failures>>

-----------------------------------------------------------------------------
\* send_all(buffer, size): buffer is Source, size is Len(Source).
Source == IF pc = "direct" THEN arg ELSE out

Room == SockCapacity - (Len(sent) - drained)

\* Wrong variant: send(buffer + n, size - n - 1).
TransferShort(k) ==
    /\ pc \in Sending
    /\ k <= Room /\ n + k < Len(Source)
    /\ sent' = sent \o SubSeq(Source, n + 1, n + k)
    /\ UNCHANGED <<drained, made, torn, since, overtook, failures>>

\* One send(buffer + n, size - n): the kernel takes k bytes; it blocks while
\* there is no room, unless nothing is left to send (flush() of an empty buffer).
Transfer(k) ==
    /\ pc \in Sending
    /\ k <= Room /\ n + k <= Len(Source)
    /\ k = 0 => Source = <<>>
    /\ sent' = sent \o SubSeq(Source, n + 1, n + k)
    /\ UNCHANGED <<drained, made, torn, since, overtook, failures>>

SendSome(k) ==
    /\ Transfer(k)
    /\ n + k # Len(Source)
    /\ n' = n + k
    /\ UNCHANGED <<pc, out, arg, accepted, flushed>>

Return == pc' = "idle" /\ arg' = <<>> /\ n' = 0

DirectReturns(k) ==
    /\ pc = "direct" /\ Transfer(k) /\ n + k = Len(Source)
    /\ accepted' = accepted \o arg
    /\ Return /\ UNCHANGED <<out, flushed>>

\* Wrong variant: _out_size is not reset after draining.
DrainKeeps(k) ==
    /\ pc = "drain" /\ Transfer(k) /\ n + k = Len(Source)
    /\ out' = out \o arg
    /\ accepted' = accepted \o arg
    /\ Return /\ UNCHANGED flushed

DrainReturns(k) ==
    /\ pc = "drain" /\ Transfer(k) /\ n + k = Len(Source)
    /\ out' = arg                                   \* _out_size = 0, then append
    /\ accepted' = accepted \o arg
    /\ Return /\ UNCHANGED flushed

\* Wrong variants: one send() taken for the whole buffer; _out_size not reset.
FlushSendsOnce(k) ==
    /\ pc = "flush" /\ Transfer(k)
    /\ out' = <<>>
    /\ flushed' = Len(accepted)
    /\ Return /\ UNCHANGED accepted

FlushKeeps(k) ==
    /\ pc = "flush" /\ Transfer(k) /\ n + k = Len(Source)
    /\ flushed' = Len(accepted)
    /\ Return /\ UNCHANGED <<out, accepted>>

FlushReturns(k) ==
    /\ pc = "flush" /\ Transfer(k) /\ n + k = Len(Source)
    /\ out' = <<>>
    /\ flushed' = Len(accepted)
    /\ Return /\ UNCHANGED accepted

\* Wrong variant: _out_size is reset although the sending failed.
SendFailsResets ==
    /\ pc \in Sending /\ failures < MaxFailures
    /\ failures' = failures + 1
    /\ torn' = (torn \/ n > 0)
    /\ since' = IF n > 0 THEN Len(sent) ELSE since
    /\ out' = <<>>
    /\ Return
    /\ UNCHANGED <<sent, drained, made, accepted, flushed, overtook>>

\* send() fails and the exception leaves operator<< or flush(): n is lost,
\* _out_size keeps its value, the value being inserted is not buffered.
SendFails ==
    /\ pc \in Sending /\ failures < MaxFailures
    /\ failures' = failures + 1
    /\ torn' = (torn \/ n > 0)
    /\ since' = IF n > 0 THEN Len(sent) ELSE since
    /\ Return
    /\ UNCHANGED <<out, sent, drained, made, accepted, flushed, overtook>>

\* ~buffered_socket() frees the buffer without sending it and closes the socket.
Destroy ==
    /\ pc = "idle"
    /\ pc' = "closed" /\ out' = <<>>
    /\ UNCHANGED <<arg, n, sent, drained, made, accepted, flushed, torn, since, overtook, failures>>

\* The peer takes k bytes out of the kernel's buffers.
Drain(k) ==
    /\ drained + k <= Len(sent)
    /\ drained' = drained + k
    /\ UNCHANGED outVars

-----------------------------------------------------------------------------
Insert(s) == InsertDirect(s) \/ InsertDrain(s) \/ InsertBuffered(s)

SendAll(k) == SendSome(k) \/ DirectReturns(k) \/ DrainReturns(k) \/ FlushReturns(k)

Step ==
    \/ \E s \in Sizes : Insert(s)
    \/ Flush
    \/ \E k \in 0..SockCapacity : SendAll(k)
    \/ SendFails
    \/ Destroy

Next == Step \/ \E k \in 1..SockCapacity : Drain(k)

Spec == Init /\ [][Next]_vars

\* A thread inside send_all() goes on when the kernel has room, and the peer
\* keeps reading: nothing else is assumed to happen.
FairSpec ==
    /\ Spec
    /\ WF_vars(\E k \in 0..SockCapacity : SendAll(k))
    /\ WF_vars(\E k \in 1..SockCapacity : Drain(k))
-----------------------------------------------------------------------------
\* PROPERTIES

\* Bytes reach the kernel in the order they were inserted: partial sends, and
\* calls that fail before their first byte, neither reorder, repeat nor skip any.
InsertionOrder ==
    ~torn => \A i \in 1..Len(sent) :
                /\ i <= Len(accepted \o arg)
                /\ sent[i] = (accepted \o arg)[i]

\* So it is until a value as large as the buffer is inserted while smaller ones
\* are in it: values of any size, sent from the buffer or straight from memory.
SentInOrder == ~overtook => InsertionOrder

\* Whatever send() calls failed on the way, a byte whose operator<< returned was
\* handed to the kernel or is still in the buffer, where a later call retries it.
NothingLost ==
    pc # "closed" => Range(accepted) \subseteq Range(sent) \cup Range(out)

\* Once flush() has returned, everything inserted before it is with the kernel:
\* destroying the object, which discards the buffer, cannot lose it any more.
FlushDurable == \A i \in 1..flushed : accepted[i] \in Range(sent)

\* No byte is sent twice, however often calls fail and are repeated, unless a
\* send_all() is torn in between; and from there on none is sent twice again: what
\* a torn call makes the next one repeat, it repeats once.
SentOnce == \A i, j \in (since + 1)..Len(sent) : sent[i] = sent[j] => i = j

\* operator<< and flush() come back, whatever the chunks the kernel takes.
CallsReturn == pc \in Sending ~> pc = "idle"
=============================================================================
