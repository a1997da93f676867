--------------------------- MODULE BufferedInput ----------------------------
(***************************************************************************)
(* The input half of fd::easy::buffered_socket: operator>> for values of a *)
(* fixed size, read_input_buffer() and recv_if_possible().                 *)
(*                                                                         *)
(* The k-th byte of the stream is the number k; memory that nothing was    *)
(* received into holds members of Junk.  _buffer_in and the output buffer  *)
(* are one allocation, Memory, of which the first InCapacity bytes are     *)
(* _buffer_in.                                                             *)
(***************************************************************************)
EXTENDS Integers, Sequences

CONSTANTS
    InCapacity,  \* _in_capacity
    OutCapacity, \* _out_capacity, the rest of the allocation
    Sizes,       \* byte sizes of the values the application extracts
    Junk,        \* what memory and variables nobody has written may hold
    MaxBytes,    \* bound: length of the stream
    MaxRead,     \* bound: bytes the application extracts
    MaxFailures  \* bound: recv() calls that fail or are cut short

ASSUME InAssumption ==
    /\ InCapacity \in Nat /\ OutCapacity \in Nat
    /\ Sizes \subseteq Nat \ {0}
    /\ Junk # {} /\ Junk \subseteq Nat \ (1..MaxBytes)
    /\ MaxBytes \in Nat /\ MaxRead \in Nat /\ MaxFailures \in Nat

Memory == 0..(InCapacity + OutCapacity - 1)

VARIABLES
    arrived,  \* bytes the kernel has received for this socket
    ended,    \* the peer has closed its end
    taken,    \* how many of them recv() has returned
    mem,      \* the allocation _buffer_in points to
    rd,       \* _in_rd
    size,     \* _in_size
    pc,       \* "idle", or "waitall": blocked in recv(MSG_WAITALL)
    req,      \* size of the value being extracted
    dst,      \* the bytes of it that are in the caller's variable
    read,     \* every byte operator>> has consumed, in order (history)
    short,    \* an operator>> took something for received that was not (history)
    failures  \* recv() calls that have failed or were cut short

vars == <<arrived, ended, taken, mem, rd, size, pc, req, dst, read, short, failures>>
peerVars == <<arrived, ended>>

TypeOK ==
    /\ arrived \in 0..MaxBytes /\ taken \in 0..arrived
    /\ ended \in BOOLEAN /\ short \in BOOLEAN
    /\ mem \in [Memory -> Nat]
    /\ size \in 0..InCapacity /\ rd \in 0..size
    /\ pc \in {"idle", "waitall"}
    /\ req \in Nat
    /\ dst \in Seq(Nat)
    /\ read \in Seq(Nat)
    /\ failures \in 0..MaxFailures

Init ==
    /\ arrived = 0 /\ taken = 0 /\ ended = FALSE
    /\ mem \in [Memory -> Junk]
    /\ rd = 0 /\ size = 0
    /\ pc = "idle" /\ req = 0 /\ dst = <<>> /\ read = <<>>
    /\ short = FALSE /\ failures = 0

-----------------------------------------------------------------------------
Pending == arrived - taken

\* Wrong variant: recv() is given _in_capacity, not what is left of it.
ReceivableWhole(k) ==
    IF size >= InCapacity \/ Pending = 0
    THEN k = 0
    ELSE k \in 1..Pending /\ k <= InCapacity

\* recv_if_possible(): recv(MSG_DONTWAIT) appends k bytes.  It appends none when
\* the buffer is full, at the end of the stream, and on EAGAIN, which is caught.
Receivable(k) ==
    IF size >= InCapacity \/ Pending = 0
    THEN k = 0
    ELSE k \in 1..Pending /\ size + k <= InCapacity

Received(k) ==
    [a \in Memory |-> IF a \in size..(size + k - 1) THEN taken + (a - size) + 1
                                                    ELSE mem[a]]

\* memmove(): m bytes of memory M from address a on.
Copy(M, a, m) == [i \in 1..m |-> M[a + i - 1]]

Start(s, k) ==
    /\ pc = "idle" /\ Len(read) + s <= MaxRead
    /\ Receivable(k)
    /\ mem' = Received(k) /\ taken' = taken + k
    /\ UNCHANGED <<peerVars, short, failures>>

\* Wrong variant: _in_rd is not moved past the value.
LocalStays(s, k) ==
    /\ Start(s, k)
    /\ rd + s < size + k
    /\ read' = read \o Copy(mem', rd, s)
    /\ size' = size + k
    /\ UNCHANGED <<rd, pc, req, dst>>

\* More than the value is in the buffer.
Local(s, k) ==
    /\ Start(s, k)
    /\ rd + s < size + k
    /\ read' = read \o Copy(mem', rd, s)
    /\ rd' = rd + s /\ size' = size + k
    /\ UNCHANGED <<pc, req, dst>>

\* Exactly the value is there: recv_size is 0 and the buffer is empty after it.
Exact(s, k) ==
    /\ Start(s, k)
    /\ rd + s = size + k
    /\ read' = read \o Copy(mem', rd, s)
    /\ rd' = 0 /\ size' = 0
    /\ UNCHANGED <<pc, req, dst>>

\* The value is not all there: what is there is copied, recv() waits for the rest.
Block(s, k) ==
    /\ Start(s, k)
    /\ rd + s > size + k
    /\ dst' = Copy(mem', rd, size + k - rd)
    /\ pc' = "waitall" /\ req' = s
    /\ size' = size + k
    /\ UNCHANGED <<rd, read>>

\* recv_if_possible() rethrows any other error: nothing has changed.
ReceiveFails ==
    /\ pc = "idle" /\ size < InCapacity
    /\ failures < MaxFailures /\ failures' = failures + 1
    /\ UNCHANGED <<peerVars, taken, mem, rd, size, pc, req, dst, read, short>>

-----------------------------------------------------------------------------
\* recv(MSG_WAITALL) takes k more bytes.
Wait(k) ==
    /\ pc = "waitall"
    /\ k \in 1..Pending /\ Len(dst) + k <= req
    /\ taken' = taken + k
    /\ UNCHANGED <<peerVars, mem, short, failures>>

Continued(k) == dst \o [i \in 1..k |-> taken + i]

WaitSome(k) ==
    /\ Wait(k) /\ Len(dst) + k < req
    /\ dst' = Continued(k)
    /\ UNCHANGED <<rd, size, pc, req, read>>

Return(value) ==
    /\ read' = read \o value
    /\ rd' = 0 /\ size' = 0
    /\ pc' = "idle" /\ req' = 0 /\ dst' = <<>>

\* Wrong variant: the buffer is not reset, as after a local copy.
WaitDoneKeeps(k) ==
    /\ Wait(k) /\ Len(dst) + k = req
    /\ read' = read \o Continued(k)
    /\ pc' = "idle" /\ req' = 0 /\ dst' = <<>>
    /\ UNCHANGED <<rd, size>>

WaitDone(k) ==
    /\ Wait(k) /\ Len(dst) + k = req
    /\ Return(Continued(k))

Waited == Len(dst) - (size - rd)   \* bytes the pending recv() has taken

\* Wrong variant: after the end of the stream the call goes on waiting.
WaitCutSpins(j) ==
    /\ pc = "waitall"
    /\ Waited > 0 /\ failures < MaxFailures /\ failures' = failures + 1
    /\ Return(dst \o [i \in 1..(req - Len(dst)) |-> j])
    /\ short' = TRUE
    /\ UNCHANGED <<peerVars, taken, mem>>

\* recv() returns less than it was asked for, at the end of the stream or when
\* it is interrupted after its first byte.  Its result is not looked at: the
\* rest of the caller's variable is what it was, and operator>> succeeds.
WaitCut(j) ==
    /\ pc = "waitall"
    /\ \/ Pending = 0 /\ ended /\ UNCHANGED failures
       \/ Waited > 0 /\ failures < MaxFailures /\ failures' = failures + 1
    /\ Return(dst \o [i \in 1..(req - Len(dst)) |-> j])
    /\ short' = TRUE
    /\ UNCHANGED <<peerVars, taken, mem>>

\* Wrong variant: the buffer is reset on the error path too.
WaitFailsResets ==
    /\ pc = "waitall" /\ Waited = 0
    /\ failures < MaxFailures /\ failures' = failures + 1
    /\ pc' = "idle" /\ req' = 0 /\ dst' = <<>>
    /\ rd' = 0 /\ size' = 0
    /\ UNCHANGED <<peerVars, taken, mem, read, short>>

\* recv() fails before its first byte: the exception leaves operator>> with
\* _in_rd and _in_size as they were.
WaitFails ==
    /\ pc = "waitall" /\ Waited = 0
    /\ failures < MaxFailures /\ failures' = failures + 1
    /\ pc' = "idle" /\ req' = 0 /\ dst' = <<>>
    /\ UNCHANGED <<peerVars, taken, mem, rd, size, read, short>>

-----------------------------------------------------------------------------
\* The peer's bytes arrive, in pieces of any size; the peer may close.
Arrive(k) ==
    /\ ~ended /\ arrived + k <= MaxBytes
    /\ arrived' = arrived + k
    /\ UNCHANGED <<ended, taken, mem, rd, size, pc, req, dst, read, short, failures>>

Close ==
    /\ ~ended /\ ended' = TRUE
    /\ UNCHANGED <<arrived, taken, mem, rd, size, pc, req, dst, read, short, failures>>

ReadInputBuffer(s, k) == Local(s, k) \/ Exact(s, k) \/ Block(s, k)

Resume ==
    \/ \E k \in 1..MaxBytes : WaitSome(k) \/ WaitDone(k)
    \/ \E j \in Junk : WaitCut(j)

Next ==
    \/ \E s \in Sizes, k \in 0..InCapacity : ReadInputBuffer(s, k)
    \/ ReceiveFails \/ Resume \/ WaitFails
    \/ \E k \in 1..MaxBytes : Arrive(k)
    \/ Close

Spec == Init /\ [][Next]_vars

-----------------------------------------------------------------------------
\* PROPERTIES

\* Until an operator>> is cut short, the application consumes the bytes of the
\* stream, each once and in order, whichever way they were split between the
\* buffer and the caller's variable and whichever calls failed in between.
ReadInOrder == ~short => \A i \in 1..Len(read) : read[i] = i

\* No byte recv() has returned is dropped: between two calls it has been read
\* or is in the buffer, at the place where the next call looks for it.
NothingDropped ==
    ~short /\ pc = "idle" =>
        /\ taken = Len(read) + (size - rd)
        /\ \A a \in rd..(size - 1) : mem[a] = Len(read) + 1 + (a - rd)

\* An operator>> that waits for bytes returns once the peer has closed.
ReadReturns == pc = "waitall" ~> pc = "idle"

\* Every byte of a value operator>> returns came from the peer ("errors are
\* propagated via exceptions"): a value that was cut short is no value.
ReadReceived == \A i \in 1..Len(read) : read[i] \in 1..arrived
=============================================================================
