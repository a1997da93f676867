---------------------------- MODULE StringInput -----------------------------
(***************************************************************************)
(* operator>>(std::string &) of fd::easy::buffered_socket on top of        *)
(* BufferedInput: recv_if_possible(), strlen() over the buffer, one        *)
(* read_input_buffer() per character, and the step over the '\0'.          *)
(***************************************************************************)
EXTENDS BufferedInput

CONSTANTS
    Nuls,       \* the stream positions that hold a '\0'
    MaxStrings  \* bound: string extractions

ASSUME StringAssumption == Nuls \subseteq 1..MaxBytes /\ MaxStrings \in Nat

VARIABLES
    todo,      \* the local variable size; NoString outside the operator
    whole,     \* the '\0' of the string had been received when strlen() ran
    strings,   \* string extractions begun so far
    undefined  \* the program has left its own memory; anything may follow

strVars == <<todo, whole, strings, undefined>>
allVars == <<vars, strVars>>

NoString == -1

StringTypeOK ==
    /\ todo \in {NoString} \cup Nat
    /\ whole \in BOOLEAN /\ undefined \in BOOLEAN
    /\ strings \in 0..MaxStrings
    /\ IF short THEN rd \in Nat /\ size \in 0..InCapacity ELSE TypeOK

StringInit ==
    /\ Init
    /\ todo = NoString /\ whole = FALSE
    /\ strings = 0 /\ undefined = FALSE

-----------------------------------------------------------------------------
\* Memory that holds no byte of the stream may be zero as well.
IsNul(b) == b = 0 \/ b \in Nuls

NulsFrom(M, a) == {z \in Memory : z >= a /\ IsNul(M[z])}

\* Wrong variant: the string is measured from _buffer_in.
StrlenFromStart(M, a, len) ==
    len \in NulsFrom(M, 0) /\ \A z \in NulsFrom(M, 0) : len <= z

\* len is what strlen() returns for address a: the distance of the first zero.
Strlen(M, a, len) ==
    a + len \in NulsFrom(M, a) /\ \A z \in NulsFrom(M, a) : a + len <= z

\* recv_if_possible(), then strlen(_buffer_in + _in_rd), which knows nothing of
\* _in_size and ends at the first zero it meets, received or not.
StringStart(k) ==
    /\ pc = "idle" /\ todo = NoString
    /\ strings < MaxStrings /\ strings' = strings + 1
    /\ Receivable(k)
    /\ mem' = Received(k) /\ taken' = taken + k /\ size' = size + k
    /\ whole' = (\E z \in NulsFrom(mem', rd) : z < size')
    /\ short' = (short \/ ~whole')
    /\ \/ /\ NulsFrom(mem', rd) = {}
          /\ undefined' = TRUE /\ UNCHANGED todo
       \/ /\ \E len \in Memory : Strlen(mem', rd, len) /\ todo' = len
          /\ UNCHANGED undefined
    /\ UNCHANGED <<peerVars, rd, pc, req, dst, read, failures>>

\* read_input_buffer() when _in_rd is within the buffer, and when it is not:
\* _in_size - _in_rd wraps around and memmove() is given a huge size.
ReadWithin(s, k) == rd <= size + k /\ ReadInputBuffer(s, k) /\ UNCHANGED undefined

ReadBeyond(s, k) ==
    /\ Start(s, k)
    /\ rd > size + k
    /\ undefined' = TRUE
    /\ UNCHANGED <<rd, size, pc, req, dst, read>>

\* One round of the loop; it ends at once or when the blocked recv() returns.
StringChar(k) ==
    /\ todo > 0
    /\ ReadWithin(1, k) \/ ReadBeyond(1, k)
    /\ todo' = IF pc' = "waitall" THEN todo ELSE todo - 1
    /\ UNCHANGED <<whole, strings>>

StringResume ==
    /\ Resume
    /\ todo' = IF todo > 0 /\ pc' = "idle" THEN todo - 1 ELSE todo
    /\ UNCHANGED <<whole, strings, undefined>>

\* "skip terminating '\0'"
StringEnd ==
    /\ todo = 0
    /\ rd' = rd + 1
    /\ read' = Append(read, IF rd \in Memory THEN mem[rd] ELSE 0)
    /\ todo' = NoString
    /\ UNCHANGED <<arrived, ended, taken, mem, size, pc, req, dst, short, failures>>
    /\ UNCHANGED <<whole, strings, undefined>>

\* An exception from any recv() leaves operator>> with the characters it has
\* already moved into val.
StringFails ==
    /\ (ReceiveFails /\ todo # 0) \/ WaitFails
    /\ todo' = NoString
    /\ UNCHANGED <<whole, strings, undefined>>

\* A value of a fixed size is extracted between strings.
FixedSize(s, k) ==
    /\ todo = NoString
    /\ ReadWithin(s, k) \/ ReadBeyond(s, k)
    /\ UNCHANGED <<todo, whole, strings>>

Peer == (Close \/ \E k \in 1..MaxBytes : Arrive(k)) /\ UNCHANGED strVars

StringNext ==
    /\ ~undefined
    /\ \/ \E k \in 0..InCapacity : StringStart(k) \/ StringChar(k)
       \/ \E s \in Sizes, k \in 0..InCapacity : FixedSize(s, k)
       \/ StringResume \/ StringEnd \/ StringFails
       \/ Peer

StringSpec == StringInit /\ [][StringNext]_allVars

\* A thread blocked in recv() is woken when there is something to return, and
\* the peer closes in the end; the peer need not send anything before.
StringFairSpec ==
    /\ StringSpec
    /\ WF_allVars(~undefined /\ StringResume)
    /\ WF_allVars(~undefined /\ Close /\ UNCHANGED strVars)

-----------------------------------------------------------------------------
\* PROPERTIES.  Those of BufferedInput hold of strings and values mixed: short is
\* set when strlen() measures a string that has not been received whole.

\* A received byte that operator>> steps over at the end of a string, without
\* giving it to the caller, is a terminating '\0' ("skip terminating '\0'").
SkipsTerminator == todo = 0 /\ rd < size => mem[rd] \in Nuls

\* That holds of a string whose '\0' had been received when strlen() ran: the
\* recv() calls of the loop, which run while it is taken apart, do not move it.  And
\* while strings arrive whole, no call leaves the memory of the object.
WholeSkipsTerminator ==
    /\ todo = 0 /\ whole => rd < size /\ mem[rd] \in Nuls
    /\ ~short => ~undefined
=============================================================================
