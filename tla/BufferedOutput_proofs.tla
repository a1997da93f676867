----------------------- MODULE BufferedOutput_proofs ------------------------
(***************************************************************************)
(* Proofs about the output half of buffered_socket, for buffers, kernels   *)
(* and values of any size: its variables have their types; bytes are sent  *)
(* in the order they were inserted until a large value overtakes; nothing  *)
(* an insertion took over is lost; what was flushed is with the kernel.    *)
(***************************************************************************)
EXTENDS BufferedOutput, SequenceTheorems, TLAPS

-----------------------------------------------------------------------------
\* LEMMAS

\* The bytes of a value are a sequence of as many naturals.
LEMMA ValueType ==
    ASSUME made \in Nat, NEW s \in Nat
    PROVE  Value(s) \in Seq(Nat) /\ Len(Value(s)) = s
<1>1. Value(s) \in [1..s -> Nat]
  BY SMT DEF Value
<1>2. Value(s) \in Seq(Nat)
  BY <1>1, SMT
<1>3. Len(Value(s)) = s
  BY <1>1, <1>2, LenProperties, SMT DEF Value
<1> QED BY <1>2, <1>3

\* What one send() appends to the stream: k bytes of the buffer from n on.
LEMMA SliceAppended ==
    ASSUME NEW t \in Seq(Nat), NEW b \in Seq(Nat), NEW m \in Nat, NEW k \in Nat,
           m + k <= Len(b)
    PROVE  LET u == t \o SubSeq(b, m + 1, m + k) IN
             /\ u \in Seq(Nat)
             /\ Len(u) = Len(t) + k
             /\ \A i \in 1..Len(t) : u[i] = t[i]
             /\ \A i \in 1..k : u[Len(t) + i] = b[m + i]
<1> DEFINE c == SubSeq(b, m + 1, m + k)
<1>1. \A i \in (m + 1)..(m + k) : b[i] \in Nat
  BY LenProperties, SMT
<1>2. /\ c \in Seq(Nat)
      /\ Len(c) = IF m + 1 <= m + k THEN (m + k) - (m + 1) + 1 ELSE 0
      /\ \A i \in 1..((m + k) - (m + 1) + 1) : c[i] = b[m + 1 + i - 1]
  BY <1>1, SubSeqProperties, SMT
<1> HIDE DEF c
<1>3. Len(c) = k /\ \A i \in 1..k : c[i] = b[m + i]
  <2>1. Len(c) = k
    BY <1>2, SMT
  <2>2. ASSUME NEW i \in 1..k PROVE c[i] = b[m + i]
    <3>1. i \in 1..((m + k) - (m + 1) + 1) /\ m + 1 + i - 1 = m + i
      BY SMT
    <3> QED BY <1>2, <3>1
  <2> QED BY <2>1, <2>2
<1>4. /\ t \o c \in Seq(Nat)
      /\ Len(t \o c) = Len(t) + Len(c)
      /\ \A i \in 1..(Len(t) + Len(c)) :
            (t \o c)[i] = IF i <= Len(t) THEN t[i] ELSE c[i - Len(t)]
  BY <1>2, ConcatProperties
<1>5. /\ Len(t \o c) = Len(t) + k
      /\ \A i \in 1..Len(t) : (t \o c)[i] = t[i]
      /\ \A i \in 1..k : (t \o c)[Len(t) + i] = c[i]
  BY <1>3, <1>4, LenProperties, SMT
<1> QED BY <1>3, <1>4, <1>5 DEF c

-----------------------------------------------------------------------------
\* TYPES

\* send_all() stays inside its buffer, and what it is not doing leaves no trace.
Cursor ==
    /\ n <= Len(Source)
    /\ pc \notin {"direct", "drain"} => arg = <<>>
    /\ pc = "drain" => Len(arg) < OutCapacity
    /\ pc \notin Sending => n = 0

TypeInv == TypeOK /\ Cursor

\* One send(): the next k bytes of the buffer are in the stream.
LEMMA TransferAppends ==
    ASSUME TypeInv, NEW k \in Nat, Transfer(k)
    PROVE  /\ sent' \in Seq(Nat) /\ Len(sent') = Len(sent) + k
           /\ \A i \in 1..Len(sent) : sent'[i] = sent[i]
           /\ \A i \in 1..k : sent'[Len(sent) + i] = Source[n + i]
<1> DEFINE b == Source
           m == n
<1>1. sent \in Seq(Nat) /\ b \in Seq(Nat) /\ m \in Nat
  BY DEF TypeInv, TypeOK, Source
<1>2. m + k <= Len(b) /\ sent' = sent \o SubSeq(b, m + 1, m + k)
  BY DEF Transfer
<1> HIDE DEF b, m
<1>3. LET u == sent \o SubSeq(b, m + 1, m + k) IN
        /\ u \in Seq(Nat) /\ Len(u) = Len(sent) + k
        /\ \A i \in 1..Len(sent) : u[i] = sent[i]
        /\ \A i \in 1..k : u[Len(sent) + i] = b[m + i]
  BY <1>1, <1>2, SliceAppended
<1> QED BY <1>2, <1>3 DEF b, m

\* What Transfer(k) gives: the bytes are in the stream, and it has its type.
LEMMA TransferTypes ==
    ASSUME TypeInv, NEW k \in Nat, Transfer(k)
    PROVE  /\ sent' \in Seq(Nat) /\ Len(sent') = Len(sent) + k
           /\ drained' \in 0..Len(sent') /\ made' \in 0..MaxBytes
           /\ torn' \in BOOLEAN /\ since' \in 0..Len(sent')
           /\ overtook' \in BOOLEAN /\ failures' \in 0..MaxFailures
<1>1. Source \in Seq(Nat) /\ n \in Nat /\ sent \in Seq(Nat)
  BY DEF TypeInv, TypeOK, Source
<1>3. sent' \in Seq(Nat) /\ Len(sent') = Len(sent) + k
  BY TransferAppends
<1>4. drained' \in 0..Len(sent') /\ since' \in 0..Len(sent')
  BY <1>1, <1>3, LenProperties, SMT DEF Transfer, TypeInv, TypeOK
<1> QED BY <1>3, <1>4 DEF Transfer, TypeInv, TypeOK

LEMMA TypeInvStep ==
    ASSUME OutAssumption, TypeInv, [Next]_vars
    PROVE  TypeInv'
<1> USE DEF TypeInv
<1>a. /\ Len(out) \in Nat /\ Len(arg) \in Nat /\ Len(sent) \in Nat /\ Len(accepted) \in Nat
      /\ Source \in Seq(Nat) /\ Len(Source) \in Nat
      /\ made \in Nat /\ OutCapacity \in Nat /\ SockCapacity \in Nat
  BY LenProperties, SMT DEF TypeOK, OutAssumption, Source
<1>c. Len(out) <= OutCapacity /\ flushed \in 0..Len(accepted)
  BY DEF TypeOK
<1>b. /\ Len(<<>>) = 0 /\ <<>> \in Seq(Nat)
  BY SMT
<1>1. ASSUME NEW s \in Sizes, InsertDirect(s) PROVE TypeInv'
  <2>1. s \in Nat /\ Value(s) \in Seq(Nat) /\ Len(Value(s)) = s
    BY <1>a, ValueType DEF OutAssumption
  <2>2. TypeOK'
    BY <1>1, <2>1, <1>a DEF InsertDirect, Offer, TypeOK, States, Sending
  <2>3. Cursor'
    BY <1>1, <2>1, <1>a DEF InsertDirect, Cursor, Source, Sending
  <2> QED BY <2>2, <2>3
<1>2. ASSUME NEW s \in Sizes, InsertDrain(s) PROVE TypeInv'
  <2>1. s \in Nat /\ Value(s) \in Seq(Nat) /\ Len(Value(s)) = s
    BY <1>a, ValueType DEF OutAssumption
  <2>2. TypeOK'
    BY <1>2, <2>1, <1>a DEF InsertDrain, Offer, TypeOK, States, Sending
  <2>3. Cursor'
    BY <1>2, <2>1, <1>a DEF InsertDrain, Cursor, Source, Sending
  <2> QED BY <2>2, <2>3
<1>3. ASSUME NEW s \in Sizes, InsertBuffered(s) PROVE TypeInv'
  <2>1. s \in Nat /\ Value(s) \in Seq(Nat) /\ Len(Value(s)) = s
    BY <1>a, ValueType DEF OutAssumption
  <2>2. /\ out' \in Seq(Nat) /\ Len(out') = Len(out) + s
        /\ accepted' \in Seq(Nat) /\ Len(accepted') = Len(accepted) + s
    BY <1>3, <2>1, ConcatProperties DEF InsertBuffered, TypeOK
  <2>3. Len(out') <= OutCapacity /\ flushed' \in 0..Len(accepted') /\ made' \in 0..MaxBytes
    BY <1>3, <2>1, <2>2, <1>a, <1>c, SMT DEF InsertBuffered, Offer
  <2>4. TypeOK'
    BY <1>3, <2>2, <2>3 DEF InsertBuffered, TypeOK
  <2>5. n' = 0 /\ arg' = <<>> /\ pc' = "idle" /\ n' <= Len(Source')
    BY <1>3, <2>2, <1>a, <2>1, SMT DEF InsertBuffered, Offer, Cursor, Source, Sending
  <2> QED BY <2>4, <2>5 DEF Cursor
<1>4. CASE Flush
  <2>1. TypeOK'
    BY <1>4 DEF Flush, TypeOK, States, Sending
  <2>2. Cursor'
    BY <1>4, <1>a DEF Flush, Cursor, Source, Sending
  <2> QED BY <2>1, <2>2
<1>5. ASSUME NEW k \in 0..SockCapacity, SendSome(k) PROVE TypeInv'
  <2>1. k \in Nat /\ Transfer(k)
    BY <1>5, <1>a DEF SendSome
  <2>2. TypeOK'
    BY <1>5, <2>1, TransferTypes DEF SendSome, TypeOK
  <2>3. Cursor'
    BY <1>5, <2>1, <1>a DEF SendSome, Transfer, Cursor, Source, Sending
  <2> QED BY <2>2, <2>3
<1>6. ASSUME NEW k \in 0..SockCapacity, DirectReturns(k) PROVE TypeInv'
  <2>1. k \in Nat /\ Transfer(k)
    BY <1>6, <1>a DEF DirectReturns
  <2>2. accepted' \in Seq(Nat) /\ Len(accepted') = Len(accepted) + Len(arg)
    BY <1>6, ConcatProperties DEF DirectReturns, TypeOK
  <2>3. flushed' \in 0..Len(accepted')
    BY <1>6, <2>2, <1>a, SMT DEF DirectReturns, TypeOK
  <2>4. TypeOK'
    BY <1>6, <2>1, <2>2, <2>3, <1>b, TransferTypes DEF DirectReturns, Return, TypeOK, States
  <2>5. Cursor'
    BY <1>6, <1>a DEF DirectReturns, Return, Cursor, Source, Sending
  <2> QED BY <2>4, <2>5
<1>7. ASSUME NEW k \in 0..SockCapacity, DrainReturns(k) PROVE TypeInv'
  <2>1. k \in Nat /\ Transfer(k)
    BY <1>7, <1>a DEF DrainReturns
  <2>2. accepted' \in Seq(Nat) /\ Len(accepted') = Len(accepted) + Len(arg)
    BY <1>7, ConcatProperties DEF DrainReturns, TypeOK
  <2>3. flushed' \in 0..Len(accepted')
    BY <1>7, <2>2, <1>a, SMT DEF DrainReturns, TypeOK
  <2>6. Len(out') <= OutCapacity
    BY <1>7, <1>a DEF DrainReturns, Cursor
  <2>4. TypeOK'
    BY <1>7, <2>6, <2>1, <2>2, <2>3, <1>b, TransferTypes DEF DrainReturns, Return, TypeOK, States
  <2>5. Cursor'
    BY <1>7, <1>a DEF DrainReturns, Return, Cursor, Source, Sending, TypeOK
  <2> QED BY <2>4, <2>5
<1>8. ASSUME NEW k \in 0..SockCapacity, FlushReturns(k) PROVE TypeInv'
  <2>1. k \in Nat /\ Transfer(k)
    BY <1>8, <1>a DEF FlushReturns
  <2>2. flushed' \in 0..Len(accepted') /\ Len(out') <= OutCapacity
    BY <1>8, <1>a, <1>b, SMT DEF FlushReturns, TypeOK
  <2>3. TypeOK'
    BY <1>8, <2>1, <2>2, <1>b, TransferTypes DEF FlushReturns, Return, TypeOK, States
  <2>4. Cursor'
    BY <1>8, <1>b DEF FlushReturns, Return, Cursor, Source, Sending
  <2> QED BY <2>3, <2>4
<1>9. CASE SendFails
  <2>1. failures' \in 0..MaxFailures
    BY <1>9, SMT DEF SendFails, TypeOK, OutAssumption
  <2>4. since' \in 0..Len(sent')
    BY <1>9, <1>a, SMT DEF SendFails, TypeOK
  <2>2. TypeOK'
    BY <1>9, <2>1, <2>4, <1>b DEF SendFails, Return, TypeOK, States
  <2>3. Cursor'
    BY <1>9, <1>a DEF SendFails, Return, Cursor, Source, Sending
  <2> QED BY <2>2, <2>3
<1>10. CASE Destroy
  <2>1. TypeOK'
    BY <1>10, <1>a, <1>b DEF Destroy, TypeOK, States
  <2>2. Cursor'
    BY <1>10, <1>b DEF Destroy, Cursor, Source, Sending
  <2> QED BY <2>1, <2>2
<1>11. ASSUME NEW k \in 1..SockCapacity, Drain(k) PROVE TypeInv'
  <2>1. drained' \in 0..Len(sent')
    BY <1>11, <1>a, SMT DEF Drain, outVars, TypeOK
  <2>2. TypeOK'
    BY <1>11, <2>1 DEF Drain, outVars, TypeOK
  <2>3. Cursor'
    BY <1>11 DEF Drain, outVars, Cursor, Source
  <2> QED BY <2>2, <2>3
<1>12. CASE UNCHANGED vars
  BY <1>12 DEF vars, outVars, TypeOK, Cursor, Source
<1> QED
  BY <1>1, <1>2, <1>3, <1>4, <1>5, <1>6, <1>7, <1>8, <1>9, <1>10, <1>11, <1>12
  DEF Next, Step, Insert, SendAll

LEMMA TypeInvInit == ASSUME Init PROVE TypeInv
<1>1. <<>> \in Seq(Nat) /\ Len(<<>>) = 0
  BY SMT
<1>2. torn \in BOOLEAN /\ overtook \in BOOLEAN /\ pc \in States
  BY DEF Init, States
<1>3. TypeOK
  BY <1>1, <1>2, OutAssumption, SMT DEF Init, TypeOK, OutAssumption
<1>4. Cursor
  BY <1>1 DEF Init, Cursor, Source, Sending
<1> QED BY <1>3, <1>4 DEF TypeInv

\* The variables of the output half keep their types: in particular _out_size
\* never passes _out_capacity, and n never the size send_all() was given, whatever
\* is inserted and whatever send() does.
THEOREM TypeCorrect == Spec => [](TypeOK /\ Cursor)
<1>1. Init => TypeInv
  BY TypeInvInit
<1>2. TypeInv /\ [Next]_vars => TypeInv'
  BY OutAssumption, TypeInvStep
<1>3. TypeInv => TypeOK /\ Cursor
  BY DEF TypeInv
<1> QED BY <1>1, <1>2, <1>3, PTL DEF Spec

-----------------------------------------------------------------------------
\* ORDER

\* The argument for SentInOrder.  Unless a send_all() was torn or a value was sent
\* past buffered ones, the kernel has a prefix of what was inserted, and the
\* buffer, less the n bytes of it that a running send_all() has sent, holds the
\* rest.
InOrder ==
    /\ Len(sent) <= Len(accepted)
    /\ \A i \in 1..Len(sent) : sent[i] = accepted[i]

RestBuffered ==
    /\ n <= Len(sent)
    /\ Len(sent) - n + Len(out) = Len(accepted)
    /\ \A j \in 1..Len(out) : out[j] = accepted[Len(sent) - n + j]

\* While a value is sent straight from memory the buffer is empty, and the kernel
\* has all that was inserted before and the first n bytes of the value.
DirectInOrder ==
    /\ out = <<>>
    /\ Len(sent) = Len(accepted) + n
    /\ \A i \in 1..Len(accepted) : sent[i] = accepted[i]
    /\ \A j \in 1..n : sent[Len(accepted) + j] = arg[j]

OrderInv ==
    ~torn /\ ~overtook =>
        IF pc = "direct" THEN DirectInOrder
                         ELSE InOrder /\ (pc # "closed" => RestBuffered)

\* A step of send_all() over the buffer keeps what OrderInv says of the stream.
LEMMA TransferInOrder ==
    ASSUME TypeInv, OrderInv, ~torn, ~overtook, pc # "direct", NEW k \in Nat, Transfer(k)
    PROVE  /\ Len(sent') = Len(sent) + k /\ Len(sent') <= Len(accepted)
           /\ \A i \in 1..Len(sent') : sent'[i] = accepted[i]
           /\ Source = out /\ RestBuffered
<1>1. Source = out /\ RestBuffered /\ InOrder
  BY DEF Source, OrderInv, Transfer, Sending
<1>2. /\ out \in Seq(Nat) /\ sent \in Seq(Nat) /\ n \in Nat
      /\ Len(out) \in Nat /\ Len(sent) \in Nat /\ Len(accepted) \in Nat
  BY LenProperties DEF TypeInv, TypeOK
<1>3. n + k <= Len(out) /\ sent' = sent \o SubSeq(out, n + 1, n + k)
  BY <1>1 DEF Transfer
<1>4. /\ Len(sent') = Len(sent) + k
      /\ \A i \in 1..Len(sent) : sent'[i] = sent[i]
      /\ \A i \in 1..k : sent'[Len(sent) + i] = out[n + i]
  BY <1>1, TransferAppends
<1>5. Len(sent') <= Len(accepted)
  BY <1>1, <1>2, <1>3, <1>4, SMT DEF RestBuffered
<1>6. ASSUME NEW i \in 1..Len(sent') PROVE sent'[i] = accepted[i]
  <2>1. CASE i <= Len(sent)
    BY <2>1, <1>1, <1>2, <1>4, SMT DEF InOrder
  <2>2. CASE i > Len(sent)
    <3> DEFINE j == i - Len(sent)
    <3>1. j \in 1..k /\ n + j \in 1..Len(out) /\ i = Len(sent) + j
          /\ Len(sent) - n + (n + j) = i
      BY <2>2, <1>2, <1>3, <1>4, SMT
    <3> HIDE DEF j
    <3>2. sent'[i] = out[n + j]
      BY <3>1, <1>4
    <3>3. out[n + j] = accepted[Len(sent) - n + (n + j)]
      BY <3>1, <1>1 DEF RestBuffered
    <3> QED BY <3>1, <3>2, <3>3
  <2> QED BY <2>1, <2>2, <1>2, <1>4, SMT
<1> QED BY <1>1, <1>4, <1>5, <1>6

\* A step of send_all() over a value: the next k bytes of it are in the stream.
LEMMA TransferDirect ==
    ASSUME TypeInv, OrderInv, ~torn, ~overtook, pc = "direct", NEW k \in Nat, Transfer(k)
    PROVE  /\ n + k <= Len(arg) /\ out = <<>>
           /\ Len(sent') = Len(accepted) + (n + k)
           /\ \A i \in 1..Len(accepted) : sent'[i] = accepted[i]
           /\ \A j \in 1..(n + k) : sent'[Len(accepted) + j] = arg[j]
<1>1. Source = arg /\ DirectInOrder
  BY DEF Source, OrderInv
<1>2. /\ arg \in Seq(Nat) /\ sent \in Seq(Nat) /\ n \in Nat
      /\ Len(arg) \in Nat /\ Len(sent) \in Nat /\ Len(accepted) \in Nat
  BY LenProperties DEF TypeInv, TypeOK
<1>3. n + k <= Len(arg) /\ sent' = sent \o SubSeq(arg, n + 1, n + k)
  BY <1>1 DEF Transfer
<1>4. /\ Len(sent') = Len(sent) + k
      /\ \A i \in 1..Len(sent) : sent'[i] = sent[i]
      /\ \A i \in 1..k : sent'[Len(sent) + i] = arg[n + i]
  BY <1>1, TransferAppends
<1>5. Len(sent) = Len(accepted) + n
  BY <1>1 DEF DirectInOrder
<1>6. Len(sent') = Len(accepted) + (n + k)
  BY <1>2, <1>4, <1>5, SMT
<1>7. ASSUME NEW i \in 1..Len(accepted) PROVE sent'[i] = accepted[i]
  <2>1. i \in 1..Len(sent)
    BY <1>2, <1>5, SMT
  <2> QED BY <2>1, <1>1, <1>4 DEF DirectInOrder
<1>8. ASSUME NEW j \in 1..(n + k) PROVE sent'[Len(accepted) + j] = arg[j]
  <2>1. CASE j <= n
    <3>1. j \in 1..n /\ Len(accepted) + j \in 1..Len(sent)
      BY <2>1, <1>2, <1>5, SMT
    <3> QED BY <3>1, <1>1, <1>4 DEF DirectInOrder
  <2>2. CASE j > n
    <3> DEFINE i == j - n
    <3>1. i \in 1..k /\ n + i = j /\ Len(sent) + i = Len(accepted) + j
      BY <2>2, <1>2, <1>5, SMT
    <3> HIDE DEF i
    <3>2. sent'[Len(sent) + i] = arg[n + i]
      BY <3>1, <1>4
    <3> QED BY <3>1, <3>2
  <2> QED BY <2>1, <2>2, <1>2, SMT
<1> QED BY <1>1, <1>3, <1>6, <1>7, <1>8 DEF DirectInOrder

LEMMA OrderInvStep ==
    ASSUME OutAssumption, TypeInv, OrderInv, [Next]_vars
    PROVE  OrderInv'
<1>a. /\ Len(out) \in Nat /\ Len(arg) \in Nat /\ Len(sent) \in Nat /\ Len(accepted) \in Nat
      /\ out \in Seq(Nat) /\ arg \in Seq(Nat) /\ sent \in Seq(Nat) /\ accepted \in Seq(Nat)
      /\ made \in Nat /\ n \in Nat /\ OutCapacity \in Nat /\ SockCapacity \in Nat
  BY LenProperties, SMT DEF TypeInv, TypeOK, OutAssumption
<1>1. ASSUME NEW s \in Sizes, InsertDirect(s) PROVE OrderInv'
  <2> SUFFICES ASSUME ~torn, ~overtook' PROVE DirectInOrder'
    BY <1>1 DEF InsertDirect, OrderInv
  <2>1. pc = "idle" /\ ~overtook /\ out = <<>> /\ n = 0
    BY <1>1 DEF InsertDirect, Offer, TypeInv, Cursor, Sending
  <2>2. InOrder /\ RestBuffered
    BY <2>1 DEF OrderInv
  <2>3. Len(sent) = Len(accepted)
    <3>1. Len(out) = 0
      BY <2>1, SMT
    <3> QED BY <3>1, <2>1, <2>2, <1>a, SMT DEF RestBuffered
  <2>4. out' = out /\ n' = 0 /\ sent' = sent /\ accepted' = accepted
    BY <1>1 DEF InsertDirect
  <2>5. Len(sent') = Len(accepted') + n'
    BY <2>3, <2>4, <1>a, SMT
  <2>6. \A i \in 1..Len(accepted') : sent'[i] = accepted'[i]
    BY <2>2, <2>3, <2>4 DEF InOrder
  <2>7. \A j \in 1..n' : sent'[Len(accepted') + j] = arg'[j]
    BY <2>4, SMT
  <2> QED BY <2>1, <2>4, <2>5, <2>6, <2>7 DEF DirectInOrder
<1>2. ASSUME NEW s \in Sizes, InsertDrain(s) PROVE OrderInv'
  <2>1. n = 0
    BY <1>2 DEF InsertDrain, Offer, TypeInv, Cursor, Sending
  <2> QED BY <1>2, <2>1 DEF InsertDrain, Offer, OrderInv, InOrder, RestBuffered
<1>3. ASSUME NEW s \in Sizes, InsertBuffered(s) PROVE OrderInv'
  <2> SUFFICES ASSUME ~torn, ~overtook PROVE InOrder' /\ RestBuffered'
    BY <1>3 DEF InsertBuffered, Offer, OrderInv
  <2> DEFINE b == Value(s)
  <2>1. b \in Seq(Nat) /\ Len(b) \in Nat
    BY <1>a, ValueType, LenProperties DEF OutAssumption
  <2> HIDE DEF b
  <2>2. out' = out \o b /\ accepted' = accepted \o b
    BY <1>3 DEF InsertBuffered, b
  <2>3. n = 0 /\ n' = 0 /\ sent' = sent /\ InOrder /\ RestBuffered
    BY <1>3 DEF InsertBuffered, Offer, OrderInv, TypeInv, Cursor, Sending
  <2>4. /\ Len(out') = Len(out) + Len(b)
        /\ \A i \in 1..(Len(out) + Len(b)) :
              out'[i] = IF i <= Len(out) THEN out[i] ELSE b[i - Len(out)]
        /\ Len(accepted') = Len(accepted) + Len(b)
        /\ \A i \in 1..(Len(accepted) + Len(b)) :
              accepted'[i] = IF i <= Len(accepted) THEN accepted[i] ELSE b[i - Len(accepted)]
    BY <1>a, <2>1, <2>2, ConcatProperties
  <2>5. InOrder'
    <3>1. Len(sent') <= Len(accepted')
      BY <1>a, <2>1, <2>3, <2>4, SMT DEF InOrder
    <3>2. ASSUME NEW i \in 1..Len(sent') PROVE sent'[i] = accepted'[i]
      <4>1. i \in 1..Len(sent) /\ i \in 1..(Len(accepted) + Len(b)) /\ i <= Len(accepted)
        BY <1>a, <2>1, <2>3, <3>1, SMT DEF InOrder
      <4> QED BY <4>1, <2>3, <2>4 DEF InOrder
    <3> QED BY <3>1, <3>2 DEF InOrder
  <2>6. RestBuffered'
    <3>1. Len(sent) + Len(out) = Len(accepted) /\ Len(sent') - n' = Len(sent)
      BY <1>a, <2>3, SMT DEF RestBuffered
    <3>2. n' <= Len(sent') /\ Len(sent') - n' + Len(out') = Len(accepted')
      BY <1>a, <2>1, <2>3, <2>4, <3>1, SMT
    <3>3. ASSUME NEW j \in 1..Len(out') PROVE out'[j] = accepted'[Len(sent) + j]
      <4>1. j \in 1..(Len(out) + Len(b)) /\ Len(sent) + j \in 1..(Len(accepted) + Len(b))
        BY <1>a, <2>1, <2>4, <3>1, SMT
      <4>2. CASE j <= Len(out)
        <5>1. Len(sent) + j <= Len(accepted) /\ j \in 1..Len(out) /\ Len(sent) - n + j = Len(sent) + j
          BY <4>1, <4>2, <1>a, <2>3, <3>1, SMT
        <5> QED BY <5>1, <4>1, <4>2, <2>3, <2>4 DEF RestBuffered
      <4>3. CASE j > Len(out)
        <5>0. Len(sent) + Len(out) = Len(accepted)
          BY <3>1
        <5>1. Len(sent) + j > Len(accepted)
          BY <4>1, <4>3, <1>a, <5>0, SMT
        <5>4. (Len(sent) + j) - Len(accepted) = j - Len(out)
          <6>1. j \in Int
            BY <4>1, <1>a, <2>1, SMT
          <6>2. \A x, y, w \in Int : (x + w) - (x + y) = w - y
            BY SMT
          <6>3. Len(sent) \in Int /\ Len(out) \in Int
            BY <1>a, SMT
          <6>4. (Len(sent) + j) - (Len(sent) + Len(out)) = j - Len(out)
            BY <6>1, <6>2, <6>3
          <6> QED BY <6>4, <5>0
        <5>2. out'[j] = b[j - Len(out)]
          BY <4>1, <4>3, <2>4, <1>a, SMT
        <5>3. accepted'[Len(sent) + j] = b[Len(sent) + j - Len(accepted)]
          BY <4>1, <5>1, <2>4, <1>a, SMT
        <5> QED BY <5>4, <5>2, <5>3
      <4> QED BY <4>1, <4>2, <4>3, <1>a, <2>1, SMT
    <3> QED BY <3>1, <3>2, <3>3 DEF RestBuffered
  <2> QED BY <2>5, <2>6
<1>4. CASE Flush
  <2>1. n = 0
    BY <1>4 DEF Flush, TypeInv, Cursor, Sending
  <2> QED BY <1>4, <2>1 DEF Flush, OrderInv, InOrder, RestBuffered
<1>5. ASSUME NEW k \in 0..SockCapacity, SendSome(k) PROVE OrderInv'
  <2> SUFFICES ASSUME ~torn, ~overtook PROVE OrderInv'
    BY <1>5 DEF SendSome, Transfer, OrderInv
  <2>1. k \in Nat /\ Transfer(k)
    BY <1>5, <1>a DEF SendSome
  <2>2. n' = n + k /\ out' = out /\ accepted' = accepted /\ arg' = arg /\ pc' = pc
    BY <1>5 DEF SendSome
  <2>3. CASE pc = "direct"
    <3>1. /\ out = <<>> /\ Len(sent') = Len(accepted) + (n + k)
          /\ \A i \in 1..Len(accepted) : sent'[i] = accepted[i]
          /\ \A j \in 1..(n + k) : sent'[Len(accepted) + j] = arg[j]
      BY <2>1, <2>3, TransferDirect
    <3>2. DirectInOrder'
      BY <3>1, <2>2 DEF DirectInOrder
    <3> QED BY <3>2, <2>2, <2>3 DEF OrderInv
  <2>4. CASE pc # "direct"
    <3>1. /\ Len(sent') = Len(sent) + k /\ Len(sent') <= Len(accepted)
          /\ \A i \in 1..Len(sent') : sent'[i] = accepted[i]
          /\ RestBuffered
      BY <2>1, <2>4, TransferInOrder
    <3>2. Len(sent') - n' = Len(sent) - n /\ n' <= Len(sent')
      BY <2>1, <2>2, <3>1, <1>a, SMT DEF RestBuffered
    <3>3. InOrder' /\ RestBuffered'
      BY <2>2, <3>1, <3>2 DEF InOrder, RestBuffered
    <3> QED BY <3>3, <2>2, <2>4 DEF OrderInv
  <2> QED BY <2>3, <2>4
<1>6. ASSUME NEW k \in 0..SockCapacity, DirectReturns(k) PROVE OrderInv'
  <2> SUFFICES ASSUME ~torn, ~overtook PROVE InOrder' /\ RestBuffered'
    BY <1>6 DEF DirectReturns, Return, Transfer, OrderInv
  <2>1. k \in Nat /\ Transfer(k) /\ pc = "direct"
    BY <1>6, <1>a DEF DirectReturns
  <2>2. /\ out = <<>> /\ Len(sent') = Len(accepted) + (n + k)
        /\ \A i \in 1..Len(accepted) : sent'[i] = accepted[i]
        /\ \A j \in 1..(n + k) : sent'[Len(accepted) + j] = arg[j]
    BY <2>1, TransferDirect
  <2>3. n + k = Len(arg) /\ n' = 0 /\ out' = out /\ accepted' = accepted \o arg
    BY <1>6 DEF DirectReturns, Return, Source
  <2>4. /\ Len(accepted') = Len(accepted) + Len(arg)
        /\ \A i \in 1..(Len(accepted) + Len(arg)) :
              accepted'[i] = IF i <= Len(accepted) THEN accepted[i] ELSE arg[i - Len(accepted)]
    BY <1>a, <2>3, ConcatProperties
  <2>5. Len(sent') = Len(accepted') /\ Len(sent') = Len(accepted) + Len(arg)
    BY <2>2, <2>3, <2>4
  <2>6. ASSUME NEW i \in 1..Len(sent') PROVE sent'[i] = accepted'[i]
    <3>0. i \in 1..(Len(accepted) + Len(arg))
      BY <2>5
    <3>1. CASE i <= Len(accepted)
      <4>1. i \in 1..Len(accepted)
        BY <3>0, <3>1, <1>a, SMT
      <4> QED BY <4>1, <3>0, <3>1, <2>2, <2>4
    <3>2. CASE ~(i <= Len(accepted))
      <4> DEFINE j == i - Len(accepted)
      <4>1. j \in 1..Len(arg) /\ Len(accepted) + j = i
        BY <3>0, <3>2, <1>a, SMT
      <4>2. accepted'[i] = arg[j]
        BY <3>0, <3>2, <2>4
      <4> HIDE DEF j
      <4>3. sent'[Len(accepted) + j] = arg[j]
        BY <4>1, <2>2, <2>3
      <4> QED BY <4>1, <4>2, <4>3
    <3> QED BY <3>1, <3>2
  <2>7. InOrder'
    <3>1. Len(sent') <= Len(accepted')
      BY <2>4, <2>5, <1>a, SMT
    <3> QED BY <3>1, <2>6 DEF InOrder
  <2>8. RestBuffered'
    <3>1. Len(out') = 0
      BY <2>2, <2>3, SMT
    <3>2. n' <= Len(sent') /\ Len(sent') - n' + Len(out') = Len(accepted')
      BY <3>1, <2>3, <2>4, <2>5, <1>a, SMT
    <3>3. \A j \in 1..Len(out') : out'[j] = accepted'[Len(sent') - n' + j]
      BY <3>1, SMT
    <3> QED BY <3>2, <3>3 DEF RestBuffered
  <2> QED BY <2>7, <2>8
<1>7. ASSUME NEW k \in 0..SockCapacity, DrainReturns(k) PROVE OrderInv'
  <2> SUFFICES ASSUME ~torn, ~overtook PROVE InOrder' /\ RestBuffered'
    BY <1>7 DEF DrainReturns, Return, Transfer, OrderInv
  <2>1. k \in Nat /\ Transfer(k) /\ pc # "direct"
    BY <1>7, <1>a DEF DrainReturns
  <2>2. /\ Len(sent') = Len(sent) + k
        /\ \A i \in 1..Len(sent') : sent'[i] = accepted[i]
        /\ Source = out /\ RestBuffered
    BY <2>1, TransferInOrder
  <2>3. Len(sent') = Len(accepted)
    <3>1. n + k = Len(out)
      BY <1>7, <2>2 DEF DrainReturns
    <3>2. Len(sent) - n + Len(out) = Len(accepted) /\ Len(sent') = Len(sent) + k
      BY <2>2 DEF RestBuffered
    <3> QED BY <3>1, <3>2, <2>1, <1>a, SMT
  <2>4. n' = 0 /\ out' = arg /\ accepted' = accepted \o arg
    BY <1>7 DEF DrainReturns, Return
  <2>5. /\ Len(accepted') = Len(accepted) + Len(arg)
        /\ \A i \in 1..(Len(accepted) + Len(arg)) :
              accepted'[i] = IF i <= Len(accepted) THEN accepted[i] ELSE arg[i - Len(accepted)]
    BY <1>a, <2>4, ConcatProperties
  <2>6. InOrder'
    BY <1>a, <2>2, <2>3, <2>5, SMT DEF InOrder
  <2>7. n' <= Len(sent') /\ Len(sent') - n' + Len(out') = Len(accepted')
    BY <1>a, <2>3, <2>4, <2>5, SMT
  <2>8. ASSUME NEW j \in 1..Len(out') PROVE out'[j] = accepted'[Len(sent') - n' + j]
    BY <1>a, <2>3, <2>4, <2>5, SMT
  <2> QED BY <2>6, <2>7, <2>8 DEF RestBuffered
<1>8. ASSUME NEW k \in 0..SockCapacity, FlushReturns(k) PROVE OrderInv'
  <2> SUFFICES ASSUME ~torn, ~overtook PROVE InOrder' /\ RestBuffered'
    BY <1>8 DEF FlushReturns, Return, Transfer, OrderInv
  <2>1. k \in Nat /\ Transfer(k) /\ pc # "direct"
    BY <1>8, <1>a DEF FlushReturns
  <2>2. /\ Len(sent') = Len(sent) + k
        /\ \A i \in 1..Len(sent') : sent'[i] = accepted[i]
        /\ Source = out /\ RestBuffered
    BY <2>1, TransferInOrder
  <2>3. Len(sent') = Len(accepted)
    <3>1. n + k = Len(out)
      BY <1>8, <2>2 DEF FlushReturns
    <3>2. Len(sent) - n + Len(out) = Len(accepted) /\ Len(sent') = Len(sent) + k
      BY <2>2 DEF RestBuffered
    <3> QED BY <3>1, <3>2, <2>1, <1>a, SMT
  <2>4. n' = 0 /\ out' = <<>> /\ accepted' = accepted /\ Len(<<>>) = 0
    BY <1>8 DEF FlushReturns, Return
  <2>5. InOrder'
    BY <1>a, <2>2, <2>3, <2>4 DEF InOrder
  <2>6. RestBuffered'
    BY <1>a, <2>3, <2>4, SMT DEF RestBuffered
  <2> QED BY <2>5, <2>6
<1>9. CASE SendFails
  <2> SUFFICES ASSUME ~torn', ~overtook PROVE InOrder' /\ RestBuffered'
    BY <1>9 DEF SendFails, Return, OrderInv
  <2>1. ~torn /\ n = 0 /\ pc # "closed"
    <3>1. ~torn /\ ~(n > 0) /\ pc # "closed"
      BY <1>9 DEF SendFails, Sending
    <3> QED BY <3>1, <1>a, SMT
  <2>2. n' = 0 /\ out' = out /\ sent' = sent /\ accepted' = accepted
    BY <1>9 DEF SendFails, Return
  <2>3. CASE pc = "direct"
    <3>1. DirectInOrder /\ Len(<<>>) = 0
      BY <2>1, <2>3 DEF OrderInv
    <3>2. Len(sent) = Len(accepted) /\ Len(out) = 0
      BY <3>1, <2>1, <1>a, SMT DEF DirectInOrder
    <3>3. InOrder'
      BY <3>1, <3>2, <2>2, <1>a DEF InOrder, DirectInOrder
    <3>4. RestBuffered'
      BY <3>2, <2>2, <1>a, SMT DEF RestBuffered
    <3> QED BY <3>3, <3>4
  <2>4. CASE pc # "direct"
    BY <2>1, <2>2, <2>4 DEF OrderInv, InOrder, RestBuffered
  <2> QED BY <2>3, <2>4
<1>10. CASE Destroy
  BY <1>10 DEF Destroy, OrderInv, InOrder
<1>11. ASSUME NEW k \in 1..SockCapacity, Drain(k) PROVE OrderInv'
  BY <1>11 DEF Drain, outVars, OrderInv, InOrder, RestBuffered, DirectInOrder
<1>12. CASE UNCHANGED vars
  BY <1>12 DEF vars, outVars, OrderInv, InOrder, RestBuffered, DirectInOrder
<1> QED
  BY <1>1, <1>2, <1>3, <1>4, <1>5, <1>6, <1>7, <1>8, <1>9, <1>10, <1>11, <1>12
  DEF Next, Step, Insert, SendAll

\* Bytes reach the kernel in the order they were inserted, for every capacity,
\* values of every size, any chunks the kernel takes and any failures before the
\* first byte of a send_all(), until a value is sent past buffered ones.
THEOREM OrderKept == Spec => []SentInOrder
<1>1. Init => TypeInv /\ OrderInv
  <2> SUFFICES ASSUME Init PROVE TypeInv /\ OrderInv
    OBVIOUS
  <2>1. Len(<<>>) = 0
    BY SMT
  <2>2. InOrder /\ RestBuffered
    BY <2>1, SMT DEF Init, InOrder, RestBuffered
  <2>3. pc # "direct"
    BY DEF Init
  <2> QED BY <2>2, <2>3, TypeInvInit DEF OrderInv
<1>2. TypeInv /\ OrderInv /\ [Next]_vars => TypeInv' /\ OrderInv'
  BY OutAssumption, TypeInvStep, OrderInvStep
<1>3. TypeInv /\ OrderInv => SentInOrder
  <2> SUFFICES ASSUME TypeInv, OrderInv, ~torn, ~overtook, NEW i \in 1..Len(sent)
               PROVE  i <= Len(accepted \o arg) /\ sent[i] = (accepted \o arg)[i]
    BY DEF SentInOrder, InsertionOrder
  <2>1. /\ accepted \in Seq(Nat) /\ arg \in Seq(Nat) /\ n \in Nat
        /\ Len(accepted) \in Nat /\ Len(arg) \in Nat /\ Len(sent) \in Nat
    BY LenProperties DEF TypeInv, TypeOK
  <2>2. /\ Len(accepted \o arg) = Len(accepted) + Len(arg)
        /\ \A j \in 1..(Len(accepted) + Len(arg)) :
              (accepted \o arg)[j] = IF j <= Len(accepted) THEN accepted[j]
                                                           ELSE arg[j - Len(accepted)]
    BY <2>1, ConcatProperties
  <2>3. CASE pc = "direct"
    <3>1. DirectInOrder /\ n <= Len(arg)
      BY <2>3 DEF OrderInv, TypeInv, Cursor, Source
    <3>2. i \in 1..(Len(accepted) + Len(arg))
      BY <3>1, <2>1, SMT DEF DirectInOrder
    <3>3. CASE i <= Len(accepted)
      <4>1. i \in 1..Len(accepted)
        BY <3>2, <3>3, <2>1, SMT
      <4>2. sent[i] = accepted[i] /\ (accepted \o arg)[i] = accepted[i]
        BY <4>1, <3>1, <3>2, <3>3, <2>2 DEF DirectInOrder
      <4>3. i <= Len(accepted \o arg)
        BY <3>2, <2>1, <2>2, SMT
      <4> QED BY <4>2, <4>3
    <3>4. CASE ~(i <= Len(accepted))
      <4> DEFINE j == i - Len(accepted)
      <4>1. j \in 1..n /\ Len(accepted) + j = i
        BY <3>1, <3>2, <3>4, <2>1, SMT DEF DirectInOrder
      <4>2. (accepted \o arg)[i] = arg[j]
        BY <3>2, <3>4, <2>2
      <4> HIDE DEF j
      <4>3. sent[Len(accepted) + j] = arg[j]
        BY <4>1, <3>1 DEF DirectInOrder
      <4>4. i <= Len(accepted \o arg)
        BY <3>2, <2>1, <2>2, SMT
      <4> QED BY <4>1, <4>2, <4>3, <4>4
    <3> QED BY <3>3, <3>4
  <2>4. CASE pc # "direct"
    <3>1. Len(sent) <= Len(accepted) /\ sent[i] = accepted[i]
      BY <2>4 DEF OrderInv, InOrder
    <3>2. i \in 1..(Len(accepted) + Len(arg)) /\ i <= Len(accepted)
      BY <3>1, <2>1, SMT
    <3>3. (accepted \o arg)[i] = accepted[i]
      BY <3>2, <2>2
    <3>4. i <= Len(accepted \o arg)
      BY <3>2, <2>1, <2>2, SMT
    <3> QED BY <3>1, <3>3, <3>4
  <2> QED BY <2>3, <2>4
<1> QED BY <1>1, <1>2, <1>3, PTL DEF Spec

-----------------------------------------------------------------------------
\* NOTHING IS LOST

\* The argument for NothingLost and FlushDurable, which needs no assumption about
\* the sizes, and lets any send() fail: the n bytes a running send_all() has
\* behind it are with the kernel, so _out_size may be reset when n is all of them.
DurableInv ==
    /\ NothingLost
    /\ FlushDurable
    /\ pc \in Sending => \A i \in 1..n : Source[i] \in Range(sent)

\* A send() keeps what the kernel has and adds the next k bytes of the buffer.
LEMMA TransferHandsOver ==
    ASSUME TypeInv, DurableInv, NEW k \in Nat, Transfer(k)
    PROVE  /\ Range(sent) \subseteq Range(sent')
           /\ \A i \in 1..(n + k) : Source[i] \in Range(sent')
           /\ n + k = Len(Source) => Range(Source) \subseteq Range(sent')
<1>1. /\ Source \in Seq(Nat) /\ sent \in Seq(Nat) /\ n \in Nat
      /\ Len(Source) \in Nat /\ Len(sent) \in Nat
  BY LenProperties DEF TypeInv, TypeOK, Source
<1>2. n + k <= Len(Source) /\ sent' = sent \o SubSeq(Source, n + 1, n + k) /\ pc \in Sending
  BY DEF Transfer
<1>3. /\ sent' \in Seq(Nat) /\ Len(sent') = Len(sent) + k
      /\ \A i \in 1..Len(sent) : sent'[i] = sent[i]
      /\ \A i \in 1..k : sent'[Len(sent) + i] = Source[n + i]
  BY TransferAppends
<1>4. /\ Range(sent) = {sent[i] : i \in 1..Len(sent)}
      /\ Range(sent') = {sent'[i] : i \in 1..Len(sent')}
      /\ Range(Source) = {Source[i] : i \in 1..Len(Source)}
  BY <1>1, <1>3, RangeEquality
<1>5. Range(sent) \subseteq Range(sent')
  <2>1. \A i \in 1..Len(sent) : i \in 1..Len(sent')
    BY <1>1, <1>3, SMT
  <2> QED BY <2>1, <1>3, <1>4
<1>6. ASSUME NEW i \in 1..(n + k) PROVE Source[i] \in Range(sent')
  <2>1. CASE i <= n
    <3>1. i \in 1..n
      BY <2>1, <1>1, SMT
    <3> QED BY <3>1, <1>2, <1>5 DEF DurableInv
  <2>2. CASE i > n
    <3>1. i - n \in 1..k /\ n + (i - n) = i /\ Len(sent) + (i - n) \in 1..Len(sent')
      BY <2>2, <1>1, <1>3, SMT
    <3>2. sent'[Len(sent) + (i - n)] = Source[i]
      BY <3>1, <1>3
    <3> QED BY <3>1, <3>2, <1>4
  <2> QED BY <2>1, <2>2, <1>1, SMT
<1> QED BY <1>4, <1>5, <1>6

\* accepted only grows at its end: what was flushed keeps its place.
LEMMA FlushedKept ==
    ASSUME TypeInv, DurableInv, NEW b \in Seq(Nat),
           accepted' = accepted \o b, flushed' = flushed, Range(sent) \subseteq Range(sent')
    PROVE  FlushDurable'
<1>1. /\ accepted \in Seq(Nat) /\ Len(accepted) \in Nat /\ flushed \in 0..Len(accepted)
      /\ Len(b) \in Nat
  BY LenProperties DEF TypeInv, TypeOK
<1>2. \A i \in 1..(Len(accepted) + Len(b)) :
         accepted'[i] = IF i <= Len(accepted) THEN accepted[i] ELSE b[i - Len(accepted)]
  BY <1>1, ConcatProperties
<1>3. \A i \in 1..flushed : i \in 1..(Len(accepted) + Len(b)) /\ i <= Len(accepted)
  BY <1>1, SMT
<1> QED BY <1>2, <1>3 DEF FlushDurable, DurableInv

LEMMA DurableInvStep ==
    ASSUME OutAssumption, TypeInv, DurableInv, [Next]_vars
    PROVE  DurableInv'
<1>a. /\ out \in Seq(Nat) /\ arg \in Seq(Nat) /\ sent \in Seq(Nat) /\ accepted \in Seq(Nat)
      /\ n \in Nat /\ made \in Nat /\ SockCapacity \in Nat
  BY SMT DEF TypeInv, TypeOK, OutAssumption
<1>b. \A i \in 1..0 : FALSE
  BY SMT
<1>1. ASSUME NEW s \in Sizes, InsertDirect(s) PROVE DurableInv'
  BY <1>1, <1>b DEF InsertDirect, Offer, DurableInv, NothingLost, FlushDurable
<1>2. ASSUME NEW s \in Sizes, InsertDrain(s) PROVE DurableInv'
  BY <1>2, <1>b DEF InsertDrain, Offer, DurableInv, NothingLost, FlushDurable
<1>3. ASSUME NEW s \in Sizes, InsertBuffered(s) PROVE DurableInv'
  <2>1. Value(s) \in Seq(Nat)
    BY <1>a, ValueType DEF OutAssumption
  <2>2. /\ Range(out') = Range(out) \cup Range(Value(s))
        /\ Range(accepted') = Range(accepted) \cup Range(Value(s))
    BY <1>3, <1>a, <2>1, RangeConcatenation DEF InsertBuffered
  <2>3. NothingLost'
    BY <1>3, <2>2 DEF InsertBuffered, Offer, DurableInv, NothingLost
  <2>4. FlushDurable'
    BY <1>3, <2>1, FlushedKept DEF InsertBuffered
  <2> QED BY <1>3, <2>3, <2>4 DEF InsertBuffered, Offer, DurableInv, Sending
<1>4. CASE Flush
  BY <1>4, <1>b DEF Flush, DurableInv, NothingLost, FlushDurable
<1>5. ASSUME NEW k \in 0..SockCapacity, SendSome(k) PROVE DurableInv'
  <2>1. k \in Nat /\ Transfer(k)
    BY <1>5, <1>a DEF SendSome
  <2>2. /\ Range(sent) \subseteq Range(sent')
        /\ \A i \in 1..(n + k) : Source[i] \in Range(sent')
    BY <2>1, TransferHandsOver
  <2>3. Source' = Source /\ n' = n + k
    BY <1>5 DEF SendSome, Source
  <2>4. NothingLost' /\ FlushDurable'
    BY <1>5, <2>2 DEF SendSome, DurableInv, NothingLost, FlushDurable
  <2> QED BY <2>2, <2>3, <2>4 DEF DurableInv
<1>6. ASSUME NEW k \in 0..SockCapacity, DirectReturns(k) PROVE DurableInv'
  <2>1. k \in Nat /\ Transfer(k)
    BY <1>6, <1>a DEF DirectReturns
  <2>2. Range(sent) \subseteq Range(sent') /\ Range(arg) \subseteq Range(sent')
    BY <1>6, <2>1, TransferHandsOver DEF DirectReturns, Source
  <2>3. Range(accepted') = Range(accepted) \cup Range(arg)
    BY <1>6, <1>a, RangeConcatenation DEF DirectReturns
  <2>4. NothingLost'
    BY <1>6, <2>2, <2>3 DEF DirectReturns, DurableInv, NothingLost
  <2>5. FlushDurable'
    BY <1>6, <1>a, <2>2, FlushedKept DEF DirectReturns
  <2> QED BY <1>6, <2>4, <2>5 DEF DirectReturns, Return, DurableInv, Sending
<1>7. ASSUME NEW k \in 0..SockCapacity, DrainReturns(k) PROVE DurableInv'
  <2>1. k \in Nat /\ Transfer(k)
    BY <1>7, <1>a DEF DrainReturns
  <2>2. Range(sent) \subseteq Range(sent') /\ Range(out) \subseteq Range(sent')
    BY <1>7, <2>1, TransferHandsOver DEF DrainReturns, Source
  <2>3. Range(accepted') = Range(accepted) \cup Range(arg) /\ out' = arg
    BY <1>7, <1>a, RangeConcatenation DEF DrainReturns
  <2>4. NothingLost'
    BY <1>7, <2>2, <2>3 DEF DrainReturns, DurableInv, NothingLost
  <2>5. FlushDurable'
    BY <1>7, <1>a, <2>2, FlushedKept DEF DrainReturns
  <2> QED BY <1>7, <2>4, <2>5 DEF DrainReturns, Return, DurableInv, Sending
<1>8. ASSUME NEW k \in 0..SockCapacity, FlushReturns(k) PROVE DurableInv'
  <2>1. k \in Nat /\ Transfer(k)
    BY <1>8, <1>a DEF FlushReturns
  <2>2. Range(sent) \subseteq Range(sent') /\ Range(out) \subseteq Range(sent')
    BY <1>8, <2>1, TransferHandsOver DEF FlushReturns, Source
  <2>3. Range(accepted) \subseteq Range(sent') /\ accepted' = accepted /\ flushed' = Len(accepted)
    BY <1>8, <2>2 DEF FlushReturns, DurableInv, NothingLost
  <2>4. NothingLost'
    BY <2>3 DEF NothingLost
  <2>5. Range(accepted) = {accepted[i] : i \in 1..Len(accepted)}
    BY <1>a, RangeEquality
  <2>6. FlushDurable'
    BY <2>3, <2>5 DEF FlushDurable
  <2> QED BY <1>8, <2>4, <2>6 DEF FlushReturns, Return, DurableInv, Sending
<1>9. CASE SendFails
  BY <1>9 DEF SendFails, Return, DurableInv, NothingLost, FlushDurable, Sending
<1>10. CASE Destroy
  BY <1>10 DEF Destroy, DurableInv, NothingLost, FlushDurable, Sending
<1>11. ASSUME NEW k \in 1..SockCapacity, Drain(k) PROVE DurableInv'
  BY <1>11 DEF Drain, outVars, DurableInv, NothingLost, FlushDurable, Source
<1>12. CASE UNCHANGED vars
  BY <1>12 DEF vars, outVars, DurableInv, NothingLost, FlushDurable, Source
<1> QED
  BY <1>1, <1>2, <1>3, <1>4, <1>5, <1>6, <1>7, <1>8, <1>9, <1>10, <1>11, <1>12
  DEF Next, Step, Insert, SendAll

LEMMA AlwaysDurable == Spec => []DurableInv
<1>1. Init => TypeInv /\ DurableInv
  <2> SUFFICES ASSUME Init PROVE TypeInv /\ DurableInv
    OBVIOUS
  <2>1. Range(accepted) = {} /\ \A i \in 1..flushed : FALSE
    <3>1. DOMAIN <<>> = {}
      BY SMT
    <3>2. Range(accepted) = {}
      BY <3>1 DEF Init, Range
    <3> QED BY <3>2, SMT DEF Init
  <2>2. DurableInv
    BY <2>1 DEF Init, DurableInv, NothingLost, FlushDurable, Sending
  <2> QED BY <2>2, TypeInvInit
<1>2. TypeInv /\ DurableInv /\ [Next]_vars => TypeInv' /\ DurableInv'
  BY OutAssumption, TypeInvStep, DurableInvStep
<1> QED BY <1>1, <1>2, PTL DEF Spec

\* No byte whose operator<< returned is lost before the object is destroyed, for
\* values of every size and send() calls that fail at any point.
THEOREM NothingIsLost == Spec => []NothingLost
<1>1. DurableInv => NothingLost
  BY DEF DurableInv
<1> QED BY <1>1, AlwaysDurable, PTL

\* When flush() has returned, all that was inserted before is with the kernel,
\* and stays there even if the object is destroyed.
THEOREM FlushIsDurable == Spec => []FlushDurable
<1>1. DurableInv => FlushDurable
  BY DEF DurableInv
<1> QED BY <1>1, AlwaysDurable, PTL

-----------------------------------------------------------------------------
\* EVERY BYTE ONCE

Distinct(s) == \A i, j \in 1..Len(s) : s[i] = s[j] => i = j
Below(s) == \A i \in 1..Len(s) : s[i] <= made

\* Behind its m-th element s has nothing in common with t.
Apart(s, t, m) == \A i \in 1..Len(s), j \in 1..Len(t) : i > m => s[i] # t[j]

\* What was sent since a call was torn: that call's first part is before it, so that
\* it may be sent again.
Recent == SubSeq(sent, since + 1, Len(sent))

\* What is still to be sent - the end of the buffer send_all() is in, and the other
\* one - has nothing in common with what was sent since; and so it is with new
\* values, whose bytes are new.
Rest == IF pc = "direct" THEN out ELSE arg

OnceInv ==
    /\ Distinct(Recent) /\ Distinct(out) /\ Distinct(arg)
    /\ Below(Recent) /\ Below(out) /\ Below(arg)
    /\ Apart(out, arg, 0)
    /\ Apart(Source, Recent, n) /\ Apart(Rest, Recent, 0)

\* What is left of a sequence behind its m-th element.
LEMMA EndOf ==
    ASSUME NEW t \in Seq(Nat), NEW m \in 0..Len(t)
    PROVE  LET u == SubSeq(t, m + 1, Len(t)) IN
             /\ u \in Seq(Nat) /\ Len(u) = Len(t) - m
             /\ \A i \in 1..Len(u) : u[i] = t[m + i]
             /\ m = Len(t) => u = <<>>
<1> DEFINE u == SubSeq(t, m + 1, Len(t))
<1>1. Len(t) \in Nat /\ m \in Nat /\ m <= Len(t)
  BY LenProperties, SMT
<1>2. \A i \in (m + 1)..Len(t) : t[i] \in Nat
  BY <1>1, SMT
<1>3. /\ u \in Seq(Nat)
      /\ Len(u) = IF m + 1 <= Len(t) THEN Len(t) - (m + 1) + 1 ELSE 0
      /\ \A i \in 1..(Len(t) - (m + 1) + 1) : u[i] = t[m + 1 + i - 1]
  BY <1>1, <1>2, SubSeqProperties, SMT
<1> HIDE DEF u
<1>4. Len(u) = Len(t) - m
  BY <1>1, <1>3, SMT
<1>5. ASSUME NEW i \in 1..Len(u) PROVE u[i] = t[m + i]
  <2>1. i \in 1..(Len(t) - (m + 1) + 1) /\ m + 1 + i - 1 = m + i
    BY <1>1, <1>4, SMT
  <2> QED BY <2>1, <1>3
<1>6. m = Len(t) => u = <<>>
  <2>1. m = Len(t) => Len(u) = 0
    BY <1>1, <1>4, SMT
  <2> QED BY <2>1, <1>3, EmptySeq
<1> QED BY <1>3, <1>4, <1>5, <1>6 DEF u

LEMMA RecentType ==
    ASSUME TypeInv
    PROVE  /\ Recent \in Seq(Nat) /\ Len(Recent) \in Nat /\ Len(Recent) = Len(sent) - since
           /\ Len(sent) \in Nat /\ since \in 0..Len(sent)
           /\ \A i \in 1..Len(Recent) : Recent[i] = sent[since + i]
<1>1. sent \in Seq(Nat) /\ since \in 0..Len(sent)
  BY DEF TypeInv, TypeOK
<1> QED BY <1>1, EndOf, LenProperties DEF Recent

\* A value consists of bytes that were not there before.
LEMMA ValueOnce ==
    ASSUME made \in Nat, NEW s \in Nat
    PROVE  /\ Value(s) \in Seq(Nat) /\ Len(Value(s)) = s /\ Distinct(Value(s))
           /\ \A i \in 1..s : Value(s)[i] > made /\ Value(s)[i] <= made + s
<1>1. Value(s) \in Seq(Nat) /\ Len(Value(s)) = s
  BY ValueType
<1>2. \A i \in 1..s : Value(s)[i] = made + i
  BY DEF Value
<1> QED BY <1>1, <1>2 DEF Distinct

\* u is t continued by k elements of b, those behind the m-th.
Slice(u, t, b, m, k) ==
    /\ m + k <= Len(b) /\ Len(u) = Len(t) + k
    /\ \A i \in 1..Len(t) : u[i] = t[i]
    /\ \A i \in 1..k : u[Len(t) + i] = b[m + i]

\* All that is in u is in t or in b.
From(u, t, b) ==
    \A j \in 1..Len(u) : \/ \E i \in 1..Len(t) : u[j] = t[i]
                         \/ \E i \in 1..Len(b) : u[j] = b[i]

\* Nothing is in it twice when nothing is in t twice, nothing in b, and nothing in t
\* that is in b behind its m-th element.
LEMMA SliceDistinct ==
    ASSUME NEW t \in Seq(Nat), NEW b \in Seq(Nat), NEW m \in Nat, NEW k \in Nat,
           NEW u, Slice(u, t, b, m, k), Distinct(t), Distinct(b), Apart(b, t, m)
    PROVE  Distinct(u) /\ Apart(b, u, m + k) /\ From(u, t, b)
<1>1. Len(t) \in Nat /\ Len(b) \in Nat /\ Len(u) = Len(t) + k /\ m + k <= Len(b)
  BY LenProperties DEF Slice
<1>2. ASSUME NEW j \in 1..Len(u), j <= Len(t) PROVE j \in 1..Len(t) /\ u[j] = t[j]
  BY <1>1, <1>2 DEF Slice
<1>3. ASSUME NEW j \in 1..Len(u), j > Len(t)
      PROVE  /\ m + j - Len(t) \in (m + 1)..(m + k) /\ m + j - Len(t) \in 1..Len(b)
             /\ u[j] = b[m + j - Len(t)]
  <2>1. j - Len(t) \in 1..k /\ Len(t) + (j - Len(t)) = j
        /\ m + (j - Len(t)) = m + j - Len(t)
    BY <1>1, <1>3
  <2>2. u[j] = b[m + j - Len(t)]
    BY <2>1 DEF Slice
  <2>3. m + j - Len(t) \in (m + 1)..(m + k) /\ m + j - Len(t) \in 1..Len(b)
    BY <1>1, <2>1
  <2> QED BY <2>2, <2>3
<1>4. ASSUME NEW i \in 1..Len(u), NEW j \in 1..Len(u), u[i] = u[j] PROVE i = j
  <2>1. CASE i <= Len(t) /\ j <= Len(t)
    BY <1>2, <1>4, <2>1 DEF Distinct
  <2>2. CASE i > Len(t) /\ j > Len(t)
    <3>1. m + i - Len(t) = m + j - Len(t)
      BY <1>3, <1>4, <2>2 DEF Distinct
    <3> QED BY <1>1, <3>1
  <2>3. CASE i <= Len(t) /\ j > Len(t)
    <3>1. i \in 1..Len(t) /\ u[i] = t[i]
      BY <1>2, <2>3
    <3>2. m + j - Len(t) \in 1..Len(b) /\ m + j - Len(t) > m /\ u[j] = b[m + j - Len(t)]
      BY <1>1, <1>3, <2>3
    <3> QED BY <1>4, <3>1, <3>2 DEF Apart
  <2>4. CASE j <= Len(t) /\ i > Len(t)
    <3>1. j \in 1..Len(t) /\ u[j] = t[j]
      BY <1>2, <2>4
    <3>2. m + i - Len(t) \in 1..Len(b) /\ m + i - Len(t) > m /\ u[i] = b[m + i - Len(t)]
      BY <1>1, <1>3, <2>4
    <3> QED BY <1>4, <3>1, <3>2 DEF Apart
  <2> QED BY <1>1, <2>1, <2>2, <2>3, <2>4
<1>5. ASSUME NEW i \in 1..Len(b), NEW j \in 1..Len(u), i > m + k PROVE b[i] # u[j]
  <2>1. CASE j <= Len(t)
    <3>1. j \in 1..Len(t) /\ u[j] = t[j] /\ i > m
      BY <1>1, <1>2, <1>5, <2>1
    <3> QED BY <3>1 DEF Apart
  <2>2. CASE j > Len(t)
    <3>1. m + j - Len(t) \in 1..Len(b) /\ u[j] = b[m + j - Len(t)]
      BY <1>3, <2>2
    <3>2. m + j - Len(t) # i
      BY <1>1, <1>5
    <3> QED BY <3>1, <3>2 DEF Distinct
  <2> QED BY <1>1, <2>1, <2>2
<1>6. ASSUME NEW j \in 1..Len(u)
      PROVE  (\E i \in 1..Len(t) : u[j] = t[i]) \/ \E i \in 1..Len(b) : u[j] = b[i]
  <2>1. j <= Len(t) \/ j > Len(t)
    BY <1>1
  <2> QED BY <1>2, <1>3, <2>1
<1> QED BY <1>4, <1>5, <1>6 DEF Distinct, Apart, From

\* One send(): the k bytes it moves to the stream.
LEMMA RecentGrows ==
    ASSUME TypeInv, NEW k \in Nat, Transfer(k)
    PROVE  Slice(Recent', Recent, Source, n, k)
<1>1. /\ Source \in Seq(Nat) /\ sent \in Seq(Nat) /\ n \in Nat /\ Len(Source) \in Nat
  BY LenProperties DEF TypeInv, TypeOK, Source
<1>2. /\ n + k <= Len(Source) /\ sent' = sent \o SubSeq(Source, n + 1, n + k)
      /\ since' = since
  BY DEF Transfer
<1>3. /\ sent' \in Seq(Nat) /\ Len(sent') = Len(sent) + k
      /\ \A i \in 1..Len(sent) : sent'[i] = sent[i]
      /\ \A i \in 1..k : sent'[Len(sent) + i] = Source[n + i]
  BY TransferAppends
<1>4. /\ Len(Recent) = Len(sent) - since /\ Len(sent) \in Nat /\ since \in 0..Len(sent)
      /\ \A i \in 1..Len(Recent) : Recent[i] = sent[since + i]
  BY RecentType
<1>5. /\ Len(Recent') = Len(sent') - since
      /\ \A i \in 1..Len(Recent') : Recent'[i] = sent'[since + i]
  <2>1. since \in 0..Len(sent')
    BY <1>3, <1>4, SMT
  <2>2. Recent' = SubSeq(sent', since + 1, Len(sent'))
    BY <1>2 DEF Recent
  <2> QED BY <2>1, <2>2, <1>3, EndOf
<1>6. Len(Recent') = Len(Recent) + k
  BY <1>3, <1>4, <1>5, SMT
<1>7. ASSUME NEW i \in 1..Len(Recent) PROVE Recent'[i] = Recent[i]
  <2>1. since + i \in 1..Len(sent) /\ i \in 1..Len(Recent')
    BY <1>4, <1>6, SMT
  <2> QED BY <2>1, <1>3, <1>4, <1>5
<1>8. ASSUME NEW i \in 1..k PROVE Recent'[Len(Recent) + i] = Source[n + i]
  <2>1. Len(Recent) + i \in 1..Len(Recent') /\ since + (Len(Recent) + i) = Len(sent) + i
    BY <1>4, <1>6, SMT
  <2> QED BY <2>1, <1>3, <1>5
<1> QED BY <1>2, <1>6, <1>7, <1>8 DEF Slice

\* They were not in it since a call was torn.
LEMMA TransferOnce ==
    ASSUME TypeInv, OnceInv, NEW k \in Nat, Transfer(k)
    PROVE  /\ Distinct(Recent') /\ \A i \in 1..Len(Recent') : Recent'[i] <= made
           /\ Apart(Source, Recent', n + k) /\ Apart(Rest, Recent', 0)
<1>1. /\ Source \in Seq(Nat) /\ Recent \in Seq(Nat) /\ n \in Nat
      /\ Len(Source) \in Nat /\ Len(Recent) \in Nat
  BY LenProperties, RecentType DEF TypeInv, TypeOK, Source
<1>4. Slice(Recent', Recent, Source, n, k)
  BY RecentGrows
<1>5. /\ Distinct(Source) /\ Below(Source) /\ Distinct(Recent) /\ Below(Recent)
      /\ Apart(Source, Recent, n) /\ Apart(Rest, Recent, 0)
  BY DEF OnceInv, Source
<1>6. Apart(Source, Rest, 0) /\ Len(Rest) \in Nat
  <2>1. Apart(arg, out, 0)
    BY DEF OnceInv, Apart
  <2> QED BY <2>1, LenProperties DEF OnceInv, Source, Rest, TypeInv, TypeOK
<1>7. Distinct(Recent') /\ Apart(Source, Recent', n + k) /\ From(Recent', Recent, Source)
  BY <1>1, <1>4, <1>5, SliceDistinct
<1>8. \A j \in 1..Len(Recent') : Recent'[j] <= made
  BY <1>5, <1>7 DEF Below, From
<1>9. ASSUME NEW j \in 1..Len(Recent'), NEW i \in 1..Len(Rest) PROVE Rest[i] # Recent'[j]
  BY <1>5, <1>6, <1>7 DEF Apart, From
<1> QED BY <1>7, <1>8, <1>9 DEF Apart

\* A value put behind what is in a buffer.
LEMMA AppendOnce ==
    ASSUME NEW t \in Seq(Nat), NEW v \in Seq(Nat), NEW l \in Nat,
           \A i \in 1..Len(t) : t[i] <= l, \A i \in 1..Len(v) : v[i] > l,
           Distinct(t), Distinct(v)
    PROVE  Distinct(t \o v) /\ From(t \o v, t, v)
<1> DEFINE u == t \o v
<1>1. /\ Len(u) = Len(t) + Len(v) /\ Len(t) \in Nat /\ Len(v) \in Nat
      /\ \A i \in 1..(Len(t) + Len(v)) : u[i] = IF i <= Len(t) THEN t[i] ELSE v[i - Len(t)]
  BY ConcatProperties, LenProperties
<1> HIDE DEF u
<1>2. \A i \in 1..Len(t) : t[i] \in Nat
  BY LenProperties
<1>3. \A i \in 1..Len(v) : v[i] \in Nat
  BY LenProperties
<1>4. ASSUME NEW i \in 1..Len(u)
      PROVE  /\ i <= Len(t) => i \in 1..Len(t) /\ u[i] = t[i]
             /\ i > Len(t) => i - Len(t) \in 1..Len(v) /\ u[i] = v[i - Len(t)]
  BY <1>1
<1>5. ASSUME NEW i \in 1..Len(u), NEW j \in 1..Len(u), u[i] = u[j] PROVE i = j
  <2>1. CASE i <= Len(t) /\ j <= Len(t)
    BY <1>4, <1>5, <2>1 DEF Distinct
  <2>2. CASE i > Len(t) /\ j > Len(t)
    <3>1. i - Len(t) = j - Len(t)
      BY <1>4, <1>5, <2>2 DEF Distinct
    <3> QED BY <1>1, <3>1
  <2>3. CASE i <= Len(t) /\ j > Len(t)
    <3>1. u[i] <= l /\ u[j] > l /\ u[i] \in Nat /\ u[j] \in Nat
      BY <1>2, <1>3, <1>4, <2>3
    <3> QED BY <1>5, <3>1
  <2>4. CASE j <= Len(t) /\ i > Len(t)
    <3>1. u[j] <= l /\ u[i] > l /\ u[i] \in Nat /\ u[j] \in Nat
      BY <1>2, <1>3, <1>4, <2>4
    <3> QED BY <1>5, <3>1
  <2> QED BY <1>1, <2>1, <2>2, <2>3, <2>4
<1>6. From(u, t, v)
  <2> SUFFICES ASSUME NEW i \in 1..Len(u)
               PROVE  (\E j \in 1..Len(t) : u[i] = t[j]) \/ \E j \in 1..Len(v) : u[i] = v[j]
    BY DEF From
  <2>1. i <= Len(t) \/ i > Len(t)
    BY <1>1
  <2> QED BY <1>4, <2>1
<1> QED BY <1>5, <1>6 DEF u, Distinct

LEMMA OnceInvStep ==
    ASSUME OutAssumption, TypeInv, OnceInv, [Next]_vars
    PROVE  OnceInv'
<1>t. /\ out \in Seq(Nat) /\ arg \in Seq(Nat) /\ Recent \in Seq(Nat) /\ n \in Nat
      /\ made \in Nat
      /\ Len(out) \in Nat /\ Len(arg) \in Nat /\ Len(Recent) \in Nat
      /\ (pc \notin Sending => n = 0) /\ (pc \notin {"direct", "drain"} => arg = <<>>)
  BY LenProperties, RecentType DEF TypeInv, TypeOK, Cursor, OutAssumption
<1>e. Len(<<>>) = 0
  BY SMT
<1>v. ASSUME NEW s \in Sizes, Offer(s), OnceInv
      PROVE  /\ s \in Nat /\ made' = made + s /\ pc = "idle" /\ n = 0 /\ arg = <<>>
             /\ Value(s) \in Seq(Nat) /\ Len(Value(s)) = s /\ Distinct(Value(s))
             /\ \A i \in 1..s : Value(s)[i] > made /\ Value(s)[i] <= made'
             /\ Apart(out, Value(s), 0) /\ Apart(Value(s), Recent, 0) /\ Apart(out, Recent, 0)
             /\ \A i \in 1..Len(out) : out[i] <= made'
             /\ \A i \in 1..Len(Recent) : Recent[i] <= made'
  <2>1. s \in Nat /\ made' = made + s /\ pc = "idle"
    BY <1>v DEF Offer, OutAssumption
  <2>2. /\ Value(s) \in Seq(Nat) /\ Len(Value(s)) = s /\ Distinct(Value(s))
        /\ \A i \in 1..s : Value(s)[i] > made /\ Value(s)[i] <= made'
    BY <1>t, <2>1, ValueOnce
  <2>3. /\ \A i \in 1..Len(out) : out[i] \in Nat /\ out[i] <= made
        /\ \A i \in 1..Len(Recent) : Recent[i] \in Nat /\ Recent[i] <= made
        /\ \A i \in 1..s : Value(s)[i] \in Nat
    BY <1>t, <1>v, <2>2, LenProperties DEF OnceInv, Below
  <2>4. Apart(out, Value(s), 0) /\ Apart(Value(s), Recent, 0)
    <3> DEFINE v == Value(s)
    <3>1. /\ Len(v) = s /\ \A i \in 1..s : v[i] \in Nat /\ v[i] > made
          /\ \A i \in 1..Len(out) : out[i] \in Nat /\ out[i] <= made
          /\ \A i \in 1..Len(Recent) : Recent[i] \in Nat /\ Recent[i] <= made
      BY <2>2, <2>3
    <3> HIDE DEF v
    <3>2. \A x, y \in Nat : x <= made /\ y > made => x # y
      BY <1>t
    <3>3. /\ \A i \in 1..Len(out), j \in 1..Len(v) : out[i] # v[j]
          /\ \A i \in 1..Len(v), j \in 1..Len(Recent) : v[i] # Recent[j]
      BY <3>1, <3>2
    <3>4. Apart(out, v, 0) /\ Apart(v, Recent, 0)
      BY <3>3 DEF Apart
    <3> QED BY <3>4 DEF v
  <2>5. Apart(out, Recent, 0)
    BY <1>t, <1>v, <2>1 DEF OnceInv, Source, Sending
  <2> QED BY <1>t, <2>1, <2>2, <2>3, <2>4, <2>5 DEF Sending
<1>1. ASSUME NEW s \in Sizes, InsertDirect(s) PROVE OnceInv'
  <2>1. OnceInv /\ Offer(s)
    BY <1>1 DEF InsertDirect
  <2>2. pc' = "direct" /\ arg' = Value(s) /\ n' = 0 /\ out' = out /\ Recent' = Recent
    BY <1>1 DEF InsertDirect, Recent
  <2>3. Source' = Value(s) /\ Rest' = out
    BY <2>2 DEF Source, Rest
  <2> QED BY <1>v, <2>1, <2>2, <2>3 DEF OnceInv, Below
<1>2. ASSUME NEW s \in Sizes, InsertDrain(s) PROVE OnceInv'
  <2>1. OnceInv /\ Offer(s)
    BY <1>2 DEF InsertDrain
  <2>2. pc' = "drain" /\ arg' = Value(s) /\ n' = 0 /\ out' = out /\ Recent' = Recent
    BY <1>2 DEF InsertDrain, Recent
  <2>3. Source' = out /\ Rest' = Value(s)
    BY <2>2 DEF Source, Rest
  <2> QED BY <1>v, <2>1, <2>2, <2>3 DEF OnceInv, Below
<1>3. ASSUME NEW s \in Sizes, InsertBuffered(s) PROVE OnceInv'
  <2> DEFINE v == Value(s)
  <2>1. OnceInv /\ Offer(s)
    BY <1>3 DEF InsertBuffered
  <2>2. pc' = "idle" /\ arg' = <<>> /\ n' = 0 /\ out' = out \o v /\ Recent' = Recent
    BY <1>v, <1>3, <2>1 DEF InsertBuffered, Recent
  <2>3. Source' = out' /\ Rest' = <<>>
    BY <2>2 DEF Source, Rest
  <2>4. /\ v \in Seq(Nat) /\ Len(v) = s /\ Distinct(v) /\ made' = made + s
        /\ \A i \in 1..Len(v) : v[i] > made /\ v[i] <= made'
        /\ Apart(v, Recent, 0) /\ Apart(out, Recent, 0)
        /\ \A i \in 1..Len(out) : out[i] <= made'
        /\ \A i \in 1..Len(Recent) : Recent[i] <= made'
    BY <1>v, <2>1
  <2> HIDE DEF v
  <2>5. Distinct(out \o v) /\ From(out \o v, out, v)
    BY <1>t, <2>1, <2>4, AppendOnce DEF OnceInv, Below
  <2>6. \A i \in 1..Len(out') : out'[i] <= made'
    BY <2>2, <2>4, <2>5 DEF From
  <2>7. Apart(out', Recent, 0)
    BY <2>2, <2>4, <2>5 DEF From, Apart
  <2>8. /\ Distinct(Recent') /\ Distinct(arg') /\ Apart(out', arg', 0) /\ Apart(Rest', Recent', 0)
    BY <1>e, <2>1, <2>2, <2>3 DEF OnceInv, Distinct, Apart
  <2> QED BY <1>e, <2>2, <2>3, <2>4, <2>5, <2>6, <2>7, <2>8 DEF OnceInv, Below
<1>4. CASE Flush
  <2>1. OnceInv /\ UNCHANGED <<out, arg, Recent, made>> /\ n = 0 /\ n' = 0
        /\ pc = "idle" /\ pc' = "flush"
    BY <1>t, <1>4 DEF Flush, Sending, Recent
  <2>2. Source' = Source /\ Rest' = Rest
    BY <2>1 DEF Source, Rest
  <2> QED BY <2>1, <2>2 DEF OnceInv, Below
\* A send(), up to what becomes of the buffers.
<1>s. ASSUME NEW k \in 0..SockCapacity, Transfer(k)
      PROVE  /\ OnceInv /\ made' = made /\ Distinct(Recent')
             /\ \A i \in 1..Len(Recent') : Recent'[i] <= made'
             /\ Apart(Source, Recent', n + k) /\ Apart(Rest, Recent', 0)
  <2>1. OnceInv /\ k \in Nat /\ made' = made
    BY <1>s DEF Transfer, OutAssumption
  <2> QED BY <1>s, <2>1, TransferOnce
<1>5. ASSUME NEW k \in 0..SockCapacity, SendSome(k) PROVE OnceInv'
  <2>1. Transfer(k) /\ UNCHANGED <<pc, out, arg>> /\ n' = n + k
    BY <1>5 DEF SendSome
  <2>2. Source' = Source /\ Rest' = Rest
    BY <2>1 DEF Source, Rest
  <2> QED BY <1>s, <2>1, <2>2 DEF OnceInv, Below
\* send_all() comes back: what it sent is gone from the buffers.
<1>r. ASSUME NEW k \in 0..SockCapacity, Transfer(k), Return,
             out' \in {Rest, <<>>}
      PROVE  OnceInv'
  <2>1. pc' = "idle" /\ arg' = <<>> /\ n' = 0 /\ Source' = out' /\ Rest' = <<>>
    BY <1>r DEF Return, Source, Rest
  <2>2. Distinct(out') /\ Apart(out', Recent', 0) /\ \A i \in 1..Len(out') : out'[i] <= made'
    <3>1. CASE out' = Rest
      BY <1>s, <1>r, <3>1 DEF OnceInv, Rest, Below
    <3>2. CASE out' = <<>>
      BY <1>e, <3>2 DEF Distinct, Apart
    <3> QED BY <1>r, <3>1, <3>2
  <2>3. Distinct(arg') /\ Apart(out', arg', 0) /\ Apart(Rest', Recent', 0)
    BY <1>e, <2>1 DEF Distinct, Apart
  <2> QED BY <1>e, <1>s, <1>r, <2>1, <2>2, <2>3 DEF OnceInv, Below
<1>6. ASSUME NEW k \in 0..SockCapacity, DirectReturns(k) PROVE OnceInv'
  BY <1>r, <1>6 DEF DirectReturns, Rest
<1>7. ASSUME NEW k \in 0..SockCapacity, DrainReturns(k) PROVE OnceInv'
  BY <1>r, <1>7 DEF DrainReturns, Rest
<1>8. ASSUME NEW k \in 0..SockCapacity, FlushReturns(k) PROVE OnceInv'
  BY <1>r, <1>8 DEF FlushReturns
\* A call that failed before it sent anything leaves the buffer to a later one; after
\* one that was torn nothing has been sent yet.
<1>9. CASE SendFails
  <2>1. /\ pc' = "idle" /\ arg' = <<>> /\ n' = 0 /\ UNCHANGED <<out, sent, made>>
        /\ since' = IF n > 0 THEN Len(sent) ELSE since
    BY <1>9 DEF SendFails, Return
  <2>2. Source' = out /\ Rest' = <<>>
    BY <2>1 DEF Source, Rest
  <2>3. Distinct(Recent') /\ Apart(out, Recent', 0) /\ \A i \in 1..Len(Recent') : Recent'[i] <= made
    <3>1. CASE n > 0
      <4>1. Recent' = SubSeq(sent, Len(sent) + 1, Len(sent))
        BY <2>1, <3>1 DEF Recent
      <4>2. sent \in Seq(Nat) /\ Len(sent) \in 0..Len(sent)
        BY RecentType, SMT DEF TypeInv, TypeOK
      <4>3. Recent' = <<>>
        BY <4>1, <4>2, EndOf
      <4> QED BY <4>3, <1>e DEF Distinct, Apart
    <3>2. CASE ~(n > 0)
      <4>1. n = 0
        BY <1>t, <3>2
      <4>2. Recent' = Recent
        BY <2>1, <3>2 DEF Recent
      <4> QED BY <4>1, <4>2 DEF OnceInv, Source, Rest, Below
    <3> QED BY <3>1, <3>2
  <2>4. Distinct(arg') /\ Apart(out', arg', 0) /\ Apart(Rest', Recent', 0)
    BY <1>e, <2>1, <2>2 DEF Distinct, Apart
  <2> QED BY <1>e, <2>1, <2>2, <2>3, <2>4 DEF OnceInv, Below
<1>10. CASE Destroy
  <2>1. OnceInv /\ pc = "idle" /\ pc' = "closed" /\ out' = <<>> /\ arg' = <<>>
        /\ UNCHANGED <<n, Recent, made>>
    BY <1>t, <1>10 DEF Destroy, Recent
  <2>2. Source' = <<>> /\ Rest' = <<>>
    BY <2>1 DEF Source, Rest
  <2> QED BY <1>e, <2>1, <2>2 DEF OnceInv, Below, Distinct, Apart
<1>11. ASSUME UNCHANGED outVars PROVE OnceInv'
  <2>1. UNCHANGED <<pc, out, arg, n, Recent, made>>
    BY <1>11 DEF outVars, Recent
  <2>2. Source' = Source /\ Rest' = Rest
    BY <2>1 DEF Source, Rest
  <2> QED BY <2>1, <2>2 DEF OnceInv, Below
<1> QED
  BY <1>1, <1>2, <1>3, <1>4, <1>5, <1>6, <1>7, <1>8, <1>9, <1>10, <1>11
  DEF Next, Step, Insert, SendAll, Drain, vars

\* No byte is handed to the kernel twice between one send_all() that fails half way
\* and the next, whatever the sizes of values and of chunks and whatever calls fail.
THEOREM NothingTwice == Spec => []SentOnce
<1>1. Init => TypeInv /\ OnceInv
  <2>1. SUFFICES ASSUME Init PROVE OnceInv
    BY TypeInvInit
  <2>2. Len(<<>>) = 0 /\ <<>> \in Seq(Nat) /\ 0 \in 0..0
    BY SMT
  <2>3. Recent = <<>>
    <3>1. Recent = SubSeq(<<>>, 0 + 1, Len(<<>>))
      BY <2>1 DEF Init, Recent
    <3> QED BY <3>1, <2>2, EndOf
  <2> QED BY <2>1, <2>2, <2>3 DEF Init, OnceInv, Distinct, Below, Apart, Source, Rest
<1>2. TypeInv /\ OnceInv /\ [Next]_vars => TypeInv' /\ OnceInv'
  BY OutAssumption, TypeInvStep, OnceInvStep
<1>3. TypeInv /\ OnceInv => SentOnce
  <2> SUFFICES ASSUME TypeInv, OnceInv,
                      NEW i \in (since + 1)..Len(sent), NEW j \in (since + 1)..Len(sent),
                      sent[i] = sent[j]
               PROVE  i = j
    BY DEF SentOnce
  <2>1. /\ Len(Recent) = Len(sent) - since /\ Len(sent) \in Nat /\ since \in 0..Len(sent)
        /\ \A m \in 1..Len(Recent) : Recent[m] = sent[since + m]
    BY RecentType
  <2>2. /\ i - since \in 1..Len(Recent) /\ since + (i - since) = i
        /\ j - since \in 1..Len(Recent) /\ since + (j - since) = j
    BY <2>1, SMT
  <2>3. Recent[i - since] = Recent[j - since]
    BY <2>1, <2>2
  <2>4. i - since = j - since
    BY <2>2, <2>3 DEF OnceInv, Distinct
  <2> QED BY <2>2, <2>4
<1> QED BY <1>1, <1>2, <1>3, PTL DEF Spec

-----------------------------------------------------------------------------
\* WHAT ENTERS THE STREAM.  The lemmas an output half brings to a connection.

\* The bytes that are in the connection for good: those of insertions that
\* returned, and what was sent of a value that goes straight from memory.
Written == accepted \o SubSeq(arg, 1, IF pc = "direct" THEN n ELSE 0)

\* The value being inserted are the bytes offered last.
Fresh ==
    /\ Len(arg) <= made
    /\ \A i \in 1..Len(accepted) : accepted[i] <= made - Len(arg)
    /\ \A i \in 1..Len(arg) : arg[i] = made - Len(arg) + i
    /\ pc \in {"direct", "drain"} => Len(arg) > 0

\* w2 is w and bytes after it that were not there before.
NewBytes(w, w2) ==
    \E from \in 1..MaxBytes : \E to \in from..MaxBytes :
        /\ \A i \in 1..Len(w) : w[i] < from
        /\ w2 = w \o [i \in 1..(to - from + 1) |-> from + i - 1]

LEMMA OutLengths ==
    ASSUME OutAssumption, TypeInv
    PROVE  /\ out \in Seq(Nat) /\ arg \in Seq(Nat) /\ sent \in Seq(Nat) /\ accepted \in Seq(Nat)
           /\ Len(out) \in Nat /\ Len(arg) \in Nat /\ Len(sent) \in Nat /\ Len(accepted) \in Nat
           /\ made \in Nat /\ made \in 0..MaxBytes /\ MaxBytes \in Nat
           /\ n \in Nat /\ OutCapacity \in Nat /\ SockCapacity \in Nat
           /\ pc # "direct" /\ pc # "drain" => arg = <<>>
BY LenProperties, SMT DEF TypeInv, TypeOK, Cursor, OutAssumption

\* The elements of s joined to t are below a bound when those of both are.
LEMMA JoinedBelow ==
    ASSUME NEW t \in Seq(Nat), NEW s \in Seq(Nat), NEW b \in Nat,
           \A i \in 1..Len(t) : t[i] <= b, \A i \in 1..Len(s) : s[i] <= b
    PROVE  \A i \in 1..Len(t \o s) : (t \o s)[i] <= b
<1>1. /\ Len(t \o s) = Len(t) + Len(s)
      /\ \A i \in 1..(Len(t) + Len(s)) :
            (t \o s)[i] = IF i <= Len(t) THEN t[i] ELSE s[i - Len(t)]
  BY ConcatProperties
<1>2. Len(t) \in Nat /\ Len(s) \in Nat
  BY LenProperties
<1>3. ASSUME NEW i \in 1..(Len(t) + Len(s)) PROVE (t \o s)[i] <= b
  <2>1. CASE i <= Len(t)
    <3>1. i \in 1..Len(t) /\ (t \o s)[i] = t[i]
      BY <2>1, <1>1, <1>2, SMT
    <3> QED BY <3>1
  <2>2. CASE i > Len(t)
    <3>1. i - Len(t) \in 1..Len(s) /\ (t \o s)[i] = s[i - Len(t)]
      BY <2>2, <1>1, <1>2, SMT
    <3> QED BY <3>1
  <2> QED BY <2>1, <2>2, <1>2, SMT
<1> QED BY <1>1, <1>3

LEMMA FreshInit == ASSUME Init PROVE Fresh
<1>1. Len(<<>>) = 0
  BY SMT
<1> QED BY <1>1, SMT DEF Init, Fresh

\* When the value in arg is accepted, all accepted bytes are among those offered.
LEMMA FreshReturns ==
    ASSUME OutAssumption, TypeInv, Fresh, accepted' = accepted \o arg, arg' = <<>>,
           made' = made, pc' = "idle"
    PROVE  Fresh'
<1>1. /\ accepted \in Seq(Nat) /\ arg \in Seq(Nat) /\ made \in Nat
      /\ Len(accepted) \in Nat /\ Len(arg) \in Nat
  BY OutLengths
<1>2. (\A i \in 1..Len(accepted) : accepted[i] <= made) /\ \A i \in 1..Len(arg) : arg[i] <= made
  <2>1. ASSUME NEW i \in 1..Len(accepted) PROVE accepted[i] <= made
    <3>1. accepted[i] \in Nat /\ accepted[i] <= made - Len(arg)
      BY <1>1, LenProperties DEF Fresh
    <3> QED BY <3>1, <1>1, SMT
  <2>2. ASSUME NEW i \in 1..Len(arg) PROVE arg[i] <= made
    <3>1. arg[i] = made - Len(arg) + i
      BY DEF Fresh
    <3> QED BY <3>1, <1>1, SMT
  <2> QED BY <2>1, <2>2
<1>3. \A i \in 1..Len(accepted') : accepted'[i] <= made'
  BY <1>1, <1>2, JoinedBelow
<1>4. Len(arg') = 0 /\ made' - Len(arg') = made' /\ arg' = <<>>
  BY <1>1, SMT
<1> QED BY <1>1, <1>3, <1>4, SMT DEF Fresh

LEMMA FreshStep ==
    ASSUME OutAssumption, TypeInv, Fresh, Step
    PROVE  Fresh'
<1>a. /\ accepted \in Seq(Nat) /\ arg \in Seq(Nat) /\ made \in Nat
      /\ Len(accepted) \in Nat /\ Len(arg) \in Nat
      /\ pc # "direct" /\ pc # "drain" => arg = <<>>
  BY OutLengths
<1>b. Len(<<>>) = 0
  BY SMT
<1>c. ASSUME arg = <<>> PROVE \A i \in 1..Len(accepted) : accepted[i] \in Nat /\ accepted[i] <= made
  BY <1>a, <1>b, <1>c, LenProperties, SMT DEF Fresh
<1>d. ASSUME NEW s \in Nat
      PROVE  Value(s) \in Seq(Nat) /\ Len(Value(s)) = s /\ \A i \in 1..s : Value(s)[i] = made + i
  BY <1>a, ValueType DEF Value
<1>1. ASSUME NEW s \in Sizes, InsertDirect(s) \/ InsertDrain(s) PROVE Fresh'
  <2>1. /\ pc = "idle" /\ made' = made + s /\ arg' = Value(s) /\ accepted' = accepted
    BY <1>1 DEF InsertDirect, InsertDrain, Offer
  <2>2. s \in Nat /\ s > 0 /\ arg = <<>>
    BY <2>1, <1>a, SMT DEF OutAssumption
  <2>3. Len(arg') = s /\ \A i \in 1..s : arg'[i] = made + i
    BY <2>1, <2>2, <1>d
  <2>4. made' - Len(arg') = made /\ Len(arg') <= made' /\ Len(arg') > 0
    BY <2>1, <2>2, <2>3, <1>a, SMT
  <2> QED BY <2>1, <2>2, <2>3, <2>4, <1>c DEF Fresh
<1>2. ASSUME NEW s \in Sizes, InsertBuffered(s) PROVE Fresh'
  <2>1. pc = "idle" /\ pc' = pc /\ made' = made + s /\ arg' = arg /\ accepted' = accepted \o Value(s)
    BY <1>2 DEF InsertBuffered, Offer
  <2>2. s \in Nat /\ arg = <<>> /\ Len(arg) = 0 /\ made + s \in Nat
    BY <2>1, <1>a, <1>b, SMT DEF OutAssumption
  <2>3. \A i \in 1..Len(accepted) : accepted[i] <= made + s
    <3>1. ASSUME NEW i \in 1..Len(accepted) PROVE accepted[i] <= made + s
      BY <2>2, <1>a, <1>c, SMT
    <3> QED BY <3>1
  <2>4. Value(s) \in Seq(Nat) /\ \A i \in 1..Len(Value(s)) : Value(s)[i] <= made + s
    BY <2>2, <1>a, <1>d, SMT
  <2>5. \A i \in 1..Len(accepted') : accepted'[i] <= made + s
    BY <2>1, <2>2, <2>3, <2>4, <1>a, JoinedBelow
  <2>6. Len(arg') = 0 /\ made' - Len(arg') = made + s /\ Len(arg') <= made'
    BY <2>1, <2>2, <1>a, SMT
  <2> QED BY <2>1, <2>2, <2>5, <2>6, SMT DEF Fresh
<1>3. ASSUME NEW k \in 0..SockCapacity, DirectReturns(k) \/ DrainReturns(k) PROVE Fresh'
  <2>1. accepted' = accepted \o arg /\ arg' = <<>> /\ made' = made /\ pc' = "idle"
    BY <1>3 DEF DirectReturns, DrainReturns, Return, Transfer
  <2> QED BY <2>1, FreshReturns
<1>4. ASSUME NEW k \in 0..SockCapacity, SendSome(k) PROVE Fresh'
  BY <1>4 DEF SendSome, Transfer, Fresh
<1>5. ASSUME arg' = <<>>, accepted' = accepted, made' = made, pc' \notin {"direct", "drain"}
      PROVE  Fresh'
  <2>1. \A i \in 1..Len(accepted) : accepted[i] <= made
    <3>1. ASSUME NEW i \in 1..Len(accepted) PROVE accepted[i] <= made
      <4>1. accepted[i] \in Nat /\ accepted[i] <= made - Len(arg)
        BY <1>a, LenProperties DEF Fresh
      <4> QED BY <4>1, <1>a, SMT
    <3> QED BY <3>1
  <2>2. Len(arg') = 0 /\ made' - Len(arg') = made
    BY <1>5, <1>a, <1>b, SMT
  <2> QED BY <2>1, <2>2, <1>5, <1>a, SMT DEF Fresh
<1>6. ASSUME NEW k \in 0..SockCapacity, FlushReturns(k) PROVE Fresh'
  BY <1>6, <1>5 DEF FlushReturns, Return, Transfer
<1>7. CASE SendFails
  BY <1>7, <1>5 DEF SendFails, Return
<1>8. CASE Flush \/ Destroy
  BY <1>8, <1>5, <1>a DEF Flush, Destroy
<1> QED BY <1>1, <1>2, <1>3, <1>4, <1>6, <1>7, <1>8 DEF Step, Insert, SendAll

\* The peer takes bytes out; nothing else changes.
Outside == UNCHANGED outVars /\ drained' \in 0..Len(sent)

LEMMA OutsideKeeps ==
    ASSUME TypeInv, OrderInv, Fresh, Outside
    PROVE  TypeInv' /\ OrderInv' /\ Fresh'
<1>1. TypeInv'
  BY DEF TypeInv, TypeOK, Cursor, Source, outVars, Outside
<1>2. OrderInv' /\ Fresh'
  BY DEF OrderInv, DirectInOrder, InOrder, RestBuffered, Fresh, outVars, Outside
<1> QED BY <1>1, <1>2

\* A step of the output half takes nothing back that was sent.
LEMMA SentGrows ==
    ASSUME OutAssumption, TypeInv, Step
    PROVE  Len(sent) <= Len(sent') /\ \A i \in 1..Len(sent) : sent'[i] = sent[i]
<1>1. /\ sent \in Seq(Nat) /\ n \in Nat /\ Len(sent) \in Nat /\ SockCapacity \in Nat
      /\ Source \in Seq(Nat)
  BY OutLengths DEF Source
<1>2. ASSUME NEW k \in 0..SockCapacity, SendAll(k)
      PROVE  Len(sent) <= Len(sent') /\ \A i \in 1..Len(sent) : sent'[i] = sent[i]
  <2>0. k \in Nat
    BY <1>1, SMT
  <2>1. n + k <= Len(Source) /\ sent' = sent \o SubSeq(Source, n + 1, n + k)
    BY <1>2 DEF SendAll, SendSome, DirectReturns, DrainReturns, FlushReturns, Transfer
  <2>2. Len(sent') = Len(sent) + k /\ \A i \in 1..Len(sent) : sent'[i] = sent[i]
    BY <1>1, <2>0, <2>1, SliceAppended
  <2> QED BY <2>0, <2>2, <1>1, SMT
<1>3. ASSUME ~\E k \in 0..SockCapacity : SendAll(k) PROVE sent' = sent
  BY <1>3 DEF Step, Insert, InsertDirect, InsertDrain, InsertBuffered, Flush, SendFails, Destroy
<1>4. Len(sent) <= Len(sent)
  BY <1>1, SMT
<1> QED BY <1>2, <1>3, <1>4

\* The beginning of a sequence, and nothing of it.
LEMMA Beginning ==
    ASSUME NEW t \in Seq(Nat), NEW m \in 0..Len(t)
    PROVE  /\ SubSeq(t, 1, m) \in Seq(Nat) /\ Len(SubSeq(t, 1, m)) = m
           /\ \A i \in 1..m : SubSeq(t, 1, m)[i] = t[i]
<1>1. Len(t) \in Nat /\ m \in Nat /\ \A i \in 1..m : t[i] \in Nat
  BY LenProperties, SMT
<1>2. /\ SubSeq(t, 1, m) \in Seq(Nat)
      /\ Len(SubSeq(t, 1, m)) = IF 1 <= m THEN m - 1 + 1 ELSE 0
      /\ \A i \in 1..(m - 1 + 1) : SubSeq(t, 1, m)[i] = t[1 + i - 1]
  BY <1>1, SubSeqProperties, SMT
<1>3. Len(SubSeq(t, 1, m)) = m /\ m - 1 + 1 = m
  BY <1>1, <1>2, SMT
<1>4. ASSUME NEW i \in 1..m PROVE SubSeq(t, 1, m)[i] = t[i]
  <2>1. 1 + i - 1 = i /\ i \in 1..(m - 1 + 1)
    BY <1>1, SMT
  <2> QED BY <2>1, <1>2
<1> QED BY <1>2, <1>3, <1>4

\* What was sent is a beginning of what entered the stream, until a call is torn or
\* a value overtakes.
LEMMA SentIsWritten ==
    ASSUME OutAssumption, TypeInv, OrderInv, ~torn, ~overtook
    PROVE  /\ Written \in Seq(Nat) /\ Len(sent) <= Len(Written)
           /\ \A i \in 1..Len(sent) : sent[i] = Written[i]
<1> DEFINE m == IF pc = "direct" THEN n ELSE 0
           b == SubSeq(arg, 1, m)
<1>1. /\ arg \in Seq(Nat) /\ sent \in Seq(Nat) /\ accepted \in Seq(Nat) /\ n \in Nat
      /\ Len(arg) \in Nat /\ Len(sent) \in Nat /\ Len(accepted) \in Nat
  BY OutLengths
<1>2. m \in 0..Len(arg)
  BY <1>1, SMT DEF TypeInv, Cursor, Source
<1> HIDE DEF m
<1>3. b \in Seq(Nat) /\ Len(b) = m /\ \A i \in 1..m : b[i] = arg[i]
  BY <1>1, <1>2, Beginning
<1> HIDE DEF b
<1>4. Written = accepted \o b
  BY DEF Written, b, m
<1>5. /\ Written \in Seq(Nat) /\ Len(Written) = Len(accepted) + m
      /\ \A i \in 1..(Len(accepted) + m) :
            Written[i] = IF i <= Len(accepted) THEN accepted[i] ELSE b[i - Len(accepted)]
  BY <1>1, <1>3, <1>4, ConcatProperties
<1>6. CASE pc = "direct"
  <2>1. DirectInOrder /\ m = n
    BY <1>6 DEF OrderInv, m
  <2>2. Len(sent) = Len(accepted) + m
    BY <2>1 DEF DirectInOrder
  <2>3. ASSUME NEW i \in 1..Len(sent) PROVE sent[i] = Written[i]
    <3>1. CASE i <= Len(accepted)
      <4>1. i \in 1..Len(accepted)
        BY <3>1, <1>1, SMT
      <4> QED BY <4>1, <3>1, <2>1, <2>2, <1>5 DEF DirectInOrder
    <3>2. CASE i > Len(accepted)
      <4> DEFINE j == i - Len(accepted)
      <4>1. j \in 1..m /\ Len(accepted) + j = i /\ ~(i <= Len(accepted))
        BY <3>2, <2>2, <1>1, <1>2, SMT
      <4>2. Written[i] = b[j]
        BY <4>1, <2>2, <1>5
      <4> HIDE DEF j
      <4>3. sent[Len(accepted) + j] = arg[j]
        BY <4>1, <2>1 DEF DirectInOrder
      <4> QED BY <4>1, <4>2, <4>3, <1>3
    <3> QED BY <3>1, <3>2, <1>1, SMT
  <2> QED BY <2>2, <2>3, <1>1, <1>2, <1>5, SMT
<1>7. CASE pc # "direct"
  <2>1. InOrder /\ m = 0
    BY <1>7 DEF OrderInv, m
  <2>2. Len(Written) = Len(accepted) /\ Len(sent) <= Len(Written)
    BY <2>1, <1>1, <1>5, SMT DEF InOrder
  <2>3. ASSUME NEW i \in 1..Len(sent) PROVE sent[i] = Written[i]
    <3>1. i <= Len(accepted) /\ i \in 1..(Len(accepted) + m)
      BY <2>1, <2>2, <1>1, SMT
    <3> QED BY <3>1, <2>1, <1>5 DEF InOrder
  <2> QED BY <2>2, <2>3, <1>5
<1> QED BY <1>6, <1>7

\* Two sequences with the same elements are one.
LEMMA SameSequence ==
    ASSUME NEW t \in Seq(Nat), NEW u \in Seq(Nat), Len(t) = Len(u),
           \A i \in 1..Len(t) : t[i] = u[i]
    PROVE  t = u
BY SeqEqual

\* Joining is associative.
LEMMA JoinedTwice ==
    ASSUME NEW t \in Seq(Nat), NEW u \in Seq(Nat), NEW v \in Seq(Nat)
    PROVE  (t \o u) \o v = t \o (u \o v)
<1> DEFINE a == t \o u
           d == u \o v
<1>1. Len(t) \in Nat /\ Len(u) \in Nat /\ Len(v) \in Nat
  BY LenProperties
<1>2. /\ a \in Seq(Nat) /\ Len(a) = Len(t) + Len(u)
      /\ \A i \in 1..(Len(t) + Len(u)) : a[i] = IF i <= Len(t) THEN t[i] ELSE u[i - Len(t)]
  BY ConcatProperties
<1>3. /\ d \in Seq(Nat) /\ Len(d) = Len(u) + Len(v)
      /\ \A i \in 1..(Len(u) + Len(v)) : d[i] = IF i <= Len(u) THEN u[i] ELSE v[i - Len(u)]
  BY ConcatProperties
<1> HIDE DEF a, d
<1>4. /\ a \o v \in Seq(Nat) /\ Len(a \o v) = Len(a) + Len(v)
      /\ \A i \in 1..(Len(a) + Len(v)) : (a \o v)[i] = IF i <= Len(a) THEN a[i] ELSE v[i - Len(a)]
  <2>1. a \in Seq(Nat)
    BY <1>2
  <2> QED BY <2>1, ConcatProperties
<1>5. /\ t \o d \in Seq(Nat) /\ Len(t \o d) = Len(t) + Len(d)
      /\ \A i \in 1..(Len(t) + Len(d)) : (t \o d)[i] = IF i <= Len(t) THEN t[i] ELSE d[i - Len(t)]
  <2>1. d \in Seq(Nat)
    BY <1>3
  <2> QED BY <2>1, ConcatProperties
<1>6. Len(a \o v) = Len(t \o d)
  BY <1>1, <1>2, <1>3, <1>4, <1>5, SMT
<1>7. ASSUME NEW i \in 1..Len(a \o v) PROVE (a \o v)[i] = (t \o d)[i]
  <2>1. i \in Nat /\ i \in 1..(Len(a) + Len(v)) /\ i \in 1..(Len(t) + Len(d))
    BY <1>1, <1>2, <1>3, <1>4, <1>5, SMT
  <2>2. CASE i <= Len(t)
    <3>1. i <= Len(a) /\ i \in 1..(Len(t) + Len(u))
      BY <2>1, <2>2, <1>1, <1>2, SMT
    <3>2. (a \o v)[i] = t[i]
      BY <3>1, <2>1, <2>2, <1>2, <1>4
    <3> QED BY <3>2, <2>1, <2>2, <1>5
  <2>3. CASE i > Len(t) /\ i <= Len(a)
    <3>1. /\ i \in 1..(Len(t) + Len(u)) /\ ~(i <= Len(t))
          /\ i - Len(t) \in 1..(Len(u) + Len(v)) /\ i - Len(t) <= Len(u)
      BY <2>1, <2>3, <1>1, <1>2, SMT
    <3>2. (a \o v)[i] = u[i - Len(t)]
      BY <3>1, <2>1, <2>3, <1>2, <1>4
    <3>3. (t \o d)[i] = u[i - Len(t)]
      BY <3>1, <2>1, <1>3, <1>5
    <3> QED BY <3>2, <3>3
  <2>4. CASE i > Len(a)
    <3>1. /\ ~(i <= Len(t)) /\ ~(i <= Len(a)) /\ ~(i - Len(t) <= Len(u))
          /\ i - Len(t) \in 1..(Len(u) + Len(v))
          /\ (i - Len(t)) - Len(u) = i - Len(a)
      BY <2>1, <2>4, <1>1, <1>2, <1>3, SMT
    <3>2. (a \o v)[i] = v[i - Len(a)]
      BY <3>1, <2>1, <1>4
    <3>3. (t \o d)[i] = v[(i - Len(t)) - Len(u)]
      BY <3>1, <2>1, <1>3, <1>5
    <3> QED BY <3>1, <3>2, <3>3
  <2>5. i <= Len(t) \/ (i > Len(t) /\ i <= Len(a)) \/ i > Len(a)
    BY <2>1, <1>1, <1>2, SMT
  <2> QED BY <2>2, <2>3, <2>4, <2>5, Zenon
<1>8. a \o v = t \o d
  BY <1>4, <1>5, <1>6, <1>7, SameSequence
<1> QED BY <1>8 DEF a, d

\* The value is b + 1, b + 2...
NumberedFrom(v, b) == \A i \in 1..Len(v) : v[i] = b + i

\* The k bytes behind b, and those of such a value that follow its first m.
Bytes(b, k) == [i \in 1..k |-> b + i]

\* The stream when the first m bytes of the value in arg are in it.
Part(m) == accepted \o SubSeq(arg, 1, m)

LEMMA Continuation ==
    ASSUME accepted \in Seq(Nat), arg \in Seq(Nat), NEW m \in Nat, NEW k \in Nat, NEW b \in Nat,
           m + k <= Len(arg), NumberedFrom(arg, b)
    PROVE  Part(m + k) = Part(m) \o Bytes(b + m, k)
<1> DEFINE p == SubSeq(arg, 1, m)
           q == SubSeq(arg, 1, m + k)
           x == Bytes(b + m, k)
<1>1. m \in 0..Len(arg) /\ m + k \in 0..Len(arg) /\ Len(accepted) \in Nat /\ Len(arg) \in Nat /\ m + k \in Nat
  BY LenProperties, SMT
<1>2. /\ p \in Seq(Nat) /\ Len(p) = m /\ \A i \in 1..m : p[i] = arg[i]
      /\ q \in Seq(Nat) /\ Len(q) = m + k /\ \A i \in 1..(m + k) : q[i] = arg[i]
  BY <1>1, Beginning
<1>3. x \in Seq(Nat) /\ Len(x) = k /\ \A i \in 1..k : x[i] = b + m + i
  <2>1. x \in [1..k -> Nat] /\ \A i \in 1..k : x[i] = b + m + i
    BY SMT DEF Bytes
  <2>2. x \in Seq(Nat)
    BY <2>1, SMT
  <2>3. Len(x) = k
    BY <2>1, <2>2, LenProperties, SMT
  <2> QED BY <2>1, <2>2, <2>3
<1> HIDE DEF p, q, x
<1>4. /\ p \o x \in Seq(Nat) /\ Len(p \o x) = m + k
      /\ \A i \in 1..(m + k) : (p \o x)[i] = IF i <= m THEN p[i] ELSE x[i - m]
  <2>1. p \in Seq(Nat) /\ x \in Seq(Nat) /\ Len(p) = m /\ Len(x) = k
    BY <1>2, <1>3
  <2>2. /\ p \o x \in Seq(Nat) /\ Len(p \o x) = Len(p) + Len(x)
        /\ \A i \in 1..(Len(p) + Len(x)) :
              (p \o x)[i] = IF i <= Len(p) THEN p[i] ELSE x[i - Len(p)]
    BY <2>1, ConcatProperties
  <2> QED BY <2>1, <2>2
<1>5. ASSUME NEW i \in 1..(m + k) PROVE q[i] = (p \o x)[i]
  <2>1. q[i] = b + i
    <3>1. i \in 1..Len(arg)
      BY <1>1, SMT
    <3> QED BY <3>1, <1>2 DEF NumberedFrom
  <2>2. CASE i <= m
    <3>1. i \in 1..m /\ i \in 1..Len(arg)
      BY <2>2, <1>1, SMT
    <3> QED BY <3>1, <2>1, <2>2, <1>2, <1>4
  <2>3. CASE i > m
    <3> DEFINE j == i - m
    <3>1. j \in 1..k /\ b + m + j = b + i /\ ~(i <= m)
      BY <2>3, SMT
    <3>2. (p \o x)[i] = x[j]
      BY <3>1, <1>4
    <3> HIDE DEF j
    <3>3. x[j] = b + i
      BY <3>1, <1>3
    <3> QED BY <3>2, <3>3, <2>1
  <2>4. i <= m \/ i > m
    BY SMT
  <2> QED BY <2>2, <2>3, <2>4, Zenon
<1>6. q = p \o x
  BY <1>2, <1>4, <1>5, SameSequence
<1>7. (accepted \o p) \o x = accepted \o (p \o x)
  <2>1. p \in Seq(Nat) /\ x \in Seq(Nat) /\ accepted \in Seq(Nat)
    BY <1>2, <1>3
  <2> QED BY <2>1, JoinedTwice
<1> QED BY <1>6, <1>7 DEF p, q, x, Part

\* Nothing of a value joined to a sequence leaves it as it is, all of it is the value.
LEMMA JoinedEnds ==
    ASSUME NEW t \in Seq(Nat), NEW v \in Seq(Nat)
    PROVE  t \o SubSeq(v, 1, 0) = t /\ SubSeq(v, 1, Len(v)) = v
<1>1. 0 \in 0..Len(v) /\ Len(v) \in 0..Len(v) /\ Len(t) \in Nat /\ Len(v) \in Nat
  BY LenProperties, SMT
<1>2. SubSeq(v, 1, 0) \in Seq(Nat) /\ Len(SubSeq(v, 1, 0)) = 0
  BY <1>1, Beginning
<1>3. SubSeq(v, 1, Len(v)) = v
  <2>1. /\ SubSeq(v, 1, Len(v)) \in Seq(Nat) /\ Len(SubSeq(v, 1, Len(v))) = Len(v)
        /\ \A i \in 1..Len(v) : SubSeq(v, 1, Len(v))[i] = v[i]
    BY <1>1, Beginning
  <2> QED BY <2>1, SameSequence
<1>4. t \o SubSeq(v, 1, 0) = t
  <2> DEFINE p == SubSeq(v, 1, 0)
  <2>1. p \in Seq(Nat) /\ Len(p) = 0
    BY <1>2
  <2> HIDE DEF p
  <2>2. /\ t \o p \in Seq(Nat) /\ Len(t \o p) = Len(t) + Len(p)
        /\ \A i \in 1..(Len(t) + Len(p)) : (t \o p)[i] = IF i <= Len(t) THEN t[i] ELSE p[i - Len(t)]
    BY <2>1, ConcatProperties
  <2>3. Len(t \o p) = Len(t) /\ \A i \in 1..Len(t \o p) : (t \o p)[i] = t[i]
    BY <2>1, <2>2, <1>1, SMT
  <2>4. t \o p = t
    BY <2>2, <2>3, SameSequence
  <2> QED BY <2>4 DEF p
<1> QED BY <1>3, <1>4

\* k bytes behind all that were offered before, up to the e-th, are new.
LEMMA BytesAreNew ==
    ASSUME NEW w \in Seq(Nat), NEW b \in Nat, NEW k \in Nat \ {0}, b + k <= MaxBytes,
           OutAssumption, \A i \in 1..Len(w) : w[i] <= b
    PROVE  NewBytes(w, w \o Bytes(b, k))
<1>1. b + 1 \in 1..MaxBytes /\ b + k \in (b + 1)..MaxBytes /\ (b + k) - (b + 1) + 1 = k
  BY SMT DEF OutAssumption
<1>2. \A i \in 1..Len(w) : w[i] < b + 1
  <2>1. ASSUME NEW i \in 1..Len(w) PROVE w[i] < b + 1
    <3>1. w[i] \in Nat /\ w[i] <= b
      BY LenProperties
    <3> QED BY <3>1, SMT
  <2> QED BY <2>1
<1>3. Bytes(b, k) = [i \in 1..((b + k) - (b + 1) + 1) |-> (b + 1) + i - 1]
  <2>1. \A i \in 1..k : b + i = (b + 1) + i - 1
    BY SMT
  <2> QED BY <2>1, <1>1 DEF Bytes
<1>4. /\ \A i \in 1..Len(w) : w[i] < b + 1
      /\ w \o Bytes(b, k)
           = w \o [i \in 1..((b + k) - (b + 1) + 1) |-> (b + 1) + i - 1]
  BY <1>2, <1>3
<1> QED BY <1>1, <1>4 DEF NewBytes

\* Bytes of the value in arg behind its m-th, entering the stream, are new.
LEMMA PartIsNew ==
    ASSUME OutAssumption, TypeInv, Fresh, NEW m \in Nat, NEW k \in Nat \ {0}, m + k <= Len(arg)
    PROVE  NewBytes(accepted \o SubSeq(arg, 1, m), accepted \o SubSeq(arg, 1, m + k))
<1>1. /\ accepted \in Seq(Nat) /\ arg \in Seq(Nat) /\ made \in Nat /\ made \in 0..MaxBytes
      /\ Len(accepted) \in Nat /\ Len(arg) \in Nat /\ MaxBytes \in Nat
  BY OutLengths
<1> DEFINE b == made - Len(arg)
           p == SubSeq(arg, 1, m)
<1>2. b \in Nat /\ b + Len(arg) = made /\ b + m \in Nat /\ (b + m) + k <= MaxBytes
      /\ m \in 0..Len(arg) /\ k \in Nat
  BY <1>1, SMT DEF Fresh
<1>3. /\ \A i \in 1..Len(arg) : arg[i] = b + i
      /\ \A i \in 1..Len(accepted) : accepted[i] <= b
  BY DEF Fresh
<1> HIDE DEF b
<1>4. p \in Seq(Nat) /\ Len(p) = m /\ \A i \in 1..m : p[i] = arg[i]
  BY <1>1, <1>2, Beginning
<1>5. \A i \in 1..Len(accepted) : accepted[i] <= b + m
  <2>1. ASSUME NEW i \in 1..Len(accepted) PROVE accepted[i] <= b + m
    <3>1. accepted[i] \in Nat /\ accepted[i] <= b
      BY <1>1, <1>3, LenProperties
    <3> QED BY <3>1, <1>2, SMT
  <2> QED BY <2>1
<1>6. \A i \in 1..Len(p) : p[i] <= b + m
  <2>1. ASSUME NEW i \in 1..m PROVE p[i] <= b + m
    <3>1. i \in 1..Len(arg)
      BY <1>1, <1>2, SMT
    <3>2. p[i] = b + i
      BY <3>1, <1>3, <1>4
    <3> QED BY <3>2, <1>2, SMT
  <2> QED BY <2>1, <1>4
<1> HIDE DEF p
<1>7. accepted \o p \in Seq(Nat) /\ \A i \in 1..Len(accepted \o p) : (accepted \o p)[i] <= b + m
  <2>1. accepted \o p \in Seq(Nat)
    BY <1>1, <1>4, ConcatProperties
  <2>2. \A i \in 1..Len(accepted \o p) : (accepted \o p)[i] <= b + m
    BY <1>1, <1>2, <1>4, <1>5, <1>6, JoinedBelow
  <2> QED BY <2>1, <2>2
<1>8. NewBytes(accepted \o p, (accepted \o p) \o Bytes(b + m, k))
  <2> DEFINE w == accepted \o p
  <2>1. w \in Seq(Nat) /\ \A i \in 1..Len(w) : w[i] <= b + m
    BY <1>7
  <2> HIDE DEF w
  <2>2. b + m \in Nat /\ (b + m) + k <= MaxBytes
    BY <1>2
  <2>3. NewBytes(w, w \o Bytes(b + m, k))
    BY <2>1, <2>2, BytesAreNew
  <2> QED BY <2>3 DEF w
<1>9. accepted \o SubSeq(arg, 1, m + k) = (accepted \o p) \o Bytes(b + m, k)
  <2>1. accepted \o SubSeq(arg, 1, m + k) = (accepted \o SubSeq(arg, 1, m)) \o Bytes(b + m, k)
    <3>1. NumberedFrom(arg, b)
      BY <1>3 DEF NumberedFrom
    <3>2. /\ accepted \in Seq(Nat) /\ arg \in Seq(Nat) /\ m \in Nat /\ k \in Nat /\ b \in Nat
          /\ m + k <= Len(arg)
      BY <1>1, <1>2
    <3>3. Part(m + k) = Part(m) \o Bytes(b + m, k)
      BY <3>1, <3>2, Continuation
    <3> QED BY <3>3 DEF Part
  <2> QED BY <2>1 DEF p
<1> QED BY <1>8, <1>9 DEF p

\* Every step of an output half adds new bytes to the stream, or none, unless it
\* tears a call or overtakes.
LEMMA StepWrites ==
    ASSUME OutAssumption, TypeInv, Fresh, Step, ~torn', ~overtook'
    PROVE  Written' = Written \/ NewBytes(Written, Written')
<1>1. /\ accepted \in Seq(Nat) /\ arg \in Seq(Nat) /\ made \in Nat /\ made \in 0..MaxBytes
      /\ Len(accepted) \in Nat /\ Len(arg) \in Nat /\ n \in Nat /\ SockCapacity \in Nat
      /\ pc # "direct" /\ pc # "drain" => arg = <<>>
  BY OutLengths
<1>2. /\ accepted \o SubSeq(arg, 1, 0) = accepted /\ SubSeq(arg, 1, Len(arg)) = arg
  BY <1>1, JoinedEnds
<1>3. pc # "direct" => Written = accepted
  BY <1>2 DEF Written
<1>4. pc = "direct" => Written = accepted \o SubSeq(arg, 1, n)
  BY DEF Written
<1>5. <<>> \in Seq(Nat)
  BY SMT
<1>6. ASSUME NEW t \in Seq(Nat), NEW v \in Seq(Nat) PROVE t \o SubSeq(v, 1, 0) = t
  BY JoinedEnds
<1>7. ASSUME pc' # "direct", accepted' \in Seq(Nat), arg' \in Seq(Nat) PROVE Written' = accepted'
  <2>1. Written' = accepted' \o SubSeq(arg', 1, 0)
    BY <1>7 DEF Written
  <2> QED BY <2>1, <1>6, <1>7
<1>8. ASSUME NEW s \in Sizes, InsertDirect(s) \/ InsertDrain(s) PROVE Written' = Written
  <2>1. /\ pc = "idle" /\ n' = 0 /\ accepted' = accepted /\ arg' = Value(s) /\ s \in Nat
    BY <1>8, SMT DEF InsertDirect, InsertDrain, Offer, OutAssumption
  <2>2. Value(s) \in Seq(Nat)
    BY <2>1, <1>1, ValueType
  <2>3. Written' = accepted \o SubSeq(Value(s), 1, 0)
    BY <2>1 DEF Written
  <2>4. accepted \o SubSeq(Value(s), 1, 0) = accepted
    BY <2>2, <1>1, <1>6
  <2> QED BY <2>1, <2>3, <2>4, <1>3
<1>9. ASSUME NEW s \in Sizes, InsertBuffered(s) PROVE NewBytes(Written, Written')
  <2>1. /\ pc = "idle" /\ pc' = pc /\ arg' = arg /\ accepted' = accepted \o Value(s)
        /\ made + s <= MaxBytes /\ s \in Nat \ {0}
    BY <1>9, SMT DEF InsertBuffered, Offer, OutAssumption
  <2>2. accepted' \in Seq(Nat)
    BY <2>1, <1>1, ValueType, ConcatProperties
  <2>3. Written' = accepted \o Value(s) /\ Written = accepted
    BY <2>1, <2>2, <1>1, <1>3, <1>7
  <2>4. \A i \in 1..Len(accepted) : accepted[i] <= made
    <3>1. arg = <<>> /\ Len(<<>>) = 0
      BY <2>1, <1>1, SMT
    <3>2. made - Len(arg) = made
      BY <3>1, <1>1, SMT
    <3> QED BY <3>2 DEF Fresh
  <2>5. NewBytes(accepted, accepted \o Bytes(made, s))
    BY <2>1, <2>4, <1>1, BytesAreNew
  <2> QED BY <2>3, <2>5 DEF Value, Bytes
<1>10. ASSUME NEW k \in 0..SockCapacity, SendSome(k)
       PROVE  Written' = Written \/ NewBytes(Written, Written')
  <2>1. /\ pc' = pc /\ accepted' = accepted /\ arg' = arg /\ n' = n + k
        /\ n + k <= Len(Source) /\ n + k # Len(Source) /\ (k = 0 => Source = <<>>)
    BY <1>10 DEF SendSome, Transfer
  <2>2. CASE pc # "direct"
    BY <2>1, <2>2, <1>1, <1>3, <1>7
  <2>3. CASE pc = "direct"
    <3>1. Source = arg
      BY <2>3 DEF Source
    <3>2. k # 0
      <4>1. ASSUME k = 0 PROVE FALSE
        <5>1. arg = <<>> /\ Len(<<>>) = 0
          BY <2>1, <3>1, <4>1, SMT
        <5>2. n + k <= 0 /\ n + k # 0
          BY <2>1, <3>1, <5>1
        <5> QED BY <5>2, <4>1, <1>1, SMT
      <4> QED BY <4>1
    <3>3. k \in Nat \ {0} /\ n + k <= Len(arg)
      BY <2>1, <3>1, <3>2, <1>1, SMT
    <3>4. NewBytes(accepted \o SubSeq(arg, 1, n), accepted \o SubSeq(arg, 1, n + k))
      BY <3>3, <1>1, PartIsNew
    <3>5. Written' = accepted \o SubSeq(arg, 1, n + k)
      BY <2>1, <2>3 DEF Written
    <3> QED BY <3>4, <3>5, <2>3, <1>4
  <2> QED BY <2>2, <2>3
<1>11. ASSUME NEW k \in 0..SockCapacity, DirectReturns(k)
       PROVE  Written' = Written \/ NewBytes(Written, Written')
  <2>1. /\ pc = "direct" /\ pc' = "idle" /\ arg' = <<>> /\ accepted' = accepted \o arg
        /\ n + k = Len(arg)
    BY <1>11 DEF DirectReturns, Return, Source
  <2>2. accepted' \in Seq(Nat)
    BY <2>1, <1>1, ConcatProperties
  <2>3. Written' = accepted \o SubSeq(arg, 1, n + k)
    <3>1. Written' = accepted'
      BY <2>1, <2>2, <1>5, <1>7
    <3> QED BY <3>1, <2>1, <1>2
  <2>4. CASE k = 0
    <3>1. n + k = n
      BY <2>4, <1>1, SMT
    <3> QED BY <3>1, <2>1, <2>3, <1>4
  <2>5. CASE k # 0
    <3>1. k \in Nat \ {0} /\ n + k <= Len(arg)
      BY <2>1, <2>5, <1>1, SMT
    <3>2. NewBytes(accepted \o SubSeq(arg, 1, n), accepted \o SubSeq(arg, 1, n + k))
      BY <3>1, <1>1, PartIsNew
    <3> QED BY <3>2, <2>1, <2>3, <1>4
  <2> QED BY <2>4, <2>5
<1>12. ASSUME NEW k \in 0..SockCapacity, DrainReturns(k) PROVE NewBytes(Written, Written')
  <2>1. /\ pc = "drain" /\ pc' = "idle" /\ arg' = <<>> /\ accepted' = accepted \o arg
    BY <1>12 DEF DrainReturns, Return
  <2>2. accepted' \in Seq(Nat)
    BY <2>1, <1>1, ConcatProperties
  <2>3. Written' = accepted \o arg
    BY <2>1, <2>2, <1>5, <1>7
  <2>4. Len(arg) \in Nat \ {0} /\ 0 + Len(arg) = Len(arg) /\ 0 \in Nat /\ 0 + Len(arg) <= Len(arg)
    BY <2>1, <1>1, SMT DEF Fresh
  <2>5. NewBytes(accepted \o SubSeq(arg, 1, 0), accepted \o SubSeq(arg, 1, 0 + Len(arg)))
    BY <2>4, PartIsNew
  <2> QED BY <2>1, <2>3, <2>4, <2>5, <1>2, <1>3
<1>13. ASSUME pc # "direct", pc' # "direct", accepted' = accepted,
              arg' = arg \/ arg' = <<>>
       PROVE  Written' = Written
  <2>1. accepted' \in Seq(Nat) /\ arg' \in Seq(Nat)
    BY <1>1, <1>5, <1>13
  <2> QED BY <2>1, <1>3, <1>7, <1>13
<1>14. ASSUME NEW k \in 0..SockCapacity, FlushReturns(k) PROVE Written' = Written
  BY <1>14, <1>13 DEF FlushReturns, Return
<1>15. CASE SendFails
  <2>1. /\ accepted' = accepted /\ arg' = <<>> /\ pc' = "idle" /\ ~(n > 0)
    BY <1>15 DEF SendFails, Return
  <2>2. CASE pc = "direct"
    <3>1. n = 0
      BY <2>1, <1>1, SMT
    <3>2. Written = accepted
      BY <3>1, <2>2, <1>2, <1>4
    <3> QED BY <3>2, <2>1, <1>1, <1>5, <1>7
  <2>3. CASE pc # "direct"
    BY <2>1, <2>3, <1>13
  <2> QED BY <2>2, <2>3
<1>16. CASE Flush \/ Destroy
  BY <1>16, <1>13 DEF Flush, Destroy
<1> QED BY <1>8, <1>9, <1>10, <1>11, <1>12, <1>14, <1>15, <1>16 DEF Step, Insert, SendAll
=============================================================================
