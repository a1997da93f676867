------------------------ MODULE BufferedStream_proofs ------------------------
(***************************************************************************)
(* The two halves of a connection implement a FIFO of bytes, for buffers,  *)
(* values, chunks and kernel queues of any size and any run of failures.   *)
(***************************************************************************)
EXTENDS BufferedStream, SequenceTheorems, TLAPS

\* The modules' proofs, of the same variables.
OutP == INSTANCE BufferedOutput_proofs
         WITH Sizes <- InsertSizes, MaxFailures <- MaxSendFailures,
              pc <- opc, failures <- sendFailures, drained <- taken
InP == INSTANCE StringInput_proofs
         WITH Sizes <- ExtractSizes, MaxFailures <- MaxRecvFailures, OutCapacity <- 0,
              Junk <- {0}, MaxBytes <- MaxStream, pc <- ipc, failures <- recvFailures,
              \* no strings are extracted
              Nuls <- {}, MaxStrings <- 0,
              todo <- -1, whole <- FALSE, strings <- 0, undefined <- FALSE

-----------------------------------------------------------------------------
\* Both halves are as their own proofs have them, and nothing arrives that was
\* not sent.
StreamInv ==
    /\ OutP!TypeInv /\ OutP!OrderInv /\ OutP!Fresh
    /\ InP!InInv
    /\ arrived <= Len(sent)

-----------------------------------------------------------------------------
\* LEMMAS

LEMMA Assumptions == OutP!OutAssumption /\ InP!InAssumption /\ InP!StringAssumption
<1>1. OutP!OutAssumption /\ InP!InAssumption
  BY StreamAssumption
     DEF Out!OutAssumption, In!InAssumption, OutP!OutAssumption, InP!InAssumption
<1> QED BY <1>1, SMT DEF InP!StringAssumption

\* The steps of the composition are the halves' own.
LEMMA SendIsStep == ASSUME Send PROVE OutP!Step
BY DEF Send, Out!Step, OutP!Step, Out!Insert, OutP!Insert,
       Out!InsertDirect, OutP!InsertDirect, Out!InsertDrain, OutP!InsertDrain,
       Out!InsertBuffered, OutP!InsertBuffered, Out!Offer, OutP!Offer, Out!Value, OutP!Value,
       Out!Flush, OutP!Flush, Out!SendAll, OutP!SendAll, Out!SendSome, OutP!SendSome,
       Out!Transfer, OutP!Transfer, Out!Room, OutP!Room, Out!Source, OutP!Source,
       Out!Sending, OutP!Sending, Out!Return, OutP!Return,
       Out!DirectReturns, OutP!DirectReturns, Out!DrainReturns, OutP!DrainReturns,
       Out!FlushReturns, OutP!FlushReturns, Out!SendFails, OutP!SendFails,
       Out!Destroy, OutP!Destroy

LEMMA ExtractIsRead ==
    ASSUME NEW s, NEW k, In!ReadInputBuffer(s, k)
    PROVE  InP!ReadInputBuffer(s, k)
BY DEF In!ReadInputBuffer, InP!ReadInputBuffer, In!Local, InP!Local, In!Exact, InP!Exact,
       In!Block, InP!Block, In!Start, InP!Start, In!Receivable, InP!Receivable,
       In!Pending, InP!Pending, In!Received, InP!Received, In!Copy, InP!Copy,
       In!Memory, InP!Memory, In!peerVars, InP!peerVars

LEMMA ResumeIsResume == ASSUME In!Resume PROVE InP!Resume
BY DEF In!Resume, InP!Resume, In!WaitSome, InP!WaitSome, In!WaitDone, InP!WaitDone,
       In!WaitCut, InP!WaitCut, In!Wait, InP!Wait, In!Waited, InP!Waited,
       In!Pending, InP!Pending, In!Continued, InP!Continued, In!Return, InP!Return,
       In!peerVars, InP!peerVars

LEMMA FailsIsFail ==
    ASSUME In!ReceiveFails \/ In!WaitFails
    PROVE  InP!ReceiveFails \/ InP!WaitFails
BY DEF In!ReceiveFails, InP!ReceiveFails, In!WaitFails, InP!WaitFails,
       In!Waited, InP!Waited, In!peerVars, InP!peerVars

LEMMA DeliverIsPeer ==
    ASSUME InP!InInv, Deliver \/ Finish
    PROVE  InP!Close \/ \E k \in 1..MaxStream : InP!Arrive(k)
<1>1. ASSUME NEW k \in 1..SockCapacity, In!Arrive(k)
      PROVE  \E m \in 1..MaxStream : InP!Arrive(m)
  <2>1. InP!Arrive(k)
    BY <1>1 DEF In!Arrive, InP!Arrive
  <2>2. k \in 1..MaxStream
    BY <1>1, Assumptions, SMT DEF In!Arrive, InP!InInv, InP!InTypes, InP!TypeOK, InP!InAssumption
  <2> QED BY <2>1, <2>2
<1>2. In!Close => InP!Close
  BY DEF In!Close, InP!Close
<1> QED BY <1>1, <1>2 DEF Deliver, Finish

-----------------------------------------------------------------------------
\* THE INVARIANT

LEMMA StreamInvInit == ASSUME Init PROVE StreamInv
<1>1. OutP!Init /\ InP!Init
  BY DEF Init, Out!Init, OutP!Init, In!Init, InP!Init, In!Memory, InP!Memory
<1>2. OutP!TypeInv /\ OutP!Fresh
  BY <1>1, Assumptions, OutP!TypeInvInit, OutP!FreshInit
<1>3. InP!InInv
  BY <1>1, Assumptions, InP!InInvInit
<1>4. Len(<<>>) = 0
  BY SMT
<1>5. OutP!OrderInv
  BY <1>1, <1>4, SMT DEF OutP!Init, OutP!OrderInv, OutP!InOrder, OutP!RestBuffered
<1>6. arrived <= Len(sent)
  BY <1>1, <1>4, SMT DEF OutP!Init, InP!Init
<1> QED BY <1>2, <1>3, <1>5, <1>6 DEF StreamInv

LEMMA SendKeeps == ASSUME StreamInv, Send PROVE StreamInv'
<1>1. OutP!Step /\ UNCHANGED inVars
  BY SendIsStep DEF Send
<1>2. OutP!TypeInv' /\ OutP!OrderInv'
  BY <1>1, Assumptions, OutP!TypeInvStep, OutP!OrderInvStep DEF StreamInv, OutP!Next
<1>3. OutP!Fresh'
  BY <1>1, Assumptions, OutP!FreshStep DEF StreamInv
<1>4. InP!InInv'
  BY <1>1, Assumptions, InP!InInvStep DEF StreamInv, inVars, InP!vars
<1>5. arrived' <= Len(sent')
  <2>1. Len(sent) <= Len(sent')
    BY <1>1, Assumptions, OutP!SentGrows DEF StreamInv
  <2>2. Len(sent) \in Nat /\ Len(sent') \in Nat
    BY <1>2, LenProperties DEF StreamInv, OutP!TypeInv, OutP!TypeOK
  <2>3. arrived \in Nat /\ arrived <= Len(sent) /\ arrived' = arrived
    BY <1>1, SMT DEF StreamInv, InP!InInv, InP!InTypes, InP!TypeOK, inVars
  <2> QED BY <2>1, <2>2, <2>3, SMT
<1> QED BY <1>2, <1>3, <1>4, <1>5 DEF StreamInv

\* Steps of the other half and of the kernel leave the output half as it is.
LEMMA OtherKeeps ==
    ASSUME StreamInv, Deliver \/ Finish \/ Extract \/ Resume \/ RecvFails
    PROVE  StreamInv'
<1>1. UNCHANGED outVars
  BY DEF Deliver, Finish, Extract, Resume, RecvFails
<1>2. InP!Next
  BY DeliverIsPeer, ExtractIsRead, ResumeIsResume, FailsIsFail
  DEF StreamInv, Deliver, Finish, Extract, Resume, RecvFails, InP!Next
<1>3. InP!InInv'
  BY <1>2, Assumptions, InP!InInvStep DEF StreamInv
<1>4. arrived' <= Len(sent)
  <2>1. CASE Deliver
    BY <2>1 DEF Deliver, In!Arrive
  <2>2. CASE Finish
    BY <2>2 DEF Finish, In!Close, StreamInv
  <2>3. CASE Extract \/ Resume \/ RecvFails
    <3>1. arrived' = arrived
      BY <2>3 DEF Extract, Resume, RecvFails, In!ReadInputBuffer, In!Local, In!Exact, In!Block,
                  In!Start, In!Resume, In!WaitSome, In!WaitDone, In!WaitCut, In!Wait,
                  In!ReceiveFails, In!WaitFails, In!peerVars
    <3> QED BY <3>1 DEF StreamInv
  <2> QED BY <2>1, <2>2, <2>3
<1>5. taken' \in 0..Len(sent)
  <2>1. Len(sent) \in Nat
    BY LenProperties DEF StreamInv, OutP!TypeInv, OutP!TypeOK
  <2>2. taken' \in 0..arrived' /\ arrived' \in Nat
    BY <1>3, Assumptions, SMT DEF InP!InInv, InP!InTypes, InP!TypeOK, InP!InAssumption
  <2> QED BY <2>1, <2>2, <1>4, SMT
<1>6. OutP!TypeInv' /\ OutP!OrderInv' /\ OutP!Fresh'
  <2>1. OutP!Outside
    BY <1>1, <1>5 DEF OutP!Outside, outVars, OutP!outVars
  <2> QED BY <2>1, Assumptions, OutP!OutsideKeeps DEF StreamInv
<1>7. arrived' <= Len(sent')
  BY <1>1, <1>4 DEF outVars
<1> QED BY <1>3, <1>6, <1>7 DEF StreamInv

LEMMA StreamInvStep == ASSUME StreamInv, [Next]_vars PROVE StreamInv'
<1>1. CASE UNCHANGED vars
  <2>1. OutP!TypeInv' /\ OutP!OrderInv' /\ OutP!Fresh'
    <3>1. UNCHANGED outVars /\ taken' = taken
      BY <1>1 DEF vars, inVars
    <3>2. taken' \in 0..Len(sent)
      BY <3>1 DEF StreamInv, OutP!TypeInv, OutP!TypeOK
    <3>3. OutP!Outside
      BY <3>1, <3>2 DEF OutP!Outside, outVars, OutP!outVars
    <3> QED BY <3>3, Assumptions, OutP!OutsideKeeps DEF StreamInv
  <2>2. InP!InInv'
    BY <1>1, Assumptions, InP!InInvStep DEF StreamInv, vars, inVars, InP!vars
  <2>3. arrived' <= Len(sent')
    BY <1>1 DEF StreamInv, vars, outVars, inVars
  <2> QED BY <2>1, <2>2, <2>3 DEF StreamInv
<1> QED BY <1>1, SendKeeps, OtherKeeps DEF Next

-----------------------------------------------------------------------------
\* THE FIFO

\* The first m elements of a sequence, written the way Data is.
First(s, m) == [i \in 1..m |-> s[i]]

LEMMA FirstType ==
    ASSUME NEW s \in Seq(Nat), NEW m \in 0..Len(s)
    PROVE  /\ First(s, m) \in Seq(Nat) /\ Len(First(s, m)) = m
           /\ \A i \in 1..m : First(s, m)[i] = s[i]
<1>1. Len(s) \in Nat /\ m \in Nat
  BY LenProperties, SMT
<1>2. First(s, m) \in [1..m -> Nat]
  <2>1. ASSUME NEW i \in 1..m PROVE s[i] \in Nat
    <3>1. i \in 1..Len(s)
      BY <1>1, SMT
    <3> QED BY <3>1, LenProperties
  <2> QED BY <2>1 DEF First
<1>3. First(s, m) \in Seq(Nat)
  BY <1>1, <1>2, SMT
<1> QED BY <1>1, <1>2, <1>3, LenProperties, SMT DEF First

\* Of a sequence that only grows, the beginning stays.
LEMMA FirstStays ==
    ASSUME NEW s, NEW s2, NEW m \in 0..Len(s), Len(s) \in Nat, \A i \in 1..Len(s) : s2[i] = s[i]
    PROVE  First(s2, m) = First(s, m)
<1>1. \A i \in 1..m : i \in 1..Len(s)
  BY SMT
<1> QED BY <1>1 DEF First

\* The beginning of a sequence goes on with the bytes of another that it begins.
LEMMA FirstGoesOn ==
    ASSUME NEW s \in Seq(Nat), NEW w \in Seq(Nat), Len(s) <= Len(w),
           \A i \in 1..Len(s) : s[i] = w[i],
           NEW l \in 0..Len(s), NEW k \in Nat, l + k <= Len(s)
    PROVE  First(s, l + k) = First(s, l) \o SubSeq(w, l + 1, l + k)
<1> DEFINE a == First(s, l)
           b == SubSeq(w, l + 1, l + k)
           c == First(s, l + k)
<1>1. Len(s) \in Nat /\ Len(w) \in Nat /\ l \in Nat /\ l + k \in 0..Len(s)
  BY LenProperties, SMT
<1>2. /\ a \in Seq(Nat) /\ Len(a) = l /\ \A i \in 1..l : a[i] = s[i]
      /\ c \in Seq(Nat) /\ Len(c) = l + k /\ \A i \in 1..(l + k) : c[i] = s[i]
  BY <1>1, FirstType
<1>3. /\ b \in Seq(Nat) /\ Len(b) = k
      /\ \A i \in 1..k : b[i] = w[l + i]
  <2>1. \A i \in (l + 1)..(l + k) : w[i] \in Nat
    <3>1. ASSUME NEW i \in (l + 1)..(l + k) PROVE w[i] \in Nat
      <4>1. i \in 1..Len(w)
        BY <1>1, SMT
      <4> QED BY <4>1, LenProperties
    <3> QED BY <3>1
  <2>2. /\ b \in Seq(Nat)
        /\ Len(b) = IF l + 1 <= l + k THEN l + k - (l + 1) + 1 ELSE 0
        /\ \A i \in 1..(l + k - (l + 1) + 1) : b[i] = w[l + 1 + i - 1]
    BY <1>1, <2>1, SubSeqProperties, SMT
  <2>3. l + k - (l + 1) + 1 = k /\ \A i \in 1..k : l + 1 + i - 1 = l + i
    BY <1>1, SMT
  <2>4. Len(b) = k
    BY <2>2, <1>1, SMT
  <2>5. \A i \in 1..k : b[i] = w[l + i]
    BY <2>2, <2>3
  <2> QED BY <2>2, <2>4, <2>5
<1> HIDE DEF a, b, c
<1>4. /\ a \o b \in Seq(Nat) /\ Len(a \o b) = Len(a) + Len(b)
      /\ \A i \in 1..(Len(a) + Len(b)) :
            (a \o b)[i] = IF i <= Len(a) THEN a[i] ELSE b[i - Len(a)]
  <2>1. a \in Seq(Nat) /\ b \in Seq(Nat)
    BY <1>2, <1>3
  <2> QED BY <2>1, ConcatProperties
<1>5. ASSUME NEW i \in 1..(l + k) PROVE c[i] = (a \o b)[i]
  <2>1. c[i] = w[i]
    <3>1. i \in 1..Len(s)
      BY <1>1, SMT
    <3> QED BY <3>1, <1>2
  <2>2. CASE i <= l
    <3>1. i \in 1..l /\ i \in 1..Len(s)
      BY <2>2, <1>1, SMT
    <3>2. (a \o b)[i] = a[i]
      BY <2>2, <1>2, <1>3, <1>4
    <3> QED BY <2>1, <3>1, <3>2, <1>2
  <2>3. CASE i > l
    <3> DEFINE j == i - l
    <3>1. j \in 1..k /\ l + j = i /\ ~(i <= l)
      BY <2>3, <1>1, SMT
    <3>2. (a \o b)[i] = b[j]
      BY <3>1, <1>2, <1>3, <1>4
    <3> HIDE DEF j
    <3> QED BY <2>1, <3>1, <3>2, <1>3
  <2>4. i <= l \/ i > l
    BY <1>1, SMT
  <2> QED BY <2>2, <2>3, <2>4, Zenon
<1>6. c = a \o b
  BY <1>2, <1>3, <1>4, <1>5, SeqEqual
<1> QED BY <1>6 DEF a, b, c

\* What the application has is the beginning of what was sent.
LEMMA DataIsFirst ==
    ASSUME StreamInv, ~short
    PROVE  Data = First(sent, Len(read)) /\ Len(read) \in 0..arrived /\ Len(read) \in 0..Len(sent)
<1>1. /\ Len(sent) \in Nat /\ arrived \in Nat /\ taken \in 0..arrived /\ arrived <= Len(sent)
      /\ Len(read) \in Nat /\ Len(dst) \in Nat /\ size \in Nat /\ rd \in 0..size
      /\ ipc \in {"idle", "waitall"}
  BY Assumptions, LenProperties, SMT
  DEF StreamInv, OutP!TypeInv, OutP!TypeOK, InP!InInv, InP!InTypes, InP!TypeOK, InP!InAssumption
<1>2. \A i \in 1..Len(read) : read[i] = i
  BY DEF StreamInv, InP!InInv, InP!InStep
<1>3. Len(read) <= taken
  <2>1. taken = Len(read) + (size - rd) \/ taken = Len(read) + Len(dst)
    BY <1>1 DEF StreamInv, InP!InInv, InP!InStep
  <2> QED BY <2>1, <1>1, SMT
<1>4. Len(read) \in 0..arrived /\ Len(read) \in 0..Len(sent)
  BY <1>1, <1>3, SMT
<1>5. \A i \in 1..Len(read) : i \in 1..Len(sent)
  BY <1>1, <1>4, SMT
<1>6. Data = First(sent, Len(read))
  BY <1>2, <1>5 DEF Data, First
<1> QED BY <1>4, <1>6

-----------------------------------------------------------------------------
\* THE REFINEMENT

Broken == torn \/ short \/ overtook

\* A broken connection stays broken.
LEMMA BrokenStays == ASSUME StreamInv, Next, ~Broken' PROVE ~Broken
<1>1. CASE Send
  <2>1. torn => torn'
    BY <1>1, SendIsStep
    DEF OutP!Step, OutP!Insert, OutP!InsertDirect, OutP!InsertDrain, OutP!InsertBuffered,
        OutP!Flush, OutP!SendAll, OutP!SendSome, OutP!DirectReturns, OutP!DrainReturns,
        OutP!FlushReturns, OutP!Transfer, OutP!SendFails, OutP!Destroy
  <2>2. overtook => overtook'
    BY <1>1, SendIsStep
    DEF OutP!Step, OutP!Insert, OutP!InsertDirect, OutP!InsertDrain, OutP!InsertBuffered,
        OutP!Flush, OutP!SendAll, OutP!SendSome, OutP!DirectReturns, OutP!DrainReturns,
        OutP!FlushReturns, OutP!Transfer, OutP!SendFails, OutP!Destroy
  <2>3. short' = short
    BY <1>1 DEF Send, inVars
  <2> QED BY <2>1, <2>2, <2>3 DEF Broken
<1>2. CASE Deliver \/ Finish \/ Extract \/ Resume \/ RecvFails
  <2>1. torn' = torn /\ overtook' = overtook
    BY <1>2 DEF Deliver, Finish, Extract, Resume, RecvFails, outVars
  <2>2. short => short'
    BY <1>2 DEF Deliver, Finish, Extract, Resume, RecvFails, In!Arrive, In!Close,
                In!ReadInputBuffer, In!Local, In!Exact, In!Block, In!Start, In!Resume,
                In!WaitSome, In!WaitDone, In!WaitCut, In!Wait, In!ReceiveFails, In!WaitFails
  <2> QED BY <2>1, <2>2 DEF Broken
<1> QED BY <1>1, <1>2 DEF Next

\* Sending is writing, and does not touch what has been read.
LEMMA SendWrites ==
    ASSUME StreamInv, Send, ~Broken, ~Broken'
    PROVE  /\ Data' = Data
           /\ OutP!Written' = OutP!Written \/ OutP!NewBytes(OutP!Written, OutP!Written')
<1>1. OutP!Step /\ UNCHANGED inVars
  BY SendIsStep DEF Send
<1>2. OutP!Written' = OutP!Written \/ OutP!NewBytes(OutP!Written, OutP!Written')
  BY <1>1, Assumptions, OutP!StepWrites DEF StreamInv, Broken
<1>3. Len(sent) <= Len(sent') /\ \A i \in 1..Len(sent) : sent'[i] = sent[i]
  BY <1>1, Assumptions, OutP!SentGrows DEF StreamInv
<1>4. Data = First(sent, Len(read)) /\ Len(read) \in 0..Len(sent)
  BY DataIsFirst DEF Broken
<1>5. /\ \A i \in 1..Len(read) : read[i] = i
      /\ Len(sent) \in Nat /\ Len(sent') \in Nat /\ read' = read
  <2>1. StreamInv'
    BY SendKeeps
  <2> QED BY <1>1, <2>1, LenProperties
      DEF StreamInv, InP!InInv, InP!InStep, Broken, inVars, OutP!TypeInv, OutP!TypeOK
<1>6. Data' = First(sent', Len(read))
  <2>1. \A i \in 1..Len(read) : i \in 1..Len(sent')
    BY <1>3, <1>4, <1>5, SMT
  <2>2. \A i \in 1..Len(read') : read'[i] = i /\ i \in 1..Len(sent')
    BY <1>5, <2>1
  <2>3. Data' = First(sent', Len(read'))
    BY <2>2 DEF Data, First
  <2> QED BY <2>3, <1>5
<1>7. First(sent', Len(read)) = First(sent, Len(read))
  BY <1>3, <1>4, <1>5, FirstStays
<1> QED BY <1>2, <1>4, <1>6, <1>7

\* A value that has been extracted are the next bytes that were written.
LEMMA OtherReads ==
    ASSUME StreamInv, Deliver \/ Finish \/ Extract \/ Resume \/ RecvFails, ~Broken, ~Broken'
    PROVE  /\ OutP!Written' = OutP!Written
           /\ \/ Data' = Data
              \/ \E m \in 1..(Len(OutP!Written) - Len(Data)) :
                    Data' = Data \o SubSeq(OutP!Written, Len(Data) + 1, Len(Data) + m)
<1> DEFINE W == OutP!Written
<1>1. UNCHANGED outVars
  BY DEF Deliver, Finish, Extract, Resume, RecvFails
<1>2. W' = W /\ sent' = sent
  BY <1>1 DEF outVars, OutP!Written
<1>3. Data = First(sent, Len(read)) /\ Len(read) \in 0..Len(sent)
  BY DataIsFirst DEF Broken
<1>4. StreamInv'
  BY OtherKeeps
<1>5. /\ sent \in Seq(Nat) /\ Len(sent) \in Nat /\ Len(read) \in Nat
      /\ W \in Seq(Nat) /\ Len(sent) <= Len(W) /\ \A i \in 1..Len(sent) : sent[i] = W[i]
  <2>1. sent \in Seq(Nat) /\ Len(sent) \in Nat /\ Len(read) \in Nat
    BY LenProperties DEF StreamInv, OutP!TypeInv, OutP!TypeOK, InP!InInv, InP!InTypes, InP!TypeOK
  <2>2. W \in Seq(Nat) /\ Len(sent) <= Len(W) /\ \A i \in 1..Len(sent) : sent[i] = W[i]
    BY Assumptions, OutP!SentIsWritten DEF StreamInv, Broken
  <2> QED BY <2>1, <2>2
<1>6. Data' = First(sent, Len(read')) /\ Len(read') \in 0..Len(sent) /\ Len(read') \in Nat
  <2>1. /\ \A i \in 1..Len(read') : read'[i] = i
        /\ Len(read') \in Nat /\ Len(read') <= taken' /\ taken' \in 0..arrived'
        /\ arrived' \in Nat /\ arrived' <= Len(sent')
    <3>1. /\ arrived' \in Nat /\ taken' \in 0..arrived' /\ arrived' <= Len(sent')
          /\ Len(read') \in Nat /\ Len(dst') \in Nat /\ size' \in Nat /\ rd' \in 0..size'
          /\ ipc' \in {"idle", "waitall"}
      BY <1>4, Assumptions, LenProperties, SMT
      DEF StreamInv, InP!InInv, InP!InTypes, InP!TypeOK, InP!InAssumption
    <3>2. \A i \in 1..Len(read') : read'[i] = i
      BY <1>4 DEF StreamInv, InP!InInv, InP!InStep, Broken
    <3>3. taken' = Len(read') + (size' - rd') \/ taken' = Len(read') + Len(dst')
      BY <1>4, <3>1 DEF StreamInv, InP!InInv, InP!InStep, Broken
    <3>4. Len(read') <= taken'
      BY <3>1, <3>3, SMT
    <3> QED BY <3>1, <3>2, <3>4
  <2>2. Len(read') \in 0..Len(sent)
    BY <2>1, <1>2, <1>5, SMT
  <2>3. \A i \in 1..Len(read') : read'[i] = i /\ i \in 1..Len(sent')
    BY <2>1, <2>2, <1>2, <1>5, SMT
  <2>4. Data' = First(sent', Len(read'))
    BY <2>3 DEF Data, First
  <2> QED BY <2>1, <2>2, <2>4, <1>2
<1>7. Len(read) <= Len(read')
  <2>1. InP!InInv /\ InP!InInv' /\ ~short'
    BY <1>4 DEF StreamInv, Broken
  <2>2. ASSUME NEW s \in ExtractSizes, NEW k \in 0..InCapacity, In!ReadInputBuffer(s, k)
        PROVE  Len(read) <= Len(read')
    <3>1. s \in Nat \ {0} /\ k \in Nat
      BY Assumptions, SMT DEF InP!InAssumption
    <3>2. InP!ReadInputBuffer(s, k)
      BY <2>2, ExtractIsRead
    <3> QED BY <2>1, <3>1, <3>2, Assumptions, InP!ReadGrows
  <2>3. CASE Resume
    <3>1. InP!Resume /\ 1 \in Nat \ {0} /\ 0 \in Nat
      BY <2>3, ResumeIsResume, SMT DEF Resume
    <3> QED BY <2>1, <3>1, Assumptions, InP!ReadGrows
  <2>4. CASE Deliver \/ Finish \/ RecvFails
    <3>1. read' = read
      BY <2>4 DEF Deliver, Finish, RecvFails, In!Arrive, In!Close, In!ReceiveFails, In!WaitFails
    <3> QED BY <3>1, <1>5, SMT
  <2> QED BY <2>2, <2>3, <2>4 DEF Extract
<1> DEFINE l == Len(read)
           k == Len(read') - Len(read)
<1>8. k \in Nat /\ l + k = Len(read') /\ l \in 0..Len(sent) /\ l + k <= Len(sent)
  BY <1>3, <1>5, <1>6, <1>7, SMT
<1>9. Len(Data) = l
  BY <1>3, <1>5, FirstType
<1> HIDE DEF W, l, k
<1>10. First(sent, l + k) = First(sent, l) \o SubSeq(W, l + 1, l + k)
  BY <1>5, <1>8, FirstGoesOn
<1>11. CASE k = 0
  <2>1. Len(read') = Len(read)
    BY <1>8, <1>11, <1>5, SMT DEF l
  <2> QED BY <2>1, <1>2, <1>3, <1>6 DEF W
<1>12. CASE k # 0
  <2>1. k \in 1..(Len(W) - Len(Data))
    BY <1>5, <1>8, <1>9, <1>12, LenProperties, SMT
  <2>2. Data' = Data \o SubSeq(W, Len(Data) + 1, Len(Data) + k)
    <3>1. Data' = First(sent, l + k) /\ Data = First(sent, l)
      BY <1>3, <1>6, <1>8 DEF l
    <3> QED BY <3>1, <1>9, <1>10
  <2> QED BY <2>1, <2>2, <1>2 DEF W
<1> QED BY <1>11, <1>12

\* Every step of the connection is a step of the FIFO, or none.
LEMMA StreamStep ==
    ASSUME StreamInv, [Next]_vars
    PROVE  [Stream!Next]_Stream!streamVars
<1> DEFINE W == OutP!Written
<1>1. W = accepted \o SubSeq(arg, 1, IF opc = "direct" THEN n ELSE 0)
  BY DEF OutP!Written
<1>2. CASE Broken'
  BY <1>2 DEF Broken, Stream!Next, Stream!Break
<1>3. CASE UNCHANGED vars
  BY <1>3 DEF vars, outVars, inVars, Data, Stream!streamVars
<1>4. CASE Next /\ ~Broken'
  <2>1. ~Broken
    BY <1>4, BrokenStays
  <2>2. (torn \/ short \/ overtook)' = (torn \/ short \/ overtook)
    BY <1>4, <2>1 DEF Broken
  <2>3. CASE Send
    <3>1. Data' = Data /\ (W' = W \/ OutP!NewBytes(W, W'))
      BY <1>4, <2>1, <2>3, SendWrites
    <3>2. ASSUME OutP!NewBytes(W, W') PROVE Stream!Write
      BY <3>1, <3>2, <2>1, <2>2 DEF OutP!NewBytes, Stream!Write, Broken, OutP!Written
    <3>3. ASSUME W' = W PROVE UNCHANGED Stream!streamVars
      BY <3>1, <3>3, <2>2 DEF Stream!streamVars, OutP!Written
    <3> QED BY <3>1, <3>2, <3>3 DEF Stream!Next
  <2>4. CASE Deliver \/ Finish \/ Extract \/ Resume \/ RecvFails
    <3>1. /\ W' = W
          /\ \/ Data' = Data
             \/ \E m \in 1..(Len(W) - Len(Data)) :
                   Data' = Data \o SubSeq(W, Len(Data) + 1, Len(Data) + m)
      BY <1>4, <2>1, <2>4, OtherReads
    <3>2. ASSUME NEW m \in 1..(Len(W) - Len(Data)),
                 Data' = Data \o SubSeq(W, Len(Data) + 1, Len(Data) + m)
          PROVE  Stream!Read
      BY <3>1, <3>2, <2>1, <2>2 DEF Stream!Read, Broken, OutP!Written
    <3>3. ASSUME Data' = Data PROVE UNCHANGED Stream!streamVars
      BY <3>1, <3>3, <2>2 DEF Stream!streamVars, OutP!Written
    <3> QED BY <3>1, <3>2, <3>3 DEF Stream!Next
  <2> QED BY <1>4, <2>3, <2>4 DEF Next
<1> QED BY <1>2, <1>3, <1>4

LEMMA StreamInit == ASSUME Init PROVE Stream!Init
<1>1. /\ opc = "idle" /\ arg = <<>> /\ accepted = <<>> /\ read = <<>>
      /\ torn = FALSE /\ overtook = FALSE /\ short = FALSE
  BY DEF Init, Out!Init, In!Init
<1>2. Data = <<>>
  BY <1>1, SMT DEF Data
<1>3. accepted \o SubSeq(arg, 1, IF opc = "direct" THEN n ELSE 0) = <<>>
  BY <1>1, SMT
<1> QED BY <1>1, <1>2, <1>3 DEF Stream!Init

-----------------------------------------------------------------------------
\* What is extracted at one end are the bytes inserted at the other, each once and
\* in order, whatever the capacities, the sizes of values on both sides, the chunks
\* the kernel takes and delivers, and the failures, until a call is cut in the
\* middle or a value overtakes buffered ones.
THEOREM StreamImplemented == Spec => ImplementsStream
<1>1. Init => StreamInv
  BY StreamInvInit
<1>2. StreamInv /\ [Next]_vars => StreamInv'
  BY StreamInvStep
<1>3. Init => Stream!Init
  BY StreamInit
<1>4. StreamInv /\ [Next]_vars => [Stream!Next]_Stream!streamVars
  BY StreamStep
<1> QED BY <1>1, <1>2, <1>3, <1>4, PTL DEF Spec, ImplementsStream, Stream!Spec
=============================================================================
