---------------------------- MODULE FdPass_proofs ----------------------------
(***************************************************************************)
(* fdpass, for batches, lists and queues of any length, any number of      *)
(* processes that take a path over, fail and die, over a path and over a   *)
(* stream.  The argument, for one process that sends: what a receiver has  *)
(* of the list it is putting together, the batches in its queue, and what  *)
(* the sender has left follow one another without a gap, so that recv()    *)
(* wraps as many descriptors as every message brought.  The lists then go  *)
(* through as through a FIFO: the next of them is the one at the head of   *)
(* the receiver's queue, and its last batch is sent when send() returns.   *)
(***************************************************************************)
EXTENDS FdPass, SequenceTheorems, TLAPS

-----------------------------------------------------------------------------
\* TYPES, whoever sends

\* The i-th descriptor of the k-th list.
Numbered(L) == \A k \in 1..Len(L) : \A i \in 1..Len(L[k]) : L[k][i] = <<k, i>>

\* send() is in the middle of a list, and of its connection.
Sending ==
    \A p \in Procs : pc[p] = "send" =>
        /\ p \in Senders /\ peer[p] \in Procs
        /\ \E k \in 1..Len(lists) : list[p] = lists[k]
        /\ next[p] < Len(list[p])

PassTypes == TypeOK /\ Numbered(lists) /\ Sending

-----------------------------------------------------------------------------
\* SEQUENCES

LEMMA FdsType == ASSUME NEW k \in Nat, NEW i \in Nat PROVE <<k, i>> \in Fds
BY DEF Fds

LEMMA NotLast ==
    ASSUME NEW n \in Nat, NEW i \in 1..(n + 1), i # n + 1
    PROVE  i \in 1..n
BY SMT

LEMMA Behind ==
    ASSUME NEW a \in Nat, NEW b \in Nat, NEW i \in 1..(a + b), ~(i <= a)
    PROVE  i - a \in 1..b /\ a + (i - a) = i
BY SMT

\* Numbered descriptors are a list.
LEMMA ListType ==
    ASSUME NEW k \in Nat, NEW c \in Nat
    PROVE  /\ [i \in 1..c |-> <<k, i>>] \in Seq(Fds)
           /\ Len([i \in 1..c |-> <<k, i>>]) = c
           /\ \A i \in 1..c : [j \in 1..c |-> <<k, j>>][i] = <<k, i>>
<1> DEFINE l == [i \in 1..c |-> <<k, i>>]
<1>1. \A i \in 1..c : <<k, i>> \in Fds
  BY FdsType
<1>2. l \in [1..c -> Fds]
  BY <1>1
<1>3. l \in Seq(Fds)
  BY <1>2
<1>4. Len(l) = c
  BY <1>2, <1>3, LenProperties, SMT
<1> QED BY <1>3, <1>4

LEMMA LongerLists ==
    ASSUME NEW L \in Seq(Seq(Fds)), NEW x \in Seq(Fds)
    PROVE  /\ Append(L, x) \in Seq(Seq(Fds)) /\ Len(L) \in Nat
           /\ Len(Append(L, x)) = Len(L) + 1
           /\ \A k \in 1..Len(L) : Append(L, x)[k] = L[k]
           /\ Append(L, x)[Len(L) + 1] = x
BY AppendProperties, LenProperties

\* The next batch of list l when n descriptors of it are sent, and its last one.
CutAt(l, n) == IF n + Batch < Len(l) THEN n + Batch ELSE Len(l)
CutOff(l, n) == SubSeq(l, n + 1, CutAt(l, n))

LEMMA Cut ==
    ASSUME NEW l \in Seq(Fds), NEW n \in Nat, n < Len(l)
    PROVE  /\ CutAt(l, n) \in Nat /\ CutAt(l, n) > n /\ CutAt(l, n) <= Len(l)
           /\ CutOff(l, n) \in Seq(Fds) /\ Len(CutOff(l, n)) = CutAt(l, n) - n
           /\ Len(CutOff(l, n)) = IF Len(l) - n < Batch THEN Len(l) - n ELSE Batch
           /\ \A i \in 1..Len(CutOff(l, n)) : CutOff(l, n)[i] = l[n + i]
<1> DEFINE last == CutAt(l, n)
           f == CutOff(l, n)
<1>1. Len(l) \in Nat /\ Batch \in Nat \ {0} /\ f = SubSeq(l, n + 1, last)
  BY LenProperties, PassAssumption DEF CutOff
<1>2. /\ last \in Nat /\ last > n /\ last <= Len(l)
      /\ last = IF n + Batch < Len(l) THEN n + Batch ELSE Len(l)
  BY <1>1, SMT DEF CutAt
<1> HIDE DEF last, f
<1>3. \A i \in (n + 1)..last : l[i] \in Fds
  <2>1. ASSUME NEW i \in (n + 1)..last PROVE l[i] \in Fds
    <3>1. i \in 1..Len(l)
      BY <1>1, <1>2, SMT
    <3> QED BY <3>1, ElementOfSeq
  <2> QED BY <2>1
<1>4. /\ f \in Seq(Fds) /\ Len(f) = (IF n + 1 <= last THEN last - (n + 1) + 1 ELSE 0)
      /\ \A i \in 1..(last - (n + 1) + 1) : f[i] = l[(n + 1) + i - 1]
  <2>1. n + 1 \in Int /\ last \in Int
    BY <1>2, SMT
  <2>2. /\ SubSeq(l, n + 1, last) \in Seq(Fds)
        /\ Len(SubSeq(l, n + 1, last)) = IF n + 1 <= last THEN last - (n + 1) + 1 ELSE 0
        /\ \A i \in 1..(last - (n + 1) + 1) :
              SubSeq(l, n + 1, last)[i] = l[(n + 1) + i - 1]
    BY <2>1, <1>3, SubSeqProperties
  <2> QED BY <2>2, <1>1
<1>5. Len(f) = last - n
  BY <1>2, <1>4, SMT
<1>6. ASSUME NEW i \in 1..Len(f) PROVE f[i] = l[n + i]
  <2>1. i \in 1..(last - (n + 1) + 1) /\ (n + 1) + i - 1 = n + i
    BY <1>2, <1>5, SMT
  <2> QED BY <1>4, <2>1
<1>7. Len(f) = IF Len(l) - n < Batch THEN Len(l) - n ELSE Batch
  BY <1>1, <1>2, <1>5, SMT
<1> QED BY <1>2, <1>4, <1>5, <1>6, <1>7 DEF last, f

-----------------------------------------------------------------------------
\* THE TYPES ARE KEPT, one lemma for each action

LEMMA InitTypes == ASSUME Init PROVE PassTypes
<1>1. /\ 0 \in 0..(Batch + 1) /\ 0 \in 0..MaxRecvs /\ 0 \in 0..MaxFailures /\ 0 \in Nat
  BY PassAssumption, SMT
<1>2. /\ \A S : <<>> \in Seq(S) /\ Len(<<>>) = 0
  BY EmptySeq
<1>3. TypeOK
  <2>1. pc \in [Procs -> States] /\ peer \in [Procs -> Procs \cup {Nobody}]
    BY DEF Init, Procs, States
  <2>2. /\ stream \in BOOLEAN /\ ready \in [Procs -> BOOLEAN] /\ path \in Procs \cup {Nobody}
        /\ cut \in BOOLEAN
    BY DEF Init
  <2>3. /\ queue \in [Procs -> Seq([size : Nat, fds : Seq(Fds)])]
        /\ \A p \in Procs : queue[p] = <<>>
    BY <1>2 DEF Init
  <2>4. /\ list \in [Procs -> Seq(Fds)] /\ next \in [Procs -> Nat]
        /\ v \in [Procs -> Seq(Fds)] /\ room \in [Procs -> 0..(Batch + 1)]
        /\ returned \in [Procs -> Seq(Seq(Fds))] /\ installed \in [Procs -> SUBSET Fds]
        /\ lists \in Seq(Seq(Fds)) /\ complete \subseteq 1..Len(lists)
        /\ calls \in [Procs -> 0..MaxRecvs] /\ failures \in 0..MaxFailures
    BY <1>1, <1>2 DEF Init
  <2>5. \A p \in Procs : Len(queue[p]) <= QueueLen
    BY <2>3, <1>2, PassAssumption, SMT
  <2>6. \A p \in Procs : \A i \in 1..Len(queue[p]) : Len(queue[p][i].fds) \in 1..Batch
    BY <2>3, <1>2, SMT
  <2> QED BY <2>1, <2>2, <2>3, <2>4, <2>5, <2>6 DEF TypeOK
<1>4. Numbered(lists)
  BY <1>2, SMT DEF Init, Numbered
<1>5. Sending
  BY DEF Init, Sending
<1> QED BY <1>3, <1>4, <1>5 DEF PassTypes

LEMMA SendStartTypes ==
    ASSUME PassTypes, NEW p \in Senders, NEW c \in Counts, SendStart(p, c)
    PROVE  PassTypes'
<1> DEFINE k == Len(lists) + 1
           fds == [i \in 1..c |-> <<k, i>>]
<1>1. p \in Procs /\ c \in Nat /\ TypeOK
  BY PassAssumption DEF PassTypes, Procs
<1>2. lists \in Seq(Seq(Fds)) /\ Len(lists) \in Nat /\ k \in Nat /\ k \in 1..k
  BY <1>1, LenProperties, SMT DEF TypeOK
<1>3. /\ fds \in Seq(Fds) /\ Len(fds) = c /\ \A i \in 1..c : fds[i] = <<k, i>>
  BY <1>1, <1>2, ListType
<1>4. pc' = pc \/ (c # 0 /\ pc' = [pc EXCEPT ![p] = "send"])
  <2>1. CASE c = 0
    BY <2>1 DEF SendStart
  <2>2. CASE c # 0
    BY <2>2 DEF SendStart
  <2> QED BY <2>1, <2>2
<1>5. complete' = complete \/ complete' = complete \cup {k}
  BY DEF SendStart
<1>6. /\ lists' = Append(lists, fds) /\ list' = [list EXCEPT ![p] = fds]
      /\ next' = [next EXCEPT ![p] = 0]
      /\ ready' = [ready EXCEPT ![p] = TRUE]
      /\ peer' = [peer EXCEPT ![p] = IF ready[p] THEN @ ELSE path]
      /\ IF ready[p] THEN peer[p] # Nobody ELSE path # Nobody
      /\ UNCHANGED <<stream, path, queue, recvVars, cut, failures>>
      /\ pc[p] = "idle"
  BY DEF SendStart, Alive
<1> HIDE DEF fds
<1>7. /\ lists' \in Seq(Seq(Fds)) /\ Len(lists') = k
      /\ \A j \in 1..Len(lists) : lists'[j] = lists[j]
      /\ lists'[k] = fds
  BY <1>2, <1>3, <1>6, LongerLists
<1>8. peer' \in [Procs -> Procs \cup {Nobody}] /\ peer'[p] \in Procs
  BY <1>1, <1>6 DEF TypeOK
<1>9. TypeOK'
  <2>1. complete' \subseteq 1..Len(lists')
    <3>1. 1..Len(lists) \subseteq 1..k
      BY <1>2, SMT
    <3> QED BY <1>1, <1>2, <1>5, <1>7, <3>1 DEF TypeOK
  <2>2. /\ pc' \in [Procs -> States] /\ list' \in [Procs -> Seq(Fds)] /\ next' \in [Procs -> Nat]
        /\ ready' \in [Procs -> BOOLEAN]
    BY <1>1, <1>3, <1>6, <1>4 DEF TypeOK, States
  <2> QED BY <1>1, <1>6, <1>7, <1>8, <2>1, <2>2 DEF TypeOK, recvVars
<1>10. Numbered(lists')
  <2>1. ASSUME NEW j \in 1..k, NEW i \in 1..Len(lists'[j]) PROVE lists'[j][i] = <<j, i>>
    <3>1. CASE j = k
      BY <3>1, <2>1, <1>3, <1>7
    <3>2. CASE j # k
      <4>1. j \in 1..Len(lists)
        BY <3>2, <1>2, SMT
      <4> QED BY <4>1, <2>1, <1>7 DEF PassTypes, Numbered
    <3> QED BY <3>1, <3>2
  <2> QED BY <2>1, <1>7 DEF Numbered
<1>11. Sending'
  <2>1. ASSUME NEW q \in Procs, pc'[q] = "send"
        PROVE  /\ q \in Senders /\ peer'[q] \in Procs
               /\ \E j \in 1..Len(lists') : list'[q] = lists'[j]
               /\ next'[q] < Len(list'[q])
    <3>1. CASE q = p
      <4>1. c # 0
        BY <1>1, <1>4, <1>6, <2>1, <3>1
      <4>2. list'[q] = fds /\ next'[q] = 0
        BY <3>1, <1>1, <1>6 DEF TypeOK
      <4>3. next'[q] < Len(list'[q])
        BY <4>1, <4>2, <1>1, <1>3, SMT
      <4> QED BY <4>2, <4>3, <3>1, <1>2, <1>7, <1>8
    <3>2. CASE q # p
      <4>1. pc[q] = "send" /\ list'[q] = list[q] /\ next'[q] = next[q] /\ peer'[q] = peer[q]
        BY <3>2, <2>1, <1>1, <1>6, <1>4 DEF TypeOK
      <4>2. PICK j \in 1..Len(lists) : list[q] = lists[j]
        BY <4>1 DEF PassTypes, Sending
      <4>3. j \in 1..Len(lists') /\ list'[q] = lists'[j]
        BY <4>1, <4>2, <1>2, <1>7, SMT
      <4> QED BY <4>1, <4>3 DEF PassTypes, Sending
    <3> QED BY <3>1, <3>2
  <2> QED BY <2>1 DEF Sending
<1> QED BY <1>9, <1>10, <1>11 DEF PassTypes

\* A batch is cut off a list, whatever was sent of it before.
LEMMA BatchType ==
    ASSUME PassTypes, NEW p \in Procs, pc[p] = "send"
    PROVE  /\ Len(list[p]) \in Nat /\ next[p] \in Nat
           /\ LastOf(p) \in Nat /\ LastOf(p) > next[p] /\ LastOf(p) <= Len(list[p])
           /\ BatchOf(p) \in Seq(Fds) /\ Len(BatchOf(p)) \in 1..Batch
           /\ Len(BatchOf(p)) = LastOf(p) - next[p]
           /\ Len(BatchOf(p)) = Take(Len(list[p]) - next[p])
           /\ \A i \in 1..Len(BatchOf(p)) : BatchOf(p)[i] = list[p][next[p] + i]
           /\ \E k \in 1..Len(lists) : list[p] = lists[k] /\ list[p][1] = <<k, 1>>
<1>1. list[p] \in Seq(Fds) /\ next[p] \in Nat /\ next[p] < Len(list[p])
  BY DEF PassTypes, TypeOK, Sending
<1>2. Batch \in Nat \ {0} /\ Len(list[p]) \in Nat
  BY <1>1, PassAssumption, LenProperties
<1>3. /\ LastOf(p) \in Nat /\ LastOf(p) > next[p] /\ LastOf(p) <= Len(list[p])
      /\ BatchOf(p) \in Seq(Fds) /\ Len(BatchOf(p)) = LastOf(p) - next[p]
      /\ Len(BatchOf(p)) = Take(Len(list[p]) - next[p])
      /\ \A i \in 1..Len(BatchOf(p)) : BatchOf(p)[i] = list[p][next[p] + i]
  <2>1. LastOf(p) = CutAt(list[p], next[p]) /\ BatchOf(p) = CutOff(list[p], next[p])
    BY DEF LastOf, BatchOf, CutAt, CutOff
  <2> QED BY <2>1, <1>1, Cut DEF Take
<1>4. Len(BatchOf(p)) \in 1..Batch
  BY <1>1, <1>2, <1>3, SMT DEF Take
<1>5. PICK k \in 1..Len(lists) : list[p] = lists[k]
  BY DEF PassTypes, Sending
<1>6. 1 \in 1..Len(lists[k])
  BY <1>1, <1>2, <1>5, SMT
<1>7. list[p][1] = <<k, 1>>
  BY <1>5, <1>6 DEF PassTypes, Numbered
<1> QED BY <1>1, <1>2, <1>3, <1>4, <1>5, <1>7

Messages == [size : Nat, fds : Seq(Fds)]

\* A list that is being sent stays in lists and in its place.
LEMMA SendingStays ==
    ASSUME PassTypes, lists' = lists, list' = list, next' = next, peer' = peer,
           \A q \in Procs : pc'[q] = "send" => pc[q] = "send"
    PROVE  Numbered(lists') /\ Sending'
BY DEF PassTypes, Sending

LEMMA SendBatchTypes ==
    ASSUME PassTypes, NEW p \in Senders, SendBatch(p)
    PROVE  PassTypes'
<1> DEFINE r == peer[p]
           m == [size |-> Len(list[p]), fds |-> BatchOf(p)]
<1>1. p \in Procs /\ TypeOK /\ pc[p] = "send"
  BY DEF PassTypes, Procs, SendBatch
<1>2. r \in Procs
  BY <1>1 DEF PassTypes, Sending
<1>3. /\ Len(list[p]) \in Nat /\ LastOf(p) \in Nat /\ LastOf(p) <= Len(list[p])
      /\ BatchOf(p) \in Seq(Fds) /\ Len(BatchOf(p)) \in 1..Batch
      /\ \E k \in 1..Len(lists) : list[p] = lists[k] /\ list[p][1] = <<k, 1>>
  BY <1>1, BatchType
<1>4. m \in Messages /\ m.fds = BatchOf(p)
  BY <1>3 DEF Messages
<1>5. /\ Len(queue[r]) < QueueLen /\ queue' = [queue EXCEPT ![r] = Append(@, m)]
      /\ next' = [next EXCEPT ![p] = LastOf(p)]
      /\ UNCHANGED <<stream, ready, path, peer, list, lists, recvVars, cut, failures>>
  BY DEF SendBatch
<1>6. \/ pc' = [pc EXCEPT ![p] = "idle"] /\ complete' = complete \cup {list[p][1][1]}
      \/ LastOf(p) # Len(list[p]) /\ pc' = pc /\ complete' = complete
  BY DEF SendBatch
<1> HIDE DEF r, m
<1>7. queue[r] \in Seq(Messages) /\ Len(queue[r]) \in Nat
  BY <1>1, <1>2, LenProperties DEF TypeOK, Messages
<1>8. /\ Append(queue[r], m) \in Seq(Messages)
      /\ Len(Append(queue[r], m)) = Len(queue[r]) + 1
      /\ \A i \in 1..Len(queue[r]) : Append(queue[r], m)[i] = queue[r][i]
      /\ Append(queue[r], m)[Len(queue[r]) + 1] = m
  BY <1>4, <1>7, AppendProperties
<1>9. TypeOK'
  <2>1. queue' \in [Procs -> Seq(Messages)] /\ queue'[r] = Append(queue[r], m)
        /\ \A q \in Procs \ {r} : queue'[q] = queue[q]
    BY <1>1, <1>2, <1>5, <1>8 DEF TypeOK, Messages
  <2>2. \A q \in Procs : Len(queue'[q]) <= QueueLen
    <3>1. Len(queue'[r]) <= QueueLen
      BY <2>1, <1>5, <1>7, <1>8, PassAssumption, SMT
    <3> QED BY <3>1, <2>1, <1>1 DEF TypeOK
  <2>3. ASSUME NEW q \in Procs, NEW i \in 1..Len(queue'[q])
        PROVE  Len(queue'[q][i].fds) \in 1..Batch
    <3>1. CASE q = r
      <4>1. CASE i = Len(queue[r]) + 1
        BY <3>1, <4>1, <2>1, <1>3, <1>4, <1>8
      <4>2. CASE i # Len(queue[r]) + 1
        <5>1. i \in 1..Len(queue[r])
          BY <3>1, <4>2, <2>1, <2>3, <1>7, <1>8, SMT
        <5> QED BY <5>1, <3>1, <2>1, <1>1, <1>2, <1>8 DEF TypeOK
      <4> QED BY <4>1, <4>2
    <3>2. CASE q # r
      BY <3>2, <2>1, <2>3, <1>1 DEF TypeOK
    <3> QED BY <3>1, <3>2
  <2>4. next' \in [Procs -> Nat] /\ pc' \in [Procs -> States]
    BY <1>1, <1>3, <1>5, <1>6 DEF TypeOK, States
  <2>5. complete' \subseteq 1..Len(lists')
    <3>1. PICK k \in 1..Len(lists) : list[p][1] = <<k, 1>>
      BY <1>3
    <3>2. list[p][1][1] = k
      BY <3>1
    <3> QED BY <3>2, <1>1, <1>5, <1>6 DEF TypeOK
  <2> QED BY <1>1, <1>5, <2>1, <2>2, <2>3, <2>4, <2>5 DEF TypeOK, Messages, recvVars
<1>10. Sending'
  <2>1. ASSUME NEW q \in Procs, pc'[q] = "send"
        PROVE  pc[q] = "send" /\ next'[q] < Len(list'[q])
    <3>1. CASE q = p
      <4>1. LastOf(p) # Len(list[p])
        BY <3>1, <2>1, <1>1, <1>6 DEF TypeOK
      <4>2. LastOf(p) < Len(list[p])
        BY <4>1, <1>3, SMT
      <4>3. next'[q] = LastOf(p) /\ list'[q] = list[p]
        BY <3>1, <1>1, <1>5 DEF TypeOK
      <4> QED BY <4>2, <4>3, <3>1, <1>1
    <3>2. CASE q # p
      <4>1. pc[q] = "send" /\ next'[q] = next[q] /\ list'[q] = list[q]
        BY <3>2, <2>1, <1>1, <1>5, <1>6 DEF TypeOK
      <4> QED BY <4>1 DEF PassTypes, Sending
    <3> QED BY <3>1, <3>2
  <2> QED BY <2>1, <1>5 DEF PassTypes, Sending
<1>11. Numbered(lists')
  BY <1>5 DEF PassTypes
<1> QED BY <1>9, <1>10, <1>11 DEF PassTypes

LEMMA CountedUp == ASSUME NEW m \in Nat, NEW c \in 0..m, c < m PROVE c + 1 \in 0..m
BY SMT

LEMMA SendThrowsTypes ==
    ASSUME PassTypes, NEW p \in Senders, SendRefused(p) \/ SendFails(p)
    PROVE  PassTypes'
<1>1. /\ pc' = [pc EXCEPT ![p] = "idle"] /\ cut' = (cut \/ next[p] > 0)
      /\ failures' = failures \/ (failures < MaxFailures /\ failures' = failures + 1)
      /\ UNCHANGED <<stream, ready, path, peer, queue, sendVars, recvVars>>
  BY DEF SendRefused, SendFails, SendThrows
<1>2. p \in Procs /\ TypeOK
  BY DEF PassTypes, Procs
<1>3. failures' \in 0..MaxFailures
  <2>1. MaxFailures \in Nat /\ failures \in 0..MaxFailures
    BY <1>2, PassAssumption DEF TypeOK
  <2> QED BY <2>1, <1>1, CountedUp
<1>4. pc' \in [Procs -> States] /\ cut' \in BOOLEAN
  BY <1>1, <1>2 DEF TypeOK, States
<1>5. TypeOK'
  BY <1>1, <1>2, <1>3, <1>4 DEF TypeOK, sendVars, recvVars
<1>6. \A q \in Procs : pc'[q] = "send" => pc[q] = "send"
  BY <1>1, <1>2 DEF TypeOK
<1> QED BY <1>1, <1>5, <1>6, SendingStays DEF PassTypes, sendVars

\* recv() enters the static recv(), and what it does before.
Begins(p) == RecvEnter(p) /\ ((RecvStart(p) /\ ready[p]) \/ RecvBind(p))
Prepares(p) == (RecvStart(p) /\ ~ready[p]) \/ RecvBindFails(p)

LEMMA BeginsOrPrepares ==
    ASSUME NEW p, RecvStart(p) \/ RecvBind(p) \/ RecvBindFails(p)
    PROVE  Begins(p) \/ Prepares(p)
BY DEF Begins, Prepares, RecvStart, RecvBind

LEMMA BeginsDoes ==
    ASSUME NEW p, Begins(p)
    PROVE  /\ calls[p] < MaxRecvs /\ calls' = [calls EXCEPT ![p] = @ + 1]
           /\ \/ ready[p] /\ path' = path /\ ready' = ready
              \/ path' = p /\ ready' = [ready EXCEPT ![p] = TRUE]
           /\ pc[p] \in {"idle", "bind"} /\ pc' = [pc EXCEPT ![p] = "recv"]
           /\ v' = [v EXCEPT ![p] = <<>>] /\ room' = [room EXCEPT ![p] = Batch]
           /\ UNCHANGED <<stream, peer, queue, sendVars, returned, installed, cut, failures>>
<1>1. /\ calls[p] < MaxRecvs /\ calls' = [calls EXCEPT ![p] = @ + 1]
      /\ pc' = [pc EXCEPT ![p] = "recv"]
      /\ v' = [v EXCEPT ![p] = <<>>] /\ room' = [room EXCEPT ![p] = Batch]
      /\ UNCHANGED <<stream, peer, queue, sendVars, returned, installed, cut, failures>>
  BY DEF Begins, RecvEnter
<1>2. CASE RecvBind(p)
  BY <1>1, <1>2 DEF RecvBind
<1>3. CASE RecvStart(p) /\ ready[p]
  BY <1>1, <1>3 DEF RecvStart
<1> QED BY <1>2, <1>3 DEF Begins

LEMMA PreparesDoes ==
    ASSUME NEW p, Prepares(p)
    PROVE  /\ pc[p] \in {"idle", "bind"} /\ path' \in {path, Nobody}
           /\ pc' = [pc EXCEPT ![p] = "idle"] \/ pc' = [pc EXCEPT ![p] = "bind"]
           /\ failures' = failures \/ (failures < MaxFailures /\ failures' = failures + 1)
           /\ UNCHANGED <<stream, ready, peer, queue, sendVars, recvVars, cut>>
BY DEF Prepares, RecvStart, RecvBindFails

LEMMA PreparesTypes ==
    ASSUME PassTypes, NEW p \in Receivers, Prepares(p)
    PROVE  PassTypes'
<1>1. /\ path' \in {path, Nobody}
      /\ pc' = [pc EXCEPT ![p] = "idle"] \/ pc' = [pc EXCEPT ![p] = "bind"]
      /\ failures' = failures \/ (failures < MaxFailures /\ failures' = failures + 1)
      /\ UNCHANGED <<stream, ready, peer, queue, sendVars, recvVars, cut>>
  BY PreparesDoes
<1>2. p \in Procs /\ TypeOK
  BY DEF PassTypes, Procs
<1>3. failures' \in 0..MaxFailures
  <2>1. MaxFailures \in Nat /\ failures \in 0..MaxFailures
    BY <1>2, PassAssumption DEF TypeOK
  <2> QED BY <2>1, <1>1, CountedUp
<1>4. pc' \in [Procs -> States] /\ path' \in Procs \cup {Nobody}
  BY <1>1, <1>2 DEF TypeOK, States
<1>5. TypeOK'
  BY <1>1, <1>2, <1>3, <1>4 DEF TypeOK, sendVars, recvVars
<1>6. \A q \in Procs : pc'[q] = "send" => pc[q] = "send"
  BY <1>1, <1>2 DEF TypeOK
<1> QED BY <1>1, <1>5, <1>6, SendingStays DEF PassTypes, sendVars

LEMMA BeginsTypes ==
    ASSUME PassTypes, NEW p \in Receivers, Begins(p)
    PROVE  PassTypes'
<1>1. /\ calls[p] < MaxRecvs /\ calls' = [calls EXCEPT ![p] = @ + 1]
      /\ path' \in {path, p}
      /\ ready' = ready \/ ready' = [ready EXCEPT ![p] = TRUE]
      /\ pc' = [pc EXCEPT ![p] = "recv"]
      /\ v' = [v EXCEPT ![p] = <<>>] /\ room' = [room EXCEPT ![p] = Batch]
      /\ UNCHANGED <<stream, peer, queue, sendVars, returned, installed, cut, failures>>
  BY BeginsDoes
<1>2. p \in Procs /\ TypeOK
  BY DEF PassTypes, Procs
<1>3. calls[p] + 1 \in 0..MaxRecvs /\ Batch \in 0..(Batch + 1)
  <2>1. /\ MaxRecvs \in Nat /\ calls[p] \in 0..MaxRecvs
        /\ Batch \in Nat
    BY <1>2, PassAssumption DEF TypeOK
  <2>2. Batch \in 0..(Batch + 1)
    BY <2>1, SMT
  <2> QED BY <2>1, <2>2, <1>1, CountedUp
<1>4. <<>> \in Seq(Fds)
  BY EmptySeq
<1>5. /\ pc' \in [Procs -> States] /\ ready' \in [Procs -> BOOLEAN] /\ v' \in [Procs -> Seq(Fds)]
      /\ calls' \in [Procs -> 0..MaxRecvs] /\ room' \in [Procs -> 0..(Batch + 1)]
      /\ path' \in Procs \cup {Nobody}
  BY <1>1, <1>2, <1>3, <1>4 DEF TypeOK, States
<1>6. TypeOK'
  BY <1>1, <1>2, <1>5 DEF TypeOK, sendVars
<1>7. \A q \in Procs : pc'[q] = "send" => pc[q] = "send"
  BY <1>1, <1>2 DEF TypeOK
<1> QED BY <1>1, <1>6, <1>7, SendingStays DEF PassTypes, sendVars

\* What recvmsg() opens, and what the loop makes of it.
LEMMA OpenedType ==
    ASSUME PassTypes, NEW p \in Procs, NEW f \in Seq(Fds), Len(f) \in 1..Batch
    PROVE  /\ Opened(p, f) \in Seq(Fds)
           /\ Len(Opened(p, f)) = IF Len(f) < room[p] THEN Len(f) ELSE room[p]
           /\ \A i \in 1..Len(Opened(p, f)) : Opened(p, f)[i] = f[i]
           /\ RoomAfter(Len(Opened(p, f))) \in 0..(Batch + 1)
           /\ RoomAfter(Len(Opened(p, f))) >= Len(Opened(p, f))
<1> DEFINE m == IF Len(f) < room[p] THEN Len(f) ELSE room[p]
           o == Opened(p, f)
<1>1. room[p] \in 0..(Batch + 1) /\ Batch \in Nat
  BY PassAssumption DEF PassTypes, TypeOK
<1>2. Len(f) \in Nat /\ m \in 0..Batch /\ m <= Len(f)
  BY <1>1, SMT
<1>3. o = SubSeq(f, 1, m)
  BY DEF Opened
<1> HIDE DEF m, o
<1>4. ASSUME NEW i \in 1..m PROVE f[i] \in Fds
  <2>1. i \in 1..Len(f)
    BY <1>2, SMT
  <2> QED BY <2>1, ElementOfSeq
<1>5. 1 \in Int /\ m \in Int /\ m \in Nat
  BY <1>1, <1>2, SMT
<1>6. /\ o \in Seq(Fds) /\ Len(o) = (IF 1 <= m THEN m - 1 + 1 ELSE 0)
      /\ \A i \in 1..(m - 1 + 1) : o[i] = f[1 + i - 1]
  BY <1>3, <1>4, <1>5, SubSeqProperties
<1>7. Len(o) = m
  BY <1>5, <1>6, SMT
<1>8. \A i \in 1..Len(o) : o[i] = f[i]
  <2>1. ASSUME NEW i \in 1..Len(o) PROVE o[i] = f[i]
    <3>1. i \in 1..(m - 1 + 1) /\ 1 + i - 1 = i
      BY <1>5, <1>7, SMT
    <3> QED BY <3>1, <1>6
  <2> QED BY <2>1
<1>9. RoomAfter(Len(o)) \in 0..(Batch + 1) /\ RoomAfter(Len(o)) >= Len(o)
  <2>1. RoomAfter(Len(o)) = m \/ RoomAfter(Len(o)) = m + 1
    BY <1>7 DEF RoomAfter
  <2> QED BY <2>1, <1>1, <1>2, <1>7, SMT
<1> QED BY <1>6, <1>7, <1>8, <1>9 DEF m, o

LEMMA WrappedType ==
    ASSUME NEW f \in Seq(Fds), NEW m \in Nat
    PROVE  Wrapped(f, m) \in Seq(Fds) /\ Len(Wrapped(f, m)) = m
<1>1. \A i \in 1..m : (IF i <= Len(f) THEN f[i] ELSE Garbage) \in Fds
  <2>1. ASSUME NEW i \in 1..m, i <= Len(f) PROVE f[i] \in Fds
    <3>1. i \in 1..Len(f)
      BY <2>1, LenProperties, SMT
    <3> QED BY <3>1, ElementOfSeq
  <2>2. Garbage \in Fds
    BY DEF Fds
  <2> QED BY <2>1, <2>2
<1>2. Wrapped(f, m) \in [1..m -> Fds]
  BY <1>1 DEF Wrapped
<1>3. Wrapped(f, m) \in Seq(Fds)
  BY <1>2
<1> QED BY <1>2, <1>3, LenProperties, SMT

LEMMA RecvBatchTypes ==
    ASSUME PassTypes, NEW p \in Receivers, RecvBatch(p)
    PROVE  PassTypes'
<1> DEFINE m == Head(queue[p])
           fds == Opened(p, m.fds)
           diff == m.size - Len(v[p])
           vec == v[p] \o Wrapped(fds, Take(diff))
<1>1. p \in Procs /\ TypeOK /\ queue[p] # <<>>
  BY DEF PassTypes, Procs, RecvBatch
<1>2. /\ queue' = [queue EXCEPT ![p] = Tail(@)]
      /\ installed' = [installed EXCEPT ![p] = @ \cup Range(fds)]
      /\ room' = [room EXCEPT ![p] = RoomAfter(Len(fds))]
      /\ UNCHANGED <<stream, ready, path, peer, sendVars, calls, cut, failures>>
  BY DEF RecvBatch
<1>3. \/ pc' = [pc EXCEPT ![p] = "undefined"] /\ v' = v /\ returned' = returned
      \/ diff >= 0 /\ v' = [v EXCEPT ![p] = vec] /\ pc' = pc /\ returned' = returned
      \/ /\ diff >= 0 /\ v' = [v EXCEPT ![p] = <<>>] /\ pc' = [pc EXCEPT ![p] = "idle"]
         /\ returned' = [returned EXCEPT ![p] = Append(@, vec)]
  BY DEF RecvBatch
<1>4. queue[p] \in Seq(Messages) /\ v[p] \in Seq(Fds)
  BY <1>1 DEF TypeOK, Messages
<1>5. /\ m \in Messages /\ Tail(queue[p]) \in Seq(Messages) /\ Len(queue[p]) \in Nat
      /\ Len(Tail(queue[p])) = Len(queue[p]) - 1
      /\ \A i \in 1..Len(Tail(queue[p])) : Tail(queue[p])[i] = queue[p][i + 1]
      /\ m = queue[p][1] /\ 1 \in 1..Len(queue[p])
  BY <1>1, <1>4, HeadTailProperties, LenProperties, EmptySeq, SMT
<1> HIDE DEF m
<1>6. m.fds \in Seq(Fds) /\ Len(m.fds) \in 1..Batch /\ m.size \in Nat
  BY <1>1, <1>5 DEF TypeOK, Messages
<1>7. fds \in Seq(Fds) /\ RoomAfter(Len(fds)) \in 0..(Batch + 1)
  BY <1>1, <1>6, OpenedType
<1> HIDE DEF fds
<1>8. Range(fds) \subseteq Fds
  BY <1>7, RangeOfSeq
<1>9. diff >= 0 => vec \in Seq(Fds)
  <2>1. Len(v[p]) \in Nat /\ Batch \in Nat
    BY <1>4, LenProperties, PassAssumption
  <2>2. diff >= 0 => Take(diff) \in Nat
    BY <1>6, <2>1, SMT DEF Take
  <2> QED BY <2>2, <1>4, <1>7, WrappedType, ConcatProperties
<1> HIDE DEF diff, vec
<1>10. /\ v' \in [Procs -> Seq(Fds)] /\ pc' \in [Procs -> States]
       /\ returned' \in [Procs -> Seq(Seq(Fds))]
  <2>1. <<>> \in Seq(Fds)
    BY EmptySeq
  <2>2. diff >= 0 => Append(returned[p], vec) \in Seq(Seq(Fds))
    BY <1>1, <1>9, AppendProperties DEF TypeOK
  <2>3. v' \in [Procs -> Seq(Fds)]
    BY <1>1, <1>3, <1>9, <2>1 DEF TypeOK
  <2>4. pc' \in [Procs -> States]
    BY <1>1, <1>3 DEF TypeOK, States
  <2>5. returned' \in [Procs -> Seq(Seq(Fds))]
    BY <1>1, <1>3, <2>2 DEF TypeOK
  <2> QED BY <2>3, <2>4, <2>5
<1>11. /\ installed' \in [Procs -> SUBSET Fds] /\ room' \in [Procs -> 0..(Batch + 1)]
  BY <1>1, <1>2, <1>7, <1>8 DEF TypeOK
<1>12. /\ queue' \in [Procs -> Seq(Messages)] /\ queue'[p] = Tail(queue[p])
       /\ \A q \in Procs \ {p} : queue'[q] = queue[q]
  BY <1>1, <1>2, <1>5 DEF TypeOK, Messages
<1>13. \A q \in Procs : Len(queue'[q]) <= QueueLen
  <2>1. Len(queue'[p]) <= QueueLen
    <3>1. Len(queue[p]) <= QueueLen /\ QueueLen \in Nat
      BY <1>1, PassAssumption DEF TypeOK
    <3> QED BY <3>1, <1>5, <1>12, SMT
  <2> QED BY <2>1, <1>1, <1>12 DEF TypeOK
<1>14. ASSUME NEW q \in Procs, NEW i \in 1..Len(queue'[q])
       PROVE  Len(queue'[q][i].fds) \in 1..Batch
  <2>1. CASE q = p
    <3>1. i \in 1..Len(Tail(queue[p]))
      BY <2>1, <1>14, <1>12
    <3>2. i + 1 \in 1..Len(queue[p])
      BY <3>1, <1>5, SMT
    <3> QED BY <2>1, <3>1, <3>2, <1>1, <1>5, <1>12 DEF TypeOK
  <2>2. CASE q # p
    BY <2>2, <1>14, <1>1, <1>12 DEF TypeOK
  <2> QED BY <2>1, <2>2
<1>15. TypeOK'
  BY <1>1, <1>2, <1>10, <1>11, <1>12, <1>13, <1>14 DEF TypeOK, Messages, sendVars
<1>16. \A q \in Procs : pc'[q] = "send" => pc[q] = "send"
  BY <1>1, <1>3 DEF TypeOK
<1> QED BY <1>2, <1>15, <1>16, SendingStays DEF PassTypes, sendVars

LEMMA RecvStopsTypes ==
    ASSUME PassTypes, NEW p \in Receivers, RecvFails(p) \/ RecvEnds(p)
    PROVE  PassTypes'
<1>1. p \in Procs /\ TypeOK /\ <<>> \in Seq(Fds)
  BY EmptySeq DEF PassTypes, Procs
<1>2. /\ pc' = [pc EXCEPT ![p] = "idle"] \/ pc' = [pc EXCEPT ![p] = "crashed"]
      /\ UNCHANGED <<stream, ready, path, peer, queue, sendVars, room, calls>>
  BY DEF RecvFails, RecvEnds
<1>3. /\ v' = v \/ v' = [v EXCEPT ![p] = <<>>]
      /\ returned' = returned \/ returned' = [returned EXCEPT ![p] = Append(@, <<>>)]
      /\ cut' \in {cut, (cut \/ v[p] # <<>>)}
      /\ failures' = failures \/ (failures < MaxFailures /\ failures' = failures + 1)
  BY DEF RecvFails, RecvEnds
<1>4. installed' \in [Procs -> SUBSET Fds]
  <2>1. \/ installed' = installed \/ installed' = [installed EXCEPT ![p] = {}]
        \/ installed' = [installed EXCEPT ![p] = @ \ Range(v[p])]
    BY DEF RecvFails, RecvEnds
  <2> QED BY <1>1, <2>1 DEF TypeOK
<1>5. failures' \in 0..MaxFailures
  <2>1. MaxFailures \in Nat /\ failures \in 0..MaxFailures
    BY <1>1, PassAssumption DEF TypeOK
  <2> QED BY <2>1, <1>3, CountedUp
<1>6. returned' \in [Procs -> Seq(Seq(Fds))]
  <2>1. Append(returned[p], <<>>) \in Seq(Seq(Fds))
    BY <1>1, AppendProperties DEF TypeOK
  <2> QED BY <2>1, <1>1, <1>3 DEF TypeOK
<1>7. /\ pc' \in [Procs -> States] /\ v' \in [Procs -> Seq(Fds)] /\ cut' \in BOOLEAN
  BY <1>1, <1>2, <1>3 DEF TypeOK, States
<1>8. TypeOK'
  BY <1>1, <1>2, <1>4, <1>5, <1>6, <1>7 DEF TypeOK, sendVars
<1>9. \A q \in Procs : pc'[q] = "send" => pc[q] = "send"
  BY <1>1, <1>2 DEF TypeOK
<1> QED BY <1>2, <1>8, <1>9, SendingStays DEF PassTypes, sendVars

LEMMA DieTypes == ASSUME PassTypes, NEW p \in Procs, Die(p) PROVE PassTypes'
<1>1. TypeOK /\ <<>> \in Seq(Messages) /\ Len(<<>>) = 0
  BY EmptySeq DEF PassTypes
<1>2. /\ failures < MaxFailures /\ failures' = failures + 1
      /\ pc' = [pc EXCEPT ![p] = "gone"] /\ queue' = [queue EXCEPT ![p] = <<>>]
      /\ installed' = [installed EXCEPT ![p] = {}]
      /\ cut' = (cut \/ (pc[p] = "send" /\ next[p] > 0))
      /\ UNCHANGED <<stream, ready, path, peer, sendVars, v, room, returned, calls>>
  BY DEF Die
<1>3. failures' \in 0..MaxFailures
  <2>1. MaxFailures \in Nat /\ failures \in 0..MaxFailures
    BY <1>1, PassAssumption DEF TypeOK
  <2> QED BY <2>1, <1>2, CountedUp
<1>4. /\ pc' \in [Procs -> States] /\ installed' \in [Procs -> SUBSET Fds] /\ cut' \in BOOLEAN
  BY <1>1, <1>2 DEF TypeOK, States
<1>5. /\ queue' \in [Procs -> Seq(Messages)]
      /\ \A q \in Procs : queue'[q] = <<>> \/ queue'[q] = queue[q]
  BY <1>1, <1>2 DEF TypeOK, Messages
<1>6. \A q \in Procs : Len(queue'[q]) <= QueueLen
  <2>1. 0 <= QueueLen
    BY PassAssumption, SMT
  <2> QED BY <1>1, <1>5, <2>1 DEF TypeOK
<1>7. ASSUME NEW q \in Procs, NEW i \in 1..Len(queue'[q])
      PROVE  Len(queue'[q][i].fds) \in 1..Batch
  <2>1. CASE queue'[q] = <<>>
    BY <2>1, <1>1, <1>7, SMT
  <2>2. CASE queue'[q] = queue[q]
    BY <2>2, <1>1, <1>7 DEF TypeOK
  <2> QED BY <2>1, <2>2, <1>5
<1>8. TypeOK'
  BY <1>1, <1>2, <1>3, <1>4, <1>5, <1>6, <1>7 DEF TypeOK, sendVars, Messages
<1>9. \A q \in Procs : pc'[q] = "send" => pc[q] = "send"
  BY <1>1, <1>2 DEF TypeOK
<1> QED BY <1>2, <1>8, <1>9, SendingStays DEF PassTypes, sendVars

LEMMA PassTypesStep == ASSUME PassTypes, [Next]_vars PROVE PassTypes'
<1>1. CASE UNCHANGED vars
  BY <1>1 DEF vars, sendVars, recvVars, PassTypes, TypeOK, Sending
<1>2. CASE Next
  BY <1>2, SendStartTypes, SendBatchTypes, SendThrowsTypes, BeginsOrPrepares, BeginsTypes,
     PreparesTypes, RecvBatchTypes, RecvStopsTypes, DieTypes DEF Next
<1> QED BY <1>1, <1>2

\* fdpass.cpp, fdpass.hpp: whatever number of processes send, fail and die, a socket
\* holds no more messages than it has room for, with a batch of descriptors each, and
\* msg_controllen stays in the buffer's length.
THEOREM PassTypeCorrect == Spec => []TypeOK
<1>1. Init => PassTypes
  BY InitTypes
<1>2. PassTypes /\ [Next]_vars => PassTypes'
  BY PassTypesStep
<1>3. PassTypes => TypeOK
  BY DEF PassTypes
<1> QED BY <1>1, <1>2, <1>3, PTL DEF Spec

-----------------------------------------------------------------------------
\* ONE PROCESS SENDS.  What is on its way to a receiver, in terms of the lists L that
\* were sent, the queue q, the lists R the receiver has, and the vector w it fills.

\* A message has the descriptors From(m) + 1 to To(m) of list number Of(m).
Of(m) == m.fds[1][1]
From(m) == m.fds[1][2] - 1
To(m) == From(m) + Len(m.fds)

IsBatch(L, m) ==
    /\ Of(m) \in 1..Len(L) /\ m.size = Len(L[Of(m)])
    /\ From(m) \in 0..(m.size - 1) /\ Len(m.fds) = Take(m.size - From(m))
    /\ \A j \in 1..Len(m.fds) : m.fds[j] = <<Of(m), From(m) + j>>

\* The list, and the place in it, up to which the receiver and the first i messages
\* have the descriptors.
EndList(q, w, i) == IF i > 0 THEN Of(q[i]) ELSE IF w = <<>> THEN 0 ELSE w[1][1]
EndAt(q, w, i) == IF i > 0 THEN To(q[i]) ELSE Len(w)

SizeOf(L, k) == IF k = 0 THEN 0 ELSE Len(L[k])
Whole(L, q, w, i) == EndAt(q, w, i) = SizeOf(L, EndList(q, w, i))

\* There is no gap between these and what is behind the b-th descriptor of list k.
Follows(L, q, w, i, k, b) ==
    IF b = 0 THEN Whole(L, q, w, i) /\ EndList(q, w, i) < k
             ELSE EndList(q, w, i) = k /\ EndAt(q, w, i) = b

\* The lists returned, without the empty vectors that end a stream, are before list k.
Got(R) == {i \in 1..Len(R) : R[i] # <<>>}
Below(R, k) == \A i \in Got(R) : R[i][1][1] < k

Filled(L, R, w) ==
    /\ \A i \in Got(R) : \E k \in 1..Len(L) : R[i] = L[k]
    /\ \A i, j \in Got(R) : i < j => R[i][1][1] < R[j][1][1]
    /\ w # <<>> =>
         /\ w[1][1] \in 1..Len(L) /\ Len(w) < Len(L[w[1][1]])
         /\ \A i \in 1..Len(w) : w[i] = <<w[1][1], i>>
         /\ Below(R, w[1][1])

Queued(L, q, R, w) ==
    /\ \A i \in 1..Len(q) :
         /\ IsBatch(L, q[i]) /\ Below(R, Of(q[i]))
         /\ Follows(L, q, w, i - 1, Of(q[i]), From(q[i]))
    /\ \A i, j \in 1..Len(q) : i < j => Of(q[i]) <= Of(q[j])

LEMMA BatchFacts ==
    ASSUME NEW L \in Seq(Seq(Fds)), NEW m \in Messages, IsBatch(L, m)
    PROVE  /\ Of(m) \in 1..Len(L) /\ From(m) \in Nat /\ From(m) < m.size
           /\ m.size \in Nat /\ m.size = Len(L[Of(m)])
           /\ Len(m.fds) \in 1..Batch /\ To(m) \in Nat
           /\ To(m) > From(m) /\ To(m) <= m.size
           /\ Len(m.fds) = Take(m.size - From(m)) /\ To(m) = From(m) + Len(m.fds)
           /\ To(m) # m.size => Len(m.fds) = Batch
<1>1. m.size \in Nat /\ m.fds \in Seq(Fds) /\ Batch \in Nat \ {0}
  BY PassAssumption DEF Messages
<1>2. Len(m.fds) \in Nat
  BY <1>1, LenProperties
<1>3. /\ Of(m) \in 1..Len(L) /\ From(m) \in 0..(m.size - 1) /\ m.size = Len(L[Of(m)])
      /\ Len(m.fds) = IF m.size - From(m) < Batch THEN m.size - From(m) ELSE Batch
  BY DEF IsBatch, Take
<1>4. To(m) = From(m) + Len(m.fds)
  BY DEF To
<1>5. /\ From(m) \in Nat /\ From(m) < m.size /\ Len(m.fds) \in 1..Batch /\ To(m) \in Nat
      /\ To(m) > From(m) /\ To(m) <= m.size
      /\ To(m) # m.size => Len(m.fds) = Batch
  BY <1>1, <1>2, <1>3, <1>4, SMT
<1>6. Len(m.fds) = Take(m.size - From(m))
  BY DEF IsBatch
<1> QED BY <1>1, <1>3, <1>4, <1>5, <1>6

LEMMA EndRange ==
    ASSUME NEW L \in Seq(Seq(Fds)), NEW q \in Seq(Messages), NEW R, NEW w \in Seq(Fds),
           Filled(L, R, w), Queued(L, q, R, w), NEW i \in 0..Len(q)
    PROVE  EndList(q, w, i) \in 0..Len(L) /\ EndAt(q, w, i) \in Nat
<1>1. Len(L) \in Nat /\ Len(q) \in Nat /\ Len(w) \in Nat
  BY LenProperties
<1>2. CASE i > 0
  <2>1. i \in 1..Len(q)
    BY <1>1, <1>2, SMT
  <2>2. q[i] \in Messages /\ IsBatch(L, q[i])
    BY <2>1, ElementOfSeq DEF Queued
  <2>3. Of(q[i]) \in 1..Len(L) /\ To(q[i]) \in Nat
    BY <2>2, BatchFacts
  <2>4. Of(q[i]) \in 0..Len(L)
    BY <2>3, <1>1, SMT
  <2> QED BY <2>3, <2>4, <1>2 DEF EndList, EndAt
<1>3. CASE ~(i > 0)
  <2>1. w # <<>> => w[1][1] \in 0..Len(L)
    <3>1. w # <<>> => w[1][1] \in 1..Len(L)
      BY DEF Filled
    <3> QED BY <3>1, <1>1, SMT
  <2>2. 0 \in 0..Len(L)
    BY <1>1, SMT
  <2> QED BY <2>1, <2>2, <1>1, <1>3 DEF EndList, EndAt
<1> QED BY <1>2, <1>3

\* Another list begins: nothing changes for those before it.
LEMMA SizeStays ==
    ASSUME NEW L \in Seq(Seq(Fds)), NEW x \in Seq(Fds), NEW k \in 0..Len(L)
    PROVE  SizeOf(Append(L, x), k) = SizeOf(L, k)
<1>1. k # 0 => k \in 1..Len(L)
  BY LenProperties, SMT
<1> QED BY <1>1, LongerLists DEF SizeOf

LEMMA FollowsStays ==
    ASSUME NEW L \in Seq(Seq(Fds)), NEW x \in Seq(Fds), NEW q, NEW w, NEW i, NEW k, NEW b,
           EndList(q, w, i) \in 0..Len(L)
    PROVE  /\ Whole(Append(L, x), q, w, i) <=> Whole(L, q, w, i)
           /\ Follows(Append(L, x), q, w, i, k, b) <=> Follows(L, q, w, i, k, b)
<1>1. SizeOf(Append(L, x), EndList(q, w, i)) = SizeOf(L, EndList(q, w, i))
  BY SizeStays
<1> QED BY <1>1 DEF Whole, Follows

LEMMA FilledLonger ==
    ASSUME NEW L \in Seq(Seq(Fds)), NEW x \in Seq(Fds), NEW R, NEW w, Filled(L, R, w)
    PROVE  Filled(Append(L, x), R, w)
<1>1. /\ \A k \in 1..Len(L) : k \in 1..Len(Append(L, x)) /\ Append(L, x)[k] = L[k]
  <2>1. /\ Len(L) \in Nat /\ Len(Append(L, x)) = Len(L) + 1
        /\ \A k \in 1..Len(L) : Append(L, x)[k] = L[k]
    BY LongerLists
  <2> QED BY <2>1, SMT
<1> QED BY <1>1 DEF Filled

LEMMA QueuedLonger ==
    ASSUME NEW L \in Seq(Seq(Fds)), NEW x \in Seq(Fds), NEW q \in Seq(Messages),
           NEW R, NEW w \in Seq(Fds), Filled(L, R, w), Queued(L, q, R, w)
    PROVE  Queued(Append(L, x), q, R, w)
<1> DEFINE M == Append(L, x)
<1>1. /\ \A k \in 1..Len(L) : k \in 1..Len(M) /\ M[k] = L[k]
  <2>1. /\ Len(L) \in Nat /\ Len(M) = Len(L) + 1
        /\ \A k \in 1..Len(L) : M[k] = L[k]
    BY LongerLists
  <2> QED BY <2>1, SMT
<1>2. ASSUME NEW i \in 1..Len(q)
      PROVE  /\ IsBatch(M, q[i]) /\ Below(R, Of(q[i]))
             /\ Follows(M, q, w, i - 1, Of(q[i]), From(q[i]))
  <2>1. /\ IsBatch(L, q[i]) /\ Below(R, Of(q[i]))
        /\ Follows(L, q, w, i - 1, Of(q[i]), From(q[i]))
    BY DEF Queued
  <2>2. IsBatch(M, q[i])
    BY <1>1, <2>1 DEF IsBatch
  <2>3. i - 1 \in 0..Len(q)
    BY LenProperties, SMT
  <2>4. EndList(q, w, i - 1) \in 0..Len(L)
    BY <2>3, EndRange
  <2> QED BY <2>1, <2>2, <2>4, FollowsStays
<1> QED BY <1>2 DEF Queued

\* A message comes behind those that wait.
LEMMA LastEnd ==
    ASSUME NEW q \in Seq(Messages), NEW m \in Messages, NEW w
    PROVE  /\ EndList(Append(q, m), w, Len(q) + 1) = Of(m)
           /\ EndAt(Append(q, m), w, Len(q) + 1) = To(m)
<1>1. Len(q) \in Nat /\ Append(q, m)[Len(q) + 1] = m
  BY AppendProperties, LenProperties
<1>2. Len(q) + 1 > 0
  BY <1>1, SMT
<1> QED BY <1>1, <1>2 DEF EndList, EndAt

LEMMA QueuedMore ==
    ASSUME NEW L \in Seq(Seq(Fds)), NEW q \in Seq(Messages), NEW R, NEW w \in Seq(Fds),
           NEW m \in Messages,
           Queued(L, q, R, w), IsBatch(L, m), Of(m) = Len(L), Below(R, Of(m)),
           Follows(L, q, w, Len(q), Of(m), From(m))
    PROVE  Queued(L, Append(q, m), R, w)
<1> DEFINE u == Append(q, m)
<1>1. /\ Len(q) \in Nat /\ Len(u) = Len(q) + 1 /\ u[Len(q) + 1] = m
      /\ \A i \in 1..Len(q) : u[i] = q[i]
  BY AppendProperties, LenProperties
<1> HIDE DEF u
<1>2. ASSUME NEW i \in 0..Len(q)
      PROVE  EndList(u, w, i) = EndList(q, w, i) /\ EndAt(u, w, i) = EndAt(q, w, i)
  <2>1. i > 0 => u[i] = q[i]
    <3>1. i > 0 => i \in 1..Len(q)
      BY <1>1, SMT
    <3> QED BY <3>1, <1>1
  <2> QED BY <2>1 DEF EndList, EndAt
<1>3. ASSUME NEW i \in 1..Len(u)
      PROVE  /\ IsBatch(L, u[i]) /\ Below(R, Of(u[i]))
             /\ Follows(L, u, w, i - 1, Of(u[i]), From(u[i]))
  <2>1. i - 1 \in 0..Len(q)
    BY <1>1, SMT
  <2>2. Follows(L, u, w, i - 1, Of(u[i]), From(u[i])) <=>
        Follows(L, q, w, i - 1, Of(u[i]), From(u[i]))
    BY <2>1, <1>2 DEF Follows, Whole
  <2>3. CASE i = Len(q) + 1
    <3>1. u[i] = m /\ i - 1 = Len(q)
      BY <2>3, <1>1, SMT
    <3> QED BY <3>1, <2>2
  <2>4. CASE i # Len(q) + 1
    <3>1. i \in 1..Len(q)
      <4>1. Len(q) \in Nat /\ i \in 1..(Len(q) + 1) /\ i # Len(q) + 1
        BY <2>4, <1>1
      <4> QED BY <4>1, NotLast
    <3> QED BY <3>1, <1>1, <2>2 DEF Queued
  <2> QED BY <2>3, <2>4
<1>4. ASSUME NEW i \in 1..Len(u), NEW j \in 1..Len(u), i < j
      PROVE  Of(u[i]) <= Of(u[j])
  <2>1. i \in 1..Len(q)
    <3>1. Len(q) \in Nat /\ i \in 1..(Len(q) + 1) /\ j \in 1..(Len(q) + 1) /\ i < j
      BY <1>1, <1>4
    <3> QED BY <3>1, SMT
  <2>2. CASE j = Len(q) + 1
    <3>1. q[i] \in Messages /\ IsBatch(L, q[i])
      BY <2>1, ElementOfSeq DEF Queued
    <3>2. Of(q[i]) \in 1..Len(L) /\ Len(L) \in Nat
      BY <3>1, BatchFacts, LenProperties
    <3>3. u[i] = q[i] /\ u[j] = m
      BY <2>1, <2>2, <1>1
    <3> QED BY <3>2, <3>3, SMT
  <2>3. CASE j # Len(q) + 1
    <3>1. j \in 1..Len(q)
      BY <2>3, <1>1, SMT
    <3> QED BY <3>1, <2>1, <1>1, <1>4 DEF Queued
  <2> QED BY <2>2, <2>3
<1> QED BY <1>3, <1>4 DEF Queued, u

\* The last message is taken away.
LEMMA QueuedLess ==
    ASSUME NEW L \in Seq(Seq(Fds)), NEW q \in Seq(Messages), NEW R, NEW w \in Seq(Fds),
           NEW m \in Messages, Queued(L, Append(q, m), R, w)
    PROVE  /\ Queued(L, q, R, w) /\ IsBatch(L, m) /\ Below(R, Of(m))
           /\ Follows(L, q, w, Len(q), Of(m), From(m))
<1> DEFINE u == Append(q, m)
<1>1. /\ Len(q) \in Nat /\ Len(u) = Len(q) + 1 /\ u[Len(q) + 1] = m
      /\ \A i \in 1..Len(q) : u[i] = q[i]
  BY AppendProperties, LenProperties
<1>2. Queued(L, u, R, w)
  OBVIOUS
<1> HIDE DEF u
<1>3. /\ \A i \in 1..Len(q) : i \in 1..Len(u)
      /\ \A i \in 1..Len(u) : i - 1 \in 0..Len(q)
      /\ Len(q) + 1 \in 1..Len(u) /\ (Len(q) + 1) - 1 = Len(q)
      /\ Len(q) \in 0..Len(q)
  BY <1>1, SMT
<1>4. ASSUME NEW i \in 0..Len(q)
      PROVE  EndList(u, w, i) = EndList(q, w, i) /\ EndAt(u, w, i) = EndAt(q, w, i)
  <2>1. i > 0 => i \in 1..Len(q)
    BY <1>1, SMT
  <2> QED BY <1>1, <2>1 DEF EndList, EndAt
<1>5. ASSUME NEW i \in 1..Len(u)
      PROVE  /\ IsBatch(L, u[i]) /\ Below(R, Of(u[i]))
             /\ Follows(L, q, w, i - 1, Of(u[i]), From(u[i]))
  <2>1. /\ IsBatch(L, u[i]) /\ Below(R, Of(u[i]))
        /\ Follows(L, u, w, i - 1, Of(u[i]), From(u[i]))
    BY <1>2 DEF Queued
  <2>2. i - 1 \in 0..Len(q)
    BY <1>3
  <2> QED BY <2>1, <2>2, <1>4 DEF Follows, Whole
<1>6. /\ IsBatch(L, m) /\ Below(R, Of(m)) /\ Follows(L, q, w, Len(q), Of(m), From(m))
  <2>1. /\ IsBatch(L, u[Len(q) + 1]) /\ Below(R, Of(u[Len(q) + 1]))
        /\ Follows(L, q, w, (Len(q) + 1) - 1, Of(u[Len(q) + 1]), From(u[Len(q) + 1]))
    BY <1>3, <1>5
  <2> QED BY <2>1, <1>1, <1>3
<1>7. Queued(L, q, R, w)
  <2>1. \A i, j \in 1..Len(q) : i < j => Of(q[i]) <= Of(q[j])
    BY <1>1, <1>2, <1>3 DEF Queued
  <2> QED BY <2>1, <1>1, <1>3, <1>5 DEF Queued
<1> QED BY <1>6, <1>7 DEF u

\* The message with that batch.
Piece(l, n) == [size |-> Len(l), fds |-> CutOff(l, n)]

LEMMA PieceIsBatch ==
    ASSUME NEW L \in Seq(Seq(Fds)), Numbered(L), NEW k \in 1..Len(L),
           NEW n \in Nat, n < Len(L[k])
    PROVE  /\ Piece(L[k], n) \in Messages /\ IsBatch(L, Piece(L[k], n))
           /\ Of(Piece(L[k], n)) = k /\ From(Piece(L[k], n)) = n
           /\ To(Piece(L[k], n)) = CutAt(L[k], n)
<1> DEFINE l == L[k]
           last == CutAt(l, n)
           f == CutOff(l, n)
           m == Piece(l, n)
<1>1. l \in Seq(Fds) /\ n < Len(l) /\ Batch \in Nat \ {0} /\ k \in Nat
  BY ElementOfSeq, PassAssumption
<1>2. Len(l) \in Nat
  BY <1>1, LenProperties
<1>3. m.size = Len(l) /\ m.fds = f /\ m = [size |-> Len(l), fds |-> f]
  BY DEF Piece
<1>4. \A i \in 1..Len(l) : l[i] = <<k, i>>
  BY DEF Numbered
<1> HIDE DEF l
<1>5. /\ last \in Nat /\ last > n /\ last <= Len(l)
      /\ f \in Seq(Fds) /\ Len(f) = last - n
      /\ Len(f) = IF Len(l) - n < Batch THEN Len(l) - n ELSE Batch
      /\ \A i \in 1..Len(f) : f[i] = l[n + i]
  BY <1>1, Cut
<1> HIDE DEF last, f, m
<1>6. ASSUME NEW i \in 1..Len(f) PROVE f[i] = <<k, n + i>>
  <2>1. n + i \in 1..Len(l)
    BY <1>5, <1>2, SMT
  <2> QED BY <2>1, <1>4, <1>5
<1>7. 1 \in 1..Len(f)
  BY <1>5, SMT
<1>8. f[1][1] = k /\ f[1][2] = n + 1
  <2>1. f[1] = <<k, n + 1>>
    BY <1>6, <1>7
  <2> QED BY <2>1
<1>9. Of(m) = k /\ From(m) = n /\ To(m) = last
  <2>1. Of(m) = k /\ From(m) = (n + 1) - 1
    BY <1>3, <1>8 DEF Of, From
  <2>2. From(m) = n
    BY <2>1, SMT
  <2>3. To(m) = n + (last - n)
    BY <2>2, <1>3, <1>5 DEF To
  <2> QED BY <2>1, <2>2, <2>3, <1>5, SMT
<1>10. m \in Messages
  BY <1>2, <1>3, <1>5 DEF Messages
<1>11. IsBatch(L, m)
  <2>1. n \in 0..(Len(l) - 1)
    BY <1>1, <1>2, SMT
  <2>2. Len(f) = Take(Len(l) - n)
    BY <1>5 DEF Take
  <2>3. m.size = Len(L[k])
    BY <1>3 DEF l
  <2> QED BY <2>1, <2>2, <2>3, <1>3, <1>6, <1>9 DEF IsBatch
<1> QED BY <1>9, <1>10, <1>11 DEF l, last, m

\* Message m brings the descriptors behind those of the vector w, of the same list,
\* and makes vec of it.
Fits(L, q, R, w, m, vec) ==
    /\ 1 \in 1..Len(q) /\ q[1] = m /\ m \in Messages
    /\ IsBatch(L, m) /\ Below(R, Of(m))
    /\ From(m) = Len(w) /\ (w # <<>> => w[1][1] = Of(m))
    /\ vec \in Seq(Fds) /\ Len(vec) = To(m)
    /\ \A i \in 1..To(m) : vec[i] = <<Of(m), i>>

\* recv() takes the head of its queue.
LEMMA HeadFits ==
    ASSUME NEW L \in Seq(Seq(Fds)), NEW q \in Seq(Messages), q # <<>>, NEW R,
           NEW w \in Seq(Fds), Filled(L, R, w), Queued(L, q, R, w)
    PROVE  Fits(L, q, R, w, Head(q), w \o Head(q).fds)
<1> DEFINE m == Head(q)
<1>1. Len(q) \in Nat /\ Len(q) # 0 /\ Len(w) \in Nat
  BY EmptySeq, LenProperties
<1>2. 1 \in 1..Len(q) /\ 1 - 1 = 0 /\ ~(0 > 0)
  BY <1>1, SMT
<1>3. q[1] = m /\ m \in Messages
  BY <1>2, HeadTailProperties, ElementOfSeq
<1> HIDE DEF m
<1>4. IsBatch(L, m) /\ Below(R, Of(m)) /\ Follows(L, q, w, 0, Of(m), From(m))
  <2>1. /\ IsBatch(L, q[1]) /\ Below(R, Of(q[1]))
        /\ Follows(L, q, w, 1 - 1, Of(q[1]), From(q[1]))
    BY <1>2 DEF Queued
  <2> QED BY <2>1, <1>2, <1>3
<1>5. /\ Of(m) \in 1..Len(L) /\ From(m) \in Nat /\ Len(m.fds) \in 1..Batch
      /\ To(m) = From(m) + Len(m.fds) /\ m.fds \in Seq(Fds) /\ Len(m.fds) \in Nat
  <2>1. m.fds \in Seq(Fds)
    BY <1>3 DEF Messages
  <2> QED BY <2>1, <1>3, <1>4, BatchFacts, LenProperties
<1>6. EndAt(q, w, 0) = Len(w) /\ EndList(q, w, 0) = IF w = <<>> THEN 0 ELSE w[1][1]
  BY <1>2 DEF EndAt, EndList
<1>7. From(m) = Len(w) /\ (w # <<>> => w[1][1] = Of(m))
  <2>1. CASE From(m) = 0
    <3>1. Len(w) = SizeOf(L, EndList(q, w, 0))
      BY <2>1, <1>4, <1>6 DEF Follows, Whole
    <3>2. w = <<>>
      <4>1. SUFFICES ASSUME w # <<>> PROVE FALSE
        OBVIOUS
      <4>2. w[1][1] \in 1..Len(L) /\ Len(w) < Len(L[w[1][1]])
        BY <4>1 DEF Filled
      <4>3. w[1][1] # 0
        BY <4>2, LenProperties, SMT
      <4>4. Len(w) = Len(L[w[1][1]])
        BY <4>1, <4>3, <3>1, <1>6 DEF SizeOf
      <4> QED BY <4>2, <4>4, <1>1, SMT
    <3> QED BY <3>2, <2>1, EmptySeq
  <2>2. CASE From(m) # 0
    <3>1. EndList(q, w, 0) = Of(m) /\ Len(w) = From(m)
      BY <2>2, <1>4, <1>6 DEF Follows
    <3> QED BY <3>1, <1>6
  <2> QED BY <2>1, <2>2
<1>8. /\ w \o m.fds \in Seq(Fds) /\ Len(w \o m.fds) = To(m)
      /\ \A i \in 1..To(m) : (w \o m.fds)[i] = IF i <= Len(w) THEN w[i] ELSE m.fds[i - Len(w)]
  <2>1. Len(w) + Len(m.fds) = To(m)
    BY <1>5, <1>7
  <2> QED BY <2>1, <1>5, ConcatProperties
<1>9. ASSUME NEW i \in 1..To(m) PROVE (w \o m.fds)[i] = <<Of(m), i>>
  <2>1. CASE i <= Len(w)
    <3>1. i \in 1..Len(w) /\ Len(w) # 0
      BY <2>1, <1>1, <1>5, SMT
    <3>2. w # <<>>
      BY <3>1, EmptySeq
    <3>3. w[i] = <<w[1][1], i>>
      BY <3>1, <3>2 DEF Filled
    <3> QED BY <3>2, <3>3, <2>1, <1>7, <1>8
  <2>2. CASE ~(i <= Len(w))
    <3>1. i - Len(w) \in 1..Len(m.fds) /\ From(m) + (i - Len(w)) = i
      <4>1. /\ Len(w) \in Nat /\ Len(m.fds) \in Nat /\ From(m) = Len(w)
            /\ i \in 1..(Len(w) + Len(m.fds)) /\ ~(i <= Len(w))
        BY <2>2, <1>1, <1>5, <1>7
      <4>2. i - Len(w) \in 1..Len(m.fds) /\ Len(w) + (i - Len(w)) = i
        BY <4>1, Behind
      <4> QED BY <4>1, <4>2
    <3>2. m.fds[i - Len(w)] = <<Of(m), From(m) + (i - Len(w))>>
      BY <3>1, <1>4 DEF IsBatch
    <3> QED BY <3>1, <3>2, <2>2, <1>8
  <2> QED BY <2>1, <2>2
<1> QED BY <1>2, <1>3, <1>4, <1>7, <1>8, <1>9 DEF Fits, m

LEMMA HeadTail ==
    ASSUME NEW q \in Seq(Messages), q # <<>>
    PROVE  /\ Len(q) \in Nat /\ Len(q) > 0 /\ 1 \in 1..Len(q) /\ q[1] = Head(q)
           /\ Len(Tail(q)) = Len(q) - 1
           /\ \A i \in 1..Len(Tail(q)) : i + 1 \in 1..Len(q) /\ Tail(q)[i] = q[i + 1]
<1>1. Len(q) \in Nat /\ Len(q) # 0 /\ Len(Tail(q)) = Len(q) - 1
  BY EmptySeq, LenProperties, HeadTailProperties
<1>2. ASSUME NEW i \in 1..Len(Tail(q)) PROVE i + 1 \in 1..Len(q) /\ Tail(q)[i] = q[i + 1]
  <2>1. i + 1 \in 1..Len(q)
    <3>1. Len(q) \in Nat /\ i \in 1..(Len(q) - 1)
      BY <1>1
    <3> QED BY <3>1, SMT
  <2> QED BY <2>1, HeadTailProperties
<1>3. Len(q) > 0 /\ 1 \in 1..Len(q)
  BY <1>1, SMT
<1>4. q[1] = Head(q)
  BY <1>3, HeadTailProperties
<1> QED BY <1>1, <1>2, <1>3, <1>4

\* The message is taken from the queue, and the vector has more of the same list.
LEMMA HeadShifts ==
    ASSUME NEW q \in Seq(Messages), q # <<>>, NEW w, NEW vec, vec # <<>>,
           vec[1][1] = Of(q[1]), Len(vec) = To(q[1])
    PROVE  /\ Len(q) \in Nat /\ Len(Tail(q)) = Len(q) - 1 /\ Len(q) > 0
           /\ \A i \in 1..Len(Tail(q)) : i + 1 \in 1..Len(q) /\ Tail(q)[i] = q[i + 1]
           /\ \A i \in 0..Len(Tail(q)) :
                /\ EndList(Tail(q), vec, i) = EndList(q, w, i + 1)
                /\ EndAt(Tail(q), vec, i) = EndAt(q, w, i + 1)
<1>1. /\ Len(q) \in Nat /\ Len(Tail(q)) = Len(q) - 1 /\ Len(q) > 0
      /\ \A i \in 1..Len(Tail(q)) : i + 1 \in 1..Len(q) /\ Tail(q)[i] = q[i + 1]
  BY HeadTail
<1>2. ASSUME NEW i \in 0..Len(Tail(q))
      PROVE  /\ EndList(Tail(q), vec, i) = EndList(q, w, i + 1)
             /\ EndAt(Tail(q), vec, i) = EndAt(q, w, i + 1)
  <2>1. i \in Nat /\ i + 1 > 0
    BY <1>1, SMT
  <2>2. CASE i > 0
    <3>1. i \in 1..Len(Tail(q))
      BY <2>2, <1>1, SMT
    <3> QED BY <3>1, <2>1, <2>2, <1>1 DEF EndList, EndAt
  <2>3. CASE ~(i > 0)
    <3>1. i = 0 /\ i + 1 = 1
      BY <2>1, <2>3, SMT
    <3>2. ~(0 > 0) /\ 1 > 0
      BY SMT
    <3> QED BY <3>1, <3>2 DEF EndList, EndAt
  <2> QED BY <2>2, <2>3
<1> QED BY <1>1, <1>2

\* The receiver goes on, with lists S and vector t, and nothing is out of place.
Goes(L, q, w, S, t) ==
    /\ Filled(L, S, t) /\ Queued(L, Tail(q), S, t)
    /\ Whole(L, q, w, Len(q)) => Whole(L, Tail(q), t, Len(Tail(q)))

\* The message does not end its list: the vector has more, the rest comes behind it.
LEMMA HeadPartly ==
    ASSUME NEW L \in Seq(Seq(Fds)), NEW q \in Seq(Messages), q # <<>>, NEW R,
           NEW w \in Seq(Fds), Filled(L, R, w), Queued(L, q, R, w),
           NEW m, NEW vec, Fits(L, q, R, w, m, vec), To(m) # m.size
    PROVE  Goes(L, q, w, R, vec) /\ vec # <<>> /\ vec[1][1] = Of(m)
<1>1. /\ 1 \in 1..Len(q) /\ q[1] = m /\ m \in Messages /\ IsBatch(L, m) /\ Below(R, Of(m))
      /\ vec \in Seq(Fds) /\ Len(vec) = To(m) /\ \A i \in 1..To(m) : vec[i] = <<Of(m), i>>
  BY DEF Fits
<1>2. /\ Of(m) \in 1..Len(L) /\ From(m) \in Nat /\ To(m) \in Nat /\ To(m) > From(m)
      /\ To(m) <= m.size /\ m.size \in Nat /\ m.size = Len(L[Of(m)])
  BY <1>1, BatchFacts
<1>3. 1 \in 1..To(m) /\ To(m) < m.size /\ To(m) # 0
  BY <1>2, SMT
<1>4. vec # <<>> /\ vec[1][1] = Of(m)
  <2>1. vec[1] = <<Of(m), 1>>
    BY <1>1, <1>3
  <2>2. vec # <<>>
    BY <1>1, <1>3, EmptySeq
  <2> QED BY <2>1, <2>2
<1>5. Filled(L, R, vec)
  BY <1>1, <1>2, <1>3, <1>4 DEF Filled
<1>6. /\ Len(q) \in Nat /\ Len(Tail(q)) = Len(q) - 1 /\ Len(q) > 0
      /\ \A i \in 1..Len(Tail(q)) : i + 1 \in 1..Len(q) /\ Tail(q)[i] = q[i + 1]
      /\ \A i \in 0..Len(Tail(q)) : /\ EndList(Tail(q), vec, i) = EndList(q, w, i + 1)
                                    /\ EndAt(Tail(q), vec, i) = EndAt(q, w, i + 1)
  BY <1>1, <1>4, HeadShifts
<1>7. ASSUME NEW i \in 1..Len(Tail(q))
      PROVE  i \in Int /\ i - 1 \in 0..Len(Tail(q)) /\ (i - 1) + 1 = i /\ (i + 1) - 1 = i
  BY <1>6, SMT
<1>8. ASSUME NEW i \in 1..Len(Tail(q))
      PROVE  /\ IsBatch(L, Tail(q)[i]) /\ Below(R, Of(Tail(q)[i]))
             /\ Follows(L, Tail(q), vec, i - 1, Of(Tail(q)[i]), From(Tail(q)[i]))
  <2>1. /\ IsBatch(L, q[i + 1]) /\ Below(R, Of(q[i + 1]))
        /\ Follows(L, q, w, (i + 1) - 1, Of(q[i + 1]), From(q[i + 1]))
    BY <1>6 DEF Queued
  <2>2. /\ EndList(Tail(q), vec, i - 1) = EndList(q, w, i)
        /\ EndAt(Tail(q), vec, i - 1) = EndAt(q, w, i)
    BY <1>6, <1>7
  <2>3. Tail(q)[i] = q[i + 1] /\ (i + 1) - 1 = i
    BY <1>6, <1>7
  <2> QED BY <2>1, <2>2, <2>3 DEF Follows, Whole
<1>9. ASSUME NEW i \in 1..Len(Tail(q)), NEW j \in 1..Len(Tail(q)), i < j
      PROVE  Of(Tail(q)[i]) <= Of(Tail(q)[j])
  <2>1. i + 1 < j + 1
    BY <1>7, <1>9, SMT
  <2> QED BY <2>1, <1>6 DEF Queued
<1>10. Whole(L, q, w, Len(q)) => Whole(L, Tail(q), vec, Len(Tail(q)))
  <2>1. Len(Tail(q)) \in 0..Len(Tail(q)) /\ Len(Tail(q)) + 1 = Len(q)
    BY <1>6, SMT
  <2> QED BY <2>1, <1>6 DEF Whole
<1> QED BY <1>4, <1>5, <1>8, <1>9, <1>10 DEF Queued, Goes

\* Among the lists returned is one more, or the empty vector.
LEMMA GotMore ==
    ASSUME NEW R \in Seq(Seq(Fds)), NEW vec \in Seq(Fds)
    PROVE  /\ Len(R) \in Nat /\ Append(R, vec)[Len(R) + 1] = vec
           /\ \A i \in Got(R) : i \in 1..Len(R) /\ i < Len(R) + 1 /\ Append(R, vec)[i] = R[i]
           /\ Got(Append(R, vec)) = IF vec = <<>> THEN Got(R) ELSE Got(R) \cup {Len(R) + 1}
<1> DEFINE S == Append(R, vec)
<1>1. /\ Len(R) \in Nat /\ Len(S) = Len(R) + 1 /\ S[Len(R) + 1] = vec
      /\ \A i \in 1..Len(R) : S[i] = R[i]
  BY LongerLists
<1> HIDE DEF S
<1>2. 1..Len(S) = (1..Len(R)) \cup {Len(R) + 1}
  BY <1>1, SMT
<1>3. \A i \in 1..Len(R) : i < Len(R) + 1
  BY <1>1, SMT
<1>4. Got(S) = IF vec = <<>> THEN Got(R) ELSE Got(R) \cup {Len(R) + 1}
  BY <1>1, <1>2 DEF Got
<1> QED BY <1>1, <1>3, <1>4 DEF Got, S

\* The empty vector, which stands for the end of a stream, is none of the lists.
LEMMA EmptyReturned ==
    ASSUME NEW L, NEW R \in Seq(Seq(Fds)), NEW w, NEW q,
           NEW S, S = Append(R, <<>>)
    PROVE  /\ Filled(L, R, w) => Filled(L, S, w)
           /\ Queued(L, q, R, w) => Queued(L, q, S, w)
           /\ Got(S) = Got(R)
           /\ \A i \in 1..Len(R) : i \in 1..Len(S) /\ S[i] = R[i]
<1>1. <<>> \in Seq(Fds)
  BY EmptySeq
<1>2. /\ \A i \in Got(R) : S[i] = R[i]
      /\ Got(S) = Got(R)
  BY <1>1, GotMore
<1>3. \A k : Below(S, k) <=> Below(R, k)
  BY <1>2 DEF Below
<1>4. Filled(L, R, w) => Filled(L, S, w)
  BY <1>2, <1>3 DEF Filled
<1>5. Queued(L, q, R, w) => Queued(L, q, S, w)
  BY <1>3 DEF Queued
<1>6. \A i \in 1..Len(R) : i \in 1..Len(S) /\ S[i] = R[i]
  <2>1. Len(R) \in Nat /\ Len(S) = Len(R) + 1 /\ \A i \in 1..Len(R) : S[i] = R[i]
    BY <1>1, LongerLists
  <2> QED BY <2>1, SMT
<1> QED BY <1>2, <1>4, <1>5, <1>6

\* Lists with the same descriptors are the same.
LEMMA SameList ==
    ASSUME NEW a \in Seq(Fds), NEW b \in Seq(Fds), Len(a) = Len(b),
           \A i \in 1..Len(a) : a[i] = b[i]
    PROVE  a = b
BY SeqEqual

\* The message ends its list: recv() returns it, and what waits belongs to later lists.
LEMMA HeadWhole ==
    ASSUME NEW L \in Seq(Seq(Fds)), Numbered(L), NEW q \in Seq(Messages), q # <<>>,
           NEW R \in Seq(Seq(Fds)),
           NEW w \in Seq(Fds), Filled(L, R, w), Queued(L, q, R, w),
           NEW m, NEW vec, Fits(L, q, R, w, m, vec), To(m) = m.size
    PROVE  Goes(L, q, w, Append(R, vec), <<>>) /\ vec = L[Of(m)]
<1> DEFINE S == Append(R, vec)
           t == Tail(q)
<1>1. /\ 1 \in 1..Len(q) /\ q[1] = m /\ m \in Messages /\ IsBatch(L, m) /\ Below(R, Of(m))
      /\ vec \in Seq(Fds) /\ Len(vec) = To(m) /\ \A i \in 1..To(m) : vec[i] = <<Of(m), i>>
  BY DEF Fits
<1>2. /\ Of(m) \in 1..Len(L) /\ From(m) \in Nat /\ To(m) \in Nat /\ To(m) > From(m)
      /\ m.size \in Nat /\ m.size = Len(L[Of(m)])
  BY <1>1, BatchFacts
<1>3. 1 \in 1..To(m) /\ To(m) # 0
  BY <1>2, SMT
<1>4. vec # <<>> /\ vec[1][1] = Of(m)
  <2>1. vec[1] = <<Of(m), 1>>
    BY <1>1, <1>3
  <2>2. vec # <<>>
    BY <1>1, <1>3, EmptySeq
  <2> QED BY <2>1, <2>2
<1>5. vec = L[Of(m)]
  <2>1. /\ L[Of(m)] \in Seq(Fds) /\ Len(L[Of(m)]) = To(m)
        /\ \A i \in 1..Len(L[Of(m)]) : L[Of(m)][i] = <<Of(m), i>>
    BY <1>2, ElementOfSeq DEF Numbered
  <2>2. /\ vec \in Seq(Fds) /\ Len(vec) = Len(L[Of(m)])
        /\ \A i \in 1..Len(vec) : vec[i] = L[Of(m)][i]
    BY <2>1, <1>1
  <2> QED BY <2>1, <2>2, SameList
<1>6. /\ Len(R) \in Nat /\ S[Len(R) + 1] = vec
      /\ \A i \in Got(R) : i \in 1..Len(R) /\ i < Len(R) + 1 /\ S[i] = R[i]
      /\ Got(S) = Got(R) \cup {Len(R) + 1}
  BY <1>1, <1>4, GotMore
<1> HIDE DEF S
<1>7. Filled(L, S, <<>>)
  <2>1. \A i \in Got(S) : \E k \in 1..Len(L) : S[i] = L[k]
    BY <1>2, <1>5, <1>6 DEF Filled
  <2>2. ASSUME NEW i \in Got(S), NEW j \in Got(S), i < j PROVE S[i][1][1] < S[j][1][1]
    <3>1. i \in Got(R)
      <4>1. i # Len(R) + 1
        <5>1. Len(R) + 1 \in Nat /\ ~(Len(R) + 1 < Len(R) + 1)
          BY <1>6, SMT
        <5>2. \A k \in Got(R) : ~(Len(R) + 1 < k)
          <6>1. \A k \in 1..Len(R) : ~(Len(R) + 1 < k)
            BY <1>6, SMT
          <6> QED BY <6>1, <1>6
        <5> QED BY <5>1, <5>2, <2>2, <1>6
      <4> QED BY <4>1, <1>6
    <3>2. CASE j \in Got(R)
      BY <3>1, <3>2, <2>2, <1>6 DEF Filled
    <3>3. CASE j = Len(R) + 1
      BY <3>1, <3>3, <1>1, <1>4, <1>6 DEF Below
    <3> QED BY <3>2, <3>3, <1>6
  <2> QED BY <2>1, <2>2 DEF Filled
<1>8. /\ Len(q) \in Nat /\ Len(t) = Len(q) - 1 /\ Len(q) > 0
      /\ \A i \in 1..Len(t) : i + 1 \in 1..Len(q) /\ t[i] = q[i + 1]
      /\ \A i \in 0..Len(t) : /\ EndList(t, vec, i) = EndList(q, w, i + 1)
                              /\ EndAt(t, vec, i) = EndAt(q, w, i + 1)
  BY <1>1, <1>4, HeadShifts
<1> HIDE DEF t
\* With nothing in the queue and an empty vector everything is whole.
<1>9. EndList(t, <<>>, 0) = 0 /\ EndAt(t, <<>>, 0) = 0 /\ Whole(L, t, <<>>, 0)
  <2>1. ~(0 > 0)
    BY SMT
  <2> QED BY <2>1, EmptySeq DEF EndList, EndAt, Whole, SizeOf
<1>10. ASSUME NEW i \in 1..Len(t)
       PROVE  /\ EndList(t, <<>>, i) = EndList(q, w, i + 1)
              /\ EndAt(t, <<>>, i) = EndAt(q, w, i + 1)
  <2>1. i > 0 /\ i \in 0..Len(t)
    BY <1>8, SMT
  <2> QED BY <2>1, <1>8 DEF EndList, EndAt
<1>11. Whole(L, q, w, Len(q)) => Whole(L, t, <<>>, Len(t))
  <2>1. CASE Len(t) = 0
    BY <2>1, <1>9
  <2>2. CASE Len(t) # 0
    <3>1. Len(t) \in 1..Len(t) /\ Len(t) + 1 = Len(q)
      BY <2>2, <1>8, SMT
    <3> QED BY <3>1, <1>10 DEF Whole
  <2> QED BY <2>1, <2>2
\* The message behind it begins another list.
<1>12. ASSUME 1 \in 1..Len(t)
       PROVE  From(t[1]) = 0 /\ Of(m) < Of(t[1]) /\ Of(t[1]) \in 1..Len(L)
  <2>1. 2 \in 1..Len(q) /\ 1 + 1 = 2 /\ 2 - 1 = 1 /\ 1 > 0
    BY <1>12, <1>8, SMT
  <2>2. t[1] = q[2]
    BY <2>1, <1>12, <1>8
  <2>3. /\ t[1] \in Messages /\ IsBatch(L, t[1])
        /\ Follows(L, q, w, 1, Of(t[1]), From(t[1]))
    BY <2>1, <2>2, ElementOfSeq DEF Queued
  <2>4. /\ Of(t[1]) \in 1..Len(L) /\ From(t[1]) \in Nat /\ From(t[1]) < t[1].size
        /\ t[1].size = Len(L[Of(t[1])])
    BY <2>3, BatchFacts
  <2>5. EndList(q, w, 1) = Of(m) /\ EndAt(q, w, 1) = To(m)
    BY <2>1, <1>1 DEF EndList, EndAt
  <2>6. From(t[1]) = 0
    <3>1. SUFFICES ASSUME From(t[1]) # 0 PROVE FALSE
      OBVIOUS
    <3>2. Of(t[1]) = Of(m) /\ From(t[1]) = To(m)
      BY <3>1, <2>3, <2>5 DEF Follows
    <3>3. From(t[1]) < To(m)
      BY <3>2, <2>4, <1>2
    <3> QED BY <3>2, <3>3, <1>2, SMT
  <2>7. Of(m) < Of(t[1])
    BY <2>3, <2>5, <2>6 DEF Follows
  <2> QED BY <2>4, <2>6, <2>7
<1>13. ASSUME NEW i \in 1..Len(t)
       PROVE  /\ IsBatch(L, t[i]) /\ Below(R, Of(t[i])) /\ Of(m) < Of(t[i])
              /\ Follows(L, t, <<>>, i - 1, Of(t[i]), From(t[i]))
  <2>1. /\ i + 1 \in 1..Len(q) /\ t[i] = q[i + 1] /\ (i + 1) - 1 = i
        /\ 1 \in 1..Len(t) /\ i \in Nat /\ 1 + 1 \in 1..Len(q)
    BY <1>8, SMT
  <2>2. /\ t[i] \in Messages /\ IsBatch(L, t[i]) /\ Below(R, Of(t[i]))
        /\ Follows(L, q, w, i, Of(t[i]), From(t[i]))
    BY <2>1, ElementOfSeq DEF Queued
  <2>3. Of(m) < Of(t[1])
    BY <2>1, <1>12
  <2>4. CASE i = 1
    <3>1. 0 < Of(t[1])
      BY <2>1, <1>12, LenProperties, SMT
    <3> QED BY <3>1, <2>2, <2>3, <2>4, <2>1, <1>9, <1>12 DEF Follows
  <2>5. CASE i # 1
    <3>1. i - 1 \in 1..Len(t) /\ (i - 1) + 1 = i /\ 1 + 1 < i + 1
      BY <2>1, <2>5, <1>8, SMT
    <3>2. Follows(L, t, <<>>, i - 1, Of(t[i]), From(t[i]))
      BY <3>1, <2>2, <1>10 DEF Follows, Whole
    <3>3. Of(t[1]) <= Of(t[i])
      <4>1. t[1] = q[1 + 1] /\ t[i] = q[i + 1]
        BY <2>1, <1>8
      <4> QED BY <4>1, <3>1, <2>1 DEF Queued
    <3>4. Of(t[i]) \in Int /\ Of(t[1]) \in Int /\ Of(m) \in Int
      <4>1. Of(t[i]) \in 1..Len(L) /\ Of(t[1]) \in 1..Len(L) /\ Of(m) \in 1..Len(L)
        BY <2>1, <2>2, <1>2, <1>12, BatchFacts
      <4> QED BY <4>1, LenProperties, SMT
    <3>5. Of(m) < Of(t[i])
      BY <2>3, <3>3, <3>4, SMT
    <3> QED BY <3>2, <3>5, <2>2
  <2> QED BY <2>4, <2>5
<1>14. Queued(L, t, S, <<>>)
  <2>1. ASSUME NEW i \in 1..Len(t) PROVE Below(S, Of(t[i]))
    BY <1>13, <1>6, <1>4 DEF Below
  <2>2. ASSUME NEW i \in 1..Len(t), NEW j \in 1..Len(t), i < j PROVE Of(t[i]) <= Of(t[j])
    <3>1. i + 1 < j + 1
      BY <2>2, <1>8, SMT
    <3> QED BY <3>1, <1>8 DEF Queued
  <2> QED BY <1>13, <2>1, <2>2 DEF Queued
<1> QED BY <1>5, <1>7, <1>11, <1>14 DEF Goes, S, t

-----------------------------------------------------------------------------
\* OWNERS, of what is in the lists R and in the vector w

OwnedBy(R, w) == UNION {Range(l) : l \in Range(Append(R, w))}

LEMMA OwnedSplit ==
    ASSUME NEW R \in Seq(Seq(Fds)), NEW w \in Seq(Fds)
    PROVE  \A x : x \in OwnedBy(R, w) <=>
                    (\E i \in 1..Len(R) : x \in Range(R[i])) \/ x \in Range(w)
<1> DEFINE S == Append(R, w)
<1>1. /\ Len(R) \in Nat /\ S \in Seq(Seq(Fds)) /\ Len(S) = Len(R) + 1 /\ S[Len(R) + 1] = w
      /\ \A i \in 1..Len(R) : S[i] = R[i]
  BY LongerLists
<1>2. DOMAIN S = 1..Len(S)
  BY <1>1, LenProperties
<1> HIDE DEF S
<1>3. 1..Len(S) = (1..Len(R)) \cup {Len(R) + 1}
  BY <1>1, SMT
<1>4. \A l : l \in Range(S) <=> (\E i \in 1..Len(R) : l = R[i]) \/ l = w
  <2>1. \A l : l \in Range(S) <=> \E i \in (1..Len(R)) \cup {Len(R) + 1} : l = S[i]
    BY <1>2, <1>3 DEF Range
  <2> QED BY <2>1, <1>1
<1>5. \A x : x \in OwnedBy(R, w) <=> \E l \in Range(S) : x \in Range(l)
  BY DEF OwnedBy, S
<1> QED BY <1>4, <1>5

LEMMA RangeOf == ASSUME NEW l \in Seq(Fds) PROVE Range(l) = {l[i] : i \in 1..Len(l)}
<1>1. DOMAIN l = 1..Len(l)
  BY LenProperties
<1> QED BY <1>1 DEF Range

LEMMA RangeMore ==
    ASSUME NEW w \in Seq(Fds), NEW f \in Seq(Fds)
    PROVE  Range(w \o f) = Range(w) \cup Range(f)
<1> DEFINE u == w \o f
<1>1. /\ Len(w) \in Nat /\ Len(f) \in Nat /\ u \in Seq(Fds) /\ Len(u) = Len(w) + Len(f)
      /\ \A i \in 1..Len(u) : u[i] = IF i <= Len(w) THEN w[i] ELSE f[i - Len(w)]
  BY ConcatProperties, LenProperties
<1> HIDE DEF u
<1>2. Range(u) = {u[i] : i \in 1..Len(u)} /\ Range(w) = {w[i] : i \in 1..Len(w)}
      /\ Range(f) = {f[i] : i \in 1..Len(f)}
  BY <1>1, RangeOf
<1>3. ASSUME NEW i \in 1..Len(u) PROVE u[i] \in Range(w) \cup Range(f)
  <2>1. CASE i <= Len(w)
    <3>1. i \in 1..Len(w)
      BY <2>1, <1>1, SMT
    <3> QED BY <3>1, <2>1, <1>1, <1>2
  <2>2. CASE ~(i <= Len(w))
    <3>1. i - Len(w) \in 1..Len(f)
      <4>1. Len(w) \in Nat /\ Len(f) \in Nat /\ i \in 1..(Len(w) + Len(f)) /\ ~(i <= Len(w))
        BY <2>2, <1>1
      <4> QED BY <4>1, Behind
    <3> QED BY <3>1, <2>2, <1>1, <1>2
  <2> QED BY <2>1, <2>2
<1>4. ASSUME NEW i \in 1..Len(w) PROVE w[i] \in Range(u)
  <2>1. i \in 1..Len(u) /\ i <= Len(w)
    BY <1>1, SMT
  <2> QED BY <2>1, <1>1, <1>2
<1>5. ASSUME NEW i \in 1..Len(f) PROVE f[i] \in Range(u)
  <2> DEFINE j == Len(w) + i
  <2>1. j \in 1..Len(u) /\ ~(j <= Len(w)) /\ j - Len(w) = i
    BY <1>1, SMT
  <2> QED BY <2>1, <1>1, <1>2
<1>6. Range(u) \subseteq Range(w) \cup Range(f)
  BY <1>2, <1>3
<1>7. Range(w) \subseteq Range(u) /\ Range(f) \subseteq Range(u)
  BY <1>2, <1>4, <1>5
<1> QED BY <1>6, <1>7 DEF u

LEMMA OwnedMore ==
    ASSUME NEW R \in Seq(Seq(Fds)), NEW w \in Seq(Fds), NEW f \in Seq(Fds)
    PROVE  OwnedBy(R, w \o f) = OwnedBy(R, w) \cup Range(f)
<1>1. w \o f \in Seq(Fds)
  BY ConcatProperties
<1>2. \A x : x \in OwnedBy(R, w \o f) <=>
               (\E i \in 1..Len(R) : x \in Range(R[i])) \/ x \in Range(w \o f)
  BY <1>1, OwnedSplit
<1>3. \A x : x \in OwnedBy(R, w) <=> (\E i \in 1..Len(R) : x \in Range(R[i])) \/ x \in Range(w)
  BY OwnedSplit
<1>4. Range(w \o f) = Range(w) \cup Range(f)
  BY RangeMore
<1> QED BY <1>2, <1>3, <1>4

\* recv() returns the vector.
LEMMA OwnedReturned ==
    ASSUME NEW R \in Seq(Seq(Fds)), NEW vec \in Seq(Fds)
    PROVE  OwnedBy(Append(R, vec), <<>>) = OwnedBy(R, vec)
<1>1. Append(R, vec) \in Seq(Seq(Fds)) /\ <<>> \in Seq(Fds)
  BY LongerLists, EmptySeq
<1>2. Range(<<>>) = {}
  BY DEF Range
<1>3. /\ Len(R) \in Nat /\ Len(Append(R, vec)) = Len(R) + 1
      /\ \A i \in 1..Len(R) : Append(R, vec)[i] = R[i]
      /\ Append(R, vec)[Len(R) + 1] = vec
  BY LongerLists
<1>4. 1..(Len(R) + 1) = (1..Len(R)) \cup {Len(R) + 1}
  BY <1>3, SMT
<1>5. \A x : (\E i \in 1..Len(Append(R, vec)) : x \in Range(Append(R, vec)[i])) <=>
             (\E i \in 1..Len(R) : x \in Range(R[i])) \/ x \in Range(vec)
  BY <1>3, <1>4
<1>6. \A x : x \in OwnedBy(Append(R, vec), <<>>) <=>
               \E i \in 1..Len(Append(R, vec)) : x \in Range(Append(R, vec)[i])
  BY <1>1, <1>2, OwnedSplit
<1>7. \A x : x \in OwnedBy(Append(R, vec), <<>>) <=> x \in OwnedBy(R, vec)
  BY <1>5, <1>6, OwnedSplit
<1> QED BY <1>7
-----------------------------------------------------------------------------
\* THE INVARIANT, when s is the only sender: as long as no call has failed in the
\* middle of a list, nothing is lost or out of place.

Live(p) == pc[p] \notin {"gone", "crashed"}

\* What waits for the receiver: in its queue, and in the hands of the sender.
Coming(s) ==
    IF pc[s] = "send" THEN Append(queue[peer[s]], Piece(list[s], next[s]))
                      ELSE queue[peer[s]]

Held(p) ==
    /\ pc[p] \in {"idle", "send", "bind"} => v[p] = <<>>
    /\ pc[p] = "recv" => room[p] >= Batch
    /\ pc[p] # "undefined"
    /\ installed[p] = IF Live(p) THEN Owned(p) ELSE {}

\* Whoever is not at the other end of s has never got anything.
Connected(s) ==
    /\ peer[s] # s /\ (~ready[s] => peer[s] = Nobody /\ path # s)
    /\ stream => /\ peer[s] \in Procs /\ ready[s] /\ peer[peer[s]] = s
                 /\ \A p \in Procs \ {s, peer[s]} : pc[p] = "gone"
    /\ \A p \in Procs : pc[p] = "crashed" => stream
    /\ \A p \in Procs \ {peer[s]} : queue[p] = <<>> /\ v[p] = <<>> /\ Got(returned[p]) = {}

Streams(s) ==
    /\ pc[s] = "send" => list[s] = lists[Len(lists)]
    /\ peer[s] \in Procs /\ Live(peer[s]) =>
         /\ Queued(lists, Coming(s), returned[peer[s]], v[peer[s]])
         /\ pc[s] # "send" => Whole(lists, Coming(s), v[peer[s]], Len(Coming(s)))

Arriving(r, k) ==
    \/ \E i \in 1..Len(queue[r]) : Of(queue[r][i]) = k
    \/ v[r] # <<>> /\ v[r][1][1] = k

Returned(r, k) == \E i \in 1..Len(returned[r]) : returned[r][i] = lists[k]

\* A list whose send() has returned is not lost while the receiver lives.
Delivered(s) ==
    \A k \in complete : lists[k] # <<>> =>
        /\ peer[s] \in Procs
        /\ \/ pc[peer[s]] = "gone" \/ Returned(peer[s], k)
           \/ Live(peer[s]) /\ Arriving(peer[s], k)

OneLine(s) ==
    /\ \A p \in Procs : Filled(lists, returned[p], v[p]) /\ Held(p)
    /\ Connected(s) /\ Streams(s) /\ Delivered(s)

PassInv(s) == PassTypes /\ (~cut => OneLine(s))

\* What the types say of one process.
LEMMA Typed ==
    ASSUME TypeOK, NEW p \in Procs
    PROVE  /\ queue[p] \in Seq(Messages) /\ v[p] \in Seq(Fds)
           /\ returned[p] \in Seq(Seq(Fds)) /\ list[p] \in Seq(Fds)
           /\ lists \in Seq(Seq(Fds)) /\ Len(lists) \in Nat
<1>1. /\ queue[p] \in Seq(Messages) /\ v[p] \in Seq(Fds)
      /\ returned[p] \in Seq(Seq(Fds)) /\ list[p] \in Seq(Fds)
      /\ lists \in Seq(Seq(Fds))
  BY DEF TypeOK, Messages
<1> QED BY <1>1, LenProperties

LEMMA OwnedIs == ASSUME NEW p PROVE Owned(p) = OwnedBy(returned[p], v[p])
BY DEF Owned, Vectors, OwnedBy

LEMMA HeldStays ==
    ASSUME NEW p, Held(p), pc'[p] = pc[p], v'[p] = v[p], room'[p] = room[p],
           installed'[p] = installed[p], returned'[p] = returned[p]
    PROVE  Held(p)'
BY DEF Held, Live, Owned, Vectors

\* Every list that has been returned is before one that begins now.
LEMMA BelowNext ==
    ASSUME NEW L \in Seq(Seq(Fds)), Numbered(L), NEW R, NEW w, Filled(L, R, w)
    PROVE  Below(R, Len(L) + 1)
<1>1. ASSUME NEW i \in Got(R) PROVE R[i][1][1] < Len(L) + 1
  <2>1. PICK k \in 1..Len(L) : R[i] = L[k]
    BY DEF Filled
  <2>2. L[k] \in Seq(Fds) /\ L[k] # <<>>
    BY <2>1, ElementOfSeq DEF Got
  <2>3. 1 \in 1..Len(L[k])
    <3>1. Len(L[k]) \in Nat /\ Len(L[k]) # 0
      BY <2>2, LenProperties, EmptySeq
    <3> QED BY <3>1, SMT
  <2>4. L[k][1] = <<k, 1>>
    BY <2>3 DEF Numbered
  <2>5. R[i][1][1] = k
    BY <2>1, <2>4
  <2>6. Len(L) \in Nat
    BY LenProperties
  <2> QED BY <2>5, <2>6, SMT
<1> QED BY <1>1 DEF Below

\* What the sender has in its hands.
LEMMA InHand ==
    ASSUME NEW s \in Procs, PassTypes, pc[s] = "send", Streams(s)
    PROVE  /\ Len(lists) \in 1..Len(lists) /\ list[s] = lists[Len(lists)]
           /\ next[s] \in Nat /\ next[s] < Len(list[s])
           /\ Piece(list[s], next[s]) \in Messages /\ IsBatch(lists, Piece(list[s], next[s]))
           /\ Of(Piece(list[s], next[s])) = Len(lists)
           /\ From(Piece(list[s], next[s])) = next[s]
           /\ To(Piece(list[s], next[s])) = CutAt(list[s], next[s])
<1>1. TypeOK /\ Numbered(lists) /\ list[s] = lists[Len(lists)]
  BY DEF PassTypes, Streams
<1>2. PICK k \in 1..Len(lists) : list[s] = lists[k]
  BY DEF PassTypes, Sending
<1>3. lists \in Seq(Seq(Fds)) /\ Len(lists) \in Nat /\ next[s] \in Nat /\ next[s] < Len(list[s])
  BY <1>1, Typed DEF PassTypes, Sending, TypeOK
<1>4. Len(lists) \in 1..Len(lists)
  BY <1>2, <1>3, SMT
<1>5. /\ Piece(lists[Len(lists)], next[s]) \in Messages
      /\ IsBatch(lists, Piece(lists[Len(lists)], next[s]))
      /\ Of(Piece(lists[Len(lists)], next[s])) = Len(lists)
      /\ From(Piece(lists[Len(lists)], next[s])) = next[s]
      /\ To(Piece(lists[Len(lists)], next[s])) = CutAt(lists[Len(lists)], next[s])
  BY <1>1, <1>3, <1>4, PieceIsBatch
<1> QED BY <1>1, <1>3, <1>4, <1>5

\* A list nothing has been sent of is given up.
LEMMA Unsent ==
    ASSUME NEW s \in Procs, PassTypes, Streams(s), peer[s] \in Procs, Live(peer[s]),
           pc[s] = "send" => next[s] = 0
    PROVE  /\ Queued(lists, queue[peer[s]], returned[peer[s]], v[peer[s]])
           /\ Whole(lists, queue[peer[s]], v[peer[s]], Len(queue[peer[s]]))
<1> DEFINE r == peer[s]
           m == Piece(list[s], next[s])
<1>1. CASE pc[s] # "send"
  BY <1>1 DEF Streams, Coming
<1>2. CASE pc[s] = "send"
  <2>1. m \in Messages /\ From(m) = 0
    BY <1>2, InHand
  <2>2. Queued(lists, Append(queue[r], m), returned[r], v[r])
    BY <1>2 DEF Streams, Coming
  <2>3. queue[r] \in Seq(Messages) /\ v[r] \in Seq(Fds) /\ lists \in Seq(Seq(Fds))
    BY Typed DEF PassTypes
  <2> HIDE DEF m
  <2>4. /\ Queued(lists, queue[r], returned[r], v[r])
        /\ Follows(lists, queue[r], v[r], Len(queue[r]), Of(m), From(m))
    BY <2>1, <2>2, <2>3, QueuedLess
  <2> QED BY <2>1, <2>4 DEF Follows
<1> QED BY <1>1, <1>2

\* Nothing is on its way from a process that is not sending.
LEMMA NothingComes ==
    ASSUME NEW L, NEW R
    PROVE  Queued(L, <<>>, R, <<>>) /\ Whole(L, <<>>, <<>>, Len(<<>>))
<1>1. Len(<<>>) = 0 /\ ~(0 > 0) /\ 1..0 = {}
  BY EmptySeq, SMT
<1>2. Queued(L, <<>>, R, <<>>)
  BY <1>1 DEF Queued
<1>3. Whole(L, <<>>, <<>>, Len(<<>>))
  BY <1>1 DEF Whole, EndAt, EndList, SizeOf
<1> QED BY <1>2, <1>3

LEMMA EmptyGot == Got(<<>>) = {} /\ Below(<<>>, 0)
<1>1. Len(<<>>) = 0 /\ 1..0 = {}
  BY EmptySeq, SMT
<1> QED BY <1>1 DEF Got, Below

LEMMA InitOneLine == ASSUME NEW s, Senders = {s}, Init PROVE OneLine(s)
<1>1. s \in Procs /\ Nobody \notin Procs
  BY PassAssumption DEF Procs
<1>2. /\ lists = <<>> /\ complete = {} /\ path = Nobody
      /\ \A p \in Procs : /\ queue[p] = <<>> /\ v[p] = <<>> /\ returned[p] = <<>>
                          /\ installed[p] = {} /\ ready[p] = stream /\ pc[p] \in {"idle", "gone"}
  BY DEF Init
<1>3. \A p \in Procs : Filled(lists, returned[p], v[p]) /\ Got(returned[p]) = {}
  BY <1>2, EmptyGot DEF Filled
<1>4. ASSUME NEW p \in Procs PROVE Held(p)
  <2>1. Owned(p) = {}
    <3>1. <<>> \in Seq(Seq(Fds)) /\ <<>> \in Seq(Fds) /\ Len(<<>>) = 0
      BY EmptySeq
    <3>2. 1..0 = {} /\ Range(<<>>) = {}
      BY SMT DEF Range
    <3>3. \A x : x \notin OwnedBy(<<>>, <<>>)
      BY <3>1, <3>2, OwnedSplit
    <3> QED BY <3>3, <1>2, OwnedIs
  <2> QED BY <2>1, <1>2 DEF Held, Live
<1>5. Connected(s)
  <2>1. CASE ~stream
    <3>1. peer[s] = Nobody
      BY <2>1, <1>1 DEF Init
    <3> QED BY <3>1, <2>1, <1>1, <1>2, <1>3 DEF Connected
  <2>2. CASE stream
    <3>1. PICK b \in Receivers \ {s} :
             /\ peer = [p \in Procs |-> IF p = s THEN b ELSE IF p = b THEN s ELSE Nobody]
             /\ pc = [p \in Procs |-> IF p \in {s, b} THEN "idle" ELSE "gone"]
      BY <2>2 DEF Init
    <3>2. b \in Procs /\ peer[s] = b /\ peer[b] = s
      BY <3>1, <1>1 DEF Procs
    <3>3. \A p \in Procs \ {s, b} : pc[p] = "gone"
      BY <3>1
    <3> QED BY <3>1, <3>2, <3>3, <2>2, <1>1, <1>2, <1>3 DEF Connected
  <2> QED BY <2>1, <2>2
<1>6. Streams(s)
  <2>1. pc[s] # "send"
    BY <1>1, <1>2
  <2> QED BY <2>1, <1>2, NothingComes DEF Streams, Coming
<1>7. Delivered(s)
  BY <1>2 DEF Delivered
<1> QED BY <1>3, <1>4, <1>5, <1>6, <1>7 DEF OneLine

LEMMA SendStartOne ==
    ASSUME NEW s, Senders = {s}, PassTypes, PassTypes', OneLine(s),
           NEW c \in Counts, SendStart(s, c)
    PROVE  OneLine(s)'
<1> DEFINE x == [i \in 1..c |-> <<Len(lists) + 1, i>>]
<1>1. s \in Procs /\ Nobody \notin Procs /\ c \in Nat /\ TypeOK /\ TypeOK' /\ Numbered(lists')
  BY PassAssumption DEF Procs, PassTypes
<1>2. lists \in Seq(Seq(Fds)) /\ Len(lists) \in Nat /\ Len(lists) + 1 \in Nat
  BY <1>1, Typed, SMT
<1>3. x \in Seq(Fds) /\ Len(x) = c
  BY <1>1, <1>2, ListType
<1>4. /\ pc[s] = "idle" /\ lists' = Append(lists, x) /\ list' = [list EXCEPT ![s] = x]
      /\ next' = [next EXCEPT ![s] = 0] /\ ready' = [ready EXCEPT ![s] = TRUE]
      /\ peer' = [peer EXCEPT ![s] = IF ready[s] THEN @ ELSE path]
      /\ IF ready[s] THEN peer[s] # Nobody ELSE Alive(path)
      /\ stream' = stream /\ path' = path /\ queue' = queue /\ v' = v /\ room' = room
      /\ returned' = returned /\ installed' = installed
  BY DEF SendStart, recvVars
<1>5. \/ c = 0 /\ complete' = complete \cup {Len(lists) + 1} /\ pc' = pc
      \/ c # 0 /\ pc' = [pc EXCEPT ![s] = "send"] /\ complete' = complete
  <2>1. CASE c = 0
    BY <2>1 DEF SendStart
  <2>2. CASE c # 0
    BY <2>2 DEF SendStart
  <2> QED BY <2>1, <2>2
<1>6. pc'[s] \in {"idle", "send"} /\ \A p \in Procs \ {s} : pc'[p] = pc[p]
  BY <1>1, <1>4, <1>5 DEF TypeOK
<1> HIDE DEF x
<1>7. /\ Len(lists') = Len(lists) + 1 /\ lists'[Len(lists) + 1] = x
      /\ \A k \in 1..Len(lists) : lists'[k] = lists[k]
  BY <1>2, <1>3, <1>4, LongerLists
\* The connection.
<1>8. /\ peer'[s] \in Procs /\ peer'[s] # s
      /\ (ready[s] => peer'[s] = peer[s]) /\ (~ready[s] => peer[s] = Nobody)
      /\ \A p \in Procs \ {s} : peer'[p] = peer[p]
  <2>1. \A p \in Procs \ {s} : peer'[p] = peer[p]
    BY <1>1, <1>4 DEF TypeOK
  <2>2. peer[s] # s /\ (~ready[s] => peer[s] = Nobody /\ path # s)
    BY DEF OneLine, Connected
  <2>3. CASE ready[s]
    BY <2>1, <2>2, <2>3, <1>1, <1>4 DEF TypeOK
  <2>4. CASE ~ready[s]
    <3>1. peer'[s] = path /\ path # Nobody
      BY <2>4, <1>1, <1>4 DEF TypeOK, Alive
    <3> QED BY <3>1, <2>1, <2>2, <2>4, <1>1 DEF TypeOK
  <2> QED BY <2>3, <2>4
<1>9. PICK r \in Procs :
          /\ r = peer'[s] /\ r # s
          /\ (ready[s] => r = peer[s]) /\ (~ready[s] => peer[s] = Nobody)
          /\ \A p \in Procs \ {s} : peer'[p] = peer[p]
  BY <1>8
<1> DEFINE q == queue[r]
           w == v[r]
           R == returned[r]
<1>10. Connected(s)'
  <2>1. /\ (stream => /\ peer[s] \in Procs /\ ready[s] /\ peer[peer[s]] = s
                      /\ \A p \in Procs \ {s, peer[s]} : pc[p] = "gone")
        /\ \A p \in Procs : pc[p] = "crashed" => stream
        /\ \A p \in Procs \ {peer[s]} : queue[p] = <<>> /\ v[p] = <<>> /\ Got(returned[p]) = {}
    BY DEF OneLine, Connected
  <2>2. ready'[s] /\ peer'[s] = r
    BY <1>1, <1>4, <1>9 DEF TypeOK
  <2>3. stream' => /\ r \in Procs /\ ready'[s] /\ peer'[r] = s
                   /\ \A p \in Procs \ {s, r} : pc'[p] = "gone"
    BY <2>1, <2>2, <1>4, <1>6, <1>9
  <2>4. \A p \in Procs : pc'[p] = "crashed" => stream'
    BY <2>1, <1>4, <1>6
  <2>5. \A p \in Procs \ {r} : queue'[p] = <<>> /\ v'[p] = <<>> /\ Got(returned'[p]) = {}
    BY <2>1, <1>1, <1>4, <1>9
  <2> QED BY <2>2, <2>3, <2>4, <2>5, <1>9 DEF Connected
\* What came before.
<1>11. ASSUME Live(r)
       PROVE  Queued(lists, q, R, w) /\ Whole(lists, q, w, Len(q))
  <2>1. CASE ready[s]
    <3>1. r = peer[s] /\ pc[s] # "send"
      BY <2>1, <1>4, <1>9
    <3> QED BY <3>1, <1>9, <1>11 DEF OneLine, Streams, Coming
  <2>2. CASE ~ready[s]
    <3>1. r # peer[s]
      BY <2>2, <1>1, <1>9
    <3>2. q = <<>> /\ w = <<>>
      BY <3>1, <1>9 DEF OneLine, Connected
    <3> QED BY <3>2, NothingComes
  <2> QED BY <2>1, <2>2
<1>12. /\ q \in Seq(Messages) /\ w \in Seq(Fds) /\ Filled(lists, R, w)
  BY <1>1, <1>9, Typed DEF OneLine
<1>13. Filled(lists', R, w) /\ Below(R, Len(lists) + 1)
  BY <1>2, <1>3, <1>4, <1>12, FilledLonger, BelowNext DEF PassTypes
<1> HIDE DEF q, w, R
<1>14. ASSUME Live(r)
       PROVE  /\ Queued(lists', q, R, w) /\ Whole(lists', q, w, Len(q))
              /\ EndList(q, w, Len(q)) \in 0..Len(lists)
  <2>1. Queued(lists, q, R, w) /\ Whole(lists, q, w, Len(q)) /\ Len(q) \in 0..Len(q)
    BY <1>11, <1>12, <1>14, LenProperties, SMT
  <2>2. EndList(q, w, Len(q)) \in 0..Len(lists)
    BY <2>1, <1>2, <1>12, EndRange
  <2>3. Whole(lists', q, w, Len(q))
    BY <2>1, <2>2, <1>2, <1>3, <1>4, FollowsStays
  <2>4. Queued(lists', q, R, w)
    BY <2>1, <1>2, <1>3, <1>4, <1>12, QueuedLonger
  <2> QED BY <2>2, <2>3, <2>4
<1>15. Streams(s)'
  <2>1. CASE c = 0
    <3>1. pc'[s] = "idle" /\ Coming(s)' = q
      BY <2>1, <1>4, <1>5, <1>9 DEF Coming, q
    <3>2. Live(r)' => Live(r)
      BY <2>1, <1>5 DEF Live
    <3> QED BY <3>1, <3>2, <1>4, <1>9, <1>14 DEF Streams, q, w, R
  <2>2. CASE c # 0
    <3> DEFINE m == Piece(x, 0)
    <3>1. pc'[s] = "send" /\ list'[s] = x /\ next'[s] = 0
      BY <2>2, <1>1, <1>4, <1>5 DEF TypeOK
    <3>2. x = lists'[Len(lists')]
      BY <1>7
    <3>3. Coming(s)' = Append(q, m)
      BY <3>1, <1>4, <1>9 DEF Coming, q
    <3>4. Len(lists') \in 1..Len(lists') /\ 0 < Len(lists'[Len(lists')]) /\ 0 \in Nat
      BY <2>2, <3>2, <1>1, <1>2, <1>3, <1>7, SMT
    <3>5. /\ m \in Messages /\ IsBatch(lists', m) /\ Of(m) = Len(lists') /\ From(m) = 0
      <4>1. lists' \in Seq(Seq(Fds))
        BY <1>1 DEF TypeOK
      <4> QED BY <4>1, <3>2, <3>4, <1>1, PieceIsBatch
    <3> HIDE DEF m
    <3>6. ASSUME Live(r) PROVE Queued(lists', Append(q, m), R, w)
      <4>1. EndList(q, w, Len(q)) < Of(m)
        BY <3>5, <3>6, <1>2, <1>7, <1>14, SMT
      <4>2. Follows(lists', q, w, Len(q), Of(m), From(m))
        BY <4>1, <3>5, <3>6, <1>14 DEF Follows
      <4>3. Below(R, Of(m)) /\ lists' \in Seq(Seq(Fds))
        BY <3>5, <1>7, <1>13, <1>1 DEF TypeOK
      <4> QED BY <4>2, <4>3, <3>5, <3>6, <1>12, <1>14, QueuedMore DEF q, w
    <3>7. Live(r)' => Live(r)
      BY <1>6, <1>9 DEF Live
    <3> QED BY <3>1, <3>2, <3>3, <3>6, <3>7, <1>4, <1>9 DEF Streams, w, R
  <2> QED BY <2>1, <2>2
<1>16. \A p \in Procs : Filled(lists', returned'[p], v'[p])
  BY <1>2, <1>3, <1>4, FilledLonger DEF OneLine
<1>17. ASSUME NEW p \in Procs PROVE Held(p)'
  <2>1. CASE p # s
    BY <2>1, <1>4, <1>6, HeldStays DEF OneLine
  <2>2. CASE p = s
    BY <2>2, <1>4, <1>6 DEF OneLine, Held, Live, Owned, Vectors
  <2> QED BY <2>1, <2>2
<1>18. Delivered(s)'
  <2>1. ASSUME NEW k \in complete', lists'[k] # <<>>
        PROVE  /\ r \in Procs
               /\ \/ pc'[r] = "gone" \/ \E i \in 1..Len(returned[r]) : returned[r][i] = lists'[k]
                  \/ Live(r)' /\ Arriving(r, k)
    <3>1. k \in complete
      <4>1. c = 0 => x = <<>>
        BY <1>3, EmptySeq
      <4> QED BY <4>1, <2>1, <1>5, <1>7
    <3>2. k \in 1..Len(lists) /\ lists'[k] = lists[k]
      BY <3>1, <1>1, <1>7 DEF TypeOK
    <3>3. /\ peer[s] \in Procs
          /\ \/ pc[peer[s]] = "gone" \/ Returned(peer[s], k)
             \/ Live(peer[s]) /\ Arriving(peer[s], k)
      BY <3>1, <3>2, <2>1 DEF OneLine, Delivered
    <3>4. r = peer[s] /\ pc'[r] = pc[r]
      BY <3>3, <1>1, <1>6, <1>9
    <3> QED BY <3>2, <3>3, <3>4 DEF Returned, Live
  <2> QED BY <2>1, <1>4, <1>9 DEF Delivered, Returned, Arriving
<1> QED BY <1>10, <1>15, <1>16, <1>17, <1>18 DEF OneLine

LEMMA SendBatchOne ==
    ASSUME NEW s, Senders = {s}, PassTypes, PassTypes', OneLine(s), SendBatch(s)
    PROVE  OneLine(s)'
<1> DEFINE l == list[s]
           m == Piece(l, next[s])
<1>1. s \in Procs /\ TypeOK /\ TypeOK' /\ Numbered(lists) /\ Streams(s) /\ pc[s] = "send"
  BY DEF Procs, PassTypes, OneLine, SendBatch
<1>2. PICK r \in Procs : r = peer[s] /\ r # s /\ Live(r)
  BY <1>1 DEF PassTypes, Sending, OneLine, Connected, SendBatch, Alive, Live
<1> DEFINE q == queue[r]
           w == v[r]
           R == returned[r]
<1>3. /\ Len(lists) \in 1..Len(lists) /\ l = lists[Len(lists)]
      /\ next[s] \in Nat /\ next[s] < Len(l)
      /\ m \in Messages /\ IsBatch(lists, m) /\ Of(m) = Len(lists) /\ From(m) = next[s]
      /\ To(m) = LastOf(s) /\ LastOf(s) \in Nat /\ LastOf(s) > next[s] /\ LastOf(s) <= Len(l)
      /\ Len(l) \in Nat
  BY <1>1, InHand, BatchType DEF LastOf, CutAt
<1>4. /\ queue' = [queue EXCEPT ![r] = Append(@, m)] /\ next' = [next EXCEPT ![s] = LastOf(s)]
      /\ stream' = stream /\ ready' = ready /\ path' = path /\ peer' = peer
      /\ list' = list /\ lists' = lists /\ v' = v /\ room' = room
      /\ returned' = returned /\ installed' = installed
  BY <1>2 DEF SendBatch, recvVars, Piece, BatchOf, LastOf, CutOff, CutAt
<1>5. \/ /\ LastOf(s) = Len(l) /\ pc' = [pc EXCEPT ![s] = "idle"]
         /\ complete' = complete \cup {l[1][1]}
      \/ LastOf(s) # Len(l) /\ pc' = pc /\ complete' = complete
  BY DEF SendBatch
<1>6. /\ pc'[s] \in {"idle", "send"} /\ \A p \in Procs \ {s} : pc'[p] = pc[p]
      /\ \A p \in Procs \ {r} : queue'[p] = queue[p]
      /\ queue'[r] = Append(q, m) /\ next'[s] = LastOf(s)
  BY <1>1, <1>2, <1>4, <1>5 DEF TypeOK
<1>7. /\ q \in Seq(Messages) /\ w \in Seq(Fds) /\ lists \in Seq(Seq(Fds)) /\ Filled(lists, R, w)
  BY <1>1, <1>2, Typed DEF OneLine
<1>8. Queued(lists, Append(q, m), R, w)
  BY <1>1, <1>2 DEF Streams, Coming
<1> HIDE DEF m, q, w, R, l
<1>9. /\ Below(R, Of(m)) /\ EndList(Append(q, m), w, Len(q) + 1) = Of(m)
      /\ EndAt(Append(q, m), w, Len(q) + 1) = To(m)
  <2>1. m \in Messages
    BY <1>3
  <2> QED BY <2>1, <1>7, <1>8, QueuedLess, LastEnd
<1>10. /\ Append(q, m) \in Seq(Messages) /\ Len(q) \in Nat /\ Len(Append(q, m)) = Len(q) + 1
       /\ \A i \in 1..Len(q) : Append(q, m)[i] = q[i]
       /\ Append(q, m)[Len(q) + 1] = m
  BY <1>3, <1>7, AppendProperties, LenProperties
<1>11. Streams(s)'
  <2>1. CASE LastOf(s) = Len(l)
    <3>1. pc'[s] = "idle"
      BY <2>1, <1>1, <1>5 DEF TypeOK
    <3>2. Coming(s)' = Append(q, m)
      BY <3>1, <1>2, <1>4, <1>6 DEF Coming, q
    <3>3. Whole(lists, Append(q, m), w, Len(Append(q, m)))
      <4>1. Of(m) # 0
        BY <1>3, SMT
      <4> QED BY <4>1, <2>1, <1>3, <1>9, <1>10 DEF Whole, SizeOf
    <3> QED BY <3>1, <3>2, <3>3, <1>2, <1>4, <1>8 DEF Streams, w, R
  <2>2. CASE LastOf(s) # Len(l)
    <3> DEFINE n == Piece(l, LastOf(s))
    <3>1. pc'[s] = "send"
      BY <2>2, <1>1, <1>5
    <3>2. Coming(s)' = Append(Append(q, m), n)
      BY <3>1, <1>2, <1>4, <1>6 DEF Coming, q, l
    <3>3. LastOf(s) < Len(l) /\ LastOf(s) # 0
      BY <2>2, <1>3, SMT
    <3>4. n \in Messages /\ IsBatch(lists, n) /\ Of(n) = Len(lists) /\ From(n) = LastOf(s)
      BY <3>3, <1>1, <1>3, <1>7, PieceIsBatch
    <3> HIDE DEF n
    <3>5. Follows(lists, Append(q, m), w, Len(Append(q, m)), Of(n), From(n))
      BY <3>3, <3>4, <1>3, <1>9, <1>10 DEF Follows
    <3>6. Queued(lists, Append(Append(q, m), n), R, w)
      BY <3>4, <3>5, <1>3, <1>7, <1>8, <1>9, <1>10, QueuedMore
    <3> QED BY <3>1, <3>2, <3>6, <1>1, <1>2, <1>4 DEF Streams, w, R
  <2> QED BY <2>1, <2>2
<1>12. Connected(s)'
  <2>1. \A p \in Procs : pc'[p] \in {"gone", "crashed"} <=> pc[p] \in {"gone", "crashed"}
    BY <1>1, <1>6
  <2>2. \A p \in Procs : pc'[p] = "gone" <=> pc[p] = "gone"
    BY <1>1, <1>6
  <2>3. \A p \in Procs : pc'[p] = "crashed" <=> pc[p] = "crashed"
    BY <1>1, <1>6
  <2> QED BY <2>2, <2>3, <1>2, <1>4, <1>6 DEF OneLine, Connected
<1>13. \A p \in Procs : Filled(lists', returned'[p], v'[p])
  BY <1>4 DEF OneLine
<1>14. ASSUME NEW p \in Procs PROVE Held(p)'
  <2>1. CASE p # s
    BY <2>1, <1>4, <1>6, HeldStays DEF OneLine
  <2>2. CASE p = s
    BY <2>2, <1>1, <1>4, <1>6 DEF OneLine, Held, Live, Owned, Vectors
  <2> QED BY <2>1, <2>2
<1>15. Delivered(s)'
  <2>1. /\ \A i \in 1..Len(q) : i \in 1..Len(queue'[r]) /\ queue'[r][i] = q[i]
        /\ Len(q) + 1 \in 1..Len(queue'[r]) /\ queue'[r][Len(q) + 1] = m
    BY <1>6, <1>10, SMT
  <2>2. ASSUME NEW k \in complete', lists[k] # <<>>
        PROVE  Returned(r, k) \/ Arriving(r, k)'
    <3>1. CASE k \in complete
      <4>1. Returned(r, k) \/ Arriving(r, k)
        BY <3>1, <2>2, <1>2 DEF OneLine, Delivered, Live
      <4> QED BY <4>1, <2>1, <1>4 DEF Arriving, q
    <3>2. CASE k \notin complete
      <4>1. k = l[1][1] /\ 1 \in 1..Len(l)
        BY <3>2, <2>2, <1>3, <1>5, SMT
      <4>2. l[1] = <<Len(lists), 1>>
        BY <4>1, <1>1, <1>3 DEF Numbered
      <4> QED BY <4>1, <4>2, <2>1, <1>3 DEF Arriving
    <3> QED BY <3>1, <3>2
  <2>3. Live(r)'
    BY <1>1, <1>2, <1>6 DEF Live
  <2> QED BY <2>2, <2>3, <1>2, <1>4 DEF Delivered, Returned
<1> QED BY <1>11, <1>12, <1>13, <1>14, <1>15 DEF OneLine

LEMMA SendThrowsOne ==
    ASSUME NEW s, Senders = {s}, PassTypes, PassTypes', OneLine(s), SendThrows(s), ~cut'
    PROVE  OneLine(s)'
<1>1. s \in Procs /\ TypeOK /\ Streams(s) /\ pc[s] = "send" /\ next[s] = 0
  <2>1. s \in Procs /\ TypeOK /\ Streams(s) /\ pc[s] = "send" /\ ~(next[s] > 0)
    BY DEF Procs, PassTypes, OneLine, SendThrows
  <2>2. next[s] \in Nat
    BY <2>1 DEF TypeOK
  <2> QED BY <2>1, <2>2, SMT
<1>2. PICK r \in Procs : r = peer[s] /\ r # s
  BY <1>1 DEF PassTypes, Sending, OneLine, Connected
<1>3. /\ pc' = [pc EXCEPT ![s] = "idle"]
      /\ stream' = stream /\ ready' = ready /\ path' = path /\ peer' = peer /\ queue' = queue
      /\ list' = list /\ lists' = lists /\ complete' = complete /\ v' = v /\ room' = room
      /\ returned' = returned /\ installed' = installed
  BY DEF SendThrows, recvVars, sendVars
<1>4. pc'[s] = "idle" /\ \A p \in Procs \ {s} : pc'[p] = pc[p]
  BY <1>1, <1>3 DEF TypeOK
<1>5. Streams(s)'
  <2>1. Coming(s)' = queue[r]
    BY <1>2, <1>3, <1>4 DEF Coming
  <2>2. Live(r)' => Live(r)
    BY <1>2, <1>4 DEF Live
  <2>3. Live(r) => /\ Queued(lists, queue[r], returned[r], v[r])
                   /\ Whole(lists, queue[r], v[r], Len(queue[r]))
    BY <1>1, <1>2, Unsent
  <2> QED BY <2>1, <2>2, <2>3, <1>2, <1>3, <1>4 DEF Streams
<1>6. Connected(s)'
  <2>1. \A p \in Procs : /\ pc'[p] = "gone" <=> pc[p] = "gone"
                         /\ pc'[p] = "crashed" <=> pc[p] = "crashed"
    BY <1>1, <1>4
  <2> QED BY <2>1, <1>2, <1>3 DEF OneLine, Connected
<1>7. \A p \in Procs : Filled(lists', returned'[p], v'[p])
  BY <1>3 DEF OneLine
<1>8. ASSUME NEW p \in Procs PROVE Held(p)'
  <2>1. CASE p # s
    BY <2>1, <1>3, <1>4, HeldStays DEF OneLine
  <2>2. CASE p = s
    BY <2>2, <1>1, <1>3, <1>4 DEF OneLine, Held, Live, Owned, Vectors
  <2> QED BY <2>1, <2>2
<1>9. Delivered(s)'
  BY <1>2, <1>3, <1>4 DEF OneLine, Delivered, Returned, Arriving, Live
<1> QED BY <1>5, <1>6, <1>7, <1>8, <1>9 DEF OneLine

LEMMA PreparesOne ==
    ASSUME NEW s, Senders = {s}, PassTypes, PassTypes', OneLine(s),
           NEW p \in Receivers, Prepares(p)
    PROVE  OneLine(s)'
<1>1. /\ s \in Procs /\ p \in Procs /\ Nobody \notin Procs /\ TypeOK
      /\ pc[p] \in {"idle", "bind"}
  BY PassAssumption, PreparesDoes DEF Procs, PassTypes
<1>2. /\ path' \in {path, Nobody}
      /\ pc' = [pc EXCEPT ![p] = "idle"] \/ pc' = [pc EXCEPT ![p] = "bind"]
      /\ stream' = stream /\ ready' = ready /\ peer' = peer /\ queue' = queue
      /\ list' = list /\ next' = next /\ lists' = lists /\ complete' = complete
      /\ v' = v /\ room' = room /\ returned' = returned /\ installed' = installed
  BY PreparesDoes DEF sendVars, recvVars
<1>3. pc'[p] \in {"idle", "bind"} /\ \A o \in Procs \ {p} : pc'[o] = pc[o]
  BY <1>1, <1>2 DEF TypeOK
<1>4. \A o \in Procs : /\ pc'[o] = "gone" <=> pc[o] = "gone"
                       /\ pc'[o] = "crashed" <=> pc[o] = "crashed"
                       /\ pc'[o] = "send" <=> pc[o] = "send"
  BY <1>1, <1>3
<1>5. Streams(s)'
  <2>1. Coming(s)' = Coming(s)
    BY <1>1, <1>2, <1>4 DEF Coming
  <2>2. \A o \in Procs : Live(o)' <=> Live(o)
    BY <1>4 DEF Live
  <2> QED BY <2>1, <2>2, <1>1, <1>2, <1>4 DEF OneLine, Streams
<1>6. Connected(s)'
  <2>1. ~ready'[s] => peer[s] = Nobody /\ path' # s
    BY <1>1, <1>2 DEF OneLine, Connected
  <2> QED BY <2>1, <1>2, <1>4 DEF OneLine, Connected
<1>7. \A o \in Procs : Filled(lists', returned'[o], v'[o])
  BY <1>2 DEF OneLine
<1>8. ASSUME NEW o \in Procs PROVE Held(o)'
  <2>1. CASE o # p
    BY <2>1, <1>2, <1>3, HeldStays DEF OneLine
  <2>2. CASE o = p
    BY <2>2, <1>1, <1>2, <1>3 DEF OneLine, Held, Live, Owned, Vectors
  <2> QED BY <2>1, <2>2
<1>9. Delivered(s)'
  BY <1>2, <1>4 DEF OneLine, Delivered, Returned, Arriving, Live
<1> QED BY <1>5, <1>6, <1>7, <1>8, <1>9 DEF OneLine

LEMMA BeginsOne ==
    ASSUME NEW s, Senders = {s}, PassTypes, PassTypes', OneLine(s),
           NEW p \in Receivers, Begins(p)
    PROVE  OneLine(s)'
<1>1. /\ s \in Procs /\ p \in Procs /\ Nobody \notin Procs /\ TypeOK
      /\ pc[p] \in {"idle", "bind"}
  BY PassAssumption, BeginsDoes DEF Procs, PassTypes
<1>2. /\ \/ ready[p] /\ path' = path /\ ready' = ready
         \/ path' = p /\ ready' = [ready EXCEPT ![p] = TRUE]
      /\ pc' = [pc EXCEPT ![p] = "recv"] /\ v' = [v EXCEPT ![p] = <<>>]
      /\ room' = [room EXCEPT ![p] = Batch]
      /\ stream' = stream /\ peer' = peer /\ queue' = queue /\ list' = list /\ next' = next
      /\ lists' = lists /\ complete' = complete
      /\ returned' = returned /\ installed' = installed
  BY BeginsDoes DEF sendVars
<1>3. v' = v
  <2>1. v[p] = <<>>
    BY <1>1 DEF OneLine, Held
  <2> QED BY <2>1, <1>1, <1>2 DEF TypeOK
<1>4. /\ pc'[p] = "recv" /\ room'[p] = Batch /\ ready'[p]
      /\ \A o \in Procs \ {p} : pc'[o] = pc[o] /\ room'[o] = room[o] /\ ready'[o] = ready[o]
  BY <1>1, <1>2 DEF TypeOK
<1>5. \A o \in Procs : /\ pc'[o] = "gone" <=> pc[o] = "gone"
                       /\ pc'[o] = "crashed" <=> pc[o] = "crashed"
                       /\ pc'[o] = "send" <=> pc[o] = "send"
  BY <1>1, <1>4
<1>6. Streams(s)'
  <2>1. Coming(s)' = Coming(s)
    BY <1>1, <1>2, <1>5 DEF Coming
  <2>2. \A o \in Procs : Live(o)' <=> Live(o)
    BY <1>5 DEF Live
  <2> QED BY <2>1, <2>2, <1>1, <1>2, <1>3, <1>5 DEF OneLine, Streams
<1>7. Connected(s)'
  <2>1. ready'[s] = (ready[s] \/ s = p) /\ (~ready'[s] => ~ready[s] /\ s # p)
    BY <1>1, <1>2 DEF TypeOK
  <2>2. ~ready'[s] => peer[s] = Nobody /\ path' # s
    BY <2>1, <1>2 DEF OneLine, Connected
  <2> QED BY <2>1, <2>2, <1>2, <1>3, <1>5 DEF OneLine, Connected
<1>8. \A o \in Procs : Filled(lists', returned'[o], v'[o])
  BY <1>2, <1>3 DEF OneLine
<1>9. ASSUME NEW o \in Procs PROVE Held(o)'
  <2>1. CASE o # p
    BY <2>1, <1>2, <1>3, <1>4, HeldStays DEF OneLine
  <2>2. CASE o = p
    <3>1. Batch >= Batch
      BY PassAssumption, SMT
    <3> QED BY <3>1, <2>2, <1>1, <1>2, <1>3, <1>4 DEF OneLine, Held, Live, Owned, Vectors
  <2> QED BY <2>1, <2>2
<1>10. Delivered(s)'
  BY <1>2, <1>3, <1>5 DEF OneLine, Delivered, Returned, Arriving, Live
<1> QED BY <1>6, <1>7, <1>8, <1>9, <1>10 DEF OneLine

LEMMA DieOne ==
    ASSUME NEW s, Senders = {s}, PassTypes, PassTypes', OneLine(s),
           NEW p \in Procs, Die(p), ~cut'
    PROVE  OneLine(s)'
<1>1. s \in Procs /\ TypeOK /\ Streams(s) /\ pc[p] \in {"idle", "send", "bind", "recv"}
  BY DEF Procs, PassTypes, OneLine, Die
<1>2. /\ pc' = [pc EXCEPT ![p] = "gone"] /\ queue' = [queue EXCEPT ![p] = <<>>]
      /\ installed' = [installed EXCEPT ![p] = {}]
      /\ stream' = stream /\ ready' = ready /\ path' = path /\ peer' = peer
      /\ list' = list /\ next' = next /\ lists' = lists /\ complete' = complete
      /\ v' = v /\ room' = room /\ returned' = returned
      /\ ~(pc[p] = "send" /\ next[p] > 0)
  BY DEF Die, sendVars
<1>3. /\ pc'[p] = "gone" /\ queue'[p] = <<>> /\ installed'[p] = {}
      /\ \A o \in Procs \ {p} :
            pc'[o] = pc[o] /\ queue'[o] = queue[o] /\ installed'[o] = installed[o]
  BY <1>1, <1>2 DEF TypeOK
<1>4. Streams(s)'
  <2>1. pc'[s] = "send" => pc[s] = "send" /\ p # s
    BY <1>1, <1>3
  <2>2. ASSUME peer[s] \in Procs, Live(peer[s])'
        PROVE  /\ Queued(lists, Coming(s)', returned[peer[s]], v[peer[s]])
               /\ pc'[s] # "send" => Whole(lists, Coming(s)', v[peer[s]], Len(Coming(s)'))
    <3>1. PICK r \in Procs : r = peer[s] /\ r # p /\ Live(r)
      BY <2>2, <1>2, <1>3 DEF Live
    <3>2. CASE p = s
      <4>1. pc[s] = "send" => next[s] = 0
        <5>1. next[s] \in Nat
          BY <1>1 DEF TypeOK
        <5> QED BY <5>1, <3>2, <1>2, SMT
      <4>2. /\ Queued(lists, queue[r], returned[r], v[r])
            /\ Whole(lists, queue[r], v[r], Len(queue[r]))
        BY <4>1, <3>1, <1>1, Unsent
      <4>3. Coming(s)' = queue[r]
        BY <3>1, <3>2, <1>2, <1>3 DEF Coming
      <4> QED BY <4>2, <4>3, <3>1
    <3>3. CASE p # s
      <4>1. Coming(s)' = Coming(s) /\ pc'[s] = pc[s]
        BY <3>1, <3>3, <1>1, <1>2, <1>3 DEF Coming
      <4> QED BY <4>1, <3>1, <1>1 DEF Streams
    <3> QED BY <3>2, <3>3
  <2> QED BY <2>1, <2>2, <1>1, <1>2 DEF Streams
<1>5. Connected(s)'
  <2>1. \A o \in Procs : /\ pc[o] = "gone" => pc'[o] = "gone"
                         /\ pc'[o] = "crashed" => pc[o] = "crashed"
                         /\ queue[o] = <<>> => queue'[o] = <<>>
    BY <1>1, <1>3
  <2> QED BY <2>1, <1>2 DEF OneLine, Connected
<1>6. \A o \in Procs : Filled(lists', returned'[o], v'[o])
  BY <1>2 DEF OneLine
<1>7. ASSUME NEW o \in Procs PROVE Held(o)'
  <2>1. CASE o # p
    BY <2>1, <1>2, <1>3, HeldStays DEF OneLine
  <2>2. CASE o = p
    BY <2>2, <1>3 DEF Held, Live
  <2> QED BY <2>1, <2>2
<1>8. Delivered(s)'
  BY <1>1, <1>2, <1>3 DEF OneLine, Delivered, Returned, Arriving, Live
<1> QED BY <1>4, <1>5, <1>6, <1>7, <1>8 DEF OneLine

LEMMA RecvFailsOne ==
    ASSUME NEW s, Senders = {s}, PassTypes, PassTypes', OneLine(s),
           NEW p \in Receivers, RecvFails(p), ~cut'
    PROVE  OneLine(s)'
<1>1. s \in Procs /\ p \in Procs /\ TypeOK /\ pc[p] = "recv" /\ v[p] = <<>>
  BY DEF Procs, PassTypes, RecvFails
<1>2. /\ pc' = [pc EXCEPT ![p] = "idle"] /\ v' = [v EXCEPT ![p] = <<>>]
      /\ installed' = [installed EXCEPT ![p] = @ \ Range(v[p])]
      /\ stream' = stream /\ ready' = ready /\ path' = path /\ peer' = peer /\ queue' = queue
      /\ list' = list /\ next' = next /\ lists' = lists /\ complete' = complete
      /\ room' = room /\ returned' = returned
  BY DEF RecvFails, sendVars
<1>3. v' = v /\ installed' = installed
  <2>1. Range(v[p]) = {}
    BY <1>1 DEF Range
  <2> QED BY <2>1, <1>1, <1>2 DEF TypeOK
<1>4. pc'[p] = "idle" /\ \A o \in Procs \ {p} : pc'[o] = pc[o]
  BY <1>1, <1>2 DEF TypeOK
<1>5. \A o \in Procs : /\ pc'[o] = "gone" <=> pc[o] = "gone"
                       /\ pc'[o] = "crashed" <=> pc[o] = "crashed"
                       /\ pc'[o] = "send" <=> pc[o] = "send"
  BY <1>1, <1>4
<1>6. Streams(s)'
  <2>1. Coming(s)' = Coming(s)
    BY <1>1, <1>2, <1>5 DEF Coming
  <2>2. \A o \in Procs : Live(o)' <=> Live(o)
    BY <1>5 DEF Live
  <2> QED BY <2>1, <2>2, <1>1, <1>2, <1>3, <1>5 DEF OneLine, Streams
<1>7. Connected(s)'
  BY <1>2, <1>3, <1>5 DEF OneLine, Connected
<1>8. \A o \in Procs : Filled(lists', returned'[o], v'[o])
  BY <1>2, <1>3 DEF OneLine
<1>9. ASSUME NEW o \in Procs PROVE Held(o)'
  <2>1. CASE o # p
    BY <2>1, <1>2, <1>3, <1>4, HeldStays DEF OneLine
  <2>2. CASE o = p
    BY <2>2, <1>1, <1>2, <1>3, <1>4 DEF OneLine, Held, Live, Owned, Vectors
  <2> QED BY <2>1, <2>2
<1>10. Delivered(s)'
  BY <1>2, <1>3, <1>5 DEF OneLine, Delivered, Returned, Arriving, Live
<1> QED BY <1>6, <1>7, <1>8, <1>9, <1>10 DEF OneLine

\* The end of the stream comes after everything that was sent.
LEMMA RecvEndsOne ==
    ASSUME NEW s, Senders = {s}, PassTypes, PassTypes', OneLine(s),
           NEW p \in Receivers, RecvEnds(p)
    PROVE  OneLine(s)'
<1>1. /\ s \in Procs /\ p \in Procs /\ Nobody \notin Procs /\ TypeOK
      /\ pc[p] = "recv" /\ stream /\ queue[p] = <<>>
      /\ peer[p] # Nobody /\ ~Alive(peer[p])
  BY PassAssumption DEF Procs, PassTypes, RecvEnds
<1>2. /\ stream' = stream /\ ready' = ready /\ path' = path /\ peer' = peer /\ queue' = queue
      /\ list' = list /\ next' = next /\ lists' = lists /\ complete' = complete
      /\ room' = room /\ v' = v
      /\ \/ /\ pc' = [pc EXCEPT ![p] = "crashed"]
            /\ installed' = [installed EXCEPT ![p] = {}] /\ returned' = returned
         \/ /\ v[p] = <<>> /\ pc' = [pc EXCEPT ![p] = "idle"] /\ installed' = installed
            /\ returned' = [returned EXCEPT ![p] = Append(@, <<>>)]
  BY DEF RecvEnds, sendVars
<1>3. /\ pc'[p] \in {"crashed", "idle"} /\ \A o \in Procs \ {p} : pc'[o] = pc[o]
  BY <1>1, <1>2 DEF TypeOK
<1>4. /\ peer[s] \in Procs /\ peer[s] # s /\ peer[peer[s]] = s
      /\ p = s \/ p = peer[s]
  <2>1. /\ peer[s] \in Procs /\ peer[s] # s /\ peer[peer[s]] = s
        /\ \A o \in Procs \ {s, peer[s]} : pc[o] = "gone"
    BY <1>1 DEF OneLine, Connected
  <2> QED BY <2>1, <1>1
<1>5. /\ p = s => pc[peer[s]] \in {"gone", "crashed"}
      /\ p = peer[s] => pc[s] \in {"gone", "crashed"}
  BY <1>1, <1>4 DEF Alive
\* What is returned is what was returned, and perhaps the empty vector.
<1>6. ASSUME NEW o \in Procs
      PROVE  /\ returned[o] \in Seq(Seq(Fds))
             /\ \/ returned'[o] = returned[o]
                \/ o = p /\ v[p] = <<>> /\ returned'[o] = Append(returned[o], <<>>)
  <2>1. returned[o] \in Seq(Seq(Fds))
    BY <1>1, Typed
  <2>2. \/ returned'[o] = returned[o]
        \/ o = p /\ v[p] = <<>> /\ returned'[o] = Append(returned[o], <<>>)
    BY <1>1, <1>2 DEF TypeOK
  <2> QED BY <2>1, <2>2
<1>7. ASSUME NEW o \in Procs
      PROVE  /\ Filled(lists, returned[o], v[o]) => Filled(lists, returned'[o], v[o])
             /\ Got(returned'[o]) = Got(returned[o])
             /\ \A k : Returned(o, k) => Returned(o, k)'
             /\ Owned(o)' = Owned(o)
  <2>1. CASE returned'[o] = returned[o]
    BY <2>1, <1>2 DEF Returned, Owned, Vectors
  <2>2. CASE o = p /\ v[p] = <<>> /\ returned'[o] = Append(returned[o], <<>>)
    <3>1. /\ Filled(lists, returned[o], v[o]) => Filled(lists, returned'[o], v[o])
          /\ Got(returned'[o]) = Got(returned[o])
          /\ \A i \in 1..Len(returned[o]) :
                i \in 1..Len(returned'[o]) /\ returned'[o][i] = returned[o][i]
      BY <2>2, <1>6, EmptyReturned
    <3>2. \A k : Returned(o, k) => Returned(o, k)'
      BY <3>1, <1>2 DEF Returned
    <3>3. Owned(o)' = Owned(o)
      <4>1. Owned(o) = OwnedBy(returned[o], <<>>)
        BY <2>2, OwnedIs
      <4>2. Owned(o)' = OwnedBy(Append(returned[o], <<>>), <<>>)
        BY <2>2, <1>2 DEF Owned, Vectors, OwnedBy
      <4> QED BY <4>1, <4>2, <1>6, EmptySeq, OwnedReturned
    <3> QED BY <3>1, <3>2, <3>3
  <2> QED BY <2>1, <2>2, <1>6
<1>8. \A o \in Procs : Filled(lists', returned'[o], v'[o])
  BY <1>2, <1>7 DEF OneLine
<1>9. ASSUME NEW o \in Procs PROVE Held(o)'
  <2>1. /\ Held(o) /\ v'[o] = v[o] /\ room'[o] = room[o] /\ Owned(o)' = Owned(o)
    BY <1>2, <1>7 DEF OneLine
  <2>2. CASE o # p
    <3>1. pc'[o] = pc[o] /\ installed'[o] = installed[o]
      BY <2>2, <1>1, <1>2, <1>3 DEF TypeOK
    <3> QED BY <2>1, <3>1 DEF Held, Live
  <2>3. CASE o = p
    <3>1. \/ pc'[o] = "crashed" /\ installed'[o] = {}
          \/ v[o] = <<>> /\ pc'[o] = "idle" /\ installed'[o] = installed[o]
      BY <2>3, <1>1, <1>2 DEF TypeOK
    <3> QED BY <2>1, <2>3, <3>1, <1>1 DEF Held, Live
  <2> QED BY <2>2, <2>3
<1>10. Streams(s)'
  <2>1. pc'[s] = "send" => pc[s] = "send" /\ s # p
    BY <1>1, <1>3
  <2>2. ~Live(peer[s])' \/ peer[s] = p
    BY <1>1, <1>2, <1>3, <1>4, <1>5 DEF Live
  <2>3. ASSUME peer[s] = p, Live(p)'
        PROVE  /\ pc'[s] # "send" /\ Coming(s)' = <<>> /\ v[p] = <<>>
    <3>1. pc'[p] # "crashed" /\ s # p /\ pc'[s] # "send"
      BY <2>3, <1>1, <1>3, <1>4, <1>5 DEF Live
    <3>2. v[p] = <<>>
      BY <3>1, <1>1, <1>2 DEF TypeOK
    <3>3. Coming(s)' = <<>>
      BY <3>1, <2>3, <1>1, <1>2 DEF Coming
    <3> QED BY <3>1, <3>2, <3>3
  <2> QED BY <2>1, <2>2, <2>3, <1>2, NothingComes DEF OneLine, Streams
<1>11. Connected(s)'
  <2>1. \A o \in Procs : /\ pc[o] = "gone" => pc'[o] = "gone"
    BY <1>1, <1>3
  <2> QED BY <2>1, <1>1, <1>2, <1>7 DEF OneLine, Connected
<1>12. Delivered(s)'
  <2>1. ASSUME NEW k \in complete, lists[k] # <<>>
        PROVE  \/ pc'[peer[s]] = "gone" \/ Returned(peer[s], k)'
               \/ Live(peer[s])' /\ Arriving(peer[s], k)'
    <3>1. \/ pc[peer[s]] = "gone" \/ Returned(peer[s], k)
          \/ Live(peer[s]) /\ Arriving(peer[s], k)
      BY <2>1 DEF OneLine, Delivered
    <3>2. CASE pc[peer[s]] = "gone"
      BY <3>2, <1>1, <1>3, <1>4
    <3>3. CASE Returned(peer[s], k)
      BY <3>3, <1>2, <1>4, <1>7 DEF Returned
    <3>4. CASE Live(peer[s]) /\ Arriving(peer[s], k)
      <4>1. PICK r \in Procs : r = peer[s] /\ Live(r) /\ Arriving(r, k)
        BY <3>4, <1>4
      <4>2. r = p
        BY <4>1, <1>4, <1>5 DEF Live
      <4>3. pc[s] # "send" /\ Coming(s) = <<>>
        BY <4>1, <4>2, <1>1, <1>5 DEF Coming
      <4>4. v[p] # <<>>
        <5>1. Len(<<>>) = 0 /\ 1..0 = {}
          BY EmptySeq, SMT
        <5> QED BY <5>1, <4>1, <4>2, <1>1 DEF Arriving
      <4>5. Whole(lists, <<>>, v[p], 0)
        <5>1. Len(<<>>) = 0
          BY EmptySeq
        <5> QED BY <5>1, <4>1, <4>2, <4>3 DEF OneLine, Streams
      <4>6. Len(v[p]) = SizeOf(lists, v[p][1][1])
        <5>1. ~(0 > 0)
          BY SMT
        <5> QED BY <5>1, <4>4, <4>5 DEF Whole, EndAt, EndList
      <4>7. /\ v[p][1][1] \in 1..Len(lists) /\ Len(v[p]) < Len(lists[v[p][1][1]])
        BY <4>4, <1>1 DEF OneLine, Filled
      <4>8. v[p][1][1] # 0 /\ Len(v[p]) \in Nat
        BY <4>7, <1>1, Typed, LenProperties, SMT
      <4>9. Len(v[p]) = Len(lists[v[p][1][1]])
        BY <4>6, <4>8 DEF SizeOf
      <4> QED BY <4>7, <4>8, <4>9, SMT
    <3> QED BY <3>1, <3>2, <3>3, <3>4
  <2> QED BY <2>1, <1>2, <1>4 DEF Delivered
<1> QED BY <1>8, <1>9, <1>10, <1>11, <1>12 DEF OneLine

\* As many descriptors are wrapped as the message brought, which are all it had.
LEMMA TakesAll ==
    ASSUME NEW f \in Seq(Fds), Len(f) \in 1..Batch, NEW p, room[p] \in Nat, room[p] >= Batch
    PROVE  Opened(p, f) = f /\ Wrapped(f, Len(f)) = f
<1>1. Len(f) \in Nat /\ f \in [1..Len(f) -> Fds] /\ Batch \in Nat
  BY LenProperties, PassAssumption
<1>2. (IF Len(f) < room[p] THEN Len(f) ELSE room[p]) = Len(f)
  BY <1>1, SMT
<1>3. Opened(p, f) = f
  BY <1>2, SubSeqFull DEF Opened
<1>4. \A i \in 1..Len(f) : i <= Len(f)
  BY <1>1, SMT
<1>5. Wrapped(f, Len(f)) = [i \in 1..Len(f) |-> f[i]]
  BY <1>4 DEF Wrapped
<1> QED BY <1>1, <1>3, <1>5

\* What one round of recv() does.
LEMMA RecvBatchDoes ==
    ASSUME NEW s, Senders = {s}, PassTypes, OneLine(s), NEW p \in Receivers, RecvBatch(p),
           NEW m, m = Head(queue[p]), NEW vec, vec = v[p] \o m.fds
    PROVE  /\ s \in Procs /\ p \in Procs /\ p = peer[s] /\ p # s /\ Live(p)
           /\ queue[p] \in Seq(Messages) /\ queue[p] # <<>>
           /\ Coming(s) \in Seq(Messages) /\ Coming(s) # <<>> /\ m = Head(Coming(s))
           /\ Coming(s)' = Tail(Coming(s)) /\ Queued(lists, Coming(s), returned[p], v[p])
           /\ Fits(lists, Coming(s), returned[p], v[p], m, vec)
           /\ installed' = [installed EXCEPT ![p] = @ \cup Range(m.fds)]
           /\ room' = [room EXCEPT ![p] = RoomAfter(Len(m.fds))]
           /\ \/ /\ To(m) # m.size /\ Len(m.fds) = Batch
                 /\ v' = [v EXCEPT ![p] = vec] /\ pc' = pc /\ returned' = returned
              \/ /\ To(m) = m.size /\ v' = [v EXCEPT ![p] = <<>>]
                 /\ returned' = [returned EXCEPT ![p] = Append(@, vec)]
                 /\ pc' = [pc EXCEPT ![p] = "idle"]
<1>1. /\ s \in Procs /\ p \in Procs /\ TypeOK /\ Streams(s) /\ Held(p)
      /\ Filled(lists, returned[p], v[p]) /\ pc[p] = "recv" /\ queue[p] # <<>>
  BY DEF Procs, PassTypes, OneLine, RecvBatch
<1>2. p = peer[s] /\ p # s /\ Live(p)
  BY <1>1 DEF OneLine, Connected, Live
<1>3. /\ queue[p] \in Seq(Messages) /\ v[p] \in Seq(Fds) /\ lists \in Seq(Seq(Fds))
  BY <1>1, Typed
<1>4. /\ queue' = [queue EXCEPT ![p] = Tail(@)]
      /\ stream' = stream /\ ready' = ready /\ path' = path /\ peer' = peer
      /\ list' = list /\ next' = next /\ lists' = lists /\ complete' = complete
  BY DEF RecvBatch, sendVars
<1>5. pc[s] = "send" => Piece(list[s], next[s]) \in Messages
  BY <1>1, InHand
<1>6. /\ Coming(s) \in Seq(Messages) /\ Coming(s) # <<>> /\ m = Head(Coming(s))
      /\ Tail(Coming(s)) = IF pc[s] = "send" THEN Append(Tail(queue[p]), Piece(list[s], next[s]))
                                             ELSE Tail(queue[p])
  <2>1. CASE pc[s] = "send"
    <3> DEFINE n == Piece(list[s], next[s])
               q == queue[p]
    <3>1. Coming(s) = Append(q, n) /\ n \in Messages /\ q \in Seq(Messages) /\ q # <<>>
      BY <2>1, <1>2, <1>3, <1>1, <1>5 DEF Coming
    <3> HIDE DEF n, q
    <3>2. /\ Append(q, n) \in Seq(Messages) /\ Append(q, n) # <<>>
          /\ Head(Append(q, n)) = Head(q) /\ Tail(Append(q, n)) = Append(Tail(q), n)
      BY <3>1, AppendProperties, HeadTailAppend
    <3> QED BY <3>1, <3>2, <2>1 DEF n, q
  <2>2. CASE pc[s] # "send"
    BY <2>2, <1>1, <1>2, <1>3 DEF Coming
  <2> QED BY <2>1, <2>2
<1>7. Queued(lists, Coming(s), returned[p], v[p])
  BY <1>1, <1>2 DEF Streams
<1>8. /\ Fits(lists, Coming(s), returned[p], v[p], m, vec)
      /\ m \in Messages /\ IsBatch(lists, m) /\ From(m) = Len(v[p])
      /\ vec \in Seq(Fds) /\ Len(vec) = To(m)
  <2>1. Fits(lists, Coming(s), returned[p], v[p], Head(Coming(s)), v[p] \o Head(Coming(s)).fds)
    BY <1>1, <1>3, <1>6, <1>7, HeadFits
  <2>2. Fits(lists, Coming(s), returned[p], v[p], m, vec)
    BY <2>1, <1>6
  <2> QED BY <2>2 DEF Fits
<1>9. /\ From(m) \in Nat /\ From(m) < m.size /\ m.size \in Nat /\ Len(m.fds) \in 1..Batch
      /\ Len(m.fds) = Take(m.size - From(m)) /\ (To(m) # m.size => Len(m.fds) = Batch)
  BY <1>3, <1>8, BatchFacts
<1>10. Opened(p, m.fds) = m.fds /\ Wrapped(m.fds, Len(m.fds)) = m.fds
  <2>1. m.fds \in Seq(Fds)
    BY <1>8 DEF Messages
  <2>2. room[p] \in 0..(Batch + 1) /\ room[p] >= Batch
    BY <1>1 DEF TypeOK, Held
  <2>3. room[p] \in Nat
    BY <2>2, PassAssumption, SMT
  <2> QED BY <2>1, <2>2, <2>3, <1>9, TakesAll
<1>11. m.size - Len(v[p]) >= 0 /\ Len(m.fds) = Take(m.size - Len(v[p]))
  BY <1>8, <1>9, SMT
<1>12. vec = v[p] \o Wrapped(Opened(p, m.fds), Take(m.size - Len(v[p])))
  BY <1>10, <1>11
<1>13. /\ installed' = [installed EXCEPT ![p] = @ \cup Range(m.fds)]
       /\ room' = [room EXCEPT ![p] = RoomAfter(Len(m.fds))]
       /\ \/ m.size - Len(v[p]) < 0
          \/ /\ ~Enough(vec, m.size) /\ v' = [v EXCEPT ![p] = vec]
             /\ UNCHANGED <<pc, returned>>
          \/ /\ Enough(vec, m.size) /\ v' = [v EXCEPT ![p] = <<>>]
             /\ returned' = [returned EXCEPT ![p] = Append(@, vec)]
             /\ pc' = [pc EXCEPT ![p] = "idle"]
  BY <1>10, <1>12 DEF RecvBatch
<1>14. ~(m.size - Len(v[p]) < 0)
  BY <1>8, <1>9, SMT
<1>15. Enough(vec, m.size) <=> To(m) = m.size
  BY <1>8 DEF Enough
<1>16. Coming(s)' = Tail(Coming(s))
  <2>1. queue'[p] = Tail(queue[p])
    BY <1>1, <1>4 DEF TypeOK
  <2>2. pc'[s] = pc[s]
    BY <1>1, <1>2, <1>13, <1>14 DEF TypeOK
  <2> QED BY <2>1, <2>2, <1>2, <1>4, <1>6 DEF Coming
<1> QED BY <1>1, <1>2, <1>3, <1>6, <1>7, <1>8, <1>9, <1>13, <1>14, <1>15, <1>16

LEMMA RecvBatchOne ==
    ASSUME NEW s, Senders = {s}, PassTypes, PassTypes', OneLine(s),
           NEW p \in Receivers, RecvBatch(p)
    PROVE  OneLine(s)'
<1> DEFINE q == Coming(s)
           w == v[p]
           R == returned[p]
           m == Head(queue[p])
           vec == w \o m.fds
<1>1. /\ s \in Procs /\ p \in Procs /\ p = peer[s] /\ p # s /\ Live(p)
      /\ queue[p] \in Seq(Messages) /\ queue[p] # <<>>
      /\ q \in Seq(Messages) /\ q # <<>> /\ m = Head(q)
      /\ Coming(s)' = Tail(q) /\ Queued(lists, q, R, w)
      /\ Fits(lists, q, R, w, m, vec)
      /\ installed' = [installed EXCEPT ![p] = @ \cup Range(m.fds)]
      /\ room' = [room EXCEPT ![p] = RoomAfter(Len(m.fds))]
      /\ \/ /\ To(m) # m.size /\ Len(m.fds) = Batch
            /\ v' = [v EXCEPT ![p] = vec] /\ pc' = pc /\ returned' = returned
         \/ /\ To(m) = m.size /\ v' = [v EXCEPT ![p] = <<>>]
            /\ returned' = [returned EXCEPT ![p] = Append(@, vec)]
            /\ pc' = [pc EXCEPT ![p] = "idle"]
  BY RecvBatchDoes
<1>2. /\ TypeOK /\ Numbered(lists) /\ Held(p) /\ Streams(s) /\ Filled(lists, R, w)
      /\ pc[p] = "recv" /\ w \in Seq(Fds) /\ R \in Seq(Seq(Fds)) /\ lists \in Seq(Seq(Fds))
  BY <1>1, Typed DEF PassTypes, OneLine, RecvBatch
<1>3. /\ queue' = [queue EXCEPT ![p] = Tail(@)]
      /\ stream' = stream /\ ready' = ready /\ path' = path /\ peer' = peer
      /\ list' = list /\ next' = next /\ lists' = lists /\ complete' = complete
  BY DEF RecvBatch, sendVars
<1>4. \A o \in Procs \ {p} :
          /\ pc'[o] = pc[o] /\ v'[o] = v[o] /\ room'[o] = room[o] /\ queue'[o] = queue[o]
          /\ installed'[o] = installed[o] /\ returned'[o] = returned[o]
  BY <1>1, <1>2, <1>3 DEF TypeOK
<1>5. /\ queue'[p] = Tail(queue[p]) /\ installed'[p] = installed[p] \cup Range(m.fds)
      /\ room'[p] = RoomAfter(Len(m.fds)) /\ Live(p)' /\ pc'[p] \in {"recv", "idle"}
      /\ \/ /\ To(m) # m.size /\ Len(m.fds) = Batch
            /\ v'[p] = vec /\ pc'[p] = "recv" /\ returned'[p] = R
         \/ /\ To(m) = m.size /\ v'[p] = <<>> /\ returned'[p] = Append(R, vec)
            /\ pc'[p] = "idle"
  BY <1>1, <1>2, <1>3 DEF TypeOK, Live
\* What recv() takes, by the two ways it goes on.
<1>6. /\ To(m) # m.size => Goes(lists, q, w, R, vec) /\ vec # <<>> /\ vec[1][1] = Of(m)
      /\ To(m) = m.size => Goes(lists, q, w, Append(R, vec), <<>>) /\ vec = lists[Of(m)]
      /\ m \in Messages /\ vec \in Seq(Fds) /\ (w # <<>> => w[1][1] = Of(m))
  <2>1. /\ lists \in Seq(Seq(Fds)) /\ Numbered(lists) /\ q \in Seq(Messages) /\ q # <<>>
        /\ R \in Seq(Seq(Fds)) /\ w \in Seq(Fds) /\ Filled(lists, R, w) /\ Queued(lists, q, R, w)
        /\ Fits(lists, q, R, w, m, vec)
    BY <1>1, <1>2
  <2> HIDE DEF q, w, R, m, vec
  <2>2. To(m) # m.size => Goes(lists, q, w, R, vec) /\ vec # <<>> /\ vec[1][1] = Of(m)
    BY <2>1, HeadPartly
  <2>3. To(m) = m.size => Goes(lists, q, w, Append(R, vec), <<>>) /\ vec = lists[Of(m)]
    BY <2>1, HeadWhole
  <2> QED BY <2>1, <2>2, <2>3 DEF Fits
<1>7. \A k : Arriving(p, k) =>
          \/ \E i \in 1..Len(Tail(queue[p])) : Of(Tail(queue[p])[i]) = k
          \/ k = Of(m)
  <2>1. /\ queue[p][1] = m /\ Len(queue[p]) \in Nat
        /\ Len(Tail(queue[p])) = Len(queue[p]) - 1
        /\ \A i \in 1..Len(Tail(queue[p])) : Tail(queue[p])[i] = queue[p][i + 1]
    BY <1>1, HeadTail
  <2>2. ASSUME NEW i \in 1..Len(queue[p])
        PROVE  \/ queue[p][i] = m
               \/ \E j \in 1..Len(Tail(queue[p])) : Tail(queue[p])[j] = queue[p][i]
    <3>1. CASE i = 1
      BY <3>1, <2>1
    <3>2. CASE i # 1
      <4>1. i - 1 \in 1..(Len(queue[p]) - 1) /\ (i - 1) + 1 = i
        BY <3>2, <2>1, SMT
      <4> QED BY <4>1, <2>1
    <3> QED BY <3>1, <3>2
  <2> QED BY <2>2, <2>1, <1>6 DEF Arriving
<1>8. Streams(s)'
  <2>1. pc'[s] = pc[s] /\ peer' = peer /\ list' = list /\ lists' = lists
    BY <1>1, <1>3, <1>4
  <2>2. pc[s] # "send" => Whole(lists, q, w, Len(q))
    BY <1>1, <1>2 DEF Streams
  <2>3. Goes(lists, q, w, returned'[p], v'[p])
    BY <1>5, <1>6
  <2>4. /\ Queued(lists, Tail(q), returned'[p], v'[p])
        /\ Whole(lists, q, w, Len(q)) => Whole(lists, Tail(q), v'[p], Len(Tail(q)))
    BY <2>3 DEF Goes
  <2>5. pc'[s] = "send" => list[s] = lists[Len(lists)]
    BY <2>1, <1>2 DEF Streams
  <2> QED BY <2>1, <2>2, <2>3, <2>4, <2>5, <1>1 DEF Streams
<1>9. Connected(s)'
  <2>1. \A o \in Procs : /\ pc'[o] = "gone" <=> pc[o] = "gone"
                         /\ pc'[o] = "crashed" <=> pc[o] = "crashed"
    BY <1>2, <1>4, <1>5
  <2>2. \A o \in Procs \ {p} : queue'[o] = <<>> /\ v'[o] = <<>> /\ Got(returned'[o]) = {}
    <3>1. \A o \in Procs \ {p} : queue[o] = <<>> /\ v[o] = <<>> /\ Got(returned[o]) = {}
      BY <1>1 DEF OneLine, Connected
    <3> QED BY <3>1, <1>4
  <2> HIDE DEF q, w, R, m, vec
  <2> QED BY <2>1, <2>2, <1>1, <1>3 DEF OneLine, Connected
<1>10. \A o \in Procs : Filled(lists', returned'[o], v'[o])
  <2>1. \A o \in Procs \ {p} : Filled(lists', returned'[o], v'[o])
    BY <1>3, <1>4 DEF OneLine
  <2>2. Filled(lists, returned'[p], v'[p])
    BY <1>5, <1>6 DEF Goes
  <2> QED BY <2>1, <2>2, <1>3
<1>11. ASSUME NEW o \in Procs PROVE Held(o)'
  <2>1. CASE o # p
    BY <2>1, <1>4, HeldStays DEF OneLine
  <2>2. CASE o = p
    <3>1. Owned(p)' = Owned(p) \cup Range(m.fds)
      <4>1. m.fds \in Seq(Fds)
        BY <1>6 DEF Messages
      <4>2. Owned(p) = OwnedBy(R, w) /\ OwnedBy(R, vec) = OwnedBy(R, w) \cup Range(m.fds)
        BY <4>1, <1>2, OwnedIs, OwnedMore
      <4>3. Owned(p)' = OwnedBy(returned'[p], v'[p])
        BY DEF Owned, Vectors, OwnedBy
      <4>4. OwnedBy(Append(R, vec), <<>>) = OwnedBy(R, vec)
        BY <1>2, <1>6, OwnedReturned
      <4> QED BY <4>2, <4>3, <4>4, <1>5
    <3>2. installed'[p] = Owned(p)'
      BY <3>1, <1>1, <1>2, <1>5 DEF Held
    <3>3. RoomAfter(Batch) >= Batch
      BY PassAssumption, SMT DEF RoomAfter
    <3> QED BY <2>2, <3>2, <3>3, <1>5 DEF Held
  <2> QED BY <2>1, <2>2
<1>12. Delivered(s)'
  <2>1. ASSUME NEW k \in complete, lists[k] # <<>>
        PROVE  Returned(p, k)' \/ Arriving(p, k)'
    <3>1. Returned(p, k) \/ Arriving(p, k)
      BY <2>1, <1>1 DEF OneLine, Delivered, Live
    <3>2. CASE Returned(p, k)
      <4>1. returned'[p] = R \/ returned'[p] = Append(R, vec)
        BY <1>5
      <4>2. \A i \in 1..Len(R) : i \in 1..Len(Append(R, vec)) /\ Append(R, vec)[i] = R[i]
        <5>1. /\ Len(R) \in Nat /\ Len(Append(R, vec)) = Len(R) + 1
              /\ \A i \in 1..Len(R) : Append(R, vec)[i] = R[i]
          BY <1>2, <1>6, LongerLists
        <5> QED BY <5>1, SMT
      <4> QED BY <3>2, <4>1, <4>2, <1>3 DEF Returned
    <3>3. CASE \E i \in 1..Len(Tail(queue[p])) : Of(Tail(queue[p])[i]) = k
      BY <3>3, <1>5 DEF Arriving
    <3>4. CASE k = Of(m)
      <4>1. CASE To(m) # m.size
        BY <4>1, <3>4, <1>5, <1>6 DEF Arriving
      <4>2. CASE To(m) = m.size
        <5>1. /\ Len(R) + 1 \in 1..Len(Append(R, vec)) /\ Append(R, vec)[Len(R) + 1] = vec
          <6>1. /\ Len(R) \in Nat /\ Len(Append(R, vec)) = Len(R) + 1
                /\ Append(R, vec)[Len(R) + 1] = vec
            BY <1>2, <1>6, LongerLists
          <6>2. Len(R) + 1 \in 1..(Len(R) + 1)
            BY <6>1, SMT
          <6> QED BY <6>1, <6>2
        <5> QED BY <5>1, <4>2, <3>4, <1>3, <1>5, <1>6 DEF Returned
      <4> QED BY <4>1, <4>2
    <3> QED BY <3>1, <3>2, <3>3, <3>4, <1>7
  <2> QED BY <2>1, <1>1, <1>3, <1>5 DEF Delivered
<1> QED BY <1>8, <1>9, <1>10, <1>11, <1>12 DEF OneLine

-----------------------------------------------------------------------------
\* WHAT FOLLOWS FROM IT

\* The vectors of a receiver hold different lists, each descriptor in its place.
LEMMA FilledOnce ==
    ASSUME TypeOK, Numbered(lists), NEW p \in Procs, Filled(lists, returned[p], v[p])
    PROVE  OwnedOnce(p)
<1> DEFINE R == returned[p]
           w == v[p]
           V == Append(R, w)
<1>1. R \in Seq(Seq(Fds)) /\ w \in Seq(Fds) /\ lists \in Seq(Seq(Fds)) /\ Len(lists) \in Nat
  BY Typed
<1>2. /\ Len(R) \in Nat /\ V \in Seq(Seq(Fds)) /\ Len(V) = Len(R) + 1 /\ V[Len(R) + 1] = w
      /\ \A i \in 1..Len(R) : V[i] = R[i]
  BY <1>1, LongerLists
<1>3. Filled(lists, R, w)
  OBVIOUS
<1> HIDE DEF V, R, w
<1>4. DOMAIN V = 1..(Len(R) + 1) /\ \A i \in 1..(Len(R) + 1) : V[i] \in Seq(Fds)
  BY <1>2, LenProperties, ElementOfSeq
<1>5. ASSUME NEW i \in 1..(Len(R) + 1), NEW a \in DOMAIN V[i]
      PROVE  /\ V[i][a] = <<V[i][1][1], a>> /\ V[i][1][1] \in Int /\ V[i] # <<>>
             /\ (i \in Got(R) \/ i = Len(R) + 1)
  <2>1. /\ Len(V[i]) \in Nat /\ a \in 1..Len(V[i])
    BY <1>4, <1>5, LenProperties
  <2>2. 1 \in 1..Len(V[i]) /\ V[i] # <<>>
    <3>1. Len(V[i]) # 0 /\ 1 \in 1..Len(V[i])
      BY <2>1, SMT
    <3> QED BY <3>1, EmptySeq
  <2>3. CASE i = Len(R) + 1
    <3>1. V[i] = w
      BY <2>3, <1>2
    <3>2. w[a] = <<w[1][1], a>> /\ w[1][1] \in 1..Len(lists)
      BY <3>1, <2>1, <2>2, <1>3 DEF Filled
    <3>3. w[1][1] \in Int
      BY <3>2, <1>1, SMT
    <3> QED BY <2>2, <2>3, <3>1, <3>2, <3>3
  <2>4. CASE i # Len(R) + 1
    <3>1. i \in 1..Len(R)
      BY <2>4, <1>2, NotLast
    <3>2. V[i] = R[i] /\ i \in Got(R)
      BY <3>1, <2>2, <1>2 DEF Got
    <3>3. PICK k \in 1..Len(lists) : R[i] = lists[k]
      BY <3>2, <1>3 DEF Filled
    <3>4. V[i][a] = <<k, a>> /\ V[i][1] = <<k, 1>>
      BY <3>2, <3>3, <2>1, <2>2 DEF Numbered
    <3>5. V[i][1][1] = k /\ k \in Int
      BY <3>4, <1>1, SMT
    <3> QED BY <3>2, <3>4, <3>5, <2>2
  <2> QED BY <2>3, <2>4
<1>6. ASSUME NEW i \in 1..(Len(R) + 1), NEW j \in 1..(Len(R) + 1), i < j,
             NEW a \in DOMAIN V[i], NEW b \in DOMAIN V[j]
      PROVE  V[i][1][1] < V[j][1][1]
  <2>1. i \in Got(R) /\ V[i] = R[i]
    <3>1. i # Len(R) + 1
      BY <1>2, <1>6, SMT
    <3>2. i \in Got(R)
      BY <3>1, <1>5
    <3> QED BY <3>2, <1>2 DEF Got
  <2>2. CASE j = Len(R) + 1
    <3>1. V[j] = w /\ w # <<>>
      BY <2>2, <1>2, <1>5
    <3> QED BY <3>1, <2>1, <1>3 DEF Filled, Below
  <2>3. CASE j # Len(R) + 1
    <3>1. j \in Got(R)
      BY <2>3, <1>5
    <3>2. V[j] = R[j]
      BY <3>1, <1>2 DEF Got
    <3> QED BY <3>1, <3>2, <2>1, <1>3, <1>6 DEF Filled
  <2> QED BY <2>2, <2>3
<1>7. ASSUME NEW i \in DOMAIN V, NEW j \in DOMAIN V,
             NEW a \in DOMAIN V[i], NEW b \in DOMAIN V[j], V[i][a] = V[j][b]
      PROVE  i = j /\ a = b
  <2>1. i \in 1..(Len(R) + 1) /\ j \in 1..(Len(R) + 1)
    BY <1>4
  <2>2. /\ V[i][a] = <<V[i][1][1], a>> /\ V[j][b] = <<V[j][1][1], b>>
        /\ V[i][1][1] \in Int /\ V[j][1][1] \in Int
    BY <2>1, <1>5
  <2>3. a = b /\ V[i][1][1] = V[j][1][1]
    BY <2>2, <1>7
  <2>4. ~(i < j) /\ ~(j < i)
    <3>1. ~(V[i][1][1] < V[j][1][1]) /\ ~(V[j][1][1] < V[i][1][1])
      BY <2>2, <2>3, SMT
    <3> QED BY <3>1, <2>1, <1>6
  <2>5. i = j
    BY <2>1, <2>4, <1>2, SMT
  <2> QED BY <2>3, <2>5
<1> QED BY <1>7 DEF OwnedOnce, Vectors, V, R, w

LEMMA PassInvInit == ASSUME NEW s, Senders = {s}, Init PROVE PassInv(s)
BY InitTypes, InitOneLine DEF PassInv

\* A call that was cut stays so.
LEMMA CutStays == ASSUME [Next]_vars, cut PROVE cut'
<1>1. CASE UNCHANGED vars
  BY <1>1 DEF vars
<1>2. CASE Next
  BY <1>2 DEF Next, SendStart, SendBatch, SendRefused, SendFails, SendThrows,
     RecvStart, RecvEnter, RecvBind, RecvBindFails, RecvBatch, RecvFails, RecvEnds, Die
<1> QED BY <1>1, <1>2

LEMMA PassInvStep ==
    ASSUME NEW s, Senders = {s}, PassInv(s), [Next]_vars
    PROVE  PassInv(s)'
<1>1. PassTypes /\ PassTypes'
  BY PassTypesStep DEF PassInv
<1>2. cut => cut'
  BY CutStays
<1>3. SUFFICES ASSUME ~cut' PROVE OneLine(s)'
  BY <1>1 DEF PassInv
<1>4. OneLine(s)
  BY <1>2, <1>3 DEF PassInv
<1>5. CASE UNCHANGED vars
  <2>1. UNCHANGED <<stream, pc, ready, path, peer, queue, list, next, lists, complete,
                    v, room, returned, installed>>
    BY <1>5 DEF vars, sendVars, recvVars
  <2>2. \A p \in Procs : Held(p)'
    BY <2>1, <1>4, HeldStays DEF OneLine
  <2>3. Coming(s)' = Coming(s)
    BY <2>1 DEF Coming
  <2>4. Streams(s)'
    BY <2>1, <2>3, <1>4 DEF OneLine, Streams, Live
  <2>5. Connected(s)'
    BY <2>1, <1>4 DEF OneLine, Connected
  <2>6. Delivered(s)'
    BY <2>1, <1>4 DEF OneLine, Delivered, Returned, Arriving, Live
  <2>7. \A p \in Procs : Filled(lists', returned'[p], v'[p])
    BY <2>1, <1>4 DEF OneLine
  <2> QED BY <2>2, <2>4, <2>5, <2>6, <2>7 DEF OneLine
<1>6. CASE \E p \in Senders : \/ \E c \in Counts : SendStart(p, c)
                              \/ SendBatch(p) \/ SendRefused(p) \/ SendFails(p)
  <2>1. \/ \E c \in Counts : SendStart(s, c)
        \/ SendBatch(s) \/ SendThrows(s)
    BY <1>6 DEF SendRefused, SendFails
  <2> QED BY <2>1, <1>1, <1>3, <1>4, SendStartOne, SendBatchOne, SendThrowsOne
<1>7. CASE \E p \in Receivers : \/ RecvStart(p) \/ RecvBind(p) \/ RecvBindFails(p)
                                \/ RecvBatch(p) \/ RecvFails(p) \/ RecvEnds(p)
  BY <1>7, <1>1, <1>3, <1>4, BeginsOrPrepares, BeginsOne, PreparesOne, RecvBatchOne,
     RecvFailsOne, RecvEndsOne
<1>8. CASE \E p \in Procs : Die(p)
  BY <1>8, <1>1, <1>3, <1>4, DieOne
<1> QED BY <1>5, <1>6, <1>7, <1>8 DEF Next

LEMMA PassInvImplies ==
    ASSUME NEW s, Senders = {s}, PassInv(s)
    PROVE  ListsIntact /\ NoLeak /\ NothingForeign
<1>1. SUFFICES ASSUME ~cut, NEW p \in Receivers
               PROVE  /\ LET got == {i \in DOMAIN returned[p] : returned[p][i] # <<>>} IN
                           /\ \A i \in got : returned[p][i] \in Range(lists)
                           /\ \A i, j \in got :
                                 i < j => returned[p][i][1][1] < returned[p][j][1][1]
                      /\ pc[p] # "undefined" /\ OwnedOnce(p)
                      /\ pc[p] = "crashed" /\ p \notin Senders =>
                            {lists[k] : k \in complete} \ {<<>>} \subseteq Range(returned[p])
                      /\ pc[p] \notin {"gone", "crashed"} => Owned(p) \subseteq installed[p]
                      /\ installed[p] \subseteq Owned(p)
  BY DEF ListsIntact, NoLeak, NothingForeign
<1>2. /\ p \in Procs /\ s \in Procs /\ TypeOK /\ Numbered(lists)
      /\ OneLine(s) /\ Filled(lists, returned[p], v[p]) /\ Held(p)
  BY <1>1 DEF PassInv, PassTypes, OneLine, Procs
<1>3. returned[p] \in Seq(Seq(Fds)) /\ lists \in Seq(Seq(Fds))
  BY <1>2, Typed
<1>4. DOMAIN returned[p] = 1..Len(returned[p]) /\ DOMAIN lists = 1..Len(lists)
  BY <1>3, LenProperties
<1>5. /\ \A i \in Got(returned[p]) : returned[p][i] \in Range(lists)
      /\ \A i, j \in Got(returned[p]) : i < j => returned[p][i][1][1] < returned[p][j][1][1]
  BY <1>2, <1>4 DEF Filled, Range
<1>6. {i \in DOMAIN returned[p] : returned[p][i] # <<>>} = Got(returned[p])
  BY <1>4 DEF Got
<1>7. pc[p] = "crashed" /\ p \notin Senders =>
        {lists[k] : k \in complete} \ {<<>>} \subseteq Range(returned[p])
  <2>1. SUFFICES ASSUME pc[p] = "crashed", p # s, NEW k \in complete, lists[k] # <<>>
                 PROVE  lists[k] \in Range(returned[p])
    OBVIOUS
  <2>2. p = peer[s]
    BY <2>1, <1>2 DEF OneLine, Connected
  <2>3. Returned(p, k)
    BY <2>1, <2>2, <1>2 DEF OneLine, Delivered, Live
  <2> QED BY <2>3, <1>4 DEF Returned, Range
<1>8. /\ pc[p] # "undefined" /\ installed[p] \subseteq Owned(p)
      /\ pc[p] \notin {"gone", "crashed"} => Owned(p) \subseteq installed[p]
  BY <1>2 DEF Held, Live
<1>9. OwnedOnce(p)
  BY <1>2, FilledOnce
<1> QED BY <1>5, <1>6, <1>7, <1>8, <1>9

\* fdpass.cpp: with one process sending, until a call fails in the middle of a list,
\* recv() returns the lists that were sent, whole and in their order, for lists,
\* batches and queues of any length and however many processes take the path over.
THEOREM PassListsIntact == ASSUME NEW s, Senders = {s} PROVE Spec => []ListsIntact
<1>1. Init => PassInv(s)
  BY PassInvInit
<1>2. PassInv(s) /\ [Next]_vars => PassInv(s)'
  BY PassInvStep
<1>3. PassInv(s) => ListsIntact
  BY PassInvImplies
<1> QED BY <1>1, <1>2, <1>3, PTL DEF Spec

\* fdpass.cpp: under the same conditions every descriptor recvmsg() opened in a
\* process is owned by an object that will close it.
THEOREM PassNoLeak == ASSUME NEW s, Senders = {s} PROVE Spec => []NoLeak
<1>1. Init => PassInv(s)
  BY PassInvInit
<1>2. PassInv(s) /\ [Next]_vars => PassInv(s)'
  BY PassInvStep
<1>3. PassInv(s) => NoLeak
  BY PassInvImplies
<1> QED BY <1>1, <1>2, <1>3, PTL DEF Spec

\* fdpass.cpp: and no object owns a number recvmsg() did not bring, or one another
\* object owns; the end of a stream does not overtake a list that was sent whole.
THEOREM PassNothingForeign == ASSUME NEW s, Senders = {s} PROVE Spec => []NothingForeign
<1>1. Init => PassInv(s)
  BY PassInvInit
<1>2. PassInv(s) /\ [Next]_vars => PassInv(s)'
  BY PassInvStep
<1>3. PassInv(s) => NothingForeign
  BY PassInvImplies
<1> QED BY <1>1, <1>2, <1>3, PTL DEF Spec

-----------------------------------------------------------------------------
\* THE CHANNEL

\* The last batch of a list is sent when send() returns.
LastPieces ==
    \A p \in Procs : \A i \in 1..Len(queue[p]) :
        To(queue[p][i]) = queue[p][i].size => Of(queue[p][i]) \in complete

LEMMA LastPiecesSend ==
    ASSUME PassTypes, LastPieces, NEW p \in Senders, SendBatch(p)
    PROVE  LastPieces'
<1> DEFINE l == list[p]
           m == Piece(l, next[p])
<1>1. /\ p \in Procs /\ TypeOK /\ Numbered(lists) /\ lists \in Seq(Seq(Fds))
      /\ pc[p] = "send" /\ next[p] \in Nat /\ next[p] < Len(l)
      /\ \E k \in 1..Len(lists) : l = lists[k]
  BY BatchType DEF PassTypes, Procs, Sending, SendBatch, TypeOK
<1>2. PICK r \in Procs : r = peer[p]
  BY <1>1 DEF PassTypes, Sending
<1>3. PICK k \in 1..Len(lists) : l = lists[k]
  BY <1>1
<1>4. /\ m \in Messages /\ m.size = Len(l) /\ Of(m) = k /\ To(m) = LastOf(p)
      /\ l[1][1] = k
  <2>1. /\ Piece(lists[k], next[p]) \in Messages
        /\ Of(Piece(lists[k], next[p])) = k
        /\ To(Piece(lists[k], next[p])) = CutAt(lists[k], next[p])
    BY <1>1, <1>3, PieceIsBatch
  <2>2. 1 \in 1..Len(l)
    <3>1. Len(l) \in Nat
      BY <1>1, BatchType
    <3> QED BY <3>1, <1>1, SMT
  <2>3. l[1] = <<k, 1>>
    BY <2>2, <1>1, <1>3 DEF Numbered
  <2> QED BY <2>1, <2>3, <1>3 DEF CutAt, LastOf, Piece
<1>5. /\ queue' = [queue EXCEPT ![r] = Append(@, m)]
      /\ \/ LastOf(p) = Len(l) /\ complete' = complete \cup {l[1][1]}
         \/ LastOf(p) # Len(l) /\ complete' = complete
  BY <1>2 DEF SendBatch, Piece, BatchOf, LastOf, CutOff, CutAt
<1> HIDE DEF m, l
<1>6. queue[r] \in Seq(Messages)
  BY <1>1, Typed
<1>7. /\ Len(queue[r]) \in Nat /\ Len(Append(queue[r], m)) = Len(queue[r]) + 1
      /\ \A i \in 1..Len(queue[r]) : Append(queue[r], m)[i] = queue[r][i]
      /\ Append(queue[r], m)[Len(queue[r]) + 1] = m
  BY <1>4, <1>6, AppendProperties, LenProperties
<1>8. queue'[r] = Append(queue[r], m) /\ \A q \in Procs \ {r} : queue'[q] = queue[q]
  BY <1>1, <1>5 DEF TypeOK
<1>9. ASSUME NEW q \in Procs, NEW i \in 1..Len(queue'[q]),
             To(queue'[q][i]) = queue'[q][i].size
      PROVE  Of(queue'[q][i]) \in complete'
  <2>1. CASE q = r /\ i = Len(queue[r]) + 1
    <3>1. queue'[q][i] = m
      BY <2>1, <1>7, <1>8
    <3> QED BY <3>1, <1>4, <1>5, <1>9
  <2>2. CASE q = r /\ i # Len(queue[r]) + 1
    <3>1. i \in 1..Len(queue[r])
      BY <2>2, <1>7, <1>8, <1>9, SMT
    <3> QED BY <3>1, <2>2, <1>5, <1>7, <1>8, <1>9 DEF LastPieces
  <2>3. CASE q # r
    BY <2>3, <1>5, <1>8, <1>9 DEF LastPieces
  <2> QED BY <2>1, <2>2, <2>3
<1> QED BY <1>9 DEF LastPieces

LEMMA LastPiecesStep ==
    ASSUME PassTypes, LastPieces, [Next]_vars
    PROVE  LastPieces'
<1>1. ASSUME queue' = queue, complete \subseteq complete' PROVE LastPieces'
  BY <1>1 DEF LastPieces
<1>2. CASE UNCHANGED vars
  BY <1>1, <1>2 DEF vars, sendVars
<1>3. ASSUME NEW p \in Senders, NEW c \in Counts, SendStart(p, c) PROVE LastPieces'
  <2>1. queue' = queue /\ complete \subseteq complete'
    BY <1>3 DEF SendStart
  <2> QED BY <2>1, <1>1
<1>4. ASSUME NEW p \in Senders, SendRefused(p) \/ SendFails(p) PROVE LastPieces'
  BY <1>1, <1>4 DEF SendRefused, SendFails, SendThrows, sendVars
<1>5. ASSUME NEW p \in Receivers,
             Begins(p) \/ Prepares(p) \/ RecvFails(p) \/ RecvEnds(p)
      PROVE  LastPieces'
  BY <1>1, <1>5, BeginsDoes, PreparesDoes DEF RecvFails, RecvEnds, sendVars
<1>6. ASSUME NEW p \in Receivers, RecvBatch(p) PROVE LastPieces'
  <2>1. /\ p \in Procs /\ queue[p] # <<>> /\ complete' = complete
        /\ queue' = [queue EXCEPT ![p] = Tail(@)] /\ queue[p] \in Seq(Messages)
    BY <1>6, Typed DEF Procs, PassTypes, RecvBatch, sendVars
  <2>2. \A i \in 1..Len(Tail(queue[p])) :
          i + 1 \in 1..Len(queue[p]) /\ Tail(queue[p])[i] = queue[p][i + 1]
    BY <2>1, HeadTail
  <2>3. queue'[p] = Tail(queue[p]) /\ \A q \in Procs \ {p} : queue'[q] = queue[q]
    BY <2>1 DEF PassTypes, TypeOK
  <2> QED BY <2>1, <2>2, <2>3 DEF LastPieces
<1>7. ASSUME NEW p \in Procs, Die(p) PROVE LastPieces'
  <2>1. /\ queue'[p] = <<>> /\ \A q \in Procs \ {p} : queue'[q] = queue[q]
        /\ complete' = complete
    BY <1>7 DEF PassTypes, TypeOK, Die, sendVars
  <2>2. 1..Len(<<>>) = {}
    BY EmptySeq, SMT
  <2> QED BY <2>1, <2>2 DEF LastPieces
<1>8. CASE Next
  BY <1>8, <1>3, <1>4, <1>5, <1>6, <1>7, LastPiecesSend, BeginsOrPrepares DEF Next
<1> QED BY <1>2, <1>8

\* What the processes that only receive have been given, and what they wait for.
Ends == Receivers \ Senders
Sent == {lists[k] : k \in complete} \ {<<>>}

\* A list is known by its number.
LEMMA SentNumbers ==
    ASSUME PassTypes
    PROVE  /\ \A l \in Sent : /\ l[1][1] \in complete /\ lists[l[1][1]] = l
                              /\ l[1][1] \in 1..Len(lists)
           /\ \A k \in complete : lists[k] # <<>> => lists[k][1][1] = k /\ lists[k] \in Sent
<1>1. /\ lists \in Seq(Seq(Fds)) /\ complete \subseteq 1..Len(lists) /\ Numbered(lists)
  BY DEF PassTypes, TypeOK
<1>2. ASSUME NEW k \in complete, lists[k] # <<>>
      PROVE  lists[k][1][1] = k /\ lists[k] \in Sent
  <2>1. k \in 1..Len(lists) /\ lists[k] \in Seq(Fds)
    BY <1>1, ElementOfSeq
  <2>2. 1 \in 1..Len(lists[k])
    <3>1. Len(lists[k]) \in Nat /\ Len(lists[k]) # 0
      BY <1>2, <2>1, LenProperties, EmptySeq
    <3> QED BY <3>1, SMT
  <2>3. lists[k][1] = <<k, 1>>
    BY <2>1, <2>2, <1>1 DEF Numbered
  <2> QED BY <2>3, <1>2 DEF Sent
<1>3. ASSUME NEW l \in Sent
      PROVE  l[1][1] \in complete /\ lists[l[1][1]] = l /\ l[1][1] \in 1..Len(lists)
  <2>1. PICK k \in complete : l = lists[k] /\ lists[k] # <<>>
    BY DEF Sent
  <2>2. l[1][1] = k
    BY <2>1, <1>2
  <2> QED BY <2>1, <2>2, <1>1
<1> QED BY <1>2, <1>3

\* Waiting is what was sent and has not been returned.
LEMMA StillWaiting ==
    ASSUME TypeOK
    PROVE  /\ Channel!Waiting = {l \in Sent : \A p \in Ends : l \notin Range(returned[p])}
           /\ \A p \in Ends : Range(returned[p]) = {returned[p][i] : i \in 1..Len(returned[p])}
<1>1. \A p \in Ends : Range(returned[p]) = {returned[p][i] : i \in 1..Len(returned[p])}
  <2>1. \A p \in Ends : DOMAIN returned[p] = 1..Len(returned[p])
    BY LenProperties DEF TypeOK, Ends, Procs
  <2> QED BY <2>1 DEF Range
<1>2. \A R : Channel!Range(R) = Range(R)
  BY DEF Channel!Range, Range
<1> QED BY <1>1, <1>2 DEF Channel!Waiting, Sent, Ends

LEMMA ChannelStays ==
    ASSUME Sent' = Sent, returned' = returned, cut' = cut
    PROVE  UNCHANGED Channel!channelVars
BY DEF Sent, Channel!channelVars

\* send() returns: its list is the last of those that were offered.
LEMMA OfferStep ==
    ASSUME NEW s, Senders = {s}, PassTypes, OneLine(s), SendBatch(s), ~cut'
    PROVE  [Channel!Next]_Channel!channelVars
<1> DEFINE l == list[s]
<1>1. /\ s \in Procs /\ pc[s] = "send" /\ Streams(s) /\ Len(lists) \in Nat
      /\ lists' = lists /\ returned' = returned /\ cut' = cut
  BY Typed DEF Procs, PassTypes, OneLine, SendBatch, recvVars
<1>2. /\ Len(lists) \in 1..Len(lists) /\ l = lists[Len(lists)]
      /\ l # <<>> /\ l[1][1] = Len(lists)
  <2>1. /\ Len(lists) \in 1..Len(lists) /\ l = lists[Len(lists)]
        /\ next[s] \in Nat /\ next[s] < Len(l)
    BY <1>1, InHand
  <2>2. Len(l) \in Nat
    BY <1>1, BatchType
  <2>3. 1 \in 1..Len(l) /\ Len(l) # 0
    BY <2>1, <2>2, SMT
  <2>4. l # <<>>
    BY <2>3, EmptySeq
  <2>5. l[1] = <<Len(lists), 1>>
    BY <2>1, <2>3 DEF PassTypes, Numbered
  <2> QED BY <2>1, <2>4, <2>5
<1>3. CASE complete' = complete
  <2>1. Sent' = Sent
    BY <1>1, <1>3 DEF Sent
  <2> QED BY <2>1, <1>1, ChannelStays
<1>4. CASE complete' = complete \cup {Len(lists)}
  <2>1. Sent' = Sent \cup {l}
    BY <1>1, <1>2, <1>4 DEF Sent
  <2>2. CASE l \in Sent
    <3>1. Sent' = Sent
      BY <2>1, <2>2
    <3> QED BY <3>1, <1>1, ChannelStays
  <2>3. CASE l \notin Sent
    <3>1. ASSUME NEW m \in Sent PROVE Channel!Before(m, l)
      <4>1. m[1][1] \in 1..Len(lists) /\ m[1][1] # Len(lists)
        BY <2>3, <1>2, SentNumbers
      <4>2. m[1][1] < Len(lists)
        BY <4>1, <1>1, SMT
      <4> QED BY <4>2, <1>2 DEF Channel!Before
    <3>2. Channel!Offer
      BY <3>1, <2>1, <2>3, <1>1 DEF Channel!Offer, Sent
    <3> QED BY <3>2 DEF Channel!Next
  <2> QED BY <2>2, <2>3
<1> QED BY <1>2, <1>3, <1>4 DEF SendBatch

\* A list of no descriptors is not offered to the channel.
LEMMA StartStep ==
    ASSUME PassTypes, NEW p \in Senders, NEW c \in Counts, SendStart(p, c)
    PROVE  UNCHANGED Channel!channelVars
<1> DEFINE x == [i \in 1..c |-> <<Len(lists) + 1, i>>]
<1>1. /\ c \in Nat /\ lists \in Seq(Seq(Fds)) /\ complete \subseteq 1..Len(lists)
      /\ returned' = returned /\ cut' = cut /\ lists' = Append(lists, x)
      /\ \/ c = 0 /\ complete' = complete \cup {Len(lists) + 1}
         \/ complete' = complete
  BY PassAssumption DEF PassTypes, TypeOK, SendStart, recvVars
<1>2. x \in Seq(Fds) /\ Len(x) = c /\ Len(lists) \in Nat
  <2>1. Len(lists) \in Nat /\ Len(lists) + 1 \in Nat
    BY <1>1, LenProperties, SMT
  <2> QED BY <2>1, <1>1, ListType
<1>3. c = 0 => x = <<>>
  BY <1>2, EmptySeq
<1> HIDE DEF x
<1>4. /\ \A k \in complete : Append(lists, x)[k] = lists[k]
      /\ Append(lists, x)[Len(lists) + 1] = x
  BY <1>1, <1>2, LongerLists
<1>5. Sent' = Sent
  BY <1>1, <1>3, <1>4 DEF Sent
<1> QED BY <1>1, <1>5, ChannelStays

\* recv() returns x, in a process that only receives, or in another one.
LEMMA GotReturns ==
    ASSUME TypeOK, NEW p \in Procs, NEW x, returned' = [returned EXCEPT ![p] = Append(@, x)],
           Sent' = Sent
    PROVE  /\ p \in Ends => Channel!Return(p, x)
           /\ p \notin Ends /\ cut' = cut => UNCHANGED Channel!channelVars
<1>1. returned'[p] = Append(returned[p], x) /\ \A q \in Procs \ {p} : returned'[q] = returned[q]
  BY DEF TypeOK
<1>2. Ends \subseteq Procs
  BY DEF Ends, Procs
<1>3. CASE p \in Ends
  BY <1>1, <1>2, <1>3 DEF Channel!Return, Ends, Sent
<1>4. CASE p \notin Ends
  BY <1>1, <1>2, <1>4 DEF Channel!channelVars, Ends, Sent
<1> QED BY <1>3, <1>4

\* A list that waits is on its way to the receiver while that is alive.
LEMMA WaitingArrives ==
    ASSUME NEW s, PassTypes, OneLine(s), NEW p \in Ends, p = peer[s], Live(p),
           NEW l \in Channel!Waiting
    PROVE  /\ l \in Sent /\ l = lists[l[1][1]] /\ l[1][1] \in 1..Len(lists)
           /\ Arriving(p, l[1][1])
<1>1. /\ TypeOK /\ l \in Sent /\ \A q \in Ends : l \notin Range(returned[q])
      /\ Range(returned[p]) = {returned[p][i] : i \in 1..Len(returned[p])}
  BY StillWaiting DEF PassTypes
<1>2. l[1][1] \in complete /\ lists[l[1][1]] = l /\ l[1][1] \in 1..Len(lists)
  BY <1>1, SentNumbers
<1>3. ~Returned(p, l[1][1])
  BY <1>1, <1>2 DEF Returned
<1>4. l # <<>>
  BY <1>1 DEF Sent
<1>5. Arriving(p, l[1][1])
  BY <1>2, <1>3, <1>4 DEF OneLine, Delivered, Live
<1> QED BY <1>1, <1>2, <1>5

\* A round of recv() that completes a list returns the next one.
LEMMA DeliverStep ==
    ASSUME NEW s, Senders = {s}, PassTypes, OneLine(s), LastPieces,
           NEW p \in Receivers, RecvBatch(p), ~cut'
    PROVE  [Channel!Next]_Channel!channelVars
<1> DEFINE q == Coming(s)
           w == v[p]
           R == returned[p]
           m == Head(queue[p])
           vec == w \o m.fds
<1>1. /\ s \in Procs /\ p \in Procs /\ p = peer[s] /\ p # s /\ Live(p)
      /\ queue[p] \in Seq(Messages) /\ queue[p] # <<>>
      /\ q \in Seq(Messages) /\ q # <<>> /\ m = Head(q)
      /\ Coming(s)' = Tail(q) /\ Queued(lists, q, R, w)
      /\ Fits(lists, q, R, w, m, vec)
      /\ installed' = [installed EXCEPT ![p] = @ \cup Range(m.fds)]
      /\ room' = [room EXCEPT ![p] = RoomAfter(Len(m.fds))]
      /\ \/ /\ To(m) # m.size /\ Len(m.fds) = Batch
            /\ v' = [v EXCEPT ![p] = vec] /\ pc' = pc /\ returned' = returned
         \/ /\ To(m) = m.size /\ v' = [v EXCEPT ![p] = <<>>]
            /\ returned' = [returned EXCEPT ![p] = Append(@, vec)]
            /\ pc' = [pc EXCEPT ![p] = "idle"]
  BY RecvBatchDoes
<1>2. /\ TypeOK /\ Numbered(lists) /\ Filled(lists, R, w)
      /\ w \in Seq(Fds) /\ R \in Seq(Seq(Fds)) /\ lists \in Seq(Seq(Fds))
      /\ lists' = lists /\ complete' = complete /\ cut' = cut /\ p \in Ends
  BY <1>1, Typed DEF PassTypes, OneLine, RecvBatch, sendVars, Ends
<1>3. Sent' = Sent
  BY <1>2 DEF Sent
<1>4. CASE returned' = returned
  BY <1>2, <1>3, <1>4, ChannelStays
<1>5. CASE To(m) = m.size /\ returned' = [returned EXCEPT ![p] = Append(@, vec)]
  <2>1. PICK x : x = vec
    OBVIOUS
  <2>2. /\ x = lists[Of(m)]
        /\ m \in Messages /\ IsBatch(lists, m) /\ Below(R, Of(m))
        /\ (w # <<>> => w[1][1] = Of(m)) /\ x \in Seq(Fds) /\ Len(x) = To(m)
        /\ 1 \in 1..Len(q) /\ q[1] = m
    <3>1. /\ lists \in Seq(Seq(Fds)) /\ Numbered(lists) /\ q \in Seq(Messages) /\ q # <<>>
          /\ R \in Seq(Seq(Fds)) /\ w \in Seq(Fds) /\ Filled(lists, R, w)
          /\ Queued(lists, q, R, w) /\ Fits(lists, q, R, w, m, vec) /\ To(m) = m.size
      BY <1>1, <1>2, <1>5
    <3> HIDE DEF q, w, R, m, vec
    <3>2. vec = lists[Of(m)]
      BY <3>1, HeadWhole
    <3> QED BY <2>1, <3>1, <3>2 DEF Fits
  <2>3. /\ Len(queue[p]) \in Nat /\ 1 \in 1..Len(queue[p]) /\ queue[p][1] = m
    BY <1>1, HeadTail
  <2> HIDE DEF q, w, R, m, vec
  <2>4. /\ Of(m) \in 1..Len(lists) /\ To(m) \in Nat /\ To(m) > From(m) /\ From(m) \in Nat
    BY <1>2, <2>2, BatchFacts
  <2>5. x # <<>>
    <3>1. Len(x) # 0
      BY <2>2, <2>4, SMT
    <3> QED BY <3>1, EmptySeq
  <2>6. Of(m) \in complete
    BY <1>1, <1>5, <2>3 DEF LastPieces
  <2>7. x \in Sent /\ x[1][1] = Of(m)
    BY <2>2, <2>5, <2>6, SentNumbers
  <2>8. ASSUME NEW o \in Ends PROVE x \notin Range(returned[o])
    <3>1. SUFFICES ASSUME x \in Range(returned[o]) PROVE FALSE
      OBVIOUS
    <3>2. PICK i \in 1..Len(returned[o]) : returned[o][i] = x
      <4>1. Range(returned[o]) = {returned[o][i] : i \in 1..Len(returned[o])}
        BY <1>2, StillWaiting
      <4> QED BY <3>1, <4>1
    <3>3. i \in Got(returned[o])
      BY <3>2, <2>5 DEF Got
    <3>4. CASE o = p
      <4>1. R[i][1][1] < Of(m)
        BY <3>3, <3>4, <2>2 DEF Below, R
      <4>2. R[i][1][1] = Of(m)
        BY <3>2, <3>4, <2>7 DEF R
      <4> QED BY <4>1, <4>2, <2>4, SMT
    <3>5. CASE o # p
      BY <3>3, <3>5, <1>1 DEF OneLine, Connected, Ends, Procs
    <3> QED BY <3>4, <3>5
  <2>9. x \in Channel!Waiting
    BY <2>7, <2>8, <1>2, StillWaiting
  <2>10. ASSUME NEW l \in Channel!Waiting \ {x} PROVE Channel!Before(x, l)
    <3> DEFINE k == l[1][1]
    <3>1. l \in Sent /\ l = lists[k] /\ k \in 1..Len(lists) /\ Arriving(p, k)
      BY <1>1, <1>2, WaitingArrives
    <3> HIDE DEF k
    <3>2. k # Of(m)
      BY <3>1, <2>2
    <3>3. ~(v[p] # <<>> /\ v[p][1][1] = k)
      BY <3>2, <2>2 DEF w
    <3>4. PICK i \in 1..Len(queue[p]) : Of(queue[p][i]) = k
      BY <3>1, <3>3 DEF Arriving
    <3>5. i \in 1..Len(q) /\ q[i] = queue[p][i]
      <4>1. CASE pc[s] # "send"
        BY <4>1, <1>1 DEF q, Coming
      <4>2. CASE pc[s] = "send"
        <5>1. /\ q = Append(queue[p], Piece(list[s], next[s]))
              /\ Piece(list[s], next[s]) \in Messages
          BY <4>2, <1>1, InHand DEF q, Coming, OneLine
        <5>2. /\ Len(q) = Len(queue[p]) + 1
              /\ \A j \in 1..Len(queue[p]) : q[j] = queue[p][j]
          BY <5>1, <1>1, AppendProperties
        <5>3. i \in 1..Len(q)
          BY <5>2, <2>3, SMT
        <5> QED BY <5>2, <5>3
      <4> QED BY <4>1, <4>2
    <3>6. i # 1
      BY <3>2, <3>4, <2>3
    <3>7. 1 < i
      BY <3>4, <3>6, <2>3, SMT
    <3>8. Of(m) <= k
      BY <3>4, <3>5, <3>7, <2>2, <1>1 DEF Queued
    <3>9. Of(m) < k
      BY <3>8, <3>2, <3>1, <2>4, SMT
    <3> QED BY <3>9, <2>7 DEF Channel!Before, k
  <2>11. Channel!Return(p, x)
    <3>1. returned' = [returned EXCEPT ![p] = Append(@, x)]
      BY <1>5, <2>1
    <3> QED BY <3>1, <1>1, <1>2, <1>3, GotReturns
  <2>12. Channel!Deliver
    BY <2>9, <2>10, <2>11, <1>2 DEF Channel!Deliver, Ends
  <2> QED BY <2>12, <1>2 DEF Channel!Next
<1> QED BY <1>1, <1>4, <1>5

\* The end of a stream is found when no list waits.
LEMMA EndStep ==
    ASSUME NEW s, Senders = {s}, PassTypes, OneLine(s),
           NEW p \in Receivers, RecvEnds(p), ~cut'
    PROVE  [Channel!Next]_Channel!channelVars
<1>1. /\ s \in Procs /\ p \in Procs /\ TypeOK /\ pc[p] = "recv" /\ queue[p] = <<>>
      /\ lists' = lists /\ complete' = complete /\ cut' = cut
  BY DEF Procs, PassTypes, RecvEnds, sendVars
<1>2. Sent' = Sent
  BY <1>1 DEF Sent
<1>3. \/ returned' = returned
      \/ v[p] = <<>> /\ returned' = [returned EXCEPT ![p] = Append(@, <<>>)]
  BY DEF RecvEnds
<1>4. CASE returned' = returned
  BY <1>1, <1>2, <1>4, ChannelStays
<1>5. CASE v[p] = <<>> /\ returned' = [returned EXCEPT ![p] = Append(@, <<>>)]
  <2>1. CASE p \notin Ends
    BY <2>1, <1>1, <1>2, <1>5, GotReturns
  <2>2. CASE p \in Ends
    <3>1. p # s /\ Live(p)
      BY <2>2, <1>1 DEF Ends, Live
    <3>2. p = peer[s]
      <4>1. stream /\ pc[p] # "gone"
        BY <1>1 DEF RecvEnds
      <4> QED BY <4>1, <3>1, <1>1 DEF OneLine, Connected
    <3>3. ASSUME NEW l \in Channel!Waiting PROVE FALSE
      <4>1. Arriving(p, l[1][1])
        BY <2>2, <3>1, <3>2, WaitingArrives
      <4>2. 1..Len(<<>>) = {}
        BY EmptySeq, SMT
      <4> QED BY <4>1, <4>2, <1>1, <1>5 DEF Arriving
    <3>4. Channel!Waiting = {}
      BY <3>3
    <3>5. Channel!Return(p, <<>>)
      BY <2>2, <1>1, <1>2, <1>5, GotReturns
    <3>6. Channel!End
      BY <2>2, <3>4, <3>5 DEF Channel!End, Ends
    <3> QED BY <3>6, <1>1 DEF Channel!Next
  <2> QED BY <2>1, <2>2
<1> QED BY <1>3, <1>4, <1>5

\* Every step of fdpass is one of the channel, or none.
LEMMA ChannelStep ==
    ASSUME NEW s, Senders = {s}, PassInv(s), LastPieces, [Next]_vars
    PROVE  [Channel!Next]_Channel!channelVars
<1>1. CASE cut'
  <2>1. cut' = TRUE
    BY <1>1, PassTypesStep DEF PassInv, PassTypes, TypeOK
  <2> QED BY <2>1 DEF Channel!Next, Channel!Break
<1>2. CASE ~cut' /\ UNCHANGED vars
  <2>1. Sent' = Sent /\ returned' = returned /\ cut' = cut
    BY <1>2 DEF vars, sendVars, recvVars, Sent
  <2> QED BY <2>1, ChannelStays
<1>3. CASE ~cut' /\ Next
  <2>1. PassTypes /\ OneLine(s)
    BY <1>3, CutStays DEF PassInv
  <2>2. ASSUME NEW p \in Senders, \E c \in Counts : SendStart(p, c)
        PROVE  [Channel!Next]_Channel!channelVars
    BY <2>1, <2>2, StartStep
  <2>3. ASSUME NEW p \in Senders, SendBatch(p) PROVE [Channel!Next]_Channel!channelVars
    BY <2>1, <2>3, <1>3, OfferStep
  <2>4. ASSUME NEW p \in Receivers, RecvBatch(p) PROVE [Channel!Next]_Channel!channelVars
    BY <2>1, <2>4, <1>3, DeliverStep
  <2>5. ASSUME NEW p \in Receivers, RecvEnds(p) PROVE [Channel!Next]_Channel!channelVars
    BY <2>1, <2>5, <1>3, EndStep
  <2>6. ASSUME \/ \E p \in Senders : SendRefused(p) \/ SendFails(p)
               \/ \E p \in Receivers : Begins(p) \/ Prepares(p) \/ RecvFails(p)
               \/ \E p \in Procs : Die(p)
        PROVE  UNCHANGED Channel!channelVars
    <3>1. lists' = lists /\ complete' = complete /\ returned' = returned
      BY <2>6, BeginsDoes, PreparesDoes DEF SendRefused, SendFails, SendThrows, RecvFails,
         Die, sendVars, recvVars
    <3>2. Sent' = Sent
      BY <3>1 DEF Sent
    <3>3. cut' = cut
      BY <2>1, <1>3, CutStays, PassTypesStep DEF PassTypes, TypeOK
    <3> QED BY <3>1, <3>2, <3>3, ChannelStays
  <2> QED BY <1>3, <2>2, <2>3, <2>4, <2>5, <2>6, BeginsOrPrepares DEF Next
<1> QED BY <1>1, <1>2, <1>3

\* fdpass.cpp: with one process sending, until a call fails in the middle of a list,
\* fdpass is a FIFO of lists: recv() returns what send() was given, whole and in its
\* turn, leaves none out and finds the end of a stream behind the last of them.
THEOREM PassImplementsChannel == ASSUME NEW s, Senders = {s} PROVE Spec => ImplementsChannel
<1>1. Init => PassInv(s) /\ LastPieces /\ Channel!Init
  <2>1. SUFFICES ASSUME Init PROVE LastPieces /\ Channel!Init
    BY PassInvInit
  <2>2. /\ queue = [p \in Procs |-> <<>>] /\ returned = [p \in Procs |-> <<>>]
        /\ complete = {} /\ cut = FALSE
    BY <2>1 DEF Init
  <2>3. 1..Len(<<>>) = {}
    BY EmptySeq, SMT
  <2>4. LastPieces
    BY <2>2, <2>3 DEF LastPieces
  <2>5. Channel!Init
    BY <2>2 DEF Channel!Init, Procs
  <2> QED BY <2>4, <2>5
<1>2. PassInv(s) /\ LastPieces /\ [Next]_vars => PassInv(s)' /\ LastPieces'
  BY PassInvStep, LastPiecesStep DEF PassInv
<1>3. PassInv(s) /\ LastPieces /\ [Next]_vars => [Channel!Next]_Channel!channelVars
  BY ChannelStep
<1> QED BY <1>1, <1>2, <1>3, PTL DEF Spec, ImplementsChannel, Channel!Spec

\* fdpass.cpp: a list whose send() has returned is with the receiver, in whole or in
\* parts, or in its queue, for as long as the receiver lives.
THEOREM PassNothingLost == ASSUME NEW s, Senders = {s} PROVE Spec => [](~cut => Delivered(s))
<1>1. Init => PassInv(s)
  BY PassInvInit
<1>2. PassInv(s) /\ [Next]_vars => PassInv(s)'
  BY PassInvStep
<1>3. PassInv(s) => (~cut => Delivered(s))
  BY DEF PassInv, OneLine
<1> QED BY <1>1, <1>2, <1>3, PTL DEF Spec
=============================================================================
