------------------------ MODULE StringInput_proofs -------------------------
(***************************************************************************)
(* Proofs about the input half of buffered_socket: first values alone, for *)
(* buffers, values and streams of any size (BufferedInput), then strings   *)
(* and values extracted from one buffer (StringInput).                     *)
(*                                                                         *)
(* Values: the indexes stay inside the buffer, the bytes of the stream are *)
(* consumed in order until a call is cut short, and no byte recv()         *)
(* returned is dropped between two calls.                                  *)
(*                                                                         *)
(* Strings: once a string has been measured whole, its '\0' stays where    *)
(* strlen() saw it while the loop takes the string apart; and until a call *)
(* is cut short, or a string measured that is not whole, everything proved *)
(* of values holds of both.                                                *)
(***************************************************************************)
EXTENDS StringInput, SequenceTheorems, TLAPS

-----------------------------------------------------------------------------
\* The rest of the buffer are the stream's next bytes.
Buffered == \A a \in rd..(size - 1) : mem[a] = Len(read) + 1 + (a - rd)

\* What the application has read, what is in the buffer, or has been copied from
\* there and received behind it, and what recv() has returned, fit together.
InStep ==
    /\ \A i \in 1..Len(read) : read[i] = i
    /\ Buffered
    /\ pc = "idle" => taken = Len(read) + (size - rd)
    /\ pc = "waitall" =>
          /\ taken = Len(read) + Len(dst)
          /\ size - rd <= Len(dst)
          /\ \A i \in 1..Len(dst) : dst[i] = Len(read) + i

InTypes == TypeOK /\ (pc = "waitall" => Len(dst) < req)

InInv == InTypes /\ (~short => InStep)

-----------------------------------------------------------------------------
\* LEMMAS

\* A function over 1..m is a sequence of m elements.
LEMMA Numbered ==
    ASSUME NEW m \in Nat, NEW f \in [1..m -> Nat]
    PROVE  f \in Seq(Nat) /\ Len(f) = m
<1>1. f \in Seq(Nat)
  BY SMT
<1> QED BY <1>1, LenProperties, SMT

\* Joining a sequence to another: its length and its elements.
LEMMA Joined ==
    ASSUME NEW t \in Seq(Nat), NEW u \in Seq(Nat)
    PROVE  /\ t \o u \in Seq(Nat)
           /\ Len(t \o u) = Len(t) + Len(u)
           /\ \A i \in 1..Len(t) : (t \o u)[i] = t[i]
           /\ \A i \in 1..Len(u) : (t \o u)[Len(t) + i] = u[i]
<1>1. /\ t \o u \in Seq(Nat)
      /\ Len(t \o u) = Len(t) + Len(u)
      /\ \A i \in 1..(Len(t) + Len(u)) :
            (t \o u)[i] = IF i <= Len(t) THEN t[i] ELSE u[i - Len(t)]
  BY ConcatProperties
<1>2. Len(t) \in Nat /\ Len(u) \in Nat
  BY LenProperties
<1>3. ASSUME NEW i \in 1..Len(t) PROVE (t \o u)[i] = t[i]
  BY <1>1, <1>2, SMT
<1>4. ASSUME NEW i \in 1..Len(u) PROVE (t \o u)[Len(t) + i] = u[i]
  <2>1. /\ Len(t) + i \in 1..(Len(t) + Len(u)) /\ ~(Len(t) + i <= Len(t))
        /\ (Len(t) + i) - Len(t) = i
    BY <1>2, SMT
  <2> QED BY <1>1, <2>1
<1> QED BY <1>1, <1>3, <1>4

\* If t counts the stream to its end and u goes on, t \o u counts on.
LEMMA CountsOn ==
    ASSUME NEW t \in Seq(Nat), NEW u \in Seq(Nat), NEW b \in Nat,
           \A i \in 1..Len(t) : t[i] = b + i,
           \A i \in 1..Len(u) : u[i] = b + Len(t) + i
    PROVE  /\ t \o u \in Seq(Nat) /\ Len(t \o u) = Len(t) + Len(u)
           /\ \A i \in 1..Len(t \o u) : (t \o u)[i] = b + i
<1>1. /\ t \o u \in Seq(Nat) /\ Len(t \o u) = Len(t) + Len(u)
      /\ \A i \in 1..Len(t) : (t \o u)[i] = t[i]
      /\ \A i \in 1..Len(u) : (t \o u)[Len(t) + i] = u[i]
  BY Joined
<1>2. Len(t) \in Nat /\ Len(u) \in Nat
  BY LenProperties
<1>3. ASSUME NEW i \in 1..(Len(t) + Len(u)) PROVE (t \o u)[i] = b + i
  <2>1. CASE i <= Len(t)
    <3>1. i \in 1..Len(t)
      BY <2>1, <1>2, SMT
    <3> QED BY <3>1, <1>1
  <2>2. CASE i > Len(t)
    <3> DEFINE j == i - Len(t)
    <3>1. j \in 1..Len(u) /\ Len(t) + j = i /\ b + Len(t) + j = b + i
      BY <2>2, <1>2, SMT
    <3> HIDE DEF j
    <3> QED BY <3>1, <1>1
  <2> QED BY <2>1, <2>2, <1>2, SMT
<1> QED BY <1>1, <1>3

\* Copy() of m bytes that are in the buffer.
LEMMA Copied ==
    ASSUME InAssumption, NEW M \in [Memory -> Nat], NEW a \in Nat, NEW m \in Nat,
           a + m <= InCapacity
    PROVE  /\ Copy(M, a, m) \in Seq(Nat) /\ Len(Copy(M, a, m)) = m
           /\ \A i \in 1..m : Copy(M, a, m)[i] = M[a + i - 1]
<1>1. ASSUME NEW i \in 1..m PROVE M[a + i - 1] \in Nat
  <2>1. a + i - 1 \in Memory
    BY SMT DEF Memory, InAssumption
  <2> QED BY <2>1
<1>2. Copy(M, a, m) \in [1..m -> Nat]
  BY <1>1 DEF Copy
<1>3. Copy(M, a, m) \in Seq(Nat) /\ Len(Copy(M, a, m)) = m
  BY <1>2, Numbered
<1>4. \A i \in 1..m : Copy(M, a, m)[i] = M[a + i - 1]
  BY DEF Copy
<1> QED BY <1>3, <1>4

\* recv_if_possible() appends within the capacity.
LEMMA ReceivedTypes ==
    ASSUME InAssumption, arrived \in Nat, taken \in 0..arrived, size \in 0..InCapacity,
           mem \in [Memory -> Nat], NEW k \in Nat, Receivable(k)
    PROVE  /\ size + k \in 0..InCapacity /\ taken + k \in 0..arrived
           /\ Received(k) \in [Memory -> Nat]
           /\ \A a \in 0..(size - 1) : Received(k)[a] = mem[a]
           /\ \A a \in size..(size + k - 1) : Received(k)[a] = taken + (a - size) + 1
<1>1. size + k \in 0..InCapacity /\ taken + k \in 0..arrived
  BY SMT DEF Receivable, Pending, InAssumption
<1>2. ASSUME NEW a \in Memory
      PROVE  (IF a \in size..(size + k - 1) THEN taken + (a - size) + 1 ELSE mem[a]) \in Nat
  <2>1. a \in size..(size + k - 1) => taken + (a - size) + 1 \in Nat
    BY SMT
  <2>2. mem[a] \in Nat
    OBVIOUS
  <2> QED BY <2>1, <2>2
<1>3. Received(k) \in [Memory -> Nat]
  BY <1>2 DEF Received
<1>4. ASSUME NEW a \in 0..(size + k - 1)
      PROVE  Received(k)[a] = IF a \in size..(size + k - 1) THEN taken + (a - size) + 1 ELSE mem[a]
  <2>1. a \in Memory
    BY <1>1, SMT DEF Memory, InAssumption
  <2> QED BY <2>1 DEF Received
<1>5. ASSUME NEW a \in 0..(size - 1) PROVE Received(k)[a] = mem[a]
  <2>1. a \in 0..(size + k - 1) /\ a \notin size..(size + k - 1)
    BY SMT
  <2> QED BY <2>1, <1>4
<1>6. ASSUME NEW a \in size..(size + k - 1) PROVE Received(k)[a] = taken + (a - size) + 1
  <2>1. a \in 0..(size + k - 1)
    BY SMT
  <2> QED BY <2>1, <1>4
<1> QED BY <1>1, <1>3, <1>5, <1>6

\* What is in the buffer after recv_if_possible() are the stream's next bytes.
LEMMA ReceivedInStep ==
    ASSUME InAssumption, TypeOK, InStep, pc = "idle", NEW k \in Nat, Receivable(k)
    PROVE  /\ taken + k = Len(read) + (size + k - rd)
           /\ \A a \in rd..(size + k - 1) : Received(k)[a] = Len(read) + 1 + (a - rd)
<1>1. /\ arrived \in Nat /\ taken \in 0..arrived /\ size \in 0..InCapacity /\ rd \in 0..size
      /\ mem \in [Memory -> Nat] /\ Len(read) \in Nat
  BY LenProperties, SMT DEF TypeOK, InAssumption
<1>2. /\ \A a \in 0..(size - 1) : Received(k)[a] = mem[a]
      /\ \A a \in size..(size + k - 1) : Received(k)[a] = taken + (a - size) + 1
  BY <1>1, ReceivedTypes
<1>3. taken = Len(read) + (size - rd)
  BY DEF InStep
<1>4. taken + k = Len(read) + (size + k - rd)
  BY <1>1, <1>3, SMT
<1>5. ASSUME NEW a \in rd..(size + k - 1) PROVE Received(k)[a] = Len(read) + 1 + (a - rd)
  <2>1. CASE a < size
    <3>1. a \in 0..(size - 1) /\ a \in rd..(size - 1)
      BY <2>1, <1>1, SMT
    <3> QED BY <3>1, <1>2 DEF InStep, Buffered
  <2>2. CASE a >= size
    <3>1. a \in size..(size + k - 1) /\ taken + (a - size) + 1 = Len(read) + 1 + (a - rd)
      BY <2>2, <1>1, <1>3, SMT
    <3> QED BY <3>1, <1>2
  <2> QED BY <2>1, <2>2, <1>1, SMT
<1> QED BY <1>4, <1>5

\* m bytes of memory, from address a on, are the stream's bytes behind the b-th.
NextBytes(M, a, m, b) == \A z \in a..(a + m - 1) : M[z] = b + 1 + (z - a)

\* A value, or the beginning of one, copied out of the buffer.
LEMMA CopiedInStep ==
    ASSUME InAssumption, NEW M \in [Memory -> Nat], NEW a \in Nat, NEW m \in Nat,
           a + m <= InCapacity, NEW b \in Nat,
           NextBytes(M, a, m, b)
    PROVE  \A i \in 1..m : Copy(M, a, m)[i] = b + i
<1>1. ASSUME NEW i \in 1..m PROVE Copy(M, a, m)[i] = b + i
  <2>1. Copy(M, a, m)[i] = M[a + i - 1]
    BY Copied
  <2>2. a + i - 1 \in a..(a + m - 1) /\ b + 1 + (a + i - 1 - a) = b + i
    BY SMT
  <2> QED BY <2>1, <2>2 DEF NextBytes
<1> QED BY <1>1

-----------------------------------------------------------------------------
\* STEPS

\* operator>> of a value of s bytes, until it returns or waits.
LEMMA ReadKeeps ==
    ASSUME InAssumption, InInv, NEW s \in Nat \ {0}, NEW k \in Nat, ReadInputBuffer(s, k)
    PROVE  InInv'
<1>1. /\ Start(s, k) /\ pc = "idle" /\ Receivable(k) /\ mem' = Received(k) /\ taken' = taken + k
      /\ arrived' = arrived /\ ended' = ended /\ short' = short /\ failures' = failures
  BY DEF ReadInputBuffer, Local, Exact, Block, Start, peerVars
<1>2. /\ arrived \in 0..MaxBytes /\ arrived \in Nat /\ taken \in 0..arrived
      /\ ended \in BOOLEAN /\ short \in BOOLEAN /\ failures \in 0..MaxFailures
      /\ size \in 0..InCapacity /\ size \in Nat /\ rd \in 0..size /\ rd \in Nat
      /\ mem \in [Memory -> Nat] /\ req \in Nat /\ dst \in Seq(Nat)
      /\ read \in Seq(Nat) /\ Len(read) \in Nat /\ TypeOK /\ InCapacity \in Nat
  BY LenProperties, SMT DEF InInv, InTypes, TypeOK, InAssumption
<1>3. /\ size + k \in 0..InCapacity /\ taken' \in 0..arrived'
      /\ mem' \in [Memory -> Nat]
  BY <1>1, <1>2, ReceivedTypes
<1>m. mem' \in [Memory -> Nat] /\ rd \in Nat /\ Len(read) \in Nat
  BY <1>2, <1>3
<1>4. ASSUME ~short
      PROVE  /\ taken' = Len(read) + (size + k - rd)
             /\ \A a \in rd..(size + k - 1) : mem'[a] = Len(read) + 1 + (a - rd)
             /\ \A i \in 1..Len(read) : read[i] = i
  BY <1>1, <1>2, <1>4, ReceivedInStep DEF InInv, InStep
<1> DEFINE c == Copy(mem', rd, s)
<1>5. ASSUME rd + s <= size + k
      PROVE  /\ rd + s <= InCapacity /\ c \in Seq(Nat) /\ Len(c) = s
             /\ read \o c \in Seq(Nat) /\ Len(read \o c) = Len(read) + s
  <2>1. rd + s <= InCapacity /\ s \in Nat
    BY <1>5, <1>2, <1>3, SMT
  <2>2. c \in Seq(Nat) /\ Len(c) = s
    BY <2>1, <1>2, <1>3, Copied
  <2> HIDE DEF c
  <2>3. read \o c \in Seq(Nat) /\ Len(read \o c) = Len(read) + s
    BY <2>2, <1>2, Joined
  <2> QED BY <2>1, <2>2, <2>3
<1>6. ASSUME rd + s <= size + k, ~short
      PROVE  \A i \in 1..Len(read \o c) : (read \o c)[i] = i
  <2>1. rd + s <= InCapacity /\ s \in Nat /\ c \in Seq(Nat) /\ Len(c) = s
    BY <1>5, <1>6
  <2>2. NextBytes(mem', rd, s, Len(read))
    <3>1. ASSUME NEW z \in rd..(rd + s - 1) PROVE mem'[z] = Len(read) + 1 + (z - rd)
      <4>1. z \in rd..(size + k - 1)
        BY <1>6, <1>2, <1>3, SMT
      <4> QED BY <4>1, <1>4, <1>6
    <3> QED BY <3>1 DEF NextBytes
  <2>3. \A i \in 1..Len(c) : c[i] = Len(read) + i
    <3>0. s \in Nat /\ rd + s <= InCapacity
      BY <2>1
    <3>1. \A i \in 1..s : Copy(mem', rd, s)[i] = Len(read) + i
      BY <3>0, <2>2, <1>m, CopiedInStep
    <3> QED BY <3>1, <2>1
  <2>4. \A i \in 1..Len(read) : read[i] = 0 + i
    BY <1>4, <1>6, <1>2, SMT
  <2>5. \A i \in 1..Len(c) : c[i] = 0 + Len(read) + i
    BY <2>3, <1>2, SMT
  <2>6. \A i \in 1..Len(read \o c) : (read \o c)[i] = 0 + i
    <3> HIDE DEF c
    <3>1. 0 \in Nat /\ Len(c) \in Nat
      BY <2>1
    <3> QED BY <3>1, <2>1, <2>4, <2>5, <1>2, CountsOn
  <2>7. Len(read \o c) \in Nat
    BY <1>5, <1>6, <1>2, LenProperties
  <2> QED BY <2>6, <2>7, SMT
<1>7. CASE Local(s, k)
  <2> HIDE DEF c
  <2>1. /\ rd + s < size + k /\ read' = read \o c /\ rd' = rd + s /\ size' = size + k
        /\ pc' = pc /\ req' = req /\ dst' = dst
    BY <1>7 DEF Local, c
  <2>2. rd + s <= size + k /\ rd' \in 0..size' /\ size' \in 0..InCapacity
    BY <2>1, <1>2, <1>3, SMT
  <2>3. TypeOK'
    BY <2>1, <2>2, <1>1, <1>2, <1>3, <1>5 DEF TypeOK
  <2>4. ASSUME ~short PROVE InStep'
    <3>1. /\ Len(read') = Len(read) + s
          /\ \A i \in 1..Len(read') : read'[i] = i
      BY <2>1, <2>2, <2>4, <1>5, <1>6
    <3>2. taken' = Len(read') + (size' - rd')
      BY <3>1, <2>1, <2>4, <1>2, <1>4, SMT
    <3>3. ASSUME NEW a \in rd'..(size' - 1) PROVE mem'[a] = Len(read') + 1 + (a - rd')
      <4>1. a \in rd..(size + k - 1)
            /\ Len(read) + 1 + (a - rd) = Len(read') + 1 + (a - rd')
        BY <3>1, <2>1, <1>2, SMT
      <4> QED BY <4>1, <1>4, <2>4
    <3> QED BY <3>1, <3>2, <3>3, <2>1, <1>1 DEF InStep, Buffered
  <2> QED BY <2>1, <2>3, <2>4, <1>1 DEF InInv, InTypes
<1>8. CASE Exact(s, k)
  <2> HIDE DEF c
  <2>1. /\ rd + s = size + k /\ read' = read \o c /\ rd' = 0 /\ size' = 0
        /\ pc' = pc /\ req' = req /\ dst' = dst
    BY <1>8 DEF Exact, c
  <2>2. rd + s <= size + k /\ rd' \in 0..size' /\ size' \in 0..InCapacity
    BY <2>1, <1>2, <1>3, SMT
  <2>3. TypeOK'
    BY <2>1, <2>2, <1>1, <1>2, <1>3, <1>5 DEF TypeOK
  <2>4. ASSUME ~short PROVE InStep'
    <3>1. /\ Len(read') = Len(read) + s
          /\ \A i \in 1..Len(read') : read'[i] = i
      BY <2>1, <2>2, <2>4, <1>5, <1>6
    <3>2. taken' = Len(read') + (size' - rd')
      <4>1. taken' = Len(read) + (size + k - rd) /\ size' - rd' = 0
        BY <2>1, <2>4, <1>4, SMT
      <4>2. size + k - rd = s
        BY <2>1, <1>2, SMT
      <4>3. taken' = Len(read) + s /\ Len(read') + (size' - rd') = Len(read) + s
        BY <3>1, <4>1, <4>2, <1>m, SMT
      <4> QED BY <4>3
    <3>3. Buffered'
      BY <2>1, SMT DEF Buffered
    <3> QED BY <3>1, <3>2, <3>3, <2>1, <1>1 DEF InStep
  <2> QED BY <2>1, <2>3, <2>4, <1>1 DEF InInv, InTypes
<1>9. CASE Block(s, k)
  <2> DEFINE m == size + k - rd
  <2>1. /\ rd + s > size + k /\ dst' = Copy(mem', rd, m) /\ pc' = "waitall" /\ req' = s
        /\ size' = size + k /\ rd' = rd /\ read' = read
    BY <1>9 DEF Block
  <2>2. m \in Nat /\ m < s /\ rd + m <= InCapacity /\ rd + m - 1 = size + k - 1
        /\ rd' \in 0..size' /\ size' \in 0..InCapacity /\ size' - rd' = m
    BY <2>1, <1>2, <1>3, SMT
  <2> HIDE DEF m
  <2>3. dst' \in Seq(Nat) /\ Len(dst') = m
    <3>1. Copy(mem', rd, m) \in Seq(Nat) /\ Len(Copy(mem', rd, m)) = m
      BY <2>2, <1>m, Copied
    <3> QED BY <3>1, <2>1
  <2>4. TypeOK' /\ Len(dst') < req'
    BY <2>1, <2>2, <2>3, <1>1, <1>2, <1>3 DEF TypeOK
  <2>5. ASSUME ~short PROVE InStep'
    <3>1. NextBytes(mem', rd, m, Len(read))
      BY <2>2, <2>5, <1>4 DEF NextBytes
    <3>2. \A i \in 1..m : Copy(mem', rd, m)[i] = Len(read) + i
      BY <3>1, <2>2, <1>m, CopiedInStep
    <3>3. \A i \in 1..Len(dst') : dst'[i] = Len(read') + i
      BY <3>2, <2>1, <2>3
    <3>4. taken' = Len(read') + Len(dst') /\ size' - rd' <= Len(dst')
      <4>1. taken' = Len(read) + m
        BY <2>5, <1>4 DEF m
      <4> QED BY <4>1, <2>1, <2>2, <2>3, <1>2, SMT
    <3>5. Buffered'
      <4>1. \A a \in rd..(size + k - 1) : mem'[a] = Len(read) + 1 + (a - rd)
        BY <2>5, <1>4
      <4>2. rd' = rd /\ size' = size + k /\ read' = read
        BY <2>1
      <4>3. ASSUME NEW a \in rd'..(size' - 1) PROVE mem'[a] = Len(read') + 1 + (a - rd')
        <5>1. a \in rd..(size + k - 1)
          BY <4>2, <1>2, SMT
        <5>2. mem'[a] = Len(read) + 1 + (a - rd)
          BY <5>1, <4>1
        <5> QED BY <5>2, <4>2
      <4> QED BY <4>3 DEF Buffered
    <3>6. \A i \in 1..Len(read') : read'[i] = i
      BY <2>1, <2>5, <1>4
    <3> QED BY <3>3, <3>4, <3>5, <3>6, <2>1 DEF InStep
  <2> QED BY <2>1, <2>4, <2>5, <1>1 DEF InInv, InTypes
<1> QED BY <1>7, <1>8, <1>9 DEF ReadInputBuffer

\* k more bytes from recv(MSG_WAITALL).
LEMMA ContinuedInStep ==
    ASSUME InInv, NEW k \in Nat, Wait(k)
    PROVE  /\ Continued(k) \in Seq(Nat) /\ Len(Continued(k)) = Len(dst) + k
           /\ taken' \in 0..arrived'
           /\ ~short => /\ taken' = Len(read) + (Len(dst) + k)
                        /\ \A i \in 1..Len(Continued(k)) : Continued(k)[i] = Len(read) + i
<1> DEFINE u == [i \in 1..k |-> taken + i]
<1>1. /\ taken \in Nat /\ arrived \in Nat /\ dst \in Seq(Nat) /\ Len(dst) \in Nat
      /\ Len(read) \in Nat /\ pc = "waitall"
  BY LenProperties, SMT DEF InInv, InTypes, TypeOK, Wait
<1>2. u \in Seq(Nat) /\ Len(u) = k /\ \A i \in 1..k : u[i] = taken + i
  <2>1. u \in [1..k -> Nat]
    BY <1>1, SMT
  <2>2. \A i \in 1..k : u[i] = taken + i
    OBVIOUS
  <2> HIDE DEF u
  <2> QED BY <2>1, <2>2, Numbered
<1>3. Continued(k) = dst \o u
  BY DEF Continued
<1> HIDE DEF u
<1>4. Continued(k) \in Seq(Nat) /\ Len(Continued(k)) = Len(dst) + k
  BY <1>1, <1>2, <1>3, Joined
<1>5. taken' = taken + k /\ taken' \in 0..arrived'
  BY <1>1, SMT DEF Wait, Pending, peerVars
<1>6. ASSUME ~short
      PROVE  /\ taken' = Len(read) + (Len(dst) + k)
             /\ \A i \in 1..Len(Continued(k)) : Continued(k)[i] = Len(read) + i
  <2>1. /\ taken = Len(read) + Len(dst)
        /\ \A i \in 1..Len(dst) : dst[i] = Len(read) + i
    BY <1>1, <1>6 DEF InInv, InStep
  <2>2. \A i \in 1..Len(u) : u[i] = Len(read) + Len(dst) + i
    BY <2>1, <1>2
  <2>3. \A i \in 1..Len(dst \o u) : (dst \o u)[i] = Len(read) + i
    BY <2>1, <2>2, <1>1, <1>2, CountsOn
  <2> QED BY <2>1, <2>3, <1>1, <1>3, <1>5, SMT
<1> QED BY <1>4, <1>5, <1>6

\* What the application has read, it keeps.
LEMMA ReadGrows ==
    ASSUME InAssumption, InInv, InInv', NEW s \in Nat \ {0}, NEW k \in Nat, ~short',
           ReadInputBuffer(s, k) \/ Resume
    PROVE  Len(read) <= Len(read')
<1>1. /\ read \in Seq(Nat) /\ Len(read) \in Nat /\ dst \in Seq(Nat) /\ taken \in Nat
      /\ rd \in Nat /\ size \in Nat /\ InCapacity \in Nat /\ mem' \in [Memory -> Nat]
      /\ rd' \in 0..size' /\ size' \in 0..InCapacity
  BY LenProperties, SMT DEF InInv, InTypes, TypeOK, InAssumption
<1>2. ASSUME NEW c \in Seq(Nat), read' = read \o c PROVE Len(read) <= Len(read')
  <2>1. Len(c) \in Nat /\ Len(read') = Len(read) + Len(c)
    BY <1>1, <1>2, Joined, LenProperties
  <2> QED BY <2>1, <1>1, SMT
<1>3. ASSUME read' = read PROVE Len(read) <= Len(read')
  BY <1>1, <1>3, SMT
<1>4. CASE Local(s, k) \/ Exact(s, k)
  <2>1. read' = read \o Copy(mem', rd, s) /\ s \in Nat
    BY <1>4 DEF Local, Exact
  <2>2. size + k <= InCapacity
    BY <1>1, <1>4, SMT DEF Local, Exact, Start, Receivable, InInv, InTypes, TypeOK
  <2>3. rd + s <= size + k
    BY <1>1, <1>4, SMT DEF Local, Exact
  <2>4. rd + s <= InCapacity
    BY <2>1, <2>2, <2>3, <1>1, SMT
  <2>5. Copy(mem', rd, s) \in Seq(Nat)
    BY <2>1, <2>4, <1>1, Copied
  <2> QED BY <2>1, <2>5, <1>2
<1>5. CASE Block(s, k)
  BY <1>5, <1>3 DEF Block
<1>6. ASSUME NEW m \in 1..MaxBytes, WaitSome(m) PROVE Len(read) <= Len(read')
  BY <1>6, <1>3 DEF WaitSome
<1>7. ASSUME NEW m \in 1..MaxBytes, WaitDone(m) PROVE Len(read) <= Len(read')
  <2>1. read' = read \o Continued(m) /\ Wait(m) /\ m \in Nat
    BY <1>7, SMT DEF WaitDone, Return, InAssumption
  <2>2. Continued(m) \in Seq(Nat)
    BY <2>1, ContinuedInStep
  <2> QED BY <2>1, <2>2, <1>2
<1>8. ASSUME NEW j \in Junk, WaitCut(j) PROVE FALSE
  BY <1>8 DEF WaitCut
<1> QED BY <1>4, <1>5, <1>6, <1>7, <1>8 DEF ReadInputBuffer, Resume

\* The call that waits goes on, returns, or is cut short.
LEMMA ResumeKeeps ==
    ASSUME InAssumption, InInv, Resume
    PROVE  InInv'
<1>1. /\ TypeOK /\ read \in Seq(Nat) /\ Len(read) \in Nat /\ dst \in Seq(Nat) /\ Len(dst) \in Nat
      /\ taken \in Nat /\ arrived \in Nat /\ size \in Nat /\ rd \in Nat /\ rd \in 0..size
      /\ req \in Nat
  BY LenProperties, SMT DEF InInv, InTypes, TypeOK
<1>2. ASSUME NEW k \in 1..MaxBytes, WaitSome(k) PROVE InInv'
  <2>1. /\ Wait(k) /\ pc = "waitall" /\ k \in Nat /\ Len(dst) + k < req /\ dst' = Continued(k)
        /\ rd' = rd /\ size' = size /\ pc' = pc /\ req' = req /\ read' = read /\ mem' = mem
        /\ arrived' = arrived /\ ended' = ended /\ short' = short /\ failures' = failures
    BY <1>2, InAssumption, SMT DEF WaitSome, Wait, peerVars, InAssumption
  <2>2. /\ dst' \in Seq(Nat) /\ Len(dst') = Len(dst) + k /\ taken' \in 0..arrived'
        /\ ~short => /\ taken' = Len(read) + Len(dst')
                     /\ \A i \in 1..Len(dst') : dst'[i] = Len(read) + i
    BY <2>1, ContinuedInStep
  <2>3. TypeOK' /\ Len(dst') < req'
    BY <2>1, <2>2, <1>1 DEF TypeOK
  <2>4. ASSUME ~short PROVE InStep'
    <3>1. size' - rd' <= Len(dst')
      <4>1. size - rd <= Len(dst)
        BY <2>4, <2>1 DEF InInv, InStep
      <4> QED BY <4>1, <2>1, <2>2, <1>1, SMT
    <3>2. Buffered' /\ \A i \in 1..Len(read') : read'[i] = i
      BY <2>1, <2>4 DEF InInv, InStep, Buffered
    <3> QED BY <3>1, <3>2, <2>1, <2>2, <2>4 DEF InStep
  <2> QED BY <2>1, <2>3, <2>4 DEF InInv, InTypes
<1>3. ASSUME NEW k \in 1..MaxBytes, WaitDone(k) PROVE InInv'
  <2> DEFINE c == Continued(k)
  <2>1. /\ Wait(k) /\ pc = "waitall" /\ k \in Nat
        /\ read' = read \o c /\ rd' = 0 /\ size' = 0 /\ pc' = "idle" /\ req' = 0 /\ dst' = <<>>
        /\ mem' = mem /\ short' = short /\ failures' = failures
        /\ arrived' = arrived /\ ended' = ended
    BY <1>3, InAssumption, SMT DEF WaitDone, Return, Wait, peerVars, InAssumption
  <2>2. /\ c \in Seq(Nat) /\ Len(c) = Len(dst) + k /\ taken' \in 0..arrived'
        /\ ~short => /\ taken' = Len(read) + Len(c)
                     /\ \A i \in 1..Len(c) : c[i] = Len(read) + i
    BY <2>1, ContinuedInStep
  <2> HIDE DEF c
  <2>3. read' \in Seq(Nat) /\ Len(read') = Len(read) + Len(c)
    BY <2>1, <2>2, <1>1, Joined
  <2>4. TypeOK'
    <3>1. <<>> \in Seq(Nat) /\ 0 \in 0..InCapacity /\ 0 \in 0..0
      BY <1>1, SMT DEF InAssumption
    <3> QED BY <3>1, <2>1, <2>2, <2>3, <1>1 DEF TypeOK
  <2>5. ASSUME ~short PROVE InStep'
    <3>1. \A i \in 1..Len(read') : read'[i] = i
      <4>1. \A i \in 1..Len(read) : read[i] = 0 + i
        BY <2>5, <1>1, SMT DEF InInv, InStep
      <4>2. \A i \in 1..Len(c) : c[i] = 0 + Len(read) + i
        BY <2>5, <2>2, <1>1, SMT
      <4>3. 0 \in Nat
        OBVIOUS
      <4>4. \A i \in 1..Len(read') : read'[i] = 0 + i
        BY <4>1, <4>2, <4>3, <2>1, <2>2, <1>1, CountsOn
      <4>5. Len(read') \in Nat
        BY <2>3, LenProperties
      <4> QED BY <4>4, <4>5, SMT
    <3>2. taken' = Len(read') + (size' - rd')
      <4>1. taken' = Len(read') /\ Len(read') \in Nat /\ size' - rd' = 0
        BY <2>5, <2>1, <2>2, <2>3, LenProperties, SMT
      <4> QED BY <4>1, SMT
    <3>3. Buffered'
      BY <2>1, SMT DEF Buffered
    <3> QED BY <3>1, <3>2, <3>3, <2>1 DEF InStep
  <2> QED BY <2>1, <2>4, <2>5 DEF InInv, InTypes
<1>4. ASSUME NEW j \in Junk, WaitCut(j) PROVE InInv'
  <2> DEFINE u == [i \in 1..(req - Len(dst)) |-> j]
  <2>1. /\ pc = "waitall" /\ short' = TRUE /\ read' = read \o (dst \o u)
        /\ rd' = 0 /\ size' = 0 /\ pc' = "idle" /\ req' = 0 /\ dst' = <<>>
        /\ mem' = mem /\ taken' = taken /\ arrived' = arrived /\ ended' = ended
        /\ failures' \in {failures, failures + 1} /\ (failures' = failures \/ failures < MaxFailures)
    BY <1>4 DEF WaitCut, Return, peerVars
  <2>2. u \in Seq(Nat)
    <3>1. req - Len(dst) \in Nat /\ j \in Nat
      BY <2>1, <1>1, SMT DEF InInv, InTypes, InAssumption
    <3>2. u \in [1..(req - Len(dst)) -> Nat]
      BY <3>1
    <3> QED BY <3>1, <3>2, Numbered
  <2> HIDE DEF u
  <2>3. read' \in Seq(Nat)
    BY <2>1, <2>2, <1>1, Joined
  <2>4. failures' \in 0..MaxFailures
    BY <2>1, SMT DEF InInv, InTypes, TypeOK, InAssumption
  <2>5. TypeOK'
    <3>1. <<>> \in Seq(Nat) /\ 0 \in 0..InCapacity /\ 0 \in 0..0
      BY <1>1, SMT DEF InAssumption
    <3> QED BY <3>1, <2>1, <2>3, <2>4, <1>1 DEF TypeOK
  <2> QED BY <2>1, <2>5 DEF InInv, InTypes
<1> QED BY <1>2, <1>3, <1>4 DEF Resume

\* A recv() that fails leaves everything where the next call looks for it.
LEMMA FailKeeps ==
    ASSUME InAssumption, InInv, ReceiveFails \/ WaitFails
    PROVE  InInv'
<1>1. /\ rd' = rd /\ size' = size /\ read' = read /\ mem' = mem /\ taken' = taken
      /\ arrived' = arrived /\ ended' = ended /\ short' = short /\ pc' = "idle"
      /\ failures' = failures + 1 /\ failures < MaxFailures
      /\ req' \in {req, 0} /\ dst' \in {dst, <<>>}
  BY DEF ReceiveFails, WaitFails, peerVars
<1>2. failures' \in 0..MaxFailures /\ <<>> \in Seq(Nat)
  BY <1>1, SMT DEF InInv, InTypes, TypeOK, InAssumption
<1>3. TypeOK'
  <2>1. TypeOK /\ req \in Nat /\ dst \in Seq(Nat)
    BY DEF InInv, InTypes, TypeOK
  <2>3. req' \in Nat
    BY <2>1, <1>1, SMT
  <2>4. dst' = dst \/ dst' = <<>>
    BY <1>1, Zenon
  <2>5. dst' \in Seq(Nat)
    BY <2>1, <2>4, <1>2, Zenon
  <2>2. pc' \in {"idle", "waitall"}
    BY <1>1
  <2> QED BY <2>1, <2>2, <2>3, <2>5, <1>1, <1>2 DEF TypeOK
<1>4. ASSUME ~short PROVE InStep'
  <2>1. taken = Len(read) + (size - rd)
    <3>1. CASE ReceiveFails
      BY <3>1, <1>4 DEF ReceiveFails, InInv, InStep
    <3>2. CASE WaitFails
      <4>1. taken = Len(read) + Len(dst) /\ Len(dst) - (size - rd) = 0
        BY <3>2, <1>4 DEF WaitFails, Waited, InInv, InStep
      <4>2. Len(dst) \in Nat /\ size - rd \in Int
        BY LenProperties, SMT DEF InInv, InTypes, TypeOK
      <4>3. Len(dst) = size - rd
        BY <4>1, <4>2, SMT
      <4> QED BY <4>1, <4>3
    <3> QED BY <3>1, <3>2
  <2>2. Buffered' /\ \A i \in 1..Len(read') : read'[i] = i
    BY <1>1, <1>4 DEF InInv, InStep, Buffered
  <2> QED BY <2>1, <2>2, <1>1 DEF InStep
<1> QED BY <1>1, <1>3, <1>4 DEF InInv, InTypes

\* What the peer does, it does to the kernel.
LEMMA PeerKeeps ==
    ASSUME InAssumption, InInv, Close \/ \E k \in 1..MaxBytes : Arrive(k)
    PROVE  InInv'
<1>1. /\ rd' = rd /\ size' = size /\ read' = read /\ mem' = mem /\ taken' = taken
      /\ short' = short /\ pc' = pc /\ failures' = failures /\ req' = req /\ dst' = dst
      /\ ended' \in BOOLEAN
  BY DEF Close, Arrive, InInv, InTypes, TypeOK
<1>2. arrived' \in 0..MaxBytes /\ taken' \in 0..arrived'
  BY SMT DEF Close, Arrive, InInv, InTypes, TypeOK, InAssumption
<1> QED BY <1>1, <1>2 DEF InInv, InTypes, TypeOK, InStep, Buffered

LEMMA InInvStep ==
    ASSUME InAssumption, InInv, [Next]_vars
    PROVE  InInv'
<1>1. ASSUME NEW s \in Sizes, NEW k \in 0..InCapacity, ReadInputBuffer(s, k) PROVE InInv'
  <2>1. s \in Nat \ {0} /\ k \in Nat
    BY SMT DEF InAssumption
  <2> QED BY <2>1, <1>1, ReadKeeps
<1>2. CASE UNCHANGED vars
  BY <1>2 DEF vars, InInv, InTypes, TypeOK, InStep, Buffered
<1> QED BY <1>1, <1>2, ResumeKeeps, FailKeeps, PeerKeeps DEF Next

LEMMA InInvInit == ASSUME InAssumption, Init PROVE InInv
<1>1. <<>> \in Seq(Nat) /\ Len(<<>>) = 0
  BY SMT
<1>2. mem \in [Memory -> Nat]
  BY DEF Init, InAssumption
<1>3. TypeOK
  <2>1. /\ arrived \in 0..MaxBytes /\ taken \in 0..arrived /\ failures \in 0..MaxFailures
        /\ size \in 0..InCapacity /\ rd \in 0..size
    BY SMT DEF Init, InAssumption
  <2> QED BY <1>1, <1>2, <2>1 DEF Init, TypeOK
<1>4. InStep
  <2>1. Buffered
    BY SMT DEF Init, Buffered
  <2>2. taken = Len(read) + (size - rd)
    BY <1>1, SMT DEF Init
  <2>3. \A i \in 1..Len(read) : read[i] = i
    BY <1>1, SMT DEF Init
  <2> QED BY <2>1, <2>2, <2>3 DEF Init, InStep
<1> QED BY <1>3, <1>4 DEF InInv, InTypes, Init

LEMMA AlwaysInStep == Spec => []InInv
<1>1. Init => InInv
  BY InAssumption, InInvInit
<1>2. InInv /\ [Next]_vars => InInv'
  BY InAssumption, InInvStep
<1> QED BY <1>1, <1>2, PTL DEF Spec

-----------------------------------------------------------------------------
\* The indexes of the input half stay inside its buffer, and its other variables
\* have their types, cut calls included.
THEOREM InputTypeCorrect == Spec => []InTypes
<1>1. InInv => InTypes
  BY DEF InInv
<1> QED BY <1>1, AlwaysInStep, PTL

\* Values of any size, split between buffer and variable in any way, are the
\* bytes of the stream in order, until a call is cut short.
THEOREM InOrderRead == Spec => []ReadInOrder
<1>1. InInv => ReadInOrder
  BY DEF InInv, InStep, ReadInOrder
<1> QED BY <1>1, AlwaysInStep, PTL

\* What recv() returned has been read or is where the next call looks for it,
\* whichever calls failed before.
THEOREM NothingIsDropped == Spec => []NothingDropped
<1>1. InInv => NothingDropped
  BY DEF InInv, InStep, Buffered, NothingDropped
<1> QED BY <1>1, AlwaysInStep, PTL

-----------------------------------------------------------------------------
\* STRINGS AND VALUES FROM ONE BUFFER

\* What was received is the stream's: its positions are counted from 1.
Held == \A a \in 0..(size - 1) : mem[a] \in Nat \ {0}

\* What holds even when the object has lost its place in the stream.
Loose ==
    /\ arrived \in Nat /\ taken \in 0..arrived
    /\ mem \in [Memory -> Nat] /\ size \in 0..InCapacity /\ rd \in Nat
    /\ short \in BOOLEAN /\ whole \in BOOLEAN /\ undefined \in BOOLEAN
    /\ todo \in {NoString} \cup Nat
    /\ strings \in 0..MaxStrings
    /\ Held

\* The '\0' of a string that was measured whole is as far away as it was then.
Ahead ==
    whole /\ todo # NoString => pc = "idle" /\ rd + todo < size /\ mem[rd + todo] \in Nuls

Strict == ~short => InInv /\ ~undefined /\ (todo # NoString => whole)

StrInv == Loose /\ Ahead /\ Strict

-----------------------------------------------------------------------------
\* LEMMAS

LEMMA HeldReceives ==
    ASSUME Loose, NEW k \in Nat, Receivable(k)
    PROVE  /\ size + k \in 0..InCapacity /\ taken + k \in 0..arrived
           /\ Received(k) \in [Memory -> Nat]
           /\ \A a \in 0..(size - 1) : Received(k)[a] = mem[a]
           /\ \A a \in 0..(size + k - 1) : Received(k)[a] \in Nat \ {0}
<1>1. /\ size + k \in 0..InCapacity /\ taken + k \in 0..arrived
      /\ Received(k) \in [Memory -> Nat]
      /\ \A a \in 0..(size - 1) : Received(k)[a] = mem[a]
      /\ \A a \in size..(size + k - 1) : Received(k)[a] = taken + (a - size) + 1
  BY InAssumption, ReceivedTypes DEF Loose
<1>2. size \in Nat /\ taken \in Nat
  BY SMT DEF Loose
<1>3. ASSUME NEW a \in 0..(size + k - 1) PROVE Received(k)[a] \in Nat \ {0}
  <2>1. CASE a < size
    <3>1. a \in 0..(size - 1)
      BY <2>1, <1>2, SMT
    <3> QED BY <3>1, <1>1 DEF Loose, Held
  <2>2. CASE a >= size
    <3>1. a \in size..(size + k - 1) /\ taken + (a - size) + 1 \in Nat \ {0}
      BY <2>2, <1>2, SMT
    <3>2. Received(k)[a] = taken + (a - size) + 1
      BY <3>1, <1>1
    <3> QED BY <3>1, <3>2
  <2> QED BY <2>1, <2>2, <1>2, SMT
<1> QED BY <1>1, <1>3

\* A call of read_input_buffer() in any state of the object.
LEMMA ReadLoose ==
    ASSUME Loose, NEW s \in Nat, NEW k \in Nat, ReadInputBuffer(s, k)
    PROVE  /\ arrived' \in Nat /\ taken' \in 0..arrived' /\ mem' \in [Memory -> Nat]
           /\ size' \in 0..InCapacity /\ rd' \in Nat /\ short' = short
           /\ Held'
<1>1. /\ Receivable(k) /\ mem' = Received(k) /\ taken' = taken + k /\ arrived' = arrived
      /\ short' = short
      /\ size' = size + k \/ size' = 0
      /\ rd' = rd + s \/ rd' = rd \/ rd' = 0
  BY DEF ReadInputBuffer, Local, Exact, Block, Start, peerVars
<1>2. /\ size + k \in 0..InCapacity /\ taken + k \in 0..arrived
      /\ Received(k) \in [Memory -> Nat]
      /\ \A a \in 0..(size + k - 1) : Received(k)[a] \in Nat \ {0}
  BY <1>1, HeldReceives
<1>3. size' \in 0..InCapacity /\ rd' \in Nat
  <2>1. size + k \in 0..InCapacity /\ 0 \in 0..InCapacity /\ rd \in Nat /\ rd + s \in Nat
    BY <1>2, InAssumption, SMT DEF Loose, InAssumption
  <2> QED BY <2>1, <1>1
<1>4. Held'
  <2>1. CASE size' = size + k
    <3>1. ASSUME NEW a \in 0..(size' - 1) PROVE mem'[a] \in Nat \ {0}
      <4>1. a \in 0..(size + k - 1)
        BY <2>1, <1>2, SMT DEF Loose
      <4> QED BY <4>1, <1>1, <1>2
    <3> QED BY <3>1 DEF Held
  <2>2. CASE size' = 0
    BY <2>2, SMT DEF Held
  <2> QED BY <2>1, <2>2, <1>1
<1> QED BY <1>1, <1>2, <1>3, <1>4 DEF Loose

\* The recv() of a call that waits returns, or fails.
LEMMA ResumeLoose ==
    ASSUME Loose, Resume \/ ReceiveFails \/ WaitFails
    PROVE  /\ arrived' \in Nat /\ taken' \in 0..arrived' /\ mem' \in [Memory -> Nat]
           /\ size' \in 0..InCapacity /\ rd' \in Nat /\ short' \in BOOLEAN /\ (short => short')
           /\ Held'
<1>1. /\ arrived' = arrived /\ mem' = mem /\ (short' = short \/ short' = TRUE)
      /\ (size' = size /\ rd' = rd) \/ (size' = 0 /\ rd' = 0)
  BY DEF Resume, WaitSome, WaitDone, WaitCut, Wait, Return, ReceiveFails, WaitFails, peerVars
<1>2. taken' \in 0..arrived
  <2>1. taken' = taken \/ \E k \in 1..MaxBytes : Wait(k)
    BY DEF Resume, WaitSome, WaitDone, WaitCut, ReceiveFails, WaitFails
  <2>2. ASSUME NEW k \in 1..MaxBytes, Wait(k) PROVE taken' \in 0..arrived
    BY <2>2, SMT DEF Wait, Pending, Loose
  <2> QED BY <2>1, <2>2 DEF Loose
<1>3. Held'
  <2>1. CASE size' = size
    BY <2>1, <1>1 DEF Held, Loose
  <2>2. CASE size' = 0
    BY <2>2, SMT DEF Held
  <2> QED BY <2>1, <2>2, <1>1
<1>4. size' \in 0..InCapacity /\ rd' \in Nat
  <2>1. 0 \in 0..InCapacity /\ 0 \in Nat
    BY InAssumption, SMT DEF InAssumption
  <2> QED BY <2>1, <1>1 DEF Loose
<1>5. short' \in BOOLEAN /\ (short => short')
  <2>1. CASE short' = short
    BY <2>1 DEF Loose
  <2>2. CASE short' = TRUE
    BY <2>2
  <2> QED BY <2>1, <2>2, <1>1
<1> QED BY <1>1, <1>2, <1>3, <1>4, <1>5 DEF Loose

\* read_input_buffer() behind the buffer's end: nothing but the receiving is left.
LEMMA BeyondLoose ==
    ASSUME StrInv, NEW s \in Nat, NEW k \in Nat, ReadBeyond(s, k), todo' \in {NoString} \cup Nat,
           whole' = whole, strings' = strings
    PROVE  Loose' /\ short /\ short'
<1>1. /\ Receivable(k) /\ mem' = Received(k) /\ taken' = taken + k /\ arrived' = arrived
      /\ short' = short /\ size' = size /\ rd' = rd /\ undefined' = TRUE /\ rd > size + k
  BY DEF ReadBeyond, Start, peerVars
<1>2. /\ taken + k \in 0..arrived /\ Received(k) \in [Memory -> Nat]
      /\ \A a \in 0..(size - 1) : Received(k)[a] = mem[a]
  BY <1>1, HeldReceives DEF StrInv
<1>3. Held'
  BY <1>1, <1>2 DEF Held, StrInv, Loose
<1>4. short
  <2>1. ASSUME ~short PROVE FALSE
    <3>1. rd \in 0..size /\ size \in Nat
      BY <2>1, SMT DEF StrInv, Loose, Strict, InInv, InTypes, TypeOK
    <3> QED BY <3>1, <1>1, SMT
  <2> QED BY <2>1
<1> QED BY <1>1, <1>2, <1>3, <1>4 DEF StrInv, Loose

-----------------------------------------------------------------------------
\* STEPS

\* A string is measured.
LEMMA StartKeeps == ASSUME StrInv, NEW k \in Nat, StringStart(k) PROVE StrInv'
<1>1. /\ pc = "idle" /\ todo = NoString /\ strings < MaxStrings /\ strings' = strings + 1
      /\ Receivable(k) /\ mem' = Received(k) /\ taken' = taken + k /\ size' = size + k
      /\ whole' = (\E z \in NulsFrom(mem', rd) : z < size')
      /\ short' = (short \/ ~whole')
      /\ arrived' = arrived /\ ended' = ended /\ rd' = rd /\ pc' = pc /\ req' = req /\ dst' = dst
      /\ read' = read /\ failures' = failures
  BY DEF StringStart, peerVars
<1>2. /\ size + k \in 0..InCapacity /\ taken + k \in 0..arrived /\ Received(k) \in [Memory -> Nat]
      /\ \A a \in 0..(size + k - 1) : Received(k)[a] \in Nat \ {0}
  BY <1>1, HeldReceives DEF StrInv
<1>3. Held'
  <2>1. ASSUME NEW a \in 0..(size' - 1) PROVE mem'[a] \in Nat \ {0}
    <3>1. a \in 0..(size + k - 1)
      BY <1>1, <1>2, SMT DEF StrInv, Loose
    <3> QED BY <3>1, <1>1, <1>2
  <2> QED BY <2>1 DEF Held
<1>4. \/ NulsFrom(mem', rd) = {} /\ undefined' = TRUE /\ todo' = todo
      \/ (\E len \in Memory : Strlen(mem', rd, len) /\ todo' = len) /\ undefined' = undefined
  BY Zenon DEF StringStart
<1>5. Loose'
  <2>1. todo' \in {NoString} \cup Nat
    BY <1>1, <1>4, SMT DEF Memory
  <2>2. strings' \in 0..MaxStrings
    BY <1>1, StringAssumption, SMT DEF StrInv, Loose
  <2>3. whole' \in BOOLEAN /\ short' \in BOOLEAN
    BY <1>1
  <2>4. undefined' \in BOOLEAN
    BY <1>4 DEF StrInv, Loose
  <2> QED BY <2>1, <2>2, <2>3, <2>4, <1>1, <1>2, <1>3 DEF StrInv, Loose
<1>6. ASSUME whole' PROVE NulsFrom(mem', rd) # {}
  BY <1>1, <1>6
<1>7. Ahead'
  <2> SUFFICES ASSUME whole' PROVE pc' = "idle" /\ rd' + todo' < size' /\ mem'[rd' + todo'] \in Nuls
    BY DEF Ahead
  <2>1. PICK z \in NulsFrom(mem', rd) : z < size'
    BY <1>1
  <2>2. PICK len \in Memory : Strlen(mem', rd, len) /\ todo' = len
    BY <1>4, <1>6
  <2>3. rd + len \in NulsFrom(mem', rd) /\ rd + len <= z
    BY <2>1, <2>2 DEF Strlen
  <2>4. rd + len < size + k /\ rd + len \in 0..(size + k - 1)
    BY <2>1, <2>3, <1>1, <1>2, SMT DEF NulsFrom, Memory, StrInv, Loose
  <2>5. mem'[rd + len] \in Nat \ {0} /\ IsNul(mem'[rd + len])
    BY <2>3, <2>4, <1>1, <1>2 DEF NulsFrom
  <2> QED BY <2>2, <2>4, <2>5, <1>1 DEF IsNul
<1>8. Strict'
  <2> SUFFICES ASSUME ~short' PROVE InInv' /\ ~undefined' /\ whole'
    BY DEF Strict
  <2>1. ~short /\ whole' /\ InInv /\ ~undefined
    BY <1>1 DEF StrInv, Strict
  <2>2. ~undefined'
    BY <2>1, <1>4, <1>6
  <2>3. TypeOK /\ InStep
    BY <2>1 DEF InInv, InTypes
  <2>4. /\ taken' = Len(read) + (size + k - rd)
        /\ \A a \in rd..(size + k - 1) : mem'[a] = Len(read) + 1 + (a - rd)
    <3>1. /\ taken + k = Len(read) + (size + k - rd)
          /\ \A a \in rd..(size + k - 1) : Received(k)[a] = Len(read) + 1 + (a - rd)
      BY <2>3, <1>1, InAssumption, ReceivedInStep
    <3> QED BY <3>1, <1>1
  <2>5. InStep'
    <3>1. ASSUME NEW a \in rd'..(size' - 1) PROVE mem'[a] = Len(read') + 1 + (a - rd')
      <4>1. a \in rd..(size + k - 1)
        BY <1>1, <1>2, SMT DEF StrInv, Loose
      <4> QED BY <4>1, <2>4, <1>1
    <3>2. \A i \in 1..Len(read') : read'[i] = i
      BY <2>3, <1>1 DEF InStep
    <3>3. pc' = "idle" /\ taken' = Len(read') + (size' - rd')
      <4>1. size' - rd' = size + k - rd
        BY <1>1, <1>2, SMT DEF StrInv, Loose
      <4> QED BY <4>1, <2>4, <1>1
    <3> QED BY <3>1, <3>2, <3>3 DEF InStep, Buffered
  <2>6. rd \in 0..(size + k) /\ size + k \in 0..InCapacity
    BY <2>3, <1>2, SMT DEF TypeOK
  <2>7. TypeOK'
    BY <2>3, <2>6, <1>1, <1>2, <1>5 DEF TypeOK, Loose
  <2> QED BY <2>1, <2>2, <2>5, <2>7, <1>1 DEF InInv, InTypes
<1> QED BY <1>5, <1>7, <1>8 DEF StrInv

\* A character of a string is extracted, or recv() is waited for.
LEMMA CharKeeps == ASSUME StrInv, NEW k \in Nat, StringChar(k) PROVE StrInv'
<1>1. /\ todo > 0 /\ whole' = whole /\ strings' = strings
      /\ todo' = IF pc' = "waitall" THEN todo ELSE todo - 1
  BY DEF StringChar
<1>2. todo \in Nat /\ todo # NoString /\ todo - 1 \in Nat /\ 1 \in Nat /\ 1 \in Nat \ {0}
  BY <1>1, SMT DEF StrInv, Loose, NoString
<1>3. todo' \in {NoString} \cup Nat
  BY <1>1, <1>2
<1>4. CASE ReadBeyond(1, k)
  <2>1. Loose' /\ short /\ short'
    BY <1>1, <1>2, <1>3, <1>4, BeyondLoose
  <2>2. ~whole
    <3>1. ASSUME whole PROVE FALSE
      <4>1. rd + todo < size /\ rd > size + k
        BY <3>1, <1>2, <1>4 DEF StrInv, Ahead, ReadBeyond
      <4> QED BY <4>1, <1>2, SMT DEF StrInv, Loose
    <3> QED BY <3>1
  <2> QED BY <2>1, <2>2, <1>1 DEF StrInv, Ahead, Strict
<1>5. CASE ReadWithin(1, k)
  <2>1. ReadInputBuffer(1, k) /\ undefined' = undefined
    BY <1>5 DEF ReadWithin
  <2>2. /\ arrived' \in Nat /\ taken' \in 0..arrived' /\ mem' \in [Memory -> Nat]
        /\ size' \in 0..InCapacity /\ rd' \in Nat /\ short' = short /\ Held'
    BY <2>1, <1>2, ReadLoose DEF StrInv
  <2>3. Loose'
    BY <2>1, <2>2, <1>1, <1>3 DEF StrInv, Loose
  <2>4. Ahead'
    <3> SUFFICES ASSUME whole
                 PROVE  pc' = "idle" /\ rd' + todo' < size' /\ mem'[rd' + todo'] \in Nuls
      BY <1>1 DEF Ahead
    <3>1. pc = "idle" /\ rd + todo < size /\ mem[rd + todo] \in Nuls
      BY <1>2 DEF StrInv, Ahead
    <3>2. rd + 1 < size + k /\ rd + todo \in 0..(size - 1)
      BY <3>1, <1>1, <1>2, SMT DEF StrInv, Loose
    <3>3. ~(rd + 1 = size + k) /\ ~(rd + 1 > size + k)
      BY <3>2, SMT DEF StrInv, Loose
    <3>4. Local(1, k)
      BY <3>3, <2>1 DEF ReadInputBuffer, Exact, Block
    <3>5. /\ rd' = rd + 1 /\ size' = size + k /\ pc' = pc /\ mem' = Received(k) /\ Receivable(k)
      BY <3>4 DEF Local, Start
    <3>6. todo' = todo - 1
      BY <3>1, <3>5, <1>1
    <3>7. rd' + todo' = rd + todo /\ rd + todo < size'
      BY <3>1, <3>5, <3>6, <1>2, SMT DEF StrInv, Loose
    <3>8. mem'[rd + todo] = mem[rd + todo]
      BY <3>2, <3>5, HeldReceives DEF StrInv
    <3> QED BY <3>1, <3>5, <3>7, <3>8
  <2>5. Strict'
    BY <2>1, <2>2, <1>1, <1>2, InAssumption, ReadKeeps DEF StrInv, Strict
  <2> QED BY <2>3, <2>4, <2>5 DEF StrInv
<1> QED BY <1>4, <1>5 DEF StringChar

\* A value of a fixed size is extracted.
LEMMA FixedKeeps == ASSUME StrInv, NEW s \in Nat \ {0}, NEW k \in Nat, FixedSize(s, k) PROVE StrInv'
<1>1. todo = NoString /\ todo' = todo /\ whole' = whole /\ strings' = strings
  BY DEF FixedSize
<1>2. Ahead' /\ todo' \in {NoString} \cup Nat
  BY <1>1 DEF Ahead
<1>3. CASE ReadBeyond(s, k)
  <2>1. Loose' /\ short /\ short'
    BY <1>1, <1>2, <1>3, BeyondLoose
  <2> QED BY <2>1, <1>2 DEF StrInv, Strict
<1>4. CASE ReadWithin(s, k)
  <2>1. ReadInputBuffer(s, k) /\ undefined' = undefined
    BY <1>4 DEF ReadWithin
  <2>2. /\ arrived' \in Nat /\ taken' \in 0..arrived' /\ mem' \in [Memory -> Nat]
        /\ size' \in 0..InCapacity /\ rd' \in Nat /\ short' = short /\ Held'
    BY <2>1, ReadLoose DEF StrInv
  <2>3. Loose'
    BY <2>1, <2>2, <1>1 DEF StrInv, Loose
  <2>4. Strict'
    BY <2>1, <2>2, <1>1, InAssumption, ReadKeeps DEF StrInv, Strict
  <2> QED BY <2>3, <2>4, <1>2 DEF StrInv
<1> QED BY <1>3, <1>4 DEF FixedSize

\* A call that waited returns, or goes on waiting.
LEMMA StringResumeKeeps == ASSUME StrInv, StringResume PROVE StrInv'
<1>1. /\ Resume /\ pc = "waitall" /\ whole' = whole /\ strings' = strings /\ undefined' = undefined
      /\ todo' = IF todo > 0 /\ pc' = "idle" THEN todo - 1 ELSE todo
  BY DEF StringResume, Resume, WaitSome, WaitDone, WaitCut, Wait
<1>2. /\ arrived' \in Nat /\ taken' \in 0..arrived' /\ mem' \in [Memory -> Nat]
      /\ size' \in 0..InCapacity /\ rd' \in Nat /\ short' \in BOOLEAN /\ (short => short')
      /\ Held'
  BY <1>1, ResumeLoose DEF StrInv
<1>3. todo' \in {NoString} \cup Nat /\ (todo = NoString => todo' = NoString)
  <2>1. todo \in {NoString} \cup Nat
    BY DEF StrInv, Loose
  <2>2. CASE todo > 0 /\ pc' = "idle"
    <3>1. todo' = todo - 1
      BY <2>2, <1>1
    <3> QED BY <3>1, <2>1, <2>2, SMT DEF NoString
  <2>3. CASE ~(todo > 0 /\ pc' = "idle")
    BY <2>1, <2>3, <1>1
  <2> QED BY <2>2, <2>3
<1>4. Loose'
  BY <1>1, <1>2, <1>3 DEF StrInv, Loose
<1>5. whole => todo = NoString
  BY <1>1 DEF StrInv, Ahead
<1>6. Ahead'
  BY <1>1, <1>3, <1>5 DEF Ahead
<1>7. Strict'
  <2> SUFFICES ASSUME ~short' PROVE InInv' /\ ~undefined' /\ (todo' # NoString => whole')
    BY DEF Strict
  <2>1. InInv /\ ~undefined /\ (todo # NoString => whole)
    BY <1>2 DEF StrInv, Strict
  <2>2. InInv'
    BY <2>1, <1>1, InAssumption, ResumeKeeps
  <2> QED BY <2>1, <2>2, <1>1, <1>3, <1>5
<1> QED BY <1>4, <1>6, <1>7 DEF StrInv

\* recv() fails; operator>> of a string is left.
LEMMA StringFailKeeps == ASSUME StrInv, StringFails PROVE StrInv'
<1>1. /\ ReceiveFails \/ WaitFails
      /\ todo' = NoString /\ whole' = whole /\ strings' = strings /\ undefined' = undefined
  BY DEF StringFails
<1>2. /\ arrived' \in Nat /\ taken' \in 0..arrived' /\ mem' \in [Memory -> Nat]
      /\ size' \in 0..InCapacity /\ rd' \in Nat /\ short' \in BOOLEAN /\ (short => short')
      /\ Held'
  BY <1>1, ResumeLoose DEF StrInv
<1>3. Loose'
  BY <1>1, <1>2 DEF StrInv, Loose
<1>4. Ahead'
  BY <1>1 DEF Ahead
<1>5. Strict'
  <2> SUFFICES ASSUME ~short' PROVE InInv' /\ ~undefined'
    BY <1>1 DEF Strict
  <2>1. InInv /\ ~undefined
    BY <1>2 DEF StrInv, Strict
  <2> QED BY <2>1, <1>1, InAssumption, FailKeeps
<1> QED BY <1>3, <1>4, <1>5 DEF StrInv

\* The step over the '\0'.
LEMMA EndKeeps == ASSUME StrInv, StringEnd PROVE StrInv'
<1> DEFINE b == IF rd \in Memory THEN mem[rd] ELSE 0
<1>1. /\ todo = 0 /\ todo' = NoString /\ rd' = rd + 1 /\ read' = Append(read, b)
      /\ whole' = whole /\ strings' = strings /\ undefined' = undefined
      /\ arrived' = arrived /\ ended' = ended /\ taken' = taken /\ mem' = mem /\ size' = size
      /\ pc' = pc /\ req' = req /\ dst' = dst /\ short' = short /\ failures' = failures
  BY DEF StringEnd
<1>2. Loose'
  BY <1>1, SMT DEF StrInv, Loose, Held
<1>3. Ahead'
  BY <1>1 DEF Ahead
<1>4. Strict'
  <2> SUFFICES ASSUME ~short' PROVE InInv' /\ ~undefined'
    BY <1>1 DEF Strict
  <2>1. InInv /\ ~undefined /\ whole /\ TypeOK /\ InStep
    BY <1>1, SMT DEF StrInv, Strict, NoString, InInv, InTypes
  <2>2. pc = "idle" /\ rd + 0 < size
    BY <2>1, <1>1, SMT DEF StrInv, Ahead, NoString
  <2>3. /\ rd \in Nat /\ size \in Nat /\ size \in 0..InCapacity /\ rd < size /\ InCapacity \in Nat
        /\ read \in Seq(Nat) /\ Len(read) \in Nat /\ mem \in [Memory -> Nat]
    BY <2>1, <2>2, InAssumption, LenProperties, SMT DEF TypeOK, InAssumption
  <2>4. rd \in Memory /\ rd \in rd..(size - 1) /\ Len(read) + 1 + (rd - rd) = Len(read) + 1
    BY <2>3, InAssumption, SMT DEF Memory, InAssumption
  <2>5. b = Len(read) + 1
    BY <2>1, <2>4 DEF InStep, Buffered
  <2> HIDE DEF b
  <2>6. /\ read' \in Seq(Nat) /\ Len(read') = Len(read) + 1
        /\ \A i \in 1..Len(read) : read'[i] = read[i]
        /\ read'[Len(read) + 1] = b
    <3>1. b \in Nat
      BY <2>3, <2>5
    <3> QED BY <3>1, <2>3, <1>1, AppendProperties
  <2>7. TypeOK'
    <3>1. rd' \in 0..size'
      BY <2>3, <1>1, SMT
    <3> QED BY <3>1, <2>1, <2>6, <1>1 DEF TypeOK
  <2>8. \A i \in 1..Len(read') : read'[i] = i
    <3>1. ASSUME NEW i \in 1..(Len(read) + 1) PROVE read'[i] = i
      <4>1. i \in 1..Len(read) \/ i = Len(read) + 1
        BY <2>3, SMT
      <4>2. CASE i \in 1..Len(read)
        BY <4>2, <2>1, <2>6 DEF InStep
      <4>3. CASE i = Len(read) + 1
        BY <4>3, <2>5, <2>6
      <4> QED BY <4>1, <4>2, <4>3
    <3> QED BY <3>1, <2>6
  <2>9. Buffered'
    <3>1. ASSUME NEW a \in rd'..(size' - 1) PROVE mem'[a] = Len(read') + 1 + (a - rd')
      <4>1. a \in rd..(size - 1) /\ Len(read) + 1 + (a - rd) = Len(read') + 1 + (a - rd')
        BY <2>3, <2>6, <1>1, SMT
      <4> QED BY <4>1, <2>1, <1>1 DEF InStep, Buffered
    <3> QED BY <3>1 DEF Buffered
  <2>10. taken' = Len(read') + (size' - rd')
    <3>1. taken = Len(read) + (size - rd)
      BY <2>1, <2>2 DEF InStep
    <3> QED BY <3>1, <2>3, <2>6, <1>1, SMT
  <2>11. InStep'
    BY <2>2, <2>8, <2>9, <2>10, <1>1 DEF InStep
  <2> QED BY <2>1, <2>2, <2>7, <2>11, <1>1 DEF InInv, InTypes
<1> QED BY <1>2, <1>3, <1>4 DEF StrInv

LEMMA StringPeerKeeps == ASSUME StrInv, Peer PROVE StrInv'
<1>1. /\ Close \/ \E k \in 1..MaxBytes : Arrive(k)
      /\ todo' = todo /\ whole' = whole /\ strings' = strings /\ undefined' = undefined
  BY DEF Peer, strVars
<1>2. /\ taken' = taken /\ mem' = mem /\ size' = size /\ rd' = rd /\ short' = short /\ pc' = pc
      /\ arrived' \in Nat /\ taken' \in 0..arrived'
  BY <1>1, SMT DEF Close, Arrive, StrInv, Loose
<1>3. Loose' /\ Ahead'
  BY <1>1, <1>2 DEF StrInv, Loose, Held, Ahead
<1>4. Strict'
  BY <1>1, <1>2, InAssumption, PeerKeeps DEF StrInv, Strict
<1> QED BY <1>3, <1>4 DEF StrInv

-----------------------------------------------------------------------------
LEMMA StrInvInit == ASSUME StringInit PROVE StrInv
<1>1. InInv
  BY InAssumption, InInvInit DEF StringInit
<1>2. /\ arrived = 0 /\ taken = 0 /\ size = 0 /\ rd = 0 /\ short = FALSE
      /\ todo = NoString /\ whole = FALSE /\ strings = 0 /\ undefined = FALSE
  BY DEF StringInit, Init
<1>3. mem \in [Memory -> Nat]
  BY <1>1 DEF InInv, InTypes, TypeOK
<1>4. 0 \in 0..InCapacity /\ 0 \in 0..MaxStrings /\ 0 \in 0..0 /\ 0 \in Nat
  BY InAssumption, StringAssumption, SMT DEF InAssumption
<1>5. Held
  BY <1>2, SMT DEF Held
<1>6. Loose
  BY <1>2, <1>3, <1>4, <1>5 DEF Loose
<1> QED BY <1>1, <1>2, <1>6 DEF StrInv, Ahead, Strict

LEMMA StrInvStep == ASSUME StrInv, [StringNext]_allVars PROVE StrInv'
<1>1. ASSUME NEW k \in 0..InCapacity, StringStart(k) \/ StringChar(k) PROVE StrInv'
  <2>1. k \in Nat
    BY InAssumption, SMT DEF InAssumption
  <2> QED BY <2>1, <1>1, StartKeeps, CharKeeps
<1>2. ASSUME NEW s \in Sizes, NEW k \in 0..InCapacity, FixedSize(s, k) PROVE StrInv'
  <2>1. k \in Nat /\ s \in Nat \ {0}
    BY InAssumption, SMT DEF InAssumption
  <2> QED BY <2>1, <1>2, FixedKeeps
<1>3. CASE UNCHANGED allVars
  BY <1>3 DEF allVars, vars, strVars, StrInv, Loose, Held, Ahead, Strict,
              InInv, InTypes, TypeOK, InStep, Buffered
<1> QED BY <1>1, <1>2, <1>3, StringResumeKeeps, EndKeeps, StringFailKeeps, StringPeerKeeps
    DEF StringNext

LEMMA AlwaysStrInv == StringSpec => []StrInv
<1>1. StringInit => StrInv
  BY StrInvInit
<1>2. StrInv /\ [StringNext]_allVars => StrInv'
  BY StrInvStep
<1> QED BY <1>1, <1>2, PTL DEF StringSpec

-----------------------------------------------------------------------------
\* The variables of the input half have their types, and its indexes stay in the
\* buffer, until something is taken for received that was not.
THEOREM StringTypeCorrect == StringSpec => []StringTypeOK
<1>1. StrInv => StringTypeOK
  BY DEF StrInv, Loose, Strict, InInv, InTypes, StringTypeOK
<1> QED BY <1>1, AlwaysStrInv, PTL

\* Strings and values mixed are the bytes of the stream in order, until a call is
\* cut short or a string is measured that has not been received whole.
THEOREM MixedInOrder == StringSpec => []ReadInOrder
<1>1. StrInv => ReadInOrder
  BY DEF StrInv, Strict, InInv, InStep, ReadInOrder
<1> QED BY <1>1, AlwaysStrInv, PTL

\* Until then no byte that was received is dropped, between the characters of a
\* string as little as between two calls.
THEOREM MixedKeepsAll == StringSpec => []NothingDropped
<1>1. StrInv => NothingDropped
  BY DEF StrInv, Strict, InInv, InStep, Buffered, NothingDropped
<1> QED BY <1>1, AlwaysStrInv, PTL

\* A string that was received whole ends at the '\0' the peer sent, whatever is
\* received while it is taken apart; while all are, the object's memory is not left.
THEOREM TerminatorSkipped == StringSpec => []WholeSkipsTerminator
<1>1. StrInv => WholeSkipsTerminator
  <2> SUFFICES ASSUME StrInv, todo = 0, whole PROVE rd < size /\ mem[rd] \in Nuls
    BY DEF StrInv, Strict, WholeSkipsTerminator
  <2>1. todo # NoString /\ rd + todo = rd
    BY SMT DEF StrInv, Loose, NoString
  <2> QED BY <2>1 DEF StrInv, Ahead
<1> QED BY <1>1, AlwaysStrInv, PTL
=============================================================================
