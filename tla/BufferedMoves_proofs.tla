------------------------ MODULE BufferedMoves_proofs ------------------------
(***************************************************************************)
(* Any number of buffered sockets, of any capacities, moved from object to *)
(* object in any order: every allocation has one owner, and bytes that are *)
(* not sent, or not extracted, are with the object that has the connection *)
(* now.                                                                    *)
(***************************************************************************)
EXTENDS BufferedMoves, TLAPS

\* What an allocation looks like.
Shape(h) ==
    /\ DOMAIN h = {"size", "in", "out"}
    /\ DOMAIN h.in = 1..h.size.in /\ DOMAIN h.out = 1..h.size.out
    /\ h = Freed \/ h.size \in Capacities

HeapOK == DOMAIN heap = Allocs /\ \A a \in Allocs : Shape(heap[a])

\* A connection has one object, and an object that is used has a connection.
SocksOwned ==
    /\ \A o, p \in live : sock[o] # None /\ sock[o] = sock[p] => o = p
    /\ \A o \in Current : sock[o] # None

MovesInv ==
    /\ TypeOK /\ HeapOK
    /\ SocksOwned /\ BuffersOwned
    /\ OutputFollows /\ InputFollows

-----------------------------------------------------------------------------
\* What an object that is used has, as far as its bytes are concerned.
OutOf(s, n, h, c) ==
    /\ n = c.made - c.sent
    /\ \A i \in 1..n : h.out[i] = <<s, c.sent + i>>

InOf(s, rd, n, h, c) ==
    /\ n - rd = c.taken - c.got
    /\ \A i \in 1..(n - rd) : h.in[rd + i] = <<s, c.got + i>>

Bytes(o) ==
    /\ OutOf(sock[o], outSize[o], heap[bufferOut[o]], conn[sock[o]])
    /\ InOf(sock[o], inRd[o], inSize[o], heap[bufferIn[o]], conn[sock[o]])

LEMMA BytesFollow ==
    OutputFollows /\ InputFollows <=> \A o \in Current : Bytes(o)
BY DEF OutputFollows, InputFollows, Bytes, OutOf, InOf

\* What an object is given to buffer in.
LEMMA RoomIs ==
    ASSUME MovesAssumption, NEW c \in Capacities
    PROVE  c.in \in Nat /\ c.out \in Nat /\ c.out >= 2 /\ c # NoRoom
<1>1. c \in [in : Nat, out : Nat \ {0, 1}]
  BY Zenon DEF MovesAssumption
<1>2. c.in \in Nat /\ c.out \in Nat \ {0, 1}
  BY <1>1
<1>3. NoRoom.out = 0
  BY DEF NoRoom
<1> QED BY <1>2, <1>3

\* An object that is used, and what it owns.
LEMMA UsedObject ==
    ASSUME MovesAssumption, MovesInv, NEW o \in Current
    PROVE  /\ o \in live /\ o \in Objs /\ o \notin stale
           /\ sock[o] \in Socks /\ bufferIn[o] \in Allocs /\ bufferOut[o] = bufferIn[o]
           /\ Shape(heap[bufferIn[o]]) /\ heap[bufferIn[o]].size = capacity[o]
           /\ capacity[o] \in Capacities /\ capacity[o] # NoRoom
           /\ capacity[o].in \in Nat /\ capacity[o].out \in Nat /\ capacity[o].out >= 2
           /\ outSize[o] \in 0..capacity[o].out /\ inSize[o] \in 0..capacity[o].in
           /\ inRd[o] \in 0..inSize[o]
           /\ conn[sock[o]] \in [{"made", "sent", "taken", "got"} -> 0..MaxBytes]
           /\ Bytes(o)
<1>1. o \in live /\ o \in Objs /\ o \notin stale
  BY DEF MovesInv, TypeOK, Current
<1>2. sock[o] \in Socks /\ bufferIn[o] \in Allocated /\ bufferOut[o] = bufferIn[o]
      /\ heap[bufferIn[o]].size = capacity[o]
  BY <1>1 DEF MovesInv, TypeOK, SocksOwned, BuffersOwned
<1>3. bufferIn[o] \in Allocs /\ Shape(heap[bufferIn[o]]) /\ capacity[o] \in Capacities
  BY <1>2 DEF MovesInv, HeapOK, Allocated, Shape
<1>4. /\ capacity[o].in \in Nat /\ capacity[o].out \in Nat /\ capacity[o].out >= 2
      /\ capacity[o] # NoRoom
  BY <1>3, RoomIs
<1>5. Bytes(o)
  BY BytesFollow DEF MovesInv
<1> QED BY <1>1, <1>2, <1>3, <1>4, <1>5 DEF MovesInv, TypeOK

\* A step with one object that is used: what the others own and hold is left alone.
UsesOnly(o) ==
    /\ UNCHANGED <<live, sock, bufferIn, bufferOut, capacity, stale>>
    /\ inSize' \in [Objs -> Nat] /\ inRd' \in [Objs -> Nat] /\ outSize' \in [Objs -> Nat]
    /\ \A p \in Objs \ {o} : /\ inSize'[p] = inSize[p] /\ inRd'[p] = inRd[p]
                             /\ outSize'[p] = outSize[p]
    /\ inSize'[o] \in 0..capacity[o].in /\ inRd'[o] \in 0..inSize'[o]
    /\ outSize'[o] \in 0..capacity[o].out
    /\ DOMAIN heap' = Allocs /\ \A a \in Allocs \ {bufferIn[o]} : heap'[a] = heap[a]
    /\ Shape(heap'[bufferIn[o]]) /\ heap'[bufferIn[o]].size = capacity[o]
    /\ conn' \in [Socks -> [{"made", "sent", "taken", "got"} -> 0..MaxBytes]]
    /\ \A s \in Socks \ {sock[o]} : conn'[s] = conn[s]

LEMMA UseKeeps ==
    ASSUME MovesAssumption, MovesInv, NEW o \in Current, UsesOnly(o), Bytes(o)'
    PROVE  MovesInv'
<1> USE DEF MovesInv, UsesOnly
<1>1. Current' = Current
  BY DEF Current
<1>2. /\ bufferIn[o] \in Allocs /\ sock[o] \in Socks /\ capacity[o] \in Capacities
      /\ capacity[o] # NoRoom /\ o \in Objs /\ o \in live /\ bufferIn[o] # None /\ sock[o] # None
  BY UsedObject, BytesFollow DEF Allocs, Socks, None
<1>3. HeapOK'
  BY <1>2 DEF HeapOK
<1>4. \A a \in Allocs : heap'[a] # Freed <=> heap[a] # Freed
  <2>1. heap'[bufferIn[o]] # Freed /\ heap[bufferIn[o]] # Freed
    BY <1>2, UsedObject DEF Freed
  <2> QED BY <2>1
<1>5. \A a \in Allocs : heap'[a].size = heap[a].size
  BY UsedObject
<1>6. TypeOK'
  BY <1>2, <1>5 DEF TypeOK
<1>7. SocksOwned'
  BY <1>1 DEF SocksOwned
<1>8. BuffersOwned'
  <2>1. Allocated' = Allocated
    BY <1>4 DEF Allocated
  <2>2. \A p \in Current : bufferIn[p] \in Allocs
    BY UsedObject
  <2> QED BY <1>1, <1>5, <2>1, <2>2 DEF BuffersOwned
<1>9. ASSUME NEW p \in Current' PROVE Bytes(p)'
  <2>1. CASE p = o
    BY <2>1
  <2>2. CASE p # o
    <3>1. /\ p \in Current /\ p \in live /\ p \in Objs \ {o} /\ bufferOut[p] = bufferIn[p]
          /\ bufferIn[p] \in Allocs /\ sock[p] \in Socks /\ Bytes(p)
      BY <1>1, <2>2, UsedObject
    <3>2. bufferIn[p] # bufferIn[o] /\ sock[p] # sock[o]
      BY <1>2, <2>2, <3>1 DEF BuffersOwned, SocksOwned
    <3> QED BY <3>1, <3>2 DEF Bytes
  <2> QED BY <2>1, <2>2
<1>10. (OutputFollows /\ InputFollows)'
  BY <1>9 DEF OutputFollows, InputFollows, Bytes, OutOf, InOf
<1> QED BY <1>3, <1>6, <1>7, <1>8, <1>10

-----------------------------------------------------------------------------
\* USE OF AN OBJECT

\* Nothing but the bytes of an allocation is changed.
LEMMA OutChanged ==
    ASSUME NEW h, Shape(h), h.size \in Capacities, NEW b, DOMAIN b = 1..h.size.out
    PROVE  /\ Shape([h EXCEPT !.out = b]) /\ [h EXCEPT !.out = b].size = h.size
           /\ [h EXCEPT !.out = b].out = b /\ [h EXCEPT !.out = b].in = h.in
BY DEF Shape

LEMMA InChanged ==
    ASSUME NEW h, Shape(h), h.size \in Capacities, NEW b, DOMAIN b = 1..h.size.in
    PROVE  /\ Shape([h EXCEPT !.in = b]) /\ [h EXCEPT !.in = b].size = h.size
           /\ [h EXCEPT !.in = b].in = b /\ [h EXCEPT !.in = b].out = h.out
BY DEF Shape

LEMMA FlushKeeps ==
    ASSUME MovesAssumption, MovesInv, NEW o \in Current, Flush(o) PROVE MovesInv'
<1> DEFINE s == sock[o]
           a == bufferIn[o]
           h == [heap[a] EXCEPT !.out = Blank(heap[a].size.out)]
           c == [conn[s] EXCEPT !.sent = @ + outSize[o]]
<1>1. /\ o \in Objs /\ s \in Socks /\ a \in Allocs /\ bufferOut[o] = a
      /\ Shape(heap[a]) /\ heap[a].size = capacity[o] /\ capacity[o] \in Capacities
      /\ conn[s] \in [{"made", "sent", "taken", "got"} -> 0..MaxBytes]
      /\ outSize[o] \in 0..capacity[o].out /\ capacity[o].out \in Nat /\ Bytes(o)
      /\ inRd[o] \in 0..inSize[o] /\ inSize[o] \in 0..capacity[o].in
  BY UsedObject
<1>2. /\ UNCHANGED <<live, sock, bufferIn, bufferOut, capacity, inRd, inSize, stale>>
      /\ outSize' = [outSize EXCEPT ![o] = 0] /\ heap' = [heap EXCEPT ![a] = h]
      /\ conn' = [conn EXCEPT ![s] = c]
  BY <1>1 DEF Flush
<1>3. DOMAIN Blank(heap[a].size.out) = 1..heap[a].size.out
  BY DEF Blank
<1>4. Shape(h) /\ h.size = capacity[o] /\ h.in = heap[a].in
  BY <1>1, <1>3, OutChanged
<1>5. /\ c.made = conn[s].made /\ c.sent = conn[s].sent + outSize[o]
      /\ c.taken = conn[s].taken /\ c.got = conn[s].got
      /\ c.sent = c.made
      /\ c \in [{"made", "sent", "taken", "got"} -> 0..MaxBytes]
  <2>1. outSize[o] = conn[s].made - conn[s].sent
    BY <1>1 DEF Bytes, OutOf
  <2> QED BY <1>1, <2>1
<1> HIDE DEF h, c
<1>6. heap'[a] = h /\ DOMAIN heap' = Allocs /\ \A b \in Allocs \ {a} : heap'[b] = heap[b]
  BY <1>1, <1>2 DEF MovesInv, HeapOK
<1>7. conn' \in [Socks -> [{"made", "sent", "taken", "got"} -> 0..MaxBytes]]
      /\ conn'[s] = c /\ \A t \in Socks \ {s} : conn'[t] = conn[t]
  BY <1>1, <1>2, <1>5 DEF MovesInv, TypeOK
<1>8. outSize' \in [Objs -> Nat] /\ outSize'[o] = 0
      /\ \A p \in Objs \ {o} : outSize'[p] = outSize[p]
  BY <1>1, <1>2 DEF MovesInv, TypeOK
<1>9. UsesOnly(o)
  BY <1>1, <1>2, <1>4, <1>6, <1>7, <1>8 DEF UsesOnly, MovesInv, TypeOK
<1>10. Bytes(o)'
  <2>1. OutOf(s, 0, h, c)
    BY <1>1, <1>5 DEF OutOf
  <2>2. InOf(s, inRd[o], inSize[o], heap[a], conn[s])
    BY <1>1 DEF Bytes
  <2>3. InOf(s, inRd[o], inSize[o], h, c)
    BY <1>4, <1>5, <2>2 DEF InOf
  <2>4. /\ sock'[o] = s /\ bufferOut'[o] = a /\ bufferIn'[o] = a
        /\ inRd'[o] = inRd[o] /\ inSize'[o] = inSize[o]
    BY <1>1, <1>2
  <2> QED BY <1>6, <1>7, <1>8, <2>1, <2>3, <2>4 DEF Bytes
<1> QED BY <1>9, <1>10, UseKeeps

LEMMA InsertKeeps ==
    ASSUME MovesAssumption, MovesInv, NEW o \in Current, Insert(o) PROVE MovesInv'
<1> DEFINE s == sock[o]
           a == bufferIn[o]
           drain == outSize[o] + 1 >= capacity[o].out
           at == IF drain THEN 0 ELSE outSize[o]
           old == IF drain THEN Blank(heap[a].size.out) ELSE heap[a].out
           new == [old EXCEPT ![at + 1] = <<s, conn[s].made + 1>>]
           h == [heap[a] EXCEPT !.out = new]
           c == [conn[s] EXCEPT !.made = @ + 1, !.sent = IF drain THEN @ + outSize[o] ELSE @]
<1>1. /\ o \in Objs /\ s \in Socks /\ a \in Allocs /\ bufferOut[o] = a
      /\ Shape(heap[a]) /\ heap[a].size = capacity[o] /\ capacity[o] \in Capacities
      /\ conn[s] \in [{"made", "sent", "taken", "got"} -> 0..MaxBytes]
      /\ outSize[o] \in 0..capacity[o].out /\ capacity[o].out \in Nat /\ capacity[o].out >= 2
      /\ inRd[o] \in 0..inSize[o] /\ inSize[o] \in 0..capacity[o].in /\ Bytes(o)
  BY UsedObject
<1>2. /\ UNCHANGED <<live, sock, bufferIn, bufferOut, capacity, inRd, inSize, stale>>
      /\ outSize' = [outSize EXCEPT ![o] = at + 1] /\ heap' = [heap EXCEPT ![a] = h]
      /\ conn' = [conn EXCEPT ![s] = c] /\ conn[s].made + conn[s].taken < MaxBytes
  BY <1>1 DEF Insert
<1>3. /\ at \in Nat /\ at + 1 \in 1..capacity[o].out
      /\ (drain => at = 0) /\ (~drain => at = outSize[o])
  BY <1>1
<1>4. DOMAIN old = 1..heap[a].size.out
  BY <1>1 DEF Blank, Shape
<1>5. DOMAIN new = 1..heap[a].size.out /\ new[at + 1] = <<s, conn[s].made + 1>>
      /\ \A i \in (1..heap[a].size.out) \ {at + 1} : new[i] = old[i]
  BY <1>1, <1>3, <1>4
<1>6. Shape(h) /\ h.size = capacity[o] /\ h.in = heap[a].in /\ h.out = new
  <2>1. Shape(heap[a]) /\ heap[a].size \in Capacities /\ heap[a].size = capacity[o]
    BY <1>1
  <2>2. DOMAIN new = 1..heap[a].size.out
    BY <1>5
  <2> HIDE DEF new, a
  <2>3. /\ Shape(h) /\ h.size = heap[a].size /\ h.in = heap[a].in /\ h.out = new
    BY <2>1, <2>2, OutChanged
  <2> QED BY <2>1, <2>3
<1>7. /\ c.made = conn[s].made + 1 /\ c.taken = conn[s].taken /\ c.got = conn[s].got
      /\ c.sent = conn[s].sent + (IF drain THEN outSize[o] ELSE 0)
      /\ at = conn[s].made - c.sent
      /\ c \in [{"made", "sent", "taken", "got"} -> 0..MaxBytes]
      /\ c.sent \in Nat /\ conn[s].made \in Nat /\ conn[s].sent \in Nat
  <2>1. outSize[o] = conn[s].made - conn[s].sent
    BY <1>1 DEF Bytes, OutOf
  <2>2. MaxBytes \in Nat
    BY DEF MovesAssumption
  <2>3. /\ c.made = conn[s].made + 1 /\ c.taken = conn[s].taken /\ c.got = conn[s].got
        /\ c.sent = conn[s].sent + (IF drain THEN outSize[o] ELSE 0)
        /\ DOMAIN c = {"made", "sent", "taken", "got"}
    BY <1>1
  <2>4. conn[s].made \in 0..MaxBytes /\ conn[s].sent \in 0..MaxBytes
        /\ conn[s].taken \in 0..MaxBytes /\ conn[s].got \in 0..MaxBytes
    BY <1>1
  <2>5. at = conn[s].made - c.sent /\ c.made \in 0..MaxBytes /\ c.sent \in 0..MaxBytes
    <3> HIDE DEF c
    <3> QED BY <1>1, <1>2, <2>1, <2>2, <2>3, <2>4
  <2>6. c \in [{"made", "sent", "taken", "got"} -> 0..MaxBytes]
    <3>1. conn[s].made + 1 \in 0..MaxBytes
          /\ (IF drain THEN conn[s].sent + outSize[o] ELSE conn[s].sent) \in 0..MaxBytes
      BY <2>3, <2>5
    <3> HIDE DEF drain
    <3> QED BY <1>1, <3>1
  <2> HIDE DEF c
  <2> QED BY <2>3, <2>4, <2>5, <2>6
<1> HIDE DEF h, c, new
<1>8. heap'[a] = h /\ DOMAIN heap' = Allocs /\ \A b \in Allocs \ {a} : heap'[b] = heap[b]
  BY <1>1, <1>2 DEF MovesInv, HeapOK
<1>9. conn' \in [Socks -> [{"made", "sent", "taken", "got"} -> 0..MaxBytes]]
      /\ conn'[s] = c /\ \A t \in Socks \ {s} : conn'[t] = conn[t]
  BY <1>1, <1>2, <1>7 DEF MovesInv, TypeOK
<1>10. outSize' \in [Objs -> Nat] /\ outSize'[o] = at + 1
      /\ \A p \in Objs \ {o} : outSize'[p] = outSize[p]
  <2> HIDE DEF at
  <2> QED BY <1>1, <1>2, <1>3 DEF MovesInv, TypeOK
<1>11. UsesOnly(o)
  <2> HIDE DEF at
  <2> QED BY <1>1, <1>2, <1>3, <1>6, <1>8, <1>9, <1>10 DEF UsesOnly, MovesInv, TypeOK
<1>12. OutOf(s, at + 1, h, c)
  <2>1. at + 1 = c.made - c.sent /\ c.sent + (at + 1) = conn[s].made + 1
    BY <1>7
  <2>2. ASSUME NEW i \in 1..(at + 1) PROVE new[i] = <<s, c.sent + i>>
    <3>1. CASE i = at + 1
      BY <1>5, <2>1, <3>1
    <3>2. CASE i # at + 1
      <4>1. ~drain /\ i \in 1..outSize[o] /\ i \in (1..heap[a].size.out) \ {at + 1}
        BY <1>1, <1>3, <3>2
      <4>2. new[i] = heap[a].out[i]
        BY <1>5, <4>1
      <4>3. heap[a].out[i] = <<s, conn[s].sent + i>>
        BY <1>1, <4>1 DEF Bytes, OutOf
      <4>4. c.sent = conn[s].sent
        BY <1>7, <4>1
      <4> QED BY <4>2, <4>3, <4>4
    <3> QED BY <3>1, <3>2
  <2> QED BY <1>6, <2>1, <2>2 DEF OutOf
<1>13. Bytes(o)'
  <2>1. InOf(s, inRd[o], inSize[o], heap[a], conn[s])
    BY <1>1 DEF Bytes
  <2>2. InOf(s, inRd[o], inSize[o], h, c)
    BY <1>6, <1>7, <2>1 DEF InOf
  <2>3. /\ sock'[o] = s /\ bufferOut'[o] = a /\ bufferIn'[o] = a
        /\ inRd'[o] = inRd[o] /\ inSize'[o] = inSize[o]
    BY <1>1, <1>2
  <2> QED BY <1>8, <1>9, <1>10, <1>12, <2>2, <2>3 DEF Bytes
<1> QED BY <1>11, <1>13, UseKeeps

\* The counters of an input buffer, when k bytes more are received and one is taken.
LEMMA Counting ==
    ASSUME NEW rd \in Nat, NEW size \in Nat, NEW k \in Nat, NEW cap \in Nat,
           NEW taken \in Nat, NEW got \in Nat,
           rd <= size, size - rd = taken - got, size + k <= cap,
           NEW more, more = IF rd = size + k THEN 1 ELSE k,
           NEW rd1, rd1 = IF rd + 1 >= size + k THEN 0 ELSE rd + 1,
           NEW size1, size1 = IF rd + 1 >= size + k THEN 0 ELSE size + k
    PROVE  /\ more \in Nat /\ taken + more >= got + 1
           /\ size1 - rd1 = (taken + more) - (got + 1)
           /\ rd1 \in 0..size1 /\ size1 \in 0..cap
<1>1. CASE rd + 1 >= size + k
  <2>1. CASE rd = size + k
    BY <1>1, <2>1
  <2>2. CASE rd # size + k
    BY <1>1, <2>2
  <2> QED BY <2>1, <2>2
<1>2. CASE ~(rd + 1 >= size + k)
  BY <1>2
<1> QED BY <1>1, <1>2

LEMMA ExtractKeeps ==
    ASSUME MovesAssumption, MovesInv, NEW o \in Current, NEW k \in 0..MaxBytes, Extract(o, k)
    PROVE  MovesInv'
<1> DEFINE s == sock[o]
           a == bufferIn[o]
           rd == inRd[o]
           size == inSize[o]
           filled == size + k
           direct == rd = filled
           last == rd + 1 >= filled
           more == IF direct THEN 1 ELSE k
           new == [i \in DOMAIN heap[a].in |->
                      IF last \/ i = rd + 1 THEN Junk
                      ELSE IF i \in (size + 1)..filled
                      THEN <<s, conn[s].taken + i - size>> ELSE heap[a].in[i]]
           h == [heap[a] EXCEPT !.in = new]
           c == [conn[s] EXCEPT !.taken = @ + more, !.got = @ + 1]
           rd1 == IF last THEN 0 ELSE rd + 1
           size1 == IF last THEN 0 ELSE filled
<1>1. /\ o \in Objs /\ s \in Socks /\ a \in Allocs /\ bufferOut[o] = a
      /\ Shape(heap[a]) /\ heap[a].size = capacity[o] /\ capacity[o] \in Capacities
      /\ conn[s] \in [{"made", "sent", "taken", "got"} -> 0..MaxBytes]
      /\ outSize[o] \in 0..capacity[o].out /\ capacity[o].in \in Nat /\ Bytes(o)
      /\ rd \in 0..size /\ size \in 0..capacity[o].in /\ MaxBytes \in Nat
  BY UsedObject DEF MovesAssumption
<1>2. /\ UNCHANGED <<live, sock, bufferIn, bufferOut, capacity, outSize, stale>>
      /\ inRd' = [inRd EXCEPT ![o] = rd1] /\ inSize' = [inSize EXCEPT ![o] = size1]
      /\ heap' = [heap EXCEPT ![a] = h] /\ conn' = [conn EXCEPT ![s] = c]
      /\ filled <= capacity[o].in /\ conn[s].made + conn[s].taken + more <= MaxBytes
  BY <1>1 DEF Extract
<1>3. /\ conn[s].made \in 0..MaxBytes /\ conn[s].sent \in 0..MaxBytes
      /\ conn[s].taken \in 0..MaxBytes /\ conn[s].got \in 0..MaxBytes
  BY <1>1
<1>4. size - rd = conn[s].taken - conn[s].got
      /\ \A i \in 1..(size - rd) : heap[a].in[rd + i] = <<s, conn[s].got + i>>
  BY <1>1 DEF Bytes, InOf
<1>5. /\ rd \in Nat /\ size \in Nat /\ k \in Nat /\ rd <= size
      /\ conn[s].taken \in Nat /\ conn[s].got \in Nat
      /\ more \in Nat /\ conn[s].taken + more >= conn[s].got + 1
      /\ size1 - rd1 = (conn[s].taken + more) - (conn[s].got + 1)
      /\ rd1 \in 0..size1 /\ size1 \in 0..capacity[o].in
  <2>1. rd \in Nat /\ size \in Nat /\ k \in Nat /\ rd <= size /\ capacity[o].in \in Nat
        /\ conn[s].taken \in Nat /\ conn[s].got \in Nat /\ size + k <= capacity[o].in
        /\ size - rd = conn[s].taken - conn[s].got
    BY <1>1, <1>2, <1>3, <1>4
  <2> DEFINE cap == capacity[o].in
  <2>2. size + k <= cap /\ cap \in Nat
    BY <2>1
  <2> HIDE DEF rd, size, s, cap
  <2>3. /\ more = (IF rd = size + k THEN 1 ELSE k)
        /\ rd1 = (IF rd + 1 >= size + k THEN 0 ELSE rd + 1)
        /\ size1 = (IF rd + 1 >= size + k THEN 0 ELSE size + k)
    OBVIOUS
  <2> HIDE DEF more, rd1, size1
  <2>4. /\ more \in Nat /\ conn[s].taken + more >= conn[s].got + 1
        /\ size1 - rd1 = (conn[s].taken + more) - (conn[s].got + 1)
        /\ rd1 \in 0..size1 /\ size1 \in 0..cap
    BY <2>1, <2>2, <2>3, Counting
  <2> QED BY <2>1, <2>4 DEF cap
<1>6. conn[s].taken + more \in 0..MaxBytes /\ conn[s].got + 1 \in 0..MaxBytes
  BY <1>1, <1>2, <1>3, <1>5
<1>7. DOMAIN new = 1..heap[a].size.in
  BY <1>1 DEF Shape
<1>8. Shape(h) /\ h.size = capacity[o] /\ h.out = heap[a].out /\ h.in = new
  <2>1. Shape(heap[a]) /\ heap[a].size \in Capacities /\ heap[a].size = capacity[o]
    BY <1>1
  <2>2. DOMAIN new = 1..heap[a].size.in
    BY <1>7
  <2> HIDE DEF new, a, c, rd1, size1, more, last, direct, filled
  <2>3. Shape(h) /\ h.size = heap[a].size
    BY <2>1, <2>2, InChanged
  <2>4. h.out = heap[a].out /\ h.in = new
    BY <2>1, <2>2, InChanged
  <2> QED BY <2>1, <2>3, <2>4
<1>9. /\ c.made = conn[s].made /\ c.sent = conn[s].sent
      /\ c.taken = conn[s].taken + more /\ c.got = conn[s].got + 1
      /\ c \in [{"made", "sent", "taken", "got"} -> 0..MaxBytes]
  <2> HIDE DEF more
  <2> QED BY <1>1, <1>6
<1>10. ~last => \A i \in 1..(size1 - rd1) : new[rd1 + i] = <<s, conn[s].got + 1 + i>>
  <2> SUFFICES ASSUME ~last, NEW i \in 1..(size1 - rd1)
               PROVE  new[rd + 1 + i] = <<s, conn[s].got + 1 + i>>
    OBVIOUS
  <2>1. size1 = filled /\ rd1 = rd + 1
    OBVIOUS
  <2>2. rd + 1 + i \in DOMAIN heap[a].in /\ rd + 1 + i # rd + 1 /\ rd + 1 + i <= filled
    <3>1. i \in Nat \ {0} /\ rd + 1 + i <= filled
      BY <1>5, <2>1
    <3>2. rd + 1 + i \in 1..heap[a].size.in /\ rd + 1 + i # rd + 1
      BY <1>1, <1>2, <1>5, <3>1
    <3>3. DOMAIN heap[a].in = 1..heap[a].size.in
      BY <1>1 DEF Shape
    <3> QED BY <3>1, <3>2, <3>3
  <2>3. CASE rd + 1 + i > size
    <3>1. rd + 1 + i \in (size + 1)..filled
      BY <1>5, <2>2, <2>3
    <3>2. conn[s].taken + (rd + 1 + i) - size = conn[s].got + 1 + i
      BY <1>3, <1>4, <1>5
    <3> QED BY <2>2, <3>1, <3>2
  <2>4. CASE ~(rd + 1 + i > size)
    <3>1. rd + 1 + i \notin (size + 1)..filled /\ i + 1 \in 1..(size - rd)
          /\ rd + (i + 1) = rd + 1 + i /\ conn[s].got + (i + 1) = conn[s].got + 1 + i
      BY <1>3, <1>5, <2>4
    <3>2. new[rd + 1 + i] = heap[a].in[rd + 1 + i]
      BY <2>2, <3>1
    <3>3. heap[a].in[rd + (i + 1)] = <<s, conn[s].got + (i + 1)>>
      BY <1>4, <3>1
    <3> QED BY <3>1, <3>2, <3>3
  <2> QED BY <2>3, <2>4
<1>11. last => size1 - rd1 = 0
  OBVIOUS
<1>12. rd1 \in Nat /\ size1 \in Nat
  BY <1>1, <1>5
<1> HIDE DEF h, c, new, rd1, size1, more
<1>13. heap'[a] = h /\ DOMAIN heap' = Allocs /\ \A b \in Allocs \ {a} : heap'[b] = heap[b]
  BY <1>1, <1>2 DEF MovesInv, HeapOK
<1>14. conn' \in [Socks -> [{"made", "sent", "taken", "got"} -> 0..MaxBytes]]
      /\ conn'[s] = c /\ \A t \in Socks \ {s} : conn'[t] = conn[t]
  BY <1>1, <1>2, <1>9 DEF MovesInv, TypeOK
<1>15. /\ inRd' \in [Objs -> Nat] /\ inRd'[o] = rd1
       /\ inSize' \in [Objs -> Nat] /\ inSize'[o] = size1
       /\ \A p \in Objs \ {o} : inRd'[p] = inRd[p] /\ inSize'[p] = inSize[p]
  BY <1>1, <1>2, <1>12 DEF MovesInv, TypeOK
<1>16. UsesOnly(o)
  BY <1>1, <1>2, <1>5, <1>8, <1>13, <1>14, <1>15 DEF UsesOnly, MovesInv, TypeOK
<1>17. InOf(s, rd1, size1, h, c)
  <2>1. size1 - rd1 = c.taken - c.got
    <3> HIDE DEF s
    <3> QED BY <1>5, <1>9
  <2>2. ASSUME NEW i \in 1..(size1 - rd1) PROVE new[rd1 + i] = <<s, c.got + i>>
    <3>1. ~last
      BY <1>11
    <3> QED BY <1>9, <1>10, <3>1
  <2> QED BY <1>8, <2>1, <2>2 DEF InOf
<1>18. OutOf(s, outSize[o], h, c)
  <2>1. OutOf(s, outSize[o], heap[a], conn[s])
    BY <1>1 DEF Bytes
  <2> QED BY <1>8, <1>9, <2>1 DEF OutOf
<1>19. /\ sock'[o] = s /\ bufferOut'[o] = a /\ bufferIn'[o] = a /\ outSize'[o] = outSize[o]
  BY <1>1, <1>2
<1>20. Bytes(o)'
  BY <1>13, <1>14, <1>15, <1>17, <1>18, <1>19 DEF Bytes
<1> QED BY <1>16, <1>20, UseKeeps

-----------------------------------------------------------------------------
\* LIFE OF AN OBJECT

\* After a step, q has what p had before it.
Becomes(q, p) ==
    /\ sock'[q] = sock[p] /\ bufferIn'[q] = bufferIn[p] /\ bufferOut'[q] = bufferOut[p]
    /\ capacity'[q] = capacity[p]
    /\ inRd'[q] = inRd[p] /\ inSize'[q] = inSize[p] /\ outSize'[q] = outSize[p]
    /\ heap'[bufferIn[p]] = heap[bufferIn[p]] /\ conn'[sock[p]] = conn[sock[p]]

\* What the invariant says of one object that is used.
Whole(o) ==
    /\ sock[o] # None /\ bufferIn[o] # None /\ bufferOut[o] = bufferIn[o]
    /\ heap[bufferIn[o]].size = capacity[o]
    /\ Bytes(o)

\* ... and of all objects that exist.
Owners ==
    /\ \A o, p \in live : sock[o] # None /\ sock[o] = sock[p] => o = p
    /\ \A a \in Allocated : \E o \in live : bufferIn[o] = a
    /\ \A o, p \in live : bufferIn[o] # None /\ bufferIn[o] = bufferIn[p] => o = p
    /\ \A o \in live : bufferIn[o] # None => bufferIn[o] \in Allocated

LEMMA MovesParts ==
    MovesInv <=> TypeOK /\ HeapOK /\ Owners /\ \A o \in Current : Whole(o)
BY BytesFollow DEF MovesInv, SocksOwned, BuffersOwned, Owners, Whole

LEMMA HandedOn ==
    ASSUME MovesInv, NEW p \in Current, NEW q, Becomes(q, p)
    PROVE  Whole(q)'
<1>1. Whole(p)
  BY MovesParts
<1> QED BY <1>1 DEF Becomes, Whole, Bytes

LEMMA PartsAgain ==
    ASSUME TypeOK', HeapOK', Owners', \A o \in Current' : Whole(o)'
    PROVE  MovesInv'
<1>1. (OutputFollows /\ InputFollows)'
  BY DEF OutputFollows, InputFollows, Whole, Bytes, OutOf, InOf
<1> QED BY <1>1 DEF MovesInv, SocksOwned, BuffersOwned, Owners, Whole

LEMMA ConstructKeeps ==
    ASSUME MovesAssumption, MovesInv, NEW o \in Objs, NEW c \in Capacities, Construct(o, c)
    PROVE  MovesInv'
<1>1. PICK a \in Allocs \ Allocated, s \in Socks \ {sock[p] : p \in live} :
        /\ heap' = [heap EXCEPT ![a] = [size |-> c, in |-> Blank(c.in), out |-> Blank(c.out)]]
        /\ bufferIn' = [bufferIn EXCEPT ![o] = a] /\ bufferOut' = [bufferOut EXCEPT ![o] = a]
        /\ sock' = [sock EXCEPT ![o] = s] /\ conn' = [conn EXCEPT ![s] = Unused]
  BY DEF Construct
<1>2. /\ o \notin live /\ live' = live \cup {o} /\ stale' = stale
      /\ capacity' = [capacity EXCEPT ![o] = c] /\ inRd' = [inRd EXCEPT ![o] = 0]
      /\ inSize' = [inSize EXCEPT ![o] = 0] /\ outSize' = [outSize EXCEPT ![o] = 0]
  BY DEF Construct
<1>3. TypeOK /\ HeapOK /\ Owners
  BY MovesParts
<1>4. a # None /\ s # None /\ c.in \in Nat /\ c.out \in Nat /\ c # NoRoom
      /\ \A p \in live : bufferIn[p] # a /\ sock[p] # s
  <2>1. c.in \in Nat /\ c.out \in Nat /\ c # NoRoom
    BY RoomIs
  <2>2. a # None /\ s # None
    BY DEF Allocs, Socks, None
  <2>3. \A p \in live : bufferIn[p] # a /\ sock[p] # s
    BY <1>3, <2>2 DEF Owners
  <2> QED BY <2>1, <2>2, <2>3
<1>5. HeapOK'
  BY <1>1, <1>3 DEF HeapOK, Shape, Blank
<1>6. TypeOK'
  <2>1. Unused \in [{"made", "sent", "taken", "got"} -> 0..MaxBytes]
    <3>1. 0 \in 0..MaxBytes
      BY DEF MovesAssumption
    <3> QED BY <3>1 DEF Unused
  <2>2. conn' \in [Socks -> [{"made", "sent", "taken", "got"} -> 0..MaxBytes]]
    BY <1>1, <1>3, <2>1 DEF TypeOK
  <2>3. \A b \in Allocs : heap'[b].size \in Capacities \cup {NoRoom}
    BY <1>1, <1>3, <1>4 DEF TypeOK, HeapOK
  <2>4. live' \subseteq Objs /\ stale' \subseteq live'
    BY <1>2, <1>3 DEF TypeOK
  <2>5. /\ sock' \in [Objs -> Socks \cup {None}]
        /\ bufferIn' \in [Objs -> Allocs \cup {None}]
        /\ bufferOut' \in [Objs -> Allocs \cup {None}]
    BY <1>1, <1>3 DEF TypeOK
  <2>6. /\ capacity' \in [Objs -> Capacities \cup {NoRoom}]
        /\ inRd' \in [Objs -> Nat] /\ inSize' \in [Objs -> Nat] /\ outSize' \in [Objs -> Nat]
        /\ \A p \in Objs : /\ inSize'[p] \in 0..capacity'[p].in /\ inRd'[p] \in 0..inSize'[p]
                           /\ outSize'[p] \in 0..capacity'[p].out
    BY <1>2, <1>3, <1>4 DEF TypeOK
  <2> QED BY <2>2, <2>3, <2>4, <2>5, <2>6 DEF TypeOK
<1>7. Allocated' = Allocated \cup {a}
  <2>1. heap'[a] # Freed /\ \A b \in Allocs \ {a} : heap'[b] = heap[b]
    BY <1>1, <1>3, <1>4 DEF HeapOK, Freed
  <2> QED BY <2>1 DEF Allocated
<1>8. Owners'
  BY <1>1, <1>2, <1>3, <1>4, <1>7 DEF Owners, TypeOK
<1>9. ASSUME NEW q \in Current' PROVE Whole(q)'
  <2>1. CASE q = o
    <3>1. /\ sock'[o] = s /\ bufferIn'[o] = a /\ bufferOut'[o] = a /\ capacity'[o] = c
          /\ inRd'[o] = 0 /\ inSize'[o] = 0 /\ outSize'[o] = 0
          /\ heap'[a].size = c /\ conn'[s] = Unused
      BY <1>1, <1>2, <1>3 DEF TypeOK, HeapOK
    <3>2. OutOf(s, 0, heap'[a], Unused) /\ InOf(s, 0, 0, heap'[a], Unused)
      BY DEF OutOf, InOf, Unused
    <3> QED BY <1>4, <2>1, <3>1, <3>2 DEF Whole, Bytes
  <2>2. CASE q # o
    <3>1. q \in Current /\ q \in live /\ q \in Objs
      BY <1>2, <1>3, <2>2 DEF Current, TypeOK
    <3>2. bufferIn[q] # a /\ sock[q] # s /\ bufferIn[q] \in Allocs /\ sock[q] \in Socks
      BY <1>4, <3>1, UsedObject
    <3>3. Becomes(q, q)
      BY <1>1, <1>2, <1>3, <2>2, <3>1, <3>2 DEF Becomes, TypeOK, HeapOK
    <3> QED BY <3>1, <3>3, HandedOn
  <2> QED BY <2>1, <2>2
<1> QED BY <1>5, <1>6, <1>8, <1>9, PartsAgain

LEMMA DestroyKeeps ==
    ASSUME MovesAssumption, MovesInv, NEW o \in Objs, Destroy(o)
    PROVE  MovesInv'
<1>1. /\ o \in live /\ live' = live \ {o} /\ stale' = stale \ {o}
      /\ heap' = [a \in Allocs |-> IF a = bufferIn[o] THEN Freed ELSE heap[a]]
      /\ sock' = [sock EXCEPT ![o] = None]
      /\ bufferIn' = [bufferIn EXCEPT ![o] = None] /\ bufferOut' = [bufferOut EXCEPT ![o] = None]
      /\ capacity' = [capacity EXCEPT ![o] = NoRoom] /\ inRd' = [inRd EXCEPT ![o] = 0]
      /\ inSize' = [inSize EXCEPT ![o] = 0] /\ outSize' = [outSize EXCEPT ![o] = 0]
      /\ conn' = [t \in Socks |-> IF t = sock[o] THEN Unused ELSE conn[t]]
  BY DEF Destroy
<1>2. TypeOK /\ HeapOK /\ Owners
  BY MovesParts
<1>3. HeapOK'
  BY <1>1, <1>2 DEF HeapOK, Shape, Freed, NoRoom
<1>4. TypeOK'
  <2>1. Unused \in [{"made", "sent", "taken", "got"} -> 0..MaxBytes]
    <3>1. 0 \in 0..MaxBytes
      BY DEF MovesAssumption
    <3> QED BY <3>1 DEF Unused
  <2>2. conn' \in [Socks -> [{"made", "sent", "taken", "got"} -> 0..MaxBytes]]
    BY <1>1, <1>2, <2>1 DEF TypeOK
  <2>3. \A b \in Allocs : heap'[b].size \in Capacities \cup {NoRoom}
    BY <1>1, <1>2 DEF TypeOK, Freed
  <2>4. live' \subseteq Objs /\ stale' \subseteq live'
    BY <1>1, <1>2 DEF TypeOK
  <2>5. /\ sock' \in [Objs -> Socks \cup {None}]
        /\ bufferIn' \in [Objs -> Allocs \cup {None}]
        /\ bufferOut' \in [Objs -> Allocs \cup {None}]
    BY <1>1, <1>2 DEF TypeOK
  <2>6. /\ capacity' \in [Objs -> Capacities \cup {NoRoom}]
        /\ inRd' \in [Objs -> Nat] /\ inSize' \in [Objs -> Nat] /\ outSize' \in [Objs -> Nat]
        /\ \A p \in Objs : /\ inSize'[p] \in 0..capacity'[p].in /\ inRd'[p] \in 0..inSize'[p]
                           /\ outSize'[p] \in 0..capacity'[p].out
    BY <1>1, <1>2 DEF TypeOK, NoRoom
  <2> QED BY <2>2, <2>3, <2>4, <2>5, <2>6 DEF TypeOK
<1>5. Allocated' = Allocated \ {bufferIn[o]}
  BY <1>1 DEF Allocated
<1>6. Owners'
  BY <1>1, <1>2, <1>5 DEF Owners, TypeOK
<1>7. ASSUME NEW q \in Current' PROVE Whole(q)'
  <2>1. q \in Current /\ q \in live /\ q \in Objs /\ q # o
    BY <1>1, <1>2 DEF Current, TypeOK
  <2>2. /\ bufferIn[q] \in Allocs /\ sock[q] \in Socks /\ bufferIn[q] # None /\ sock[q] # None
    BY <2>1, UsedObject DEF Allocs, Socks, None
  <2>3. bufferIn[q] # bufferIn[o] /\ sock[q] # sock[o]
    BY <1>1, <1>2, <2>1, <2>2 DEF Owners
  <2>4. Becomes(q, q)
    BY <1>1, <1>2, <2>1, <2>2, <2>3 DEF Becomes, TypeOK
  <2> QED BY <2>1, <2>4, HandedOn
<1> QED BY <1>3, <1>4, <1>6, <1>7, PartsAgain

\* Whoever is used after a move was used before it, or has what p had.
LEMMA Heirs ==
    ASSUME NEW o \in Objs, NEW p \in Objs, o # p, Inherit(o, p), live' = live \cup {o},
           NEW q \in Current'
    PROVE  q # p /\ (q = o => p \notin stale) /\ (q # o => q \in Current)
BY DEF Inherit, Current

\* What p had, o has; what o had, if it existed, p has.
LEMMA HandedOver ==
    ASSUME NEW L, NEW f, NEW g, NEW o, NEW p \in L, o # p,
           \A x, y \in L : f[x] # None /\ f[x] = f[y] => x = y,
           g[o] = f[p], o \in L => g[p] = f[o], o \notin L => g[p] = None,
           \A x \in L \ {o, p} : g[x] = f[x]
    PROVE  /\ \A x, y \in L \cup {o} : g[x] # None /\ g[x] = g[y] => x = y
           /\ \A x \in L \cup {o} : g[x] # None => \E y \in L : f[y] = g[x]
           /\ \A y \in L : f[y] # None => \E x \in L \cup {o} : g[x] = f[y]
<1>1. CASE o \in L
  <2>1. \A x \in L : \/ x = o /\ g[x] = f[p]
                     \/ x = p /\ g[x] = f[o]
                     \/ x # o /\ x # p /\ g[x] = f[x]
    BY <1>1
  <2>2. L \cup {o} = L
    BY <1>1
  <2>3. \A x, y \in L : g[x] # None /\ g[x] = g[y] => x = y
    BY <1>1, <2>1
  <2>4. \A x \in L : g[x] # None => \E y \in L : f[y] = g[x]
    BY <1>1, <2>1
  <2>5. \A y \in L : f[y] # None => \E x \in L : g[x] = f[y]
    BY <1>1, <2>1
  <2> QED BY <2>2, <2>3, <2>4, <2>5
<1>2. CASE o \notin L
  <2>1. \A x \in L \cup {o} : \/ x = o /\ g[x] = f[p]
                              \/ x = p /\ g[x] = None
                              \/ x # o /\ x # p /\ x \in L /\ g[x] = f[x]
    BY <1>2
  <2>2. \A x, y \in L \cup {o} : g[x] # None /\ g[x] = g[y] => x = y
    BY <1>2, <2>1
  <2>3. \A x \in L \cup {o} : g[x] # None => \E y \in L : f[y] = g[x]
    BY <1>2, <2>1
  <2>4. \A y \in L : f[y] # None => \E x \in L \cup {o} : g[x] = f[y]
    BY <1>2, <2>1
  <2> QED BY <2>2, <2>3, <2>4
<1> QED BY <1>1, <1>2

\* One free and one connection for one object, before and after.
LEMMA OwnersAgain ==
    ASSUME Owners, Allocated' = Allocated, NEW o, NEW p \in live, o # p, live' = live \cup {o},
           sock'[o] = sock[p], o \in live => sock'[p] = sock[o], o \notin live => sock'[p] = None,
           \A x \in live \ {o, p} : sock'[x] = sock[x],
           bufferIn'[o] = bufferIn[p], o \in live => bufferIn'[p] = bufferIn[o],
           o \notin live => bufferIn'[p] = None,
           \A x \in live \ {o, p} : bufferIn'[x] = bufferIn[x]
    PROVE  Owners'
<1>1. \A x, y \in live : sock[x] # None /\ sock[x] = sock[y] => x = y
  BY DEF Owners
<1>2. \A x, y \in live : bufferIn[x] # None /\ bufferIn[x] = bufferIn[y] => x = y
  BY DEF Owners
<1>3. \A x, y \in live' : sock'[x] # None /\ sock'[x] = sock'[y] => x = y
  BY <1>1, HandedOver
<1>4. /\ \A x, y \in live' : bufferIn'[x] # None /\ bufferIn'[x] = bufferIn'[y] => x = y
      /\ \A x \in live' : bufferIn'[x] # None => \E y \in live : bufferIn[y] = bufferIn'[x]
      /\ \A y \in live : bufferIn[y] # None => \E x \in live' : bufferIn'[x] = bufferIn[y]
  BY <1>2, HandedOver
<1>5. \A a \in Allocated : a # None
  BY DEF Allocated, Allocs, None
<1>6. \A a \in Allocated' : \E x \in live' : bufferIn'[x] = a
  <2> SUFFICES ASSUME NEW a \in Allocated PROVE \E x \in live' : bufferIn'[x] = a
    OBVIOUS
  <2>1. PICK y \in live : bufferIn[y] = a
    BY DEF Owners
  <2> QED BY <1>4, <1>5, <2>1
<1>7. \A x \in live' : bufferIn'[x] # None => bufferIn'[x] \in Allocated'
  BY <1>4 DEF Owners
<1> QED BY <1>3, <1>4, <1>6, <1>7 DEF Owners

LEMMA MoveConstructKeeps ==
    ASSUME MovesAssumption, MovesInv, NEW o \in Objs, NEW p \in Objs, MoveConstruct(o, p)
    PROVE  MovesInv'
<1>1. /\ o \notin live /\ p \in live /\ live' = live \cup {o}
      /\ sock' = [sock EXCEPT ![o] = sock[p], ![p] = None]
      /\ bufferIn' = [bufferIn EXCEPT ![o] = bufferIn[p], ![p] = None]
      /\ bufferOut' = [bufferOut EXCEPT ![o] = bufferOut[p]]
      /\ CopyCounters(o, p) /\ Inherit(o, p) /\ heap' = heap /\ conn' = conn
  BY DEF MoveConstruct
<1>2. TypeOK /\ HeapOK /\ Owners
  BY MovesParts
<1>3. o # p
  BY <1>1
<1>4. HeapOK' /\ Allocated' = Allocated
  BY <1>1, <1>2 DEF HeapOK, Allocated
<1>5. TypeOK'
  <2>1. live' \subseteq Objs /\ stale' \subseteq live'
    BY <1>1, <1>2 DEF TypeOK, Inherit
  <2>2. /\ sock' \in [Objs -> Socks \cup {None}]
        /\ bufferIn' \in [Objs -> Allocs \cup {None}]
        /\ bufferOut' \in [Objs -> Allocs \cup {None}]
    BY <1>1, <1>2 DEF TypeOK
  <2>3. /\ capacity' \in [Objs -> Capacities \cup {NoRoom}]
        /\ inRd' \in [Objs -> Nat] /\ inSize' \in [Objs -> Nat] /\ outSize' \in [Objs -> Nat]
        /\ \A x \in Objs : /\ inSize'[x] \in 0..capacity'[x].in /\ inRd'[x] \in 0..inSize'[x]
                           /\ outSize'[x] \in 0..capacity'[x].out
    BY <1>1, <1>2, <1>3 DEF TypeOK, CopyCounters
  <2> QED BY <1>1, <1>2, <2>1, <2>2, <2>3 DEF TypeOK
<1>6. /\ sock'[o] = sock[p] /\ sock'[p] = None
      /\ bufferIn'[o] = bufferIn[p] /\ bufferIn'[p] = None
      /\ \A x \in live \ {o, p} : sock'[x] = sock[x] /\ bufferIn'[x] = bufferIn[x]
  BY <1>1, <1>2, <1>3 DEF TypeOK
<1>7. Owners'
  BY <1>1, <1>2, <1>3, <1>4, <1>6, OwnersAgain
<1>8. ASSUME NEW q \in Current' PROVE Whole(q)'
  <2>1. q # p /\ (q = o => p \in Current) /\ (q # o => q \in Current)
    BY <1>1, <1>3, Heirs DEF Current
  <2>2. CASE q = o
    <3>1. Becomes(q, p)
      BY <1>1, <1>2, <1>3, <2>2 DEF Becomes, TypeOK, CopyCounters
    <3> QED BY <2>1, <2>2, <3>1, HandedOn
  <2>3. CASE q # o
    <3>1. q \in Objs
      BY <2>1, <2>3, <1>2 DEF Current, TypeOK
    <3>2. Becomes(q, q)
      BY <1>1, <1>2, <2>1, <2>3, <3>1 DEF Becomes, TypeOK, CopyCounters
    <3> QED BY <2>1, <2>3, <3>2, HandedOn
  <2> QED BY <2>2, <2>3
<1> QED BY <1>4, <1>5, <1>7, <1>8, PartsAgain

LEMMA MoveAssignKeeps ==
    ASSUME MovesAssumption, MovesInv, NEW o \in Objs, NEW p \in Objs, MoveAssign(o, p)
    PROVE  MovesInv'
<1>1. /\ o \in live /\ p \in live /\ live' = live /\ live' = live \cup {o}
      /\ sock' = [sock EXCEPT ![o] = sock[p], ![p] = sock[o]]
      /\ bufferIn' = [bufferIn EXCEPT ![o] = bufferIn[p], ![p] = bufferIn[o]]
      /\ bufferOut' = [bufferOut EXCEPT ![o] = bufferOut[p], ![p] = bufferOut[o]]
      /\ CopyCounters(o, p) /\ Inherit(o, p) /\ heap' = heap /\ conn' = conn
  BY DEF MoveAssign, Swapped
<1>2. TypeOK /\ HeapOK /\ Owners
  BY MovesParts
<1>3. o # p
  BY DEF MoveAssign
<1>4. HeapOK' /\ Allocated' = Allocated
  BY <1>1, <1>2 DEF HeapOK, Allocated
<1>5. TypeOK'
  <2>1. live' \subseteq Objs /\ stale' \subseteq live'
    BY <1>1, <1>2 DEF TypeOK, Inherit
  <2>2. /\ sock' \in [Objs -> Socks \cup {None}]
        /\ bufferIn' \in [Objs -> Allocs \cup {None}]
        /\ bufferOut' \in [Objs -> Allocs \cup {None}]
    BY <1>1, <1>2 DEF TypeOK
  <2>3. /\ capacity' \in [Objs -> Capacities \cup {NoRoom}]
        /\ inRd' \in [Objs -> Nat] /\ inSize' \in [Objs -> Nat] /\ outSize' \in [Objs -> Nat]
        /\ \A x \in Objs : /\ inSize'[x] \in 0..capacity'[x].in /\ inRd'[x] \in 0..inSize'[x]
                           /\ outSize'[x] \in 0..capacity'[x].out
    BY <1>1, <1>2, <1>3 DEF TypeOK, CopyCounters
  <2> QED BY <1>1, <1>2, <2>1, <2>2, <2>3 DEF TypeOK
<1>6. /\ sock'[o] = sock[p] /\ sock'[p] = sock[o]
      /\ bufferIn'[o] = bufferIn[p] /\ bufferIn'[p] = bufferIn[o]
      /\ \A x \in live \ {o, p} : sock'[x] = sock[x] /\ bufferIn'[x] = bufferIn[x]
  BY <1>1, <1>2, <1>3 DEF TypeOK
<1>7. Owners'
  BY <1>1, <1>2, <1>3, <1>4, <1>6, OwnersAgain
<1>8. ASSUME NEW q \in Current' PROVE Whole(q)'
  <2>1. q # p /\ (q = o => p \in Current) /\ (q # o => q \in Current)
    BY <1>1, <1>3, Heirs DEF Current
  <2>2. CASE q = o
    <3>1. Becomes(q, p)
      BY <1>1, <1>2, <1>3, <2>2 DEF Becomes, TypeOK, CopyCounters
    <3> QED BY <2>1, <2>2, <3>1, HandedOn
  <2>3. CASE q # o
    <3>1. q \in Objs
      BY <2>1, <2>3, <1>2 DEF Current, TypeOK
    <3>2. Becomes(q, q)
      BY <1>1, <1>2, <2>1, <2>3, <3>1 DEF Becomes, TypeOK, CopyCounters
    <3> QED BY <2>1, <2>3, <3>2, HandedOn
  <2> QED BY <2>2, <2>3
<1> QED BY <1>4, <1>5, <1>7, <1>8, PartsAgain

-----------------------------------------------------------------------------
\* THE SPECIFICATION

LEMMA MovesInit == ASSUME MovesAssumption, Init PROVE MovesInv
<1>1. 0 \in 0..MaxBytes
  BY DEF MovesAssumption
<1>2. Current = {} /\ Allocated = {}
  BY DEF Init, Current, Allocated
<1>3. TypeOK
  BY <1>1 DEF Init, TypeOK, Freed, NoRoom, Unused
<1>4. HeapOK
  BY DEF Init, HeapOK, Shape, Freed, NoRoom
<1> QED BY <1>2, <1>3, <1>4 DEF Init, MovesInv, SocksOwned, BuffersOwned, OutputFollows, InputFollows

LEMMA MovesStep == ASSUME MovesAssumption, MovesInv, [Next]_vars PROVE MovesInv'
<1>1. CASE UNCHANGED vars
  <2> USE <1>1 DEF vars, fields
  <2>1. TypeOK' /\ HeapOK' /\ Allocated' = Allocated /\ Current' = Current
    BY DEF MovesInv, TypeOK, HeapOK, Allocated, Current
  <2> QED BY <2>1 DEF MovesInv, SocksOwned, BuffersOwned, OutputFollows, InputFollows
<1>2. CASE Next
  <2>1. PICK o \in Objs :
          \/ \E c \in Capacities : Construct(o, c)
          \/ \E p \in Objs : MoveConstruct(o, p) \/ MoveAssign(o, p)
          \/ Destroy(o)
          \/ Insert(o) \/ Flush(o) \/ \E k \in 0..MaxBytes : Extract(o, k)
    BY <1>2 DEF Next
  <2>2. CASE \E c \in Capacities : Construct(o, c)
    BY <2>2, ConstructKeeps
  <2>3. CASE \E p \in Objs : MoveConstruct(o, p)
    BY <2>3, MoveConstructKeeps
  <2>4. CASE \E p \in Objs : MoveAssign(o, p)
    BY <2>4, MoveAssignKeeps
  <2>5. CASE Destroy(o)
    BY <2>5, DestroyKeeps
  <2>6. CASE Insert(o)
    <3>1. o \in Current
      BY <2>6 DEF Insert
    <3> QED BY <2>6, <3>1, InsertKeeps
  <2>7. CASE Flush(o)
    <3>1. o \in Current
      BY <2>7 DEF Flush
    <3> QED BY <2>7, <3>1, FlushKeeps
  <2>8. CASE \E k \in 0..MaxBytes : Extract(o, k)
    <3>1. o \in Current
      BY <2>8 DEF Extract
    <3> QED BY <2>8, <3>1, ExtractKeeps
  <2> QED BY <2>1, <2>2, <2>3, <2>4, <2>5, <2>6, <2>7, <2>8
<1> QED BY <1>1, <1>2

LEMMA MovesAlways == ASSUME MovesAssumption PROVE Spec => []MovesInv
<1>1. Init => MovesInv
  BY MovesInit
<1>2. MovesInv /\ [Next]_vars => MovesInv'
  BY MovesStep
<1> QED BY <1>1, <1>2, PTL DEF Spec

\* The constructors, move constructor, move assignment and destructor of
\* buffered_socket free every allocation once, and an object that is used has the
\* two halves of one allocation, as large as its capacities say.
THEOREM OneFree == ASSUME MovesAssumption PROVE Spec => []BuffersOwned
<1>1. MovesInv => BuffersOwned
  BY DEF MovesInv
<1> QED BY <1>1, MovesAlways, PTL

\* Bytes that were inserted and are not sent stay with the connection, in order,
\* through every move of buffered_socket.
THEOREM OutputStays == ASSUME MovesAssumption PROVE Spec => []OutputFollows
<1>1. MovesInv => OutputFollows
  BY DEF MovesInv
<1> QED BY <1>1, MovesAlways, PTL

\* Bytes that were received and are not extracted stay with the connection, in
\* order, through every move of buffered_socket.
THEOREM InputStays == ASSUME MovesAssumption PROVE Spec => []InputFollows
<1>1. MovesInv => InputFollows
  BY DEF MovesInv
<1> QED BY <1>1, MovesAlways, PTL

\* The counters and pointers of buffered_socket stay in their ranges.
THEOREM MovesTypeCorrect == ASSUME MovesAssumption PROVE Spec => []TypeOK
<1>1. MovesInv => TypeOK
  BY DEF MovesInv
<1> QED BY <1>1, MovesAlways, PTL
=============================================================================
