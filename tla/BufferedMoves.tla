---------------------------- MODULE BufferedMoves ---------------------------
(***************************************************************************)
(* Moves of fd::easy::buffered_socket: the socket and the two buffers of   *)
(* an object, which are one allocation, are handed from object to object,  *)
(* while capacities, indexes and sizes are copied.  Inserting, flushing    *)
(* and extracting are reduced to what they do to these; BufferedOutput and *)
(* BufferedInput have the rest of them.                                    *)
(*                                                                         *)
(* The i-th byte inserted for a connection, or received on it, is <<s, i>> *)
(* where s is the connection; a byte taken out of a buffer is Junk from    *)
(* then on.  An object that was moved from is destroyed, moved from again  *)
(* or assigned to, and not used otherwise.                                 *)
(***************************************************************************)
EXTENDS Integers, FiniteSetsExt

CONSTANTS
    Objs,       \* the places objects live in
    Capacities, \* sizes of the input and the output buffer, as objects are given them
    MaxBytes    \* bound: bytes inserted for and received on a connection, together

MovesAssumption ==
    /\ Capacities \subseteq [in : Nat, out : Nat \ {0, 1}]
    /\ MaxBytes \in Nat
    /\ IsFiniteSet(Objs)

VARIABLES
    live,      \* objects that exist
    sock,      \* _socket: the connection, or None
    bufferIn,  \* _buffer_in: an allocation, or None
    bufferOut, \* _buffer_out, named by the allocation it points into
    capacity,  \* _in_capacity and _out_capacity, as a record
    inRd, inSize, outSize, \* _in_rd, _in_size, _out_size
    heap,      \* what the allocations hold, Freed for those that are not in use
    conn,      \* bytes inserted, sent, received and extracted, by connection (history)
    stale      \* objects that were moved from (history)

fields == <<sock, bufferIn, bufferOut, capacity, inRd, inSize, outSize>>
vars == <<live, fields, heap, conn, stale>>

None == 0
Allocs == 1..Cardinality(Objs)   \* as many as there are objects
Socks == 1..Cardinality(Objs)
NoRoom == [in |-> 0, out |-> 0]
Freed == [size |-> NoRoom, in |-> <<>>, out |-> <<>>]
Unused == [made |-> 0, sent |-> 0, taken |-> 0, got |-> 0]
Junk == <<None, 0>>

Allocated == {a \in Allocs : heap[a] # Freed}
Current == live \ stale

TypeOK ==
    /\ live \subseteq Objs /\ stale \subseteq live
    /\ sock \in [Objs -> Socks \cup {None}]
    /\ bufferIn \in [Objs -> Allocs \cup {None}]
    /\ bufferOut \in [Objs -> Allocs \cup {None}]
    /\ capacity \in [Objs -> Capacities \cup {NoRoom}]
    /\ inRd \in [Objs -> Nat] /\ inSize \in [Objs -> Nat] /\ outSize \in [Objs -> Nat]
    /\ \A o \in Objs : /\ inSize[o] \in 0..capacity[o].in /\ inRd[o] \in 0..inSize[o]
                       /\ outSize[o] \in 0..capacity[o].out
    /\ \A a \in Allocs : heap[a].size \in Capacities \cup {NoRoom}
    /\ conn \in [Socks -> [{"made", "sent", "taken", "got"} -> 0..MaxBytes]]

Init ==
    /\ live = {} /\ stale = {}
    /\ sock = [o \in Objs |-> None]
    /\ bufferIn = [o \in Objs |-> None] /\ bufferOut = [o \in Objs |-> None]
    /\ capacity = [o \in Objs |-> NoRoom] /\ inRd = [o \in Objs |-> 0]
    /\ inSize = [o \in Objs |-> 0] /\ outSize = [o \in Objs |-> 0]
    /\ heap = [a \in Allocs |-> Freed]
    /\ conn = [s \in Socks |-> Unused]

-----------------------------------------------------------------------------
\* LIFE OF AN OBJECT

Blank(c) == [i \in 1..c |-> Junk]

\* Allocations and connections have no order: the least name that is free is as
\* good as any.
Construct(o, c) ==
    /\ o \notin live /\ live' = live \cup {o}
    /\ \E a \in Allocs \ Allocated, s \in Socks \ {sock[p] : p \in live} :
          /\ a = Min(Allocs \ Allocated) /\ s = Min(Socks \ {sock[p] : p \in live})
          /\ heap' = [heap EXCEPT ![a] = [size |-> c, in |-> Blank(c.in), out |-> Blank(c.out)]]
          /\ bufferIn' = [bufferIn EXCEPT ![o] = a]
          /\ bufferOut' = [bufferOut EXCEPT ![o] = a]
          /\ sock' = [sock EXCEPT ![o] = s]
          /\ conn' = [conn EXCEPT ![s] = Unused]
    /\ capacity' = [capacity EXCEPT ![o] = c] /\ inRd' = [inRd EXCEPT ![o] = 0]
    /\ inSize' = [inSize EXCEPT ![o] = 0] /\ outSize' = [outSize EXCEPT ![o] = 0]
    /\ UNCHANGED stale

\* The counters o is given of p.
CopyCounters(o, p) ==
    /\ capacity' = [capacity EXCEPT ![o] = capacity[p]]
    /\ inRd' = [inRd EXCEPT ![o] = inRd[p]]
    /\ inSize' = [inSize EXCEPT ![o] = inSize[p]]
    /\ outSize' = [outSize EXCEPT ![o] = outSize[p]]

\* o is as stale as p was, and p is stale.
Inherit(o, p) == stale' = (IF p \in stale THEN stale \cup {o} ELSE stale \ {o}) \cup {p}

\* Wrong variant: other._buffer_in is left alone.
MoveConstructShares(o, p) ==
    /\ o \notin live /\ p \in live /\ live' = live \cup {o}
    /\ sock' = [sock EXCEPT ![o] = sock[p], ![p] = None]
    /\ bufferIn' = [bufferIn EXCEPT ![o] = bufferIn[p]]
    /\ bufferOut' = [bufferOut EXCEPT ![o] = bufferOut[p]]
    /\ CopyCounters(o, p) /\ Inherit(o, p)
    /\ UNCHANGED <<heap, conn>>

\* buffered_socket(buffered_socket &&): p keeps its counters, and _buffer_out.
MoveConstruct(o, p) ==
    /\ o \notin live /\ p \in live /\ live' = live \cup {o}
    /\ sock' = [sock EXCEPT ![o] = sock[p], ![p] = None]
    /\ bufferIn' = [bufferIn EXCEPT ![o] = bufferIn[p], ![p] = None]
    /\ bufferOut' = [bufferOut EXCEPT ![o] = bufferOut[p]]
    /\ CopyCounters(o, p) /\ Inherit(o, p)
    /\ UNCHANGED <<heap, conn>>

Swapped(f, o, p) == [f EXCEPT ![o] = f[p], ![p] = f[o]]

\* Wrong variants: _out_size is not assigned; _in_rd and _in_size are not.
MoveAssignKeepsOut(o, p) ==
    /\ o # p /\ {o, p} \subseteq live
    /\ sock' = Swapped(sock, o, p)
    /\ bufferIn' = Swapped(bufferIn, o, p) /\ bufferOut' = Swapped(bufferOut, o, p)
    /\ capacity' = [capacity EXCEPT ![o] = capacity[p]]
    /\ inRd' = [inRd EXCEPT ![o] = inRd[p]] /\ inSize' = [inSize EXCEPT ![o] = inSize[p]]
    /\ Inherit(o, p)
    /\ UNCHANGED <<live, outSize, heap, conn>>

MoveAssignKeepsIn(o, p) ==
    /\ o # p /\ {o, p} \subseteq live
    /\ sock' = Swapped(sock, o, p)
    /\ bufferIn' = Swapped(bufferIn, o, p) /\ bufferOut' = Swapped(bufferOut, o, p)
    /\ capacity' = [capacity EXCEPT ![o] = capacity[p]]
    /\ outSize' = [outSize EXCEPT ![o] = outSize[p]]
    /\ Inherit(o, p)
    /\ UNCHANGED <<live, inRd, inSize, heap, conn>>

\* operator=(buffered_socket &&): the socket and the buffers are swapped, the
\* counters copied: p is left with its own counters and the buffers of o.
MoveAssign(o, p) ==
    /\ o # p /\ {o, p} \subseteq live
    /\ sock' = Swapped(sock, o, p)
    /\ bufferIn' = Swapped(bufferIn, o, p) /\ bufferOut' = Swapped(bufferOut, o, p)
    /\ CopyCounters(o, p) /\ Inherit(o, p)
    /\ UNCHANGED <<live, heap, conn>>

\* ~buffered_socket(): the buffers are freed, if there are any, and the socket closed.
Destroy(o) ==
    /\ o \in live /\ live' = live \ {o} /\ stale' = stale \ {o}
    /\ heap' = [a \in Allocs |-> IF a = bufferIn[o] THEN Freed ELSE heap[a]]
    /\ sock' = [sock EXCEPT ![o] = None]
    /\ bufferIn' = [bufferIn EXCEPT ![o] = None]
    /\ bufferOut' = [bufferOut EXCEPT ![o] = None]
    /\ capacity' = [capacity EXCEPT ![o] = NoRoom] /\ inRd' = [inRd EXCEPT ![o] = 0]
    /\ inSize' = [inSize EXCEPT ![o] = 0] /\ outSize' = [outSize EXCEPT ![o] = 0]
    /\ conn' = [s \in Socks |-> IF s = sock[o] THEN Unused ELSE conn[s]]

-----------------------------------------------------------------------------
\* USE OF AN OBJECT

\* One byte is inserted: it is buffered, behind draining the buffer if need be.
Insert(o) ==
    /\ o \in Current
    /\ LET s == sock[o]
           drain == outSize[o] + 1 >= capacity[o].out
           at == IF drain THEN 0 ELSE outSize[o]
       IN /\ conn[s].made + conn[s].taken < MaxBytes
          /\ heap' = [heap EXCEPT ![bufferOut[o]].out =
                        [IF drain THEN Blank(heap[bufferOut[o]].size.out) ELSE @
                           EXCEPT ![at + 1] = <<s, conn[s].made + 1>>]]
          /\ outSize' = [outSize EXCEPT ![o] = at + 1]
          /\ conn' = [conn EXCEPT ![s].made = @ + 1,
                                  ![s].sent = IF drain THEN @ + outSize[o] ELSE @]
    /\ UNCHANGED <<live, sock, bufferIn, bufferOut, capacity, inRd, inSize, stale>>

Flush(o) ==
    /\ o \in Current
    /\ conn' = [conn EXCEPT ![sock[o]].sent = @ + outSize[o]]
    /\ outSize' = [outSize EXCEPT ![o] = 0]
    /\ heap' = [heap EXCEPT ![bufferOut[o]].out = Blank(heap[bufferOut[o]].size.out)]
    /\ UNCHANGED <<live, sock, bufferIn, bufferOut, capacity, inRd, inSize, stale>>

\* One byte is extracted, after k bytes were received behind those in the buffer,
\* or straight from the socket when there is none.
Extract(o, k) ==
    /\ o \in Current
    /\ LET s == sock[o]
           filled == inSize[o] + k
           direct == inRd[o] = filled
           last == inRd[o] + 1 >= filled
       IN /\ filled <= capacity[o].in
          /\ conn[s].made + conn[s].taken + (IF direct THEN 1 ELSE k) <= MaxBytes
          /\ heap' = [heap EXCEPT ![bufferIn[o]].in =
                        [i \in DOMAIN @ |->
                           IF last \/ i = inRd[o] + 1 THEN Junk
                           ELSE IF i \in (inSize[o] + 1)..filled
                           THEN <<s, conn[s].taken + i - inSize[o]>> ELSE @[i]]]
          /\ inRd' = [inRd EXCEPT ![o] = IF last THEN 0 ELSE @ + 1]
          /\ inSize' = [inSize EXCEPT ![o] = IF last THEN 0 ELSE filled]
          /\ conn' = [conn EXCEPT ![s].taken = @ + (IF direct THEN 1 ELSE k), ![s].got = @ + 1]
    /\ UNCHANGED <<live, sock, bufferIn, bufferOut, capacity, outSize, stale>>

Next ==
    \E o \in Objs :
        \/ \E c \in Capacities : Construct(o, c)
        \/ \E p \in Objs : MoveConstruct(o, p) \/ MoveAssign(o, p)
        \/ Destroy(o)
        \/ Insert(o) \/ Flush(o) \/ \E k \in 0..MaxBytes : Extract(o, k)

Spec == Init /\ [][Next]_vars

-----------------------------------------------------------------------------
\* PROPERTIES

\* Every allocation is freed once, by one object, whatever was moved where; the
\* two pointers of an object that is in use lead to the one it owns, which is as
\* large as the object believes.
BuffersOwned ==
    /\ \A a \in Allocated : \E o \in live : bufferIn[o] = a
    /\ \A o, p \in live : bufferIn[o] # None /\ bufferIn[o] = bufferIn[p] => o = p
    /\ \A o \in live : bufferIn[o] # None => bufferIn[o] \in Allocated
    /\ \A o \in Current : /\ bufferIn[o] # None /\ bufferOut[o] = bufferIn[o]
                          /\ heap[bufferIn[o]].size = capacity[o]

\* What was inserted for a connection and is not sent is in the output buffer of
\* the object that has the connection now, in order and complete.
OutputFollows ==
    \A o \in Current :
        LET c == conn[sock[o]] IN
          /\ outSize[o] = c.made - c.sent
          /\ \A i \in 1..outSize[o] : heap[bufferOut[o]].out[i] = <<sock[o], c.sent + i>>

\* What was received on a connection and is not extracted is where the object
\* that has the connection now will look for it.
InputFollows ==
    \A o \in Current :
        LET c == conn[sock[o]] IN
          /\ inSize[o] - inRd[o] = c.taken - c.got
          /\ \A i \in 1..(inSize[o] - inRd[o]) :
                heap[bufferIn[o]].in[inRd[o] + i] = <<sock[o], c.got + i>>
=============================================================================
