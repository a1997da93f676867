--------------------------- MODULE Process_proofs ---------------------------
(***************************************************************************)
(* What the objects of one process own, for any number of objects,         *)
(* descriptors, interest lists, regions and any lengths.                   *)
(*                                                                         *)
(* Descriptors: every object has a number of its own, which leads to the   *)
(* file the object was made for, and no open number is without an object.  *)
(* Epoll: it reports numbers of objects made for the very file an event is *)
(* about.  A step gives at most one number another file, and while no two  *)
(* numbers lead to one file the entry of the file that number led to goes  *)
(* with it.  Mappings: a region is unmapped once, whole, by the object     *)
(* that has it.  The process: what is proved of its parts holds in it,     *)
(* since its behaviours are theirs; so does what BufferedMoves_proofs says *)
(* of buffered sockets, of which there is an instance.                     *)
(***************************************************************************)
EXTENDS Process, TLAPS

-----------------------------------------------------------------------------
\* DESCRIPTORS.  The objects of one process, with any files, without an epoll.

IInv == TypeOK /\ NoLeak /\ Exclusive /\ LeadsToOwnFile

-----------------------------------------------------------------------------
\* TYPES

LEMMA InitTypes == Init => TypeOK
<1> SUFFICES ASSUME Init PROVE TypeOK
  OBVIOUS
<1>1. kind \in Seq(Classes) /\ Len(kind) = files
  BY DEF Init
<1>2. /\ live \in [Objs -> Classes \cup {Dead}]
      /\ fd \in [Objs -> Numbers \cup {NoFd}]
      /\ \A o \in Objs : live[o] = Dead => fd[o] = NoFd
  BY DEF Init
<1>3. 0 \in 0..MaxFiles
  BY DescriptorAssumption
<1>4. /\ table \in [Numbers -> 0..MaxFiles] /\ meant \in [Objs -> 0..MaxFiles]
      /\ files \in 0..MaxFiles
  BY <1>3 DEF Init, Closed, NoFile
<1>5. aliased \in BOOLEAN
  BY DEF Init
<1> QED BY <1>1, <1>2, <1>4, <1>5 DEF TypeOK

\* An object comes to life with a number of the table, for a file.
LEMMA ConstructTypes ==
    ASSUME TypeOK, NEW o \in Objs, NEW c \in Classes, NEW f \in Numbers \cup {NoFd},
           NEW x \in 0..MaxFiles, Construct(o, c, f, x)
    PROVE  /\ live' \in [Objs -> Classes \cup {Dead}]
           /\ fd' \in [Objs -> Numbers \cup {NoFd}]
           /\ meant' \in [Objs -> 0..MaxFiles]
           /\ \A p \in Objs : live'[p] = Dead => fd'[p] = NoFd
BY DescriptorAssumption DEF TypeOK, Construct, Dead

LEMMA NextTypes == ASSUME TypeOK, Next PROVE TypeOK'
<1> USE DescriptorAssumption
<1>1. ASSUME NEW o \in Objs, NEW c \in Classes, Create(o, c) PROVE TypeOK'
  <2>1. PICK f \in Lowest : /\ table' = [table EXCEPT ![f] = files + 1]
                            /\ Construct(o, c, f, files + 1)
    BY <1>1 DEF Create
  <2>2. f \in Numbers /\ files + 1 \in 0..MaxFiles /\ files' = files + 1
    BY <1>1 DEF Create, Lowest, Free, TypeOK
  <2>3. /\ live' \in [Objs -> Classes \cup {Dead}]
        /\ fd' \in [Objs -> Numbers \cup {NoFd}]
        /\ meant' \in [Objs -> 0..MaxFiles]
        /\ \A p \in Objs : live'[p] = Dead => fd'[p] = NoFd
    BY <2>1, <2>2, ConstructTypes
  <2>4. kind' \in Seq(Classes) /\ Len(kind') = files'
    BY <1>1, <2>2 DEF Create, TypeOK
  <2>5. table' \in [Numbers -> 0..MaxFiles]
    BY <2>1, <2>2 DEF TypeOK
  <2> QED BY <1>1, <2>2, <2>3, <2>4, <2>5 DEF TypeOK, Create
<1>2. ASSUME NEW o \in Objs, Destroy(o) PROVE TypeOK'
  BY <1>2 DEF TypeOK, Destroy, NoFd, NoFile, Closed, Dead
<1>3. ASSUME NEW o \in Objs, NEW p \in Objs, NEW c \in Classes, MoveConstruct(o, p, c)
      PROVE  TypeOK'
  <2>1. o # p /\ fd[o] = NoFd /\ c # Dead
    BY <1>3 DEF TypeOK, MoveConstruct, Dead
  <2>2. /\ live' \in [Objs -> Classes \cup {Dead}]
        /\ live'[o] = c /\ \A q \in Objs \ {o} : live'[q] = live[q]
    BY <1>3 DEF TypeOK, MoveConstruct
  <2>3. /\ fd' \in [Objs -> Numbers \cup {NoFd}]
        /\ fd'[p] = NoFd /\ \A q \in Objs \ {o, p} : fd'[q] = fd[q]
    BY <1>3, <2>1 DEF TypeOK, MoveConstruct
  <2>4. meant' \in [Objs -> 0..MaxFiles]
    BY <1>3 DEF TypeOK, MoveConstruct, NoFile
  <2> QED BY <1>3, <2>1, <2>2, <2>3, <2>4 DEF TypeOK, MoveConstruct
<1>4. ASSUME NEW o \in Objs, NEW p \in Objs, MoveAssign(o, p) PROVE TypeOK'
  BY <1>4 DEF TypeOK, MoveAssign, Dead
<1>5. ASSUME NEW o \in Objs, NEW p \in Objs, Dup(o, p) PROVE TypeOK'
  <2>1. PICK f \in Lowest : /\ table' = [table EXCEPT ![f] = table[fd[p]]]
                            /\ Construct(o, live[p], f, meant[p])
    BY <1>5 DEF Dup
  <2>2. f \in Numbers /\ fd[p] \in Numbers /\ live[p] \in Classes
        /\ meant[p] \in 0..MaxFiles
    BY <1>5, <2>1 DEF Dup, Opens, Lowest, Free, TypeOK
  <2>3. /\ live' \in [Objs -> Classes \cup {Dead}]
        /\ fd' \in [Objs -> Numbers \cup {NoFd}]
        /\ meant' \in [Objs -> 0..MaxFiles]
        /\ \A q \in Objs : live'[q] = Dead => fd'[q] = NoFd
    BY <2>1, <2>2, ConstructTypes
  <2> QED BY <1>5, <2>1, <2>2, <2>3 DEF TypeOK, Dup
<1>6. ASSUME NEW o \in Objs, NEW p \in Objs, DupFile(o, p) PROVE TypeOK'
  <2>1. /\ "file" \in Classes /\ fd[p] \in Numbers \cup {NoFd}
        /\ meant[p] \in 0..MaxFiles
    BY <1>6 DEF TypeOK, DupFile, Dead
  <2>2. /\ live' \in [Objs -> Classes \cup {Dead}]
        /\ fd' \in [Objs -> Numbers \cup {NoFd}]
        /\ meant' \in [Objs -> 0..MaxFiles]
        /\ \A q \in Objs : live'[q] = Dead => fd'[q] = NoFd
    BY <1>6, <2>1, ConstructTypes DEF DupFile
  <2> QED BY <1>6, <2>2 DEF TypeOK, DupFile
<1>7. ASSUME NEW o \in Objs, NEW p \in Objs, Dup2(o, p) PROVE TypeOK'
  BY <1>7 DEF TypeOK, Dup2, Opens
<1> QED BY <1>1, <1>2, <1>3, <1>4, <1>5, <1>6, <1>7 DEF Next

-----------------------------------------------------------------------------
\* OWNERSHIP, one lemma for each operation

\* o, which owned nothing, comes to own the free number f, for the file x behind it.
LEMMA ConstructOwns ==
    ASSUME IInv, NEW o \in Objs, NEW c, NEW f \in Numbers, NEW x \in 1..MaxFiles,
           table[f] = Closed, table' = [table EXCEPT ![f] = x],
           Construct(o, c, f, x), aliased' = aliased
    PROVE  NoLeak' /\ Exclusive' /\ LeadsToOwnFile'
<1> USE DescriptorAssumption
<1>1. /\ fd[o] = NoFd /\ fd'[o] = f /\ meant'[o] = x /\ f # NoFd
      /\ \A p \in Objs \ {o} : fd'[p] = fd[p] /\ meant'[p] = meant[p]
  BY DEF IInv, TypeOK, Construct, NoFd
<1>2. table'[f] = x /\ \A g \in Numbers \ {f} : table'[g] = table[g]
  BY DEF IInv, TypeOK
<1>3. NoLeak'
  BY <1>1, <1>2 DEF IInv, NoLeak, Owners
<1>4. ~aliased => \A p \in Owners : fd[p] \in Numbers /\ fd[p] # f
  BY DEF IInv, TypeOK, Owners, LeadsToOwnFile, NoFile, Closed
<1>5. Exclusive'
  BY <1>1, <1>4 DEF IInv, Exclusive, Owners
<1>6. LeadsToOwnFile'
  BY <1>1, <1>2, <1>4 DEF IInv, LeadsToOwnFile, Owners, NoFile
<1> QED BY <1>3, <1>5, <1>6

LEMMA CreateOwns ==
    ASSUME IInv, NEW o \in Objs, NEW c \in Classes, Create(o, c)
    PROVE  NoLeak' /\ Exclusive' /\ LeadsToOwnFile'
<1>1. PICK f \in Lowest : /\ table' = [table EXCEPT ![f] = files + 1]
                          /\ Construct(o, c, f, files + 1)
  BY DEF Create
<1>2. f \in Numbers /\ table[f] = Closed
  BY DEF Lowest, Free
<1>3. files + 1 \in 1..MaxFiles /\ aliased' = aliased
  BY DescriptorAssumption DEF Create, IInv, TypeOK
<1> QED BY <1>1, <1>2, <1>3, ConstructOwns

LEMMA DestroyOwns ==
    ASSUME IInv, NEW o \in Objs, Destroy(o)
    PROVE  NoLeak' /\ Exclusive' /\ LeadsToOwnFile'
<1> USE DescriptorAssumption DEF IInv, TypeOK
<1>1. /\ fd'[o] = NoFd /\ aliased' = aliased
      /\ \A p \in Objs \ {o} : fd'[p] = fd[p] /\ meant'[p] = meant[p]
  BY DEF Destroy
<1>2. /\ \A g \in Numbers : g # fd[o] => table'[g] = table[g]
      /\ fd[o] # NoFd => table'[fd[o]] = Closed
  BY DEF Destroy
<1>3. NoLeak'
  BY <1>1, <1>2 DEF NoLeak, Owners, Closed, NoFd
<1>4. Exclusive'
  BY <1>1 DEF Exclusive, Owners
<1>5. LeadsToOwnFile'
  <2> SUFFICES ASSUME ~aliased, NEW p \in Owners'
               PROVE  table'[fd'[p]] = meant'[p] /\ meant'[p] # NoFile
    BY <1>1 DEF LeadsToOwnFile
  <2>1. p # o /\ p \in Owners /\ fd'[p] = fd[p] /\ meant'[p] = meant[p]
    BY <1>1 DEF Owners
  <2>2. fd[p] # fd[o]
    BY <2>1 DEF Exclusive, Owners
  <2> QED BY <1>2, <2>1, <2>2 DEF LeadsToOwnFile, Owners
<1> QED BY <1>3, <1>4, <1>5

\* o and p exchange what they own and were made for.
LEMMA SwapOwns ==
    ASSUME IInv, NEW o \in Objs, NEW p \in Objs, o # p,
           fd' = [fd EXCEPT ![o] = fd[p], ![p] = fd[o]],
           fd[p] # NoFd => meant'[o] = meant[p],
           fd[o] # NoFd => meant'[p] = meant[o],
           \A q \in Objs \ {o, p} : meant'[q] = meant[q],
           UNCHANGED <<table, aliased>>
    PROVE  NoLeak' /\ Exclusive' /\ LeadsToOwnFile'
<1> USE DEF IInv, TypeOK
<1>1. /\ fd'[o] = fd[p] /\ fd'[p] = fd[o]
      /\ \A q \in Objs \ {o, p} : fd'[q] = fd[q]
  OBVIOUS
<1>2. NoLeak'
  BY <1>1 DEF NoLeak, Owners
<1>3. Exclusive'
  BY <1>1 DEF Exclusive, Owners
<1>4. LeadsToOwnFile'
  BY <1>1 DEF LeadsToOwnFile, Owners
<1> QED BY <1>2, <1>3, <1>4

LEMMA MoveConstructOwns ==
    ASSUME IInv, NEW o \in Objs, NEW p \in Objs, NEW c \in Classes,
           MoveConstruct(o, p, c)
    PROVE  NoLeak' /\ Exclusive' /\ LeadsToOwnFile'
<1> USE DEF IInv, TypeOK, MoveConstruct
<1>1. o # p /\ fd[o] = NoFd
  OBVIOUS
<1>2. fd' = [fd EXCEPT ![o] = fd[p], ![p] = fd[o]]
  BY <1>1
<1>3. meant'[o] = meant[p] /\ \A q \in Objs \ {o, p} : meant'[q] = meant[q]
  BY <1>1
<1> QED BY <1>1, <1>2, <1>3, SwapOwns

LEMMA MoveAssignOwns ==
    ASSUME IInv, NEW o \in Objs, NEW p \in Objs, MoveAssign(o, p)
    PROVE  NoLeak' /\ Exclusive' /\ LeadsToOwnFile'
<1>1. /\ o # p /\ meant'[o] = meant[p] /\ meant'[p] = meant[o]
      /\ \A q \in Objs \ {o, p} : meant'[q] = meant[q]
  BY DEF MoveAssign, IInv, TypeOK
<1> QED BY <1>1, SwapOwns DEF MoveAssign

LEMMA DupOwns ==
    ASSUME IInv, NEW o \in Objs, NEW p \in Objs, Dup(o, p)
    PROVE  NoLeak' /\ Exclusive' /\ LeadsToOwnFile'
<1>1. PICK f \in Lowest : /\ table' = [table EXCEPT ![f] = table[fd[p]]]
                          /\ Construct(o, live[p], f, meant[p])
  BY DEF Dup
<1>2. f \in Numbers /\ table[f] = Closed /\ aliased' = aliased
  BY DEF Lowest, Free, Dup
<1>3. CASE ~aliased
  <2>1. table[fd[p]] = meant[p] /\ meant[p] \in 1..MaxFiles
    BY <1>3 DEF Dup, Opens, IInv, TypeOK, LeadsToOwnFile, Owners, NoFile
  <2> QED BY <1>1, <1>2, <2>1, ConstructOwns
<1>4. CASE aliased
  <2>1. /\ fd[o] = NoFd /\ fd'[o] = f
        /\ \A q \in Objs \ {o} : fd'[q] = fd[q]
    BY <1>1 DEF IInv, TypeOK, Construct
  <2>2. \A g \in Numbers \ {f} : table'[g] = table[g]
    BY <1>1, <1>2 DEF IInv, TypeOK
  <2>3. f # NoFd
    BY <1>2, DescriptorAssumption DEF NoFd
  <2> QED BY <1>2, <1>4, <2>1, <2>2, <2>3
          DEF IInv, NoLeak, Owners, Exclusive, LeadsToOwnFile
<1> QED BY <1>3, <1>4

LEMMA DupFileOwns ==
    ASSUME IInv, NEW o \in Objs, NEW p \in Objs, DupFile(o, p)
    PROVE  NoLeak' /\ Exclusive' /\ LeadsToOwnFile'
<1>1. aliased' /\ table' = table
  BY DEF DupFile
<1>2. fd[o] = NoFd /\ \A q \in Objs \ {o} : fd'[q] = fd[q]
  BY DEF DupFile, Construct, IInv, TypeOK
<1> QED BY <1>1, <1>2 DEF IInv, NoLeak, Owners, Exclusive, LeadsToOwnFile

LEMMA Dup2Owns ==
    ASSUME IInv, NEW o \in Objs, NEW p \in Objs, Dup2(o, p)
    PROVE  NoLeak' /\ Exclusive' /\ LeadsToOwnFile'
<1> USE DEF IInv, TypeOK
<1>1. fd' = fd /\ aliased' = aliased /\ fd[o] \in Numbers /\ fd[p] \in Numbers
  BY DEF Dup2, Opens
<1>2. /\ table'[fd[o]] = table[fd[p]]
      /\ \A g \in Numbers \ {fd[o]} : table'[g] = table[g]
  BY <1>1 DEF Dup2
<1>3. meant'[o] = meant[p] /\ \A q \in Objs \ {o} : meant'[q] = meant[q]
  BY DEF Dup2
<1>4. o \in Owners /\ p \in Owners
  BY DEF Dup2, Opens, Owners
<1>5. NoLeak'
  BY <1>1, <1>2, <1>4 DEF NoLeak, Owners
<1>6. Exclusive'
  BY <1>1 DEF Exclusive, Owners
<1>7. LeadsToOwnFile'
  <2> SUFFICES ASSUME ~aliased, NEW q \in Owners
               PROVE  table'[fd[q]] = meant'[q] /\ meant'[q] # NoFile
    BY <1>1 DEF LeadsToOwnFile, Owners
  <2>1. CASE q = o
    BY <1>2, <1>3, <1>4, <2>1 DEF LeadsToOwnFile
  <2>2. CASE q # o
    <3>1. fd[q] \in Numbers \ {fd[o]}
      BY <1>4, <2>2 DEF Exclusive, Owners
    <3> QED BY <1>2, <1>3, <2>2, <3>1 DEF LeadsToOwnFile, Owners
  <2> QED BY <2>1, <2>2
<1> QED BY <1>5, <1>6, <1>7

-----------------------------------------------------------------------------
LEMMA InitKeeps == Init => IInv
<1>1. Init => NoLeak /\ Exclusive /\ LeadsToOwnFile
  BY DEF Init, NoLeak, Exclusive, LeadsToOwnFile, Owners
<1> QED BY <1>1, InitTypes DEF IInv

LEMMA NextKeeps == ASSUME IInv, [Next]_vars PROVE IInv'
<1>1. CASE Next
  <2>1. TypeOK'
    BY <1>1, NextTypes DEF IInv
  <2>2. NoLeak' /\ Exclusive' /\ LeadsToOwnFile'
    BY <1>1, CreateOwns, DestroyOwns, MoveConstructOwns, MoveAssignOwns, DupOwns,
       DupFileOwns, Dup2Owns DEF Next
  <2> QED BY <2>1, <2>2 DEF IInv
<1>2. CASE UNCHANGED vars
  BY <1>2 DEF vars, IInv, TypeOK, NoLeak, Exclusive, LeadsToOwnFile, Owners
<1> QED BY <1>1, <1>2

LEMMA Invariant == Spec => []IInv
BY InitKeeps, NextKeeps, PTL DEF Spec

\* descriptor.cpp: every variable has its type.
THEOREM TypeCorrect == Spec => []TypeOK
<1>1. IInv => TypeOK
  BY DEF IInv
<1> QED BY Invariant, <1>1, PTL

\* descriptor.cpp and the moves and dup() of every class: two objects never own one
\* number, which would be closed twice, until a file is duplicated.
THEOREM OneOwner == Spec => []Exclusive
<1>1. IInv => Exclusive
  BY DEF IInv
<1> QED BY Invariant, <1>1, PTL

\* The same: an object's number leads to the file the object was made for, although
\* numbers are handed out again.
THEOREM OwnFile == Spec => []LeadsToOwnFile
<1>1. IInv => LeadsToOwnFile
  BY DEF IInv
<1> QED BY Invariant, <1>1, PTL

\* Every open number has an object that will close it, files duplicated or not.
THEOREM NothingLeaks == Spec => []NoLeak
<1>1. IInv => NoLeak
  BY DEF IInv
<1> QED BY Invariant, <1>1, PTL

-----------------------------------------------------------------------------
\* EPOLL

\* The history variable tells the truth: no two numbers lead to one file.
OneNumber ==
    ~shared => \A m, n \in Numbers : m # n /\ table[m] = table[n] => table[m] = Closed

\* The number of an entry leads to its file.
EntriesLead == ~shared => \A e \in interest : table[e.num] = e.file

EInv ==
    /\ IInv
    /\ interest \subseteq Entry /\ shared \in BOOLEAN
    /\ OneNumber /\ EntriesLead

-----------------------------------------------------------------------------
\* What epoll adds to the descriptors is a step of them, or none.
LEMMA EpollStep ==
    ASSUME EpollNext
    PROVE  (Next /\ Sweep) \/ (\E o, p \in Objs : Ctl(o, p))
<1>1. ASSUME NEW o \in Objs, CreateEpoll(o) PROVE Next /\ Sweep
  BY <1>1, EpollAssumption DEF CreateEpoll, Next
<1>2. ASSUME NEW o \in Objs, Other(o) PROVE Next /\ Sweep
  BY <1>2 DEF Other, Next
<1>3. ASSUME NEW o \in Objs, NEW p \in Objs, DupEpoll(o, p) PROVE Next /\ Sweep
  BY <1>3 DEF DupEpoll, Next
<1>4. ASSUME NEW o \in Objs, NEW p \in Objs, MoveEpoll(o, p) PROVE Next /\ Sweep
  BY <1>4, EpollAssumption DEF MoveEpoll, Next
<1> QED BY <1>1, <1>2, <1>3, <1>4 DEF EpollNext

\* A step of the descriptors changes what is behind one number at most.
LEMMA OneNumberChanges ==
    ASSUME TypeOK, Next
    PROVE  \/ table' = table
           \/ \E n \in Numbers : \A g \in Numbers \ {n} : table'[g] = table[g]
<1> USE DEF TypeOK
<1>1. ASSUME NEW o \in Objs, NEW c \in Classes, Create(o, c)
      PROVE  \E n \in Numbers : \A g \in Numbers \ {n} : table'[g] = table[g]
  BY <1>1 DEF Create, Lowest, Free
<1>2. ASSUME NEW o \in Objs, Destroy(o)
      PROVE  \/ table' = table
             \/ \E n \in Numbers : \A g \in Numbers \ {n} : table'[g] = table[g]
  BY <1>2 DEF Destroy
<1>3. ASSUME NEW o \in Objs, NEW p \in Objs, Dup(o, p)
      PROVE  \E n \in Numbers : \A g \in Numbers \ {n} : table'[g] = table[g]
  BY <1>3 DEF Dup, Lowest, Free
<1>4. ASSUME NEW o \in Objs, NEW p \in Objs, Dup2(o, p)
      PROVE  \E n \in Numbers : \A g \in Numbers \ {n} : table'[g] = table[g]
  BY <1>4 DEF Dup2
<1>5. ASSUME NEW o \in Objs, NEW p \in Objs, DupFile(o, p) \/ MoveAssign(o, p)
      PROVE  table' = table
  BY <1>5 DEF DupFile, MoveAssign
<1>6. ASSUME NEW o \in Objs, NEW p \in Objs, NEW c \in Classes, MoveConstruct(o, p, c)
      PROVE  table' = table
  BY <1>6 DEF MoveConstruct
<1> QED BY <1>1, <1>2, <1>3, <1>4, <1>5, <1>6 DEF Next

\* The kernel's sweep keeps the list true.
LEMMA SweepKeeps == ASSUME EInv, Next, Sweep PROVE EInv'
<1>1. IInv'
  BY NextKeeps DEF EInv
<1>2. interest' \subseteq interest
  BY DEF Sweep
<1>3. shared' \in BOOLEAN /\ (~shared' => ~shared) /\ OneNumber'
  BY DEF Sweep, EInv, OneNumber
<1>4. EntriesLead'
  <2> SUFFICES ASSUME ~shared', NEW e \in interest' PROVE table'[e.num] = e.file
    BY DEF EntriesLead
  <2>1. /\ e \in interest /\ e.num \in Numbers /\ e.file \in 1..MaxFiles
        /\ table[e.num] = e.file /\ e.file # Closed
    BY <1>2, <1>3 DEF EInv, Entry, EntriesLead, Closed
  <2>2. PICK k \in Numbers : table'[k] = e.file
    BY DEF Sweep
  <2>3. CASE table' = table
    BY <2>1, <2>3
  <2>4. ASSUME NEW n \in Numbers, \A g \in Numbers \ {n} : table'[g] = table[g]
        PROVE  table'[e.num] = e.file
    <3>1. CASE e.num # n
      BY <2>1, <2>4, <3>1
    <3>2. CASE e.num = n
      <4>1. CASE k = n
        BY <2>2, <3>2, <4>1
      <4>2. CASE k # n
        <5>1. table[k] = table[n]
          BY <2>1, <2>2, <2>4, <3>2, <4>2
        <5> QED BY <1>3, <2>1, <3>2, <4>2, <5>1 DEF EInv, OneNumber
      <4> QED BY <4>1, <4>2
    <3> QED BY <3>1, <3>2
  <2>5. TypeOK
    BY DEF EInv, IInv
  <2> QED BY <2>3, <2>4, <2>5, OneNumberChanges
<1> QED BY <1>1, <1>2, <1>3, <1>4 DEF EInv

\* So does epoll_ctl(), which changes nothing else.
LEMMA CtlKeeps ==
    ASSUME EInv, NEW ep \in Objs, NEW o \in Objs, Ctl(ep, o)
    PROVE  EInv'
<1>1. UNCHANGED <<vars, shared>>
  BY DEF Ctl, Add, Mod, Del
<1>2. IInv' /\ OneNumber'
  BY <1>1, NextKeeps DEF EInv, OneNumber, vars
<1>3. \A e \in interest' : e \in Entry /\ (~shared => table[e.num] = e.file)
  <2>1. CASE Add(ep, o)
    <3> DEFINE new == [ep |-> table[fd[ep]], num |-> fd[o], file |-> table[fd[o]],
                       wanted |-> TRUE]
    <3>1. /\ fd[ep] \in Numbers /\ fd[o] \in Numbers
          /\ table[fd[ep]] \in 1..MaxFiles /\ table[fd[o]] \in 1..MaxFiles
      <4>1. Opens(ep) /\ Opens(o)
        BY <2>1 DEF Add, Watchable
      <4> QED BY <4>1 DEF Opens, EInv, IInv, TypeOK, Closed
    <3>2. new \in Entry /\ table[new.num] = new.file
      BY <3>1 DEF Entry
    <3>3. interest' = interest \cup {new}
      BY <2>1 DEF Add
    <3> QED BY <3>2, <3>3 DEF EInv, EntriesLead
  <2>2. ASSUME NEW w \in BOOLEAN, Mod(ep, o, w)
        PROVE  \A e \in interest' : e \in Entry /\ (~shared => table[e.num] = e.file)
    <3> SUFFICES ASSUME NEW e \in interest'
                 PROVE  e \in Entry /\ (~shared => table[e.num] = e.file)
      OBVIOUS
    <3>1. CASE e \in interest
      BY <3>1 DEF EInv, EntriesLead
    <3>2. CASE e \notin interest
      <4>1. PICK d \in EntriesOf(ep, o) : e = [d EXCEPT !.wanted = w]
        BY <2>2, <3>2 DEF Mod
      <4>2. d \in interest /\ d \in Entry
        BY DEF EntriesOf, EInv
      <4>3. e \in Entry /\ e.num = d.num /\ e.file = d.file
        BY <4>1, <4>2 DEF Entry
      <4> QED BY <4>2, <4>3 DEF EInv, EntriesLead
    <3> QED BY <3>1, <3>2
  <2>3. CASE Del(ep, o)
    BY <2>3 DEF Del, EInv, EntriesLead
  <2> QED BY <2>1, <2>2, <2>3 DEF Ctl
<1>4. interest' \subseteq Entry /\ EntriesLead'
  BY <1>1, <1>3 DEF EntriesLead, vars
<1> QED BY <1>1, <1>2, <1>4 DEF EInv

LEMMA EpollInitKeeps == EpollInit => EInv
BY InitKeeps DEF EpollInit, EInv, Init, OneNumber, EntriesLead

LEMMA EpollNextKeeps ==
    ASSUME EInv, [EpollNext]_<<vars, epollVars>> PROVE EInv'
<1>1. CASE EpollNext
  BY <1>1, EpollStep, SweepKeeps, CtlKeeps
<1>2. CASE UNCHANGED <<vars, epollVars>>
  <2>1. IInv'
    BY <1>2, NextKeeps DEF EInv
  <2> QED BY <1>2, <2>1 DEF EInv, OneNumber, EntriesLead, vars, epollVars
<1> QED BY <1>1, <1>2

LEMMA EInvSuffices == ASSUME EInv PROVE WatchedOwned
<1> SUFFICES ASSUME NEW e \in interest, ~aliased, ~shared
             PROVE  \E o \in Objs : live[o] # Dead /\ fd[o] = e.num /\ meant[o] = e.file
  BY DEF WatchedOwned
<1>1. e.num \in Numbers /\ table[e.num] = e.file /\ table[e.num] # Closed
  BY DEF EInv, Entry, EntriesLead, Closed
<1>2. PICK o \in Owners : fd[o] = e.num
  BY <1>1 DEF EInv, IInv, NoLeak
<1>3. meant[o] = e.file
  BY <1>1, <1>2 DEF EInv, IInv, LeadsToOwnFile
<1>4. o \in Objs /\ live[o] # Dead
  BY DEF EInv, IInv, TypeOK, Owners
<1> QED BY <1>2, <1>3, <1>4

\* epoll.cpp, over descriptor.cpp: what wait() may report is a number that an object
\* has, and the object was made for the file the event is about, as long as nothing
\* was duplicated, whatever was moved, closed and opened again since add().
THEOREM EventsFindTheirObject == EpollSpec => []WatchedOwned
BY EpollInitKeeps, EpollNextKeeps, EInvSuffices, PTL DEF EpollSpec

-----------------------------------------------------------------------------
\* MAPPINGS

\* Regions yet to come are not mapped, and nobody has one.
FutureUnused ==
    /\ \A r \in Regions : r > regions => mapped[r] = 0
    /\ \A m \in Maps : addr[m] # Null => addr[m] <= regions

MapInv == MapTypeOK /\ MappingsOwned /\ FutureUnused

-----------------------------------------------------------------------------
\* munmap() of the whole region leaves none of it.
LEMMA NothingLeft == Max({0, 0}) = 0
<1>1. \E x \in {0, 0} : \A y \in {0, 0} : x >= y
  OBVIOUS
<1>2. \A x \in {0, 0} : x = 0
  OBVIOUS
<1> QED BY <1>1, <1>2 DEF Max

LEMMA MapInitOwned == MapInit => MapInv
<1> SUFFICES ASSUME MapInit PROVE MapInv
  OBVIOUS
<1>1. MapTypeOK
  BY MappingAssumption DEF MapInit, MapTypeOK, Regions, Lengths, Null
<1>2. MappingsOwned /\ FutureUnused
  BY DEF MapInit, MappingsOwned, FutureUnused, Holders
<1> QED BY <1>1, <1>2 DEF MapInv

\* A new region goes to a new object.
LEMMA MapOwned ==
    ASSUME MapInv, NEW m \in Maps, NEW o \in Objs, NEW len \in Sizes, Map(m, o, len)
    PROVE  MapInv'
<1> DEFINE r == regions + 1
<1>1. /\ regions' = r /\ r \in Regions /\ r # Null /\ r \in 1..MaxRegions
      /\ len \in Lengths /\ len # 0
  BY MappingAssumption DEF Map, MapInv, MapTypeOK, Regions, Lengths, Null
<1>2. /\ addr[m] = Null /\ m \notin alive /\ alive' = alive \cup {m}
      /\ addr'[m] = r /\ size'[m] = len
      /\ \A k \in Maps \ {m} : addr'[k] = addr[k] /\ size'[k] = size[k]
      /\ mapped'[r] = len /\ \A s \in Regions \ {r} : mapped'[s] = mapped[s]
  BY <1>1 DEF Map, MapInv, MapTypeOK
<1>3. MapTypeOK'
  BY <1>1, <1>2, MappingAssumption DEF Map, MapInv, MapTypeOK, Regions
<1>4. \A k \in Maps : addr[k] # r
  BY <1>1 DEF MapInv, MapTypeOK, FutureUnused, Regions, Null
<1>5. MappingsOwned'
  <2>1. \A k, n \in Holders' : addr'[k] = addr'[n] => k = n
    BY <1>2, <1>4 DEF MapInv, MappingsOwned, Holders
  <2>2. \A k \in Holders' : size'[k] # 0 /\ mapped'[addr'[k]] = size'[k]
    BY <1>1, <1>2, <1>4 DEF MapInv, MapTypeOK, MappingsOwned, Holders
  <2>3. \A s \in Regions : mapped'[s] # 0 => \E k \in Holders' : addr'[k] = s
    BY <1>1, <1>2 DEF MapInv, MappingsOwned, Holders
  <2> QED BY <2>1, <2>2, <2>3 DEF MappingsOwned
<1>6. FutureUnused'
  BY <1>1, <1>2 DEF MapInv, MapTypeOK, FutureUnused, Regions, Null
<1> QED BY <1>3, <1>5, <1>6 DEF MapInv

\* m and k exchange what they have.
LEMMA MapExchangeOwned ==
    ASSUME MapInv, NEW m \in Maps, NEW k \in Maps, m # k, m \in alive', k \in alive',
           alive' \subseteq Maps, alive \subseteq alive',
           addr' = [addr EXCEPT ![m] = addr[k], ![k] = addr[m]],
           size' \in [Maps -> Lengths],
           addr[k] # Null => size'[m] = size[k], addr[m] # Null => size'[k] = size[m],
           \A n \in Maps \ {m, k} : size'[n] = size[n],
           UNCHANGED <<mapped, regions>>
    PROVE  MapInv'
<1> USE DEF MapInv, MapTypeOK
<1>1. /\ addr'[m] = addr[k] /\ addr'[k] = addr[m]
      /\ \A n \in Maps \ {m, k} : addr'[n] = addr[n]
  OBVIOUS
<1>2. MapTypeOK'
  BY <1>1
<1>3. MappingsOwned'
  <2>1. \A n, q \in Holders' : addr'[n] = addr'[q] => n = q
    BY <1>1 DEF MappingsOwned, Holders
  <2>2. \A n \in Holders' : size'[n] # 0 /\ mapped'[addr'[n]] = size'[n]
    BY <1>1 DEF MappingsOwned, Holders
  <2>3. \A s \in Regions : mapped'[s] # 0 => \E n \in Holders' : addr'[n] = s
    BY <1>1 DEF MappingsOwned, Holders
  <2> QED BY <2>1, <2>2, <2>3 DEF MappingsOwned
<1>4. FutureUnused'
  BY <1>1 DEF FutureUnused
<1> QED BY <1>2, <1>3, <1>4

LEMMA MapMoveConstructOwned ==
    ASSUME MapInv, NEW m \in Maps, NEW k \in Maps, MapMoveConstruct(m, k)
    PROVE  MapInv'
<1>1. /\ m # k /\ addr[m] = Null /\ m \in alive' /\ k \in alive'
      /\ alive' \subseteq Maps /\ alive \subseteq alive'
  BY DEF MapInv, MapTypeOK, MapMoveConstruct
<1>2. addr' = [addr EXCEPT ![m] = addr[k], ![k] = addr[m]]
  BY <1>1 DEF MapMoveConstruct
<1>3. /\ size' \in [Maps -> Lengths] /\ size'[m] = size[k]
      /\ \A n \in Maps \ {m, k} : size'[n] = size[n]
  BY <1>1 DEF MapInv, MapTypeOK, MapMoveConstruct, Lengths
<1> QED BY <1>1, <1>2, <1>3, MapExchangeOwned DEF MapMoveConstruct

LEMMA MapMoveAssignOwned ==
    ASSUME MapInv, NEW m \in Maps, NEW k \in Maps, MapMoveAssign(m, k)
    PROVE  MapInv'
<1>1. /\ m # k /\ m \in alive' /\ k \in alive'
      /\ alive' \subseteq Maps /\ alive \subseteq alive'
  BY DEF MapInv, MapTypeOK, MapMoveAssign
<1>2. /\ size' \in [Maps -> Lengths] /\ size'[m] = size[k] /\ size'[k] = size[m]
      /\ \A n \in Maps \ {m, k} : size'[n] = size[n]
  BY <1>1 DEF MapInv, MapTypeOK, MapMoveAssign
<1> QED BY <1>1, <1>2, MapExchangeOwned DEF MapMoveAssign

\* The last page goes with the object.
LEMMA UnmapOwned == ASSUME MapInv, NEW m \in Maps, Unmap(m) PROVE MapInv'
<1>1. /\ addr'[m] = Null /\ size'[m] = 0 /\ alive' = alive \ {m} /\ regions' = regions
      /\ \A k \in Maps \ {m} : addr'[k] = addr[k] /\ size'[k] = size[k]
      /\ addr' \in [Maps -> Regions \cup {Null}] /\ size' \in [Maps -> Lengths]
  BY DEF Unmap, MapInv, MapTypeOK, Lengths
<1>2. CASE addr[m] = Null
  <2>1. mapped' = mapped
    BY <1>2 DEF Unmap
  <2>2. MapTypeOK'
    BY <1>1, <2>1 DEF MapInv, MapTypeOK
  <2>3. MappingsOwned' /\ FutureUnused'
    BY <1>1, <1>2, <2>1 DEF MapInv, MappingsOwned, FutureUnused, Holders
  <2> QED BY <2>2, <2>3 DEF MapInv
<1>3. CASE addr[m] # Null
  <2>1. /\ addr[m] \in Regions /\ mapped[addr[m]] = size[m] /\ size[m] \in Nat
        /\ \A k \in Holders \ {m} : addr[k] # addr[m]
    BY <1>3, MappingAssumption
    DEF MapInv, MapTypeOK, MappingsOwned, Holders, Lengths
  <2>2. mapped' = [mapped EXCEPT ![addr[m]] = 0]
    <3>1. mapped' = [mapped EXCEPT ![addr[m]] = Max({mapped[addr[m]] - size[m], 0})]
      BY <1>3 DEF Unmap
    <3>2. mapped[addr[m]] - size[m] = 0
      BY <2>1
    <3> QED BY <3>1, <3>2, NothingLeft
  <2>3. /\ mapped'[addr[m]] = 0 /\ mapped' \in [Regions -> Lengths]
        /\ \A s \in Regions : s # addr[m] => mapped'[s] = mapped[s]
    BY <2>1, <2>2 DEF MapInv, MapTypeOK, Lengths
  <2>4. MapTypeOK'
    BY <1>1, <2>3 DEF MapInv, MapTypeOK
  <2>5. MappingsOwned'
    <3>1. \A k \in Holders' : k \in Holders \ {m} /\ addr'[k] = addr[k] /\ size'[k] = size[k]
      BY <1>1 DEF Holders
    <3>2. \A k \in Holders' : size'[k] # 0 /\ mapped'[addr'[k]] = size'[k]
      BY <2>1, <2>3, <3>1 DEF MapInv, MapTypeOK, MappingsOwned, Holders
    <3>3. \A s \in Regions : mapped'[s] # 0 => \E k \in Holders' : addr'[k] = s
      BY <1>1, <2>3 DEF MapInv, MappingsOwned, Holders
    <3>4. \A k, n \in Holders' : addr'[k] = addr'[n] => k = n
      BY <3>1 DEF MapInv, MappingsOwned
    <3> QED BY <3>2, <3>3, <3>4 DEF MappingsOwned
  <2>6. FutureUnused'
    BY <1>1, <2>1, <2>3 DEF MapInv, FutureUnused
  <2> QED BY <2>4, <2>5, <2>6 DEF MapInv
<1> QED BY <1>2, <1>3

LEMMA MapNextKeeps == ASSUME MapInv, [MapNext]_mapVars PROVE MapInv'
<1>1. CASE MapNext
  BY <1>1, MapOwned, MapMoveConstructOwned, MapMoveAssignOwned, UnmapOwned DEF MapNext
<1>2. CASE UNCHANGED mapVars
  BY <1>2 DEF MapInv, MapTypeOK, MappingsOwned, FutureUnused, Holders, mapVars
<1> QED BY <1>1, <1>2

\* mmap.cpp: however objects are moved, assigned and destroyed, a region is unmapped
\* once and whole, and while it is mapped there is an object that will do it.
THEOREM RegionsOwned == MapSpec => []MappingsOwned
<1>1. MapInv => MappingsOwned
  BY DEF MapInv
<1> QED BY MapInitOwned, MapNextKeeps, <1>1, PTL DEF MapSpec

-----------------------------------------------------------------------------
\* THE PROCESS

\* A process is made of its parts: what it does to descriptors and to what epoll
\* watches is a behaviour of Epoll, what it does to mappings one of Mapping, and
\* what it does to buffered sockets one of BufferedMoves.
THEOREM ProcessParts == ProcessSpec => EpollSpec /\ MapSpec /\ Moves!Spec
<1>1. ProcessInit => EpollInit /\ MapInit /\ Moves!Init
  BY DEF ProcessInit
<1>2. [ProcessNext]_procVars =>
        [EpollNext]_<<vars, epollVars>> /\ [MapNext]_mapVars /\ [Moves!Next]_Moves!vars
  <2>1. CASE ProcessNext
    BY <2>1 DEF ProcessNext, movesVars, Moves!vars, Moves!fields
  <2>2. CASE UNCHANGED procVars
    BY <2>2 DEF procVars, movesVars, Moves!vars, Moves!fields
  <2> QED BY <2>1, <2>2
<1> QED BY <1>1, <1>2, PTL DEF ProcessSpec, EpollSpec, MapSpec, Moves!Spec

\* So is a behaviour of Epoll one of Descriptor.
LEMMA EpollParts == EpollSpec => Spec
<1>1. EpollInit => Init
  BY DEF EpollInit
<1>2. [EpollNext]_<<vars, epollVars>> => [Next]_vars
  <2>1. CASE EpollNext
    BY <2>1, EpollStep DEF Ctl, Add, Mod, Del
  <2>2. CASE UNCHANGED <<vars, epollVars>>
    BY <2>2
  <2> QED BY <2>1, <2>2
<1> QED BY <1>1, <1>2, PTL DEF EpollSpec, Spec

\* Descriptors, what epoll watches and mappings each keep their owners while the
\* three, and buffered sockets, are used in any order in one process.
THEOREM ProcessOwns ==
    ProcessSpec => [](Exclusive /\ LeadsToOwnFile /\ NoLeak /\ WatchedOwned /\ MappingsOwned)
BY ProcessParts, EpollParts, OneOwner, OwnFile, NothingLeaks, EventsFindTheirObject,
   RegionsOwned, PTL

-----------------------------------------------------------------------------
\* BUFFERED SOCKETS OF THE PROCESS

\* The proofs about moves, of the objects of this process.
MovesP == INSTANCE BufferedMoves_proofs WITH Objs <- Streams, live <- made

\* What the two instances say of sets is the same.
LEMMA SameSets ==
    /\ \A S : Moves!Cardinality(S) = MovesP!Cardinality(S)
    /\ \A S : Moves!IsFiniteSet(S) <=> MovesP!IsFiniteSet(S)
    /\ \A S : Moves!Min(S) = MovesP!Min(S)
BY DEF Moves!Cardinality, MovesP!Cardinality, Moves!IsFiniteSet, MovesP!IsFiniteSet,
       Moves!Min, MovesP!Min

LEMMA SameNames ==
    /\ Moves!Allocs = MovesP!Allocs /\ Moves!Socks = MovesP!Socks
    /\ Moves!None = MovesP!None /\ Moves!Junk = MovesP!Junk
    /\ Moves!NoRoom = MovesP!NoRoom
    /\ Moves!Freed = MovesP!Freed /\ Moves!Unused = MovesP!Unused
    /\ Moves!Current = MovesP!Current /\ Moves!Allocated = MovesP!Allocated
BY SameSets
   DEF Moves!Allocs, MovesP!Allocs, Moves!Socks, MovesP!Socks, Moves!None, MovesP!None,
       Moves!Junk, MovesP!Junk, Moves!NoRoom, MovesP!NoRoom, Moves!Freed, MovesP!Freed,
       Moves!Unused, MovesP!Unused,
       Moves!Current, MovesP!Current, Moves!Allocated, MovesP!Allocated

LEMMA MovesAssumed == MovesP!MovesAssumption
BY ProcessAssumption, SameSets DEF Moves!MovesAssumption, MovesP!MovesAssumption

\* The initial states and the steps of the buffered sockets are those of the proofs.
LEMMA MovesBegin == ASSUME Moves!Init PROVE MovesP!Init
BY SameNames DEF Moves!Init, MovesP!Init

LEMMA Begins ==
    ASSUME NEW o \in Streams, NEW c \in Capacities, Moves!Construct(o, c)
    PROVE  MovesP!Construct(o, c)
<1>1. Moves!Blank(c.in) = MovesP!Blank(c.in) /\ Moves!Blank(c.out) = MovesP!Blank(c.out)
  BY SameNames DEF Moves!Blank, MovesP!Blank
<1>2. PICK a \in Moves!Allocs \ Moves!Allocated, s \in Moves!Socks \ {sock[p] : p \in made} :
        /\ a = Moves!Min(Moves!Allocs \ Moves!Allocated)
        /\ s = Moves!Min(Moves!Socks \ {sock[p] : p \in made})
        /\ heap' = [heap EXCEPT ![a] = [size |-> c, in |-> Moves!Blank(c.in),
                                     out |-> Moves!Blank(c.out)]]
        /\ bufferIn' = [bufferIn EXCEPT ![o] = a]
        /\ bufferOut' = [bufferOut EXCEPT ![o] = a]
        /\ sock' = [sock EXCEPT ![o] = s]
        /\ conn' = [conn EXCEPT ![s] = Moves!Unused]
  BY DEF Moves!Construct
<1>3. /\ a = MovesP!Min(MovesP!Allocs \ MovesP!Allocated)
      /\ s = MovesP!Min(MovesP!Socks \ {sock[p] : p \in made})
  BY <1>2, SameNames, SameSets
<1> QED BY <1>1, <1>2, <1>3, SameNames DEF Moves!Construct, MovesP!Construct

LEMMA Ends == ASSUME NEW o \in Streams, Moves!Destroy(o) PROVE MovesP!Destroy(o)
BY SameNames DEF Moves!Destroy, MovesP!Destroy

LEMMA HandsOn ==
    ASSUME NEW o \in Streams, NEW p \in Streams,
           Moves!MoveConstruct(o, p) \/ Moves!MoveAssign(o, p)
    PROVE  MovesP!MoveConstruct(o, p) \/ MovesP!MoveAssign(o, p)
BY DEF Moves!MoveConstruct, MovesP!MoveConstruct, Moves!MoveAssign, MovesP!MoveAssign,
       Moves!None, MovesP!None, Moves!CopyCounters, MovesP!CopyCounters,
       Moves!Inherit, MovesP!Inherit, Moves!Swapped, MovesP!Swapped

LEMMA IsUsed ==
    ASSUME NEW o \in Streams
    PROVE  /\ Moves!Insert(o) => MovesP!Insert(o)
           /\ Moves!Flush(o) => MovesP!Flush(o)
           /\ \A k \in 0..MaxBytes : Moves!Extract(o, k) => MovesP!Extract(o, k)
<1>1. Moves!Insert(o) => MovesP!Insert(o)
  BY DEF Moves!Insert, MovesP!Insert, Moves!Blank, MovesP!Blank, Moves!Junk, MovesP!Junk,
         Moves!None, MovesP!None, Moves!Current, MovesP!Current
<1>2. Moves!Flush(o) => MovesP!Flush(o)
  BY DEF Moves!Flush, MovesP!Flush, Moves!Blank, MovesP!Blank, Moves!Junk, MovesP!Junk,
         Moves!None, MovesP!None, Moves!Current, MovesP!Current
<1>3. ASSUME NEW k \in 0..MaxBytes PROVE Moves!Extract(o, k) => MovesP!Extract(o, k)
  BY DEF Moves!Extract, MovesP!Extract, Moves!Junk, MovesP!Junk,
         Moves!None, MovesP!None, Moves!Current, MovesP!Current
<1> QED BY <1>1, <1>2, <1>3

LEMMA MovesGoOn == ASSUME Moves!Next PROVE MovesP!Next
BY Begins, Ends, HandsOn, IsUsed DEF Moves!Next, MovesP!Next

\* What the module promises, in terms of both instances.
LEMMA MovesPromise ==
    ASSUME MovesP!MovesInv
    PROVE  Moves!TypeOK /\ BuffersOwned /\ OutputFollows /\ InputFollows
<1>1. MovesP!TypeOK /\ MovesP!BuffersOwned /\ MovesP!OutputFollows /\ MovesP!InputFollows
  BY DEF MovesP!MovesInv
<1>2. Moves!TypeOK
  BY <1>1, SameNames DEF Moves!TypeOK, MovesP!TypeOK
<1>3. BuffersOwned
  BY <1>1, SameNames DEF BuffersOwned, Moves!BuffersOwned, MovesP!BuffersOwned
<1>4. OutputFollows
  BY <1>1, SameNames DEF OutputFollows, Moves!OutputFollows, MovesP!OutputFollows
<1>5. InputFollows
  BY <1>1, SameNames DEF InputFollows, Moves!InputFollows, MovesP!InputFollows
<1> QED BY <1>2, <1>3, <1>4, <1>5

-----------------------------------------------------------------------------
\* Everything that is known of the parts of the process.
ProcessInv == EInv /\ MapInv /\ MovesP!MovesInv /\ bound \in Bounds

LEMMA ProcessStarts == ASSUME ProcessInit PROVE ProcessInv
<1>1. EInv /\ MapInv
  BY EpollInitKeeps, MapInitOwned DEF ProcessInit
<1>2. MovesP!MovesInv
  BY MovesBegin, MovesAssumed, MovesP!MovesInit DEF ProcessInit
<1> QED BY <1>1, <1>2 DEF ProcessInit, ProcessInv

\* A step of one part is no step of the others.
LEMMA ProcessGoesOn == ASSUME ProcessInv, [ProcessNext]_procVars PROVE ProcessInv'
<1>1. /\ [EpollNext]_<<vars, epollVars>> /\ [MapNext]_mapVars
      /\ Moves!Next \/ UNCHANGED movesVars
      /\ bound' = bound
  BY DEF ProcessNext, procVars
<1>2. EInv'
  BY <1>1, EpollNextKeeps DEF ProcessInv
<1>3. MapInv'
  BY <1>1, MapNextKeeps DEF ProcessInv
<1>4. MovesP!MovesInv'
  <2>1. MovesP!Next \/ UNCHANGED MovesP!vars
    BY <1>1, MovesGoOn DEF movesVars, MovesP!vars, MovesP!fields
  <2> QED BY <2>1, MovesAssumed, MovesP!MovesStep DEF ProcessInv
<1> QED BY <1>1, <1>2, <1>3, <1>4 DEF ProcessInv

LEMMA ProcessAlways == ProcessSpec => []ProcessInv
BY ProcessStarts, ProcessGoesOn, PTL DEF ProcessSpec

\* The fields of descriptors, epoll, mappings and buffered sockets stay in their
\* ranges, whatever is done to which of them first.
THEOREM ProcessTypeCorrect == ProcessSpec => []ProcessTypeOK
<1>1. ProcessInv => ProcessTypeOK
  BY MovesPromise DEF ProcessInv, ProcessTypeOK, EInv, IInv, EpollTypeOK, MapInv
<1> QED BY <1>1, ProcessAlways, PTL

\* buffered_socket.cpp: in a process with other objects too, the constructors, moves
\* and destructor free every allocation once, by the object that was left with it.
THEOREM ProcessFreesOnce == ProcessSpec => []BuffersOwned
<1>1. ProcessInv => BuffersOwned
  BY MovesPromise DEF ProcessInv
<1> QED BY <1>1, ProcessAlways, PTL

\* buffered_socket.cpp: bytes inserted and not sent are with the object that has the
\* connection now, in order.
THEOREM ProcessOutputStays == ProcessSpec => []OutputFollows
<1>1. ProcessInv => OutputFollows
  BY MovesPromise DEF ProcessInv
<1> QED BY <1>1, ProcessAlways, PTL

\* buffered_socket.cpp: bytes received and not extracted are with that object, where
\* it will look for them.
THEOREM ProcessInputStays == ProcessSpec => []InputFollows
<1>1. ProcessInv => InputFollows
  BY MovesPromise DEF ProcessInv
<1> QED BY <1>1, ProcessAlways, PTL
=============================================================================
