----------------------------- MODULE Descriptor -----------------------------
(***************************************************************************)
(* Who owns which file descriptor: fd::descriptor, and the construction,   *)
(* dup(), dup2(), moves and destruction of the classes derived from it,    *)
(* over the kernel's table of descriptors.  A number that was closed is    *)
(* handed out again, so an object with a number of the past is dangerous.  *)
(***************************************************************************)
EXTENDS Integers, Sequences, FiniteSets

CONSTANTS
    Objs,     \* the places objects live in
    Classes,  \* classes of the objects; "file" is the one with a dup() of its own
    Numbers,  \* bound: descriptors a process may have
    MaxFiles  \* bound: files, sockets, ... opened

ASSUME DescriptorAssumption ==
    /\ Numbers \subseteq Nat /\ IsFiniteSet(Numbers)
    /\ MaxFiles \in Nat /\ "dead" \notin Classes

VARIABLES
    live,   \* the class of the object in a place, or Dead
    fd,     \* _fd of a live object, NoFd when it is -1
    table,  \* the kernel's table: the open file behind a number, or Closed
    meant,  \* the open file an object was made for, moves followed (history)
    files,  \* files opened so far
    kind,   \* the class whose constructor opened a file
    aliased \* a file object has taken the number of another one (history)

vars == <<live, fd, table, meant, files, kind, aliased>>

Dead == "dead"
NoFd == -1
Closed == 0
NoFile == 0

TypeOK ==
    /\ live \in [Objs -> Classes \cup {Dead}]
    /\ fd \in [Objs -> Numbers \cup {NoFd}]
    /\ table \in [Numbers -> 0..MaxFiles]
    /\ meant \in [Objs -> 0..MaxFiles]
    /\ files \in 0..MaxFiles /\ kind \in Seq(Classes) /\ Len(kind) = files /\ aliased \in BOOLEAN
    /\ \A o \in Objs : live[o] = Dead => fd[o] = NoFd

Init ==
    /\ live = [o \in Objs |-> Dead]
    /\ fd = [o \in Objs |-> NoFd]
    /\ table = [f \in Numbers |-> Closed]
    /\ meant = [o \in Objs |-> NoFile]
    /\ files = 0 /\ kind = <<>> /\ aliased = FALSE

-----------------------------------------------------------------------------
Free == {f \in Numbers : table[f] = Closed}
Lowest == {f \in Free : \A g \in Free : f <= g}

\* o comes to life with class c and number f, for file x.
Construct(o, c, f, x) ==
    /\ live[o] = Dead
    /\ live' = [live EXCEPT ![o] = c]
    /\ fd' = [fd EXCEPT ![o] = f]
    /\ meant' = [meant EXCEPT ![o] = x]

\* socket(), eventfd(), open(), ...: the kernel gives out the lowest free number.
\* When there is none the constructor throws, and nothing has changed.
Create(o, c) ==
    /\ files < MaxFiles
    /\ files' = files + 1 /\ kind' = Append(kind, c)
    /\ \E f \in Lowest :
         /\ table' = [table EXCEPT ![f] = files + 1]
         /\ Construct(o, c, f, files + 1)
    /\ UNCHANGED aliased

\* Wrong variant: the destructor of the base class is not run.
DestroyForgets(o) ==
    /\ live[o] # Dead
    /\ live' = [live EXCEPT ![o] = Dead]
    /\ meant' = [meant EXCEPT ![o] = NoFile]
    /\ UNCHANGED <<fd, table, files, kind, aliased>>

\* ~descriptor(): what close() says is not looked at.
Destroy(o) ==
    /\ live[o] # Dead
    /\ live' = [live EXCEPT ![o] = Dead]
    /\ fd' = [fd EXCEPT ![o] = NoFd]
    /\ meant' = [meant EXCEPT ![o] = NoFile]
    /\ table' = IF fd[o] # NoFd THEN [table EXCEPT ![fd[o]] = Closed] ELSE table
    /\ UNCHANGED <<files, kind, aliased>>

\* Wrong variant: the number stays with the object moved from.
MoveConstructKeeps(o, p, c) ==
    /\ live[p] # Dead /\ live[o] = Dead
    /\ c # live[p] => fd[p] # NoFd
    /\ live' = [live EXCEPT ![o] = c]
    /\ fd' = [fd EXCEPT ![o] = fd[p]]
    /\ meant' = [meant EXCEPT ![o] = meant[p], ![p] = NoFile]
    /\ UNCHANGED <<table, files, kind, aliased>>

\* descriptor(descriptor &&), and the constructors that make a socket, a file, ...
\* of any descriptor, which refuse a number below 0 and then change nothing.
MoveConstruct(o, p, c) ==
    /\ live[p] # Dead /\ live[o] = Dead
    /\ c # live[p] => fd[p] # NoFd
    /\ live' = [live EXCEPT ![o] = c]
    /\ fd' = [fd EXCEPT ![o] = fd[p], ![p] = NoFd]
    /\ meant' = [meant EXCEPT ![o] = meant[p], ![p] = NoFile]
    /\ UNCHANGED <<table, files, kind, aliased>>

\* Wrong variant: the old number of the left side is overwritten.
MoveAssignDrops(o, p) ==
    /\ o # p /\ live[o] # Dead /\ live[p] = live[o]
    /\ fd' = [fd EXCEPT ![o] = fd[p], ![p] = NoFd]
    /\ meant' = [meant EXCEPT ![o] = meant[p], ![p] = NoFile]
    /\ UNCHANGED <<live, table, files, kind, aliased>>

\* operator=(descriptor &&) swaps.
MoveAssign(o, p) ==
    /\ o # p /\ live[o] # Dead /\ live[p] = live[o]
    /\ fd' = [fd EXCEPT ![o] = fd[p], ![p] = fd[o]]
    /\ meant' = [meant EXCEPT ![o] = meant[p], ![p] = meant[o]]
    /\ UNCHANGED <<live, table, files, kind, aliased>>

Opens(p) == fd[p] # NoFd /\ table[fd[p]] # Closed

\* o = p.dup() of every class but file: ::dup() and a second number.
Dup(o, p) ==
    /\ live[p] \notin {Dead, "file"} /\ Opens(p)
    /\ \E f \in Lowest :
         /\ table' = [table EXCEPT ![f] = table[fd[p]]]
         /\ Construct(o, live[p], f, meant[p])
    /\ UNCHANGED <<files, kind, aliased>>

\* o = p.dup() of a file: its copy constructor takes the number itself.
DupFile(o, p) ==
    /\ live[p] = "file" /\ fd[p] # NoFd
    /\ Construct(o, "file", fd[p], meant[p])
    /\ aliased' = TRUE
    /\ UNCHANGED <<table, files, kind>>

\* Wrong variant: dup2() with its arguments the wrong way round.
Dup2Swapped(o, p) ==
    /\ live[o] # Dead /\ live[p] = live[o] /\ fd[o] # NoFd /\ Opens(p)
    /\ table' = [table EXCEPT ![fd[p]] = table[fd[o]]]
    /\ meant' = [meant EXCEPT ![o] = meant[p]]
    /\ UNCHANGED <<live, fd, files, kind, aliased>>

\* o.dup2(p): ::dup2() closes what was behind o's number.
Dup2(o, p) ==
    /\ live[o] # Dead /\ live[p] = live[o] /\ fd[o] # NoFd /\ Opens(p)
    /\ table' = [table EXCEPT ![fd[o]] = table[fd[p]]]
    /\ meant' = [meant EXCEPT ![o] = meant[p]]
    /\ UNCHANGED <<live, fd, files, kind, aliased>>

Next ==
    \E o \in Objs :
        \/ \E c \in Classes : Create(o, c) \/ \E p \in Objs : MoveConstruct(o, p, c)
        \/ Destroy(o)
        \/ \E p \in Objs : MoveAssign(o, p) \/ Dup(o, p) \/ DupFile(o, p) \/ Dup2(o, p)

Spec == Init /\ [][Next]_vars

-----------------------------------------------------------------------------
\* PROPERTIES

Owners == {o \in Objs : fd[o] # NoFd}

\* No two objects own the same number - it will be closed once - as long as no
\* file was duplicated.
Exclusive == ~aliased => \A o, p \in Owners : fd[o] = fd[p] => o = p

\* Every open descriptor will be closed by an object ("No file descriptor leaking"),
\* even while two files share one.
NoLeak == \A f \in Numbers : table[f] # Closed => \E o \in Owners : fd[o] = f

\* Every object's number is open and leads to the file the object was made for,
\* although numbers are closed and handed out again all the time.
LeadsToOwnFile ==
    ~aliased => \A o \in Owners : table[fd[o]] = meant[o] /\ meant[o] # NoFile

\* file::dup(), like the system call it is named after, makes a descriptor of its
\* own: closing the duplicate leaves the original's file open.
FilesStayOpen == \A o \in Owners : live[o] = "file" => table[fd[o]] = meant[o]
=============================================================================
