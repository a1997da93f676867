------------------------------- MODULE Epoll --------------------------------
(***************************************************************************)
(* fd::epoll over the descriptors of a process.  The kernel knows what is  *)
(* watched by number and open file together and forgets it when the last   *)
(* number of the file is closed; the program knows it by the number that   *)
(* add() and mod() were given to be handed back with an event.             *)
(***************************************************************************)
EXTENDS Descriptor

ASSUME EpollAssumption == "epoll" \in Classes

VARIABLES
    interest, \* the interest lists: by epoll, number and file, see Entry
    shared    \* two numbers have led to a file at a time (history)

epollVars == <<interest, shared>>

Entry == [ep : 1..MaxFiles, num : Numbers, file : 1..MaxFiles, wanted : BOOLEAN]

EpollTypeOK ==
    /\ TypeOK
    /\ interest \subseteq Entry /\ shared \in BOOLEAN

EpollInit == Init /\ interest = {} /\ shared = FALSE

-----------------------------------------------------------------------------
\* The kernel drops entries, and lists, of files that no number leads to any more.
Sweep ==
    /\ LET open == {table'[n] : n \in Numbers} IN
         interest' = {e \in interest : {e.ep, e.file} \subseteq open}
    /\ shared' = (shared \/ \E m, n \in Numbers :
                              m # n /\ table'[m] = table'[n] /\ table'[m] # Closed)

\* epoll::epoll(int)
CreateEpoll(o) == Create(o, "epoll") /\ Sweep

\* epoll::dup() and dup2(): a second number for the same list.
DupEpoll(o, p) ==
    /\ live[p] = "epoll"
    /\ Dup(o, p) \/ Dup2(o, p)
    /\ Sweep

\* epoll(epoll &&), epoll(descriptor &&) and operator=(epoll &&).
MoveEpoll(o, p) ==
    /\ MoveConstruct(o, p, "epoll") \/ (live[o] = "epoll" /\ MoveAssign(o, p))
    /\ Sweep

\* What becomes of objects of the other classes, and the end of any object.
Other(o) ==
    /\ \/ \E c \in Classes \ {"epoll"} :
            Create(o, c) \/ \E p \in Objs : MoveConstruct(o, p, c)
       \/ Destroy(o)
       \/ \E p \in Objs :
            \/ DupFile(o, p)
            \/ /\ live[p] # "epoll"
               /\ MoveAssign(o, p) \/ Dup(o, p) \/ Dup2(o, p)
    /\ Sweep

-----------------------------------------------------------------------------
\* What epoll_ctl() takes: the number of an epoll and that of something it can
\* watch; a regular file is refused, and lists of lists are left out.
Watchable(ep, o) ==
    /\ live[ep] = "epoll" /\ Opens(ep) /\ kind[table[fd[ep]]] = "epoll"
    /\ Opens(o) /\ kind[table[fd[o]]] \notin {"file", "epoll"}

EntriesOf(ep, o) ==
    {e \in interest : e.ep = table[fd[ep]] /\ e.num = fd[o] /\ e.file = table[fd[o]]}

\* Wrong variant: the event names the number of the epoll itself.
AddSwapped(ep, o) ==
    /\ Watchable(ep, o) /\ EntriesOf(ep, o) = {}
    /\ interest' = interest \cup
         {[ep |-> table[fd[ep]], num |-> fd[ep], file |-> table[fd[o]], wanted |-> TRUE]}
    /\ UNCHANGED <<vars, shared>>

\* epoll::add(): what is there already is refused, and the call throws.
Add(ep, o) ==
    /\ Watchable(ep, o) /\ EntriesOf(ep, o) = {}
    /\ interest' = interest \cup
         {[ep |-> table[fd[ep]], num |-> fd[o], file |-> table[fd[o]], wanted |-> TRUE]}
    /\ UNCHANGED <<vars, shared>>

\* epoll::mod(): another event mask, the empty one for instance.
Mod(ep, o, w) ==
    /\ Watchable(ep, o) /\ EntriesOf(ep, o) # {}
    /\ interest' = (interest \ EntriesOf(ep, o)) \cup
         {[e EXCEPT !.wanted = w] : e \in EntriesOf(ep, o)}
    /\ UNCHANGED <<vars, shared>>

\* epoll::del()
Del(ep, o) ==
    /\ Watchable(ep, o) /\ EntriesOf(ep, o) # {}
    /\ interest' = interest \ EntriesOf(ep, o)
    /\ UNCHANGED <<vars, shared>>

\* epoll::ctl(): all of them come here.
Ctl(ep, o) ==
    \/ Add(ep, o) \/ Del(ep, o)
    \/ \E w \in BOOLEAN : Mod(ep, o, w)

EpollNext ==
    \E o \in Objs :
        \/ CreateEpoll(o) \/ Other(o)
        \/ \E p \in Objs : DupEpoll(o, p) \/ MoveEpoll(o, p) \/ Ctl(o, p)

EpollSpec == EpollInit /\ [][EpollNext]_<<vars, epollVars>>

-----------------------------------------------------------------------------
\* PROPERTIES

\* What epoll::wait() may report - by the number it was told - belongs to a live
\* object that has the number and was made for the very file the event is about,
\* whatever was moved, closed and opened again since, as long as nothing was
\* duplicated: a duplicate keeps an entry in the list when the number it was added
\* with is closed and handed out again.
WatchedOwned ==
    \A e \in interest :
        ~aliased /\ ~shared =>
            \E o \in Objs : live[o] # Dead /\ fd[o] = e.num /\ meant[o] = e.file
=============================================================================
