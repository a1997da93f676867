------------------------------- MODULE FdPass -------------------------------
(***************************************************************************)
(* fd::easy::fdpass: lists of file descriptors sent over a datagram socket *)
(* that a path names, in batches of at most MAX_BATCH_SIZE; every datagram *)
(* carries the length of the whole list and one batch of descriptors.      *)
(*                                                                         *)
(* Every process owns one fdpass object; or else two of them share a       *)
(* connected stream socket, over which they use the static functions: a    *)
(* message has a size of its own there too, for descriptors come with it.  *)
(* The i-th descriptor of the k-th list is <<k, i>>: what matters is which *)
(* object ends up owning it.                                               *)
(***************************************************************************)
EXTENDS Integers, Sequences, Functions

CONSTANTS
    Senders, Receivers, \* processes that call send(), and recv()
    Batch,              \* MAX_BATCH_SIZE
    Counts,             \* lengths of the lists that are sent
    QueueLen,           \* datagrams a socket holds before sendmsg() blocks
    Nobody,             \* no process
    MaxLists,           \* bound: lists sent
    MaxRecvs,           \* bound: calls of recv(), for each process
    MaxFailures         \* bound: system calls that fail, processes that die

ASSUME PassAssumption ==
    /\ Batch \in Nat \ {0} /\ QueueLen \in Nat \ {0}
    /\ Counts \subseteq Nat
    /\ Nobody \notin Senders \cup Receivers
    /\ MaxLists \in Nat /\ MaxRecvs \in Nat /\ MaxFailures \in Nat

Procs == Senders \cup Receivers

VARIABLES
    stream,    \* the static functions are used, over a stream
    pc,        \* what a process does, see States
    ready,     \* _ready
    path,      \* the process whose socket _path names
    peer,      \* the process a socket is connected to
    queue,     \* the datagrams waiting at a socket
    list,      \* the list the running send() sends
    next,      \* descriptors of it that have been sent
    v,         \* the vector of the running recv()
    room,      \* descriptors msg_controllen leaves room for in that recv()
    returned,  \* the lists recv() has returned (history)
    installed, \* descriptors the kernel has opened in a process, less those closed
    lists,     \* the lists sent so far, complete or not (history)
    complete,  \* numbers of those whose send() returned (history)
    cut,       \* a call failed with its list half transferred (history)
    calls, failures

sendVars == <<list, next, lists, complete>>
recvVars == <<v, room, returned, installed, calls>>
vars == <<stream, pc, ready, path, peer, queue, sendVars, recvVars, cut, failures>>

\* bind: between the unlink() and the bind() of recv(); undefined: the loop in recv()
\* has run off the end of its buffer; crashed: it has followed a null pointer
States == {"idle", "send", "bind", "recv", "gone", "undefined", "crashed"}

\* What the receiver finds behind the descriptors a message brought.
Garbage == <<0, 0>>
Fds == (Nat \X Nat) \cup {Garbage}

TypeOK ==
    /\ stream \in BOOLEAN
    /\ pc \in [Procs -> States]
    /\ ready \in [Procs -> BOOLEAN]
    /\ path \in Procs \cup {Nobody} /\ peer \in [Procs -> Procs \cup {Nobody}]
    /\ queue \in [Procs -> Seq([size : Nat, fds : Seq(Fds)])]
    /\ \A p \in Procs : Len(queue[p]) <= QueueLen
    /\ \A p \in Procs : \A i \in 1..Len(queue[p]) : Len(queue[p][i].fds) \in 1..Batch
    /\ list \in [Procs -> Seq(Fds)] /\ next \in [Procs -> Nat]
    /\ v \in [Procs -> Seq(Fds)] /\ room \in [Procs -> 0..(Batch + 1)]
    /\ returned \in [Procs -> Seq(Seq(Fds))]
    /\ installed \in [Procs -> SUBSET Fds]
    /\ lists \in Seq(Seq(Fds)) /\ complete \subseteq 1..Len(lists)
    /\ cut \in BOOLEAN
    /\ calls \in [Procs -> 0..MaxRecvs] /\ failures \in 0..MaxFailures

Init ==
    /\ stream \in BOOLEAN /\ ready = [p \in Procs |-> stream]
    /\ \/ /\ ~stream /\ peer = [p \in Procs |-> Nobody]
          /\ pc = [p \in Procs |-> "idle"]
       \/ /\ stream
          /\ \E a \in Senders : \E b \in Receivers \ {a} :   \* and no others
               /\ peer = [p \in Procs |-> IF p = a THEN b ELSE IF p = b THEN a ELSE Nobody]
               /\ pc = [p \in Procs |-> IF p \in {a, b} THEN "idle" ELSE "gone"]
    /\ path = Nobody
    /\ queue = [p \in Procs |-> <<>>]
    /\ list = [p \in Procs |-> <<>>] /\ next = [p \in Procs |-> 0]
    /\ v = [p \in Procs |-> <<>>] /\ room = [p \in Procs |-> 0]
    /\ returned = [p \in Procs |-> <<>>] /\ installed = [p \in Procs |-> {}]
    /\ lists = <<>> /\ complete = {} /\ cut = FALSE
    /\ calls = [p \in Procs |-> 0] /\ failures = 0

-----------------------------------------------------------------------------
Alive(p) == p # Nobody /\ pc[p] \notin {"gone", "crashed"}

\* send(begin, end): connect() unless _ready.  If nobody is bound to the path, or
\* _ready came from recv(), the call throws and nothing has changed.
SendStart(p, c) ==
    /\ pc[p] = "idle" /\ Len(lists) < MaxLists
    /\ IF ready[p] THEN peer[p] # Nobody ELSE Alive(path)
    /\ ready' = [ready EXCEPT ![p] = TRUE]
    /\ peer' = [peer EXCEPT ![p] = IF ready[p] THEN @ ELSE path]
    /\ LET fds == [i \in 1..c |-> <<Len(lists) + 1, i>>] IN
         /\ lists' = Append(lists, fds)
         /\ list' = [list EXCEPT ![p] = fds]
    /\ next' = [next EXCEPT ![p] = 0]
    /\ IF c = 0                            \* begin = end: no message at all
       THEN complete' = complete \cup {Len(lists) + 1} /\ UNCHANGED pc
       ELSE pc' = [pc EXCEPT ![p] = "send"] /\ UNCHANGED complete
    /\ UNCHANGED <<stream, path, queue, recvVars, cut, failures>>

LastOf(p) == IF next[p] + Batch < Len(list[p]) THEN next[p] + Batch ELSE Len(list[p])

\* Wrong variants: the rest of the list in one message; the iterator is not
\* advanced with the batch.
BatchAll(p) == SubSeq(list[p], next[p] + 1, Len(list[p]))
BatchRepeats(p) == SubSeq(list[p], 1, LastOf(p) - next[p])

BatchOf(p) == SubSeq(list[p], next[p] + 1, LastOf(p))

\* One round of the loop; sendmsg() blocks while the receiver's queue is full.
SendBatch(p) ==
    /\ pc[p] = "send" /\ Alive(peer[p]) /\ Len(queue[peer[p]]) < QueueLen
    /\ queue' = [queue EXCEPT ![peer[p]] =
                   Append(@, [size |-> Len(list[p]), fds |-> BatchOf(p)])]
    /\ next' = [next EXCEPT ![p] = LastOf(p)]
    /\ IF LastOf(p) = Len(list[p])
       THEN /\ pc' = [pc EXCEPT ![p] = "idle"]
            /\ complete' = complete \cup {list[p][1][1]}
       ELSE UNCHANGED <<pc, complete>>
    /\ UNCHANGED <<stream, ready, path, peer, list, lists, recvVars, cut, failures>>

\* sendmsg() throws and the rest of the list is not sent.
SendThrows(p) ==
    /\ pc[p] = "send"
    /\ pc' = [pc EXCEPT ![p] = "idle"]
    /\ cut' = (cut \/ next[p] > 0)
    /\ UNCHANGED <<stream, ready, path, peer, queue, sendVars, recvVars>>

\* Wrong variant: a sendmsg() nobody will ever receive is tried again.
SendRefusedAgain(p) == pc[p] = "send" /\ ~Alive(peer[p]) /\ UNCHANGED vars

SendRefused(p) == SendThrows(p) /\ ~Alive(peer[p]) /\ UNCHANGED failures

SendFails(p) ==
    SendThrows(p) /\ failures < MaxFailures /\ failures' = failures + 1

-----------------------------------------------------------------------------
\* The static recv(sock): a vector, and a control buffer for a batch.
RecvEnter(p) ==
    /\ calls[p] < MaxRecvs
    /\ calls' = [calls EXCEPT ![p] = @ + 1]
    /\ pc' = [pc EXCEPT ![p] = "recv"]
    /\ v' = [v EXCEPT ![p] = <<>>]
    /\ room' = [room EXCEPT ![p] = Batch]
    /\ UNCHANGED <<stream, peer, queue, sendVars, returned, installed, cut, failures>>

\* recv(): unlink() unless _ready, whoever the path names.  An object that has sent
\* is _ready, and waits at a socket no path names.
RecvStart(p) ==
    /\ pc[p] = "idle"
    /\ \/ ready[p] /\ RecvEnter(p) /\ UNCHANGED <<ready, path>>
       \/ /\ ~ready[p] /\ calls[p] < MaxRecvs
          /\ path' = Nobody
          /\ pc' = [pc EXCEPT ![p] = "bind"]
          /\ UNCHANGED <<stream, ready, peer, queue, sendVars, recvVars, cut, failures>>

RecvBind(p) ==
    /\ pc[p] = "bind" /\ path = Nobody
    /\ path' = p
    /\ ready' = [ready EXCEPT ![p] = TRUE]
    /\ RecvEnter(p)

\* bind() throws, if only because another process has bound the path meanwhile: it
\* stays as it is, and the object is not _ready.
RecvBindFails(p) ==
    /\ pc[p] = "bind"
    /\ \/ path # Nobody /\ UNCHANGED failures
       \/ failures < MaxFailures /\ failures' = failures + 1
    /\ pc' = [pc EXCEPT ![p] = "idle"]
    /\ UNCHANGED <<stream, ready, path, peer, queue, sendVars, recvVars, cut>>

\* Wrong variants: one descriptor, or a full batch, for every message.
TakeOne(diff) == 1
TakeBatch(diff) == Batch

\* min(diff, MAX_BATCH_SIZE): how many ints are wrapped in descriptor objects,
\* whatever number of them the message brought.
Take(diff) == IF diff < Batch THEN diff ELSE Batch

\* recvmsg() opens the descriptors of the message that msg_controllen has room
\* for, and leaves the length it used there, rounded up to two ints.
Opened(p, fds) == SubSeq(fds, 1, IF Len(fds) < room[p] THEN Len(fds) ELSE room[p])
RoomAfter(m) == IF m % 2 = 0 THEN m ELSE m + 1

Wrapped(fds, m) == [i \in 1..m |-> IF i <= Len(fds) THEN fds[i] ELSE Garbage]

\* Wrong variant: the loop ends one descriptor late.
EnoughPlusOne(vec, size) == Len(vec) > size

Enough(vec, size) == Len(vec) = size

\* One round of the loop of the static recv().
RecvBatch(p) ==
    /\ pc[p] = "recv" /\ queue[p] # <<>>
    /\ queue' = [queue EXCEPT ![p] = Tail(@)]
    /\ LET m == Head(queue[p])
           fds == Opened(p, m.fds)
           diff == m.size - Len(v[p])
           vec == v[p] \o Wrapped(fds, Take(diff))
       IN /\ installed' = [installed EXCEPT ![p] = @ \cup Range(fds)]
          /\ room' = [room EXCEPT ![p] = RoomAfter(Len(fds))]
          /\ \/ /\ diff < 0                 \* while (batch_size--) does not end
                /\ pc' = [pc EXCEPT ![p] = "undefined"]
                /\ UNCHANGED <<v, returned>>
             \/ /\ diff >= 0 /\ ~Enough(vec, m.size)
                /\ v' = [v EXCEPT ![p] = vec]
                /\ UNCHANGED <<pc, returned>>
             \/ /\ diff >= 0 /\ Enough(vec, m.size)
                /\ v' = [v EXCEPT ![p] = <<>>]
                /\ returned' = [returned EXCEPT ![p] = Append(@, vec)]
                /\ pc' = [pc EXCEPT ![p] = "idle"]
    /\ UNCHANGED <<stream, ready, path, peer, sendVars, calls, cut, failures>>

\* recvmsg() throws: the destructors of the vector close what it holds.
RecvFails(p) ==
    /\ pc[p] = "recv"
    /\ failures < MaxFailures /\ failures' = failures + 1
    /\ pc' = [pc EXCEPT ![p] = "idle"]
    /\ installed' = [installed EXCEPT ![p] = @ \ Range(v[p])]
    /\ v' = [v EXCEPT ![p] = <<>>]
    /\ cut' = (cut \/ v[p] # <<>>)
    /\ UNCHANGED <<stream, ready, path, peer, queue, sendVars, room, returned, calls>>

\* The stream has ended: recvmsg() returns 0 and brings no control message, which
\* recv() does not look at: it takes descriptors from behind a null pointer.  Only
\* if size, which nothing has set in the first round, is 0 by chance it returns.
RecvEnds(p) ==
    /\ pc[p] = "recv" /\ stream /\ queue[p] = <<>>
    /\ peer[p] # Nobody /\ ~Alive(peer[p])
    /\ \/ /\ pc' = [pc EXCEPT ![p] = "crashed"]
          /\ installed' = [installed EXCEPT ![p] = {}]
          /\ UNCHANGED returned
       \/ /\ v[p] = <<>> /\ pc' = [pc EXCEPT ![p] = "idle"]
          /\ returned' = [returned EXCEPT ![p] = Append(@, <<>>)]
          /\ UNCHANGED installed
    /\ UNCHANGED <<stream, ready, path, peer, queue, sendVars, v, room, calls, cut, failures>>

\* A process ends: its socket and what is queued there go, the path stays.
Die(p) ==
    /\ pc[p] \in {"idle", "send", "bind", "recv"}
    /\ failures < MaxFailures /\ failures' = failures + 1
    /\ pc' = [pc EXCEPT ![p] = "gone"]
    /\ queue' = [queue EXCEPT ![p] = <<>>]
    /\ installed' = [installed EXCEPT ![p] = {}]
    /\ cut' = (cut \/ (pc[p] = "send" /\ next[p] > 0))
    /\ UNCHANGED <<stream, ready, path, peer, sendVars, v, room, returned, calls>>

-----------------------------------------------------------------------------
Next ==
    \/ \E p \in Senders : \/ \E c \in Counts : SendStart(p, c)
                          \/ SendBatch(p) \/ SendRefused(p) \/ SendFails(p)
    \/ \E p \in Receivers : \/ RecvStart(p) \/ RecvBind(p) \/ RecvBindFails(p)
                            \/ RecvBatch(p) \/ RecvFails(p) \/ RecvEnds(p)
    \/ \E p \in Procs : Die(p)

Spec == Init /\ [][Next]_vars

\* The kernel wakes a thread that sleeps in sendmsg() or recvmsg(), and a process
\* that receives calls recv() again and again.
FairSpec ==
    /\ Spec
    /\ \A p \in Senders : WF_vars(SendBatch(p)) /\ WF_vars(SendRefused(p))
    /\ \A p \in Receivers : WF_vars(RecvStart(p)) /\ WF_vars(RecvBatch(p))

-----------------------------------------------------------------------------
\* PROPERTIES

\* The vectors of a process: those recv() has returned, and the one it fills.
Vectors(p) == Append(returned[p], v[p])
Owned(p) == UNION {Range(l) : l \in Range(Vectors(p))}

\* With one process sending, recv() returns lists as send() was given them,
\* whole, and none twice or out of order, however they were cut into batches
\* and whoever took the path over - until a call fails in the middle of one.  (An
\* empty vector stands for the end of a stream.)
ListsIntact ==
    ~cut => \A p \in Receivers :
              LET got == {i \in DOMAIN returned[p] : returned[p][i] # <<>>} IN
                /\ \A i \in got : returned[p][i] \in Range(lists)
                /\ \A i, j \in got : i < j => returned[p][i][1][1] < returned[p][j][1][1]

\* The lists come out of the processes that only receive as out of a FIFO: none
\* is left out, for as long as the receiver lives, and recv() finds the end of a
\* stream behind the last of them.
Channel == INSTANCE ListChannel
             WITH Ends <- Receivers \ Senders, broken <- cut,
                  offered <- {lists[k] : k \in complete} \ {<<>>},
                  got <- [p \in Receivers \ Senders |-> returned[p]]

ImplementsChannel == Channel!Spec

\* Every descriptor recvmsg() opened is owned by a descriptor object, which will
\* close it ("No file descriptor leaking").
NoLeak ==
    ~cut => \A p \in Receivers : pc[p] # "undefined" => installed[p] \subseteq Owned(p)

\* No descriptor is in two vectors of a process, or in one of them twice.
OwnedOnce(p) ==
    \A i, j \in DOMAIN Vectors(p) :
        \A a \in DOMAIN Vectors(p)[i], b \in DOMAIN Vectors(p)[j] :
            Vectors(p)[i][a] = Vectors(p)[j][b] => i = j /\ a = b

\* The other way round: no object owns, and will close, a number recvmsg() did
\* not put there, and no two of them own the same; and recv() over a stream does
\* not run into its end before it has returned every list that was sent whole.
NothingForeign ==
    ~cut => \A p \in Receivers :
              /\ pc[p] # "undefined" /\ OwnedOnce(p)
              /\ pc[p] = "crashed" /\ p \notin Senders =>
                    {lists[k] : k \in complete} \ {<<>>} \subseteq Range(returned[p])
              /\ pc[p] \notin {"gone", "crashed"} => Owned(p) \subseteq installed[p]

\* With one process sending, a list whose send() has returned is returned by a
\* recv() of the process its socket is connected to, which goes on receiving,
\* unless that very process dies.  (A connected socket stays connected.)
ListsArrive ==
    \A k \in 1..MaxLists, s \in Senders :
        k \in complete ~>
            /\ k \in complete
            /\ \/ lists[k] = <<>> \/ cut
               \/ /\ peer[s] \in Receivers
                  /\ lists[k] \in Range(returned[peer[s]]) \/ pc[peer[s]] = "gone"

\* send() does not block for ever: a receiver takes what fills its queue, and a
\* receiver that is gone refuses the rest.  (Once a call has failed in the middle
\* of a list the receiver may be past helping.)
SendsReturn == \A p \in Senders : pc[p] = "send" ~> pc[p] # "send" \/ cut
=============================================================================
