----------------------------- MODULE EventLoop -----------------------------
(***************************************************************************)
(* A server in the manner of tests/epoll_test.cpp: a socket made by a      *)
(* factory of fd::easy, accept(), connections kept in a map by number, a   *)
(* signalfd that ends the loop, and an eventfd with which other threads    *)
(* wake it, all waited for with fd::epoll.  Clients are processes of their *)
(* own.  The server may die and be started again.                          *)
(*                                                                         *)
(* Of the descriptors that stay open all the time the inotify and the      *)
(* epoll are left out; the eventfd stands where the test has its timerfd.  *)
(***************************************************************************)
EXTENDS EventFd, SequencesExt

CONSTANTS
    Clients,     \* processes that connect
    Loop,        \* the thread of the server that runs the loop
    Servers,     \* servers, <<"unix", n>> or <<"inet", n>>, that may have n descriptors
    Backlog,     \* argument of listen()
    MaxSends,    \* bound: messages of a client
    MaxDeaths    \* bound: servers that die

ASSUME LoopAssumption ==
    /\ Servers \subseteq {"unix", "inet"} \X Nat /\ \A s \in Servers : s[2] >= 3
    /\ Backlog \in Nat /\ MaxSends \in Nat /\ MaxDeaths \in Nat
    /\ Loop \in Threads /\ "closed" \notin Clients

VARIABLES
    server,   \* which of the servers this is
    address,  \* there is a file, or a socket, with the server's address
    pc,       \* what the server does, see Phases
    table,    \* what the server's descriptors lead to
    watch,    \* numbers in the interest list of epoll
    events,   \* numbers in events[] that are yet to be handled
    conns,    \* conn_map
    busy,     \* the number whose recv() is repeated
    looping,  \* the variable loop of main()
    signal,   \* SIGTERM is pending
    queue,    \* connections that wait for accept()
    client,   \* what a client does
    unread,   \* messages in the receive buffer of a connection
    sent, received, \* messages of a client (history)
    deaths

serverVars == <<address, pc, table, watch, events, conns, busy, looping>>
clientVars == <<queue, client, unread, sent, received>>
vars == <<server, serverVars, signal, clientVars, deaths, evVars>>

Writers == Threads \ {Loop}   \* they write to the eventfd

Closed == "closed"
Signals == 1    \* numbers are handed out from the lowest up, in the order of main()
Counter == 2
Listener == 3
Fixed == {Signals, Counter, Listener}
family == server[1]   \* of its sockets
Numbers == 1..server[2]

\* refused: bind() has found the address in use, and the process has ended;
\* down: not started yet, or dead; stopped: main() has returned
Starting == {"socket", "bind", "listen", "setup"}
Running == {"wait", "dispatch", "read", "recv"}
Ended == {"down", "refused", "stopped"}
Phases == Starting \cup Running \cup Ended

LoopTypeOK ==
    /\ server \in Servers /\ address \in BOOLEAN /\ pc \in Phases
    /\ table \in [Numbers -> Clients \cup {Closed, "signalfd", "eventfd", "server"}]
    /\ watch \subseteq Numbers /\ events \subseteq Numbers
    /\ DOMAIN conns \subseteq Numbers /\ Range(conns) \subseteq Clients
    /\ busy \in Numbers /\ looping \in BOOLEAN /\ signal \in BOOLEAN
    /\ queue \in Seq(Clients) /\ Len(queue) <= Backlog + 1
    /\ client \in [Clients -> {"new", "connected", "closed", "reset"}]
    /\ unread \in [Clients -> 0..MaxSends]
    /\ sent \in [Clients -> 0..MaxSends] /\ received \in [Clients -> 0..MaxSends]
    /\ deaths \in 0..MaxDeaths
    /\ EvTypeOK

Init ==
    /\ server \in Servers /\ address = FALSE
    /\ pc = "down" /\ table = [n \in Numbers |-> Closed]
    /\ watch = {} /\ events = {} /\ conns = <<>> /\ busy = Listener
    /\ looping = TRUE /\ signal = FALSE
    /\ queue = <<>> /\ client = [c \in Clients |-> "new"]
    /\ unread = [c \in Clients |-> 0] /\ sent = [c \in Clients |-> 0]
    /\ received = [c \in Clients |-> 0] /\ deaths = 0
    /\ EvInit /\ counter = 0 /\ ~semaphore

-----------------------------------------------------------------------------
\* START AND END OF THE SERVER

\* What a new process begins with: a signalfd, and an eventfd at 0.
Begin ==
    /\ pc \in Ended /\ pc' = "socket"
    /\ table' = [table EXCEPT ![Signals] = "signalfd", ![Counter] = "eventfd"]
    /\ UNCHANGED <<server, watch, events, conns, busy, looping, signal, clientVars,
                    deaths, evVars>>

\* Wrong variant: the file that the server before has left is not removed.
StartKeepsFile == Begin /\ UNCHANGED address

\* main() up to the factory; unlink() removes the file of a unix socket.
Start == Begin /\ address' = (address /\ family = "inet")

Socket ==
    /\ pc = "socket" /\ pc' = "bind"
    /\ table' = [table EXCEPT ![Listener] = "server"]
    /\ UNCHANGED <<address, watch, events, conns, busy, looping, clientVars>>

Bind ==
    /\ pc = "bind" /\ ~address
    /\ pc' = "listen" /\ address' = TRUE
    /\ UNCHANGED <<table, watch, events, conns, busy, looping, clientVars>>

\* The process is gone with its threads, and the kernel closes its descriptors:
\* connections are reset, accepted or not.  The file of a unix socket stays, and
\* the address of an inet socket may be in use for a while when there were
\* connections.  Variables of the process get the values a new one begins with.
Gone ==
    /\ table' = [n \in Numbers |-> Closed]
    /\ watch' = {} /\ events' = {} /\ conns' = <<>> /\ queue' = <<>>
    /\ address' \in IF family = "inet" /\ DOMAIN conns # {} THEN {address, FALSE}
                    ELSE {address /\ (family = "unix" \/ pc = "bind")}
    /\ client' = [c \in Clients |->
                    IF c \in Range(queue) \cup Range(conns) THEN "reset" ELSE client[c]]
    /\ unread' = [c \in Clients |-> 0]
    /\ busy' = Listener /\ looping' = TRUE /\ signal' = FALSE
    /\ counter' = 0 /\ written' = 0 /\ returned' = 0
    /\ doing' = [t \in DOMAIN doing |-> "nothing"] /\ val' = [t \in DOMAIN val |-> 0]
    /\ UNCHANGED <<server, sent, received, semaphore, offered>>

\* bind() throws, and nothing of the factory or of main() catches it.
BindRefused ==
    /\ pc = "bind" /\ address
    /\ pc' = "refused" /\ Gone
    /\ UNCHANGED deaths

Listen ==
    /\ pc = "listen" /\ pc' = "setup"
    /\ UNCHANGED <<address, table, watch, events, conns, busy, looping, clientVars>>

\* server() of unix_socket, and of tcp_socket: socket(), bind(), listen().
ServerFactory ==
    \/ /\ Socket \/ Bind \/ Listen
       /\ UNCHANGED <<server, signal, deaths, evVars>>
    \/ BindRefused

UnixServer == family = "unix" /\ ServerFactory
InetServer == family = "inet" /\ ServerFactory

\* epoll::epoll() and the calls of epoll::add() before the loop.
Setup ==
    /\ pc = "setup" /\ pc' = "wait"
    /\ watch' = Fixed
    /\ UNCHANGED <<server, address, table, events, conns, busy, looping, signal,
                    clientVars, deaths, evVars>>

\* An exception nobody catches - any system call may fail - or a SIGKILL.
Die ==
    /\ pc \in Starting \cup Running
    /\ deaths < MaxDeaths /\ deaths' = deaths + 1
    /\ pc' = "down" /\ Gone

\* The kernel gives up the address of an inet socket that is gone.
Expire ==
    /\ family = "inet" /\ pc \in Ended \cup {"socket"} /\ address
    /\ address' = FALSE
    /\ UNCHANGED <<server, pc, table, watch, events, conns, busy, looping, signal,
                    clientVars, deaths, evVars>>

\* Somebody sends SIGTERM, which main() has blocked.
Signal ==
    /\ pc \in Starting \cup Running /\ ~signal
    /\ signal' = TRUE
    /\ UNCHANGED <<server, serverVars, clientVars, deaths, evVars>>

-----------------------------------------------------------------------------
\* CLIENTS

Listening == pc \in {"setup"} \cup Running

\* client() of unix_socket, and of tcp_socket: socket() and connect(), which waits
\* while the queue is full.  When nobody listens it throws, the socket is destroyed
\* on the way, and nothing has changed.
ClientFactory(c) ==
    /\ client[c] = "new" /\ Listening /\ Len(queue) <= Backlog
    /\ client' = [client EXCEPT ![c] = "connected"]
    /\ queue' = Append(queue, c)
    /\ UNCHANGED <<server, serverVars, signal, unread, sent, received, deaths,
                    evVars>>

UnixClient(c) == family = "unix" /\ ClientFactory(c)
InetClient(c) == family = "inet" /\ ClientFactory(c)

ClientSend(c) ==
    /\ client[c] = "connected" /\ sent[c] < MaxSends
    /\ sent' = [sent EXCEPT ![c] = @ + 1] /\ unread' = [unread EXCEPT ![c] = @ + 1]
    /\ UNCHANGED <<server, serverVars, signal, queue, client, received, deaths,
                    evVars>>

ClientClose(c) ==
    /\ client[c] = "connected" /\ client' = [client EXCEPT ![c] = "closed"]
    /\ UNCHANGED <<server, serverVars, signal, queue, unread, sent, received, deaths,
                    evVars>>

-----------------------------------------------------------------------------
\* THE LOOP

Ready(n) ==
    \/ n = Signals /\ signal
    \/ n = Counter /\ counter > 0
    \/ n = Listener /\ queue # <<>>
    \/ n \in DOMAIN conns /\ (unread[conns[n]] > 0 \/ client[conns[n]] = "closed")

\* epoll::wait(): events[] holds all that is ready.
Wait ==
    /\ pc = "wait" /\ \E n \in watch : Ready(n)
    /\ pc' = "dispatch" /\ events' = {n \in watch : Ready(n)}
    /\ UNCHANGED <<server, address, table, watch, conns, busy, looping, signal,
                    clientVars, deaths, evVars>>

\* Wrong variant: the signal is read, and nothing is done about it.
HandleSignalIgnores ==
    /\ pc = "dispatch" /\ Signals \in events
    /\ events' = events \ {Signals} /\ signal' = FALSE
    /\ UNCHANGED <<server, address, pc, table, watch, conns, busy, looping,
                    clientVars, deaths, evVars>>

\* signalfd::read() takes the signal.
ReadSignal == signal /\ signal' = FALSE

\* SIGTERM ends the loop; the events that are left are still handled.
HandleSignal ==
    /\ pc = "dispatch" /\ Signals \in events /\ ReadSignal
    /\ events' = events \ {Signals} /\ looping' = FALSE
    /\ UNCHANGED <<server, address, pc, table, watch, conns, busy, clientVars, deaths,
                    evVars>>

\* The loop calls eventfd::read() ...
HandleCounter ==
    /\ pc = "dispatch" /\ Counter \in events
    /\ events' = events \ {Counter} /\ pc' = "read" /\ Read(Loop)
    /\ UNCHANGED <<server, address, table, watch, conns, busy, looping, signal,
                    clientVars, deaths>>

\* ... and has its answer.
CounterReturns ==
    /\ pc = "read" /\ pc' = "dispatch" /\ ReadReturns(Loop)
    /\ UNCHANGED <<server, address, table, watch, events, conns, busy, looping,
                    signal, clientVars, deaths>>

Unused == {n \in Numbers : table[n] = Closed}

\* socket::accept(): the connection that has waited longest, and a number for it.
Accept(n, c) ==
    /\ n \in Unused /\ n = Min(Unused) /\ c = Head(queue)
    /\ table' = [table EXCEPT ![n] = c] /\ queue' = Tail(queue)

\* conn_map.insert(), which keeps an entry that is there.
Inserted(n, c) == [m \in DOMAIN conns \cup {n} |-> IF m \in DOMAIN conns THEN conns[m] ELSE c]

\* Wrong variant: the new connection is not given to epoll.
HandleServerUnwatched ==
    /\ pc = "dispatch" /\ Listener \in events
    /\ events' = events \ {Listener}
    /\ \E n \in Numbers, c \in Clients : Accept(n, c) /\ conns' = Inserted(n, c)
    /\ UNCHANGED <<server, address, pc, watch, busy, looping, signal, client, unread,
                    sent, received, deaths, evVars>>

\* The loop takes a connection, and has epoll watch it.
HandleServer ==
    /\ pc = "dispatch" /\ Listener \in events
    /\ events' = events \ {Listener}
    /\ \E n \in Numbers, c \in Clients :
         Accept(n, c) /\ watch' = watch \cup {n} /\ conns' = Inserted(n, c)
    /\ UNCHANGED <<server, address, pc, busy, looping, signal, client, unread, sent,
                    received, deaths, evVars>>

\* accept() finds no number free; nobody catches its exception.
AcceptFails ==
    /\ pc = "dispatch" /\ Listener \in events /\ Unused = {}
    /\ pc' = "down" /\ Gone
    /\ UNCHANGED deaths

\* The branch of a connection: conn_map.find(), and a loop around recv().
HandleConn(n) ==
    /\ pc = "dispatch" /\ n \in events \ Fixed
    /\ events' = events \ {n} /\ pc' = "recv" /\ busy' = n
    /\ UNCHANGED <<server, address, table, watch, conns, looping, signal, clientVars,
                    deaths, evVars>>

\* Wrong variant: the bytes stay in the buffer.
RecvPeeks ==
    /\ pc = "recv" /\ unread[conns[busy]] > 0
    /\ LET c == conns[busy] IN received' = [received EXCEPT ![c] = @ + unread[c]]
    /\ UNCHANGED <<server, serverVars, signal, queue, client, unread, sent, deaths, evVars>>

\* socket::recv()
RecvSome ==
    /\ pc = "recv" /\ unread[conns[busy]] > 0
    /\ LET c == conns[busy] IN
         /\ received' = [received EXCEPT ![c] = @ + unread[c]]
         /\ unread' = [unread EXCEPT ![c] = 0]
    /\ UNCHANGED <<server, serverVars, signal, queue, client, sent, deaths, evVars>>

\* Wrong variant: the socket is closed, and its entry stays in conn_map.
RecvEndKeepsEntry ==
    /\ pc = "recv" /\ unread[conns[busy]] = 0 /\ client[conns[busy]] = "closed"
    /\ pc' = "dispatch"
    /\ table' = [table EXCEPT ![busy] = Closed] /\ watch' = watch \ {busy}
    /\ UNCHANGED <<server, address, events, conns, busy, looping, signal, clientVars,
                    deaths, evVars>>

\* Wrong variant: one recv() is enough.
RecvEndEarly ==
    /\ pc = "recv" /\ pc' = "dispatch"
    /\ table' = [table EXCEPT ![busy] = Closed] /\ watch' = watch \ {busy}
    /\ conns' = [n \in DOMAIN conns \ {busy} |-> conns[n]]
    /\ UNCHANGED <<server, address, events, busy, looping, signal, clientVars, deaths,
                    evVars>>

\* recv() returns 0 at the end of the stream.  erase() destroys the socket, and
\* with its descriptor the entry of the interest list goes.
RecvEnd ==
    /\ pc = "recv" /\ unread[conns[busy]] = 0 /\ client[conns[busy]] = "closed"
    /\ pc' = "dispatch"
    /\ table' = [table EXCEPT ![busy] = Closed] /\ watch' = watch \ {busy}
    /\ conns' = [n \in DOMAIN conns \ {busy} |-> conns[n]]
    /\ UNCHANGED <<server, address, events, busy, looping, signal, clientVars, deaths,
                    evVars>>

\* All events have been handled, and the loop goes on.
NextRound ==
    /\ pc = "dispatch" /\ events = {} /\ looping
    /\ pc' = "wait"
    /\ UNCHANGED <<server, address, table, watch, events, conns, busy, looping,
                    signal, clientVars, deaths, evVars>>

\* main() returns: every object is destroyed.
Stop ==
    /\ pc = "dispatch" /\ events = {} /\ ~looping
    /\ pc' = "stopped" /\ Gone
    /\ UNCHANGED deaths

\* Threads of the server write to the eventfd.
WriterStep(t) ==
    /\ pc \in Running
    /\ (\E v \in Values : Write(t, v)) \/ WriteReturns(t) \/ Interrupted(t)
    /\ UNCHANGED <<server, serverVars, signal, clientVars, deaths>>

LoopStep ==
    \/ Wait \/ HandleSignal \/ HandleCounter \/ CounterReturns
    \/ HandleServer \/ AcceptFails \/ \E n \in Numbers : HandleConn(n)
    \/ RecvSome \/ RecvEnd \/ NextRound \/ Stop

ServerStep == UnixServer \/ InetServer \/ Setup \/ LoopStep

Next ==
    \/ Start \/ ServerStep \/ Die \/ Expire \/ Signal
    \/ \E c \in Clients :
         UnixClient(c) \/ InetClient(c) \/ ClientSend(c) \/ ClientClose(c)
    \/ \E t \in Writers : WriterStep(t)

Spec == Init /\ [][Next]_vars

\* The thread of the server is scheduled, and clients do not stay forever.
FairSpec ==
    /\ Spec /\ WF_vars(ServerStep)
    /\ \A c \in Clients : WF_vars(ClientClose(c))

-----------------------------------------------------------------------------
\* PROPERTIES

Pending == Range(queue)
Served == Range(conns)

\* The map of connections, the descriptors and the interest list of epoll stay in
\* step while numbers are closed and handed out again, also in the middle of a
\* batch of events: an event that is yet to be handled is one of the fixed objects
\* or has its entry in conn_map.
ConnectionsInStep ==
    pc \in Running =>
        /\ watch = Fixed \cup DOMAIN conns /\ events \subseteq watch
        /\ \A n \in Numbers \ Fixed :
             table[n] = IF n \in DOMAIN conns THEN conns[n] ELSE Closed

\* No connection is lost, and none is held twice; when one is let go all that its
\* client sent has been received.
NoConnectionLost ==
    /\ \A i, j \in 1..Len(queue) : queue[i] = queue[j] => i = j
    /\ \A m, n \in DOMAIN conns : conns[m] = conns[n] => m = n
    /\ Pending \cap Served = {}
    /\ \A c \in Clients :
         /\ client[c] = "connected" => c \in Pending \cup Served
         /\ client[c] = "closed" /\ c \notin Pending \cup Served => received[c] = sent[c]

\* A server with a unix socket can always be started again, whatever the end of the
\* one before: main() removes the file, and an address found in use is an inet one.
Restartable == pc = "refused" => family = "inet"

\* A client that connected is served to the end of what it sent, unless the server
\* ends first.
ClientsServed ==
    \A c \in Clients :
        c \in Pending ~> \/ client[c] = "reset"
                         \/ client[c] = "closed" /\ c \notin Pending \cup Served

\* SIGTERM ends the process, however many events and clients there are.
SignalStops == signal ~> pc \in Ended
=============================================================================
