-------------------------- MODULE EventLoop_proofs --------------------------
(***************************************************************************)
(* The server of the event loop, with any number of clients, connections,  *)
(* descriptors, threads and deaths: the map of connections, the table of   *)
(* descriptors and the interest list agree in the middle of every batch of *)
(* events, no connection and no message is lost, and no event of the       *)
(* eventfd.                                                                *)
(***************************************************************************)
EXTENDS EventLoop, SequenceTheorems, TLAPS

-----------------------------------------------------------------------------
\* THE COUNTER.  fd::eventfd, for any number of threads, any limit, any values and
\* either kind of counter.

EvInv == EvTypeOK /\ EventsKept

\* A new object, whatever it is constructed with.
LEMMA EvInitKeeps == EvInit => EvInv
<1>1. SUFFICES ASSUME EvInit PROVE EvInv
  OBVIOUS
<1>2. counter \in Nat
  BY <1>1, EventFdAssumption, SMT DEF EvInit
<1>3. EvTypeOK
  BY <1>1, <1>2, EventFdAssumption, SMT DEF EvInit, EvTypeOK
<1>4. EventsKept
  BY <1>1, <1>2, EventFdAssumption, SMT DEF EvInit, EventsKept
<1> QED BY <1>3, <1>4 DEF EvInv

\* A step of a thread, with the other threads in the middle of any call.
LEMMA ThreadKeeps ==
    ASSUME EvInv, NEW t \in Threads, Thread(t)
    PROVE  EvInv'
<1> USE EventFdAssumption DEF EvInv, EvTypeOK, EventsKept
<1>1. CASE \E v \in Values : Write(t, v)
  <2>1. PICK v \in Values : Write(t, v)
    BY <1>1
  <2>2. v \in Nat /\ offered + v \in 0..MaxWritten
    BY <2>1 DEF Write
  <2> QED BY <2>1, <2>2 DEF Write
<1>2. CASE WriteReturns(t)
  <2>1. val[t] \in 1..Limit
    BY <1>2 DEF WriteReturns
  <2>2. counter' \in 0..Limit /\ written' \in Nat
    BY <1>2, <2>1 DEF WriteReturns
  <2>3. EventsKept'
    BY <1>2, <2>1 DEF WriteReturns
  <2> QED BY <1>2, <2>2, <2>3 DEF WriteReturns
<1>3. CASE Read(t)
  BY <1>3 DEF Read
<1>4. CASE ReadReturns(t)
  <2>1. Taken \in 1..counter
    BY <1>4 DEF ReadReturns, Taken
  <2>2. counter' \in 0..Limit /\ returned' \in Nat
    BY <1>4, <2>1 DEF ReadReturns
  <2>3. EventsKept'
    BY <1>4, <2>1 DEF ReadReturns
  <2> QED BY <1>4, <2>2, <2>3 DEF ReadReturns
<1>5. CASE Interrupted(t)
  BY <1>5 DEF Interrupted
<1> QED BY <1>1, <1>2, <1>3, <1>4, <1>5 DEF Thread

\* Nothing changes.
LEMMA StutterKeeps == ASSUME EvInv, UNCHANGED evVars PROVE EvInv'
BY DEF EvInv, EvTypeOK, EventsKept, evVars

\* eventfd.cpp: whichever threads write, read and are interrupted, in whatever
\* order, no event is lost and none is made up.
THEOREM NoEventLost == EvSpec => []EventsKept
<1>1. EvInv /\ [EvNext]_evVars => EvInv'
  BY ThreadKeeps, StutterKeeps DEF EvNext
<1>2. EvInv => EventsKept
  BY DEF EvInv
<1> QED BY EvInitKeeps, <1>1, <1>2, PTL DEF EvSpec

-----------------------------------------------------------------------------
\* THE SERVER

\* Outside its loop a server has no connections and waits for nothing; the
\* descriptors that stay open are opened in the order of main().
Quiet ==
    pc \notin Running =>
        /\ watch = {} /\ events = {} /\ DOMAIN conns = {}
        /\ \A n \in Numbers \ Fixed : table[n] = Closed

Opened ==
    /\ pc \in Running \cup {"bind", "listen", "setup"} => table[Listener] # Closed
    /\ pc \in Running \cup Starting => table[Signals] # Closed /\ table[Counter] # Closed

\* Connections have numbers of their own; the one recv() is called for has no other
\* event; an event of the socket means that somebody waits.
Batch ==
    /\ DOMAIN conns \cap Fixed = {}
    /\ pc = "recv" => busy \in DOMAIN conns /\ busy \notin events
    /\ Listener \in events => queue # <<>>

InStep == Quiet /\ Opened /\ Batch /\ ConnectionsInStep

\* What became of the messages of a client whose connection is held.
Accounts ==
    \A c \in Clients :
        /\ c \in Pending \cup Served =>
             client[c] \in {"connected", "closed"} /\ received[c] + unread[c] = sent[c]
        /\ client[c] = "new" => sent[c] = 0 /\ unread[c] = 0 /\ received[c] = 0
        /\ received[c] + unread[c] <= sent[c]

\* main() has removed the file before the factory calls bind().
FileRemoved == family = "unix" /\ pc \in {"socket", "bind"} => ~address

LoopInv ==
    /\ LoopTypeOK
    /\ InStep
    /\ NoConnectionLost /\ Accounts
    /\ EventsKept
    /\ FileRemoved /\ Restartable

-----------------------------------------------------------------------------
\* SEQUENCES AND MAPS

LEMMA EmptyRange == Range(<<>>) = {} /\ DOMAIN <<>> = {}
BY DEF Range

\* A connection is added at the end of the queue ...
LEMMA AppendRange ==
    ASSUME NEW q \in Seq(Clients), NEW c \in Clients
    PROVE  /\ Append(q, c) \in Seq(Clients) /\ Len(Append(q, c)) = Len(q) + 1
           /\ Range(Append(q, c)) = Range(q) \cup {c} /\ Append(q, c) # <<>>
           /\ c \notin Range(q)
                /\ (\A i, j \in 1..Len(q) : q[i] = q[j] => i = j)
                => \A i, j \in 1..Len(Append(q, c)) :
                        Append(q, c)[i] = Append(q, c)[j] => i = j
<1> DEFINE a == Append(q, c)
<1>1. /\ a \in Seq(Clients) /\ a # <<>> /\ Len(a) = Len(q) + 1
      /\ \A i \in 1..Len(q) : a[i] = q[i]
      /\ a[Len(q) + 1] = c
  BY AppendProperties
<1>2. /\ Len(q) \in Nat /\ DOMAIN q = 1..Len(q) /\ DOMAIN a = 1..(Len(q) + 1)
  BY <1>1, LenProperties
<1> HIDE DEF a
<1>3. Range(a) = Range(q) \cup {c}
  BY <1>1, <1>2 DEF Range
<1>4. ASSUME c \notin Range(q), \A i, j \in 1..Len(q) : q[i] = q[j] => i = j,
             NEW i \in 1..Len(a), NEW j \in 1..Len(a), a[i] = a[j]
      PROVE  i = j
  <2>1. \A k \in 1..Len(q) : q[k] # c
    BY <1>2, <1>4 DEF Range
  <2> QED BY <1>1, <1>2, <1>4, <2>1
<1> QED BY <1>1, <1>3, <1>4 DEF a

\* ... and taken from its front.
LEMMA TailRange ==
    ASSUME NEW q \in Seq(Clients), q # <<>>,
           \A i, j \in 1..Len(q) : q[i] = q[j] => i = j
    PROVE  /\ Head(q) \in Clients /\ Head(q) \in Range(q)
           /\ Tail(q) \in Seq(Clients) /\ Len(Tail(q)) = Len(q) - 1
           /\ Range(Tail(q)) = Range(q) \ {Head(q)}
           /\ \A i, j \in 1..Len(Tail(q)) : Tail(q)[i] = Tail(q)[j] => i = j
<1> DEFINE t == Tail(q)
<1>1. /\ Head(q) \in Clients /\ t \in Seq(Clients) /\ Len(t) = Len(q) - 1
      /\ \A i \in 1..Len(t) : t[i] = q[i + 1]
  BY HeadTailProperties
<1>2. /\ Len(q) \in Nat \ {0} /\ DOMAIN q = 1..Len(q) /\ DOMAIN t = 1..Len(t)
      /\ Head(q) = q[1]
  BY <1>1, LenProperties
<1> HIDE DEF t
<1>3. Head(q) \in Range(q)
  BY <1>2 DEF Range
<1>4. Range(t) \subseteq Range(q) \ {Head(q)}
  <2> SUFFICES ASSUME NEW i \in 1..Len(t) PROVE t[i] \in Range(q) /\ t[i] # q[1]
    BY <1>2 DEF Range
  <2>1. i + 1 \in 1..Len(q) /\ 1 \in 1..Len(q) /\ i + 1 # 1
    BY <1>1, <1>2
  <2> QED BY <1>1, <1>2, <2>1 DEF Range
<1>5. Range(q) \ {Head(q)} \subseteq Range(t)
  <2> SUFFICES ASSUME NEW i \in 1..Len(q), q[i] # q[1] PROVE q[i] \in Range(t)
    BY <1>2 DEF Range
  <2>1. i - 1 \in 1..Len(t) /\ i = (i - 1) + 1
    BY <1>1, <1>2
  <2>2. t[i - 1] = q[i]
    BY <1>1, <2>1
  <2> QED BY <1>2, <2>1, <2>2 DEF Range
<1>6. ASSUME NEW i \in 1..Len(t), NEW j \in 1..Len(t), t[i] = t[j] PROVE i = j
  <2>1. i + 1 \in 1..Len(q) /\ j + 1 \in 1..Len(q) /\ q[i + 1] = q[j + 1]
    BY <1>1, <1>2, <1>6
  <2>2. i + 1 = j + 1
    BY <2>1
  <2> QED BY <2>2
<1> QED BY <1>1, <1>3, <1>4, <1>5, <1>6 DEF t

\* conn_map.insert() with a number that is not in the map.
LEMMA InsertNew ==
    ASSUME NEW n, NEW c, n \notin DOMAIN conns
    PROVE  LET g == Inserted(n, c) IN
             /\ DOMAIN g = DOMAIN conns \cup {n} /\ g[n] = c
             /\ \A m \in DOMAIN conns : g[m] = conns[m]
             /\ Range(g) = Range(conns) \cup {c}
<1> DEFINE g == Inserted(n, c)
<1>1. /\ DOMAIN g = DOMAIN conns \cup {n} /\ g[n] = c
      /\ \A m \in DOMAIN conns : g[m] = conns[m]
  BY DEF Inserted
<1> HIDE DEF g
<1>2. Range(g) = Range(conns) \cup {c}
  BY <1>1 DEF Range
<1> QED BY <1>1, <1>2 DEF g

-----------------------------------------------------------------------------
\* WHAT STAYS AS IT WAS

LEMMA EventsSame ==
    ASSUME EvTypeOK, EventsKept, UNCHANGED evVars PROVE EvTypeOK' /\ EventsKept'
BY StutterKeeps DEF EvInv

\* The clients and their connections are left alone.
LEMMA AccountsSame ==
    ASSUME NoConnectionLost, Accounts, UNCHANGED <<conns, clientVars>>
    PROVE  NoConnectionLost' /\ Accounts'
BY DEF NoConnectionLost, Accounts, Pending, Served, clientVars

\* Nothing at all happens.
LEMMA LoopStutter == ASSUME LoopInv, UNCHANGED vars PROVE LoopInv'
<1>1. EvTypeOK' /\ EventsKept'
  BY EventsSame DEF LoopInv, LoopTypeOK, vars
<1>2. NoConnectionLost' /\ Accounts'
  BY AccountsSame DEF LoopInv, vars, serverVars
<1>3. LoopTypeOK'
  BY <1>1 DEF LoopInv, LoopTypeOK, vars, serverVars, clientVars, Numbers
<1>4. InStep'
  BY DEF LoopInv, InStep, Quiet, Opened, Batch, ConnectionsInStep, Numbers, vars,
         serverVars, clientVars
<1> QED BY <1>1, <1>2, <1>3, <1>4
        DEF LoopInv, FileRemoved, Restartable, family, vars, serverVars

-----------------------------------------------------------------------------
\* START AND END OF THE SERVER

LEMMA LoopInit == Init => LoopInv
<1> SUFFICES ASSUME Init PROVE LoopInv
  OBVIOUS
<1>1. EvTypeOK /\ EventsKept
  BY EvInitKeeps DEF Init, EvInv
<1>2. /\ Range(conns) = {} /\ DOMAIN conns = {} /\ Range(queue) = {}
      /\ queue \in Seq(Clients) /\ Len(queue) = 0
  BY EmptyRange DEF Init
<1>3. Numbers = 1..server[2] /\ server[2] >= 3 /\ server[2] \in Nat
  BY LoopAssumption DEF Init, Numbers
<1>4. /\ server \in Servers /\ address \in BOOLEAN /\ pc \in Phases
      /\ table \in [Numbers -> Clients \cup {Closed, "signalfd", "eventfd", "server"}]
      /\ watch \subseteq Numbers /\ events \subseteq Numbers
      /\ looping \in BOOLEAN /\ signal \in BOOLEAN
  BY DEF Init, Phases, Ended
<1>5. /\ busy \in Numbers /\ Len(queue) <= Backlog + 1 /\ deaths \in 0..MaxDeaths
      /\ unread \in [Clients -> 0..MaxSends] /\ sent \in [Clients -> 0..MaxSends]
      /\ received \in [Clients -> 0..MaxSends]
  BY <1>2, <1>3, LoopAssumption DEF Init, Listener
<1>6. client \in [Clients -> {"new", "connected", "closed", "reset"}]
  BY DEF Init
<1>7. LoopTypeOK
  BY <1>1, <1>2, <1>4, <1>5, <1>6 DEF LoopTypeOK
<1>8. InStep
  BY <1>2 DEF Init, InStep, Quiet, Opened, Batch, ConnectionsInStep, Running, Starting
<1>9. NoConnectionLost /\ Accounts
  BY <1>2 DEF Init, NoConnectionLost, Accounts, Pending, Served
<1> QED BY <1>1, <1>7, <1>8, <1>9 DEF LoopInv, FileRemoved, Restartable, Init

\* The kernel cleans up behind a process that ends.
LEMMA GoneKeeps ==
    ASSUME LoopInv, Gone, pc' \in Ended, deaths' \in 0..MaxDeaths,
           pc' = "refused" => family = "inet"
    PROVE  LoopInv'
<1>1. /\ server' = server /\ Numbers' = Numbers /\ family' = family
  BY DEF Gone, Numbers, family
<1>2. /\ counter' = 0 /\ written' = 0 /\ returned' = 0
      /\ doing' = [t \in Threads |-> "nothing"] /\ val' = [t \in Threads |-> 0]
      /\ UNCHANGED <<semaphore, offered>>
  BY DEF Gone, LoopInv, LoopTypeOK, EvTypeOK
<1>3. EvTypeOK' /\ EventsKept'
  BY <1>2, EventFdAssumption DEF EvTypeOK, EventsKept, LoopInv, LoopTypeOK
<1>4. /\ Range(conns') = {} /\ DOMAIN conns' = {} /\ Range(queue') = {}
      /\ queue' \in Seq(Clients) /\ Len(queue') = 0
  BY EmptyRange DEF Gone
<1>5. /\ address' \in BOOLEAN /\ pc' \in Phases /\ pc' \notin Running
      /\ pc' \notin Starting \cup {"recv"}
      /\ looping' \in BOOLEAN /\ signal' \in BOOLEAN
  <2>1. address' \in BOOLEAN
    BY DEF Gone, LoopInv, LoopTypeOK
  <2> QED BY <2>1 DEF Gone, Phases, Ended, Running, Starting
<1>6. /\ table' = [n \in Numbers |-> Closed] /\ watch' = {} /\ events' = {}
      /\ busy' \in Numbers /\ server' \in Servers
  <2>1. Listener \in Numbers /\ server \in Servers
    BY LoopAssumption DEF LoopInv, LoopTypeOK, Numbers, Listener
  <2> QED BY <2>1 DEF Gone
<1>7. /\ unread' \in [Clients -> 0..MaxSends] /\ \A c \in Clients : unread'[c] = 0
      /\ sent' = sent /\ received' = received /\ Len(queue') <= Backlog + 1
  BY <1>4, LoopAssumption DEF Gone
<1>8. /\ client' \in [Clients -> {"new", "connected", "closed", "reset"}]
      /\ \A c \in Clients :
           client'[c] = IF c \in Pending \cup Served THEN "reset" ELSE client[c]
  BY DEF Gone, LoopInv, LoopTypeOK, Pending, Served
<1>9. LoopTypeOK'
  BY <1>1, <1>3, <1>4, <1>5, <1>6, <1>7, <1>8 DEF LoopTypeOK, LoopInv
<1>10. InStep'
  BY <1>1, <1>4, <1>5, <1>6 DEF InStep, Quiet, Opened, Batch, ConnectionsInStep, Starting
<1>11. NoConnectionLost'
  <2>1. ASSUME NEW c \in Clients
        PROVE  /\ client'[c] # "connected"
               /\ client'[c] = "closed" => received'[c] = sent'[c]
    BY <1>7, <1>8 DEF LoopInv, NoConnectionLost
  <2> QED BY <1>4, <2>1 DEF NoConnectionLost, Pending, Served
<1>12. Accounts'
  <2> SUFFICES ASSUME NEW c \in Clients
               PROVE  /\ client'[c] = "new" => sent'[c] = 0 /\ received'[c] = 0
                      /\ received'[c] + unread'[c] <= sent'[c]
    BY <1>4, <1>7 DEF Accounts, Pending, Served
  <2>1. /\ received[c] \in Nat /\ unread[c] \in Nat /\ sent[c] \in Nat
        /\ received[c] + unread[c] <= sent[c]
    BY LoopAssumption DEF LoopInv, LoopTypeOK, Accounts
  <2> QED BY <1>7, <1>8, <2>1 DEF LoopInv, Accounts
<1> QED BY <1>1, <1>3, <1>5, <1>9, <1>10, <1>11, <1>12
        DEF LoopInv, FileRemoved, Restartable, Starting

LEMMA StartKeeps == ASSUME LoopInv, Start PROVE LoopInv'
<1>1. /\ Numbers' = Numbers /\ family' = family
  BY DEF Start, Begin, Numbers, family
<1>2. EvTypeOK' /\ EventsKept'
  BY EventsSame DEF LoopInv, LoopTypeOK, Start, Begin
<1>3. NoConnectionLost' /\ Accounts'
  BY AccountsSame DEF LoopInv, Start, Begin
<1>4. /\ address' \in BOOLEAN /\ (family = "unix" => ~address')
      /\ pc' = "socket" /\ pc' \in Phases
  BY DEF LoopInv, LoopTypeOK, Start, Begin, Phases, Starting
<1>5. /\ table' \in [Numbers -> Clients \cup {Closed, "signalfd", "eventfd", "server"}]
      /\ \A n \in Numbers \ Fixed : table'[n] = table[n]
  BY DEF LoopInv, LoopTypeOK, Start, Begin, Fixed, Signals, Counter
<1>6. LoopTypeOK'
  BY <1>1, <1>2, <1>4, <1>5 DEF LoopInv, LoopTypeOK, Start, Begin, clientVars
<1>7. InStep'
  <2>1. pc \notin Running /\ pc' \notin Running \cup {"bind", "listen", "setup", "recv"}
    BY <1>4 DEF Start, Begin, Ended, Running
  <2>2. table'[Signals] = "signalfd" /\ table'[Counter] = "eventfd"
    BY LoopAssumption
    DEF LoopInv, LoopTypeOK, Numbers, Signals, Counter, Start, Begin
  <2> QED BY <1>1, <1>5, <2>1, <2>2 DEF LoopInv, InStep, Quiet, Opened, Batch,
             ConnectionsInStep, Start, Begin, clientVars, Closed
<1> QED BY <1>1, <1>2, <1>3, <1>4, <1>6, <1>7 DEF LoopInv, FileRemoved, Restartable

\* The steps of the factory that succeed, and what main() does after it.
LEMMA FactoryKeeps ==
    ASSUME LoopInv, Socket \/ Bind \/ Listen, UNCHANGED <<server, signal, deaths, evVars>>
    PROVE  LoopInv'
<1> USE DEF LoopInv
<1>1. /\ Numbers' = Numbers /\ family' = family
  BY DEF Numbers, family
<1>2. EvTypeOK' /\ EventsKept'
  BY EventsSame DEF LoopTypeOK
<1>3. NoConnectionLost' /\ Accounts'
  BY AccountsSame DEF Socket, Bind, Listen
<1>4. /\ pc' \in {"bind", "listen", "setup"} /\ pc' \in Phases
      /\ pc \notin Running /\ pc' \notin Running \cup {"socket", "recv", "refused"}
  BY DEF Socket, Bind, Listen, Phases, Starting, Running
<1>5. /\ table' \in [Numbers -> Clients \cup {Closed, "signalfd", "eventfd", "server"}]
      /\ \A n \in Numbers \ Fixed : table'[n] = table[n]
  BY DEF LoopTypeOK, Socket, Bind, Listen, Fixed, Listener
<1>6. address' \in BOOLEAN /\ (family = "unix" /\ pc' = "bind" => ~address')
  <2>1. CASE Socket
    BY <2>1 DEF LoopTypeOK, FileRemoved, Socket
  <2>2. CASE Bind
    BY <2>2 DEF Bind
  <2>3. CASE Listen
    BY <2>3 DEF LoopTypeOK, Listen
  <2> QED BY <2>1, <2>2, <2>3
<1>7. LoopTypeOK'
  BY <1>1, <1>2, <1>4, <1>5, <1>6 DEF LoopTypeOK, Socket, Bind, Listen, clientVars
<1>8. Opened'
  <2>1. pc \in Starting /\ {Signals, Counter, Listener} \subseteq Numbers
    BY LoopAssumption
    DEF LoopTypeOK, Numbers, Signals, Counter, Listener, Socket, Bind, Listen, Starting
  <2>2. table'[Signals] # Closed /\ table'[Counter] # Closed
    BY <2>1 DEF InStep, Opened, LoopTypeOK, Signals, Counter, Listener, Socket, Bind, Listen
  <2>3. table'[Listener] # Closed
    BY <2>1 DEF InStep, Opened, LoopTypeOK, Socket, Bind, Listen, Closed
  <2> QED BY <2>2, <2>3 DEF Opened
<1>9. InStep'
  BY <1>1, <1>4, <1>5, <1>8 DEF InStep, Quiet, Batch, ConnectionsInStep, Socket, Bind,
     Listen, clientVars
<1> QED BY <1>1, <1>2, <1>3, <1>4, <1>6, <1>7, <1>9 DEF FileRemoved, Restartable

LEMMA SetupKeeps == ASSUME LoopInv, Setup PROVE LoopInv'
<1> USE DEF LoopInv
<1>1. /\ Numbers' = Numbers /\ family' = family
  BY DEF Setup, Numbers, family
<1>2. EvTypeOK' /\ EventsKept'
  BY EventsSame DEF LoopTypeOK, Setup
<1>3. NoConnectionLost' /\ Accounts'
  BY AccountsSame DEF Setup
<1>4. /\ pc = "setup" /\ pc' = "wait" /\ pc' \in Phases \cap Running /\ pc \notin Running
      /\ pc \in Starting
  BY DEF Setup, Phases, Running, Starting
<1>5. Fixed \subseteq Numbers
  BY LoopAssumption DEF LoopTypeOK, Fixed, Numbers, Signals, Counter, Listener
<1>6. LoopTypeOK'
  BY <1>1, <1>2, <1>4, <1>5 DEF LoopTypeOK, Setup, clientVars
<1>7. InStep'
  BY <1>1, <1>4 DEF InStep, Quiet, Opened, Batch, ConnectionsInStep, Setup, Fixed
<1> QED BY <1>1, <1>2, <1>3, <1>4, <1>6, <1>7 DEF FileRemoved, Restartable

\* The kernel gives up an address, or has a signal for the server.
LEMMA OutsideKeeps == ASSUME LoopInv, Expire \/ Signal PROVE LoopInv'
<1> USE DEF LoopInv
<1>1. /\ Numbers' = Numbers /\ family' = family
  BY DEF Expire, Signal, serverVars, Numbers, family
<1>2. EvTypeOK' /\ EventsKept'
  BY EventsSame DEF LoopTypeOK, Expire, Signal
<1>3. NoConnectionLost' /\ Accounts'
  BY AccountsSame DEF Expire, Signal, serverVars
<1>4. /\ address' \in BOOLEAN /\ signal' \in BOOLEAN
      /\ family = "unix" => address' = address
  BY DEF LoopTypeOK, Expire, Signal, serverVars
<1>5. LoopTypeOK'
  BY <1>1, <1>2, <1>4 DEF LoopTypeOK, Expire, Signal, serverVars, clientVars
<1>6. InStep'
  BY <1>1 DEF InStep, Quiet, Opened, Batch, ConnectionsInStep, Expire, Signal,
     serverVars, clientVars
<1> QED BY <1>1, <1>2, <1>3, <1>4, <1>5, <1>6
        DEF FileRemoved, Restartable, Expire, Signal, serverVars

-----------------------------------------------------------------------------
\* CLIENTS

\* What clients do leaves the server alone, and the front of its queue.
LEMMA ServerSame ==
    ASSUME LoopInv, UNCHANGED <<server, serverVars, signal, deaths, evVars>>,
           queue # <<>> => queue' # <<>>
    PROVE  /\ EvTypeOK' /\ EventsKept' /\ InStep' /\ FileRemoved' /\ Restartable'
           /\ Numbers' = Numbers
<1>1. /\ Numbers' = Numbers /\ family' = family
  BY DEF Numbers, family
<1>2. EvTypeOK' /\ EventsKept'
  BY EventsSame DEF LoopInv, LoopTypeOK
<1>3. InStep'
  BY <1>1 DEF LoopInv, InStep, Quiet, Opened, Batch, ConnectionsInStep, serverVars
<1> QED BY <1>1, <1>2, <1>3 DEF LoopInv, FileRemoved, Restartable, serverVars

\* A client connects: its connection is a new one.
LEMMA ConnectKeeps ==
    ASSUME LoopInv, NEW c \in Clients, ClientFactory(c) PROVE LoopInv'
<1> USE DEF LoopInv
<1>1. /\ queue \in Seq(Clients) /\ queue' = Append(queue, c) /\ Len(queue) <= Backlog
      /\ \A i, j \in 1..Len(queue) : queue[i] = queue[j] => i = j
  BY DEF ClientFactory, LoopTypeOK, NoConnectionLost
<1>2. c \notin Pending \cup Served
  BY DEF ClientFactory, Accounts
<1>3. /\ queue' \in Seq(Clients) /\ Len(queue') = Len(queue) + 1 /\ queue' # <<>>
      /\ Range(queue') = Range(queue) \cup {c}
      /\ \A i, j \in 1..Len(queue') : queue'[i] = queue'[j] => i = j
  BY <1>1, <1>2, AppendRange DEF Pending
<1>4. /\ EvTypeOK' /\ EventsKept' /\ InStep' /\ FileRemoved' /\ Restartable'
      /\ Numbers' = Numbers
  BY <1>3, ServerSame DEF ClientFactory
<1>5. Len(queue') <= Backlog + 1
  BY <1>1, <1>3, LenProperties, LoopAssumption
<1>6. /\ client' \in [Clients -> {"new", "connected", "closed", "reset"}]
      /\ client'[c] = "connected" /\ \A d \in Clients \ {c} : client'[d] = client[d]
  BY DEF ClientFactory, LoopTypeOK
<1>7. LoopTypeOK'
  BY <1>3, <1>4, <1>5, <1>6 DEF LoopTypeOK, ClientFactory, serverVars
<1>8. Served' = Served /\ Pending' = Pending \cup {c}
  BY <1>3 DEF Served, Pending, ClientFactory, serverVars
<1>9. NoConnectionLost'
  <2>1. \A m, n \in DOMAIN conns' : conns'[m] = conns'[n] => m = n
    BY DEF NoConnectionLost, ClientFactory, serverVars
  <2>2. Pending' \cap Served' = {}
    BY <1>2, <1>8 DEF NoConnectionLost
  <2>3. \A d \in Clients :
          /\ client'[d] = "connected" => d \in Pending' \cup Served'
          /\ client'[d] = "closed" /\ d \notin Pending' \cup Served' =>
               received'[d] = sent'[d]
    BY <1>6, <1>8 DEF NoConnectionLost, ClientFactory
  <2> QED BY <1>3, <2>1, <2>2, <2>3 DEF NoConnectionLost
<1>10. Accounts'
  <2>1. sent[c] = 0 /\ unread[c] = 0 /\ received[c] = 0 /\ 0 + 0 = 0
    BY DEF ClientFactory, Accounts
  <2> QED BY <1>6, <1>8, <2>1 DEF Accounts, ClientFactory
<1> QED BY <1>4, <1>7, <1>9, <1>10

\* A client sends, or closes its end.
LEMMA ClientKeeps ==
    ASSUME LoopInv, NEW c \in Clients, ClientSend(c) \/ ClientClose(c) PROVE LoopInv'
<1> USE DEF LoopInv
<1>1. UNCHANGED <<server, serverVars, signal, deaths, evVars, queue, received>>
  BY DEF ClientSend, ClientClose
<1>2. /\ EvTypeOK' /\ EventsKept' /\ InStep' /\ FileRemoved' /\ Restartable'
      /\ Numbers' = Numbers
  BY <1>1, ServerSame
<1>3. /\ Pending' = Pending /\ Served' = Served /\ c \in Pending \cup Served
      /\ client[c] = "connected"
  BY <1>1 DEF Pending, Served, NoConnectionLost, ClientSend, ClientClose, serverVars
<1>4. CASE ClientSend(c)
  <2>1. /\ sent' \in [Clients -> 0..MaxSends] /\ sent'[c] = sent[c] + 1
        /\ \A d \in Clients \ {c} : sent'[d] = sent[d] /\ unread'[d] = unread[d]
        /\ unread'[c] = unread[c] + 1 /\ client' = client
    BY <1>4, LoopAssumption DEF LoopTypeOK, ClientSend
  <2>2. \A d \in Clients : {sent[d], unread[d], received[d]} \subseteq Nat
    BY LoopAssumption DEF LoopTypeOK
  <2>3. unread' \in [Clients -> 0..MaxSends]
    <3>1. unread[c] + 1 \in 0..MaxSends
      BY <1>3, <1>4, <2>2, LoopAssumption DEF Accounts, ClientSend
    <3> QED BY <1>4, <3>1 DEF LoopTypeOK, ClientSend
  <2>4. LoopTypeOK'
    BY <1>1, <1>2, <2>1, <2>3 DEF LoopTypeOK, serverVars
  <2>5. Accounts'
    BY <1>1, <1>3, <2>1, <2>2 DEF Accounts
  <2>6. NoConnectionLost'
    BY <1>1, <1>3, <2>1 DEF NoConnectionLost, serverVars
  <2> QED BY <1>2, <2>4, <2>5, <2>6
<1>5. CASE ClientClose(c)
  <2>1. /\ client' \in [Clients -> {"new", "connected", "closed", "reset"}]
        /\ client'[c] = "closed" /\ \A d \in Clients \ {c} : client'[d] = client[d]
        /\ unread' = unread /\ sent' = sent
    BY <1>5 DEF LoopTypeOK, ClientClose
  <2>2. LoopTypeOK'
    BY <1>1, <1>2, <2>1 DEF LoopTypeOK, serverVars
  <2>3. Accounts'
    BY <1>1, <1>3, <2>1 DEF Accounts
  <2>4. NoConnectionLost'
    BY <1>1, <1>3, <2>1 DEF NoConnectionLost, serverVars
  <2> QED BY <1>2, <2>2, <2>3, <2>4
<1> QED BY <1>4, <1>5

-----------------------------------------------------------------------------
\* THE LOOP

\* A step inside the loop that leaves clients and connections alone: what is left of
\* the batch of events is all it has to keep right.
LEMMA DispatchKeeps ==
    ASSUME LoopInv, pc \in Running, pc' \in Running,
           UNCHANGED <<server, address, table, watch, conns, clientVars, deaths>>,
           events' \subseteq watch, Listener \in events' => queue # <<>>,
           pc' = "recv" => busy' \in DOMAIN conns /\ busy' \notin events',
           busy' \in Numbers, looping' \in BOOLEAN, signal' \in BOOLEAN,
           EvTypeOK', EventsKept'
    PROVE  LoopInv'
<1> USE DEF LoopInv
<1>1. /\ Numbers' = Numbers /\ family' = family
  BY DEF Numbers, family
<1>2. NoConnectionLost' /\ Accounts'
  BY AccountsSame
<1>3. /\ pc' \in Phases /\ pc' \notin {"socket", "bind", "refused", "listen", "setup"}
      /\ pc \notin Starting
  BY DEF Phases, Running, Starting
<1>4. LoopTypeOK'
  BY <1>1, <1>3 DEF LoopTypeOK, clientVars
<1>5. InStep'
  BY <1>1, <1>3 DEF InStep, Quiet, Opened, Batch, ConnectionsInStep, clientVars
<1> QED BY <1>1, <1>2, <1>3, <1>4, <1>5 DEF FileRemoved, Restartable

LEMMA WaitKeeps == ASSUME LoopInv, Wait PROVE LoopInv'
<1>1. EvTypeOK' /\ EventsKept'
  BY EventsSame DEF LoopInv, LoopTypeOK, Wait
<1>2. pc \in Running /\ pc' \in Running /\ pc' # "recv"
  BY DEF Wait, Running
<1>3. Listener \in events' => queue # <<>>
  BY DEF LoopInv, InStep, Batch, Wait, Ready, Fixed, Signals, Counter, Listener
<1>4. busy' \in Numbers /\ looping' \in BOOLEAN /\ signal' \in BOOLEAN
  BY DEF LoopInv, LoopTypeOK, Wait
<1> QED BY <1>1, <1>2, <1>3, <1>4, DispatchKeeps DEF Wait

\* The event of the signalfd, of a connection, or none that is left.
LEMMA HandleKeeps ==
    ASSUME LoopInv, HandleSignal \/ NextRound \/ \E n \in Numbers : HandleConn(n)
    PROVE  LoopInv'
<1>1. EvTypeOK' /\ EventsKept'
  BY EventsSame DEF LoopInv, LoopTypeOK, HandleSignal, NextRound, HandleConn
<1>2. pc \in Running /\ pc' \in Running
  BY DEF HandleSignal, NextRound, HandleConn, Running
<1>3. /\ events \subseteq Fixed \cup DOMAIN conns /\ events \subseteq watch
      /\ Listener \in events => queue # <<>>
  BY <1>2 DEF LoopInv, InStep, Batch, ConnectionsInStep
<1>4. busy' \in Numbers /\ looping' \in BOOLEAN /\ signal' \in BOOLEAN
  BY DEF LoopInv, LoopTypeOK, HandleSignal, NextRound, HandleConn, ReadSignal
<1>5. pc' = "recv" => busy' \in DOMAIN conns /\ busy' \notin events'
  BY <1>3 DEF HandleSignal, NextRound, HandleConn
<1>6. events' \subseteq events
  BY DEF HandleSignal, NextRound, HandleConn
<1>7. UNCHANGED <<server, address, table, watch, conns, clientVars, deaths>>
  BY DEF HandleSignal, NextRound, HandleConn
<1> QED BY <1>1, <1>2, <1>3, <1>4, <1>5, <1>6, <1>7, DispatchKeeps

\* The loop calls eventfd::read() and has its answer.
LEMMA CounterKeeps == ASSUME LoopInv, HandleCounter \/ CounterReturns PROVE LoopInv'
<1>1. EvTypeOK' /\ EventsKept'
  BY ThreadKeeps, LoopAssumption
  DEF LoopInv, LoopTypeOK, HandleCounter, CounterReturns, Thread, EvInv
<1>2. pc \in Running /\ pc' \in Running /\ pc' # "recv"
  BY DEF HandleCounter, CounterReturns, Running
<1>3. events \subseteq watch /\ (Listener \in events => queue # <<>>)
  BY <1>2 DEF LoopInv, InStep, Batch, ConnectionsInStep
<1>4. busy' \in Numbers /\ looping' \in BOOLEAN /\ signal' \in BOOLEAN
  BY DEF LoopInv, LoopTypeOK, HandleCounter, CounterReturns
<1>5. events' \subseteq events
  BY DEF HandleCounter, CounterReturns
<1>6. UNCHANGED <<server, address, table, watch, conns, clientVars, deaths>>
  BY DEF HandleCounter, CounterReturns
<1> QED BY <1>1, <1>2, <1>3, <1>4, <1>5, <1>6, DispatchKeeps

\* Another thread of the server writes to the eventfd.
LEMMA WriterKeeps ==
    ASSUME LoopInv, NEW t \in Writers, WriterStep(t) PROVE LoopInv'
<1>1. Thread(t) /\ t \in Threads
  BY DEF WriterStep, Thread, Writers
<1>2. EvTypeOK' /\ EventsKept'
  BY <1>1, ThreadKeeps DEF LoopInv, LoopTypeOK, EvInv
<1>3. pc \in Running /\ pc' = pc
  BY DEF WriterStep, serverVars
<1>4. /\ events \subseteq watch /\ (Listener \in events => queue # <<>>)
      /\ pc' = "recv" => busy \in DOMAIN conns /\ busy \notin events
  BY <1>3 DEF LoopInv, InStep, Batch, ConnectionsInStep
<1>5. busy' \in Numbers /\ looping' \in BOOLEAN /\ signal' \in BOOLEAN
  BY DEF LoopInv, LoopTypeOK, WriterStep, serverVars
<1>6. UNCHANGED <<server, address, table, watch, conns, clientVars, deaths, events, busy>>
  BY DEF WriterStep, serverVars
<1> QED BY <1>2, <1>3, <1>4, <1>5, <1>6, DispatchKeeps

\* The branch of a connection receives what there is ...
LEMMA RecvSomeKeeps == ASSUME LoopInv, RecvSome PROVE LoopInv'
<1> USE DEF LoopInv
<1> DEFINE c == conns[busy]
<1>1. pc \in Running /\ pc = "recv"
  BY DEF RecvSome, Running
<1>2. busy \in DOMAIN conns /\ c \in Served /\ c \in Clients
  BY <1>1 DEF InStep, Batch, Served, Range, LoopTypeOK
<1>3. UNCHANGED <<server, serverVars, signal, deaths, evVars, queue, client, sent>>
  BY DEF RecvSome
<1>4. /\ EvTypeOK' /\ EventsKept' /\ InStep' /\ FileRemoved' /\ Restartable'
      /\ Numbers' = Numbers
  BY <1>3, ServerSame
<1> HIDE DEF c
<1>5. \A d \in Clients : {sent[d], unread[d], received[d]} \subseteq Nat
  BY LoopAssumption DEF LoopTypeOK
<1>6. received[c] + unread[c] = sent[c] /\ received[c] + unread[c] \in 0..MaxSends
  BY <1>2 DEF Accounts, LoopTypeOK
<1>7. /\ received' = [received EXCEPT ![c] = @ + unread[c]]
      /\ unread' = [unread EXCEPT ![c] = 0]
  BY DEF RecvSome, c
<1>8. /\ received' \in [Clients -> 0..MaxSends] /\ unread' \in [Clients -> 0..MaxSends]
      /\ received'[c] = received[c] + unread[c] /\ unread'[c] = 0
      /\ \A d \in Clients \ {c} : received'[d] = received[d] /\ unread'[d] = unread[d]
  BY <1>2, <1>6, <1>7, LoopAssumption DEF LoopTypeOK
<1>9. LoopTypeOK'
  BY <1>3, <1>4, <1>8 DEF LoopTypeOK, serverVars
<1>10. Pending' = Pending /\ Served' = Served
  BY <1>3 DEF Pending, Served, serverVars
<1>11. NoConnectionLost'
  BY <1>2, <1>3, <1>8, <1>10 DEF NoConnectionLost, serverVars
<1>12. client[c] # "new"
  BY <1>2 DEF Accounts
<1>13. Accounts'
  BY <1>2, <1>3, <1>5, <1>6, <1>8, <1>10, <1>12 DEF Accounts
<1> QED BY <1>4, <1>9, <1>11, <1>13

\* ... and lets the connection go at the end of its stream.
LEMMA RecvEndKeeps == ASSUME LoopInv, RecvEnd PROVE LoopInv'
<1> USE DEF LoopInv
<1> DEFINE c == conns[busy]
<1>1. pc \in Running /\ pc' \in Running /\ pc' = "dispatch" /\ pc' \in Phases
  BY DEF RecvEnd, Running, Phases
<1>2. /\ busy \in DOMAIN conns /\ busy \notin events /\ c \in Served /\ c \in Clients
      /\ busy \notin Fixed /\ busy \in Numbers
  BY DEF RecvEnd, InStep, Batch, Served, Range, LoopTypeOK
<1>3. unread[c] = 0 /\ client[c] = "closed" /\ received[c] + unread[c] = sent[c]
      /\ received[c] \in Nat
  BY <1>2, LoopAssumption DEF RecvEnd, Accounts, LoopTypeOK
<1>4. UNCHANGED <<server, address, events, busy, looping, signal, clientVars, deaths, evVars>>
      /\ Numbers' = Numbers /\ family' = family
  BY DEF RecvEnd, Numbers, family
<1>5. EvTypeOK' /\ EventsKept'
  BY <1>4, EventsSame DEF LoopTypeOK
<1>6. /\ DOMAIN conns' = DOMAIN conns \ {busy}
      /\ \A n \in DOMAIN conns \ {busy} : conns'[n] = conns[n]
      /\ watch' = watch \ {busy} /\ table' = [table EXCEPT ![busy] = Closed]
  BY DEF RecvEnd
<1>7. \A m, n \in DOMAIN conns : conns[m] = conns[n] => m = n
  BY DEF NoConnectionLost
<1>8. Served' = Served \ {c} /\ Pending' = Pending
  BY <1>2, <1>4, <1>6, <1>7 DEF Served, Pending, Range, clientVars
<1>9. table' \in [Numbers -> Clients \cup {Closed, "signalfd", "eventfd", "server"}]
  BY <1>6 DEF LoopTypeOK
<1>10. LoopTypeOK'
  BY <1>1, <1>4, <1>5, <1>6, <1>8, <1>9 DEF LoopTypeOK, Served, clientVars
<1>11. ConnectionsInStep'
  <2>1. watch' = Fixed \cup DOMAIN conns' /\ events' \subseteq watch'
    BY <1>1, <1>2, <1>4, <1>6 DEF InStep, ConnectionsInStep
  <2>2. \A n \in Numbers \ Fixed :
           table'[n] = IF n \in DOMAIN conns' THEN conns'[n] ELSE Closed
    BY <1>1, <1>2, <1>6 DEF InStep, ConnectionsInStep, LoopTypeOK, RecvEnd, Running
  <2> QED BY <1>4, <2>1, <2>2 DEF ConnectionsInStep
<1>12. Opened'
  <2>1. table'[Listener] = table[Listener] /\ table'[Signals] = table[Signals]
        /\ table'[Counter] = table[Counter]
    BY <1>2, <1>6 DEF Fixed, LoopTypeOK
  <2> QED BY <1>1, <2>1 DEF RecvEnd, InStep, Opened, Running
<1>13. Quiet' /\ Batch'
  BY <1>1, <1>4, <1>6 DEF InStep, Quiet, Batch, clientVars
<1>14. NoConnectionLost'
  <2>1. received[c] = sent[c]
    BY <1>3
  <2>2. \A d \in Clients :
          /\ client'[d] = "connected" => d \in Pending' \cup Served'
          /\ client'[d] = "closed" /\ d \notin Pending' \cup Served' =>
               received'[d] = sent'[d]
    BY <1>3, <1>4, <1>8, <2>1 DEF NoConnectionLost, clientVars
  <2> QED BY <1>4, <1>6, <1>7, <1>8, <2>2 DEF NoConnectionLost, clientVars
<1>15. Accounts'
  BY <1>4, <1>8 DEF Accounts, clientVars
<1> QED BY <1>1, <1>4, <1>5, <1>10, <1>11, <1>12, <1>13, <1>14, <1>15
        DEF InStep, FileRemoved, Restartable

\* accept() gives a connection a number that nothing else has: neither the map nor
\* the interest list knows it.
LEMMA HandleServerKeeps == ASSUME LoopInv, HandleServer PROVE LoopInv'
<1> USE DEF LoopInv
<1>1. /\ pc \in Running /\ pc' = pc /\ pc = "dispatch" /\ pc' \in Phases
      /\ Listener \in events /\ events' \subseteq events
  BY DEF HandleServer, Running, Phases
<1>2. PICK n \in Numbers, c \in Clients :
         Accept(n, c) /\ watch' = watch \cup {n} /\ conns' = Inserted(n, c)
  BY DEF HandleServer
<1>3. UNCHANGED <<server, address, pc, busy, looping, signal, client, unread, sent,
                  received, deaths, evVars>>
      /\ Numbers' = Numbers /\ family' = family
  BY DEF HandleServer, Numbers, family
<1>4. EvTypeOK' /\ EventsKept'
  BY <1>3, EventsSame DEF LoopTypeOK
<1>5. n \notin Fixed
  <2>1. table[n] = Closed
    BY <1>2 DEF Accept, Unused
  <2>2. table[Signals] # Closed /\ table[Counter] # Closed /\ table[Listener] # Closed
    BY <1>1 DEF InStep, Opened
  <2> QED BY <2>1, <2>2 DEF Fixed
<1>6. n \notin DOMAIN conns
  <2>1. table[n] = Closed
    BY <1>2 DEF Accept, Unused
  <2>2. n \in DOMAIN conns => table[n] = conns[n] /\ conns[n] \in Clients
    BY <1>1, <1>5 DEF InStep, ConnectionsInStep, LoopTypeOK, Range
  <2> QED BY <2>1, <2>2, LoopAssumption DEF Closed
<1>7. /\ DOMAIN conns' = DOMAIN conns \cup {n} /\ conns'[n] = c
      /\ \A m \in DOMAIN conns : conns'[m] = conns[m]
      /\ Range(conns') = Range(conns) \cup {c}
  <2> DEFINE g == Inserted(n, c)
  <2>1. /\ DOMAIN g = DOMAIN conns \cup {n} /\ g[n] = c
        /\ \A m \in DOMAIN conns : g[m] = conns[m]
        /\ Range(g) = Range(conns) \cup {c}
    BY <1>6, InsertNew, Zenon
  <2>2. conns' = g
    BY <1>2
  <2> HIDE DEF g
  <2> QED BY <2>1, <2>2
<1>8. /\ queue # <<>> /\ queue \in Seq(Clients) /\ Len(queue) <= Backlog + 1
      /\ \A i, j \in 1..Len(queue) : queue[i] = queue[j] => i = j
  BY <1>1 DEF InStep, Batch, LoopTypeOK, NoConnectionLost
<1>9. /\ c = Head(queue) /\ queue' = Tail(queue) /\ table' = [table EXCEPT ![n] = c]
  BY <1>2 DEF Accept
<1>10. /\ c \in Range(queue) /\ queue' \in Seq(Clients) /\ Len(queue') = Len(queue) - 1
       /\ Range(queue') = Range(queue) \ {c}
       /\ \A i, j \in 1..Len(queue') : queue'[i] = queue'[j] => i = j
  BY <1>8, <1>9, TailRange
<1>11. Len(queue') <= Backlog + 1
  BY <1>8, <1>10, LenProperties, LoopAssumption
<1>12. /\ Pending' = Pending \ {c} /\ Served' = Served \cup {c} /\ c \in Pending
       /\ c \notin Served
  BY <1>7, <1>10 DEF Pending, Served, NoConnectionLost
<1>13. /\ table' \in [Numbers -> Clients \cup {Closed, "signalfd", "eventfd", "server"}]
       /\ table'[n] = c /\ \A m \in Numbers \ {n} : table'[m] = table[m]
  BY <1>9 DEF LoopTypeOK
<1>14. LoopTypeOK'
  <2>1. events' \subseteq Numbers /\ watch' \subseteq Numbers
    BY <1>1, <1>2 DEF LoopTypeOK
  <2>2. DOMAIN conns' \subseteq Numbers /\ Range(conns') \subseteq Clients
    BY <1>7 DEF LoopTypeOK
  <2> QED BY <1>1, <1>3, <1>4, <1>10, <1>11, <1>13, <2>1, <2>2 DEF LoopTypeOK
<1>15. ConnectionsInStep'
  <2>1. watch' = Fixed \cup DOMAIN conns' /\ events' \subseteq watch'
    BY <1>1, <1>2, <1>7 DEF InStep, ConnectionsInStep
  <2>2. \A m \in Numbers \ Fixed :
           table'[m] = IF m \in DOMAIN conns' THEN conns'[m] ELSE Closed
    BY <1>1, <1>7, <1>13 DEF InStep, ConnectionsInStep
  <2> QED BY <1>3, <2>1, <2>2 DEF ConnectionsInStep
<1>16. Opened'
  <2>1. {Signals, Counter, Listener} \subseteq Numbers \ {n}
    BY <1>5, LoopAssumption
    DEF LoopTypeOK, Numbers, Fixed, Signals, Counter, Listener
  <2>2. /\ table'[Listener] = table[Listener] /\ table'[Signals] = table[Signals]
        /\ table'[Counter] = table[Counter]
    BY <1>13, <2>1
  <2> QED BY <1>1, <2>2 DEF InStep, Opened
<1>17. Quiet' /\ Batch'
  <2>1. Listener \notin events' /\ pc' \in Running /\ pc' # "recv"
    BY <1>1 DEF HandleServer
  <2>2. DOMAIN conns' \cap Fixed = {}
    BY <1>5, <1>7 DEF InStep, Batch
  <2> QED BY <2>1, <2>2 DEF Quiet, Batch
<1>18. NoConnectionLost'
  <2>1. \A m, k \in DOMAIN conns' : conns'[m] = conns'[k] => m = k
    BY <1>7, <1>12 DEF NoConnectionLost, Served, Range
  <2>2. Pending' \cap Served' = {} /\ Pending' \cup Served' = Pending \cup Served
    BY <1>12 DEF NoConnectionLost
  <2>3. \A d \in Clients :
          /\ client'[d] = "connected" => d \in Pending' \cup Served'
          /\ client'[d] = "closed" /\ d \notin Pending' \cup Served' =>
               received'[d] = sent'[d]
    BY <1>3, <2>2 DEF NoConnectionLost
  <2> QED BY <1>10, <2>1, <2>2, <2>3 DEF NoConnectionLost
<1>19. Accounts'
  BY <1>3, <1>12 DEF Accounts
<1> QED BY <1>1, <1>3, <1>4, <1>14, <1>15, <1>16, <1>17, <1>18, <1>19
        DEF InStep, FileRemoved, Restartable

-----------------------------------------------------------------------------
\* THE WHOLE

\* The process ends: nobody catches an exception, or main() returns.
LEMMA EndKeeps ==
    ASSUME LoopInv, BindRefused \/ Die \/ AcceptFails \/ Stop PROVE LoopInv'
<1>1. Gone /\ pc' \in Ended
  BY DEF BindRefused, Die, AcceptFails, Stop, Ended
<1>2. deaths \in 0..MaxDeaths
  BY DEF LoopInv, LoopTypeOK
<1>3. deaths' \in 0..MaxDeaths
  BY <1>2, LoopAssumption DEF BindRefused, Die, AcceptFails, Stop
<1>4. pc' = "refused" => family = "inet"
  <2>1. family \in {"unix", "inet"}
    BY LoopAssumption DEF LoopInv, LoopTypeOK, family
  <2>2. BindRefused => family # "unix"
    BY DEF LoopInv, FileRemoved, BindRefused
  <2>3. ~BindRefused => pc' # "refused"
    BY DEF Die, AcceptFails, Stop
  <2> QED BY <2>1, <2>2, <2>3
<1> QED BY <1>1, <1>3, <1>4, GoneKeeps

\* A step of the thread that runs main().
LEMMA ServerKeeps == ASSUME LoopInv, ServerStep PROVE LoopInv'
<1>1. ASSUME ServerFactory PROVE LoopInv'
  BY <1>1, FactoryKeeps, EndKeeps DEF ServerFactory
<1>2. ASSUME LoopStep PROVE LoopInv'
  BY <1>2, WaitKeeps, HandleKeeps, CounterKeeps, HandleServerKeeps, RecvSomeKeeps,
     RecvEndKeeps, EndKeeps
  DEF LoopStep
<1> QED BY <1>1, <1>2, SetupKeeps DEF ServerStep, UnixServer, InetServer

LEMMA LoopKeeps == LoopInv /\ [Next]_vars => LoopInv'
<1> SUFFICES ASSUME LoopInv, [Next]_vars PROVE LoopInv'
  OBVIOUS
<1>1. CASE \E c \in Clients : UnixClient(c) \/ InetClient(c) \/ ClientSend(c) \/ ClientClose(c)
  BY <1>1, ConnectKeeps, ClientKeeps DEF UnixClient, InetClient
<1>2. CASE \E t \in Writers : WriterStep(t)
  BY <1>2, WriterKeeps
<1>3. CASE Start \/ ServerStep \/ Die \/ Expire \/ Signal
  BY <1>3, StartKeeps, ServerKeeps, EndKeeps, OutsideKeeps
<1>4. CASE UNCHANGED vars
  BY <1>4, LoopStutter
<1> QED BY <1>1, <1>2, <1>3, <1>4 DEF Next

LEMMA LoopInvariant == Spec => []LoopInv
BY LoopInit, LoopKeeps, PTL DEF Spec

\* tests/epoll_test.cpp: the state of the server, of its clients and of the eventfd
\* they share.
THEOREM LoopTypeCorrect == Spec => []LoopTypeOK
<1>1. LoopInv => LoopTypeOK
  BY DEF LoopInv
<1> QED BY LoopInvariant, <1>1, PTL

\* epoll_test.cpp, epoll.cpp, socket.cpp: in the middle of any batch of events, with
\* numbers closed and handed out again, conn_map, the descriptors and the interest
\* list agree.
THEOREM InStepAlways == Spec => []ConnectionsInStep
<1>1. LoopInv => ConnectionsInStep
  BY DEF LoopInv, InStep
<1> QED BY LoopInvariant, <1>1, PTL

\* accept(), recv() and the map of connections: none is lost or held twice, and none
\* is let go before its messages have been received.
THEOREM ConnectionsKept == Spec => []NoConnectionLost
<1>1. LoopInv => NoConnectionLost
  BY DEF LoopInv
<1> QED BY LoopInvariant, <1>1, PTL

\* eventfd.cpp, read by the loop and written by other threads of a server that may
\* die: no event of the counter is lost.
THEOREM LoopEventsKept == Spec => []EventsKept
<1>1. LoopInv => EventsKept
  BY DEF LoopInv
<1> QED BY LoopInvariant, <1>1, PTL

\* unix_socket.cpp, epoll_test.cpp: however a server with a unix socket ended, the
\* file it left behind never keeps the next one from binding its address.
THEOREM AlwaysRestartable == Spec => []Restartable
<1>1. LoopInv => Restartable
  BY DEF LoopInv
<1> QED BY LoopInvariant, <1>1, PTL
=============================================================================
