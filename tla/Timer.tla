------------------------------- MODULE Timer --------------------------------
(***************************************************************************)
(* fd::easy::timer, a timerfd that can be started, paused, resumed and     *)
(* stopped, over the kernel's timerfd.  A timer object keeps what it will  *)
(* program (_spec), what was left when it was paused (_remaining) and its  *)
(* state; the kernel keeps the timer itself and the unread expirations.    *)
(* Moves hand timers from object to object.                                *)
(*                                                                         *)
(* Time advances in units; an expiration that is due is noticed by the     *)
(* kernel (Fire) before the next unit, but calls may come in between.      *)
(***************************************************************************)
EXTENDS Integers

CONSTANTS
    Objs,    \* timer objects
    Specs,   \* itimerspecs the application uses
    MaxTicks \* bound: unread expirations that are counted

ASSUME TimerAssumption ==
    /\ Specs \subseteq [value : Nat, interval : Nat]
    /\ MaxTicks \in Nat \ {0}

VARIABLES
    fd,        \* _fd: the kernel timer an object owns, or NoFd
    spec,      \* _spec
    remaining, \* _remaining
    state,     \* _state
    timer,     \* the kernel's timers: armed, left, interval, ticks
    waiting,   \* an object whose timeouts() is blocked in read()
    stale,     \* objects whose state was left behind by a move (history)
    ideal      \* the same timer, had it never been paused: units it has to run
               \* until it expires, and expirations nobody has had (history;
               \* kept for timers whose owner is not stale)

vars == <<fd, spec, remaining, state, timer, waiting, stale, ideal>>
userVars == <<fd, spec, remaining, state>>

NoFd == "none"
Disarmed == [value |-> 0, interval |-> 0]
Fds == Objs     \* as many as there are objects, named for them
Fresh == [armed |-> FALSE, left |-> 0, interval |-> 0, ticks |-> 0]
Idle == [left |-> 0, owed |-> 0]

TypeOK ==
    /\ fd \in [Objs -> Fds \cup {NoFd}]
    /\ \A o, p \in Objs : o # p /\ fd[o] # NoFd => fd[o] # fd[p]
    /\ spec \in [Objs -> [value : Nat, interval : Nat]]
    /\ remaining \in [Objs -> [value : Nat, interval : Nat]]
    /\ state \in [Objs -> {"STARTED", "PAUSED", "STOPPED"}]
    /\ timer \in [Fds -> [armed : BOOLEAN, left : Nat, interval : Nat, ticks : 0..MaxTicks]]
    /\ waiting \subseteq Objs /\ stale \subseteq Objs
    /\ ideal \in [Fds -> [left : Nat, owed : 0..(MaxTicks + 1)]]

Init ==
    /\ fd = [o \in Objs |-> o]
    /\ spec = [o \in Objs |-> Disarmed] /\ remaining = [o \in Objs |-> Disarmed]
    /\ state = [o \in Objs |-> "STOPPED"]
    /\ timer = [f \in Fds |-> Fresh]
    /\ waiting = {} /\ stale = {}
    /\ ideal = [f \in Fds |-> Idle]

-----------------------------------------------------------------------------
\* THE KERNEL'S TIMERFD

\* timerfd_settime(f, s): unread expirations are discarded; a value of 0 disarms.
Program(f, s) ==
    timer' = [timer EXCEPT ![f] = [armed |-> s.value > 0, left |-> s.value,
                                   interval |-> s.interval, ticks |-> 0]]

\* The old setting timerfd_settime() returns: what is left, 0 if disarmed - or if
\* an expiration is due that the kernel has not noticed yet.
OldSetting(f) ==
    [value |-> IF timer[f].armed THEN timer[f].left ELSE 0, interval |-> timer[f].interval]

Due(f) == timer[f].armed /\ timer[f].left = 0

\* A unit of time of an armed timer.
Older(t) == IF t.armed THEN [t EXCEPT !.left = @ - 1] ELSE t

\* The ideal timer of f counts an expiration when it has run for its time.
IdealOlder(f) ==
    LET i == ideal[f] IN
      IF ~timer[f].armed \/ i.left = 0 THEN i
      ELSE IF i.left > 1 THEN [i EXCEPT !.left = @ - 1]
      ELSE [left |-> timer[f].interval,
            owed |-> IF i.owed > MaxTicks THEN i.owed ELSE i.owed + 1]

Less(a, b) == IF a > b THEN a - b ELSE 0

\* A unit of time passes for every armed timer.
Elapse ==
    /\ \A f \in Fds : ~Due(f)
    /\ \E f \in Fds : timer[f].armed
    /\ timer' = [f \in Fds |-> Older(timer[f])]
    /\ ideal' = [f \in Fds |-> IdealOlder(f)]
    /\ UNCHANGED <<userVars, waiting, stale>>

\* The kernel notices an expiration and goes on with the interval.
Fire(f) ==
    /\ Due(f)
    /\ LET full == timer[f].ticks = MaxTicks   \* counted no further
           t == timer[f]
       IN /\ timer' = [timer EXCEPT ![f] =
                         [armed |-> t.interval > 0, left |-> t.interval, interval |-> t.interval,
                          ticks |-> IF full THEN t.ticks ELSE t.ticks + 1]]
          /\ ideal' = [ideal EXCEPT ![f].owed = IF full THEN Less(@, 1) ELSE @]
    /\ UNCHANGED <<userVars, waiting, stale>>

Kernel == Elapse \/ \E f \in Fds : Fire(f)

\* Unread expirations of f, with one that is due but not noticed.
Unread(f) == timer[f].ticks + (IF Due(f) THEN 1 ELSE 0)

-----------------------------------------------------------------------------
\* THE TIMER OBJECT.  Calls that throw (a moved-from object has no descriptor,
\* a spec the kernel refuses) change nothing and are not steps.

Normal(s) == [value |-> IF s.value # 0 THEN s.value ELSE s.interval, interval |-> s.interval]

\* timer(), timer(its): the object is made anew, its old descriptor is closed.
Construct(o, s) ==
    /\ o \notin waiting
    /\ \E f \in Fds :
          /\ \A p \in Objs \ {o} : fd[p] # f
          /\ fd' = [fd EXCEPT ![o] = f]
          /\ timer' = [x \in Fds |-> IF x \in {f, fd[o]} THEN Fresh ELSE timer[x]]
          /\ ideal' = [x \in Fds |-> IF x \in {f, fd[o]} THEN Idle ELSE ideal[x]]
    /\ spec' = [spec EXCEPT ![o] = Normal(s)]
    /\ remaining' = [remaining EXCEPT ![o] = Disarmed]
    /\ state' = [state EXCEPT ![o] = "STOPPED"]
    /\ stale' = stale \ {o}
    /\ UNCHANGED waiting

\* A running timer is not touched.
Settime(o, s) ==
    /\ spec' = [spec EXCEPT ![o] = Normal(s)]
    /\ UNCHANGED <<fd, remaining, state, timer, waiting, stale, ideal>>

Start(o) ==
    /\ state[o] # "STARTED" /\ fd[o] # NoFd
    /\ Program(fd[o], spec[o])
    /\ state' = [state EXCEPT ![o] = "STARTED"]
    /\ ideal' = [ideal EXCEPT ![fd[o]] = [left |-> spec[o].value, owed |-> 0]]
    /\ stale' = stale \ {o}
    /\ UNCHANGED <<fd, spec, remaining, waiting>>

\* Wrong variant: the time left is not asked for.
PauseForgets(o) ==
    /\ state[o] = "STARTED" /\ fd[o] # NoFd
    /\ remaining' = [remaining EXCEPT ![o] = spec[o]]
    /\ Program(fd[o], Disarmed)
    /\ state' = [state EXCEPT ![o] = "PAUSED"]
    /\ ideal' = [ideal EXCEPT ![fd[o]].owed = Less(@, Unread(fd[o]))]
    /\ UNCHANGED <<fd, spec, waiting, stale>>

Pause(o) ==
    /\ state[o] = "STARTED" /\ fd[o] # NoFd
    /\ remaining' = [remaining EXCEPT ![o] = OldSetting(fd[o])]
    /\ Program(fd[o], Disarmed)
    /\ state' = [state EXCEPT ![o] = "PAUSED"]
    /\ ideal' = [ideal EXCEPT ![fd[o]].owed = Less(@, Unread(fd[o]))]
    /\ UNCHANGED <<fd, spec, waiting, stale>>

\* Wrong variant: a remaining time of 0 is handed to the kernel.
ResumeBare(o) ==
    /\ state[o] = "PAUSED" /\ fd[o] # NoFd
    /\ Program(fd[o], remaining[o])
    /\ state' = [state EXCEPT ![o] = "STARTED"]
    /\ UNCHANGED <<fd, spec, remaining, waiting, stale, ideal>>

Resume(o) ==
    /\ state[o] = "PAUSED" /\ fd[o] # NoFd
    /\ remaining' = [remaining EXCEPT ![o] = Normal(@)]
    /\ Program(fd[o], remaining'[o])
    /\ state' = [state EXCEPT ![o] = "STARTED"]
    /\ UNCHANGED <<fd, spec, waiting, stale, ideal>>

Stop(o) ==
    /\ state[o] # "STOPPED" /\ fd[o] # NoFd
    /\ Program(fd[o], Disarmed)
    /\ state' = [state EXCEPT ![o] = "STOPPED"]
    /\ ideal' = [ideal EXCEPT ![fd[o]] = Idle]
    /\ stale' = stale \ {o}
    /\ UNCHANGED <<fd, spec, remaining, waiting>>

\* timeouts() is a read() that blocks until there is an expiration to return;
\* another thread may use the object meanwhile.
Timeouts(o) ==
    /\ o \notin waiting /\ fd[o] # NoFd
    /\ waiting' = waiting \cup {o}
    /\ UNCHANGED <<userVars, timer, stale, ideal>>

TimeoutsReturns(o) ==
    /\ o \in waiting /\ timer[fd[o]].ticks > 0
    /\ waiting' = waiting \ {o}
    /\ timer' = [timer EXCEPT ![fd[o]].ticks = 0]
    /\ ideal' = [ideal EXCEPT ![fd[o]].owed = Less(@, timer[fd[o]].ticks)]
    /\ UNCHANGED <<userVars, stale>>

\* What a move gives to o of p, besides the descriptor.
CopyFrom(o, p) ==
    /\ spec' = [spec EXCEPT ![o] = spec[p]]
    /\ remaining' = [remaining EXCEPT ![o] = remaining[p]]
    /\ state' = [state EXCEPT ![o] = state[p]]

\* Wrong variant: the descriptor is copied.
MoveConstructShares(o, p) ==
    /\ o # p /\ {o, p} \cap waiting = {}
    /\ fd' = [fd EXCEPT ![o] = fd[p]]
    /\ timer' = [x \in Fds |-> IF x = fd[o] THEN Fresh ELSE timer[x]]
    /\ ideal' = [x \in Fds |-> IF x = fd[o] THEN Idle ELSE ideal[x]]
    /\ CopyFrom(o, p)
    /\ stale' = (IF p \in stale THEN stale \cup {o} ELSE stale \ {o}) \cup {p}
    /\ UNCHANGED waiting

\* timer(timer &&): o is made anew from p, which is left without a descriptor.
MoveConstruct(o, p) ==
    /\ o # p /\ {o, p} \cap waiting = {}
    /\ fd' = [fd EXCEPT ![o] = fd[p], ![p] = NoFd]
    /\ timer' = [x \in Fds |-> IF x = fd[o] THEN Fresh ELSE timer[x]]
    /\ ideal' = [x \in Fds |-> IF x = fd[o] THEN Idle ELSE ideal[x]]
    /\ CopyFrom(o, p)
    /\ stale' = (IF p \in stale THEN stale \cup {o} ELSE stale \ {o}) \cup {p}
    /\ UNCHANGED waiting

\* Wrong variant: _state is not assigned.
MoveAssignKeepsState(o, p) ==
    /\ o # p /\ {o, p} \cap waiting = {}
    /\ fd' = [fd EXCEPT ![o] = fd[p], ![p] = fd[o]]
    /\ spec' = [spec EXCEPT ![o] = spec[p]]
    /\ remaining' = [remaining EXCEPT ![o] = remaining[p]]
    /\ stale' = (IF p \in stale THEN stale \cup {o} ELSE stale \ {o}) \cup {p}
    /\ ideal' = [x \in Fds |-> IF x = fd[o] THEN Idle ELSE ideal[x]]
    /\ UNCHANGED <<state, timer, waiting>>

\* operator=(timer &&): the descriptors are swapped, the rest is only copied: p
\* is left with its own state and the descriptor of o.
MoveAssign(o, p) ==
    /\ o # p /\ {o, p} \cap waiting = {}
    /\ fd' = [fd EXCEPT ![o] = fd[p], ![p] = fd[o]]
    /\ CopyFrom(o, p)
    /\ stale' = (IF p \in stale THEN stale \cup {o} ELSE stale \ {o}) \cup {p}
    /\ ideal' = [x \in Fds |-> IF x = fd[o] THEN Idle ELSE ideal[x]]
    /\ UNCHANGED <<timer, waiting>>

-----------------------------------------------------------------------------
User(o) ==
    \/ \E s \in Specs : Construct(o, s) \/ Settime(o, s)
    \/ Start(o) \/ Pause(o) \/ Resume(o) \/ Stop(o)
    \/ Timeouts(o) \/ TimeoutsReturns(o)
    \/ \E p \in Objs : MoveConstruct(o, p) \/ MoveAssign(o, p)

Next == Kernel \/ \E o \in Objs : User(o)

Spec == Init /\ [][Next]_vars

\* Time passes, the kernel serves its timers and wakes a thread in read().
FairSpec ==
    /\ Spec
    /\ WF_vars(Elapse)
    /\ \A f \in Fds : WF_vars(Fire(f))
    /\ \A o \in Objs : WF_vars(TimeoutsReturns(o))

-----------------------------------------------------------------------------
\* PROPERTIES

\* The objects that own a timer and whose state is their own.
Current == {o \in Objs : fd[o] # NoFd /\ o \notin stale}

\* A timer that says it is paused or stopped does not run and has nothing to
\* return, across any sequence of calls and moves; and one that says it was
\* started, and repeats, runs.
StateTellsTheTruth ==
    \A o \in Current :
        LET t == timer[fd[o]] IN
          /\ state[o] # "STARTED" => ~t.armed /\ t.ticks = 0
          /\ state[o] = "STARTED" /\ t.interval > 0 => t.armed

\* Pausing and resuming, as often as one likes and whenever, does not shift the
\* expirations: they come when a timer that was never paused has run as long.
NoDrift ==
    \A o \in Current :
        LET t == timer[fd[o]] IN
          state[o] = "STARTED" /\ t.interval > 0 =>
            ideal[fd[o]].left = IF Due(fd[o]) THEN t.interval ELSE t.left

\* Every expiration is counted once: timeouts() has returned it, or will, or it
\* was unread when pause() programmed the timer, which discards it.
ExpirationsCounted ==
    \A o \in Current :
        state[o] = "STARTED" /\ timer[fd[o]].interval > 0 => ideal[fd[o]].owed = Unread(fd[o])

\* timeouts() of a started timer that repeats returns, however often the timer
\* was paused before, unless another thread pauses or stops it for good.
Repeats(o) == o \in Current /\ state[o] = "STARTED" /\ timer[fd[o]].interval > 0

TimeoutsReturn ==
    \A o \in Objs : o \in waiting /\ Repeats(o) ~> o \notin waiting \/ ~Repeats(o)
=============================================================================
