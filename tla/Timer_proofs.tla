---------------------------- MODULE Timer_proofs ----------------------------
(***************************************************************************)
(* What fd::easy::timer keeps for any number of objects, any times and     *)
(* intervals, whatever is called, moved and read while time passes: its    *)
(* state is what the kernel does, pauses do not shift its expirations, and *)
(* each of them is counted once.                                           *)
(***************************************************************************)
EXTENDS Timer, TLAPS

\* What an object and its timer have in common, with the timer as if never paused:
\* st is the state, r what remains, t the kernel's timer and i the ideal one.
Missing(t) == t.armed /\ t.left = 0   \* an expiration the kernel has not noticed

Sound(st, r, t, i) ==
    /\ st # "STARTED" => ~t.armed /\ t.ticks = 0
    /\ st = "STARTED" /\ t.interval > 0 =>
         /\ t.armed
         /\ i.left = (IF Missing(t) THEN t.interval ELSE t.left)
         /\ i.owed = t.ticks + (IF Missing(t) THEN 1 ELSE 0)
    /\ st = "PAUSED" /\ r.interval > 0 => i.left = Normal(r).value /\ i.owed = 0

SoundObject(o) == Sound(state[o], remaining[o], timer[fd[o]], ideal[fd[o]])

\* A spec that repeats has a first value, since settime() has given it one.
SpecsNormal == \A o \in Objs : spec[o].value = 0 => spec[o].interval = 0

WaitersOwn == \A o \in waiting : fd[o] # NoFd

TimerInv ==
    /\ TypeOK /\ SpecsNormal /\ WaitersOwn
    /\ \A o \in Current : SoundObject(o)

Settings == [value : Nat, interval : Nat]
Timers == [armed : BOOLEAN, left : Nat, interval : Nat, ticks : 0..MaxTicks]
Ideals == [left : Nat, owed : 0..(MaxTicks + 1)]

-----------------------------------------------------------------------------
\* TIMES

LEMMA NormalSetting ==
    ASSUME NEW s \in Settings
    PROVE  /\ Normal(s) \in Settings /\ Normal(s).interval = s.interval
           /\ Normal(s).value = 0 => s.interval = 0 /\ s.value = 0
BY DEF Normal, Settings

\* The timer the kernel has after timerfd_settime().
LEMMA ProgramSets ==
    ASSUME TypeOK, NEW f \in Fds, NEW s \in Settings, Program(f, s)
    PROVE  /\ timer' \in [Fds -> Timers]
           /\ timer'[f].armed <=> s.value > 0
           /\ timer'[f].left = s.value /\ timer'[f].interval = s.interval
           /\ timer'[f].ticks = 0
           /\ \A g \in Fds \ {f} : timer'[g] = timer[g]
<1> DEFINE t == [armed |-> s.value > 0, left |-> s.value, interval |-> s.interval,
                 ticks |-> 0]
<1>1. t \in Timers
  BY TimerAssumption DEF Timers, Settings
<1>2. timer' = [timer EXCEPT ![f] = t] /\ timer \in [Fds -> Timers]
  BY DEF Program, TypeOK, Timers
<1> HIDE DEF t
<1>3. timer' \in [Fds -> Timers] /\ timer'[f] = t
      /\ \A g \in Fds \ {f} : timer'[g] = timer[g]
  BY <1>1, <1>2
<1>4. (t.armed <=> s.value > 0) /\ t.left = s.value /\ t.interval = s.interval /\ t.ticks = 0
  BY DEF t
<1> QED BY <1>3, <1>4, Zenon

\* Objects that have nothing to do with a step are as they were.
LEMMA SoundSame ==
    ASSUME TimerInv, NEW o \in Current, fd'[o] = fd[o], state'[o] = state[o],
           remaining'[o] = remaining[o], timer'[fd[o]] = timer[fd[o]],
           ideal'[fd[o]] = ideal[fd[o]]
    PROVE  SoundObject(o)'
BY DEF TimerInv, SoundObject

LEMMA OwnFds ==
    ASSUME TypeOK
    PROVE  /\ \A o \in Objs : fd[o] # NoFd => fd[o] \in Fds
           /\ \A o, p \in Objs : o # p /\ fd[o] # NoFd => fd[o] # fd[p]
           /\ spec \in [Objs -> Settings] /\ remaining \in [Objs -> Settings]
           /\ timer \in [Fds -> Timers] /\ ideal \in [Fds -> Ideals]
           /\ Current \subseteq Objs /\ \A o \in Current : fd[o] \in Fds
BY DEF TypeOK, Current, Settings, Timers, Ideals

-----------------------------------------------------------------------------
\* THE KERNEL

LEMMA SoundElapse ==
    ASSUME NEW st, NEW r \in Settings, NEW t \in Timers, NEW i \in Ideals,
           Sound(st, r, t, i), ~Missing(t),
           NEW j, j = IF ~t.armed \/ i.left = 0 THEN i
                      ELSE IF i.left > 1 THEN [i EXCEPT !.left = @ - 1]
                      ELSE [left |-> t.interval,
                            owed |-> IF i.owed > MaxTicks THEN i.owed ELSE i.owed + 1]
    PROVE  /\ Older(t) \in Timers /\ j \in Ideals
           /\ Sound(st, r, Older(t), j)
<1> USE TimerAssumption
<1>1. CASE ~t.armed
  BY <1>1 DEF Older, Sound, Missing, Timers, Ideals
<1>2. CASE t.armed
  <2>1. /\ Older(t).armed /\ Older(t).left = t.left - 1 /\ t.left \in Nat \ {0}
        /\ Older(t).interval = t.interval /\ Older(t).ticks = t.ticks
    BY <1>2 DEF Older, Timers, Missing
  <2>2. st = "STARTED"
    BY <1>2 DEF Sound
  <2>3. Older(t) \in Timers /\ j \in Ideals
    BY <1>2, <2>1 DEF Older, Timers, Ideals
  <2>4. ASSUME t.interval > 0
        PROVE  /\ j.left = (IF t.left = 1 THEN t.interval ELSE t.left - 1)
               /\ j.owed = t.ticks + (IF t.left = 1 THEN 1 ELSE 0)
    <3>1. i.left = t.left /\ i.owed = t.ticks
      BY <1>2, <2>2, <2>4 DEF Sound, Timers, Ideals, Missing
    <3> QED BY <1>2, <2>1, <3>1 DEF Timers, Ideals
  <2>5. Missing(Older(t)) <=> t.left = 1
    BY <2>1 DEF Missing, Timers
  <2> QED BY <2>1, <2>2, <2>3, <2>4, <2>5 DEF Sound, Timers
<1> QED BY <1>1, <1>2

LEMMA ElapseKeeps == ASSUME TimerInv, Elapse PROVE TimerInv'
<1> USE DEF TimerInv
<1>1. UNCHANGED <<fd, spec, remaining, state, waiting, stale>>
      /\ timer' = [f \in Fds |-> Older(timer[f])]
      /\ ideal' = [f \in Fds |-> IdealOlder(f)]
      /\ \A f \in Fds : ~Missing(timer[f])
  BY DEF Elapse, userVars, Due, Missing
<1>2. Current' = Current
  BY <1>1 DEF Current
<1>3. ASSUME NEW f \in Fds PROVE Older(timer[f]) \in Timers /\ IdealOlder(f) \in Ideals
  <2>1. timer[f] \in Timers /\ ideal[f] \in Ideals /\ ~Missing(timer[f])
    BY <1>1, OwnFds
  <2> QED BY <2>1, TimerAssumption DEF Older, IdealOlder, Missing, Timers, Ideals
<1>4. TypeOK'
  BY <1>1, <1>3 DEF TypeOK, Timers, Ideals
<1>5. ASSUME NEW o \in Current PROVE SoundObject(o)'
  <2>1. fd[o] \in Fds /\ timer[fd[o]] \in Timers /\ ideal[fd[o]] \in Ideals
        /\ remaining[o] \in Settings
    BY OwnFds
  <2>2. Sound(state[o], remaining[o], Older(timer[fd[o]]), IdealOlder(fd[o]))
    BY <1>1, <2>1, SoundElapse DEF SoundObject, IdealOlder
  <2> QED BY <1>1, <2>1, <2>2 DEF SoundObject
<1> QED BY <1>1, <1>2, <1>4, <1>5 DEF SpecsNormal, WaitersOwn

LEMMA FireKeeps == ASSUME TimerInv, NEW f \in Fds, Fire(f) PROVE TimerInv'
<1> USE DEF TimerInv
<1> DEFINE t == timer[f]
           full == t.ticks = MaxTicks
           u == [armed |-> t.interval > 0, left |-> t.interval, interval |-> t.interval,
                 ticks |-> IF full THEN t.ticks ELSE t.ticks + 1]
<1>1. UNCHANGED <<fd, spec, remaining, state, waiting, stale>> /\ t.armed /\ t.left = 0
      /\ timer' = [timer EXCEPT ![f] = u]
      /\ ideal' = [ideal EXCEPT ![f].owed = IF full THEN Less(@, 1) ELSE @]
  BY DEF Fire, userVars, Due
<1>2. /\ Current' = Current /\ t \in Timers /\ ideal[f] \in Ideals
      /\ timer \in [Fds -> Timers] /\ ideal \in [Fds -> Ideals]
  BY <1>1, OwnFds DEF Current
<1>3. u \in Timers
  BY <1>2, TimerAssumption DEF Timers
<1> DEFINE j == [left |-> ideal[f].left,
                 owed |-> IF full THEN Less(ideal[f].owed, 1) ELSE ideal[f].owed]
<1>4. j \in Ideals /\ ideal' = [ideal EXCEPT ![f] = j]
  <2>1. j \in Ideals
    BY <1>2, TimerAssumption DEF Ideals, Less
  <2>2. ideal' = [ideal EXCEPT ![f] = [ideal[f] EXCEPT !.owed = j.owed]]
    BY <1>1
  <2>3. [ideal[f] EXCEPT !.owed = j.owed] = j
    BY <1>2 DEF Ideals
  <2> QED BY <2>1, <2>2, <2>3, Zenon
<1>5. timer' \in [Fds -> Timers] /\ ideal' \in [Fds -> Ideals]
      /\ timer'[f] = u /\ ideal'[f] = j
      /\ \A g \in Fds \ {f} : timer'[g] = timer[g] /\ ideal'[g] = ideal[g]
  <2> HIDE DEF u, j
  <2> QED BY <1>1, <1>2, <1>3, <1>4
<1>6. TypeOK'
  BY <1>1, <1>5 DEF TypeOK, Timers, Ideals
<1>7. ASSUME NEW o \in Current PROVE SoundObject(o)'
  <2>1. CASE fd[o] # f
    <3>1. timer'[fd[o]] = timer[fd[o]] /\ ideal'[fd[o]] = ideal[fd[o]]
      BY <1>5, <2>1, OwnFds
    <3> QED BY <1>1, <3>1, SoundSame
  <2>2. CASE fd[o] = f
    <3>1. Sound(state[o], remaining[o], t, ideal[f])
      BY <2>2 DEF SoundObject
    <3>2. state[o] = "STARTED"
      BY <1>1, <3>1 DEF Sound
    <3>3. Sound(state[o], remaining[o], u, j)
      <4>1. t.interval > 0 => ideal[f].left = t.interval /\ ideal[f].owed = t.ticks + 1
        BY <1>1, <3>1, <3>2 DEF Sound, Missing
      <4>2. t.interval \in Nat /\ t.ticks \in 0..MaxTicks /\ ~(t.interval > 0 /\ t.interval = 0)
        BY <1>2 DEF Timers
      <4>3. t.interval > 0 => /\ ~Missing(u) /\ u.armed /\ j.left = u.left
                              /\ j.owed = u.ticks
        <5> SUFFICES ASSUME t.interval > 0
                     PROVE  ~Missing(u) /\ u.armed /\ j.left = u.left /\ j.owed = u.ticks
          OBVIOUS
        <5>1. u.armed /\ u.left = t.interval /\ j.left = ideal[f].left
          OBVIOUS
        <5>2. ~Missing(u)
          BY <4>2, <5>1 DEF Missing
        <5>3. j.owed = u.ticks
          BY <4>1, <4>2, TimerAssumption DEF Less
        <5> HIDE DEF u, j
        <5> QED BY <4>1, <5>1, <5>2, <5>3
      <4>4. u.interval = t.interval /\ u.ticks \in Nat
        BY <4>2, TimerAssumption
      <4> HIDE DEF u, j
      <4> QED BY <3>2, <4>2, <4>3, <4>4 DEF Sound
    <3> QED BY <1>1, <1>5, <2>2, <3>3 DEF SoundObject
  <2> QED BY <2>1, <2>2
<1> QED BY <1>1, <1>2, <1>6, <1>7 DEF SpecsNormal, WaitersOwn

-----------------------------------------------------------------------------
\* CALLS OF AN OBJECT

\* A call that programs the timer of o, or none, is judged by what it does to o.
LEMMA OthersKeep ==
    ASSUME TimerInv, NEW o \in Objs, fd[o] # NoFd, fd' = fd,
           waiting' \subseteq waiting \cup {o},
           \A p \in Objs \ {o} : /\ state'[p] = state[p] /\ remaining'[p] = remaining[p]
                                 /\ spec'[p] = spec[p],
           state' \in [Objs -> {"STARTED", "PAUSED", "STOPPED"}],
           spec' \in [Objs -> Settings], remaining' \in [Objs -> Settings],
           timer' \in [Fds -> Timers], ideal' \in [Fds -> Ideals],
           \A f \in Fds \ {fd[o]} : timer'[f] = timer[f] /\ ideal'[f] = ideal[f],
           stale' \in {stale, stale \ {o}},
           spec'[o].value = 0 => spec'[o].interval = 0,
           o \notin stale' => SoundObject(o)'
    PROVE  TimerInv'
<1> USE DEF TimerInv
<1>1. TypeOK'
  BY DEF TypeOK, Settings, Timers, Ideals
<1>2. SpecsNormal' /\ WaitersOwn'
  BY DEF SpecsNormal, WaitersOwn
<1>3. ASSUME NEW p \in Current' PROVE SoundObject(p)'
  <2>1. CASE p = o
    BY <2>1 DEF Current
  <2>2. CASE p # o
    <3>1. p \in Current /\ p \in Objs /\ fd[p] \in Fds \ {fd[o]}
      BY <2>2, OwnFds DEF Current
    <3>2. timer'[fd[p]] = timer[fd[p]] /\ ideal'[fd[p]] = ideal[fd[p]]
      BY <3>1
    <3> QED BY <2>2, <3>1, <3>2, SoundSame
  <2> QED BY <2>1, <2>2
<1> QED BY <1>1, <1>2, <1>3

LEMMA StartKeeps == ASSUME TimerInv, NEW o \in Objs, Start(o) PROVE TimerInv'
<1> USE DEF TimerInv
<1> DEFINE f == fd[o]
           s == spec[o]
           j == [left |-> s.value, owed |-> 0]
<1>1. f \in Fds /\ s \in Settings /\ (s.value = 0 => s.interval = 0) /\ fd[o] # NoFd
  BY OwnFds DEF Start, SpecsNormal
<1>2. /\ timer' \in [Fds -> Timers]
      /\ timer'[f].armed <=> s.value > 0
      /\ timer'[f].left = s.value /\ timer'[f].interval = s.interval /\ timer'[f].ticks = 0
      /\ \A g \in Fds \ {f} : timer'[g] = timer[g]
  BY <1>1, ProgramSets DEF Start
<1>3. j \in Ideals
  BY <1>1, TimerAssumption DEF Settings, Ideals
<1>4. /\ ideal' \in [Fds -> Ideals] /\ ideal'[f] = j
      /\ \A g \in Fds \ {f} : ideal'[g] = ideal[g]
  BY <1>1, <1>3, OwnFds DEF Start
<1>5. UNCHANGED <<fd, spec, remaining, waiting>> /\ stale' = stale \ {o}
      /\ state' \in [Objs -> {"STARTED", "PAUSED", "STOPPED"}] /\ state'[o] = "STARTED"
      /\ \A p \in Objs \ {o} : state'[p] = state[p]
  BY DEF Start, TypeOK
<1>6. SoundObject(o)'
  <2>1. s.interval > 0 => /\ timer'[f].armed /\ ~Missing(timer'[f])
                          /\ ideal'[f].left = timer'[f].left
                          /\ ideal'[f].owed = timer'[f].ticks /\ timer'[f].ticks + 0 = 0
    <3> SUFFICES ASSUME s.interval > 0
                 PROVE  /\ timer'[f].armed /\ ~Missing(timer'[f])
                        /\ ideal'[f].left = timer'[f].left
                        /\ ideal'[f].owed = timer'[f].ticks /\ timer'[f].ticks + 0 = 0
      OBVIOUS
    <3>1. s.value > 0
      BY <1>1 DEF Settings
    <3>2. /\ timer'[f].armed /\ timer'[f].left = s.value /\ timer'[f].ticks = 0
          /\ ideal'[f].left = s.value /\ ideal'[f].owed = 0
      BY <1>2, <1>4, <3>1
    <3>3. ~Missing(timer'[f])
      BY <3>1, <3>2 DEF Missing
    <3> QED BY <3>2, <3>3
  <2> QED BY <1>1, <1>2, <1>5, <2>1 DEF SoundObject, Sound
<1> QED BY <1>1, <1>2, <1>4, <1>5, <1>6, OthersKeep, OwnFds DEF SpecsNormal

LEMMA PauseKeeps == ASSUME TimerInv, NEW o \in Objs, Pause(o) PROVE TimerInv'
<1> USE DEF TimerInv
<1> DEFINE f == fd[o]
           r == OldSetting(f)
           j == [ideal[f] EXCEPT !.owed = Less(@, Unread(f))]
<1>1. /\ f \in Fds /\ fd[o] # NoFd /\ Disarmed \in Settings /\ Disarmed.value = 0
      /\ Disarmed.interval = 0 /\ timer[f] \in Timers /\ ideal[f] \in Ideals
  BY OwnFds DEF Pause, Disarmed, Settings
<1>2. /\ timer' \in [Fds -> Timers] /\ timer'[f].interval = 0 /\ timer'[f].ticks = 0
      /\ timer'[f].armed <=> 0 > 0
      /\ \A g \in Fds \ {f} : timer'[g] = timer[g]
  BY <1>1, ProgramSets DEF Pause
<1>3. r \in Settings /\ r.interval = timer[f].interval
      /\ r.value = (IF timer[f].armed THEN timer[f].left ELSE 0)
  BY <1>1 DEF OldSetting, Timers, Settings
<1>4. j \in Ideals /\ j.left = ideal[f].left /\ j.owed = Less(ideal[f].owed, Unread(f))
  <2>1. Unread(f) \in Nat
    BY <1>1, TimerAssumption DEF Unread, Timers
  <2> QED BY <1>1, <2>1, TimerAssumption DEF Ideals, Less
<1>5. /\ ideal' \in [Fds -> Ideals] /\ ideal'[f] = j
      /\ \A g \in Fds \ {f} : ideal'[g] = ideal[g]
  <2>1. ideal' = [ideal EXCEPT ![f] = j]
    BY DEF Pause
  <2> HIDE DEF j
  <2> QED BY <1>1, <1>4, <2>1, OwnFds
<1>6. /\ UNCHANGED <<fd, spec, waiting, stale>>
      /\ state' \in [Objs -> {"STARTED", "PAUSED", "STOPPED"}] /\ state'[o] = "PAUSED"
      /\ remaining' \in [Objs -> Settings] /\ remaining'[o] = r
      /\ \A p \in Objs \ {o} : state'[p] = state[p] /\ remaining'[p] = remaining[p]
  <2> HIDE DEF r
  <2> QED BY <1>3, OwnFds DEF Pause, TypeOK, r
<1>7. ASSUME o \notin stale' PROVE SoundObject(o)'
  <2>1. Sound("STARTED", remaining[o], timer[f], ideal[f])
    BY <1>1, <1>6, <1>7 DEF Pause, SoundObject, Current
  <2>2. ASSUME r.interval > 0 PROVE j.left = Normal(r).value /\ j.owed = 0
    <3>1. /\ timer[f].armed
          /\ ideal[f].left = (IF Missing(timer[f]) THEN timer[f].interval ELSE timer[f].left)
          /\ ideal[f].owed = Unread(f)
      BY <1>3, <2>1, <2>2 DEF Sound, Unread, Due, Missing
    <3>2. r.value = timer[f].left
      BY <1>3, <3>1
    <3>3. Normal(r).value = IF r.value # 0 THEN r.value ELSE r.interval
      BY DEF Normal
    <3>4. j.left = Normal(r).value
      BY <1>1, <1>3, <1>4, <3>1, <3>2, <3>3 DEF Missing, Timers
    <3>5. Less(ideal[f].owed, Unread(f)) = 0
      BY <1>1, <3>1 DEF Less, Ideals
    <3> QED BY <1>4, <3>4, <3>5
  <2> HIDE DEF r, j
  <2> QED BY <1>2, <1>5, <1>6, <2>2 DEF SoundObject, Sound
<1> HIDE DEF r, j
<1> QED BY <1>1, <1>2, <1>5, <1>6, <1>7, OthersKeep, OwnFds DEF SpecsNormal

LEMMA ResumeKeeps == ASSUME TimerInv, NEW o \in Objs, Resume(o) PROVE TimerInv'
<1> USE DEF TimerInv
<1> DEFINE f == fd[o]
           r == Normal(remaining[o])
<1>1. /\ f \in Fds /\ fd[o] # NoFd /\ remaining[o] \in Settings /\ r \in Settings
      /\ r.interval = remaining[o].interval /\ (r.value = 0 => r.interval = 0)
  BY OwnFds, NormalSetting DEF Resume
<1>2. /\ UNCHANGED <<fd, spec, waiting, stale, ideal>>
      /\ state' \in [Objs -> {"STARTED", "PAUSED", "STOPPED"}] /\ state'[o] = "STARTED"
      /\ remaining' \in [Objs -> Settings] /\ remaining'[o] = r
      /\ \A p \in Objs \ {o} : state'[p] = state[p] /\ remaining'[p] = remaining[p]
  <2> HIDE DEF r
  <2> QED BY <1>1, OwnFds DEF Resume, TypeOK, r
<1>3. /\ timer' \in [Fds -> Timers]
      /\ timer'[f].armed <=> r.value > 0
      /\ timer'[f].left = r.value /\ timer'[f].interval = r.interval /\ timer'[f].ticks = 0
      /\ \A g \in Fds \ {f} : timer'[g] = timer[g]
  <2>1. Program(f, r)
    BY <1>2 DEF Resume
  <2> HIDE DEF r
  <2> QED BY <1>1, <2>1, ProgramSets
<1>4. ASSUME o \notin stale' PROVE SoundObject(o)'
  <2>1. Sound("PAUSED", remaining[o], timer[f], ideal[f])
    BY <1>1, <1>2, <1>4 DEF Resume, SoundObject, Current
  <2>2. ASSUME r.interval > 0
        PROVE  /\ timer'[f].armed /\ ~Missing(timer'[f])
               /\ ideal[f].left = timer'[f].left
               /\ ideal[f].owed = timer'[f].ticks /\ timer'[f].ticks + 0 = 0
    <3>1. ideal[f].left = r.value /\ ideal[f].owed = 0
      BY <1>1, <2>1, <2>2 DEF Sound
    <3>2. r.value > 0
      BY <1>1, <2>2 DEF Settings
    <3>3. ~Missing(timer'[f]) /\ timer'[f].armed
      BY <1>3, <3>2 DEF Missing
    <3> HIDE DEF r
    <3> QED BY <1>3, <3>1, <3>3
  <2> HIDE DEF r
  <2> QED BY <1>2, <1>3, <2>2 DEF SoundObject, Sound
<1> HIDE DEF r
<1> QED BY <1>1, <1>2, <1>3, <1>4, OthersKeep, OwnFds DEF SpecsNormal

LEMMA StopKeeps == ASSUME TimerInv, NEW o \in Objs, Stop(o) PROVE TimerInv'
<1> USE DEF TimerInv
<1> DEFINE f == fd[o]
<1>1. /\ f \in Fds /\ fd[o] # NoFd /\ Disarmed \in Settings /\ Disarmed.value = 0
      /\ Disarmed.interval = 0 /\ Idle \in Ideals
  BY OwnFds, TimerAssumption DEF Stop, Disarmed, Settings, Idle, Ideals
<1>2. /\ timer' \in [Fds -> Timers] /\ timer'[f].interval = 0 /\ timer'[f].ticks = 0
      /\ timer'[f].armed <=> 0 > 0
      /\ \A g \in Fds \ {f} : timer'[g] = timer[g]
  BY <1>1, ProgramSets DEF Stop
<1>3. /\ ideal' \in [Fds -> Ideals] /\ \A g \in Fds \ {f} : ideal'[g] = ideal[g]
  BY <1>1, OwnFds DEF Stop
<1>4. /\ UNCHANGED <<fd, spec, remaining, waiting>> /\ stale' = stale \ {o}
      /\ state' \in [Objs -> {"STARTED", "PAUSED", "STOPPED"}] /\ state'[o] = "STOPPED"
      /\ \A p \in Objs \ {o} : state'[p] = state[p]
  BY DEF Stop, TypeOK
<1>5. SoundObject(o)'
  BY <1>1, <1>2, <1>4 DEF SoundObject, Sound
<1> QED BY <1>1, <1>2, <1>3, <1>4, <1>5, OthersKeep, OwnFds DEF SpecsNormal

LEMMA SettimeKeeps ==
    ASSUME TimerInv, NEW o \in Objs, NEW s \in Specs, Settime(o, s) PROVE TimerInv'
<1> USE DEF TimerInv
<1>1. s \in Settings
  BY TimerAssumption DEF Settings
<1>2. /\ spec' \in [Objs -> Settings]
      /\ \A p \in Objs : spec'[p] = IF p = o THEN Normal(s) ELSE spec[p]
  BY <1>1, NormalSetting, OwnFds DEF Settime
<1>3. SpecsNormal'
  BY <1>1, <1>2, NormalSetting DEF SpecsNormal
<1>4. TypeOK' /\ Current' = Current
  BY <1>2 DEF Settime, TypeOK, Current, Settings
<1>5. \A p \in Current : SoundObject(p)'
  BY SoundSame DEF Settime
<1> QED BY <1>3, <1>4, <1>5 DEF Settime, WaitersOwn

LEMMA ConstructKeeps ==
    ASSUME TimerInv, NEW o \in Objs, NEW s \in Specs, Construct(o, s) PROVE TimerInv'
<1> USE DEF TimerInv
<1>1. s \in Settings /\ Disarmed \in Settings /\ Fresh \in Timers /\ Idle \in Ideals
  BY TimerAssumption DEF Settings, Disarmed, Fresh, Timers, Idle, Ideals
<1>2. PICK f \in Fds :
        /\ \A p \in Objs \ {o} : fd[p] # f
        /\ fd' = [fd EXCEPT ![o] = f]
        /\ timer' = [x \in Fds |-> IF x \in {f, fd[o]} THEN Fresh ELSE timer[x]]
        /\ ideal' = [x \in Fds |-> IF x \in {f, fd[o]} THEN Idle ELSE ideal[x]]
  BY DEF Construct
<1>3. /\ fd' \in [Objs -> Fds \cup {NoFd}] /\ fd'[o] = f
      /\ \A p \in Objs \ {o} : fd'[p] = fd[p]
  BY <1>2 DEF TypeOK
<1>4. /\ spec' \in [Objs -> Settings] /\ remaining' \in [Objs -> Settings]
      /\ state' \in [Objs -> {"STARTED", "PAUSED", "STOPPED"}]
      /\ timer' \in [Fds -> Timers] /\ ideal' \in [Fds -> Ideals]
      /\ spec'[o] = Normal(s) /\ state'[o] = "STOPPED"
      /\ \A p \in Objs \ {o} : /\ spec'[p] = spec[p] /\ state'[p] = state[p]
                               /\ remaining'[p] = remaining[p]
  <2>1. Normal(s) \in Settings
    BY <1>1, NormalSetting
  <2>2. timer' \in [Fds -> Timers] /\ ideal' \in [Fds -> Ideals]
    BY <1>1, <1>2, OwnFds
  <2> QED BY <1>1, <2>1, <2>2, OwnFds DEF Construct, TypeOK
<1>5. \A p, q \in Objs : p # q /\ fd'[p] # NoFd => fd'[p] # fd'[q]
  BY <1>2, <1>3, OwnFds
<1>6. TypeOK'
  BY <1>3, <1>4, <1>5 DEF TypeOK, Settings, Timers, Ideals, Construct
<1>7. SpecsNormal' /\ WaitersOwn'
  BY <1>1, <1>3, <1>4, NormalSetting DEF SpecsNormal, WaitersOwn, Construct, TypeOK
<1>8. ASSUME NEW p \in Current' PROVE SoundObject(p)'
  <2>1. CASE p = o
    <3>1. timer'[fd'[o]] = Fresh
      BY <1>2, <1>3
    <3> QED BY <1>4, <2>1, <3>1 DEF SoundObject, Sound, Fresh
  <2>2. CASE p # o
    <3>1. p \in Current /\ p \in Objs /\ fd[p] \in Fds \ {f, fd[o]}
      BY <1>2, <1>3, <2>2, OwnFds DEF Current, Construct
    <3>2. timer'[fd[p]] = timer[fd[p]] /\ ideal'[fd[p]] = ideal[fd[p]]
      BY <1>2, <3>1
    <3> QED BY <1>3, <1>4, <2>2, <3>1, <3>2, SoundSame
  <2> QED BY <2>1, <2>2
<1> QED BY <1>6, <1>7, <1>8

\* timeouts() blocks ...
LEMMA TimeoutsKeeps == ASSUME TimerInv, NEW o \in Objs, Timeouts(o) PROVE TimerInv'
<1>1. /\ fd[o] # NoFd /\ UNCHANGED <<fd, spec, remaining, state, timer, stale, ideal>>
      /\ waiting' = waiting \cup {o}
  BY DEF Timeouts, userVars
<1> QED BY <1>1 DEF TimerInv, TypeOK, SpecsNormal, WaitersOwn, Current, SoundObject

\* ... and takes the expirations there are.
LEMMA TimeoutsReturnsKeeps ==
    ASSUME TimerInv, NEW o \in Objs, TimeoutsReturns(o) PROVE TimerInv'
<1> USE DEF TimerInv
<1> DEFINE f == fd[o]
           u == [timer[f] EXCEPT !.ticks = 0]
           j == [ideal[f] EXCEPT !.owed = Less(@, timer[f].ticks)]
<1>1. fd[o] # NoFd /\ f \in Fds /\ timer[f] \in Timers /\ ideal[f] \in Ideals
  BY OwnFds DEF TimeoutsReturns, WaitersOwn
<1>2. /\ u \in Timers /\ u.ticks = 0 /\ u.left = timer[f].left
      /\ u.interval = timer[f].interval /\ (u.armed <=> timer[f].armed)
  BY <1>1, TimerAssumption DEF Timers
<1>3. j \in Ideals /\ j.left = ideal[f].left /\ j.owed = Less(ideal[f].owed, timer[f].ticks)
  BY <1>1, TimerAssumption DEF Timers, Ideals, Less
<1>4. /\ UNCHANGED <<fd, spec, remaining, state, stale>> /\ waiting' \subseteq waiting
      /\ timer' = [timer EXCEPT ![f] = u] /\ ideal' = [ideal EXCEPT ![f] = j]
  BY DEF TimeoutsReturns, userVars
<1> HIDE DEF u, j
<1>5. /\ timer' \in [Fds -> Timers] /\ ideal' \in [Fds -> Ideals]
      /\ timer'[f] = u /\ ideal'[f] = j
      /\ \A g \in Fds \ {f} : timer'[g] = timer[g] /\ ideal'[g] = ideal[g]
  BY <1>1, <1>2, <1>3, <1>4, OwnFds
<1>6. ASSUME o \notin stale' PROVE SoundObject(o)'
  <2>1. Sound(state[o], remaining[o], timer[f], ideal[f])
    BY <1>1, <1>4, <1>6 DEF SoundObject, Current
  <2>2. state[o] = "STARTED"
    BY <1>1, <2>1, TimerAssumption DEF Sound, TimeoutsReturns
  <2>3. ASSUME u.interval > 0
        PROVE  /\ u.armed /\ j.left = (IF Missing(u) THEN u.interval ELSE u.left)
               /\ j.owed = 0 + (IF Missing(u) THEN 1 ELSE 0)
    <3>1. /\ timer[f].armed
          /\ ideal[f].left = (IF Missing(timer[f]) THEN timer[f].interval ELSE timer[f].left)
          /\ ideal[f].owed = timer[f].ticks + (IF Missing(timer[f]) THEN 1 ELSE 0)
      BY <1>2, <2>1, <2>2, <2>3 DEF Sound
    <3>2. Missing(u) <=> Missing(timer[f])
      BY <1>2 DEF Missing
    <3>3. Less(ideal[f].owed, timer[f].ticks) = IF Missing(timer[f]) THEN 1 ELSE 0
      BY <1>1, <3>1, TimerAssumption DEF Less, Timers, Ideals
    <3> QED BY <1>2, <1>3, <3>1, <3>2, <3>3
  <2> QED BY <1>2, <1>4, <1>5, <2>2, <2>3 DEF SoundObject, Sound
<1> QED BY <1>1, <1>4, <1>5, <1>6, OthersKeep, OwnFds DEF TypeOK, SpecsNormal

-----------------------------------------------------------------------------
\* MOVES

\* Either move: o has the timer and the state of p, and p is left with what may be
\* the timer o had, but with a state that is not its own.
LEMMA MoveKeeps ==
    ASSUME TimerInv, NEW o \in Objs, NEW p \in Objs,
           MoveConstruct(o, p) \/ MoveAssign(o, p)
    PROVE  TimerInv'
<1> USE DEF TimerInv
<1>1. o # p /\ o \notin waiting /\ p \notin waiting /\ waiting' = waiting
  BY DEF MoveConstruct, MoveAssign
<1>2. Fresh \in Timers /\ Idle \in Ideals
  BY TimerAssumption DEF Fresh, Timers, Idle, Ideals
<1>3. /\ fd' \in [Objs -> Fds \cup {NoFd}] /\ fd'[o] = fd[p] /\ fd'[p] \in {fd[o], NoFd}
      /\ \A q \in Objs \ {o, p} : fd'[q] = fd[q]
  BY <1>1 DEF MoveConstruct, MoveAssign, TypeOK
<1>4. /\ spec' \in [Objs -> Settings] /\ remaining' \in [Objs -> Settings]
      /\ state' \in [Objs -> {"STARTED", "PAUSED", "STOPPED"}]
      /\ spec'[o] = spec[p] /\ remaining'[o] = remaining[p] /\ state'[o] = state[p]
      /\ \A q \in Objs \ {o} : /\ spec'[q] = spec[q] /\ state'[q] = state[q]
                               /\ remaining'[q] = remaining[q]
  <2>1. CopyFrom(o, p)
    BY DEF MoveConstruct, MoveAssign
  <2>2. /\ spec \in [Objs -> Settings] /\ remaining \in [Objs -> Settings]
        /\ state \in [Objs -> {"STARTED", "PAUSED", "STOPPED"}]
    BY OwnFds DEF TypeOK
  <2> QED BY <2>1, <2>2 DEF CopyFrom
<1>5. /\ timer' \in [Fds -> Timers] /\ ideal' \in [Fds -> Ideals]
      /\ \A f \in Fds \ {fd[o]} : timer'[f] = timer[f] /\ ideal'[f] = ideal[f]
  BY <1>2, OwnFds DEF MoveConstruct, MoveAssign
<1>6. /\ p \in stale' /\ stale' \subseteq Objs /\ (o \in stale' <=> p \in stale)
      /\ \A q \in Objs \ {o, p} : q \in stale' <=> q \in stale
  BY <1>1 DEF MoveConstruct, MoveAssign, TypeOK
<1>7. \A q, r \in Objs : q # r /\ fd'[q] # NoFd => fd'[q] # fd'[r]
  BY <1>1, <1>3, OwnFds
<1>8. TypeOK'
  BY <1>1, <1>3, <1>4, <1>5, <1>6, <1>7 DEF TypeOK, Settings, Timers, Ideals
<1>9. SpecsNormal' /\ WaitersOwn'
  <2>1. SpecsNormal'
    BY <1>4 DEF SpecsNormal
  <2>2. \A q \in waiting : q \in Objs \ {o, p} /\ fd[q] # NoFd
    BY <1>1 DEF WaitersOwn, TypeOK
  <2> QED BY <1>1, <1>3, <2>1, <2>2 DEF WaitersOwn
<1>10. ASSUME NEW q \in Current' PROVE SoundObject(q)'
  <2>1. q \in Objs /\ q # p /\ fd'[q] # NoFd
    BY <1>6 DEF Current
  <2>2. CASE q = o
    <3>1. p \in Current /\ fd[p] \in Fds \ {fd[o]}
      BY <1>1, <1>3, <1>6, <2>1, <2>2, OwnFds DEF Current
    <3>2. timer'[fd[p]] = timer[fd[p]] /\ ideal'[fd[p]] = ideal[fd[p]]
      BY <1>5, <3>1
    <3> QED BY <1>3, <1>4, <2>2, <3>1, <3>2 DEF SoundObject
  <2>3. CASE q # o
    <3>1. q \in Current /\ fd[q] \in Fds \ {fd[o]}
      BY <1>3, <1>6, <2>1, <2>3, OwnFds DEF Current
    <3>2. timer'[fd[q]] = timer[fd[q]] /\ ideal'[fd[q]] = ideal[fd[q]]
      BY <1>5, <3>1
    <3> QED BY <1>3, <1>4, <2>1, <2>3, <3>1, <3>2, SoundSame
  <2> QED BY <2>2, <2>3
<1> QED BY <1>8, <1>9, <1>10

-----------------------------------------------------------------------------
\* THE WHOLE

LEMMA TimerInitKeeps == Init => TimerInv
<1> SUFFICES ASSUME Init PROVE TimerInv
  OBVIOUS
<1>1. Fresh \in Timers /\ Idle \in Ideals /\ Disarmed \in Settings
  BY TimerAssumption DEF Fresh, Timers, Idle, Ideals, Disarmed, Settings
<1>2. TypeOK
  BY <1>1 DEF Init, TypeOK, Fds, Timers, Ideals, Settings
<1>3. SpecsNormal /\ WaitersOwn
  BY DEF Init, SpecsNormal, WaitersOwn, Disarmed
<1>4. ASSUME NEW o \in Current PROVE SoundObject(o)
  <2>1. state[o] = "STOPPED" /\ timer[fd[o]] = Fresh
    BY DEF Init, Current, Fds
  <2> QED BY <2>1 DEF SoundObject, Sound, Fresh
<1> QED BY <1>2, <1>3, <1>4 DEF TimerInv

LEMMA UserKeeps == ASSUME TimerInv, NEW o \in Objs, User(o) PROVE TimerInv'
BY ConstructKeeps, SettimeKeeps, StartKeeps, PauseKeeps, ResumeKeeps, StopKeeps,
   TimeoutsKeeps, TimeoutsReturnsKeeps, MoveKeeps
DEF User

LEMMA TimerStutter == ASSUME TimerInv, UNCHANGED vars PROVE TimerInv'
<1>1. UNCHANGED <<fd, spec, remaining, state, timer, waiting, stale, ideal>>
  BY DEF vars
<1> QED BY <1>1 DEF TimerInv, TypeOK, SpecsNormal, WaitersOwn, Current, SoundObject

LEMMA TimerInvariant == Spec => []TimerInv
<1>1. TimerInv /\ [Next]_vars => TimerInv'
  BY ElapseKeeps, FireKeeps, UserKeeps, TimerStutter DEF Next, Kernel
<1> QED BY TimerInitKeeps, <1>1, PTL DEF Spec

LEMMA TimerInvImplies ==
    ASSUME TimerInv PROVE StateTellsTheTruth /\ NoDrift /\ ExpirationsCounted
<1> SUFFICES ASSUME NEW o \in Current
             PROVE  LET t == timer[fd[o]] IN
                      /\ state[o] # "STARTED" => ~t.armed /\ t.ticks = 0
                      /\ state[o] = "STARTED" /\ t.interval > 0 =>
                           /\ t.armed
                           /\ ideal[fd[o]].left = IF Due(fd[o]) THEN t.interval ELSE t.left
                           /\ ideal[fd[o]].owed = Unread(fd[o])
  BY DEF StateTellsTheTruth, NoDrift, ExpirationsCounted
<1>1. Sound(state[o], remaining[o], timer[fd[o]], ideal[fd[o]])
  BY DEF TimerInv, SoundObject
<1> QED BY <1>1 DEF Sound, Missing, Due, Unread

\* timer.cpp: whatever is called and moved while time passes, a timer that is paused
\* or stopped does not run, and one that repeats and was started does.
THEOREM StateIsTrue == Spec => []StateTellsTheTruth
BY TimerInvariant, TimerInvImplies, PTL

\* timer.cpp: pause() and resume(), at any moment and as often as one likes, leave
\* the expirations where they were.
THEOREM PausesDoNotDrift == Spec => []NoDrift
BY TimerInvariant, TimerInvImplies, PTL

\* timer.cpp: no expiration of a repeating timer is counted twice, and none is
\* missed but those pause() throws away.
THEOREM EachExpirationCounted == Spec => []ExpirationsCounted
BY TimerInvariant, TimerInvImplies, PTL

\* timer.cpp: the types of a timer; a kernel timer has one owner.
THEOREM TimerTypeCorrect == Spec => []TypeOK
<1>1. TimerInv => TypeOK
  BY DEF TimerInv
<1> QED BY TimerInvariant, <1>1, PTL
=============================================================================
