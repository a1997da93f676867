------------------------------ MODULE EventFd -------------------------------
(***************************************************************************)
(* fd::eventfd: threads that add to a counter of the kernel and take from  *)
(* it.  write() and read() repeat their system call until eight bytes have *)
(* been transferred; the kernel transfers eight or blocks.  A write waits  *)
(* while the counter would pass its limit, a read while it is zero.        *)
(***************************************************************************)
EXTENDS Integers

CONSTANTS
    Threads,     \* threads that share the object
    Values,      \* what they write
    Limit,       \* the greatest value of the counter
    MaxWritten   \* bound: sum of what is written

ASSUME EventFdAssumption ==
    /\ Limit \in Nat \ {0} /\ MaxWritten \in Nat
    /\ Values \subseteq 1..Limit

VARIABLES
    counter,    \* the kernel's counter
    semaphore,  \* EFD_SEMAPHORE was given to the constructor
    doing,      \* the call a thread is in
    val,        \* its argument, when it is write()
    offered,    \* sum of the arguments of write()
    written,    \* the first value, and the arguments of calls that returned (history)
    returned    \* sum of what read() has returned (history)

evVars == <<counter, semaphore, doing, val, offered, written, returned>>

EvTypeOK ==
    /\ counter \in 0..Limit /\ semaphore \in BOOLEAN
    /\ doing \in [Threads -> {"nothing", "read", "write"}]
    /\ val \in [Threads -> Values \cup {0}]
    /\ \A t \in Threads : doing[t] = "write" => val[t] \in Values
    /\ offered \in 0..MaxWritten
    /\ written \in Nat /\ returned \in Nat

EvInit ==
    /\ counter \in 0..Limit /\ semaphore \in BOOLEAN
    /\ doing = [t \in Threads |-> "nothing"] /\ val = [t \in Threads |-> 0]
    /\ offered = 0 /\ written = counter /\ returned = 0

-----------------------------------------------------------------------------
Write(t, v) ==
    /\ doing[t] = "nothing" /\ offered + v <= MaxWritten
    /\ offered' = offered + v
    /\ doing' = [doing EXCEPT ![t] = "write"] /\ val' = [val EXCEPT ![t] = v]
    /\ UNCHANGED <<counter, semaphore, written, returned>>

\* Wrong variant: n is not advanced past what was written; the loop goes on.
WriteRepeats(t) ==
    /\ doing[t] = "write" /\ counter + val[t] <= Limit
    /\ counter' = counter + val[t]
    /\ UNCHANGED <<semaphore, doing, val, offered, written, returned>>

\* The kernel takes the eight bytes, and the loop in write() ends.
WriteReturns(t) ==
    /\ doing[t] = "write" /\ counter + val[t] <= Limit
    /\ counter' = counter + val[t] /\ written' = written + val[t]
    /\ doing' = [doing EXCEPT ![t] = "nothing"] /\ val' = [val EXCEPT ![t] = 0]
    /\ UNCHANGED <<semaphore, offered, returned>>

Read(t) ==
    /\ doing[t] = "nothing"
    /\ doing' = [doing EXCEPT ![t] = "read"]
    /\ UNCHANGED <<counter, semaphore, val, offered, written, returned>>

\* What the kernel gives to a read(): everything, or one when it is a semaphore.
Taken == IF semaphore THEN 1 ELSE counter

ReadReturns(t) ==
    /\ doing[t] = "read" /\ counter > 0
    /\ counter' = counter - Taken /\ returned' = returned + Taken
    /\ doing' = [doing EXCEPT ![t] = "nothing"]
    /\ UNCHANGED <<semaphore, val, offered, written>>

\* A blocked system call is interrupted: the exception leaves the loop before
\* anything was transferred.
Interrupted(t) ==
    /\ doing[t] # "nothing"
    /\ doing' = [doing EXCEPT ![t] = "nothing"] /\ val' = [val EXCEPT ![t] = 0]
    /\ UNCHANGED <<counter, semaphore, offered, written, returned>>

Thread(t) ==
    \/ \E v \in Values : Write(t, v)
    \/ WriteReturns(t) \/ Read(t) \/ ReadReturns(t) \/ Interrupted(t)

EvNext == \E t \in Threads : Thread(t)

EvSpec == EvInit /\ [][EvNext]_evVars

-----------------------------------------------------------------------------
\* PROPERTIES

\* Whatever threads write and read at the same time, and whichever calls are
\* interrupted: what write() calls that returned have added is what read() calls
\* have returned, plus what the counter holds.
EventsKept == written = returned + counter
=============================================================================
