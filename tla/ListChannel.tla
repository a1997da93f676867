---------------------------- MODULE ListChannel ----------------------------
(***************************************************************************)
(* What fdpass promises the processes that use it: a FIFO of lists.  A     *)
(* list comes out whole, in its turn and once, and a stream ends behind    *)
(* the last of them.  Once a call has failed in the middle of a list the   *)
(* promise is off.                                                         *)
(*                                                                         *)
(* A list is a sequence of <<k, i>>, where k is its number among those     *)
(* that were sent; some numbers are left out.                              *)
(***************************************************************************)
EXTENDS Integers, Sequences, Functions

CONSTANT Ends  \* the processes that receive

VARIABLES
    offered, \* the lists whose send() has returned, but empty ones
    got,     \* what recv() has returned in each of the processes
    broken   \* a call has failed in the middle of a list

channelVars == <<offered, got, broken>>

Before(l, m) == l[1][1] < m[1][1]

\* The lists that have not come out yet, which may be in the hands of a process
\* that is no more.
Waiting == {l \in offered : \A p \in Ends : l \notin Range(got[p])}

Init == offered = {} /\ got = [p \in Ends |-> <<>>] /\ broken = FALSE

Offer ==
    /\ \E l \in offered' \ offered : /\ \A m \in offered : Before(m, l)
                                     /\ offered' = offered \cup {l}
    /\ UNCHANGED got

Return(p, l) == got' = [got EXCEPT ![p] = Append(@, l)] /\ UNCHANGED offered

Deliver ==
    \E p \in Ends, l \in Waiting :
        /\ \A m \in Waiting \ {l} : Before(l, m)
        /\ Return(p, l)

End == Waiting = {} /\ \E p \in Ends : Return(p, <<>>)

Break == broken' = TRUE

Next == Break \/ (~broken' /\ (Offer \/ Deliver \/ End))

Spec == Init /\ [][Next]_channelVars
=============================================================================
