----------------------------- MODULE MCProcess ------------------------------
(* The places objects live in are interchangeable.  A process duplicates       *)
(* files, or uses epoll - with files enough for a number to be used again - or *)
(* maps regions, or moves buffered sockets.                                    *)
EXTENDS Process, TLC

Places == Permutations(Objs) \cup Permutations(Maps)

Nothing == [files |-> 0, epolls |-> 0, dups |-> FALSE, regions |-> 0, streams |-> 0]
MCBounds == {[Nothing EXCEPT !.files = 3, !.dups = TRUE],
             [Nothing EXCEPT !.files = 3, !.epolls = 1],
             [Nothing EXCEPT !.files = 1, !.regions = 2],
             [Nothing EXCEPT !.streams = 2]}

\* Sizes of the input and the output buffer: either is the larger one.
MCCapacities == {[in |-> 2, out |-> 3], [in |-> 3, out |-> 2]}
=============================================================================
