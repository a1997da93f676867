------------------------------ MODULE Process -------------------------------
(***************************************************************************)
(* A process and what its objects own: descriptors, and in the same table  *)
(* of the kernel what epoll watches and what is mapped; and the buffers of *)
(* buffered sockets.                                                       *)
(***************************************************************************)
EXTENDS Epoll, Mapping

CONSTANTS
    Streams, Capacities, MaxBytes, \* see BufferedMoves
    Bounds  \* bound: records of how much of everything there is, see Within

VARIABLES
    bound,  \* which of Bounds this process has
    made,   \* see BufferedMoves!live, and there for the rest
    sock, bufferIn, bufferOut, capacity, inRd, inSize, outSize, heap, conn, stale

Moves == INSTANCE BufferedMoves WITH Objs <- Streams, live <- made

ASSUME ProcessAssumption ==
    /\ Moves!MovesAssumption
    /\ \A b \in Bounds : b.files <= MaxFiles /\ b.regions <= MaxRegions

movesVars == <<made, sock, bufferIn, bufferOut, capacity, inRd, inSize, outSize, heap,
               conn, stale>>
procVars == <<vars, epollVars, mapVars, movesVars, bound>>

ProcessTypeOK == EpollTypeOK /\ MapTypeOK /\ Moves!TypeOK /\ bound \in Bounds

ProcessInit == EpollInit /\ MapInit /\ Moves!Init /\ bound \in Bounds

Within ==
    /\ files' <= bound.files /\ regions' <= bound.regions
    /\ Len(SelectSeq(kind', LAMBDA c : c = "epoll")) <= bound.epolls
    /\ aliased' => bound.dups                    \* file::dup() is called
    /\ Cardinality(made') <= bound.streams

ProcessNext ==
    /\ \/ EpollNext /\ UNCHANGED <<mapVars, movesVars>>
       \/ MapNext /\ UNCHANGED <<vars, epollVars, movesVars>>
       \/ Moves!Next /\ UNCHANGED <<vars, epollVars, mapVars>>
    /\ Within /\ UNCHANGED bound

ProcessSpec == ProcessInit /\ [][ProcessNext]_procVars

-----------------------------------------------------------------------------
\* PROPERTIES of buffered sockets, see BufferedMoves

\* Every allocation is freed once, by the object that the moves have left it with.
BuffersOwned == Moves!BuffersOwned

\* Bytes inserted and not sent are with the object that has the connection now.
OutputFollows == Moves!OutputFollows

\* Bytes received and not extracted are where that object will look for them.
InputFollows == Moves!InputFollows
=============================================================================
