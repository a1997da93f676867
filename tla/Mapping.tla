------------------------------ MODULE Mapping -------------------------------
(***************************************************************************)
(* fd::easy::mmap: regions of memory that objects map, pass on and unmap.  *)
(* A region stays when the descriptor it was made from is closed.          *)
(***************************************************************************)
EXTENDS Descriptor, FiniteSetsExt

CONSTANTS
    Maps,       \* the places mmap objects live in
    Sizes,      \* lengths that are asked for, in pages
    MaxRegions  \* bound: regions mapped

ASSUME MappingAssumption == Sizes \subseteq Nat \ {0} /\ MaxRegions \in Nat

VARIABLES
    alive,   \* places that hold an object
    addr,    \* _addr, Null when it is nullptr
    size,    \* _size
    mapped,  \* the kernel's list: pages of a region that are mapped
    regions  \* regions mapped so far

mapVars == <<alive, addr, size, mapped, regions>>

Null == 0
Regions == 1..MaxRegions
Lengths == Sizes \cup {0}

MapTypeOK ==
    /\ alive \subseteq Maps
    /\ addr \in [Maps -> Regions \cup {Null}] /\ size \in [Maps -> Lengths]
    /\ mapped \in [Regions -> Lengths] /\ regions \in 0..MaxRegions
    /\ \A m \in Maps \ alive : addr[m] = Null

MapInit ==
    /\ alive = {} /\ addr = [m \in Maps |-> Null] /\ size = [m \in Maps |-> 0]
    /\ mapped = [r \in Regions |-> 0] /\ regions = 0

-----------------------------------------------------------------------------
\* mmap::mmap() with the number of o.  When the kernel refuses, it throws and there
\* is no object; len may be more than the file has, nothing looks at it.
Map(m, o, len) ==
    /\ m \notin alive /\ Opens(o) /\ kind[table[fd[o]]] = "file"
    /\ regions < MaxRegions /\ regions' = regions + 1
    /\ mapped' = [mapped EXCEPT ![regions + 1] = len]
    /\ alive' = alive \cup {m}
    /\ addr' = [addr EXCEPT ![m] = regions + 1] /\ size' = [size EXCEPT ![m] = len]

\* Wrong variant: the object moved from still unmaps the region.
MapMoveKeeps(m, k) ==
    /\ m \notin alive /\ k \in alive
    /\ alive' = alive \cup {m}
    /\ addr' = [addr EXCEPT ![m] = addr[k]] /\ size' = [size EXCEPT ![m] = size[k]]
    /\ UNCHANGED <<mapped, regions>>

\* mmap(mmap &&)
MapMoveConstruct(m, k) ==
    /\ m \notin alive /\ k \in alive
    /\ alive' = alive \cup {m}
    /\ addr' = [addr EXCEPT ![m] = addr[k], ![k] = Null]
    /\ size' = [size EXCEPT ![m] = size[k], ![k] = 0]
    /\ UNCHANGED <<mapped, regions>>

\* operator=(mmap &&) swaps both fields.
MapMoveAssign(m, k) ==
    /\ {m, k} \subseteq alive /\ m # k
    /\ addr' = [addr EXCEPT ![m] = addr[k], ![k] = addr[m]]
    /\ size' = [size EXCEPT ![m] = size[k], ![k] = size[m]]
    /\ UNCHANGED <<alive, mapped, regions>>

\* ~mmap(): munmap() takes as many pages off the region as it is told.
Unmap(m) ==
    /\ m \in alive
    /\ alive' = alive \ {m}
    /\ addr' = [addr EXCEPT ![m] = Null] /\ size' = [size EXCEPT ![m] = 0]
    /\ mapped' = IF addr[m] = Null THEN mapped
                 ELSE [mapped EXCEPT ![addr[m]] = Max({@ - size[m], 0})]
    /\ UNCHANGED regions

MapNext ==
    \E m \in Maps :
        \/ \E o \in Objs, len \in Sizes : Map(m, o, len)
        \/ \E k \in Maps : MapMoveConstruct(m, k) \/ MapMoveAssign(m, k)
        \/ Unmap(m)

MapSpec == MapInit /\ [][MapNext]_mapVars

-----------------------------------------------------------------------------
\* PROPERTIES

Holders == {m \in Maps : addr[m] # Null}

\* Every object has a region of its own that is mapped in the length the object
\* says, so that it is unmapped once and whole; and every region that is mapped
\* will be unmapped by an object.
MappingsOwned ==
    /\ \A m, k \in Holders : addr[m] = addr[k] => m = k
    /\ \A m \in Holders : size[m] # 0 /\ mapped[addr[m]] = size[m]
    /\ \A r \in Regions : mapped[r] # 0 => \E m \in Holders : addr[m] = r
=============================================================================
