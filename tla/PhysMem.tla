------------------------------- MODULE PhysMem -------------------------------
(***************************************************************************)
(* The physical frame allocator of kernel/pmm.c as a state machine: its    *)
(* callers take frames with allocate(4096) and call free() with a frame    *)
(* they got from there, with IF = 0 or before there is anybody to          *)
(* interrupt them, so an operation is one atomic action.                   *)
(***************************************************************************)
EXTENDS FrameMap

VARIABLES map,   \* map[1 .. *entry]
          held,  \* the frames that were handed out and not given back
          call   \* the last call and the address it returned or was given

physVars == <<map, held, call>>

-----------------------------------------------------------------------------
\* A caller takes a frame; 0 makes it give up.
Allocate ==
    LET r == allocate(map)
    IN  /\ map' = r.map
        /\ held' = IF r.addr = 0 THEN held ELSE held \cup {r.addr}
        /\ call' = [op |-> "allocate", addr |-> r.addr]

\* free_page() gives back the frame of a mapping, or a caller its frame.
Free(addr) ==
    /\ addr \in held
    /\ map' = free(map, addr)
    /\ held' = held \ {addr}
    /\ call' = [op |-> "free", addr |-> addr]

PhysInit ==
    /\ map = InitialMap
    /\ held = {}
    /\ call = [op |-> "none", addr |-> 0]

PhysNext == Allocate \/ \E addr \in held : Free(addr)

PhysSpec == PhysInit /\ [][PhysNext]_physVars
-----------------------------------------------------------------------------
\* Everything usable lies below 4 GiB.
LowMemory ==
    \A k \in DOMAIN InitialMap :
        InitialMap[k].type = Usable => End(InitialMap[k]) <= AddrLimit

\* Types: the map is a sequence of non-empty entries that fit in the table
\* at 0x504, behind which other memory lies.
TypeOK ==
    /\ map \in Seq(Entries)
    /\ Len(map) <= MaxEntries
    /\ \A k \in DOMAIN map : map[k].length > 0
    /\ held \subseteq 1 .. AddrLimit - 1
    /\ call \in [op : {"none", "allocate", "free"}, addr : 0 .. AddrLimit - 1]

\* allocate() and free(): the shifts, splits and merges keep the entries in
\* address order and free of overlaps.
NoOverlap == Sorted(map)

\* The addresses of the entries of m that satisfy a condition on the type.
Cells(m, T) == UNION {m[k].base .. End(m[k]) - 1 : k \in {l \in DOMAIN m : m[l].type \in T}}

\* allocate() and free(): a frame that was handed out is one used entry of the
\* size asked for, no other frame overlaps it, and it lies in memory that the
\* BIOS reported as usable.
FramesExclusive ==
    \A addr \in held :
        /\ \E k \in DOMAIN map : map[k] = [base |-> addr, length |-> PageSize, type |-> Used]
        /\ addr .. addr + PageSize - 1 \subseteq Cells(InitialMap, {Usable})

\* free(): no two free neighbours are left unmerged, so a table entry is never
\* wasted on a boundary inside free memory.
Coalesced == \A k \in 1 .. Len(map) - 1 : ~ Mergeable(map, k)

\* allocate() and free(): once every frame has been given back, in any order,
\* the map is what the BIOS reported.
Restored == held = {} => map = InitialMap

\* allocate(): the callers take 0 for "allocate failed", so a call that
\* returns 0 has taken no memory.
ZeroMeansFailed ==
    [][call'.op = "allocate" /\ call'.addr = 0 => map' = map]_physVars

Frames == INSTANCE Pool WITH Memory <- Cells(InitialMap, {Usable}), Size <- PageSize,
                             avail <- Cells(map, {Usable}), taken <- held

\* allocate() and free() implement a pool of frames: splits, merges, a full
\* table and failed calls neither lose an address nor make one up, and a frame
\* that comes back is the one that was handed out.
ImplementsPool == Frames!Spec
=============================================================================
