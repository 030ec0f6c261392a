------------------------------ MODULE FrameMap ------------------------------
(***************************************************************************)
(* allocate() and free() of kernel/pmm.c, on the memory map that the boot  *)
(* sector leaves at 0x504, as operators on a map; PhysMem and Paging build *)
(* on them.  All of the kernel calls allocate(4096).  A map entry keeps    *)
(* base, length and type; the acpi word is copied and never read.          *)
(***************************************************************************)
EXTENDS Integers, SequencesExt

CONSTANTS InitialMap,  \* what E820 reported, in address order
          PageSize,    \* the size of every allocation
          MaxEntries,  \* MAX_FREE_PAGES: the room for entries
          AddrLimit    \* addresses are returned as uint32_t

ASSUME PageSizeAssumption == PageSize \in Nat \ {0}
ASSUME MaxEntriesAssumption == MaxEntries \in Nat
ASSUME AddrLimitAssumption == AddrLimit \in Nat \ {0}

Usable == 1
Used == 2
Entries == [base : Nat, length : Nat, type : Nat]

End(e) == e.base + e.length

\* Entries that do not overlap, in address order.
Sorted(m) == \A k, l \in 1 .. Len(m) : k < l => End(m[k]) <= m[l].base

\* Two free neighbours without a gap.
Mergeable(m, k) ==
    m[k].type = Usable /\ m[k + 1].type = Usable /\ End(m[k]) = m[k + 1].base

\* External: the map of a BIOS is sorted, without overlaps, and its usable
\* neighbours are reported as one entry.
BiosMap(m) ==
    /\ m \in Seq(Entries)
    /\ Len(m) <= MaxEntries
    /\ \A k \in DOMAIN m : m[k].length > 0
    /\ Sorted(m)
    /\ \A k \in 1 .. Len(m) - 1 : ~ Mergeable(m, k)

ASSUME InitialMapAssumption == BiosMap(InitialMap)

\* The addresses that are in use in map m.
UsedBases(m) == {m[k].base : k \in {l \in DOMAIN m : m[l].type = Used}}
-----------------------------------------------------------------------------
(* allocate(PageSize)                                                      *)

\* Mutant: the type is not looked at.
Fits_any_type(m) == {k \in DOMAIN m : m[k].base # 0 /\ m[k].length >= PageSize}

\* The entries a page fits in.  One that starts at address 0 is never used.
Fits(m) == {k \in DOMAIN m : /\ m[k].base # 0
                             /\ m[k].length >= PageSize
                             /\ m[k].type = Usable}

\* Best fit: the first of the shortest.
best(m) == Min({k \in Fits(m) : \A l \in Fits(m) : m[k].length <= m[l].length})

\* Mutant: the table may grow one entry too far.
TableFull_off_by_one(m) == Len(m) > MaxEntries

\* No room for the entry that a split makes.
TableFull(m) == Len(m) >= MaxEntries

CanAllocate(m) ==
    /\ Fits(m) # {}
    /\ m[best(m)].length > PageSize => ~ TableFull(m)

\* The page that an entry gives away.
UsedPart(e) == [base |-> e.base, length |-> PageSize, type |-> Used]

\* Mutant: the remainder starts one unit early.
RestPart_overlapping(e) ==
    [base |-> e.base + PageSize - 1, length |-> e.length - PageSize, type |-> Usable]

\* What remains of it.
RestPart(e) ==
    [base |-> e.base + PageSize, length |-> e.length - PageSize, type |-> Usable]

\* Entry b becomes a used page, followed by what remains of it, if anything.
Carve(m, b) ==
    LET used == ReplaceAt(m, b, UsedPart(m[b]))
    IN  IF m[b].length > PageSize THEN InsertAt(used, b + 1, RestPart(m[b])) ELSE used

\* Mutant: the entry is marked used before the room in the table is checked.
allocate_marks_first(m) ==
    IF CanAllocate(m)
    THEN [map |-> Carve(m, best(m)), addr |-> m[best(m)].base % AddrLimit]
    ELSE [map |-> IF Fits(m) = {} THEN m ELSE [m EXCEPT ![best(m)].type = Used],
          addr |-> 0]

\* allocate(): the new map, and the address cut to 32 bits; 0 is failure.
allocate(m) ==
    IF CanAllocate(m)
    THEN [map |-> Carve(m, best(m)), addr |-> m[best(m)].base % AddrLimit]
    ELSE [map |-> m, addr |-> 0]
-----------------------------------------------------------------------------
(* free(addr)                                                              *)

\* Mutant: the length is not added.
Merge_loses(m, k) == RemoveAt(m, k + 1)

\* Entry k swallows entry k + 1.
Merge(m, k) == RemoveAt(ReplaceAt(m, k, [m[k] EXCEPT !.length = @ + m[k + 1].length]), k + 1)

MergeNext(m, k) == IF k < Len(m) /\ Mergeable(m, k) THEN Merge(m, k) ELSE m

\* Mutant: only the entry behind is looked at.
MergeAround_next_only(m, k) == MergeNext(m, k)

\* Mutant: the two merges are done independently, from the old position.
MergeAround_stale_index(m, k) ==
    IF k > 1 /\ Mergeable(m, k - 1) THEN MergeNext(Merge(m, k - 1), k)
                                    ELSE MergeNext(m, k)

\* The entry before k first, then, from wherever k is now, the one behind.
MergeAround(m, k) ==
    IF k > 1 /\ Mergeable(m, k - 1) THEN MergeNext(Merge(m, k - 1), k - 1)
                                    ELSE MergeNext(m, k)

\* free(): the first entry that starts at addr, whatever its type; an unknown
\* address is ignored.
free(m, addr) ==
    LET found == {k \in DOMAIN m : m[k].base = addr}
        index == Min(found)
    IN  IF found = {} THEN m
        ELSE MergeAround([m EXCEPT ![index].type = Usable], index)
=============================================================================
