------------------------------- MODULE Paging -------------------------------
(***************************************************************************)
(* Page tables and the virtual page allocator of kernel/pmm.c, as          *)
(* operators on the memory                                                 *)
(*                                                                         *)
(*   map   the memory map (FrameMap)                                       *)
(*   dir   page_directory: the address of a page table, or None            *)
(*   pte   by page, all tables in one: the frame it is mapped to, or None  *)
(*   user  the pages and the directory entries (below 0) with PAGE_USER    *)
(*   next_virtual, free_virtual                                            *)
(*   stale pages whose old translation the TLB may still hold              *)
(*   status  "ok" until a page table, or what is to be written, cannot be  *)
(*           reached                                                       *)
(*   table   history: the address of the page table that was not reached   *)
(*   short   history: an allocate() of the call failed                     *)
(*                                                                         *)
(* A page is a virtual address without its low 12 bits.  The kernel writes *)
(* its page tables at their physical addresses, which works as long as     *)
(* these are mapped to themselves, as build_first_page() left them.        *)
(***************************************************************************)
EXTENDS FrameMap

CONSTANTS TablePages,    \* 1024: entries of a page table
          Tables,        \* 1024: entries of page_directory
          KernelEnd,     \* the first page behind the kernel
          FirstTable     \* the address of page_table, in the kernel

ASSUME TablesAssumption == TablePages \in Nat \ {0} /\ Tables \in Nat \ {0}
ASSUME KernelAssumption ==
    /\ KernelEnd \in 1 .. TablePages
    /\ FirstTable \in {v * PageSize : v \in 1 .. KernelEnd - 1}

Pages == 0 .. TablePages * Tables - 1
None == -1

Dir(v) == v \div TablePages
PageOf(addr) == addr \div PageSize
Masked(addr) == addr - (addr % PageSize)
DirBit(d) == -1 - d

\* build_first_page() and init_virtual_allocator(): the first table maps its
\* pages to themselves, for everybody.
FirstMemory ==
    [map |-> InitialMap,
     dir |-> [d \in 0 .. Tables - 1 |-> IF d = 0 THEN FirstTable ELSE None],
     pte |-> [v \in Pages |-> IF v < TablePages THEN v * PageSize ELSE None],
     user |-> {DirBit(0)} \cup 0 .. TablePages - 1,
     next_virtual |-> KernelEnd,
     free_virtual |-> <<>>,
     stale |-> {},
     status |-> "ok",
     table |-> 0,
     short |-> FALSE]

\* What an access to the page table at address t meets: the table, another
\* frame that has been mapped there since, or nothing.
Access(m, t) ==
    IF PageOf(t) \notin Pages \/ m.pte[PageOf(t)] = None THEN "fault"
    ELSE IF m.pte[PageOf(t)] = t THEN "ok" ELSE "astray"
-----------------------------------------------------------------------------
\* Mutant: the directory entry is not looked at.
TableFor_always_new(m, v) == allocate(m.map)

\* The page table for page v, new if there is none; 0 if it cannot be had.
TableFor(m, v) ==
    IF m.dir[Dir(v)] # None THEN [map |-> m.map, addr |-> m.dir[Dir(v)]]
                            ELSE allocate(m.map)

\* The PAGE_USER bits after page v has been mapped.
UserBits(m, v, user) ==
    IF user THEN m.user \cup {v, DirBit(Dir(v))} ELSE m.user \ {v}

\* Page v gets its entry in table t.
SetEntry(m, t, addr, v, user) ==
    IF t.addr = 0 THEN [m EXCEPT !.short = TRUE]
    ELSE IF Access(m, t.addr) # "ok"
    THEN [m EXCEPT !.map = t.map, !.status = Access(m, t.addr), !.table = t.addr]
    ELSE [m EXCEPT !.map = t.map,
                   !.dir[Dir(v)] = t.addr,
                   !.pte[v] = Masked(addr),
                   !.user = UserBits(m, v, user),
                   !.stale = @ \ {v}]

\* map_page(): without memory for a page table nothing happens, and nobody is
\* told.  Whatever page v was mapped to before is forgotten.
map_page(m, addr, v, user) == SetEntry(m, TableFor(m, v), addr, v, user)

\* Page v is mapped to the frame r, if allocate() has found one.
MapFrame(m, r, v, user) ==
    IF r.addr = 0 THEN [mem |-> [m EXCEPT !.short = TRUE], addr |-> 0]
    ELSE [mem |-> map_page([m EXCEPT !.map = r.map], r.addr, v, user), addr |-> r.addr]

\* allocate() and map_page(): a new frame for page v, or 0.
MapNew(m, v, user) == MapFrame(m, allocate(m.map), v, user)

\* Mutant: next_virtual does not move on.
allocate_page_stuck(m, user) ==
    LET reuse == m.free_virtual # <<>>
        v     == IF reuse THEN Last(m.free_virtual) ELSE m.next_virtual
        taken == IF reuse THEN [m EXCEPT !.free_virtual = Front(@)] ELSE m
        r     == MapNew(taken, v, user)
    IN  IF r.addr = 0 THEN [mem |-> [m EXCEPT !.short = TRUE], page |-> 0]
        ELSE [mem |-> r.mem, page |-> v]

\* allocate_page(): the page freed last, or the next new one; 0 without a
\* frame.  That map_page() may have failed is not noticed.
allocate_page(m, user) ==
    LET reuse == m.free_virtual # <<>>
        v     == IF reuse THEN Last(m.free_virtual) ELSE m.next_virtual
        taken == IF reuse THEN [m EXCEPT !.free_virtual = Front(@)]
                          ELSE [m EXCEPT !.next_virtual = @ + 1]
        r     == MapNew(taken, v, user)
    IN  IF r.addr = 0 THEN [mem |-> [m EXCEPT !.short = TRUE], page |-> 0]
        ELSE [mem |-> r.mem, page |-> v]

\* One page more, unless a frame was missing or a table was not reached.
MapOne(r, v, user) ==
    IF ~ r.ok \/ r.mem.status # "ok" THEN r
    ELSE LET n == MapNew(r.mem, v, user)
         IN  [mem |-> n.mem, ok |-> n.addr # 0]

\* Maps count pages from first on, one after another, and gives up at the
\* first that gets no frame, without undoing anything.
MapEach(m, first, count, user) ==
    LET r[k \in 0 .. count] ==
            IF k = 0 THEN [mem |-> m, ok |-> TRUE]
                     ELSE MapOne(r[k - 1], first + k - 1, user)
    IN  r[count]

\* allocate_pages_contig(): always new pages; the first one, or 0.
allocate_pages_contig(m, count, user) ==
    LET start == m.next_virtual
        r     == MapEach([m EXCEPT !.next_virtual = @ + count], start, count, user)
    IN  [mem |-> r.mem, page |-> IF r.ok THEN start ELSE 0]

\* get_map(): the frame behind page v, if any.
get_map(m, v) == IF m.dir[Dir(v)] = None THEN None ELSE m.pte[v]

\* Mutant: the page table entry is not cleared.
free_page_stays_mapped(m, v) ==
    LET freed == [m EXCEPT !.free_virtual = Append(@, v)]
    IN  IF get_map(m, v) = None THEN freed
        ELSE [freed EXCEPT !.map = free(@, m.pte[v])]

\* free_page(): the page can be handed out again, mapped or not; its frame is
\* given back, but the TLB is not told.
free_page(m, v) ==
    LET freed == [m EXCEPT !.free_virtual = Append(@, v)]
    IN  IF m.dir[Dir(v)] = None THEN freed
        ELSE IF Access(m, m.dir[Dir(v)]) # "ok"
        THEN [freed EXCEPT !.status = Access(m, m.dir[Dir(v)]), !.table = m.dir[Dir(v)]]
        ELSE IF m.pte[v] = None THEN freed
        ELSE [freed EXCEPT !.map = free(@, m.pte[v]),
                           !.pte[v] = None,
                           !.user = @ \ {v},
                           !.stale = @ \cup {v}]

\* Ring 3 may touch page v: PAGE_USER on both levels.
UserCanTouch(m, v) == get_map(m, v) # None /\ {v, DirBit(Dir(v))} \subseteq m.user

\* The frames that were taken from the map and are still taken.
Taken(m) == UsedBases(m.map) \ UsedBases(InitialMap)

\* The page tables that map_page() made.
NewTables(m) == {m.dir[d] : d \in {e \in 1 .. Tables - 1 : m.dir[e] # None}}
=============================================================================
