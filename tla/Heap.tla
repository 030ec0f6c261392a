-------------------------------- MODULE Heap --------------------------------
(***************************************************************************)
(* The kernel heap of kernel/pmm.c: kmalloc() and kfree() on a linked list *)
(* of blocks in pages from allocate_page().  create_process() and the      *)
(* system calls SYS_MALLOC and SYS_FREE use it, with IF = 0 or before      *)
(* there is a second process, so a call is one atomic action.              *)
(*                                                                         *)
(* The list from heap_head is a sequence of blocks; a block that falls off *)
(* the list is no longer in it, whatever its header in memory says.  Page  *)
(* n lies at n * PageSize; page 0 is what a failed allocate_page() returns *)
(* and what NULL points to, memory that is mapped and writable.            *)
(***************************************************************************)
EXTENDS Integers, SequencesExt

CONSTANTS PageSize, HeaderSize,
          Sizes,      \* the sizes that are asked for
          MaxPages,   \* bound: the pages there are for the heap
          Exhausts    \* whether allocate_page() may fail

ASSUME LayoutAssumption == HeaderSize \in Nat \ {0} /\ PageSize \in Nat /\ HeaderSize < PageSize
ASSUME SizesAssumption == Sizes \subseteq Nat
ASSUME PagesAssumption == MaxPages \in Nat /\ Exhausts \in BOOLEAN

VARIABLES heap,           \* the blocks from heap_head on
          current_block,  \* the first block of the newest page
          pages,          \* how many pages the heap has been given
          live            \* what the callers hold

vars == <<heap, current_block, pages, live>>

NULL == 0
Free == 1
Used == 2

\* What allocate_page() can return, given how many pages are in use.
allocate_page(n) == {p \in {n + 1} : p <= MaxPages} \cup {p \in {0} : Exhausts}

\* A page as one free block.
PageBlock(p) == [addr |-> p * PageSize, size |-> PageSize - HeaderSize, type |-> Free]

\* The free blocks that are large enough.
Fits(h, size) == {k \in DOMAIN h : h[k].type = Free /\ h[k].size >= size}

\* Best fit: the first of the smallest.
best_block(h, size) ==
    Min({k \in Fits(h, size) : \A l \in Fits(h, size) : h[k].size <= h[l].size})

\* Mutant: the rest is computed without its own header.
Take_without_header(h, k, size) ==
    LET used == [h[k] EXCEPT !.size = size, !.type = Used]
        rest == [h[k] EXCEPT !.addr = @ + HeaderSize + size, !.size = @ - size]
    IN  IF h[k].size >= size + HeaderSize
        THEN InsertAt(ReplaceAt(h, k, used), k + 1, rest)
        ELSE ReplaceAt(h, k, [h[k] EXCEPT !.type = Used])

\* Mutant: the rest of a split block is not linked to what follows.
Take_unlinks(h, k, size) ==
    LET used == [h[k] EXCEPT !.size = size, !.type = Used]
        rest == [h[k] EXCEPT !.addr = @ + HeaderSize + size,
                             !.size = @ - size - HeaderSize]
    IN  IF h[k].size >= size + HeaderSize
        THEN SubSeq(h, 1, k - 1) \o <<used, rest>>
        ELSE ReplaceAt(h, k, [h[k] EXCEPT !.type = Used])

\* Block k is taken, and split when there is room for another header.
Take(h, k, size) ==
    LET used == [h[k] EXCEPT !.size = size, !.type = Used]
        rest == [h[k] EXCEPT !.addr = @ + HeaderSize + size,
                             !.size = @ - size - HeaderSize]
    IN  IF h[k].size >= size + HeaderSize
        THEN InsertAt(ReplaceAt(h, k, used), k + 1, rest)
        ELSE ReplaceAt(h, k, [h[k] EXCEPT !.type = Used])

\* The first call allocates the first page.
FirstPage ==
    IF heap # <<>>
    THEN {[heap |-> heap, current |-> current_block, pages |-> pages]}
    ELSE {[heap |-> IF p = 0 THEN <<>> ELSE <<PageBlock(p)>>,
           current |-> p * PageSize,
           pages |-> IF p = 0 THEN pages ELSE p] : p \in allocate_page(pages)}

\* current_block->next = new_page: what followed current_block falls off the
\* list.  If current_block is no longer in the list, neither is the new page.
Link(h, current, p) ==
    LET here == {k \in DOMAIN h : h[k].addr = current}
    IN  IF here = {} THEN h
        ELSE SubSeq(h, 1, Min(here)) \o (IF p = 0 THEN <<>> ELSE <<PageBlock(p)>>)

\* A block in the list satisfies the request.
kmalloc_best(s, size) ==
    LET k == best_block(s.heap, size)
    IN  /\ Fits(s.heap, size) # {}
        /\ heap' = Take(s.heap, k, size)
        /\ current_block' = s.current
        /\ pages' = s.pages
        /\ live' = live \cup {[addr |-> s.heap[k].addr + HeaderSize, size |-> size]}

\* A new page does, or is taken to: its block is used without a look at its
\* size, and allocate_page() is not checked for failure.
kmalloc_page(s, size) ==
    /\ Fits(s.heap, size) = {}
    /\ \E p \in allocate_page(s.pages) :
          LET h == Link(s.heap, s.current, p)
              linked == h # <<>> /\ p # 0 /\ h[Len(h)].addr = p * PageSize
          IN  /\ heap' = IF linked THEN Take(h, Len(h), size) ELSE h
              /\ current_block' = p * PageSize
              /\ pages' = IF p = 0 THEN s.pages ELSE p
              /\ live' = live \cup {[addr |-> p * PageSize + HeaderSize, size |-> size]}

\* kmalloc(): 0 or more than a page is refused.
kmalloc(size) ==
    /\ size > 0 /\ size <= PageSize
    /\ \E s \in FirstPage : kmalloc_best(s, size) \/ kmalloc_page(s, size)

\* Mutant: the block is merged with the one behind it, used or not.
kfree_merges_used(x) ==
    /\ x \in live
    /\ heap' = [k \in DOMAIN heap |->
                   IF heap[k].addr + HeaderSize = x.addr
                   THEN [heap[k] EXCEPT !.type = Free,
                         !.size = IF k < Len(heap) THEN @ + HeaderSize + heap[k + 1].size ELSE @]
                   ELSE heap[k]]
    /\ live' = live \ {x}
    /\ UNCHANGED <<current_block, pages>>

\* kfree(): the block is free again if it is found in the list.  Free blocks
\* are never merged.
kfree(x) ==
    /\ x \in live
    /\ heap' = [k \in DOMAIN heap |->
                   IF heap[k].addr + HeaderSize = x.addr
                   THEN [heap[k] EXCEPT !.type = Free] ELSE heap[k]]
    /\ live' = live \ {x}
    /\ UNCHANGED <<current_block, pages>>

Init ==
    /\ heap = <<>>
    /\ current_block = NULL
    /\ pages = 0
    /\ live = {}

Next ==
    \/ \E size \in Sizes : kmalloc(size)
    \/ \E x \in live : kfree(x)

Spec == Init /\ [][Next]_vars
-----------------------------------------------------------------------------
\* What is asked for fits in a page with its header: kmalloc() refuses only
\* what is larger than the whole page.
FitPage == \A size \in Sizes : size + HeaderSize <= PageSize

Payload(x) == x.addr .. x.addr + x.size - 1
WholeBlock(b) == b.addr .. b.addr + HeaderSize + b.size - 1

\* kmalloc() and kfree(): a piece of memory that a caller holds lies in one
\* page of the heap, overlaps nothing that another caller holds, and of the
\* list overlaps only its own block, which is used; so nobody's data is
\* overwritten by a header, by a later split or by a second caller.  What was
\* handed out at NULL for want of memory is another matter.
PiecesExclusive ==
    \A x \in {y \in live : y.addr >= PageSize} :
        /\ \E p \in 1 .. pages : Payload(x) \subseteq p * PageSize .. (p + 1) * PageSize - 1
        /\ \A y \in live : x # y => Payload(x) \cap Payload(y) = {}
        /\ \A k \in DOMAIN heap :
              \/ Payload(x) \cap WholeBlock(heap[k]) = {}
              \/ heap[k].addr + HeaderSize = x.addr /\ heap[k].type = Used

\* kmalloc(): the blocks of the list lie in the heap's pages and do not
\* overlap, whatever is split, freed and split again, and no block is in the
\* list twice, so that the walks of kmalloc() and kfree() end.
BlocksDisjoint ==
    /\ \A k \in DOMAIN heap :
          WholeBlock(heap[k]) \subseteq PageSize .. (pages + 1) * PageSize - 1
    /\ \A k, l \in DOMAIN heap :
          k # l => WholeBlock(heap[k]) \cap WholeBlock(heap[l]) = {}

\* kmalloc() and kfree(): a block leaves the list only when a page is linked
\* in over it, never by a split or by being freed, so a piece that is freed
\* before the next page comes can be used again.
ListKept ==
    [][current_block' = current_block =>
          /\ {heap[k].addr : k \in DOMAIN heap} \subseteq {heap'[k].addr : k \in DOMAIN heap'}
          /\ \A x \in live \ live' : \A k \in DOMAIN heap' :
                heap'[k].addr + HeaderSize = x.addr => heap'[k].type = Free]_vars
=============================================================================
