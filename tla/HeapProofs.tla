----------------------------- MODULE HeapProofs -----------------------------
(***************************************************************************)
(* Proofs about Heap, for every page and header size, every set of request *)
(* sizes and every number of pages.                                        *)
(*                                                                         *)
(* BlocksDisjoint is about the list alone, PiecesExclusive about the list  *)
(* and what the callers hold.  The second is not inductive as it stands:   *)
(* kmalloc() knows of a held piece only by the block in front of it, so    *)
(* the invariant ties each piece, header included, to the blocks of the    *)
(* list (PiecesInv), also when its block has fallen off the list.          *)
(***************************************************************************)
EXTENDS Heap, SequenceLemmas

Blocks == [addr : Nat, size : Nat, type : {Free, Used}]

\* The la cells from a on and the lb cells from b on do not meet.
Apart(a, la, b, lb) == a + la <= b \/ b + lb <= a

\* The len cells from a on lie in one of the first n pages.
InPage(a, len, n) == \E p \in 1 .. n : p * PageSize <= a /\ a + len <= (p + 1) * PageSize

\* The blocks of the list.
ListInv(h, n) ==
    /\ h \in Seq(Blocks)
    /\ \A k \in DOMAIN h : InPage(h[k].addr, HeaderSize + h[k].size, n)
    /\ \A k, l \in DOMAIN h :
          k # l => Apart(h[k].addr, HeaderSize + h[k].size, h[l].addr, HeaderSize + h[l].size)

Pieces == [addr : Nat, size : 1 .. PageSize - HeaderSize]

\* What was handed out in a page, and not at NULL.
Real(L) == {x \in L : x.addr # HeaderSize}

\* Piece x has block b as its own, or they have nothing in common.
Knows(x, b) ==
    \/ Apart(x.addr, x.size, b.addr, HeaderSize + b.size)
    \/ b.addr + HeaderSize = x.addr /\ b.type = Used /\ x.size <= b.size

\* The pieces and the blocks.
PiecesInv(h, n, L) ==
    /\ L \subseteq Pieces
    /\ \A x \in Real(L) : x.addr >= HeaderSize /\ InPage(x.addr - HeaderSize, HeaderSize + x.size, n)
    /\ \A x, y \in Real(L) : x # y => Apart(x.addr, x.size, y.addr, y.size)
    /\ \A x \in Real(L), k \in DOMAIN h : Knows(x, h[k])

LEMMA Layout == HeaderSize \in Nat /\ HeaderSize > 0 /\ PageSize \in Nat /\ HeaderSize < PageSize
BY LayoutAssumption

(* Multiples of the page size.                                             *)
LEMMA PageIs ==
    ASSUME NEW p \in Nat
    PROVE  p * PageSize \in Nat /\ (p + 1) * PageSize = p * PageSize + PageSize
BY Layout

LEMMA PagesOrdered ==
    ASSUME NEW p \in Nat, NEW q \in Nat, p <= q
    PROVE  p * PageSize <= q * PageSize
BY Layout

(* What lies in the first n pages ends before page n + 1 and starts behind *)
(* page 0.                                                                 *)
LEMMA InPageBounds ==
    ASSUME NEW n \in Nat, NEW a \in Nat, NEW len \in Nat, InPage(a, len, n)
    PROVE  PageSize <= a /\ a + len <= (n + 1) * PageSize
<1>1. PICK p \in 1 .. n : p * PageSize <= a /\ a + len <= (p + 1) * PageSize
  BY DEF InPage
<1>2. p \in Nat /\ p + 1 \in Nat /\ n + 1 \in Nat /\ 1 <= p /\ p + 1 <= n + 1
  OBVIOUS
<1>3. 1 * PageSize <= p * PageSize /\ (p + 1) * PageSize <= (n + 1) * PageSize
  BY <1>2, PagesOrdered, 1 \in Nat
<1>4. 1 * PageSize = PageSize /\ PageSize \in Nat
  BY Layout
<1>5. /\ p * PageSize \in Nat /\ (p + 1) * PageSize \in Nat /\ (n + 1) * PageSize \in Nat
  BY <1>2, Layout
<1>6. QED
  BY <1>1, <1>3, <1>4, <1>5

LEMMA InPageGrows ==
    ASSUME NEW n \in Nat, NEW m \in Nat, n <= m, NEW a, NEW len, InPage(a, len, n)
    PROVE  InPage(a, len, m)
BY DEF InPage

LEMMA InPageShrinks ==
    ASSUME NEW n \in Nat, NEW a \in Nat, NEW len \in Nat, InPage(a, len, n),
           NEW b \in Nat, NEW m \in Nat, a <= b, b + m <= a + len
    PROVE  InPage(b, m, n)
<1>1. PICK p \in 1 .. n : p * PageSize <= a /\ a + len <= (p + 1) * PageSize
  BY DEF InPage
<1>2. p * PageSize \in Nat /\ (p + 1) * PageSize \in Nat
  BY PageIs, Layout
<1>3. p * PageSize <= b /\ b + m <= (p + 1) * PageSize
  BY <1>1, <1>2
<1>4. QED
  BY <1>3 DEF InPage

(* The new page is a page of its own.                                      *)
LEMMA NewPage ==
    ASSUME NEW n \in Nat
    PROVE  /\ PageBlock(n + 1) \in Blocks
           /\ PageBlock(n + 1).addr = (n + 1) * PageSize
           /\ HeaderSize + PageBlock(n + 1).size = PageSize
           /\ InPage((n + 1) * PageSize, PageSize, n + 1)
<1>1. /\ (n + 1) * PageSize \in Nat
      /\ ((n + 1) + 1) * PageSize = (n + 1) * PageSize + PageSize
  BY PageIs, n + 1 \in Nat
<1>2. PageSize - HeaderSize \in Nat /\ HeaderSize + (PageSize - HeaderSize) = PageSize
  BY Layout
<1>3. n + 1 \in 1 .. n + 1
  OBVIOUS
<1>4. InPage((n + 1) * PageSize, PageSize, n + 1)
  <2>1. /\ (n + 1) * PageSize <= (n + 1) * PageSize
        /\ (n + 1) * PageSize + PageSize <= ((n + 1) + 1) * PageSize
    BY <1>1, Layout
  <2>2. QED
    BY <1>3, <2>1, Zenon DEF InPage
<1>5. QED
  BY <1>1, <1>2, <1>4 DEF PageBlock, Blocks

LEMMA BlockType ==
    ASSUME NEW h \in Seq(Blocks), NEW k \in DOMAIN h
    PROVE  h[k] \in Blocks /\ h[k].addr \in Nat /\ h[k].size \in Nat
<1>1. h[k] \in Blocks
  OBVIOUS
<1>2. QED
  BY <1>1 DEF Blocks

(* Facts about the blocks and the pieces that the steps use one at a time. *)
LEMMA BlockFacts ==
    ASSUME NEW n \in Nat, NEW h, ListInv(h, n), NEW k \in DOMAIN h
    PROVE  /\ h[k] \in Blocks /\ h[k].addr \in Nat /\ h[k].size \in Nat
           /\ PageSize <= h[k].addr
           /\ h[k].addr + (HeaderSize + h[k].size) <= (n + 1) * PageSize
<1>1. h[k] \in Blocks /\ InPage(h[k].addr, HeaderSize + h[k].size, n)
  BY DEF ListInv
<1>2. h[k].addr \in Nat /\ h[k].size \in Nat /\ HeaderSize + h[k].size \in Nat
  BY <1>1, Layout DEF Blocks
<1>3. QED
  BY <1>1, <1>2, InPageBounds

LEMMA PieceFacts ==
    ASSUME NEW n \in Nat, NEW h, NEW L, PiecesInv(h, n, L), NEW x \in Real(L)
    PROVE  /\ x.addr \in Nat /\ x.size \in Nat /\ x.size > 0
           /\ x.addr >= PageSize + HeaderSize
           /\ x.addr + x.size <= (n + 1) * PageSize
<1>1. x \in Pieces /\ x.addr >= HeaderSize /\ InPage(x.addr - HeaderSize, HeaderSize + x.size, n)
  BY DEF PiecesInv, Real
<1>2. /\ x.addr \in Nat /\ x.size \in Nat /\ x.size > 0
      /\ x.addr - HeaderSize \in Nat /\ HeaderSize + x.size \in Nat
  BY <1>1, Layout DEF Pieces
<1>3. /\ PageSize <= x.addr - HeaderSize
      /\ (x.addr - HeaderSize) + (HeaderSize + x.size) <= (n + 1) * PageSize
  BY <1>1, <1>2, InPageBounds
<1>4. (n + 1) * PageSize \in Nat /\ PageSize \in Nat /\ HeaderSize \in Nat
  BY Layout
<1>5. QED
  BY <1>2, <1>3, <1>4

(***************************************************************************)
(* kmalloc() takes a block.  Each block of the new list is, or lies in,    *)
(* one block of the old list.                                              *)
(***************************************************************************)
Within(b, c) ==
    c.addr <= b.addr /\ b.addr + (HeaderSize + b.size) <= c.addr + (HeaderSize + c.size)

Taken(t, h, k, size, o) ==
    /\ t \in Seq(Blocks)
    /\ o \in [DOMAIN t -> DOMAIN h]
    /\ \A l \in DOMAIN t : o[l] # k => t[l] = h[o[l]]
    /\ \A l \in DOMAIN t : Within(t[l], h[o[l]])
    /\ \A l, m \in DOMAIN t :
          l # m /\ o[l] = o[m]
             => Apart(t[l].addr, HeaderSize + t[l].size, t[m].addr, HeaderSize + t[m].size)
    /\ k \in DOMAIN t /\ o[k] = k
    /\ t[k].addr = h[k].addr /\ t[k].type = Used
    /\ size <= h[k].size => size <= t[k].size
    /\ \A l \in DOMAIN t : l # k /\ o[l] = k => h[k].addr + HeaderSize + size <= t[l].addr
    /\ \A m \in DOMAIN h : \E l \in DOMAIN t : t[l].addr = h[m].addr

LEMMA TakeWhole ==
    ASSUME NEW h \in Seq(Blocks), NEW k \in DOMAIN h, NEW size \in Nat,
           ~ (h[k].size >= size + HeaderSize)
    PROVE  \E o : Taken(Take(h, k, size), h, k, size, o)
<1> DEFINE t == [h EXCEPT ![k] = [h[k] EXCEPT !.type = Used]]
           o == [l \in DOMAIN h |-> l]
<1>1. Take(h, k, size) = t
  BY DEF Take, ReplaceAt
<1>2. h[k] \in Blocks /\ [h[k] EXCEPT !.type = Used] \in Blocks
  <2>1. h[k] \in Blocks
    BY BlockType
  <2>2. QED
    BY <2>1 DEF Blocks
<1>3. t \in Seq(Blocks) /\ DOMAIN t = DOMAIN h
  BY <1>2
<1>4. /\ t[k].addr = h[k].addr /\ t[k].size = h[k].size /\ t[k].type = Used
      /\ \A l \in DOMAIN h : l # k => t[l] = h[l]
  BY <1>2 DEF Blocks
<1>5. \A l \in DOMAIN h : h[l].addr \in Nat /\ h[l].size \in Nat
  BY BlockType
<1>6. \A l \in DOMAIN h : t[l].addr = h[l].addr /\ t[l].size = h[l].size
  BY <1>4
<1> HIDE DEF t
<1>7. \A l \in DOMAIN h : Within(t[l], h[l])
  BY <1>5, <1>6, Layout DEF Within
<1>8. o \in [DOMAIN t -> DOMAIN h] /\ \A l \in DOMAIN h : o[l] = l
  BY <1>3
<1> HIDE DEF o
<1>9. Taken(t, h, k, size, o)
  BY <1>3, <1>4, <1>6, <1>7, <1>8, Zenon DEF Taken
<1>10. QED
  BY <1>1, <1>9

LEMMA TakeSplit ==
    ASSUME NEW h \in Seq(Blocks), NEW k \in DOMAIN h, NEW size \in Nat,
           h[k].size >= size + HeaderSize
    PROVE  \E o : Taken(Take(h, k, size), h, k, size, o)
<1> DEFINE used == [h[k] EXCEPT !.size = size, !.type = Used]
           rest == [h[k] EXCEPT !.addr = @ + HeaderSize + size, !.size = @ - size - HeaderSize]
           u == [h EXCEPT ![k] = used]
           t == InsertAt(u, k + 1, rest)
           o == [l \in 1 .. Len(h) + 1 |-> IF l <= k THEN l ELSE l - 1]
<1>0. Len(h) \in Nat /\ DOMAIN h = 1 .. Len(h) /\ k \in Nat /\ k <= Len(h) /\ 1 <= k
  OBVIOUS
<1>1. Take(h, k, size) = t
  BY DEF Take, ReplaceAt
<1>2. h[k] \in Blocks /\ h[k].addr \in Nat /\ h[k].size \in Nat
  BY BlockType
<1>3. /\ h[k].addr + HeaderSize + size \in Nat
      /\ h[k].size - size - HeaderSize \in Nat
      /\ (h[k].addr + HeaderSize + size) + (HeaderSize + (h[k].size - size - HeaderSize))
            <= h[k].addr + (HeaderSize + h[k].size)
      /\ size <= h[k].size
      /\ h[k].addr <= h[k].addr
      /\ h[k].addr + (HeaderSize + size) <= h[k].addr + (HeaderSize + h[k].size)
      /\ h[k].addr <= h[k].addr + HeaderSize + size
  <2> DEFINE a == h[k].addr
             z == h[k].size
  <2>1. a \in Nat /\ z \in Nat /\ z >= size + HeaderSize
    BY <1>2
  <2> HIDE DEF a, z
  <2>2. /\ a + HeaderSize + size \in Nat /\ z - size - HeaderSize \in Nat /\ size <= z
    BY <2>1, Layout
  <2>3. (a + HeaderSize + size) + (HeaderSize + (z - size - HeaderSize)) <= a + (HeaderSize + z)
    BY <2>1, Layout
  <2>4. /\ a <= a /\ a + (HeaderSize + size) <= a + (HeaderSize + z) /\ a <= a + HeaderSize + size
    BY <2>1, Layout
  <2>5. QED
    BY <2>2, <2>3, <2>4, Zenon DEF a, z
<1>4. /\ used \in Blocks /\ used.addr = h[k].addr /\ used.size = size /\ used.type = Used
  BY <1>2 DEF Blocks
<1>5. /\ rest \in Blocks /\ rest.addr = h[k].addr + HeaderSize + size
      /\ rest.size = h[k].size - size - HeaderSize
  BY <1>2, <1>3 DEF Blocks
<1> HIDE DEF used, rest
<1>6. /\ u \in Seq(Blocks) /\ Len(u) = Len(h)
      /\ u[k] = used /\ \A l \in 1 .. Len(h) : l # k => u[l] = h[l]
  BY <1>0, <1>4
<1> HIDE DEF u
<1>7. k + 1 \in 1 .. Len(u) + 1
  BY <1>0, <1>6
<1>8. t \in Seq(Blocks) /\ Inserted(t, u, k + 1, rest)
  BY <1>5, <1>6, <1>7, InsertAtIs
<1> HIDE DEF t
<1>9. /\ Len(t) = Len(h) + 1 /\ DOMAIN t = 1 .. Len(h) + 1
      /\ \A l \in 1 .. Len(h) + 1 :
            t[l] = IF l < k + 1 THEN u[l] ELSE IF l = k + 1 THEN rest ELSE u[l - 1]
  BY <1>6, <1>8 DEF Inserted
<1>10. /\ k \in 1 .. Len(h) + 1 /\ k + 1 \in 1 .. Len(h) + 1 /\ k < k + 1 /\ ~ (k + 1 < k + 1)
       /\ k + 1 # k /\ k + 1 - 1 = k /\ ~ (k + 1 <= k) /\ k <= k
  BY <1>0
<1>11. t[k] = used /\ t[k + 1] = rest
  BY <1>6, <1>9, <1>10
<1>12. /\ \A l \in 1 .. Len(h) + 1 : o[l] \in 1 .. Len(h)
       /\ \A l \in 1 .. Len(h) + 1 : o[l] = k => l = k \/ l = k + 1
       /\ \A l \in 1 .. Len(h) + 1 : o[l] # k => l < k \/ l > k + 1
       /\ \A l, m \in 1 .. Len(h) + 1 : l # m /\ o[l] = o[m] => o[l] = k
       /\ o[k] = k /\ o[k + 1] = k
  BY <1>0
<1>13. \A l \in 1 .. Len(h) + 1 : o[l] # k => t[l] = h[o[l]]
  <2> SUFFICES ASSUME NEW l \in 1 .. Len(h) + 1, o[l] # k PROVE t[l] = h[o[l]]
    OBVIOUS
  <2>1. CASE l < k
    <3>1. l \in 1 .. Len(h) /\ l # k /\ l < k + 1 /\ o[l] = l
      BY <2>1, <1>0
    <3>2. QED
      BY <3>1, <1>6, <1>9
  <2>2. CASE l > k + 1
    <3>1. l - 1 \in 1 .. Len(h) /\ l - 1 # k /\ ~ (l < k + 1) /\ l # k + 1 /\ o[l] = l - 1
      BY <2>2, <1>0
    <3>2. QED
      BY <3>1, <1>6, <1>9
  <2>3. QED
    BY <2>1, <2>2, <1>12
<1>14. o \in [DOMAIN t -> DOMAIN h]
  BY <1>0, <1>9, <1>12
<1> HIDE DEF o
<1>15. Within(used, h[k]) /\ Within(rest, h[k])
  BY <1>3, <1>4, <1>5, Zenon DEF Within
<1>16. \A l \in DOMAIN t : Within(t[l], h[o[l]])
  <2> SUFFICES ASSUME NEW l \in DOMAIN t PROVE Within(t[l], h[o[l]])
    OBVIOUS
  <2>1. CASE o[l] = k
    BY <2>1, <1>9, <1>11, <1>12, <1>15
  <2>2. CASE o[l] # k
    <3>1. t[l] = h[o[l]] /\ o[l] \in DOMAIN h
      BY <2>2, <1>0, <1>9, <1>12, <1>13
    <3>2. h[o[l]].addr \in Nat /\ h[o[l]].size \in Nat
      BY <3>1, BlockType
    <3>3. QED
      BY <3>1, <3>2, Layout DEF Within
  <2>3. QED
    BY <2>1, <2>2
<1>17. /\ Apart(used.addr, HeaderSize + used.size, rest.addr, HeaderSize + rest.size)
       /\ Apart(rest.addr, HeaderSize + rest.size, used.addr, HeaderSize + used.size)
  BY <1>2, <1>4, <1>5, Layout DEF Apart
<1>18. \A l, m \in DOMAIN t :
          l # m /\ o[l] = o[m]
             => Apart(t[l].addr, HeaderSize + t[l].size, t[m].addr, HeaderSize + t[m].size)
  <2> SUFFICES ASSUME NEW l \in DOMAIN t, NEW m \in DOMAIN t, l # m, o[l] = o[m]
               PROVE  Apart(t[l].addr, HeaderSize + t[l].size, t[m].addr, HeaderSize + t[m].size)
    OBVIOUS
  <2>1. (l = k /\ m = k + 1) \/ (l = k + 1 /\ m = k)
    BY <1>9, <1>12
  <2>2. QED
    BY <2>1, <1>11, <1>17
<1>19. \A l \in DOMAIN t : l # k /\ o[l] = k => h[k].addr + HeaderSize + size <= t[l].addr
  <2> SUFFICES ASSUME NEW l \in DOMAIN t, l # k, o[l] = k
               PROVE  h[k].addr + HeaderSize + size <= t[l].addr
    OBVIOUS
  <2>1. l = k + 1
    BY <1>9, <1>12
  <2>2. QED
    BY <2>1, <1>3, <1>5, <1>11
<1>20. \A m \in DOMAIN h : \E l \in DOMAIN t : t[l].addr = h[m].addr
  <2> SUFFICES ASSUME NEW m \in DOMAIN h PROVE \E l \in DOMAIN t : t[l].addr = h[m].addr
    OBVIOUS
  <2>1. CASE m <= k
    <3>1. m \in DOMAIN t /\ m < k + 1
      BY <2>1, <1>0, <1>9
    <3>2. t[m] = u[m]
      BY <3>1, <1>9
    <3>3. u[m].addr = h[m].addr
      BY <1>0, <1>4, <1>6
    <3>4. QED
      BY <3>1, <3>2, <3>3
  <2>2. CASE m > k
    <3>1. m + 1 \in 1 .. Len(h) + 1 /\ ~ (m + 1 < k + 1) /\ m + 1 # k + 1 /\ m + 1 - 1 = m /\ m # k
      BY <2>2, <1>0
    <3>2. t[m + 1] = h[m]
      BY <3>1, <1>0, <1>6, <1>9
    <3>3. QED
      BY <3>1, <3>2, <1>9
  <2>3. QED
    BY <2>1, <2>2, <1>0
<1>21. Taken(t, h, k, size, o)
  <2>1. k \in DOMAIN t /\ o[k] = k
    BY <1>9, <1>10, <1>12
  <2>2. size <= t[k].size
    BY <1>4, <1>11
  <2>3. t[k].addr = h[k].addr /\ t[k].type = Used
    BY <1>4, <1>11
  <2>4. \A l \in DOMAIN t : o[l] # k => t[l] = h[o[l]]
    BY <1>9, <1>13, Zenon
  <2>5. QED
    BY <1>8, <1>14, <1>16, <1>18, <1>19, <1>20, <2>1, <2>2, <2>3, <2>4, Zenon DEF Taken
<1>22. QED
  BY <1>1, <1>21, Zenon

LEMMA TakeIs ==
    ASSUME NEW h \in Seq(Blocks), NEW k \in DOMAIN h, NEW size \in Nat
    PROVE  \E o : Taken(Take(h, k, size), h, k, size, o)
BY TakeWhole, TakeSplit, Zenon

LEMMA ApartSymmetric ==
    ASSUME NEW a, NEW la, NEW b, NEW lb, Apart(a, la, b, lb)
    PROVE  Apart(b, lb, a, la)
BY Zenon DEF Apart

(* Blocks that lie in two different blocks do not meet.                    *)
LEMMA WithinApart ==
    ASSUME NEW b \in Blocks, NEW c \in Blocks, NEW d \in Blocks, NEW e \in Blocks,
           Within(b, c), Within(d, e),
           Apart(c.addr, HeaderSize + c.size, e.addr, HeaderSize + e.size)
    PROVE  Apart(b.addr, HeaderSize + b.size, d.addr, HeaderSize + d.size)
<1>1. /\ b.addr \in Nat /\ b.size \in Nat /\ c.addr \in Nat /\ c.size \in Nat
      /\ d.addr \in Nat /\ d.size \in Nat /\ e.addr \in Nat /\ e.size \in Nat
  BY DEF Blocks
<1>2. /\ HeaderSize + b.size \in Nat /\ HeaderSize + c.size \in Nat
      /\ HeaderSize + d.size \in Nat /\ HeaderSize + e.size \in Nat
  BY <1>1, Layout
<1>3. /\ c.addr <= b.addr /\ b.addr + (HeaderSize + b.size) <= c.addr + (HeaderSize + c.size)
      /\ e.addr <= d.addr /\ d.addr + (HeaderSize + d.size) <= e.addr + (HeaderSize + e.size)
  BY Zenon DEF Within
<1>4. QED
  BY <1>1, <1>2, <1>3 DEF Apart

LEMMA TakeKeepsList ==
    ASSUME NEW n \in Nat, NEW h, ListInv(h, n), NEW k \in DOMAIN h, NEW size \in Nat
    PROVE  ListInv(Take(h, k, size), n)
<1> DEFINE t == Take(h, k, size)
<1>0. h \in Seq(Blocks)
  BY DEF ListInv
<1>1. PICK o : Taken(t, h, k, size, o)
  BY <1>0, TakeIs
<1> HIDE DEF t
<1>2. /\ t \in Seq(Blocks)
      /\ \A l \in DOMAIN t : o[l] \in DOMAIN h
      /\ \A l \in DOMAIN t : Within(t[l], h[o[l]])
      /\ \A l, m \in DOMAIN t :
            l # m /\ o[l] = o[m]
               => Apart(t[l].addr, HeaderSize + t[l].size, t[m].addr, HeaderSize + t[m].size)
  BY <1>1 DEF Taken
<1>3. ASSUME NEW l \in DOMAIN t
      PROVE  InPage(t[l].addr, HeaderSize + t[l].size, n)
  <2> DEFINE b == t[l]
             c == h[o[l]]
  <2>1. /\ b.addr \in Nat /\ b.size \in Nat /\ c.addr \in Nat /\ c.size \in Nat
    BY <1>0, <1>2, BlockType
  <2>2. InPage(c.addr, HeaderSize + c.size, n)
    BY <1>2 DEF ListInv
  <2>3. c.addr <= b.addr /\ b.addr + (HeaderSize + b.size) <= c.addr + (HeaderSize + c.size)
    BY <1>2, Zenon DEF Within
  <2> HIDE DEF b, c
  <2>4. HeaderSize + b.size \in Nat /\ HeaderSize + c.size \in Nat
    BY <2>1, Layout
  <2>5. InPage(b.addr, HeaderSize + b.size, n)
    BY <2>1, <2>2, <2>3, <2>4, InPageShrinks
  <2>6. QED
    BY <2>5 DEF b
<1>4. ASSUME NEW l \in DOMAIN t, NEW m \in DOMAIN t, l # m
      PROVE  Apart(t[l].addr, HeaderSize + t[l].size, t[m].addr, HeaderSize + t[m].size)
  <2>1. CASE o[l] = o[m]
    BY <1>2, <1>4, <2>1
  <2>2. CASE o[l] # o[m]
    <3>1. /\ t[l] \in Blocks /\ t[m] \in Blocks /\ h[o[l]] \in Blocks /\ h[o[m]] \in Blocks
          /\ Within(t[l], h[o[l]]) /\ Within(t[m], h[o[m]])
      BY <1>0, <1>2, BlockType
    <3>2. Apart(h[o[l]].addr, HeaderSize + h[o[l]].size, h[o[m]].addr, HeaderSize + h[o[m]].size)
      BY <1>2, <2>2 DEF ListInv
    <3>3. QED
      BY <3>1, <3>2, WithinApart
  <2>3. QED
    BY <2>1, <2>2
<1>5. ListInv(t, n)
  BY <1>2, <1>3, <1>4 DEF ListInv
<1>6. QED
  BY <1>5 DEF t

(* A caller gets a free block: nothing that is held lies in it.            *)
LEMMA TakeKeepsPieces ==
    ASSUME NEW n \in Nat, NEW h, NEW L, ListInv(h, n), PiecesInv(h, n, L),
           NEW k \in DOMAIN h, NEW size \in Nat, size > 0,
           size + HeaderSize <= PageSize, h[k].type = Free, h[k].size >= size
    PROVE  PiecesInv(Take(h, k, size), n, L \cup {[addr |-> h[k].addr + HeaderSize, size |-> size]})
<1> DEFINE t == Take(h, k, size)
           x == [addr |-> h[k].addr + HeaderSize, size |-> size]
           a == h[k].addr
           z == h[k].size
<1>0. h \in Seq(Blocks)
  BY DEF ListInv
<1>1. PICK o : Taken(t, h, k, size, o)
  BY <1>0, TakeIs
<1>2. /\ t \in Seq(Blocks)
      /\ \A l \in DOMAIN t : o[l] \in DOMAIN h
      /\ \A l \in DOMAIN t : Within(t[l], h[o[l]])
      /\ \A l \in DOMAIN t : o[l] # k => t[l] = h[o[l]]
      /\ \A l \in DOMAIN t : l # k /\ o[l] = k => a + HeaderSize + size <= t[l].addr
      /\ t[k].addr = a /\ t[k].type = Used /\ size <= t[k].size
  <2> HIDE DEF t
  <2>1. QED
    BY <1>1 DEF Taken
<1>3. /\ a \in Nat /\ z \in Nat /\ PageSize <= a /\ InPage(a, HeaderSize + z, n)
      /\ size <= z
  BY BlockFacts DEF ListInv
<1>4. x.addr = a + HeaderSize /\ x.size = size
  OBVIOUS
<1> HIDE DEF t, a, z, x
<1>5. /\ a + HeaderSize \in Nat /\ a + HeaderSize # HeaderSize /\ HeaderSize + size \in Nat
      /\ HeaderSize + z \in Nat /\ (a + HeaderSize) - HeaderSize = a /\ a <= a
      /\ a + (HeaderSize + size) <= a + (HeaderSize + z) /\ a + HeaderSize >= HeaderSize
      /\ a <= a + HeaderSize /\ (a + HeaderSize) + size <= a + (HeaderSize + z)
      /\ (a + HeaderSize) + size = a + HeaderSize + size
  BY <1>3, Layout
<1>6. x \in Pieces
  <2>1. x = [addr |-> a + HeaderSize, size |-> size]
    BY DEF x, a
  <2>2. QED
    BY <2>1, <1>5, Layout DEF Pieces
<1>7. x.addr >= HeaderSize /\ InPage(x.addr - HeaderSize, HeaderSize + x.size, n)
  <2>1. InPage(a, HeaderSize + size, n)
    BY <1>3, <1>5, InPageShrinks
  <2>2. QED
    BY <2>1, <1>4, <1>5
<1>8. \A y \in Real(L) : y \in Pieces /\ y.addr \in Nat /\ y.size \in Nat
  BY PieceFacts DEF Real, PiecesInv
<1>9. \A y \in Real(L) : Apart(y.addr, y.size, a, HeaderSize + z)
  <2>1. \A y \in Real(L) : Knows(y, h[k])
    BY DEF PiecesInv
  <2>2. Free # Used
    BY DEF Free, Used
  <2>3. QED
    BY <2>1, <2>2, Zenon DEF Knows, a, z
<1>10. ASSUME NEW y \in Real(L)
       PROVE  Apart(y.addr, y.size, x.addr, x.size)
  <2>1. y.addr <= y.addr /\ y.addr + y.size <= y.addr + y.size
    BY <1>8
  <2>2. QED
    BY <2>1, <1>3, <1>4, <1>5, <1>8, <1>9 DEF Apart
<1>11. ASSUME NEW y \in Real(L), NEW l \in DOMAIN t
       PROVE  Knows(y, t[l])
  <2>1. CASE o[l] # k
    <3>1. t[l] = h[o[l]] /\ o[l] \in DOMAIN h
      BY <2>1, <1>2
    <3>2. QED
      BY <3>1 DEF PiecesInv
  <2>2. CASE o[l] = k
    <3>1. t[l].addr \in Nat /\ t[l].size \in Nat
      BY <1>2, BlockType
    <3>2. a <= t[l].addr /\ t[l].addr + (HeaderSize + t[l].size) <= a + (HeaderSize + z)
      BY <1>2, <2>2, Zenon DEF Within, a, z
    <3>3. y.addr <= y.addr /\ y.addr + y.size <= y.addr + y.size
      BY <1>8
    <3>4. HeaderSize + t[l].size \in Nat
      BY <3>1, Layout
    <3>5. Apart(y.addr, y.size, t[l].addr, HeaderSize + t[l].size)
      BY <3>1, <3>2, <3>3, <3>4, <1>3, <1>5, <1>8, <1>9 DEF Apart
    <3>6. QED
      BY <3>5 DEF Knows
  <2>3. QED
    BY <2>1, <2>2
<1>12. ASSUME NEW l \in DOMAIN t
       PROVE  Knows(x, t[l])
  <2>1. CASE l = k
    BY <2>1, <1>2, <1>4, Zenon DEF Knows
  <2>2. CASE l # k /\ o[l] = k
    <3>1. (a + HeaderSize) + size <= t[l].addr
      BY <2>2, <1>2, <1>5
    <3>2. QED
      BY <3>1, <1>4, Zenon DEF Knows, Apart
  <2>3. CASE o[l] # k
    <3>1. t[l] = h[o[l]] /\ o[l] \in DOMAIN h /\ t[l].addr \in Nat /\ t[l].size \in Nat
      BY <2>3, <1>2, BlockType
    <3>2. Apart(a, HeaderSize + z, t[l].addr, HeaderSize + t[l].size)
      BY <3>1, <2>3 DEF ListInv, a, z
    <3>3. HeaderSize + t[l].size \in Nat
      BY <3>1, Layout
    <3>4. t[l].addr <= t[l].addr
          /\ t[l].addr + (HeaderSize + t[l].size) <= t[l].addr + (HeaderSize + t[l].size)
      BY <3>1, <3>3
    <3>5. Apart(x.addr, x.size, t[l].addr, HeaderSize + t[l].size)
      BY <3>1, <3>2, <3>3, <3>4, <1>3, <1>4, <1>5 DEF Apart
    <3>6. QED
      BY <3>5 DEF Knows
  <2>4. QED
    BY <2>1, <2>2, <2>3
<1>13. Real(L \cup {x}) \subseteq Real(L) \cup {x}
  BY DEF Real
<1>14. L \cup {x} \subseteq Pieces
  BY <1>6 DEF PiecesInv
<1>15. \A y \in Real(L) : Apart(x.addr, x.size, y.addr, y.size)
  BY <1>10, ApartSymmetric
<1>16. PiecesInv(t, n, L \cup {x})
  <2>1. \A y \in Real(L) \cup {x} :
           y.addr >= HeaderSize /\ InPage(y.addr - HeaderSize, HeaderSize + y.size, n)
    BY <1>7 DEF PiecesInv
  <2>2. \A y, w \in Real(L) \cup {x} : y # w => Apart(y.addr, y.size, w.addr, w.size)
    BY <1>10, <1>15, Zenon DEF PiecesInv
  <2>3. \A y \in Real(L) \cup {x}, l \in DOMAIN t : Knows(y, t[l])
    BY <1>11, <1>12
  <2>4. QED
    BY <1>13, <1>14, <2>1, <2>2, <2>3 DEF PiecesInv
<1>17. QED
  BY <1>16 DEF t, x

(***************************************************************************)
(* Pages come and are linked in.                                           *)
(***************************************************************************)
LEMMA GrowKeeps ==
    ASSUME NEW n \in Nat, NEW h, ListInv(h, n)
    PROVE  /\ ListInv(h, n + 1)
           /\ \A L : PiecesInv(h, n, L) => PiecesInv(h, n + 1, L)
<1>1. n + 1 \in Nat /\ n <= n + 1
  OBVIOUS
<1>2. ListInv(h, n + 1)
  BY <1>1, InPageGrows DEF ListInv
<1>3. ASSUME NEW L, PiecesInv(h, n, L)
      PROVE  PiecesInv(h, n + 1, L)
  BY <1>1, <1>3, InPageGrows DEF PiecesInv
<1>4. QED
  BY <1>2, <1>3

(* A list that is cut off behind block m.                                  *)
LEMMA PrefixKeeps ==
    ASSUME NEW n \in Nat, NEW h, ListInv(h, n), NEW m \in 1 .. Len(h)
    PROVE  /\ Len(SubSeq(h, 1, m)) = m
           /\ ListInv(SubSeq(h, 1, m), n)
           /\ \A L : PiecesInv(h, n, L) => PiecesInv(SubSeq(h, 1, m), n, L)
<1> DEFINE g == SubSeq(h, 1, m)
<1>1. h \in Seq(Blocks) /\ m \in Nat /\ 1 <= m /\ m <= Len(h) /\ Len(h) \in Nat
  BY DEF ListInv
<1>2. /\ g \in Seq(Blocks) /\ Len(g) = m
      /\ \A k \in 1 .. m : g[k] = h[k]
  <2>1. \A k \in 1 .. m : h[k] \in Blocks
    BY <1>1
  <2>2. /\ g \in Seq(Blocks) /\ Len(g) = (IF 1 <= m THEN m - 1 + 1 ELSE 0)
        /\ \A k \in 1 .. m - 1 + 1 : g[k] = h[1 + k - 1]
    BY <1>1, <2>1, SubSeqProperties, 1 \in Int, m \in Int
  <2>3. QED
    BY <1>1, <2>2
<1> HIDE DEF g
<1>3. DOMAIN g = 1 .. m /\ DOMAIN h = 1 .. Len(h) /\ 1 .. m \subseteq 1 .. Len(h)
  BY <1>1, <1>2
<1>4. ListInv(g, n)
  BY <1>2, <1>3, Zenon DEF ListInv
<1>5. ASSUME NEW L, PiecesInv(h, n, L)
      PROVE  PiecesInv(g, n, L)
  BY <1>2, <1>3, <1>5, Zenon DEF PiecesInv
<1>6. QED
  BY <1>2, <1>4, <1>5 DEF g

(* The new page behind the list.                                           *)
LEMMA AppendKeeps ==
    ASSUME NEW n \in Nat, NEW h, ListInv(h, n)
    PROVE  LET g == h \o <<PageBlock(n + 1)>>
           IN  /\ Len(g) = Len(h) + 1 /\ Len(h) \in Nat /\ g[Len(g)] = PageBlock(n + 1)
               /\ ListInv(g, n + 1)
               /\ \A L : PiecesInv(h, n, L) => PiecesInv(g, n + 1, L)
<1> DEFINE b == PageBlock(n + 1)
           g == h \o <<b>>
           a == (n + 1) * PageSize
<1>1. /\ b \in Blocks /\ b.addr = a /\ HeaderSize + b.size = PageSize
      /\ InPage(a, PageSize, n + 1) /\ a \in Nat /\ PageSize \in Nat
  BY NewPage, Layout
<1>2. h \in Seq(Blocks) /\ Len(h) \in Nat /\ DOMAIN h = 1 .. Len(h)
  BY DEF ListInv
<1> HIDE DEF b, a
<1>3. /\ g \in Seq(Blocks) /\ Len(g) = Len(h) + 1
      /\ g[Len(h) + 1] = b /\ \A k \in 1 .. Len(h) : g[k] = h[k]
  BY <1>1, <1>2
<1> HIDE DEF g
<1>4. /\ DOMAIN g = 1 .. Len(h) + 1
      /\ \A k \in DOMAIN g : k \in DOMAIN h \/ k = Len(h) + 1
  BY <1>2, <1>3
<1>5. ListInv(h, n + 1) /\ \A L : PiecesInv(h, n, L) => PiecesInv(h, n + 1, L)
  BY GrowKeeps
<1>6. ASSUME NEW k \in DOMAIN h
      PROVE  /\ Apart(h[k].addr, HeaderSize + h[k].size, a, PageSize)
             /\ Apart(a, PageSize, h[k].addr, HeaderSize + h[k].size)
  BY BlockFacts, Zenon DEF Apart, a
<1>7. ListInv(g, n + 1)
  <2>1. \A k \in DOMAIN g : InPage(g[k].addr, HeaderSize + g[k].size, n + 1)
    BY <1>1, <1>2, <1>3, <1>4, <1>5, Zenon DEF ListInv
  <2>2. \A k, l \in DOMAIN g :
           k # l => Apart(g[k].addr, HeaderSize + g[k].size, g[l].addr, HeaderSize + g[l].size)
    <3> SUFFICES ASSUME NEW k \in DOMAIN g, NEW l \in DOMAIN g, k # l
                 PROVE  Apart(g[k].addr, HeaderSize + g[k].size, g[l].addr, HeaderSize + g[l].size)
      OBVIOUS
    <3>1. CASE k \in DOMAIN h /\ l \in DOMAIN h
      <4>1. Apart(h[k].addr, HeaderSize + h[k].size, h[l].addr, HeaderSize + h[l].size)
        BY <3>1, Zenon DEF ListInv
      <4>2. g[k] = h[k] /\ g[l] = h[l]
        BY <1>2, <1>3, <3>1
      <4>3. QED
        BY <4>1, <4>2, Zenon
    <3>2. CASE k \in DOMAIN h /\ l = Len(h) + 1
      BY <1>1, <1>2, <1>3, <1>6, <3>2, Zenon
    <3>3. CASE k = Len(h) + 1 /\ l \in DOMAIN h
      BY <1>1, <1>2, <1>3, <1>6, <3>3, Zenon
    <3>4. QED
      BY <1>4, <3>1, <3>2, <3>3, Zenon
  <2>3. QED
    BY <1>3, <2>1, <2>2, Zenon DEF ListInv
<1>8. ASSUME NEW L, PiecesInv(h, n, L)
      PROVE  PiecesInv(g, n + 1, L)
  <2>1. PiecesInv(h, n + 1, L)
    BY <1>5, <1>8
  <2>2. ASSUME NEW x \in Real(L) PROVE Knows(x, b)
    <3>1. x.addr + x.size <= a
      BY <1>8, PieceFacts, Zenon DEF a
    <3>2. QED
      BY <1>1, <3>1, Zenon DEF Knows, Apart
  <2>3. \A x \in Real(L), k \in DOMAIN g : Knows(x, g[k])
    BY <1>2, <1>3, <1>4, <2>1, <2>2, Zenon DEF PiecesInv
  <2>4. QED
    BY <2>1, <2>3, Zenon DEF PiecesInv
<1>9. Len(g) = Len(h) + 1 /\ Len(h) \in Nat /\ g[Len(g)] = b
  BY <1>2, <1>3
<1>10. QED
  BY <1>7, <1>8, <1>9 DEF g, b

(* current_block->next = new_page: a page that is linked in is the last    *)
(* block of the list; otherwise the list is as it was.                     *)
LEMMA LinkIs ==
    ASSUME NEW n \in Nat, NEW h, ListInv(h, n), NEW current
    PROVE  LET g == Link(h, current, n + 1)
           IN  \/ /\ g = h /\ \A k \in DOMAIN h : h[k].addr # (n + 1) * PageSize
               \/ /\ Len(g) \in Nat /\ Len(g) > 0 /\ g[Len(g)] = PageBlock(n + 1)
                  /\ ListInv(g, n + 1)
                  /\ \A L : PiecesInv(h, n, L) => PiecesInv(g, n + 1, L)
<1> DEFINE here == {k \in DOMAIN h : h[k].addr = current}
           g == Link(h, current, n + 1)
<1>1. CASE here = {}
  <2>1. g = h
    BY <1>1 DEF Link
  <2>2. ASSUME NEW k \in DOMAIN h PROVE h[k].addr # (n + 1) * PageSize
    <3>1. /\ h[k].addr \in Nat /\ h[k].size \in Nat
          /\ h[k].addr + (HeaderSize + h[k].size) <= (n + 1) * PageSize
      BY BlockFacts
    <3>2. (n + 1) * PageSize \in Nat
      BY PageIs, n + 1 \in Nat
    <3>3. QED
      BY <3>1, <3>2, Layout
  <2>3. QED
    BY <2>1, <2>2
<1>2. CASE here # {}
  <2> DEFINE m == Min(here)
             q == SubSeq(h, 1, m)
  <2>1. h \in Seq(Blocks) /\ DOMAIN h = 1 .. Len(h) /\ Len(h) \in Nat
    BY DEF ListInv
  <2>2. here \subseteq Nat
    BY <2>1
  <2>3. m \in 1 .. Len(h)
    BY <1>2, <2>1, <2>2, MinIsLeast
  <2>4. /\ Len(q) = m /\ ListInv(q, n)
        /\ \A L : PiecesInv(h, n, L) => PiecesInv(q, n, L)
    BY <2>3, PrefixKeeps
  <2>5. g = q \o <<PageBlock(n + 1)>>
    <3>1. n + 1 # 0
      OBVIOUS
    <3>2. QED
      BY <1>2, <3>1 DEF Link
  <2> HIDE DEF q, m, g, here
  <2>6. /\ Len(g) = Len(q) + 1 /\ Len(q) \in Nat /\ g[Len(g)] = PageBlock(n + 1)
        /\ ListInv(g, n + 1)
        /\ \A L : PiecesInv(q, n, L) => PiecesInv(g, n + 1, L)
    BY <2>4, <2>5, AppendKeeps
  <2>7. Len(g) \in Nat /\ Len(g) > 0
    BY <2>6
  <2>8. QED
    BY <2>4, <2>6, <2>7 DEF g
<1>3. QED
  BY <1>1, <1>2

(* When there is no page the list is cut off, or is as it was.             *)
LEMMA LinkNull ==
    ASSUME NEW n \in Nat, NEW h, ListInv(h, n), NEW current
    PROVE  LET g == Link(h, current, 0)
           IN  /\ current = 0 => g = h
               /\ ListInv(g, n)
               /\ \A L : PiecesInv(h, n, L) => PiecesInv(g, n, L)
<1> DEFINE here == {k \in DOMAIN h : h[k].addr = current}
           g == Link(h, current, 0)
<1>1. CASE here = {}
  <2>1. g = h
    BY <1>1 DEF Link
  <2>2. QED
    BY <2>1
<1>2. CASE here # {}
  <2> DEFINE m == Min(here)
             q == SubSeq(h, 1, m)
  <2>1. h \in Seq(Blocks) /\ DOMAIN h = 1 .. Len(h) /\ Len(h) \in Nat
    BY DEF ListInv
  <2>2. here \subseteq Nat
    BY <2>1
  <2>3. m \in 1 .. Len(h) /\ m \in here
    BY <1>2, <2>1, <2>2, MinIsLeast
  <2>4. /\ ListInv(q, n)
        /\ \A L : PiecesInv(h, n, L) => PiecesInv(q, n, L)
    BY <2>3, PrefixKeeps
  <2>5. current # 0
    <3>1. h[m].addr = current /\ PageSize <= h[m].addr
      BY <2>1, <2>3, BlockFacts
    <3>2. QED
      BY <3>1, Layout
  <2>6. g = q \o <<>>
    BY <1>2 DEF Link
  <2>7. q \in Seq(Blocks)
    BY <2>4 DEF ListInv
  <2> HIDE DEF q, m, here, g
  <2>8. g = q
    BY <2>6, <2>7
  <2>9. QED
    BY <2>4, <2>5, <2>8 DEF g
<1>3. QED
  BY <1>1, <1>2

(* A page that is not linked in is held by nobody else either.             *)
LEMMA UnlinkedPiece ==
    ASSUME NEW n \in Nat, NEW h, NEW L, ListInv(h, n), PiecesInv(h, n, L),
           NEW size \in Nat, size > 0, size + HeaderSize <= PageSize
    PROVE  PiecesInv(h, n + 1, L \cup {[addr |-> (n + 1) * PageSize + HeaderSize, size |-> size]})
<1> DEFINE a == (n + 1) * PageSize
           x == [addr |-> a + HeaderSize, size |-> size]
<1>1. /\ a \in Nat /\ InPage(a, PageSize, n + 1)
  BY NewPage, PageIs, n + 1 \in Nat
<1>2. x.addr = a + HeaderSize /\ x.size = size
  OBVIOUS
<1>3. PiecesInv(h, n + 1, L)
  BY GrowKeeps
<1>4. \A k \in DOMAIN h : /\ h[k].addr \in Nat /\ h[k].size \in Nat
                          /\ h[k].addr + (HeaderSize + h[k].size) <= a
  BY BlockFacts, Zenon
<1>5. \A y \in Real(L) : y.addr \in Nat /\ y.size \in Nat /\ y.addr + y.size <= a
  BY PieceFacts, Zenon
<1>6. x \in Pieces
  BY <1>1, Layout DEF Pieces
<1> HIDE DEF a, x
<1>7. x.addr >= HeaderSize /\ InPage(x.addr - HeaderSize, HeaderSize + x.size, n + 1)
  <2>1. /\ a + HeaderSize >= HeaderSize /\ (a + HeaderSize) - HeaderSize = a
        /\ HeaderSize + size \in Nat /\ a <= a /\ a + (HeaderSize + size) <= a + PageSize
        /\ PageSize \in Nat /\ n + 1 \in Nat
    BY <1>1, Layout
  <2>2. InPage(a, HeaderSize + size, n + 1)
    BY <1>1, <2>1, InPageShrinks
  <2>3. QED
    BY <1>2, <2>1, <2>2
<1>8. ASSUME NEW y \in Real(L)
      PROVE  Apart(y.addr, y.size, x.addr, x.size) /\ Apart(x.addr, x.size, y.addr, y.size)
  BY <1>1, <1>2, <1>5, Layout DEF Apart
<1>9. ASSUME NEW k \in DOMAIN h
      PROVE  Knows(x, h[k])
  BY <1>1, <1>2, <1>4, Layout DEF Knows, Apart
<1>10. Real(L \cup {x}) \subseteq Real(L) \cup {x}
  BY DEF Real
<1>11. PiecesInv(h, n + 1, L \cup {x})
  <2>1. \A y \in Real(L) \cup {x} :
           y.addr >= HeaderSize /\ InPage(y.addr - HeaderSize, HeaderSize + y.size, n + 1)
    BY <1>3, <1>7 DEF PiecesInv
  <2>2. \A y, w \in Real(L) \cup {x} : y # w => Apart(y.addr, y.size, w.addr, w.size)
    BY <1>3, <1>8, Zenon DEF PiecesInv
  <2>3. \A y \in Real(L) \cup {x}, l \in DOMAIN h : Knows(y, h[l])
    BY <1>3, <1>9 DEF PiecesInv
  <2>4. L \cup {x} \subseteq Pieces
    BY <1>3, <1>6 DEF PiecesInv
  <2>5. QED
    BY <1>10, <2>1, <2>2, <2>3, <2>4 DEF PiecesInv
<1>12. QED
  BY <1>11 DEF x, a

LEMMA NullPiece ==
    ASSUME NEW n, NEW h, NEW L, PiecesInv(h, n, L),
           NEW size \in Nat, size > 0, size + HeaderSize <= PageSize
    PROVE  PiecesInv(h, n, L \cup {[addr |-> 0 * PageSize + HeaderSize, size |-> size]})
<1> DEFINE x == [addr |-> 0 * PageSize + HeaderSize, size |-> size]
<1>1. x.addr = HeaderSize /\ x \in Pieces
  BY Layout DEF Pieces
<1> HIDE DEF x
<1>2. Real(L \cup {x}) = Real(L)
  BY <1>1 DEF Real
<1>3. PiecesInv(h, n, L \cup {x})
  BY <1>1, <1>2 DEF PiecesInv
<1>4. QED
  BY <1>3 DEF x

(* Best fit finds a free block that is large enough when there is one.     *)
LEMMA BestFits ==
    ASSUME NEW h \in Seq(Blocks), NEW size, Fits(h, size) # {}
    PROVE  best_block(h, size) \in Fits(h, size)
<1> DEFINE F == Fits(h, size)
           Z == {h[k].size : k \in F}
           B == {k \in F : \A l \in F : h[k].size <= h[l].size}
<1>1. F \subseteq DOMAIN h /\ DOMAIN h \subseteq Nat
  BY DEF Fits
<1>2. \A k \in F : h[k].size \in Nat
  BY <1>1, BlockType
<1> HIDE DEF F
<1>3. Z \subseteq Nat /\ Z # {}
  BY <1>2 DEF F
<1>4. Min(Z) \in Z /\ \A z \in Z : Min(Z) <= z
  BY <1>3, MinIsLeast
<1>5. PICK k \in F : Min(Z) = h[k].size
  BY <1>4
<1>6. k \in B
  BY <1>4, <1>5
<1>7. B \subseteq Nat /\ B # {}
  BY <1>1, <1>6
<1>8. Min(B) \in B
  BY <1>7, MinIsLeast
<1>9. QED
  BY <1>8 DEF best_block, F

(***************************************************************************)
(* The state.                                                              *)
(***************************************************************************)
ListsInv ==
    /\ pages \in Nat
    /\ current_block \in Nat /\ current_block <= pages * PageSize
    /\ ListInv(heap, pages)

HeldInv == PiecesInv(heap, pages, live)

LEMMA Pages0 ==
    ASSUME NEW n \in Nat, NEW p \in allocate_page(n)
    PROVE  p = 0 \/ p = n + 1
BY DEF allocate_page

LEMMA EmptyList ==
    ASSUME NEW n \in Nat
    PROVE  ListInv(<<>>, n)
<1>1. <<>> \in Seq(Blocks) /\ DOMAIN <<>> = {}
  OBVIOUS
<1>2. QED
  BY <1>1 DEF ListInv

(* The first call's page.                                                  *)
LEMMA FirstPageKeeps ==
    ASSUME ListsInv, NEW s \in FirstPage
    PROVE  /\ s.pages \in Nat /\ s.current \in Nat /\ s.current <= s.pages * PageSize
           /\ ListInv(s.heap, s.pages)
           /\ HeldInv => PiecesInv(s.heap, s.pages, live)
           /\ heap # <<>> => s.heap = heap /\ s.current = current_block /\ s.pages = pages
<1>1. CASE heap # <<>>
  <2>1. s = [heap |-> heap, current |-> current_block, pages |-> pages]
    BY <1>1 DEF FirstPage
  <2>2. QED
    BY <2>1 DEF ListsInv, HeldInv
<1>2. CASE heap = <<>>
  <2>1. PICK p \in allocate_page(pages) :
           s = [heap |-> IF p = 0 THEN <<>> ELSE <<PageBlock(p)>>,
                current |-> p * PageSize,
                pages |-> IF p = 0 THEN pages ELSE p]
    BY <1>2, Zenon DEF FirstPage
  <2>2. pages \in Nat /\ ListInv(heap, pages)
    BY DEF ListsInv
  <2>3. p = 0 \/ p = pages + 1
    BY <2>2, Pages0
  <2>4. CASE p = 0
    <3>1. s.heap = heap /\ s.current = 0 /\ s.pages = pages
      BY <1>2, <2>1, <2>4, Layout
    <3>2. 0 <= pages * PageSize
      BY <2>2, PageIs
    <3>3. QED
      BY <1>2, <2>2, <3>1, <3>2 DEF HeldInv
  <2>5. CASE p = pages + 1
    <3>1. s.heap = <<PageBlock(pages + 1)>> /\ s.current = (pages + 1) * PageSize /\ s.pages = pages + 1
      <4>1. p # 0
        BY <2>2, <2>5
      <4>2. QED
        BY <2>1, <2>5, <4>1
    <3>2. (pages + 1) * PageSize \in Nat /\ (pages + 1) * PageSize <= (pages + 1) * PageSize
      BY <2>2, PageIs, pages + 1 \in Nat
    <3>3. heap \o <<PageBlock(pages + 1)>> = <<PageBlock(pages + 1)>>
      BY <1>2
    <3>4. /\ ListInv(s.heap, s.pages)
          /\ \A L : PiecesInv(heap, pages, L) => PiecesInv(s.heap, s.pages, L)
      <4>1. /\ ListInv(heap \o <<PageBlock(pages + 1)>>, pages + 1)
            /\ \A L : PiecesInv(heap, pages, L)
                        => PiecesInv(heap \o <<PageBlock(pages + 1)>>, pages + 1, L)
        BY <2>2, AppendKeeps, Zenon
      <4>2. QED
        BY <3>1, <3>3, <4>1, Zenon
    <3>5. QED
      BY <1>2, <2>2, <3>1, <3>2, <3>4 DEF HeldInv
  <2>6. QED
    BY <2>3, <2>4, <2>5
<1>3. QED
  BY <1>1, <1>2

(* kmalloc() that finds a block.                                           *)
LEMMA BestKeeps ==
    ASSUME ListsInv, NEW s \in FirstPage, NEW size \in Nat, size > 0, kmalloc_best(s, size)
    PROVE  /\ ListsInv'
           /\ HeldInv /\ size + HeaderSize <= PageSize => HeldInv'
           /\ \A m \in DOMAIN s.heap : \E l \in DOMAIN heap' : heap'[l].addr = s.heap[m].addr
<1> DEFINE k == best_block(s.heap, size)
           x == [addr |-> s.heap[k].addr + HeaderSize, size |-> size]
<1>1. /\ s.pages \in Nat /\ s.current \in Nat /\ s.current <= s.pages * PageSize
      /\ ListInv(s.heap, s.pages)
      /\ HeldInv => PiecesInv(s.heap, s.pages, live)
  BY FirstPageKeeps
<1>2. s.heap \in Seq(Blocks)
  BY <1>1 DEF ListInv
<1>3. /\ Fits(s.heap, size) # {}
      /\ heap' = Take(s.heap, k, size) /\ current_block' = s.current /\ pages' = s.pages
      /\ live' = live \cup {x}
  BY DEF kmalloc_best
<1>4. k \in DOMAIN s.heap /\ s.heap[k].type = Free /\ s.heap[k].size >= size
  BY <1>2, <1>3, BestFits DEF Fits
<1> HIDE DEF k
<1>5. ListInv(heap', pages')
  BY <1>1, <1>3, <1>4, TakeKeepsList
<1>6. ListsInv'
  BY <1>1, <1>3, <1>5 DEF ListsInv
<1>7. HeldInv /\ size + HeaderSize <= PageSize => HeldInv'
  <2>1. ASSUME HeldInv, size + HeaderSize <= PageSize PROVE PiecesInv(heap', pages', live')
    BY <1>1, <1>3, <1>4, <2>1, TakeKeepsPieces
  <2>2. QED
    BY <2>1 DEF HeldInv
<1>8. \A m \in DOMAIN s.heap : \E l \in DOMAIN heap' : heap'[l].addr = s.heap[m].addr
  <2>1. PICK o : Taken(heap', s.heap, k, size, o)
    BY <1>2, <1>3, <1>4, TakeIs
  <2>2. QED
    BY <2>1, Zenon DEF Taken
<1>9. QED
  BY <1>6, <1>7, <1>8

(* kmalloc() that takes a new page, or NULL for one.                       *)
LEMMA PageKeeps ==
    ASSUME ListsInv, NEW s \in FirstPage, NEW size \in Nat, size > 0, kmalloc_page(s, size)
    PROVE  /\ ListsInv'
           /\ HeldInv /\ size + HeaderSize <= PageSize => HeldInv'
           /\ heap # <<>> /\ current_block' = current_block => heap' = heap
<1> DEFINE n == s.pages
           G(p) == Link(s.heap, s.current, p)
           linked(p) == G(p) # <<>> /\ p # 0 /\ G(p)[Len(G(p))].addr = p * PageSize
<1>1. /\ n \in Nat /\ s.current \in Nat /\ s.current <= n * PageSize
      /\ ListInv(s.heap, n)
      /\ HeldInv => PiecesInv(s.heap, n, live)
      /\ heap # <<>> => s.heap = heap /\ s.current = current_block /\ s.pages = pages
  BY FirstPageKeeps
<1>2. PICK p \in allocate_page(n) :
         /\ heap' = IF linked(p) THEN Take(G(p), Len(G(p)), size) ELSE G(p)
         /\ current_block' = p * PageSize
         /\ pages' = IF p = 0 THEN n ELSE p
         /\ live' = live \cup {[addr |-> p * PageSize + HeaderSize, size |-> size]}
  BY DEF kmalloc_page
<1>3. p = 0 \/ p = n + 1
  BY <1>1, Pages0
<1> HIDE DEF n
<1>4. CASE p = 0
  <2> DEFINE g == G(0)
  <2>1. /\ s.current = 0 => g = s.heap
        /\ ListInv(g, n)
        /\ \A L : PiecesInv(s.heap, n, L) => PiecesInv(g, n, L)
    BY <1>1, LinkNull
  <2>2. 0 * PageSize = 0 /\ 0 <= n * PageSize
    BY <1>1, PageIs, Layout
  <2>3. /\ heap' = g /\ current_block' = 0 /\ pages' = n
        /\ live' = live \cup {[addr |-> 0 * PageSize + HeaderSize, size |-> size]}
    BY <1>2, <1>4, <2>2
  <2> HIDE DEF g
  <2>4. ListsInv'
    BY <1>1, <2>1, <2>2, <2>3 DEF ListsInv
  <2>5. ASSUME HeldInv, size + HeaderSize <= PageSize PROVE HeldInv'
    <3>1. PiecesInv(g, n, live)
      BY <1>1, <2>1, <2>5
    <3>2. PiecesInv(heap', pages', live')
      BY <2>3, <2>5, <3>1, NullPiece
    <3>3. QED
      BY <3>2 DEF HeldInv
  <2>6. ASSUME heap # <<>>, current_block' = current_block PROVE heap' = heap
    BY <1>1, <2>1, <2>3, <2>6
  <2>7. QED
    BY <2>4, <2>5, <2>6
<1>5. CASE p = n + 1
  <2> DEFINE g == G(n + 1)
             a == (n + 1) * PageSize
             x == [addr |-> a + HeaderSize, size |-> size]
  <2>0. n + 1 # 0 /\ n + 1 \in Nat /\ a \in Nat /\ a <= a /\ a = n * PageSize + PageSize
        /\ n * PageSize \in Nat
    <3>1. n \in Nat /\ n + 1 \in Nat /\ n + 1 # 0
      BY <1>1
    <3>2. n * PageSize \in Nat /\ a = n * PageSize + PageSize
      BY <3>1, PageIs
    <3>3. QED
      BY <3>1, <3>2, Layout
  <2>1. \/ g = s.heap /\ \A k \in DOMAIN s.heap : s.heap[k].addr # a
        \/ /\ Len(g) \in Nat /\ Len(g) > 0 /\ g[Len(g)] = PageBlock(n + 1)
           /\ ListInv(g, n + 1)
           /\ \A L : PiecesInv(s.heap, n, L) => PiecesInv(g, n + 1, L)
    BY <1>1, LinkIs
  <2>2. /\ heap' = IF linked(n + 1) THEN Take(g, Len(g), size) ELSE g
        /\ current_block' = a /\ pages' = n + 1
        /\ live' = live \cup {x}
    BY <1>2, <1>5, <2>0
  <2>3. linked(n + 1) <=> g # <<>> /\ g[Len(g)].addr = a
    BY <2>0
  <2> HIDE DEF g, linked, G
  <2>4. ASSUME heap # <<>>, current_block' = current_block PROVE heap' = heap
    <3>1. current_block <= n * PageSize /\ current_block = a
      BY <1>1, <2>2, <2>4
    <3>2. QED
      BY <1>1, <2>0, <3>1, Layout
  <2>5. CASE g = s.heap /\ \A k \in DOMAIN s.heap : s.heap[k].addr # a
    <3>1. ~ linked(n + 1)
      <4>1. g \in Seq(Blocks)
        BY <1>1, <2>5 DEF ListInv
      <4>2. g # <<>> => Len(g) \in DOMAIN g
        BY <4>1
      <4>3. QED
        BY <2>3, <2>5, <4>2
    <3>2. heap' = s.heap
      BY <2>2, <2>5, <3>1
    <3>3. ListInv(heap', pages')
      BY <1>1, <2>2, <3>2, GrowKeeps
    <3>4. ListsInv'
      BY <2>0, <2>2, <3>3 DEF ListsInv
    <3>5. ASSUME HeldInv, size + HeaderSize <= PageSize PROVE HeldInv'
      <4>1. PiecesInv(heap', pages', live')
        BY <1>1, <2>2, <3>2, <3>5, UnlinkedPiece
      <4>2. QED
        BY <4>1 DEF HeldInv
    <3>6. QED
      BY <2>4, <3>4, <3>5
  <2>6. CASE /\ Len(g) \in Nat /\ Len(g) > 0 /\ g[Len(g)] = PageBlock(n + 1)
             /\ ListInv(g, n + 1)
             /\ \A L : PiecesInv(s.heap, n, L) => PiecesInv(g, n + 1, L)
    <3> DEFINE k == Len(g)
    <3>1. /\ g[k].addr = a /\ g[k].type = Free /\ g[k].size = PageSize - HeaderSize
      BY <2>6 DEF PageBlock
    <3>2. k \in DOMAIN g /\ g # <<>>
      <4>1. g \in Seq(Blocks)
        BY <2>6 DEF ListInv
      <4>2. QED
        BY <2>6, <4>1
    <3>3. heap' = Take(g, k, size)
      BY <2>2, <2>3, <3>1, <3>2
    <3> HIDE DEF k
    <3>4. ListInv(heap', pages')
      BY <2>0, <2>2, <2>6, <3>2, <3>3, TakeKeepsList
    <3>5. ListsInv'
      BY <2>0, <2>2, <3>4 DEF ListsInv
    <3>6. ASSUME HeldInv, size + HeaderSize <= PageSize PROVE HeldInv'
      <4>1. PiecesInv(g, n + 1, live)
        BY <1>1, <2>6, <3>6
      <4>2. g[k].size >= size
        BY <3>1, <3>6, Layout
      <4>3. x = [addr |-> g[k].addr + HeaderSize, size |-> size]
        BY <3>1
      <4>4. PiecesInv(Take(g, k, size), n + 1, live \cup {x})
        <5>1. PiecesInv(Take(g, k, size), n + 1,
                        live \cup {[addr |-> g[k].addr + HeaderSize, size |-> size]})
          BY <2>0, <2>6, <3>1, <3>2, <3>6, <4>1, <4>2, TakeKeepsPieces
        <5>2. QED
          BY <4>3, <5>1, Zenon
      <4>5. PiecesInv(heap', pages', live')
        BY <2>2, <3>3, <4>4
      <4>6. QED
        BY <4>5 DEF HeldInv
    <3>7. QED
      BY <2>4, <3>5, <3>6
  <2>7. QED
    BY <2>1, <2>5, <2>6
<1>6. QED
  BY <1>3, <1>4, <1>5

LEMMA MallocKeeps ==
    ASSUME ListsInv, NEW size \in Sizes, kmalloc(size)
    PROVE  /\ ListsInv'
           /\ HeldInv /\ FitPage => HeldInv'
           /\ current_block' = current_block
                 => \A m \in DOMAIN heap : \E l \in DOMAIN heap' : heap'[l].addr = heap[m].addr
           /\ live \subseteq live'
<1>1. size \in Nat /\ size > 0
  BY SizesAssumption DEF kmalloc
<1>2. PICK s \in FirstPage : kmalloc_best(s, size) \/ kmalloc_page(s, size)
  BY DEF kmalloc
<1>3. FitPage => size + HeaderSize <= PageSize
  BY DEF FitPage
<1>4. live \subseteq live'
  BY <1>2, Zenon DEF kmalloc_best, kmalloc_page
<1>5. heap = <<>> => DOMAIN heap = {}
  OBVIOUS
<1>6. CASE kmalloc_best(s, size)
  <2>1. /\ ListsInv' /\ (HeldInv /\ size + HeaderSize <= PageSize => HeldInv')
        /\ \A m \in DOMAIN s.heap : \E l \in DOMAIN heap' : heap'[l].addr = s.heap[m].addr
    BY <1>1, <1>6, BestKeeps
  <2>2. heap # <<>> => s.heap = heap
    BY FirstPageKeeps
  <2>3. QED
    BY <1>3, <1>4, <1>5, <2>1, <2>2
<1>7. CASE kmalloc_page(s, size)
  <2>1. /\ ListsInv' /\ (HeldInv /\ size + HeaderSize <= PageSize => HeldInv')
        /\ heap # <<>> /\ current_block' = current_block => heap' = heap
    BY <1>1, <1>7, PageKeeps
  <2>2. QED
    BY <1>3, <1>4, <1>5, <2>1
<1>8. QED
  BY <1>2, <1>6, <1>7

(* kfree(): the types of blocks change, and a piece less is held.          *)
LEMMA FreeKeeps ==
    ASSUME ListsInv, NEW x \in live, kfree(x)
    PROVE  /\ ListsInv'
           /\ HeldInv => HeldInv'
           /\ DOMAIN heap' = DOMAIN heap
           /\ \A k \in DOMAIN heap : heap'[k].addr = heap[k].addr
           /\ live' = live \ {x}
           /\ \A k \in DOMAIN heap : heap'[k].addr + HeaderSize = x.addr => heap'[k].type = Free
<1> DEFINE F(b) == IF b.addr + HeaderSize = x.addr THEN [b EXCEPT !.type = Free] ELSE b
<1>1. heap' = [k \in DOMAIN heap |-> F(heap[k])]
  BY DEF kfree
<1>2. live' = live \ {x} /\ pages' = pages /\ current_block' = current_block
  BY DEF kfree
<1>3. heap \in Seq(Blocks) /\ pages \in Nat
  BY DEF ListsInv, ListInv
<1>4. \A k \in DOMAIN heap : heap[k] \in Blocks
  BY <1>3, BlockType
<1>5. \A b \in Blocks : /\ F(b) \in Blocks /\ F(b).addr = b.addr /\ F(b).size = b.size
                        /\ (b.addr + HeaderSize = x.addr => F(b).type = Free)
                        /\ (b.addr + HeaderSize # x.addr => F(b) = b)
  BY DEF Blocks
<1> HIDE DEF F
<1>6. heap' \in Seq(Blocks) /\ DOMAIN heap' = DOMAIN heap
  <2>1. DOMAIN heap = 1 .. Len(heap) /\ Len(heap) \in Nat
    BY <1>3
  <2>2. heap' \in [1 .. Len(heap) -> Blocks]
    BY <1>1, <1>4, <1>5, <2>1
  <2>3. heap' \in Seq(Blocks)
    BY <2>1, <2>2
  <2>4. QED
    BY <1>1, <2>3
<1>7. \A k \in DOMAIN heap :
         /\ heap'[k].addr = heap[k].addr /\ heap'[k].size = heap[k].size
         /\ (heap[k].addr + HeaderSize = x.addr => heap'[k].type = Free)
         /\ (heap[k].addr + HeaderSize # x.addr => heap'[k] = heap[k])
  BY <1>1, <1>4, <1>5
<1>8. ListInv(heap', pages)
  <2>1. ListInv(heap, pages)
    BY DEF ListsInv
  <2>2. \A k \in DOMAIN heap' : InPage(heap'[k].addr, HeaderSize + heap'[k].size, pages)
    BY <1>6, <1>7, <2>1, Zenon DEF ListInv
  <2>3. \A k, l \in DOMAIN heap' :
           k # l => Apart(heap'[k].addr, HeaderSize + heap'[k].size,
                          heap'[l].addr, HeaderSize + heap'[l].size)
    <3> SUFFICES ASSUME NEW k \in DOMAIN heap, NEW l \in DOMAIN heap, k # l
                 PROVE  Apart(heap'[k].addr, HeaderSize + heap'[k].size,
                              heap'[l].addr, HeaderSize + heap'[l].size)
      BY <1>6, Zenon
    <3>1. Apart(heap[k].addr, HeaderSize + heap[k].size, heap[l].addr, HeaderSize + heap[l].size)
      BY <2>1, Zenon DEF ListInv
    <3>2. QED
      BY <1>7, <3>1, Zenon
  <2>4. QED
    BY <1>6, <2>2, <2>3, Zenon DEF ListInv
<1>9. ListsInv'
  BY <1>2, <1>8 DEF ListsInv
<1>10. ASSUME HeldInv PROVE HeldInv'
  <2>1. PiecesInv(heap, pages, live)
    BY <1>10 DEF HeldInv
  <2>2. Real(live') \subseteq Real(live) /\ \A y \in Real(live') : y # x
    BY <1>2 DEF Real
  <2>3. ASSUME NEW y \in Real(live'), NEW k \in DOMAIN heap
        PROVE  Knows(y, heap'[k])
    <3>1. Knows(y, heap[k])
      BY <2>1, <2>2 DEF PiecesInv
    <3>2. CASE Apart(y.addr, y.size, heap[k].addr, HeaderSize + heap[k].size)
      BY <1>7, <3>2, Zenon DEF Knows
    <3>3. CASE heap[k].addr + HeaderSize = y.addr /\ heap[k].type = Used /\ y.size <= heap[k].size
      <4>1. y.addr # x.addr
        <5>1. y.addr # HeaderSize /\ y \in Real(live)
          BY <2>2 DEF Real
        <5>2. CASE x.addr = HeaderSize
          BY <5>1, <5>2
        <5>3. CASE x.addr # HeaderSize
          <6>1. x \in Real(live)
            BY <5>3 DEF Real
          <6>2. Apart(y.addr, y.size, x.addr, x.size)
            BY <2>1, <2>2, <5>1, <6>1 DEF PiecesInv
          <6>3. /\ y.addr \in Nat /\ y.size \in Nat /\ y.size > 0
                /\ x.addr \in Nat /\ x.size \in Nat /\ x.size > 0
            BY <1>3, <2>1, <5>1, <6>1, PieceFacts
          <6>4. QED
            BY <6>2, <6>3 DEF Apart
        <5>4. QED
          BY <5>2, <5>3
      <4>2. heap'[k] = heap[k]
        BY <1>7, <3>3, <4>1
      <4>3. QED
        BY <3>1, <4>2
    <3>4. QED
      BY <3>1, <3>2, <3>3, Zenon DEF Knows
  <2>4. PiecesInv(heap', pages, live')
    <3>1. live' \subseteq Pieces
      BY <1>2, <2>1 DEF PiecesInv
    <3>2. \A y \in Real(live') :
             y.addr >= HeaderSize /\ InPage(y.addr - HeaderSize, HeaderSize + y.size, pages)
      BY <2>1, <2>2 DEF PiecesInv
    <3>3. \A y, w \in Real(live') : y # w => Apart(y.addr, y.size, w.addr, w.size)
      BY <2>1, <2>2 DEF PiecesInv
    <3>4. QED
      BY <1>6, <2>3, <3>1, <3>2, <3>3, Zenon DEF PiecesInv
  <2>5. QED
    BY <1>2, <2>4 DEF HeldInv
<1>11. QED
  BY <1>2, <1>6, <1>7, <1>9, <1>10

LEMMA ListsAreSound == Spec => []ListsInv
<1>1. Init => ListsInv
  BY EmptyList, PageIs, Layout DEF Init, ListsInv, NULL
<1>2. ListsInv /\ [Next]_vars => ListsInv'
  <2> SUFFICES ASSUME ListsInv, [Next]_vars PROVE ListsInv'
    OBVIOUS
  <2>1. CASE \E size \in Sizes : kmalloc(size)
    BY <2>1, MallocKeeps
  <2>2. CASE \E x \in live : kfree(x)
    BY <2>2, FreeKeeps
  <2>3. CASE UNCHANGED vars
    BY <2>3 DEF vars, ListsInv
  <2>4. QED
    BY <2>1, <2>2, <2>3 DEF Next
<1>3. QED
  BY <1>1, <1>2, PTL DEF Spec

LEMMA HeldIsSound ==
    ASSUME FitPage
    PROVE  Spec => []HeldInv
<1>1. Init => HeldInv
  <2> SUFFICES ASSUME Init PROVE HeldInv
    OBVIOUS
  <2>1. live = {} /\ Real({}) = {}
    BY DEF Init, Real
  <2>2. QED
    BY <2>1 DEF HeldInv, PiecesInv
<1>2. ListsInv /\ HeldInv /\ [Next]_vars => HeldInv'
  <2> SUFFICES ASSUME ListsInv, HeldInv, [Next]_vars PROVE HeldInv'
    OBVIOUS
  <2>1. CASE \E size \in Sizes : kmalloc(size)
    BY <2>1, MallocKeeps
  <2>2. CASE \E x \in live : kfree(x)
    BY <2>2, FreeKeeps
  <2>3. CASE UNCHANGED vars
    BY <2>3 DEF vars, HeldInv
  <2>4. QED
    BY <2>1, <2>2, <2>3 DEF Next
<1>3. QED
  BY <1>1, <1>2, ListsAreSound, PTL DEF Spec

(***************************************************************************)
(* kmalloc() and kfree(): whatever is asked for and freed, and whether     *)
(* allocate_page() fails or not, the blocks of the list stay inside the    *)
(* heap's pages and never overlap.                                         *)
(***************************************************************************)
THEOREM BlocksAreDisjoint == Spec => []BlocksDisjoint
<1>1. ListsInv => BlocksDisjoint
  <2> SUFFICES ASSUME ListsInv PROVE BlocksDisjoint
    OBVIOUS
  <2>1. pages \in Nat /\ ListInv(heap, pages)
    BY DEF ListsInv
  <2>2. \A k \in DOMAIN heap : heap[k].addr \in Nat /\ heap[k].size \in Nat
    BY <2>1, BlockFacts
  <2>3. ASSUME NEW k \in DOMAIN heap
        PROVE  WholeBlock(heap[k]) \subseteq PageSize .. (pages + 1) * PageSize - 1
    <3>1. /\ PageSize <= heap[k].addr
          /\ heap[k].addr + (HeaderSize + heap[k].size) <= (pages + 1) * PageSize
      BY <2>1, BlockFacts
    <3>2. (pages + 1) * PageSize \in Nat
      BY <2>1, PageIs, pages + 1 \in Nat
    <3>3. QED
      BY <2>2, <3>1, <3>2, Layout DEF WholeBlock
  <2>4. ASSUME NEW k \in DOMAIN heap, NEW l \in DOMAIN heap, k # l
        PROVE  WholeBlock(heap[k]) \cap WholeBlock(heap[l]) = {}
    <3>1. Apart(heap[k].addr, HeaderSize + heap[k].size, heap[l].addr, HeaderSize + heap[l].size)
      BY <2>1, <2>4 DEF ListInv
    <3>2. QED
      BY <2>2, <3>1, Layout DEF WholeBlock, Apart
  <2>5. QED
    BY <2>3, <2>4 DEF BlocksDisjoint
<1>2. QED
  BY <1>1, ListsAreSound, PTL

(***************************************************************************)
(* kmalloc() and kfree(): as long as nobody asks for more than a page      *)
(* holds behind a header, what a caller holds overlaps neither another     *)
(* caller's memory nor a header or a free block of the list; also when its *)
(* own block has fallen off the list.                                      *)
(***************************************************************************)
THEOREM PiecesAreExclusive ==
    ASSUME FitPage
    PROVE  Spec => []PiecesExclusive
<1>1. ListsInv /\ HeldInv => PiecesExclusive
  <2> SUFFICES ASSUME ListsInv, HeldInv, NEW x \in live, x.addr >= PageSize
               PROVE  /\ \E p \in 1 .. pages :
                            Payload(x) \subseteq p * PageSize .. (p + 1) * PageSize - 1
                      /\ \A y \in live : x # y => Payload(x) \cap Payload(y) = {}
                      /\ \A k \in DOMAIN heap :
                            \/ Payload(x) \cap WholeBlock(heap[k]) = {}
                            \/ heap[k].addr + HeaderSize = x.addr /\ heap[k].type = Used
    BY DEF PiecesExclusive
  <2>1. /\ pages \in Nat /\ ListInv(heap, pages) /\ PiecesInv(heap, pages, live)
    BY DEF ListsInv, HeldInv
  <2>2. \A y \in live : y \in Pieces /\ y.addr \in Nat /\ y.size \in Nat
    BY <2>1 DEF PiecesInv, Pieces
  <2>3. x \in Real(live)
    BY <2>2, Layout DEF Real
  <2>4. x.addr \in Nat /\ x.size \in Nat /\ x.size > 0 /\ x.addr >= PageSize + HeaderSize
    BY <2>1, <2>3, PieceFacts
  <2>5. \E p \in 1 .. pages : Payload(x) \subseteq p * PageSize .. (p + 1) * PageSize - 1
    <3>1. PICK p \in 1 .. pages :
             /\ p * PageSize <= x.addr - HeaderSize
             /\ (x.addr - HeaderSize) + (HeaderSize + x.size) <= (p + 1) * PageSize
      BY <2>1, <2>3 DEF PiecesInv, InPage
    <3>2. p * PageSize \in Nat /\ (p + 1) * PageSize \in Nat
      BY PageIs, Layout
    <3>3. Payload(x) \subseteq p * PageSize .. (p + 1) * PageSize - 1
      BY <2>4, <3>1, <3>2, Layout DEF Payload
    <3>4. QED
      BY <3>3
  <2>6. ASSUME NEW y \in live, x # y PROVE Payload(x) \cap Payload(y) = {}
    <3>1. CASE y \in Real(live)
      <4>1. Apart(x.addr, x.size, y.addr, y.size)
        BY <2>1, <2>3, <2>6, <3>1 DEF PiecesInv
      <4>2. QED
        BY <2>2, <4>1 DEF Apart, Payload
    <3>2. CASE y \notin Real(live)
      <4>1. y.addr = HeaderSize /\ y.size <= PageSize - HeaderSize /\ y.size \in Nat
        BY <2>2, <3>2, Layout DEF Real, Pieces
      <4>2. QED
        BY <2>4, <4>1, Layout DEF Payload
    <3>3. QED
      BY <3>1, <3>2
  <2>7. ASSUME NEW k \in DOMAIN heap
        PROVE  \/ Payload(x) \cap WholeBlock(heap[k]) = {}
               \/ heap[k].addr + HeaderSize = x.addr /\ heap[k].type = Used
    <3>1. Knows(x, heap[k])
      BY <2>1, <2>3 DEF PiecesInv
    <3>2. heap[k].addr \in Nat /\ heap[k].size \in Nat
      BY <2>1, BlockFacts
    <3>3. CASE Apart(x.addr, x.size, heap[k].addr, HeaderSize + heap[k].size)
      BY <2>4, <3>2, <3>3, Layout DEF Apart, Payload, WholeBlock
    <3>4. QED
      BY <3>1, <3>3, Zenon DEF Knows
  <2>8. QED
    BY <2>5, <2>6, <2>7
<1>2. QED
  BY <1>1, ListsAreSound, HeldIsSound, PTL

(***************************************************************************)
(* kmalloc() and kfree(): only a new page takes blocks off the list, and   *)
(* a block that is freed is free.                                          *)
(***************************************************************************)
THEOREM ListIsKept == Spec => ListKept
<1> DEFINE Kept ==
        current_block' = current_block =>
          /\ {heap[k].addr : k \in DOMAIN heap} \subseteq {heap'[k].addr : k \in DOMAIN heap'}
          /\ \A x \in live \ live' : \A k \in DOMAIN heap' :
                heap'[k].addr + HeaderSize = x.addr => heap'[k].type = Free
<1>1. ListsInv /\ [Next]_vars => [Kept]_vars
  <2> SUFFICES ASSUME ListsInv, Next PROVE Kept
    BY DEF vars
  <2>1. CASE \E size \in Sizes : kmalloc(size)
    <3>1. /\ current_block' = current_block
                => \A m \in DOMAIN heap : \E l \in DOMAIN heap' : heap'[l].addr = heap[m].addr
          /\ live \subseteq live'
      BY <2>1, MallocKeeps
    <3>2. QED
      BY <3>1
  <2>2. CASE \E x \in live : kfree(x)
    <3>1. PICK x \in live : kfree(x)
      BY <2>2
    <3>2. /\ DOMAIN heap' = DOMAIN heap
          /\ \A k \in DOMAIN heap : heap'[k].addr = heap[k].addr
          /\ live' = live \ {x}
          /\ \A k \in DOMAIN heap : heap'[k].addr + HeaderSize = x.addr => heap'[k].type = Free
      BY <3>1, FreeKeeps
    <3>3. QED
      BY <3>2
  <2>3. QED
    BY <2>1, <2>2 DEF Next
<1>2. QED
  BY <1>1, ListsAreSound, PTL DEF Spec, ListKept
=============================================================================
