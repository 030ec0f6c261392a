----------------------------- MODULE ExecProofs -----------------------------
(***************************************************************************)
(* Proofs about Exec, for every machine, every set of programs and every   *)
(* number of processes.  PhysMemProofs is extended for its lemmas about    *)
(* the operators of FrameMap; its variables do not occur here.             *)
(*                                                                         *)
(* MemInv(m, O) is what holds of the memory m when the pages O belong to   *)
(* the heap and to stacks; Grown(m, n, M) says that n is m with new frames *)
(* for the pages M, and Call(m, O, n, P) that a call of the virtual page   *)
(* allocator led from m to n.  The lemmas show, from map_page() up to      *)
(* elf_load_file() and create_process(), that every operation is one of    *)
(* these, and that these keep MemInv.  ExecInv adds the processes and the  *)
(* program that was loaded last.                                           *)
(***************************************************************************)
EXTENDS Exec, PhysMemProofs

-----------------------------------------------------------------------------
(* Pages and their offsets.                                                *)

\* Division with remainder.
LEMMA Quotient ==
    ASSUME NEW p \in Nat \ {0}, NEW a \in Nat
    PROVE  a \div p \in Nat /\ a % p \in 0 .. p - 1 /\ a = p * (a \div p) + (a % p)
<1>1. a % p \in 0 .. p - 1 /\ a \div p \in Int
  OBVIOUS
<1>2. a = p * (a \div p) + (a % p)
  OBVIOUS
<1>3. a \div p >= 0
  OBVIOUS
<1>4. QED
  BY <1>1, <1>2, <1>3

\* A product grows by at least one factor with the other.
LEMMA TimesMonotone ==
    ASSUME NEW p \in Nat, NEW q \in Nat, NEW k \in Nat, q < k
    PROVE  p * q + p <= p * k
<1>1. p * k = p * q + p * (k - q)
  OBVIOUS
<1>2. p * (k - q) = p + p * (k - q - 1) /\ p * (k - q - 1) >= 0
  <2>1. k - q - 1 >= 0 /\ k - q - 1 \in Int
    OBVIOUS
  <2>2. QED
    BY <2>1
<1>3. QED
  BY <1>1, <1>2

\* A page and the offset in it make the address.
LEMMA DivideIs ==
    ASSUME NEW a \in Nat
    PROVE  /\ PageOf(a) \in Nat /\ a % PageSize \in 0 .. PageSize - 1
           /\ a = PageSize * PageOf(a) + (a % PageSize)
BY Quotient, PageSizeAssumption DEF PageOf

\* A later page starts at or behind the end of an earlier one.
LEMMA TimesOrder ==
    ASSUME NEW q \in Nat, NEW k \in Nat, q < k
    PROVE  PageSize * q + PageSize <= PageSize * k
BY TimesMonotone, PageSizeAssumption

\* Page and offset are determined by the address.
LEMMA SameQuotient ==
    ASSUME NEW q \in Nat, NEW k \in Nat,
           NEW x \in 0 .. PageSize - 1, NEW y \in 0 .. PageSize - 1,
           PageSize * q + x = PageSize * k + y
    PROVE  q = k /\ x = y
<1>0. PageSize \in Nat /\ PageSize * q \in Nat /\ PageSize * k \in Nat
  BY PageSizeAssumption
<1>1. ~ (q < k)
  <2> SUFFICES ASSUME q < k PROVE FALSE
    OBVIOUS
  <2>1. PageSize * q + PageSize <= PageSize * k
    BY TimesOrder
  <2>2. QED
    BY <1>0, <2>1
<1>2. ~ (k < q)
  <2> SUFFICES ASSUME k < q PROVE FALSE
    OBVIOUS
  <2>1. PageSize * k + PageSize <= PageSize * q
    BY TimesOrder
  <2>2. QED
    BY <1>0, <2>1
<1>3. q = k
  BY <1>1, <1>2
<1>4. QED
  BY <1>0, <1>3

\* What page and offset are made of gives them back.
LEMMA DivideTimes ==
    ASSUME NEW q \in Nat, NEW x \in 0 .. PageSize - 1
    PROVE  PageOf(PageSize * q + x) = q /\ (PageSize * q + x) % PageSize = x
<1>0. PageSize \in Nat /\ PageSize * q + x \in Nat
  BY PageSizeAssumption
<1> DEFINE a == PageSize * q + x
<1> HIDE DEF a
<1>1. a \in Nat /\ a = PageSize * q + x
  BY <1>0 DEF a
<1>2. /\ PageOf(a) \in Nat /\ a % PageSize \in 0 .. PageSize - 1
      /\ a = PageSize * PageOf(a) + (a % PageSize)
  BY <1>1, DivideIs
<1>3. q = PageOf(a) /\ x = a % PageSize
  BY <1>1, <1>2, SameQuotient
<1>4. QED
  BY <1>3 DEF a

\* The start of a page is a multiple of PageSize.
LEMMA AlignedIs ==
    ASSUME NEW a \in Nat, a % PageSize = 0
    PROVE  PageOf(a) \in Nat /\ a = PageSize * PageOf(a)
<1>1. /\ PageOf(a) \in Nat
      /\ a = PageSize * PageOf(a) + (a % PageSize)
  BY DivideIs
<1>2. PageSize * PageOf(a) \in Int
  BY <1>1, PageSizeAssumption
<1>3. QED
  BY <1>1, <1>2

\* A page behind the start of a page starts the next one.
LEMMA AlignedStep ==
    ASSUME NEW a \in Nat, a % PageSize = 0
    PROVE  (a + PageSize) % PageSize = 0
<1>1. PageSize \in Nat /\ PageSize > 0
  BY PageSizeAssumption
<1>2. PageOf(a) \in Nat /\ a = PageSize * PageOf(a)
  BY AlignedIs
<1>3. a + PageSize = PageSize * (PageOf(a) + 1) + 0
  BY <1>1, <1>2
<1>4. PageOf(a) + 1 \in Nat /\ 0 \in 0 .. PageSize - 1
  BY <1>1, <1>2
<1>5. (PageSize * (PageOf(a) + 1) + 0) % PageSize = 0
  BY <1>4, DivideTimes
<1>6. QED
  BY <1>3, <1>5

(* Aligned frames: an address in one names the frame and the offset.       *)
LEMMA SameUnit ==
    ASSUME NEW a \in Nat, NEW b \in Nat, a % PageSize = 0, b % PageSize = 0,
           NEW x \in 0 .. PageSize - 1, NEW y \in 0 .. PageSize - 1, a + x = b + y
    PROVE  a = b /\ x = y
<1>1. PageSize \in Nat
  BY PageSizeAssumption
<1>2. /\ PageOf(a) \in Nat /\ a = PageSize * PageOf(a)
      /\ PageOf(b) \in Nat /\ b = PageSize * PageOf(b)
  BY AlignedIs
<1>3. PageOf(a) = PageOf(b) /\ x = y
  <2>1. PageSize * PageOf(a) + x = PageSize * PageOf(b) + y
    BY <1>2
  <2>2. QED
    BY <1>2, <2>1, SameQuotient
<1>4. QED
  BY <1>2, <1>3

\* All units of a frame are on its page.
LEMMA UnitInFrame ==
    ASSUME NEW a \in Nat, a % PageSize = 0, NEW x \in 0 .. PageSize - 1
    PROVE  PageOf(a + x) = PageOf(a)
<1>1. PageOf(a) \in Nat /\ a = PageSize * PageOf(a)
  BY AlignedIs
<1>2. PageOf(PageSize * PageOf(a) + x) = PageOf(a)
  BY <1>1, DivideTimes
<1>3. QED
  BY <1>1, <1>2

\* The flag bits of a frame's address are clear.
LEMMA MaskedIs ==
    ASSUME NEW a \in Nat, a % PageSize = 0
    PROVE  Masked(a) = a
BY DEF Masked
-----------------------------------------------------------------------------
(* The memory map: free memory consists of whole page boundaries below     *)
(* 4 GiB, and what is used was reserved from the start or is a frame.      *)

FrameAddrs == {a \in Nat : a # 0 /\ a % PageSize = 0 /\ a + PageSize <= AddrLimit}

Reserved == UsedBases(InitialMap)

SoundMap(c) ==
    /\ WellFormed(c)
    /\ Inside(c, 0 .. AddrLimit - 1)
    /\ \A k \in 1 .. Len(c) : c[k].type = Usable => c[k].base % PageSize = 0
    /\ \A k \in 1 .. Len(c) : c[k].type = Used =>
          c[k].base \in Reserved \/ (c[k].length = PageSize /\ c[k].base \in FrameAddrs)
    /\ Reserved \subseteq UsedBases(c)

\* Which addresses are in use, by entry.
LEMMA UsedBasesIs ==
    ASSUME NEW c \in Seq(Entries), NEW a
    PROVE  a \in UsedBases(c) <=> \E k \in 1 .. Len(c) : c[k].type = Used /\ c[k].base = a
<1>1. DOMAIN c = 1 .. Len(c)
  BY Fields
<1>2. QED
  BY <1>1 DEF UsedBases

(* Entries with the same base are the same.                                *)
LEMMA OneEntryPerBase ==
    ASSUME NEW c, WellFormed(c), NEW k \in 1 .. Len(c), NEW l \in 1 .. Len(c),
           c[k].base = c[l].base
    PROVE  k = l
<1>1. /\ c[k].base \in Nat /\ c[k].length \in Nat /\ c[k].length > 0
      /\ c[l].base \in Nat /\ c[l].length \in Nat /\ c[l].length > 0
  BY MapFacts
<1>2. QED
  BY <1>1, EntriesApart

(* Best fit returns a frame that nobody has, or changes nothing.           *)
LEMMA AllocateSound ==
    ASSUME NEW c, SoundMap(c)
    PROVE  /\ SoundMap(allocate(c).map)
           /\ \/ allocate(c).addr = 0 /\ allocate(c).map = c
              \/ /\ allocate(c).addr \in FrameAddrs
                 /\ allocate(c).addr \notin UsedBases(c)
                 /\ UsedBases(allocate(c).map) = UsedBases(c) \cup {allocate(c).addr}
<1>1. CASE ~ CanAllocate(c)
  <2>1. allocate(c).map = c /\ allocate(c).addr = 0
    BY <1>1 DEF allocate
  <2>2. QED
    BY <2>1
<1>2. CASE CanAllocate(c)
  <2> DEFINE b == best(c)
             n == Carve(c, b)
             a == c[b].base
  <2>1. WellFormed(c) /\ c \in Seq(Entries)
    BY DEF SoundMap, WellFormed
  <2>2. b \in Fits(c)
    BY <1>2, <2>1, BestFits DEF CanAllocate
  <2>3. /\ b \in 1 .. Len(c) /\ a # 0 /\ c[b].length >= PageSize /\ c[b].type = Usable
        /\ a \in Nat /\ c[b].length \in Nat /\ c[b].length > 0
    BY <2>1, <2>2, Fields, MapFacts DEF Fits
  <2> HIDE DEF b
  <2>4. PageSize \in Nat /\ PageSize > 0 /\ AddrLimit \in Nat /\ AddrLimit > 0
    BY PageSizeAssumption, AddrLimitAssumption
  <2>5. a + c[b].length <= AddrLimit
    <3>1. Inside(c, 0 .. AddrLimit - 1)
      BY DEF SoundMap
    <3>2. (a + c[b].length) - 1 \in Nat /\ a <= (a + c[b].length) - 1
          /\ (a + c[b].length) - 1 < a + c[b].length
      BY <2>3
    <3>3. (a + c[b].length) - 1 \in 0 .. AddrLimit - 1
      BY <2>3, <3>1, <3>2 DEF Inside
    <3>4. QED
      BY <2>3, <2>4, <3>3
  <2>6. a % PageSize = 0
    BY <2>3 DEF SoundMap
  <2>7. a \in FrameAddrs
    BY <2>3, <2>4, <2>5, <2>6 DEF FrameAddrs
  <2>8. a % AddrLimit = a
    <3>1. a < AddrLimit /\ a \in Nat
      BY <2>3, <2>4, <2>5
    <3> HIDE DEF a
    <3>2. QED
      BY <2>4, <3>1
  <2>9. allocate(c).map = n /\ allocate(c).addr = a
    BY <1>2, <2>8 DEF allocate, b
  <2>10. /\ WellFormed(n)
    BY <2>1, <2>2, CarveKeeps
  <2>11. /\ KeepsTaken(c, n) /\ Inside(n, 0 .. AddrLimit - 1)
    BY <2>1, <2>2, CarveKeepsTaken DEF SoundMap
  <2>12. /\ b \in 1 .. Len(n) /\ n[b] = UsedPart(c[b])
         /\ \A k \in 1 .. Len(n) : \/ n[k] = UsedPart(c[b])
                                   \/ n[k] = RestPart(c[b])
                                   \/ \E l \in 1 .. Len(c) : n[k] = c[l]
    BY <2>1, <2>3, CarveOthers
  <2>13. /\ UsedPart(c[b]).base = a /\ UsedPart(c[b]).length = PageSize /\ UsedPart(c[b]).type = Used
         /\ RestPart(c[b]).base = a + PageSize /\ RestPart(c[b]).type = Usable
         /\ Used # Usable
    BY DEF UsedPart, RestPart, Used, Usable
  <2>14. (a + PageSize) % PageSize = 0
    BY <2>3, <2>6, AlignedStep
  <2>15. n \in Seq(Entries)
    BY <2>10 DEF WellFormed
  <2> HIDE DEF n, a
  <2>16. a \notin UsedBases(c)
    <3> SUFFICES ASSUME a \in UsedBases(c) PROVE FALSE
      OBVIOUS
    <3>1. PICK k \in 1 .. Len(c) : c[k].type = Used /\ c[k].base = a
      BY <2>1, UsedBasesIs
    <3>2. k = b
      BY <2>1, <2>3, <3>1, OneEntryPerBase DEF a
    <3>3. QED
      BY <2>3, <2>13, <3>1, <3>2
  <2>17. UsedBases(n) = UsedBases(c) \cup {a}
    <3>1. ASSUME NEW x \in UsedBases(n) PROVE x \in UsedBases(c) \cup {a}
      <4>1. PICK k \in 1 .. Len(n) : n[k].type = Used /\ n[k].base = x
        BY <2>15, UsedBasesIs
      <4>2. CASE n[k] = UsedPart(c[b])
        BY <4>1, <4>2, <2>13
      <4>3. CASE n[k] = RestPart(c[b])
        BY <4>1, <4>3, <2>13
      <4>4. CASE \E l \in 1 .. Len(c) : n[k] = c[l]
        BY <2>1, <4>1, <4>4, UsedBasesIs
      <4>5. QED
        BY <2>12, <4>2, <4>3, <4>4
    <3>2. ASSUME NEW x \in UsedBases(c) PROVE x \in UsedBases(n)
      <4>1. PICK l \in 1 .. Len(c) : c[l].type = Used /\ c[l].base = x
        BY <2>1, UsedBasesIs
      <4>2. PICK k \in 1 .. Len(n) : n[k] = c[l]
        BY <2>11, <2>13, <4>1 DEF KeepsTaken
      <4>3. QED
        BY <2>15, <4>1, <4>2, UsedBasesIs
    <3>3. a \in UsedBases(n)
      BY <2>12, <2>13, <2>15, UsedBasesIs
    <3>4. QED
      BY <3>1, <3>2, <3>3
  <2>18. \A k \in 1 .. Len(n) : n[k].type = Usable => n[k].base % PageSize = 0
    BY <2>12, <2>13, <2>14 DEF SoundMap
  <2>19. \A k \in 1 .. Len(n) : n[k].type = Used =>
            n[k].base \in Reserved \/ (n[k].length = PageSize /\ n[k].base \in FrameAddrs)
    BY <2>7, <2>12, <2>13 DEF SoundMap
  <2>20. SoundMap(n)
    BY <2>10, <2>11, <2>17, <2>18, <2>19 DEF SoundMap
  <2>21. QED
    BY <2>7, <2>9, <2>16, <2>17, <2>20
<1>3. QED
  BY <1>1, <1>2

(* The entries of a merged map start where entries of the old map did.     *)
StartsFrom(c, m) ==
    \A k \in 1 .. Len(c) : \E l \in 1 .. Len(m) : c[k].base = m[l].base /\ c[k].type = m[l].type

\* Merging neighbours, as free() does, makes no new start of an entry.
LEMMA MergeStarts ==
    ASSUME NEW m, WellFormed(m), NEW n \in 1 .. Len(m) - 1
    PROVE  StartsFrom(Merge(m, n), m)
<1>1. m \in Seq(Entries) /\ Len(m) \in Nat
  BY Fields DEF WellFormed
<1>2. ASSUME NEW k \in 1 .. Len(Merge(m, n))
      PROVE  \E l \in 1 .. Len(m) :
                Merge(m, n)[k].base = m[l].base /\ Merge(m, n)[k].type = m[l].type
  <2> DEFINE c == Merge(m, n)
  <2>0. /\ Len(c) = Len(m) - 1
        /\ \A j \in 1 .. Len(m) - 1 :
              c[j] = IF j < n THEN m[j]
                     ELSE IF j = n THEN Joined(m[n], m[n + 1]) ELSE m[j + 1]
    BY <1>1, MergeIs, Zenon
  <2>1. /\ Len(Merge(m, n)) = Len(m) - 1
        /\ Merge(m, n)[k] = IF k < n THEN m[k]
                            ELSE IF k = n THEN Joined(m[n], m[n + 1]) ELSE m[k + 1]
    <3> HIDE DEF c
    <3>1. k \in 1 .. Len(m) - 1
      BY <1>2, <2>0 DEF c
    <3>2. QED
      BY <2>0, <3>1, Zenon DEF c
  <2>2. k \in 1 .. Len(m) /\ k + 1 \in 1 .. Len(m)
    BY <1>1, <1>2, <2>1
  <2>3. Joined(m[n], m[n + 1]).base = m[n].base /\ Joined(m[n], m[n + 1]).type = m[n].type
    BY DEF Joined
  <2>4. QED
    BY <2>1, <2>2, <2>3
<1>3. QED
  BY <1>2 DEF StartsFrom

\* Nor does looking at the entry behind,
LEMMA MergeNextStarts ==
    ASSUME NEW m, WellFormed(m), NEW n \in 1 .. Len(m)
    PROVE  StartsFrom(MergeNext(m, n), m)
<1>1. Len(m) \in Nat
  BY MapFacts
<1>2. CASE n < Len(m) /\ Mergeable(m, n)
  <2>1. n \in 1 .. Len(m) - 1
    BY <1>1, <1>2
  <2>2. QED
    BY <1>2, <2>1, MergeStarts DEF MergeNext
<1>3. CASE ~ (n < Len(m) /\ Mergeable(m, n))
  BY <1>3 DEF MergeNext, StartsFrom
<1>4. QED
  BY <1>2, <1>3

\* nor looking at both neighbours.
LEMMA MergeAroundStarts ==
    ASSUME NEW m, WellFormed(m), NEW n \in 1 .. Len(m)
    PROVE  StartsFrom(MergeAround(m, n), m)
<1>1. Len(m) \in Nat
  BY MapFacts
<1>2. CASE n > 1 /\ Mergeable(m, n - 1)
  <2>1. n - 1 \in 1 .. Len(m) - 1
    BY <1>1, <1>2
  <2>2. WellFormed(Merge(m, n - 1)) /\ Len(Merge(m, n - 1)) = Len(m) - 1
    BY <1>2, <2>1, MergeKeeps
  <2>3. StartsFrom(Merge(m, n - 1), m)
    BY <2>1, MergeStarts
  <2>4. StartsFrom(MergeNext(Merge(m, n - 1), n - 1), Merge(m, n - 1))
    BY <2>1, <2>2, MergeNextStarts
  <2>5. StartsFrom(MergeNext(Merge(m, n - 1), n - 1), m)
    BY <2>3, <2>4 DEF StartsFrom
  <2>6. QED
    BY <1>2, <2>5 DEF MergeAround
<1>3. CASE ~ (n > 1 /\ Mergeable(m, n - 1))
  BY <1>3, MergeNextStarts DEF MergeAround
<1>4. QED
  BY <1>2, <1>3

(* A frame that comes back is free again, and nothing else has changed.    *)
LEMMA FreeSound ==
    ASSUME NEW c, SoundMap(c), NEW a \in UsedBases(c) \ Reserved
    PROVE  /\ SoundMap(free(c, a))
           /\ UsedBases(free(c, a)) = UsedBases(c) \ {a}
           /\ a \in FrameAddrs
<1> DEFINE f == free(c, a)
<1>1. WellFormed(c) /\ c \in Seq(Entries)
  BY DEF SoundMap, WellFormed
<1>2. PICK k \in 1 .. Len(c) : c[k].type = Used /\ c[k].base = a
  BY <1>1, UsedBasesIs
<1>3. c[k].length = PageSize /\ a \in FrameAddrs
  BY <1>2 DEF SoundMap
<1>4. a \in Nat /\ a % PageSize = 0 /\ a + PageSize <= AddrLimit
  BY <1>3 DEF FrameAddrs
<1>5. c[k] = [base |-> a, length |-> PageSize, type |-> Used]
  BY <1>1, <1>2, <1>3, Fields, EntryFields
<1>6. PageSize \in Nat /\ AddrLimit \in Nat
  BY PageSizeAssumption, AddrLimitAssumption
<1>7. /\ Inside(f, 0 .. AddrLimit - 1)
      /\ \A l \in 1 .. Len(c) : c[l].type # Usable /\ c[l].base # a =>
            \E j \in 1 .. Len(f) : f[j] = c[l]
  <2>1. a .. a + PageSize - 1 \subseteq 0 .. AddrLimit - 1
    BY <1>4, <1>6
  <2>2. Inside(c, 0 .. AddrLimit - 1)
    BY DEF SoundMap
  <2>3. \E n \in 1 .. Len(c) : c[n] = [base |-> a, length |-> PageSize, type |-> Used]
    BY <1>5
  <2> DEFINE U == 0 .. AddrLimit - 1
  <2> HIDE DEF U
  <2>4. Inside(c, U) /\ a .. a + PageSize - 1 \subseteq U
    BY <2>1, <2>2 DEF U
  <2>5. /\ Inside(f, U)
        /\ \A l \in 1 .. Len(c) : c[l].type # Usable /\ c[l].base # a =>
              \E j \in 1 .. Len(f) : f[j] = c[l]
    BY <1>1, <1>4, <2>3, <2>4, FreeKeepsTaken
  <2>6. QED
    BY <2>5 DEF U
<1>8. WellFormed(f) /\ f \in Seq(Entries)
  <2>1. WellFormed(f)
    BY <1>1, FreeKeeps
  <2>2. QED
    BY <2>1 DEF WellFormed
<1>9. \A l \in 1 .. Len(f) : f[l].type # Usable =>
         \E j \in 1 .. Len(c) : c[j] = f[l] /\ c[j].base # a
  BY <1>1, <1>4, <1>5, FreeAvail
<1>10. \A l \in 1 .. Len(f) : \E j \in 1 .. Len(c) :
          f[l].base = c[j].base /\ (f[l].type = c[j].type \/ c[j].base = a)
  <2>1. PICK n \in 1 .. Len(c) : c[n].base = a /\ f = MergeAround(Retyped(c, n), n)
    <3>1. \/ free(c, a) = c /\ \A l \in 1 .. Len(c) : c[l].base # a
          \/ \E n \in 1 .. Len(c) : /\ c[n].base = a
                                    /\ free(c, a) = MergeAround(Retyped(c, n), n)
      BY <1>1, FreeIs
    <3>2. QED
      BY <1>2, <3>1, Zenon
  <2>2. /\ WellFormed(Retyped(c, n)) /\ Len(Retyped(c, n)) = Len(c)
        /\ \A j \in 1 .. Len(c) : /\ j # n => Retyped(c, n)[j] = c[j]
                                  /\ Retyped(c, n)[j].base = c[j].base
    BY <1>1, RetypeKeeps
  <2>3. StartsFrom(f, Retyped(c, n))
    BY <2>1, <2>2, MergeAroundStarts
  <2> HIDE DEF f
  <2>4. ASSUME NEW l \in 1 .. Len(f)
        PROVE  \E j \in 1 .. Len(c) :
                  f[l].base = c[j].base /\ (f[l].type = c[j].type \/ c[j].base = a)
    <3>1. PICK j \in 1 .. Len(c) : f[l].base = Retyped(c, n)[j].base /\ f[l].type = Retyped(c, n)[j].type
      BY <2>2, <2>3 DEF StartsFrom
    <3>2. f[l].base = c[j].base /\ (f[l].type = c[j].type \/ c[j].base = a)
      BY <2>1, <2>2, <3>1
    <3>3. QED
      BY <3>2
  <2>5. QED
    BY <2>4
<1> HIDE DEF f
<1>11. Used # Usable
  BY DEF Used, Usable
<1>12. UsedBases(f) = UsedBases(c) \ {a}
  <2>1. ASSUME NEW x \in UsedBases(f) PROVE x \in UsedBases(c) \ {a}
    <3>1. PICK l \in 1 .. Len(f) : f[l].type = Used /\ f[l].base = x
      BY <1>8, UsedBasesIs
    <3>2. PICK j \in 1 .. Len(c) : c[j] = f[l] /\ c[j].base # a
      BY <1>9, <1>11, <3>1
    <3>3. QED
      BY <1>1, <3>1, <3>2, UsedBasesIs
  <2>2. ASSUME NEW x \in UsedBases(c) \ {a} PROVE x \in UsedBases(f)
    <3>1. PICK l \in 1 .. Len(c) : c[l].type = Used /\ c[l].base = x
      BY <1>1, UsedBasesIs
    <3>2. PICK j \in 1 .. Len(f) : f[j] = c[l]
      BY <1>7, <1>11, <3>1
    <3>3. QED
      BY <1>8, <3>1, <3>2, UsedBasesIs
  <2>3. QED
    BY <2>1, <2>2
<1>13. \A l \in 1 .. Len(f) : f[l].type = Usable => f[l].base % PageSize = 0
  <2> SUFFICES ASSUME NEW l \in 1 .. Len(f), f[l].type = Usable PROVE f[l].base % PageSize = 0
    OBVIOUS
  <2>1. PICK j \in 1 .. Len(c) : f[l].base = c[j].base /\ (f[l].type = c[j].type \/ c[j].base = a)
    BY <1>10
  <2>2. QED
    BY <1>4, <2>1 DEF SoundMap
<1>14. \A l \in 1 .. Len(f) : f[l].type = Used =>
          f[l].base \in Reserved \/ (f[l].length = PageSize /\ f[l].base \in FrameAddrs)
  BY <1>9, <1>11 DEF SoundMap
<1>15. SoundMap(f)
  BY <1>7, <1>8, <1>12, <1>13, <1>14 DEF SoundMap
<1>16. QED
  BY <1>3, <1>12, <1>15 DEF f
-----------------------------------------------------------------------------
(* The memory of Paging.                                                   *)

Addresses == Nat \cup {None}
Dirs == 0 .. Tables - 1

Memories ==
    [map : Seq(Entries), dir : [Dirs -> Addresses], pte : [Pages -> Addresses],
     user : SUBSET Int, next_virtual : Nat, free_virtual : Seq(Nat), stale : SUBSET Int,
     status : {"ok", "fault", "astray"}, table : Nat, short : BOOLEAN]

\* The first directory entry is for the pages below TablePages, and no other.
LEMMA DirIs ==
    ASSUME NEW v \in Pages
    PROVE  /\ Dir(v) \in Dirs /\ v \in Nat
           /\ v < TablePages => Dir(v) = 0
           /\ v >= TablePages => Dir(v) # 0
<1>1. TablePages \in Nat \ {0} /\ Tables \in Nat \ {0} /\ TablePages * Tables \in Nat
  BY TablesAssumption
<1>2. v \in Nat /\ v < TablePages * Tables
  BY <1>1 DEF Pages
<1>3. /\ Dir(v) \in Nat /\ v % TablePages \in 0 .. TablePages - 1
      /\ v = TablePages * Dir(v) + (v % TablePages)
  BY <1>1, <1>2, Quotient DEF Dir
<1>4. Dir(v) < Tables
  <2> SUFFICES ASSUME ~ (Dir(v) < Tables) PROVE FALSE
    OBVIOUS
  <2>1. TablePages * Tables <= TablePages * Dir(v)
    <3>1. CASE Dir(v) = Tables
      BY <1>1, <3>1
    <3>2. CASE Tables < Dir(v)
      <4>1. TablePages * Tables + TablePages <= TablePages * Dir(v)
        BY <1>1, <1>3, <3>2, TimesMonotone
      <4>2. TablePages * Dir(v) \in Int
        BY <1>1, <1>3
      <4>3. QED
        BY <1>1, <4>1, <4>2
    <3>3. QED
      BY <1>1, <1>3, <3>1, <3>2
  <2>2. TablePages * Dir(v) \in Int
    BY <1>1, <1>3
  <2>3. QED
    BY <1>1, <1>2, <1>3, <2>1, <2>2
<1>5. ASSUME v < TablePages PROVE Dir(v) = 0
  <2> SUFFICES ASSUME 0 < Dir(v) PROVE FALSE
    BY <1>3
  <2>1. TablePages * 0 + TablePages <= TablePages * Dir(v)
    BY <1>1, <1>3, TimesMonotone
  <2>2. TablePages * Dir(v) \in Int /\ TablePages * 0 = 0
    BY <1>1, <1>3
  <2>3. QED
    BY <1>1, <1>2, <1>3, <1>5, <2>1, <2>2
<1>6. ASSUME v >= TablePages, Dir(v) = 0 PROVE FALSE
  <2>1. TablePages * Dir(v) = 0
    BY <1>1, <1>6
  <2>2. QED
    BY <1>1, <1>2, <1>3, <1>6, <2>1
<1>7. QED
  BY <1>1, <1>2, <1>3, <1>4, <1>5, <1>6 DEF Dirs

\* The types of the fields.
LEMMA MemoryFields ==
    ASSUME NEW m \in Memories
    PROVE  /\ m.map \in Seq(Entries) /\ m.dir \in [Dirs -> Addresses]
           /\ m.pte \in [Pages -> Addresses] /\ m.user \in SUBSET Int
           /\ m.next_virtual \in Nat /\ m.free_virtual \in Seq(Nat)
           /\ m.stale \in SUBSET Int /\ m.status \in {"ok", "fault", "astray"}
           /\ m.table \in Nat /\ m.short \in BOOLEAN
BY DEF Memories

(* Memory n is m but for the map and the parts that map_page() writes.     *)
SameRest(m, n) ==
    /\ n.next_virtual = m.next_virtual
    /\ n.free_virtual = m.free_virtual

(* The three ways in which SetEntry ends.                                  *)
LEMMA SetEntryShort ==
    ASSUME NEW m \in Memories, NEW t, NEW addr, NEW v, NEW user, t.addr = 0
    PROVE  LET n == SetEntry(m, t, addr, v, user)
           IN  /\ n \in Memories /\ SameRest(m, n)
               /\ n.map = m.map /\ n.dir = m.dir /\ n.pte = m.pte /\ n.user = m.user
               /\ n.stale = m.stale /\ n.status = m.status /\ n.table = m.table /\ n.short
<1>1. SetEntry(m, t, addr, v, user) = [m EXCEPT !.short = TRUE]
  BY DEF SetEntry
<1>2. QED
  BY <1>1 DEF Memories, SameRest

\* map_page() when the page table is not where it was.
LEMMA SetEntryLost ==
    ASSUME NEW m \in Memories, NEW t, t.addr \in Nat, t.addr # 0, t.map \in Seq(Entries),
           NEW addr, NEW v, NEW user, Access(m, t.addr) # "ok"
    PROVE  LET n == SetEntry(m, t, addr, v, user)
           IN  /\ n \in Memories /\ SameRest(m, n)
               /\ n.map = t.map /\ n.dir = m.dir /\ n.pte = m.pte /\ n.user = m.user
               /\ n.stale = m.stale /\ n.status = Access(m, t.addr) /\ n.table = t.addr
               /\ n.short = m.short
<1>1. SetEntry(m, t, addr, v, user)
         = [m EXCEPT !.map = t.map, !.status = Access(m, t.addr), !.table = t.addr]
  BY DEF SetEntry
<1>2. Access(m, t.addr) \in {"ok", "fault", "astray"}
  BY DEF Access
<1>3. QED
  BY <1>1, <1>2 DEF Memories, SameRest

\* map_page() when the page table is reached.
LEMMA SetEntryDone ==
    ASSUME NEW m \in Memories, NEW t, t.addr \in Nat, t.addr # 0, t.map \in Seq(Entries),
           NEW addr, Masked(addr) \in Nat, NEW v \in Pages, NEW user,
           Access(m, t.addr) = "ok"
    PROVE  LET n == SetEntry(m, t, addr, v, user)
           IN  /\ n \in Memories /\ SameRest(m, n)
               /\ n.map = t.map
               /\ n.dir[Dir(v)] = t.addr /\ \A d \in Dirs : d # Dir(v) => n.dir[d] = m.dir[d]
               /\ n.pte[v] = Masked(addr) /\ \A w \in Pages : w # v => n.pte[w] = m.pte[w]
               /\ n.user = UserBits(m, v, user) /\ n.stale = m.stale \ {v}
               /\ n.status = m.status /\ n.table = m.table /\ n.short = m.short
<1> DEFINE bits == UserBits(m, v, user)
<1>1. SetEntry(m, t, addr, v, user)
         = [m EXCEPT !.map = t.map, !.dir[Dir(v)] = t.addr, !.pte[v] = Masked(addr),
                     !.user = bits, !.stale = @ \ {v}]
  BY DEF SetEntry
<1>2. bits \in SUBSET Int
  <2>1. v \in Int /\ DirBit(Dir(v)) \in Int /\ m.user \in SUBSET Int
    BY DirIs, MemoryFields, TablesAssumption DEF DirBit, Dirs
  <2>2. QED
    BY <2>1 DEF UserBits
<1> HIDE DEF bits
<1>3. Dir(v) \in Dirs
  BY DirIs
<1>4. [m.dir EXCEPT ![Dir(v)] = t.addr] \in [Dirs -> Addresses]
  BY <1>3, MemoryFields DEF Addresses
<1>5. [m.pte EXCEPT ![v] = Masked(addr)] \in [Pages -> Addresses]
  BY MemoryFields DEF Addresses
<1>6. [m EXCEPT !.map = t.map, !.dir[Dir(v)] = t.addr, !.pte[v] = Masked(addr),
                !.user = bits, !.stale = @ \ {v}]
         = [m EXCEPT !.map = t.map, !.dir = [m.dir EXCEPT ![Dir(v)] = t.addr],
                     !.pte = [m.pte EXCEPT ![v] = Masked(addr)],
                     !.user = bits, !.stale = m.stale \ {v}]
  BY DEF Memories
<1> DEFINE dir == [m.dir EXCEPT ![Dir(v)] = t.addr]
           pte == [m.pte EXCEPT ![v] = Masked(addr)]
           stale == m.stale \ {v}
<1>7. stale \in SUBSET Int
  BY MemoryFields
<1> HIDE DEF dir, pte, stale
<1> DEFINE n == [m EXCEPT !.map = t.map, !.dir = dir, !.pte = pte, !.user = bits, !.stale = stale]
<1>8. /\ n \in Memories /\ SameRest(m, n)
      /\ n.map = t.map /\ n.dir = dir /\ n.pte = pte /\ n.user = bits /\ n.stale = stale
      /\ n.status = m.status /\ n.table = m.table /\ n.short = m.short
  BY <1>2, <1>4, <1>5, <1>7 DEF Memories, SameRest, dir, pte
<1>9. /\ dir[Dir(v)] = t.addr /\ \A d \in Dirs : d # Dir(v) => dir[d] = m.dir[d]
      /\ pte[v] = Masked(addr) /\ \A w \in Pages : w # v => pte[w] = m.pte[w]
  BY <1>3, MemoryFields DEF dir, pte
<1>10. SetEntry(m, t, addr, v, user) = n
  BY <1>1, <1>6 DEF dir, pte, stale
<1> HIDE DEF n
<1>11. QED
  BY <1>8, <1>9, <1>10 DEF bits, stale
-----------------------------------------------------------------------------
(* The invariant of a memory, for the pages O of the heap and of stacks.   *)

Low == KernelEnd .. TablePages - 1
High == {v \in Pages : v >= TablePages}

(* The pages that somebody uses, and what is not None there.               *)
InUseBy(m, O) == O \cup LoadedPages(m)

(* Every page table but the first is a frame of its own.                   *)
TablesInv(m) ==
    /\ m.dir[0] = FirstTable
    /\ \A d \in Dirs \ {0} : m.dir[d] = None \/ m.dir[d] \in Taken(m)
    /\ \A d, e \in Dirs \ {0} : d # e /\ m.dir[d] # None => m.dir[d] # m.dir[e]

(* The kernel and the memory ahead of next_virtual are mapped to themselves. *)
Identity(m) ==
    \A v \in 0 .. TablePages - 1 :
        v < KernelEnd \/ v >= m.next_virtual => m.pte[v] = v * PageSize

(* A page in use has a frame of its own that is no page table.             *)
OwnFrame(m, v) ==
    \/ m.pte[v] \in Taken(m) /\ \A d \in Dirs \ {0} : m.dir[d] # m.pte[v]
    \/ v = StackPage /\ m.pte[v] = 0

OwnersInv(m, O) ==
    /\ \A v \in LoadedPages(m) : m.dir[Dir(v)] # None
    /\ \A v \in InUseBy(m, O) : OwnFrame(m, v)
    /\ \A v, w \in InUseBy(m, O) : v # w => m.pte[v] # m.pte[w]

(* Pages that can be handed out again are not mapped and not in use.       *)
FreeInv(m, O) ==
    /\ \A k \in 1 .. Len(m.free_virtual) :
          /\ m.free_virtual[k] \in KernelEnd .. m.next_virtual - 1
          /\ m.pte[m.free_virtual[k]] = None
          /\ m.free_virtual[k] \notin O
    /\ \A k, l \in 1 .. Len(m.free_virtual) : k # l => m.free_virtual[k] # m.free_virtual[l]
    /\ \A v \in m.stale : v \in KernelEnd .. m.next_virtual - 1 /\ v \notin O

MemInv(m, O) ==
    /\ m \in Memories
    /\ SoundMap(m.map)
    /\ m.next_virtual \in KernelEnd .. MaxNext
    /\ O \subseteq KernelEnd .. m.next_virtual - 1
    /\ TablesInv(m)
    /\ Identity(m)
    /\ OwnersInv(m, O)
    /\ FreeInv(m, O)

(* The frames that n has taken and m has not.                              *)
Fresh(m, n) == UsedBases(n.map) \ UsedBases(m.map)

(* From m to n the pages of M got fresh frames, and page tables were made. *)
Grown(m, n, M) ==
    /\ n \in Memories /\ SoundMap(n.map) /\ SameRest(m, n)
    /\ m.short => n.short
    /\ UsedBases(m.map) \subseteq UsedBases(n.map)
    /\ \A d \in Dirs : \/ n.dir[d] = m.dir[d]
                       \/ d # 0 /\ m.dir[d] = None /\ n.dir[d] \in Fresh(m, n)
    /\ \A d, e \in Dirs : d # e /\ m.dir[d] # n.dir[d] /\ m.dir[e] # n.dir[e]
                             => n.dir[d] # n.dir[e]
    /\ \A v \in Pages : v \notin M => /\ n.pte[v] = m.pte[v]
                                      /\ v \in n.user <=> v \in m.user
    /\ \A v \in M : /\ n.pte[v] \in Fresh(m, n)
                    /\ n.dir[Dir(v)] # None
                    /\ v \notin n.stale
                    /\ \A d \in Dirs : m.dir[d] # n.dir[d] => n.dir[d] # n.pte[v]
    /\ \A v, w \in M : v # w => n.pte[v] # n.pte[w]
    /\ n.stale \subseteq m.stale
    /\ \A d \in Dirs : DirBit(d) \in m.user => DirBit(d) \in n.user

(* Every fresh frame is mapped at a page of M or a page table.             *)
Exact(m, n, M) ==
    \A a \in Fresh(m, n) : \/ \E v \in M : n.pte[v] = a
                           \/ \E d \in Dirs \ {0} : n.dir[d] = a

(* User code can touch the pages of M.                                     *)
UserPages(n, M) == \A v \in M : v \in n.user /\ DirBit(Dir(v)) \in n.user

\* What the assumptions say of the layout, in the form the proofs use.
LEMMA LayoutIs ==
    /\ KernelEnd \in Nat /\ KernelEnd > 0 /\ KernelEnd <= TablePages
    /\ TablePages \in Nat /\ Tables \in Nat /\ Tables > 0
    /\ TablePages * Tables \in Nat /\ TablePages <= TablePages * Tables
    /\ MaxNext \in Nat /\ MaxNext <= TablePages
    /\ PageSize \in Nat /\ PageSize > 0
    /\ KStackPages \in Nat /\ KStackPages > 0
    /\ StackPage \in High /\ StackPage \in Pages
<1>1. /\ KernelEnd \in Nat /\ KernelEnd > 0 /\ KernelEnd <= TablePages
      /\ TablePages \in Nat /\ TablePages > 0 /\ Tables \in Nat /\ Tables > 0
      /\ PageSize \in Nat /\ PageSize > 0
      /\ KStackPages \in Nat /\ KStackPages > 0
  BY TablesAssumption, KernelAssumption, PageSizeAssumption, LayoutAssumption
<1>2. TablePages * Tables \in Nat /\ TablePages <= TablePages * Tables
  <2>1. TablePages * 0 + TablePages <= TablePages * Tables
    BY <1>1, TimesMonotone
  <2>2. QED
    BY <1>1, <2>1
<1>3. MaxNext \in Nat /\ MaxNext <= TablePages
  BY <1>1, LayoutAssumption
<1>4. StackPage \in High /\ StackPage \in Pages
  BY <1>1, <1>2, LayoutAssumption DEF High, Pages
<1>5. QED
  BY <1>1, <1>2, <1>3, <1>4

\* The pages of the first table.
LEMMA LowPages == \A v \in 0 .. TablePages - 1 : v \in Pages /\ Dir(v) = 0
<1> TAKE v \in 0 .. TablePages - 1
<1>1. v \in Pages /\ v < TablePages
  BY LayoutIs DEF Pages
<1>2. QED
  BY <1>1, DirIs

(* What is taken is a frame.                                               *)
LEMMA TakenFrames ==
    ASSUME NEW c, SoundMap(c), NEW a \in UsedBases(c) \ Reserved
    PROVE  a \in FrameAddrs
BY FreeSound

\* What a frame's address is.
LEMMA FrameIs ==
    ASSUME NEW a \in FrameAddrs
    PROVE  /\ a \in Nat /\ a # 0 /\ a # None /\ a % PageSize = 0 /\ Masked(a) = a
           /\ a + PageSize <= AddrLimit
BY MaskedIs DEF FrameAddrs, None

\* A frame that was taken since is new.
LEMMA FreshFrames ==
    ASSUME NEW m, NEW n, SoundMap(m.map), SoundMap(n.map), NEW a \in Fresh(m, n)
    PROVE  a \in FrameAddrs /\ a \in Taken(n) /\ a \notin Taken(m)
<1>1. a \in UsedBases(n.map) /\ a \notin UsedBases(m.map) /\ a \notin Reserved
  BY DEF Fresh, SoundMap
<1>2. QED
  BY <1>1, TakenFrames DEF Taken, Reserved

(* The address of a page table that is mapped to itself is reached.        *)
LEMMA TableReached ==
    ASSUME NEW m, Identity(m), m.next_virtual \in KernelEnd .. MaxNext,
           NEW t \in Nat, t % PageSize = 0,
           PageOf(t) \in (0 .. KernelEnd - 1) \cup (m.next_virtual .. TablePages - 1)
    PROVE  Access(m, t) = "ok"
<1>1. PageOf(t) \in 0 .. TablePages - 1
  BY LayoutIs
<1>2. PageOf(t) \in Pages
  BY <1>1, LowPages
<1>3. m.pte[PageOf(t)] = PageOf(t) * PageSize
  BY <1>1, LayoutIs DEF Identity
<1>4. PageOf(t) \in Nat /\ t = PageSize * PageOf(t)
  BY AlignedIs
<1>5. m.pte[PageOf(t)] = t /\ t # None
  BY <1>3, <1>4, LayoutIs DEF None
<1>6. QED
  BY <1>2, <1>5 DEF Access

\* The first page table is always reached.
LEMMA FirstTableReached ==
    ASSUME NEW m, Identity(m), m.next_virtual \in KernelEnd .. MaxNext
    PROVE  Access(m, FirstTable) = "ok" /\ FirstTable \in Nat /\ FirstTable # 0
<1>1. PICK q \in 1 .. KernelEnd - 1 : FirstTable = q * PageSize
  BY KernelAssumption
<1>2. FirstTable = PageSize * q + 0 /\ q \in Nat /\ FirstTable \in Nat /\ 0 \in 0 .. PageSize - 1
  BY <1>1, LayoutIs
<1>3. PageOf(FirstTable) = q /\ FirstTable % PageSize = 0
  BY <1>2, DivideTimes
<1>4. Access(m, FirstTable) = "ok"
  BY <1>1, <1>2, <1>3, TableReached
<1>5. FirstTable # 0
  BY <1>1, LayoutIs
<1>6. QED
  BY <1>2, <1>4, <1>5
-----------------------------------------------------------------------------
(* map_page() with a frame that allocate() has just found.                 *)

(* The page table for v: the one there is, a fresh frame, or none.         *)
LEMMA TableForIs ==
    ASSUME NEW m, TablesInv(m), m \in Memories, SoundMap(m.map), Identity(m),
           m.next_virtual \in KernelEnd .. MaxNext, NEW v \in Pages
    PROVE  LET t == TableFor(m, v)
           IN  /\ t.addr \in Nat /\ SoundMap(t.map)
               /\ \/ /\ t.addr = 0 /\ t.map = m.map
                     /\ m.dir[Dir(v)] = None /\ allocate(m.map).addr = 0
                  \/ /\ t.addr # 0 /\ t.map = m.map
                     /\ m.dir[Dir(v)] # None /\ m.dir[Dir(v)] = t.addr
                  \/ /\ t.addr # 0 /\ m.dir[Dir(v)] = None
                     /\ t.addr \in FrameAddrs /\ t.addr \notin UsedBases(m.map)
                     /\ UsedBases(t.map) = UsedBases(m.map) \cup {t.addr}
               /\ v < TablePages => t.addr = FirstTable
               /\ t.addr # 0 /\ Access(m, t.addr) # "ok" =>
                     PageOf(t.addr) \notin (0 .. KernelEnd - 1) \cup (m.next_virtual .. TablePages - 1)
<1> DEFINE t == TableFor(m, v)
<1>0. Dir(v) \in Dirs /\ (v < TablePages => Dir(v) = 0)
  BY DirIs
<1>1. Access(m, FirstTable) = "ok" /\ FirstTable \in Nat /\ FirstTable # 0
  BY FirstTableReached
<1>2. CASE m.dir[Dir(v)] # None
  <2>1. t.addr = m.dir[Dir(v)] /\ t.map = m.map
    BY <1>2 DEF TableFor
  <2>2. CASE Dir(v) = 0
    <3>1. t.addr = FirstTable
      BY <2>1, <2>2 DEF TablesInv
    <3>2. QED
      BY <1>1, <1>2, <2>1, <3>1
  <2>3. CASE Dir(v) # 0
    <3>1. t.addr \in Taken(m)
      BY <1>0, <1>2, <2>1, <2>3 DEF TablesInv
    <3>2. t.addr \in FrameAddrs
      BY <3>1, TakenFrames DEF Taken, Reserved
    <3>3. t.addr \in Nat /\ t.addr # 0 /\ t.addr % PageSize = 0
      BY <3>2, FrameIs
    <3>4. ~ (v < TablePages)
      BY <1>0, <2>3
    <3>5. Access(m, t.addr) # "ok" =>
             PageOf(t.addr) \notin (0 .. KernelEnd - 1) \cup (m.next_virtual .. TablePages - 1)
      BY <3>3, TableReached
    <3>6. QED
      BY <1>2, <2>1, <3>3, <3>4, <3>5
  <2>4. QED
    BY <2>2, <2>3
<1>3. CASE m.dir[Dir(v)] = None
  <2>1. t = allocate(m.map)
    BY <1>3 DEF TableFor
  <2>2. /\ SoundMap(t.map)
        /\ \/ t.addr = 0 /\ t.map = m.map
           \/ /\ t.addr \in FrameAddrs /\ t.addr \notin UsedBases(m.map)
              /\ UsedBases(t.map) = UsedBases(m.map) \cup {t.addr}
    BY <2>1, AllocateSound
  <2>3. ~ (v < TablePages)
    <3>1. m.dir[0] # None
      BY <1>1 DEF TablesInv, None
    <3>2. QED
      BY <1>0, <1>3, <3>1
  <2>4. CASE t.addr = 0 /\ t.map = m.map
    BY <1>3, <2>1, <2>2, <2>3, <2>4
  <2>5. CASE /\ t.addr \in FrameAddrs /\ t.addr \notin UsedBases(m.map)
             /\ UsedBases(t.map) = UsedBases(m.map) \cup {t.addr}
    <3>1. t.addr \in Nat /\ t.addr # 0 /\ t.addr % PageSize = 0
      BY <2>5, FrameIs
    <3>2. Access(m, t.addr) # "ok" =>
             PageOf(t.addr) \notin (0 .. KernelEnd - 1) \cup (m.next_virtual .. TablePages - 1)
      BY <3>1, TableReached
    <3>3. QED
      BY <1>3, <2>2, <2>3, <2>5, <3>1, <3>2
  <2>6. QED
    BY <2>2, <2>4, <2>5
<1>4. QED
  BY <1>2, <1>3

(* Nothing but the map, the flags and the history has changed.             *)
LEMMA GrownNothing ==
    ASSUME NEW m, NEW n \in Memories, SoundMap(n.map), SameRest(m, n),
           m.short => n.short, UsedBases(m.map) \subseteq UsedBases(n.map),
           n.dir = m.dir, n.pte = m.pte, n.user = m.user, n.stale = m.stale
    PROVE  Grown(m, n, {}) /\ UserPages(n, {})
BY DEF Grown, UserPages

(* The results of MapNew, for page v.                                      *)
MapsOne(m, r, v, user, M) ==
    /\ Grown(m, r.mem, M)
    /\ user => UserPages(r.mem, M)
    /\ r.addr # 0 /\ r.mem.status = "ok" /\ (v < TablePages \/ ~ r.mem.short) =>
          M = {v} /\ Exact(m, r.mem, M)

\* allocate() and map_page() for one page: it is mapped to a new frame, or nothing
\* is; without a frame short is set, and a page table that is lost lies beyond.
LEMMA MapNewGrows ==
    ASSUME NEW m, NEW O, MemInv(m, O), m.status = "ok", NEW v \in Pages, NEW user \in BOOLEAN
    PROVE  LET r == MapNew(m, v, user)
           IN  /\ r.addr \in Nat
               /\ MapsOne(m, r, v, user, {}) \/ MapsOne(m, r, v, user, {v})
               /\ r.mem.status # "ok" => Beyond(r.mem) /\ v >= TablePages
               /\ r.addr = 0 => r.mem.short /\ r.mem.status = "ok"
<1> DEFINE a == allocate(m.map)
           r == MapNew(m, v, user)
<1>1. /\ m \in Memories /\ SoundMap(m.map) /\ TablesInv(m) /\ Identity(m)
      /\ m.next_virtual \in KernelEnd .. MaxNext
  BY DEF MemInv
<1>2. /\ SoundMap(a.map)
      /\ \/ a.addr = 0 /\ a.map = m.map
         \/ /\ a.addr \in FrameAddrs /\ a.addr \notin UsedBases(m.map)
            /\ UsedBases(a.map) = UsedBases(m.map) \cup {a.addr}
  BY <1>1, AllocateSound
<1>3. Dir(v) \in Dirs /\ v \in Nat /\ TablePages \in Nat
  BY DirIs, LayoutIs
<1>4. CASE a.addr = 0 /\ a.map = m.map
  <2>1. r.mem = [m EXCEPT !.short = TRUE] /\ r.addr = 0
    BY <1>4 DEF MapNew, MapFrame
  <2>2. /\ r.mem \in Memories /\ SameRest(m, r.mem) /\ r.mem.short
        /\ r.mem.map = m.map /\ r.mem.dir = m.dir /\ r.mem.pte = m.pte /\ r.mem.user = m.user
        /\ r.mem.stale = m.stale /\ r.mem.status = m.status
    BY <1>1, <2>1 DEF Memories, SameRest
  <2>3. Grown(m, r.mem, {}) /\ UserPages(r.mem, {})
    BY <1>1, <2>2, GrownNothing
  <2>4. QED
    BY <2>1, <2>2, <2>3 DEF MapsOne
<1>5. CASE /\ a.addr \in FrameAddrs /\ a.addr \notin UsedBases(m.map)
           /\ UsedBases(a.map) = UsedBases(m.map) \cup {a.addr}
  <2> DEFINE m1 == [m EXCEPT !.map = a.map]
             t == TableFor(m1, v)
             n == SetEntry(m1, t, a.addr, v, user)
  <2>1. a.addr \in Nat /\ a.addr # 0 /\ Masked(a.addr) = a.addr
    BY <1>5, FrameIs
  <2>2. r.addr = a.addr /\ r.mem = n
    BY <2>1 DEF MapNew, MapFrame, map_page
  <2>3. a.map \in Seq(Entries)
    BY <1>2 DEF SoundMap, WellFormed
  <2>4. /\ m1 \in Memories /\ m1.map = a.map /\ m1.dir = m.dir /\ m1.pte = m.pte
        /\ m1.user = m.user /\ m1.stale = m.stale /\ m1.status = m.status
        /\ m1.next_virtual = m.next_virtual /\ m1.free_virtual = m.free_virtual
        /\ m1.short = m.short
    BY <1>1, <2>3 DEF Memories
  <2> HIDE DEF m1
  <2>5. TablesInv(m1) /\ Identity(m1)
    <3>1. \A x : x \in Taken(m) => x \in Taken(m1)
      BY <1>5, <2>4 DEF Taken
    <3>2. TablesInv(m1)
      BY <1>1, <2>4, <3>1 DEF TablesInv
    <3>3. QED
      BY <1>1, <2>4, <3>2 DEF Identity
  <2>6. /\ t.addr \in Nat /\ SoundMap(t.map)
        /\ \/ /\ t.addr = 0 /\ t.map = m1.map
              /\ m1.dir[Dir(v)] = None /\ allocate(m1.map).addr = 0
           \/ /\ t.addr # 0 /\ t.map = m1.map
              /\ m1.dir[Dir(v)] # None /\ m1.dir[Dir(v)] = t.addr
           \/ /\ t.addr # 0 /\ m1.dir[Dir(v)] = None
              /\ t.addr \in FrameAddrs /\ t.addr \notin UsedBases(m1.map)
              /\ UsedBases(t.map) = UsedBases(m1.map) \cup {t.addr}
        /\ v < TablePages => t.addr = FirstTable
        /\ t.addr # 0 /\ Access(m1, t.addr) # "ok" =>
              PageOf(t.addr) \notin (0 .. KernelEnd - 1) \cup (m1.next_virtual .. TablePages - 1)
    BY <1>1, <1>2, <2>4, <2>5, TableForIs
  <2>7. FirstTable # 0 /\ Access(m1, FirstTable) = "ok"
    BY <1>1, <2>4, <2>5, FirstTableReached
  <2>8. UsedBases(m.map) \subseteq UsedBases(t.map) /\ t.map \in Seq(Entries)
    BY <1>5, <2>4, <2>6 DEF SoundMap, WellFormed
  <2> HIDE DEF t
  <2>9. CASE t.addr = 0
    <3>1. /\ n \in Memories /\ SameRest(m1, n)
          /\ n.map = m1.map /\ n.dir = m1.dir /\ n.pte = m1.pte /\ n.user = m1.user
          /\ n.stale = m1.stale /\ n.status = m1.status /\ n.short
      BY <2>4, <2>9, SetEntryShort
    <3> HIDE DEF n
    <3>2. Grown(m, n, {}) /\ UserPages(n, {})
      <4>1. SoundMap(n.map) /\ UsedBases(m.map) \subseteq UsedBases(n.map) /\ SameRest(m, n)
        BY <1>2, <1>5, <2>4, <3>1 DEF SameRest
      <4>2. QED
        BY <2>4, <3>1, <4>1, GrownNothing
    <3>3. ~ (v < TablePages)
      BY <2>6, <2>7, <2>9
    <3>4. MapsOne(m, r, v, user, {})
      BY <2>2, <3>1, <3>2, <3>3 DEF MapsOne
    <3>5. QED
      BY <2>1, <2>2, <2>4, <3>1, <3>4
  <2>10. CASE t.addr # 0 /\ Access(m1, t.addr) # "ok"
    <3>1. /\ n \in Memories /\ SameRest(m1, n)
          /\ n.map = t.map /\ n.dir = m1.dir /\ n.pte = m1.pte /\ n.user = m1.user
          /\ n.stale = m1.stale /\ n.status = Access(m1, t.addr) /\ n.table = t.addr
          /\ n.short = m1.short
      BY <2>4, <2>6, <2>8, <2>10, SetEntryLost
    <3> HIDE DEF n
    <3>2. Grown(m, n, {}) /\ UserPages(n, {})
      <4>1. SoundMap(n.map) /\ UsedBases(m.map) \subseteq UsedBases(n.map) /\ SameRest(m, n)
        BY <2>4, <2>6, <2>8, <3>1 DEF SameRest
      <4>2. QED
        BY <2>4, <3>1, <4>1, GrownNothing
    <3>3. v >= TablePages
      BY <1>3, <2>6, <2>7, <2>10
    <3>4. Beyond(n)
      BY <2>4, <2>6, <2>10, <3>1 DEF Beyond, SameRest
    <3>5. MapsOne(m, r, v, user, {})
      BY <2>2, <2>10, <3>1, <3>2 DEF MapsOne
    <3>6. QED
      BY <2>1, <2>2, <3>3, <3>4, <3>5
  <2>11. CASE t.addr # 0 /\ Access(m1, t.addr) = "ok"
    <3>1. /\ n \in Memories /\ SameRest(m1, n)
          /\ n.map = t.map
          /\ n.dir[Dir(v)] = t.addr /\ \A d \in Dirs : d # Dir(v) => n.dir[d] = m1.dir[d]
          /\ n.pte[v] = Masked(a.addr) /\ \A w \in Pages : w # v => n.pte[w] = m1.pte[w]
          /\ n.user = UserBits(m1, v, user) /\ n.stale = m1.stale \ {v}
          /\ n.status = m1.status /\ n.short = m1.short
      <4>1. /\ Masked(a.addr) \in Nat /\ t.addr \in Nat /\ t.addr # 0 /\ t.map \in Seq(Entries)
            /\ Access(m1, t.addr) = "ok" /\ m1 \in Memories
        BY <2>1, <2>4, <2>6, <2>8, <2>11
      <4> HIDE DEF a
      <4>2. QED
        BY <4>1, SetEntryDone
    <3> HIDE DEF n
    <3>2. m.dir \in [Dirs -> Addresses] /\ m.pte \in [Pages -> Addresses] /\ m.user \in SUBSET Int
      BY <1>1, MemoryFields
    <3>3. /\ n.dir[Dir(v)] = t.addr /\ \A d \in Dirs : d # Dir(v) => n.dir[d] = m.dir[d]
          /\ n.pte[v] = a.addr /\ \A w \in Pages : w # v => n.pte[w] = m.pte[w]
          /\ n.stale = m.stale \ {v}
      BY <1>3, <2>1, <2>4, <3>1, <3>2
    <3>4. a.addr \in Fresh(m, n)
      BY <1>5, <2>4, <2>6, <3>1 DEF Fresh
    <3>5. \/ n.dir[Dir(v)] = m.dir[Dir(v)]
          \/ /\ Dir(v) # 0 /\ m.dir[Dir(v)] = None /\ t.addr \in Fresh(m, n) /\ t.addr # a.addr
      <4>1. CASE m1.dir[Dir(v)] = t.addr
        BY <2>4, <3>3, <4>1
      <4>2. CASE /\ m1.dir[Dir(v)] = None
                 /\ t.addr \in FrameAddrs /\ t.addr \notin UsedBases(m1.map)
                 /\ UsedBases(t.map) = UsedBases(m1.map) \cup {t.addr}
        <5>1. t.addr # a.addr /\ t.addr \in Fresh(m, n)
          BY <1>5, <2>4, <3>1, <4>2 DEF Fresh
        <5>2. Dir(v) # 0
          BY <2>4, <2>7, <4>2, FirstTableReached, <1>1 DEF TablesInv, None
        <5>3. QED
          BY <2>4, <4>2, <5>1, <5>2
      <4>3. QED
        BY <2>6, <2>11, <4>1, <4>2
    <3>6. /\ \A w \in Pages : w # v => (w \in n.user <=> w \in m.user)
          /\ \A d \in Dirs : DirBit(d) \in m.user => DirBit(d) \in n.user
          /\ user => v \in n.user /\ DirBit(Dir(v)) \in n.user
      <4>1. n.user = IF user THEN m.user \cup {v, DirBit(Dir(v))} ELSE m.user \ {v}
        BY <2>4, <3>1 DEF UserBits
      <4>2. \A d \in Dirs : DirBit(d) # v /\ \A w \in Pages : DirBit(d) # w
        BY LayoutIs DEF DirBit, Dirs, Pages
      <4>3. QED
        BY <1>3, <4>1, <4>2
    <3>7. t.addr # None
      BY <2>6 DEF None
    <3>8. Grown(m, n, {v})
      <4>1. n \in Memories /\ SoundMap(n.map) /\ SameRest(m, n) /\ (m.short => n.short)
        BY <2>4, <2>6, <3>1 DEF SameRest
      <4>2. UsedBases(m.map) \subseteq UsedBases(n.map)
        BY <2>8, <3>1
      <4>3. \A d \in Dirs : \/ n.dir[d] = m.dir[d]
                            \/ d # 0 /\ m.dir[d] = None /\ n.dir[d] \in Fresh(m, n)
        BY <3>3, <3>5
      <4>4. \A d \in Dirs : m.dir[d] # n.dir[d] => d = Dir(v) /\ n.dir[d] # n.pte[v]
        BY <3>3, <3>5
      <4>5. n.dir[Dir(v)] # None
        BY <3>3, <3>7
      <4>6. QED
        BY <3>3, <3>4, <3>6, <4>1, <4>2, <4>3, <4>4, <4>5 DEF Grown
    <3>9. Exact(m, n, {v})
      <4>1. ASSUME NEW x \in Fresh(m, n), x # a.addr PROVE \E d \in Dirs \ {0} : n.dir[d] = x
        <5>1. CASE m1.dir[Dir(v)] = t.addr /\ t.map = m1.map
          BY <1>5, <2>4, <3>1, <4>1, <5>1 DEF Fresh
        <5>2. CASE /\ m1.dir[Dir(v)] = None
                   /\ UsedBases(t.map) = UsedBases(m1.map) \cup {t.addr}
          <6>1. x = t.addr
            BY <1>5, <2>4, <3>1, <4>1, <5>2 DEF Fresh
          <6>2. Dir(v) # 0
            BY <2>4, <2>7, <5>2, FirstTableReached, <1>1 DEF TablesInv, None
          <6>3. QED
            BY <1>3, <3>3, <6>1, <6>2
        <5>3. QED
          BY <2>6, <2>11, <5>1, <5>2
      <4>2. QED
        BY <3>3, <4>1 DEF Exact
    <3>10. MapsOne(m, r, v, user, {v})
      BY <2>2, <3>6, <3>8, <3>9 DEF MapsOne, UserPages
    <3>11. QED
      BY <2>1, <2>2, <2>4, <3>1, <3>10
  <2>12. QED
    BY <2>9, <2>10, <2>11
<1>6. QED
  BY <1>2, <1>4, <1>5
-----------------------------------------------------------------------------
(* Pages that are mapped one after another.                                *)

\* Growth is transitive.
LEMMA GrownTwice ==
    ASSUME NEW m, NEW n, NEW o, SoundMap(m.map), NEW M, NEW N, M \subseteq Pages, N \subseteq Pages,
           M \cap N = {}, Grown(m, n, M), Grown(n, o, N)
    PROVE  /\ Grown(m, o, M \cup N)
           /\ UserPages(n, M) /\ UserPages(o, N) => UserPages(o, M \cup N)
           /\ Exact(m, n, M) /\ Exact(n, o, N) => Exact(m, o, M \cup N)
<1>1. /\ UsedBases(m.map) \subseteq UsedBases(n.map) /\ UsedBases(n.map) \subseteq UsedBases(o.map)
      /\ SoundMap(n.map) /\ SoundMap(o.map)
  BY DEF Grown
<1>2. /\ \A a \in Fresh(m, n) : a \in Fresh(m, o) /\ a \in UsedBases(n.map) /\ a # None
      /\ \A a \in Fresh(n, o) : a \in Fresh(m, o) /\ a \notin UsedBases(n.map) /\ a # None
      /\ \A a \in Fresh(m, o) : a \in Fresh(m, n) \/ a \in Fresh(n, o)
  <2>1. /\ \A a \in Fresh(m, n) : a \in Fresh(m, o) /\ a \in UsedBases(n.map)
        /\ \A a \in Fresh(n, o) : a \in Fresh(m, o) /\ a \notin UsedBases(n.map)
        /\ \A a \in Fresh(m, o) : a \in Fresh(m, n) \/ a \in Fresh(n, o)
    BY <1>1 DEF Fresh
  <2>2. \A a \in Fresh(m, n) : a # None
    BY <1>1, FreshFrames, FrameIs
  <2>3. \A a \in Fresh(n, o) : a # None
    BY <1>1, FreshFrames, FrameIs
  <2>4. QED
    BY <2>1, <2>2, <2>3
<1>3. \A v \in M \cup N : v \in Pages /\ Dir(v) \in Dirs
  BY DirIs
(* What became of the page tables.                                         *)
<1>4. \A d \in Dirs :
         \/ n.dir[d] = m.dir[d] /\ o.dir[d] = m.dir[d]
         \/ /\ d # 0 /\ m.dir[d] = None /\ n.dir[d] \in Fresh(m, n) /\ o.dir[d] = n.dir[d]
            /\ n.dir[d] # m.dir[d]
         \/ /\ d # 0 /\ m.dir[d] = None /\ n.dir[d] = m.dir[d] /\ o.dir[d] \in Fresh(n, o)
            /\ o.dir[d] # n.dir[d]
  <2> TAKE d \in Dirs
  <2>1. /\ \/ n.dir[d] = m.dir[d]
           \/ d # 0 /\ m.dir[d] = None /\ n.dir[d] \in Fresh(m, n)
        /\ \/ o.dir[d] = n.dir[d]
           \/ d # 0 /\ n.dir[d] = None /\ o.dir[d] \in Fresh(n, o)
    BY DEF Grown
  <2>2. QED
    BY <1>2, <2>1
<1>5. \A d, e \in Dirs : d # e /\ m.dir[d] # o.dir[d] /\ m.dir[e] # o.dir[e] => o.dir[d] # o.dir[e]
  <2> SUFFICES ASSUME NEW d \in Dirs, NEW e \in Dirs, d # e,
                      m.dir[d] # o.dir[d], m.dir[e] # o.dir[e]
               PROVE  o.dir[d] # o.dir[e]
    OBVIOUS
  <2>1. CASE n.dir[d] # m.dir[d] /\ n.dir[e] # m.dir[e]
    <3>1. o.dir[d] = n.dir[d] /\ o.dir[e] = n.dir[e]
      BY <1>4, <2>1
    <3>2. QED
      BY <2>1, <3>1 DEF Grown
  <2>2. CASE n.dir[d] = m.dir[d] /\ n.dir[e] = m.dir[e]
    BY <2>2 DEF Grown
  <2>3. CASE n.dir[d] # m.dir[d] /\ n.dir[e] = m.dir[e]
    BY <1>2, <1>4, <2>3
  <2>4. CASE n.dir[d] = m.dir[d] /\ n.dir[e] # m.dir[e]
    BY <1>2, <1>4, <2>4
  <2>5. QED
    BY <2>1, <2>2, <2>3, <2>4
(* What became of the pages.                                               *)
<1>6. ASSUME NEW v \in M
      PROVE  /\ o.pte[v] = n.pte[v] /\ n.pte[v] \in Fresh(m, n) /\ o.dir[Dir(v)] # None
             /\ v \notin o.stale /\ v \notin N
             /\ \A d \in Dirs : m.dir[d] # o.dir[d] => o.dir[d] # o.pte[v]
  <2>1. v \notin N /\ v \in Pages /\ Dir(v) \in Dirs
    BY <1>3
  <2>2. o.pte[v] = n.pte[v] /\ n.pte[v] \in Fresh(m, n) /\ n.dir[Dir(v)] # None /\ v \notin o.stale
    BY <2>1 DEF Grown
  <2>3. o.dir[Dir(v)] # None
    BY <1>2, <1>4, <2>1, <2>2
  <2>4. ASSUME NEW d \in Dirs, m.dir[d] # o.dir[d] PROVE o.dir[d] # o.pte[v]
    <3>1. CASE n.dir[d] # m.dir[d]
      <4>1. o.dir[d] = n.dir[d] /\ n.dir[d] # n.pte[v]
        BY <1>4, <3>1 DEF Grown
      <4>2. QED
        BY <2>2, <4>1
    <3>2. CASE n.dir[d] = m.dir[d]
      BY <1>2, <1>4, <2>2, <2>4, <3>2
    <3>3. QED
      BY <3>1, <3>2
  <2>5. QED
    BY <2>1, <2>2, <2>3, <2>4
<1>7. ASSUME NEW v \in N
      PROVE  /\ o.pte[v] \in Fresh(n, o) /\ o.dir[Dir(v)] # None /\ v \notin o.stale
             /\ \A d \in Dirs : m.dir[d] # o.dir[d] => o.dir[d] # o.pte[v]
  <2>1. o.pte[v] \in Fresh(n, o) /\ o.dir[Dir(v)] # None /\ v \notin o.stale
    BY DEF Grown
  <2>2. ASSUME NEW d \in Dirs, m.dir[d] # o.dir[d] PROVE o.dir[d] # o.pte[v]
    <3>1. CASE o.dir[d] # n.dir[d]
      BY <3>1 DEF Grown
    <3>2. CASE o.dir[d] = n.dir[d]
      BY <1>2, <1>4, <2>1, <2>2, <3>2
    <3>3. QED
      BY <3>1, <3>2
  <2>3. QED
    BY <2>1, <2>2
<1>8. \A v, w \in M \cup N : v # w => o.pte[v] # o.pte[w]
  <2>1. \A v, w \in M : v # w => n.pte[v] # n.pte[w]
    BY DEF Grown
  <2>2. \A v, w \in N : v # w => o.pte[v] # o.pte[w]
    BY DEF Grown
  <2>3. QED
    BY <1>2, <1>6, <1>7, <2>1, <2>2
<1>9. Grown(m, o, M \cup N)
  <2>1. o \in Memories /\ SameRest(m, o) /\ (m.short => o.short)
    BY DEF Grown, SameRest
  <2>2. UsedBases(m.map) \subseteq UsedBases(o.map)
    BY <1>1
  <2>3. \A d \in Dirs : \/ o.dir[d] = m.dir[d]
                        \/ d # 0 /\ m.dir[d] = None /\ o.dir[d] \in Fresh(m, o)
    BY <1>2, <1>4
  <2>4. \A v \in Pages : v \notin M \cup N => /\ o.pte[v] = m.pte[v]
                                             /\ v \in o.user <=> v \in m.user
    BY DEF Grown
  <2>5. \A v \in M \cup N : /\ o.pte[v] \in Fresh(m, o)
                            /\ o.dir[Dir(v)] # None
                            /\ v \notin o.stale
                            /\ \A d \in Dirs : m.dir[d] # o.dir[d] => o.dir[d] # o.pte[v]
    BY <1>2, <1>6, <1>7
  <2>6. o.stale \subseteq m.stale /\ \A d \in Dirs : DirBit(d) \in m.user => DirBit(d) \in o.user
    BY DEF Grown
  <2>7. QED
    BY <1>1, <1>5, <1>8, <2>1, <2>2, <2>3, <2>4, <2>5, <2>6 DEF Grown
<1>10. ASSUME UserPages(n, M), UserPages(o, N) PROVE UserPages(o, M \cup N)
  <2>1. ASSUME NEW v \in M PROVE v \in o.user /\ DirBit(Dir(v)) \in o.user
    <3>1. v \in n.user /\ DirBit(Dir(v)) \in n.user /\ v \in Pages /\ v \notin N /\ Dir(v) \in Dirs
      BY <1>3, <1>10 DEF UserPages
    <3>2. QED
      BY <3>1 DEF Grown
  <2>2. QED
    BY <1>10, <2>1 DEF UserPages
<1>11. ASSUME Exact(m, n, M), Exact(n, o, N) PROVE Exact(m, o, M \cup N)
  <2> SUFFICES ASSUME NEW a \in Fresh(m, o)
               PROVE  \/ \E v \in M \cup N : o.pte[v] = a
                      \/ \E d \in Dirs \ {0} : o.dir[d] = a
    BY DEF Exact
  <2>1. CASE a \in Fresh(m, n)
    <3>1. CASE \E v \in M : n.pte[v] = a
      BY <1>6, <3>1
    <3>2. CASE \E d \in Dirs \ {0} : n.dir[d] = a
      <4>1. PICK d \in Dirs \ {0} : n.dir[d] = a
        BY <3>2
      <4>2. a # None
        BY <1>2, <2>1
      <4>3. o.dir[d] = a
        BY <1>4, <4>1, <4>2
      <4>4. QED
        BY <4>1, <4>3
    <3>3. QED
      BY <1>11, <2>1, <3>1, <3>2 DEF Exact
  <2>2. CASE a \in Fresh(n, o)
    BY <1>11, <2>2 DEF Exact
  <2>3. QED
    BY <1>2, <2>1, <2>2
<1>12. QED
  BY <1>9, <1>10, <1>11

(* Mapping pages that nobody uses keeps the invariant; the ones below the  *)
(* end of the first table can have an owner then.                          *)
LEMMA GrownKeeps ==
    ASSUME NEW m, NEW n, NEW O, MemInv(m, O), NEW M, M \subseteq Pages, Grown(m, n, M),
           \A v \in M : \/ v \in High
                        \/ /\ v \in KernelEnd .. m.next_virtual - 1 /\ v \notin O
                           /\ \A k \in 1 .. Len(m.free_virtual) : m.free_virtual[k] # v
    PROVE  MemInv(n, O \cup (M \cap Low))
<1> DEFINE P == O \cup (M \cap Low)
<1>1. /\ m \in Memories /\ SoundMap(m.map) /\ m.next_virtual \in KernelEnd .. MaxNext
      /\ O \subseteq KernelEnd .. m.next_virtual - 1
      /\ TablesInv(m) /\ Identity(m) /\ OwnersInv(m, O) /\ FreeInv(m, O)
  BY DEF MemInv
<1>2. /\ n \in Memories /\ SoundMap(n.map) /\ UsedBases(m.map) \subseteq UsedBases(n.map)
      /\ n.next_virtual = m.next_virtual /\ n.free_virtual = m.free_virtual
      /\ n.stale \subseteq m.stale
  BY DEF Grown, SameRest
<1>3. /\ Taken(m) \subseteq Taken(n)
      /\ \A a \in Fresh(m, n) : a \in Taken(n) /\ a \notin Taken(m) /\ a # None /\ a # 0
  <2>1. Taken(m) \subseteq Taken(n)
    BY <1>2 DEF Taken
  <2>2. ASSUME NEW a \in Fresh(m, n) PROVE a \in Taken(n) /\ a \notin Taken(m) /\ a # None /\ a # 0
    BY <1>1, <1>2, FreshFrames, FrameIs
  <2>3. QED
    BY <2>1, <2>2
<1>4. \A d \in Dirs : \/ n.dir[d] = m.dir[d]
                      \/ /\ d # 0 /\ m.dir[d] = None /\ n.dir[d] \in Fresh(m, n)
                         /\ n.dir[d] # m.dir[d]
  BY <1>3 DEF Grown
<1>5. TablesInv(n)
  <2>1. n.dir[0] = FirstTable
    <3>1. 0 \in Dirs
      BY LayoutIs DEF Dirs
    <3>2. QED
      BY <1>1, <1>4, <3>1 DEF TablesInv
  <2>2. \A d \in Dirs \ {0} : n.dir[d] = None \/ n.dir[d] \in Taken(n)
    BY <1>1, <1>3, <1>4 DEF TablesInv
  <2>3. \A d, e \in Dirs \ {0} : d # e /\ n.dir[d] # None => n.dir[d] # n.dir[e]
    <3> SUFFICES ASSUME NEW d \in Dirs \ {0}, NEW e \in Dirs \ {0}, d # e, n.dir[d] # None
                 PROVE  n.dir[d] # n.dir[e]
      OBVIOUS
    <3>1. CASE n.dir[d] = m.dir[d] /\ n.dir[e] = m.dir[e]
      BY <1>1, <3>1 DEF TablesInv
    <3>2. CASE n.dir[d] # m.dir[d] /\ n.dir[e] # m.dir[e]
      BY <3>2 DEF Grown
    <3>3. CASE n.dir[d] = m.dir[d] /\ n.dir[e] # m.dir[e]
      <4>1. n.dir[d] \in Taken(m) /\ n.dir[e] \notin Taken(m)
        BY <1>1, <1>3, <1>4, <3>3 DEF TablesInv
      <4>2. QED
        BY <4>1
    <3>4. CASE n.dir[d] # m.dir[d] /\ n.dir[e] = m.dir[e]
      <4>1. n.dir[d] \notin Taken(m) /\ (n.dir[e] = None \/ n.dir[e] \in Taken(m))
        BY <1>1, <1>3, <1>4, <3>4 DEF TablesInv
      <4>2. QED
        BY <4>1
    <3>5. QED
      BY <3>1, <3>2, <3>3, <3>4
  <2>4. QED
    BY <2>1, <2>2, <2>3 DEF TablesInv
<1>6. Identity(n)
  <2> SUFFICES ASSUME NEW v \in 0 .. TablePages - 1, v < KernelEnd \/ v >= n.next_virtual
               PROVE  n.pte[v] = v * PageSize
    BY DEF Identity
  <2>1. v \in Pages
    BY LowPages
  <2>2. v \notin M
    BY <1>1, <1>2, LayoutIs DEF High
  <2>3. n.pte[v] = m.pte[v]
    BY <2>1, <2>2 DEF Grown
  <2>4. QED
    BY <1>1, <1>2, <2>3 DEF Identity
<1>7. P \subseteq KernelEnd .. n.next_virtual - 1
  BY <1>1, <1>2, LayoutIs DEF High, Low
<1>8. \A v \in P : v \in Pages
  <2>1. \A v \in O : v \in Pages
    <3>1. \A v \in O : v \in 0 .. TablePages - 1
      BY <1>1, LayoutIs
    <3>2. QED
      BY <3>1, LowPages
  <2>2. QED
    BY <2>1
<1>9. \A v \in InUseBy(n, P) : v \notin M =>
         v \in InUseBy(m, O) /\ n.pte[v] = m.pte[v] /\ v \in Pages
  <2> SUFFICES ASSUME NEW v \in InUseBy(n, P), v \notin M
               PROVE  v \in InUseBy(m, O) /\ n.pte[v] = m.pte[v] /\ v \in Pages
    OBVIOUS
  <2>1. v \in Pages
    BY <1>8 DEF InUseBy, LoadedPages
  <2>2. n.pte[v] = m.pte[v]
    BY <2>1 DEF Grown
  <2>3. QED
    BY <2>1, <2>2 DEF InUseBy, LoadedPages
<1>10. \A v \in M : /\ n.pte[v] \in Fresh(m, n) /\ n.dir[Dir(v)] # None
                    /\ \A d \in Dirs : m.dir[d] # n.dir[d] => n.dir[d] # n.pte[v]
  BY DEF Grown
<1>11. OwnersInv(n, P)
  <2>1. ASSUME NEW v \in LoadedPages(n) PROVE n.dir[Dir(v)] # None
    <3>1. CASE v \in M
      BY <1>10, <3>1
    <3>2. CASE v \notin M
      <4>1. v \in Pages /\ v \in LoadedPages(m) /\ Dir(v) \in Dirs
        BY <3>2, DirIs DEF LoadedPages, Grown
      <4>2. m.dir[Dir(v)] # None
        BY <1>1, <4>1 DEF OwnersInv
      <4>3. QED
        BY <1>4, <4>1, <4>2
    <3>3. QED
      BY <3>1, <3>2
  <2>2. ASSUME NEW v \in InUseBy(n, P) PROVE OwnFrame(n, v)
    <3>1. CASE v \in M
      <4>1. n.pte[v] \in Taken(n) /\ n.pte[v] \notin Taken(m)
        BY <1>3, <1>10, <3>1
      <4>2. ASSUME NEW d \in Dirs \ {0} PROVE n.dir[d] # n.pte[v]
        <5>1. CASE n.dir[d] # m.dir[d]
          BY <1>10, <3>1, <5>1
        <5>2. CASE n.dir[d] = m.dir[d]
          <6>1. n.dir[d] = None \/ n.dir[d] \in Taken(m)
            BY <1>1, <5>2 DEF TablesInv
          <6>2. n.pte[v] # None
            BY <1>3, <1>10, <3>1
          <6>3. QED
            BY <4>1, <6>1, <6>2
        <5>3. QED
          BY <5>1, <5>2
      <4>3. QED
        BY <4>1, <4>2 DEF OwnFrame
    <3>2. CASE v \notin M
      <4>1. v \in InUseBy(m, O) /\ n.pte[v] = m.pte[v]
        BY <1>9, <3>2
      <4>2. OwnFrame(m, v)
        BY <1>1, <4>1 DEF OwnersInv
      <4>3. CASE v = StackPage /\ m.pte[v] = 0
        BY <4>1, <4>3 DEF OwnFrame
      <4>4. CASE m.pte[v] \in Taken(m) /\ \A d \in Dirs \ {0} : m.dir[d] # m.pte[v]
        <5>1. \A d \in Dirs \ {0} : n.dir[d] # n.pte[v]
          BY <1>3, <1>4, <4>1, <4>4
        <5>2. QED
          BY <1>3, <4>1, <4>4, <5>1 DEF OwnFrame
      <4>5. QED
        BY <4>2, <4>3, <4>4 DEF OwnFrame
    <3>3. QED
      BY <3>1, <3>2
  <2>3. ASSUME NEW v \in InUseBy(n, P), NEW w \in InUseBy(n, P), v # w PROVE n.pte[v] # n.pte[w]
    <3>1. CASE v \in M /\ w \in M
      BY <2>3, <3>1 DEF Grown
    <3>2. CASE v \notin M /\ w \notin M
      BY <1>1, <1>9, <2>3, <3>2 DEF OwnersInv
    <3>3. ASSUME NEW x \in InUseBy(n, P), NEW y \in InUseBy(n, P), x \in M, y \notin M
          PROVE  n.pte[x] # n.pte[y]
      <4>1. y \in InUseBy(m, O) /\ n.pte[y] = m.pte[y]
        BY <1>9, <3>3
      <4>2. m.pte[y] \in Taken(m) \/ m.pte[y] = 0
        BY <1>1, <4>1 DEF OwnersInv, OwnFrame
      <4>3. n.pte[x] \notin Taken(m) /\ n.pte[x] # 0
        BY <1>3, <1>10, <3>3
      <4>4. QED
        BY <4>1, <4>2, <4>3
    <3>4. QED
      BY <3>1, <3>2, <3>3
  <2>4. QED
    BY <2>1, <2>2, <2>3 DEF OwnersInv
<1>12. FreeInv(n, P)
  <2>1. ASSUME NEW k \in 1 .. Len(n.free_virtual)
        PROVE  /\ n.free_virtual[k] \in KernelEnd .. n.next_virtual - 1
               /\ n.pte[n.free_virtual[k]] = None
               /\ n.free_virtual[k] \notin P
    <3>1. /\ m.free_virtual[k] \in KernelEnd .. m.next_virtual - 1
          /\ m.pte[m.free_virtual[k]] = None /\ m.free_virtual[k] \notin O
      BY <1>1, <1>2, <2>1 DEF FreeInv
    <3>2. m.free_virtual[k] \in 0 .. TablePages - 1
      BY <1>1, <3>1, LayoutIs
    <3>3. m.free_virtual[k] \in Pages /\ m.free_virtual[k] \notin High
      BY <3>2, LowPages, LayoutIs DEF High
    <3>4. m.free_virtual[k] \notin M
      BY <1>2, <2>1, <3>3
    <3>5. n.pte[m.free_virtual[k]] = None
      BY <3>1, <3>3, <3>4 DEF Grown
    <3>6. QED
      BY <1>2, <3>1, <3>4, <3>5
  <2>2. ASSUME NEW v \in n.stale PROVE v \in KernelEnd .. n.next_virtual - 1 /\ v \notin P
    <3>1. v \in m.stale /\ v \notin M
      BY <1>2 DEF Grown
    <3>2. QED
      BY <1>1, <1>2, <3>1 DEF FreeInv
  <2>3. \A k, l \in 1 .. Len(n.free_virtual) : k # l => n.free_virtual[k] # n.free_virtual[l]
    BY <1>1, <1>2 DEF FreeInv
  <2>4. QED
    BY <2>1, <2>2, <2>3 DEF FreeInv
<1>13. QED
  BY <1>1, <1>2, <1>5, <1>6, <1>7, <1>11, <1>12 DEF MemInv
-----------------------------------------------------------------------------
(* MapEach().                                                              *)

(* When an allocate() of the call has failed, the next one fails as well.   *)
NoMore(m) == m.short => allocate(m.map).addr = 0

\* allocate() and map_page() do not take what allocate() could not have.
LEMMA MapNewNoMore ==
    ASSUME NEW m, NEW O, MemInv(m, O), m.status = "ok", NoMore(m), NEW v \in Pages,
           NEW user \in BOOLEAN
    PROVE  LET r == MapNew(m, v, user)
           IN  NoMore(r.mem) /\ (r.addr # 0 => ~ m.short)
<1> DEFINE a == allocate(m.map)
           r == MapNew(m, v, user)
<1>1. m \in Memories /\ SoundMap(m.map) /\ TablesInv(m) /\ Identity(m)
      /\ m.next_virtual \in KernelEnd .. MaxNext
  BY DEF MemInv
<1>2. /\ SoundMap(a.map)
      /\ \/ a.addr = 0 /\ a.map = m.map
         \/ /\ a.addr \in FrameAddrs /\ a.addr \notin UsedBases(m.map)
            /\ UsedBases(a.map) = UsedBases(m.map) \cup {a.addr}
  BY <1>1, AllocateSound
<1>3. CASE a.addr = 0 /\ a.map = m.map
  <2>1. r.mem = [m EXCEPT !.short = TRUE] /\ r.addr = 0
    BY <1>3 DEF MapNew, MapFrame
  <2>2. r.mem.map = m.map
    BY <1>1, <2>1 DEF Memories
  <2>3. QED
    BY <1>3, <2>1, <2>2 DEF NoMore
<1>4. CASE /\ a.addr \in FrameAddrs /\ a.addr \notin UsedBases(m.map)
           /\ UsedBases(a.map) = UsedBases(m.map) \cup {a.addr}
  <2> DEFINE m1 == [m EXCEPT !.map = a.map]
             t == TableFor(m1, v)
             n == SetEntry(m1, t, a.addr, v, user)
  <2>1. a.addr \in Nat /\ a.addr # 0 /\ Masked(a.addr) = a.addr
    BY <1>4, FrameIs
  <2>2. r.addr = a.addr /\ r.mem = n
    BY <2>1 DEF MapNew, MapFrame, map_page
  <2>3. ~ m.short
    BY <2>1 DEF NoMore
  <2>4. a.map \in Seq(Entries)
    BY <1>2 DEF SoundMap, WellFormed
  <2>5. /\ m1 \in Memories /\ m1.map = a.map /\ m1.dir = m.dir /\ m1.pte = m.pte
        /\ m1.next_virtual = m.next_virtual /\ ~ m1.short
    BY <1>1, <2>3, <2>4 DEF Memories
  <2> HIDE DEF m1
  <2>6. TablesInv(m1) /\ Identity(m1)
    <3>1. \A x : x \in Taken(m) => x \in Taken(m1)
      BY <1>4, <2>5 DEF Taken
    <3>2. TablesInv(m1)
      BY <1>1, <2>5, <3>1 DEF TablesInv
    <3>3. QED
      BY <1>1, <2>5, <3>2 DEF Identity
  <2>7. /\ t.addr \in Nat /\ SoundMap(t.map)
        /\ t.addr = 0 => t.map = m1.map /\ allocate(m1.map).addr = 0
    <3>1. FrameAddrs \subseteq Nat \ {0}
      BY DEF FrameAddrs
    <3>2. QED
      BY <1>1, <1>2, <2>5, <2>6, TableForIs
  <2>8. t.map \in Seq(Entries)
    BY <2>7 DEF SoundMap, WellFormed
  <2> HIDE DEF t
  <2>9. CASE t.addr = 0
    <3>1. n.map = m1.map
      BY <2>5, <2>9, SetEntryShort
    <3>2. QED
      BY <2>2, <2>3, <2>7, <2>9, <3>1 DEF NoMore
  <2>10. CASE t.addr # 0 /\ Access(m1, t.addr) # "ok"
    <3>1. n.short = m1.short
      BY <2>5, <2>7, <2>8, <2>10, SetEntryLost
    <3>2. QED
      BY <2>2, <2>3, <2>5, <3>1 DEF NoMore
  <2>11. CASE t.addr # 0 /\ Access(m1, t.addr) = "ok"
    <3>1. n.short = m1.short
      BY <2>1, <2>5, <2>7, <2>8, <2>11, SetEntryDone
    <3>2. QED
      BY <2>2, <2>3, <2>5, <3>1 DEF NoMore
  <2>12. QED
    BY <2>9, <2>10, <2>11
<1>5. QED
  BY <1>2, <1>3, <1>4

(* The pages of R can be mapped: they lie behind the first table, or where *)
(* next_virtual has been and are nobody's.                                 *)
Room(m, O, R) ==
    /\ R \subseteq Pages
    /\ \A v \in R : \/ v \in High
                    \/ /\ v \in KernelEnd .. m.next_virtual - 1 /\ v \notin O
                       /\ \A k \in 1 .. Len(m.free_virtual) : m.free_virtual[k] # v

(* The results of mapping the pages of R one after another; M got a frame. *)
MapsPages(m, O, r, R, user, M) ==
    /\ r.ok \in BOOLEAN
    /\ M \subseteq R
    /\ Grown(m, r.mem, M)
    /\ MemInv(r.mem, O \cup (M \cap Low))
    /\ user => UserPages(r.mem, M)
    /\ r.ok /\ r.mem.status = "ok" /\ (R \subseteq Low \/ ~ r.mem.short) =>
          M = R /\ Exact(m, r.mem, M)
    /\ r.mem.status # "ok" => Beyond(r.mem) /\ ~ (R \subseteq Low)
    /\ ~ r.ok => r.mem.short /\ r.mem.status = "ok"
    /\ NoMore(m) => NoMore(r.mem)

\* Nothing is growth as well.
LEMMA GrownItself ==
    ASSUME NEW m, NEW O, MemInv(m, O)
    PROVE  Grown(m, m, {}) /\ UserPages(m, {}) /\ Exact(m, m, {})
<1>1. m \in Memories /\ SoundMap(m.map)
  BY DEF MemInv
<1>2. Grown(m, m, {}) /\ UserPages(m, {})
  BY <1>1 DEF Grown, SameRest, UserPages
<1>3. QED
  BY <1>2 DEF Exact, Fresh

\* One more step of MapEach().
LEMMA OneMore ==
    ASSUME NEW m, NEW O, MemInv(m, O), NEW user \in BOOLEAN, NEW R, NEW v \in Pages, v \notin R,
           NEW S, S = R \cup {v}, Room(m, O, S),
           NEW r, NEW M, MapsPages(m, O, r, R, user, M)
    PROVE  \E N \in SUBSET Pages : MapsPages(m, O, MapOne(r, v, user), S, user, N)
<1>0. SoundMap(m.map) /\ M \subseteq Pages /\ TablePages \in Nat /\ v \in Nat
  BY LayoutIs, DirIs DEF MapsPages, MemInv, Room
<1>1. CASE ~ r.ok \/ r.mem.status # "ok"
  <2>1. MapOne(r, v, user) = r
    BY <1>1 DEF MapOne
  <2>2. MapsPages(m, O, r, R \cup {v}, user, M)
    BY <1>1 DEF MapsPages
  <2>3. QED
    BY <1>0, <2>1, <2>2
<1>2. CASE r.ok /\ r.mem.status = "ok"
  <2> DEFINE n == MapNew(r.mem, v, user)
             P == O \cup (M \cap Low)
             s == MapOne(r, v, user)
  <2>1. s.mem = n.mem /\ s.ok \in BOOLEAN /\ (s.ok <=> n.addr # 0)
    BY <1>2 DEF MapOne
  <2>2. MemInv(r.mem, P) /\ Grown(m, r.mem, M) /\ M \subseteq R
    BY DEF MapsPages
  <2>3. /\ n.addr \in Nat
        /\ MapsOne(r.mem, n, v, user, {}) \/ MapsOne(r.mem, n, v, user, {v})
        /\ n.mem.status # "ok" => Beyond(n.mem) /\ v >= TablePages
        /\ n.addr = 0 => n.mem.short /\ n.mem.status = "ok"
    BY <1>2, <2>2, MapNewGrows
  <2>4. PICK N \in {{}, {v}} : MapsOne(r.mem, n, v, user, N)
    BY <2>3
  <2> HIDE DEF n, s
  <2>5. /\ Grown(r.mem, n.mem, N) /\ (user => UserPages(n.mem, N))
        /\ n.addr # 0 /\ n.mem.status = "ok" /\ (v < TablePages \/ ~ n.mem.short) =>
             N = {v} /\ Exact(r.mem, n.mem, N)
        /\ (r.mem.short => n.mem.short)
    BY <2>4 DEF MapsOne, Grown
  <2>6. N \subseteq Pages /\ M \cap N = {} /\ N \subseteq {v}
    BY <2>2, <2>4
  <2>7. /\ Grown(m, n.mem, M \cup N)
        /\ UserPages(r.mem, M) /\ UserPages(n.mem, N) => UserPages(n.mem, M \cup N)
        /\ Exact(m, r.mem, M) /\ Exact(r.mem, n.mem, N) => Exact(m, n.mem, M \cup N)
    BY <1>0, <2>2, <2>5, <2>6, GrownTwice
  <2>8. MemInv(n.mem, O \cup ((M \cup N) \cap Low))
    <3>1. r.mem.next_virtual = m.next_virtual /\ r.mem.free_virtual = m.free_virtual
      BY <2>2 DEF Grown, SameRest
    <3>2. \A w \in M \cup N : \/ w \in High
                      \/ /\ w \in KernelEnd .. m.next_virtual - 1 /\ w \notin O
                         /\ \A k \in 1 .. Len(m.free_virtual) : m.free_virtual[k] # w
      BY <2>2, <2>6 DEF Room
    <3>3. M \cup N \subseteq Pages
      BY <1>0, <2>6
    <3> HIDE DEF P
    <3>4. QED
      BY <2>7, <3>2, <3>3, GrownKeeps
  <2>9. ASSUME s.ok, n.mem.status = "ok", R \cup {v} \subseteq Low \/ ~ n.mem.short
        PROVE  M \cup N = R \cup {v} /\ Exact(m, n.mem, M \cup N)
    <3>1. M = R /\ Exact(m, r.mem, M)
      BY <1>2, <2>5, <2>9 DEF MapsPages
    <3>2. v < TablePages \/ ~ n.mem.short
      BY <1>0, <2>9, LayoutIs DEF Low
    <3>3. N = {v} /\ Exact(r.mem, n.mem, N)
      BY <2>1, <2>3, <2>5, <2>9, <3>2
    <3>4. QED
      BY <2>7, <3>1, <3>3
  <2>10. n.mem.status # "ok" => ~ (R \cup {v} \subseteq Low)
    BY <1>0, <2>3, LayoutIs DEF Low
  <2>11. MapsPages(m, O, s, R \cup {v}, user, M \cup N)
    <3>1. user => UserPages(n.mem, M \cup N)
      BY <2>5, <2>7 DEF MapsPages
    <3>2. NoMore(m) => NoMore(n.mem)
      BY <1>2, <2>2, MapNewNoMore DEF MapsPages, n
    <3>3. QED
      BY <2>1, <2>2, <2>3, <2>6, <2>7, <2>8, <2>9, <2>10, <3>1, <3>2 DEF MapsPages
  <2>12. M \cup N \in SUBSET Pages
    BY <1>0, <2>6
  <2>13. QED
    BY <2>11, <2>12 DEF s
<1>3. QED
  BY <1>1, <1>2 DEF MapsPages

\* All steps of MapEach(), by induction along its recursion.
LEMMA MapEachGrows ==
    ASSUME NEW m, NEW O, MemInv(m, O), m.status = "ok", NEW first \in Nat, NEW count \in Nat,
           NEW user \in BOOLEAN, NEW S, S = first .. first + count - 1, Room(m, O, S)
    PROVE  \E M \in SUBSET Pages : MapsPages(m, O, MapEach(m, first, count, user), S, user, M)
<1> DEFINE T == [mem : Memories, ok : BOOLEAN]
           b == [mem |-> m, ok |-> TRUE]
           page(k) == first + k - 1
           F(g) == [k \in 0 .. count |->
                       IF k = 0 THEN b ELSE MapOne(g[k - 1], first + k - 1, user)]
           step == [k \in 1 .. count |->
                      [x \in T |-> IF MapOne(x, page(k), user) \in T
                                   THEN MapOne(x, page(k), user) ELSE x]]
           r == CHOOSE f : f = F(f)
           R(k) == first .. first + k - 1
           Good(x, k) == \E M \in SUBSET Pages : MapsPages(m, O, x, R(k), user, M)
<1>1. b \in T /\ b.mem = m /\ b.ok = TRUE
  BY DEF MemInv
<1>2. MapEach(m, first, count, user) = r[count]
  BY DEF MapEach
<1> HIDE DEF b
<1>3. step \in [1 .. count -> [T -> T]]
  <2> HIDE DEF T
  <2>1. QED
    OBVIOUS
<1>4. PICK g \in [0 .. count -> T] : Iterated(g, count, b, step)
  <2> HIDE DEF step, T
  <2>1. QED
    BY <1>1, <1>3, Iterates
<1>5. g[0] = b /\ \A k \in 1 .. count : k - 1 \in 0 .. count /\ g[k - 1] \in T /\ g[k] = step[k][g[k - 1]]
  <2> HIDE DEF step, T
  <2>1. QED
    BY <1>4 DEF Iterated
<1> DEFINE Q == {k \in 0 .. count : Good(g[k], k)}
<1>6. 0 \in Q
  <2>1. MapsPages(m, O, b, {}, user, {})
    <3>1. O \cup ({} \cap Low) = O
      OBVIOUS
    <3>2. QED
      BY <1>1, <3>1, GrownItself DEF MapsPages
  <2>2. R(0) = {}
    OBVIOUS
  <2>3. Good(b, 0)
    <3> HIDE DEF R
    <3>1. {} \in SUBSET Pages
      OBVIOUS
    <3>2. QED
      BY <2>1, <2>2, <3>1
  <2> HIDE DEF Good
  <2>4. QED
    BY <1>5, <2>3
<1>7. ASSUME NEW k \in 1 .. count, k - 1 \in Q
      PROVE  k \in Q /\ g[k] = MapOne(g[k - 1], page(k), user)
  <2> DEFINE s == MapOne(g[k - 1], page(k), user)
  <2>1. PICK M \in SUBSET Pages : MapsPages(m, O, g[k - 1], R(k - 1), user, M)
    BY <1>7
  <2>2. /\ R(k) = R(k - 1) \cup {page(k)} /\ page(k) \notin R(k - 1)
        /\ R(k) \subseteq first .. first + count - 1
    OBVIOUS
  <2>3. Room(m, O, R(k))
    BY <2>2 DEF Room
  <2>4. page(k) \in Pages
    BY <2>2, <2>3 DEF Room
  <2> HIDE DEF R, page
  <2>5. \E N \in SUBSET Pages : MapsPages(m, O, s, R(k), user, N)
    <3> DEFINE x == g[k - 1]
               U == R(k - 1)
               w == page(k)
               V == R(k)
    <3>1. /\ MapsPages(m, O, x, U, user, M) /\ w \notin U /\ w \in Pages
          /\ V = U \cup {w} /\ Room(m, O, V)
      BY <2>1, <2>2, <2>3, <2>4
    <3> HIDE DEF x, U, w, V
    <3>2. \E N \in SUBSET Pages : MapsPages(m, O, MapOne(x, w, user), V, user, N)
      BY <3>1, OneMore
    <3>3. QED
      BY <3>2 DEF x, V, w
  <2>6. s \in T
    <3>1. s.mem \in Memories /\ s.ok \in BOOLEAN
      BY <2>5 DEF MapsPages, MemInv
    <3>2. CASE s = g[k - 1]
      BY <1>5, <3>2
    <3>3. CASE s = [mem |-> MapNew(g[k - 1].mem, page(k), user).mem,
                    ok |-> MapNew(g[k - 1].mem, page(k), user).addr # 0]
      BY <3>1, <3>3
    <3>4. QED
      BY <3>2, <3>3 DEF MapOne
  <2>7. g[k] = s
    BY <1>5, <2>6
  <2>8. QED
    BY <2>5, <2>7
<1>8. Q = 0 .. count
  <2> HIDE DEF Q
  <2>1. Q \subseteq 0 .. count
    BY DEF Q
  <2>2. QED
    BY <1>6, <1>7, <2>1, Reaches
<1>9. \A k \in 1 .. count : g[k] = MapOne(g[k - 1], page(k), user)
  <2> HIDE DEF Q
  <2>1. \A k \in 1 .. count : k - 1 \in Q
    BY <1>8
  <2>2. QED
    BY <1>7, <2>1
<1>10. g = F(g)
  BY <1>4, <1>5, <1>9
<1>11. r = F(r)
  <2> HIDE DEF F
  <2>1. QED
    BY <1>10, Zenon
<1> HIDE DEF r
<1> HIDE DEF T
<1>12. r[0] = b /\ \A k \in 1 .. count : r[k] = MapOne(r[k - 1], page(k), user)
  BY <1>11
<1>13. r[count] = g[count]
  <2> DEFINE E == {k \in 0 .. count : r[k] = g[k]}
  <2>1. 0 \in E
    BY <1>5, <1>12
  <2>2. ASSUME NEW k \in 1 .. count, k - 1 \in E PROVE k \in E
    <3>1. r[k - 1] = g[k - 1]
      BY <2>2
    <3>2. r[k] = MapOne(r[k - 1], page(k), user) /\ g[k] = MapOne(g[k - 1], page(k), user)
      BY <1>9, <1>12
    <3>3. QED
      BY <3>1, <3>2
  <2> HIDE DEF E
  <2>3. E \subseteq 0 .. count
    BY DEF E
  <2>4. E = 0 .. count
    BY <2>1, <2>2, <2>3, Reaches
  <2>5. QED
    BY <2>4 DEF E
<1>14. Good(g[count], count)
  <2> HIDE DEF Good
  <2>1. count \in Q
    BY <1>8
  <2>2. QED
    BY <2>1
<1>15. QED
  BY <1>2, <1>13, <1>14
-----------------------------------------------------------------------------
(* The calls that hand out pages and take them back.                       *)

\* The invariant holds for fewer owners too.
LEMMA FewerOwners ==
    ASSUME NEW m, NEW O, NEW P, MemInv(m, O), P \subseteq O
    PROVE  MemInv(m, P)
<1>1. OwnersInv(m, P) /\ FreeInv(m, P) /\ P \subseteq KernelEnd .. m.next_virtual - 1
  BY DEF MemInv, OwnersInv, FreeInv, InUseBy
<1>2. QED
  BY <1>1 DEF MemInv

(* Only next_virtual, the list of free pages and the history have changed. *)
LEMMA Renumbered ==
    ASSUME NEW m, NEW n \in Memories, NEW O, MemInv(m, O),
           n.map = m.map, n.dir = m.dir, n.pte = m.pte,
           n.next_virtual \in m.next_virtual .. MaxNext, FreeInv(n, O)
    PROVE  MemInv(n, O)
<1>1. /\ SoundMap(n.map) /\ m.next_virtual \in KernelEnd .. MaxNext
      /\ O \subseteq KernelEnd .. m.next_virtual - 1
      /\ TablesInv(m) /\ Identity(m) /\ OwnersInv(m, O)
  BY DEF MemInv
<1>2. Taken(n) = Taken(m) /\ LoadedPages(n) = LoadedPages(m)
  BY DEF Taken, LoadedPages
<1>3. TablesInv(n)
  BY <1>1, <1>2 DEF TablesInv
<1>4. Identity(n)
  BY <1>1, LayoutIs DEF Identity
<1>5. OwnersInv(n, O)
  <2>1. \A v : OwnFrame(m, v) => OwnFrame(n, v)
    BY <1>2 DEF OwnFrame
  <2>2. QED
    BY <1>1, <1>2, <2>1 DEF OwnersInv, InUseBy
<1>6. n.next_virtual \in KernelEnd .. MaxNext /\ O \subseteq KernelEnd .. n.next_virtual - 1
  BY <1>1, LayoutIs
<1>7. QED
  BY <1>1, <1>3, <1>4, <1>5, <1>6 DEF MemInv

(* Mapping pages loses the frames that they had before, and no other.      *)
LEMMA GrownLeaks ==
    ASSUME NEW m, NEW n, NEW O, MemInv(m, O), NEW M, M \subseteq Low \cup High, M \cap O = {},
           Grown(m, n, M), Exact(m, n, M)
    PROVE  \A a \in Lost(n, InUseBy(n, O \cup (M \cap Low))) :
              \/ a \in Lost(m, InUseBy(m, O))
              \/ \E v \in M : v \in LoadedPages(m) /\ m.pte[v] = a
<1> DEFINE P == O \cup (M \cap Low)
<1> SUFFICES ASSUME NEW a \in Taken(n), \A v \in InUseBy(n, P) : n.pte[v] # a, a \notin NewTables(n)
             PROVE  \/ a \in Lost(m, InUseBy(m, O))
                    \/ \E v \in M : v \in LoadedPages(m) /\ m.pte[v] = a
  BY DEF Lost
<1>1. SoundMap(m.map) /\ SoundMap(n.map) /\ UsedBases(m.map) \subseteq UsedBases(n.map)
  BY DEF MemInv, Grown
<1>2. M \subseteq Pages
  <2>1. \A v \in Low : v \in 0 .. TablePages - 1
    BY LayoutIs DEF Low
  <2>2. QED
    BY <2>1, LowPages DEF High
<1>3. \A d \in Dirs \ {0} : n.dir[d] = a => a = None
  <2>1. Dirs \ {0} = 1 .. Tables - 1
    BY LayoutIs DEF Dirs
  <2>2. QED
    BY <2>1 DEF NewTables
<1>4. \A v \in M : n.pte[v] # None => v \in InUseBy(n, P)
  BY <1>2 DEF InUseBy, LoadedPages, High
<1>5. a \notin Fresh(m, n)
  <2> SUFFICES ASSUME a \in Fresh(m, n) PROVE FALSE
    OBVIOUS
  <2>1. a # None
    BY <1>1, FreshFrames, FrameIs
  <2>2. QED
    BY <1>3, <1>4, <2>1 DEF Exact
<1>6. a \in Taken(m) /\ a # None
  <2>1. a \in Taken(m)
    BY <1>5 DEF Taken, Fresh
  <2>2. QED
    BY <1>1, <2>1, TakenFrames, FrameIs DEF Taken, Reserved
<1>7. a \notin NewTables(m)
  <2> SUFFICES ASSUME NEW e \in 1 .. Tables - 1, m.dir[e] # None, m.dir[e] = a PROVE FALSE
    BY DEF NewTables
  <2>1. e \in Dirs \ {0}
    BY LayoutIs DEF Dirs
  <2>2. n.dir[e] = a
    BY <2>1 DEF Grown
  <2>3. QED
    BY <1>3, <1>6, <2>1, <2>2
<1>8. CASE \E v \in InUseBy(m, O) : m.pte[v] = a
  <2>1. PICK v \in InUseBy(m, O) : m.pte[v] = a
    BY <1>8
  <2>2. CASE v \in M
    BY <2>1, <2>2 DEF InUseBy
  <2>3. CASE v \notin M
    <3>1. v \in Pages
      <4>1. O \subseteq KernelEnd .. m.next_virtual - 1 /\ m.next_virtual \in KernelEnd .. MaxNext
        BY DEF MemInv
      <4>2. \A w \in O : w \in 0 .. TablePages - 1
        BY <4>1, LayoutIs
      <4>3. QED
        BY <4>2, LowPages DEF InUseBy, LoadedPages
    <3>2. n.pte[v] = a
      BY <2>1, <2>3, <3>1 DEF Grown
    <3>3. v \in InUseBy(n, P)
      BY <1>6, <2>1, <3>1, <3>2 DEF InUseBy, LoadedPages
    <3>4. QED
      BY <3>2, <3>3
  <2>4. QED
    BY <2>2, <2>3
<1>9. CASE ~ \E v \in InUseBy(m, O) : m.pte[v] = a
  BY <1>6, <1>7, <1>9 DEF Lost
<1>10. QED
  BY <1>8, <1>9

(* What was loaded stays where it is, and user code can still touch it.    *)
Keeps(m, n) ==
    /\ \A v \in High : /\ n.pte[v] = m.pte[v]
                       /\ v \in m.user => v \in n.user
    /\ \A d \in Dirs : /\ m.dir[d] # None => n.dir[d] = m.dir[d]
                       /\ DirBit(d) \in m.user => DirBit(d) \in n.user

(* A call that brings memory m to n, and the owned pages O to P.           *)
Call(m, O, n, P) ==
    /\ MemInv(n, P)
    /\ n.status = "ok"
    /\ m.short => n.short
    /\ Keeps(m, n)
    /\ ~ n.short => \A a \in Lost(n, InUseBy(n, P)) : a \in Lost(m, InUseBy(m, O))

\* Calls compose.
LEMMA Calls ==
    ASSUME NEW m, NEW n, NEW o, NEW O, NEW P, NEW Q, Call(m, O, n, P), Call(n, P, o, Q)
    PROVE  Call(m, O, o, Q)
<1>1. Keeps(m, o)
  BY DEF Call, Keeps
<1>2. QED
  BY <1>1 DEF Call

\* Not to call is a call.
LEMMA NoCall ==
    ASSUME NEW m, NEW O, MemInv(m, O), m.status = "ok"
    PROVE  Call(m, O, m, O)
BY DEF Call, Keeps

(* allocate() failed: nothing but the history has changed.                 *)
LEMMA FailedCall ==
    ASSUME NEW m, NEW O, MemInv(m, O), m.status = "ok"
    PROVE  LET n == [m EXCEPT !.short = TRUE]
           IN  Call(m, O, n, O) /\ n.short /\ n.next_virtual = m.next_virtual
<1> DEFINE n == [m EXCEPT !.short = TRUE]
<1>1. m \in Memories /\ m.next_virtual \in KernelEnd .. MaxNext /\ FreeInv(m, O)
  BY DEF MemInv
<1>2. /\ n \in Memories /\ n.map = m.map /\ n.dir = m.dir /\ n.pte = m.pte /\ n.user = m.user
      /\ n.next_virtual = m.next_virtual /\ n.free_virtual = m.free_virtual
      /\ n.stale = m.stale /\ n.status = m.status /\ n.short
  BY <1>1 DEF Memories
<1> HIDE DEF n
<1>3. FreeInv(n, O) /\ n.next_virtual \in m.next_virtual .. MaxNext
  BY <1>1, <1>2, LayoutIs DEF FreeInv
<1>4. MemInv(n, O)
  BY <1>2, <1>3, Renumbered
<1>5. Keeps(m, n)
  BY <1>2 DEF Keeps
<1>6. QED
  BY <1>2, <1>4, <1>5 DEF Call, n

(* Owned pages that were mapped, behind a change of the page numbers.      *)
LEMMA GrownCall ==
    ASSUME NEW m, NEW n \in Memories, NEW o, NEW O, MemInv(m, O), MemInv(n, O),
           n.map = m.map, n.dir = m.dir, n.pte = m.pte, n.user = m.user, n.short = m.short,
           NEW M, M \subseteq Low, M \cap O = {},
           Grown(n, o, M), MemInv(o, O \cup M), o.status = "ok", o.short \/ Exact(n, o, M)
    PROVE  Call(m, O, o, O \cup M)
<1>1. Keeps(m, o)
  <2>1. Low \cap High = {} /\ High \subseteq Pages
    BY LayoutIs DEF Low, High
  <2>2. \A v \in High : v \notin M /\ v \in Pages
    BY <2>1
  <2>3. QED
    BY <2>2 DEF Grown, Keeps
<1>2. ASSUME ~ o.short
      PROVE  \A a \in Lost(o, InUseBy(o, O \cup M)) : a \in Lost(m, InUseBy(m, O))
  <2>1. O \cup (M \cap Low) = O \cup M /\ M \subseteq Low \cup High
    OBVIOUS
  <2>2. \A a \in Lost(o, InUseBy(o, O \cup (M \cap Low))) :
              \/ a \in Lost(n, InUseBy(n, O))
              \/ \E v \in M : v \in LoadedPages(n) /\ n.pte[v] = a
    BY <1>2, <2>1, GrownLeaks
  <2>3. Lost(n, InUseBy(n, O)) = Lost(m, InUseBy(m, O)) /\ LoadedPages(n) = LoadedPages(m)
    BY DEF Lost, InUseBy, LoadedPages, NewTables, Taken
  <2>4. \A v \in M : v \notin LoadedPages(n)
    BY LayoutIs DEF Low, LoadedPages
  <2>5. QED
    BY <2>1, <2>2, <2>3, <2>4
<1>3. m.short => o.short
  BY DEF Grown
<1>4. QED
  BY <1>1, <1>2, <1>3 DEF Call

\* The rest of free_virtual[] when the last page is taken.
LEMMA FrontIs ==
    ASSUME NEW s \in Seq(Nat), s # <<>>
    PROVE  /\ Front(s) \in Seq(Nat) /\ Len(Front(s)) = Len(s) - 1
           /\ \A k \in 1 .. Len(s) - 1 : Front(s)[k] = s[k]
           /\ Last(s) = s[Len(s)] /\ Len(s) \in 1 .. Len(s)
<1> DEFINE n == Len(s)
           a == SubSeq(s, 1, n - 1)
<1>1. n \in Nat /\ n # 0 /\ \A k \in 1 .. n : s[k] \in Nat
  OBVIOUS
<1>2. \A k \in 1 .. n - 1 : s[k] \in Nat
  BY <1>1
<1>3. /\ a \in Seq(Nat) /\ Len(a) = (IF 1 <= n - 1 THEN n - 1 - 1 + 1 ELSE 0)
      /\ \A k \in 1 .. n - 1 - 1 + 1 : a[k] = s[1 + k - 1]
  <2> HIDE DEF n
  <2>1. QED
    BY <1>1, <1>2, SubSeqProperties, 1 \in Int, n - 1 \in Int
<1> HIDE DEF n
<1>4. Len(a) = n - 1 /\ \A k \in 1 .. n - 1 : a[k] = s[k]
  BY <1>1, <1>3
<1>5. Front(s) = a /\ Last(s) = s[n]
  BY DEF Front, Last, n
<1>6. QED
  BY <1>1, <1>3, <1>4, <1>5 DEF n

\* Moving next_virtual changes nothing else.
LEMMA NextMoved ==
    ASSUME NEW m \in Memories, NEW k \in Nat
    PROVE  LET n == [m EXCEPT !.next_virtual = @ + k]
           IN  /\ n \in Memories /\ n.map = m.map /\ n.dir = m.dir /\ n.pte = m.pte
               /\ n.user = m.user /\ n.short = m.short /\ n.stale = m.stale
               /\ n.status = m.status /\ n.next_virtual = m.next_virtual + k
               /\ n.free_virtual = m.free_virtual
<1>1. m.next_virtual + k \in Nat
  BY MemoryFields
<1>2. \A x \in Nat :
         LET n == [m EXCEPT !.next_virtual = x]
         IN  /\ n \in Memories /\ n.map = m.map /\ n.dir = m.dir /\ n.pte = m.pte
             /\ n.user = m.user /\ n.short = m.short /\ n.stale = m.stale
             /\ n.status = m.status /\ n.next_virtual = x
             /\ n.free_virtual = m.free_virtual
  BY DEF Memories
<1>3. QED
  BY <1>1, <1>2, Zenon

\* allocate_page(): a page that nobody has, or 0 without a frame.
LEMMA AllocatePage ==
    ASSUME NEW m, NEW O, MemInv(m, O), m.status = "ok", m.next_virtual < MaxNext,
           NEW user \in BOOLEAN
    PROVE  LET r == allocate_page(m, user)
           IN  /\ r.page = 0 => Call(m, O, r.mem, O) /\ r.mem.short
               /\ r.page # 0 => Call(m, O, r.mem, O \cup {r.page}) /\ r.page \in Low \ O
               /\ r.mem.next_virtual \in KernelEnd .. m.next_virtual + 1
<1> DEFINE reuse == m.free_virtual # <<>>
           v == IF reuse THEN Last(m.free_virtual) ELSE m.next_virtual
           taken == IF reuse THEN [m EXCEPT !.free_virtual = Front(@)]
                             ELSE [m EXCEPT !.next_virtual = @ + 1]
           r == MapNew(taken, v, user)
<1>1. /\ m \in Memories /\ m.next_virtual \in KernelEnd .. MaxNext /\ FreeInv(m, O)
      /\ O \subseteq KernelEnd .. m.next_virtual - 1
  BY DEF MemInv
<1>2. allocate_page(m, user) = IF r.addr = 0 THEN [mem |-> [m EXCEPT !.short = TRUE], page |-> 0]
                               ELSE [mem |-> r.mem, page |-> v]
  BY DEF allocate_page
<1>3. /\ taken \in Memories /\ taken.map = m.map /\ taken.dir = m.dir /\ taken.pte = m.pte
      /\ taken.user = m.user /\ taken.short = m.short /\ taken.stale = m.stale
      /\ taken.status = m.status
      /\ taken.next_virtual \in m.next_virtual .. m.next_virtual + 1
      /\ taken.next_virtual \in m.next_virtual .. MaxNext
      /\ v \in KernelEnd .. taken.next_virtual - 1 /\ v \notin O
      /\ FreeInv(taken, O)
      /\ \A k \in 1 .. Len(taken.free_virtual) : taken.free_virtual[k] # v
  <2>1. CASE reuse
    <3>1. m.free_virtual \in Seq(Nat)
      BY <1>1, MemoryFields
    <3> DEFINE f == Front(m.free_virtual)
    <3>2. /\ f \in Seq(Nat) /\ Len(f) = Len(m.free_virtual) - 1
          /\ \A k \in 1 .. Len(m.free_virtual) - 1 : f[k] = m.free_virtual[k]
          /\ Last(m.free_virtual) = m.free_virtual[Len(m.free_virtual)]
          /\ Len(m.free_virtual) \in 1 .. Len(m.free_virtual)
      BY <2>1, <3>1, FrontIs
    <3> HIDE DEF f
    <3>3. taken = [m EXCEPT !.free_virtual = f] /\ v = Last(m.free_virtual)
      BY <2>1 DEF f
    <3>4. /\ taken \in Memories /\ taken.map = m.map /\ taken.dir = m.dir /\ taken.pte = m.pte
          /\ taken.user = m.user /\ taken.short = m.short /\ taken.stale = m.stale
          /\ taken.status = m.status /\ taken.next_virtual = m.next_virtual
          /\ taken.free_virtual = f
      BY <1>1, <3>2, <3>3 DEF Memories
    <3> HIDE DEF taken, v
    <3>5. v \in KernelEnd .. m.next_virtual - 1 /\ v \notin O
      BY <1>1, <3>2, <3>3 DEF FreeInv
    <3> DEFINE L == Len(m.free_virtual)
    <3>6. L \in Nat /\ Len(f) = L - 1 /\ L \in 1 .. L
      BY <3>1, <3>2
    <3>7. \A k \in 1 .. Len(f) : k \in 1 .. L /\ k # L /\ f[k] = m.free_virtual[k]
      <4>1. \A k \in 1 .. L - 1 : k \in 1 .. L /\ k # L
        BY <3>6
      <4>2. QED
        BY <3>2, <3>6, <4>1
    <3> HIDE DEF L
    <3>8. /\ \A k \in 1 .. L : /\ m.free_virtual[k] \in KernelEnd .. m.next_virtual - 1
                               /\ m.pte[m.free_virtual[k]] = None
                               /\ m.free_virtual[k] \notin O
          /\ \A k, l \in 1 .. L : k # l => m.free_virtual[k] # m.free_virtual[l]
          /\ \A w \in m.stale : w \in KernelEnd .. m.next_virtual - 1 /\ w \notin O
      BY <1>1 DEF FreeInv, L
    <3>9. FreeInv(taken, O)
      BY <3>4, <3>7, <3>8 DEF FreeInv
    <3>10. \A k \in 1 .. Len(f) : f[k] # v
      BY <3>2, <3>3, <3>6, <3>7, <3>8 DEF L
    <3>11. QED
      BY <1>1, <3>4, <3>5, <3>9, <3>10, LayoutIs
  <2>2. CASE ~ reuse
    <3>1. taken = [m EXCEPT !.next_virtual = @ + 1] /\ v = m.next_virtual
      BY <2>2
    <3>2. /\ taken \in Memories /\ taken.map = m.map /\ taken.dir = m.dir /\ taken.pte = m.pte
          /\ taken.user = m.user /\ taken.short = m.short /\ taken.stale = m.stale
          /\ taken.status = m.status /\ taken.next_virtual = m.next_virtual + 1
          /\ taken.free_virtual = m.free_virtual
      <4> HIDE DEF taken
      <4>1. QED
        BY <1>1, <3>1, NextMoved
    <3> HIDE DEF taken, v
    <3>3. v \in KernelEnd .. taken.next_virtual - 1 /\ v \notin O
      BY <1>1, <3>1, <3>2, LayoutIs
    <3>4. FreeInv(taken, O)
      BY <1>1, <3>2, LayoutIs DEF FreeInv
    <3>5. Len(taken.free_virtual) = 0
      BY <2>2, <3>2
    <3>6. QED
      BY <1>1, <3>2, <3>3, <3>4, <3>5, LayoutIs
  <2>3. QED
    BY <2>1, <2>2
<1> HIDE DEF taken, v
<1>4. MemInv(taken, O)
  BY <1>3, Renumbered
<1>5. v \in 0 .. TablePages - 1 /\ v \in Low /\ v # 0
  BY <1>1, <1>3, LayoutIs DEF Low
<1>6. v \in Pages /\ v < TablePages
  BY <1>5, LowPages, LayoutIs
<1>7. /\ r.addr \in Nat
      /\ MapsOne(taken, r, v, user, {}) \/ MapsOne(taken, r, v, user, {v})
      /\ r.mem.status # "ok" => Beyond(r.mem) /\ v >= TablePages
  BY <1>3, <1>4, <1>6, MapNewGrows
<1> HIDE DEF r
<1>8. CASE r.addr = 0
  <2>1. allocate_page(m, user).page = 0 /\ allocate_page(m, user).mem = [m EXCEPT !.short = TRUE]
    BY <1>2, <1>8
  <2>2. QED
    BY <1>1, <2>1, FailedCall, LayoutIs
<1>9. CASE r.addr # 0
  <2>1. allocate_page(m, user).page = v /\ allocate_page(m, user).mem = r.mem
    BY <1>2, <1>9
  <2>2. r.mem.status = "ok"
    BY <1>5, <1>7, LayoutIs
  <2>3. Grown(taken, r.mem, {v}) /\ Exact(taken, r.mem, {v})
    BY <1>6, <1>7, <1>9, <2>2 DEF MapsOne
  <2>4. MemInv(r.mem, O \cup {v})
    <3>1. {v} \subseteq Pages /\ O \cup ({v} \cap Low) = O \cup {v}
      BY <1>5, <1>6
    <3>2. MemInv(r.mem, O \cup ({v} \cap Low))
      BY <1>3, <1>4, <2>3, <3>1, GrownKeeps
    <3>3. QED
      BY <3>1, <3>2
  <2>5. Call(m, O, r.mem, O \cup {v})
    <3> DEFINE M == {v}
    <3>1. M \subseteq Low /\ M \cap O = {}
      BY <1>3, <1>5
    <3>2. Grown(taken, r.mem, M) /\ Exact(taken, r.mem, M) /\ MemInv(r.mem, O \cup M)
      BY <2>3, <2>4
    <3> HIDE DEF M
    <3>3. Call(m, O, r.mem, O \cup M)
      BY <1>3, <1>4, <2>2, <3>1, <3>2, GrownCall
    <3>4. QED
      BY <3>3 DEF M
  <2>6. r.mem.next_virtual = taken.next_virtual
    BY <2>3 DEF Grown, SameRest
  <2>7. QED
    BY <1>1, <1>3, <1>5, <2>1, <2>5, <2>6, LayoutIs
<1>10. QED
  BY <1>8, <1>9

\* allocate_pages_contig(): pages that nobody has, or 0 without frames.
LEMMA AllocateContig ==
    ASSUME NEW m, NEW O, MemInv(m, O), m.status = "ok", NEW count \in Nat,
           m.next_virtual + count <= MaxNext, NEW user \in BOOLEAN
    PROVE  LET r == allocate_pages_contig(m, count, user)
               R == r.page .. r.page + count - 1
           IN  /\ r.page = 0 => Call(m, O, r.mem, O) /\ r.mem.short
               /\ r.page # 0 => Call(m, O, r.mem, O \cup R) /\ R \subseteq Low \ O
               /\ r.page \in Nat
               /\ r.mem.next_virtual = m.next_virtual + count
<1> DEFINE start == m.next_virtual
           n == [m EXCEPT !.next_virtual = @ + count]
           r == MapEach(n, start, count, user)
           R == start .. start + count - 1
           c == allocate_pages_contig(m, count, user)
<1>1. /\ m \in Memories /\ m.next_virtual \in KernelEnd .. MaxNext /\ FreeInv(m, O)
      /\ O \subseteq KernelEnd .. m.next_virtual - 1
  BY DEF MemInv
<1>2. c.mem = r.mem /\ c.page = IF r.ok THEN start ELSE 0
  BY DEF allocate_pages_contig
<1>3. /\ n \in Memories /\ n.map = m.map /\ n.dir = m.dir /\ n.pte = m.pte
      /\ n.user = m.user /\ n.short = m.short /\ n.stale = m.stale
      /\ n.status = m.status /\ n.next_virtual = m.next_virtual + count
      /\ n.free_virtual = m.free_virtual
  BY <1>1, NextMoved
<1> HIDE DEF n, c
<1>4. FreeInv(n, O) /\ n.next_virtual \in m.next_virtual .. MaxNext
  <2> DEFINE p == m.next_virtual
             q == n.next_virtual
  <2>1. p \in KernelEnd .. MaxNext /\ q = p + count /\ p + count <= MaxNext
    BY <1>1, <1>3
  <2> HIDE DEF p, q
  <2>2. q \in p .. MaxNext /\ \A v : v \in KernelEnd .. p - 1 => v \in KernelEnd .. q - 1
    BY <2>1, LayoutIs
  <2>3. FreeInv(n, O)
    BY <1>1, <1>3, <2>2 DEF FreeInv, p, q
  <2>4. QED
    BY <2>2, <2>3 DEF p, q
<1>5. MemInv(n, O)
  BY <1>3, <1>4, Renumbered
<1>6. R \subseteq Low /\ R \cap O = {} /\ start \in Nat /\ start # 0 /\ R \subseteq 0 .. TablePages - 1
  BY <1>1, LayoutIs DEF Low
<1>7. Room(n, O, R)
  <2>1. R \subseteq Pages
    BY <1>6, LowPages
  <2>2. \A v \in R : v \in KernelEnd .. n.next_virtual - 1
    BY <1>1, <1>3, LayoutIs
  <2>3. \A v \in R : \A k \in 1 .. Len(n.free_virtual) : n.free_virtual[k] # v
    BY <1>1, <1>3 DEF FreeInv
  <2>4. QED
    BY <1>6, <2>1, <2>2, <2>3 DEF Room
<1>8. PICK M \in SUBSET Pages : MapsPages(n, O, r, R, user, M)
  <2>1. R = start .. start + count - 1 /\ n.status = "ok"
    BY <1>3
  <2> HIDE DEF R, start
  <2>2. QED
    BY <1>5, <1>6, <1>7, <2>1, MapEachGrows
<1> HIDE DEF r, R
<1>9. /\ r.ok \in BOOLEAN /\ M \subseteq R /\ Grown(n, r.mem, M)
      /\ MemInv(r.mem, O \cup M) /\ r.mem.status = "ok"
      /\ r.ok => M = R /\ Exact(n, r.mem, M)
      /\ ~ r.ok => r.mem.short
  <2>1. O \cup (M \cap Low) = O \cup M
    BY <1>6, <1>8 DEF MapsPages
  <2>2. QED
    BY <1>6, <1>8, <2>1 DEF MapsPages
<1>10. Call(m, O, r.mem, O \cup M)
  <2>1. M \subseteq Low /\ M \cap O = {} /\ (r.mem.short \/ Exact(n, r.mem, M))
    BY <1>6, <1>9
  <2>2. QED
    BY <1>3, <1>5, <1>9, <2>1, GrownCall
<1>11. r.mem.next_virtual = n.next_virtual
  BY <1>9 DEF Grown, SameRest
<1>12. CASE r.ok
  BY <1>2, <1>3, <1>6, <1>9, <1>10, <1>11, <1>12 DEF R, c
<1>13. CASE ~ r.ok
  <2>1. MemInv(r.mem, O)
    BY <1>9, FewerOwners
  <2>2. Call(m, O, r.mem, O) /\ r.mem.short
    BY <1>9, <1>10, <1>13, <2>1 DEF Call
  <2>3. QED
    BY <1>2, <1>3, <1>11, <1>13, <2>2 DEF c
<1>14. QED
  BY <1>9, <1>12, <1>13

(* A page that its owner gives back.                                       *)
LEMMA FreePage ==
    ASSUME NEW m, NEW O, MemInv(m, O), m.status = "ok", NEW v \in O
    PROVE  LET n == free_page(m, v)
           IN  /\ MemInv(n, O \ {v}) /\ n.status = "ok" /\ Keeps(m, n)
               /\ n.short = m.short /\ n.next_virtual = m.next_virtual
<1> DEFINE a == m.pte[v]
           n == free_page(m, v)
           P == O \ {v}
<1>1. /\ m \in Memories /\ SoundMap(m.map) /\ m.next_virtual \in KernelEnd .. MaxNext
      /\ O \subseteq KernelEnd .. m.next_virtual - 1
      /\ TablesInv(m) /\ Identity(m) /\ OwnersInv(m, O) /\ FreeInv(m, O)
  BY DEF MemInv
<1>2. v \in KernelEnd .. m.next_virtual - 1 /\ v \in 0 .. TablePages - 1 /\ v \in Nat
  BY <1>1, LayoutIs
<1>3. v \in Pages /\ Dir(v) = 0 /\ v \notin High /\ v # StackPage
  BY <1>2, LowPages, LayoutIs DEF High
<1>4. a \in Taken(m) /\ \A d \in Dirs \ {0} : m.dir[d] # a
  BY <1>1, <1>3 DEF OwnersInv, OwnFrame, InUseBy
<1>5. /\ SoundMap(free(m.map, a)) /\ UsedBases(free(m.map, a)) = UsedBases(m.map) \ {a}
      /\ a \in FrameAddrs
  BY <1>1, <1>4, FreeSound DEF Taken, Reserved
<1>6. a # None /\ FirstTable # None /\ Access(m, FirstTable) = "ok" /\ m.dir[0] = FirstTable
  BY <1>1, <1>5, FrameIs, FirstTableReached DEF TablesInv, None
<1> DEFINE c == free(m.map, a)
           f == Append(m.free_virtual, v)
           pte == [m.pte EXCEPT ![v] = None]
           user == m.user \ {v}
           stale == m.stale \cup {v}
           L == Len(m.free_virtual)
<1>7. /\ c \in Seq(Entries) /\ f \in Seq(Nat) /\ pte \in [Pages -> Addresses]
      /\ user \in SUBSET Int /\ stale \in SUBSET Int
  <2>1. c \in Seq(Entries)
    BY <1>5 DEF SoundMap, WellFormed
  <2>2. f \in Seq(Nat)
    BY <1>1, <1>2, MemoryFields
  <2>3. pte \in [Pages -> Addresses]
    BY <1>1, MemoryFields DEF Addresses
  <2>4. QED
    BY <1>1, <1>2, <2>1, <2>2, <2>3, MemoryFields
<1>8. /\ L \in Nat /\ Len(f) = L + 1 /\ f[L + 1] = v
      /\ \A k \in 1 .. L : f[k] = m.free_virtual[k]
  BY <1>1, <1>2, MemoryFields
<1>9. pte[v] = None /\ \A w \in Pages : w # v => pte[w] = m.pte[w]
  BY <1>1, <1>3, MemoryFields
<1>10. /\ n \in Memories /\ n.map = c /\ n.dir = m.dir /\ n.pte = pte /\ n.user = user
       /\ n.next_virtual = m.next_virtual /\ n.free_virtual = f /\ n.stale = stale
       /\ n.status = m.status /\ n.short = m.short
  <2> DEFINE freed == [m EXCEPT !.free_virtual = f]
  <2>1. n = [freed EXCEPT !.map = free(@, m.pte[v]), !.pte[v] = None, !.user = @ \ {v},
                          !.stale = @ \cup {v}]
    BY <1>3, <1>6 DEF free_page
  <2>2. [freed EXCEPT !.map = free(@, m.pte[v]), !.pte[v] = None, !.user = @ \ {v},
                      !.stale = @ \cup {v}]
        = [freed EXCEPT !.map = free(freed.map, a), !.pte = [freed.pte EXCEPT ![v] = None],
                        !.user = freed.user \ {v}, !.stale = freed.stale \cup {v}]
    BY <1>1 DEF Memories
  <2> HIDE DEF f
  <2>3. /\ freed \in Memories /\ freed.map = m.map /\ freed.dir = m.dir /\ freed.pte = m.pte
        /\ freed.user = m.user /\ freed.next_virtual = m.next_virtual /\ freed.free_virtual = f
        /\ freed.stale = m.stale /\ freed.status = m.status /\ freed.short = m.short
    BY <1>1, <1>7 DEF Memories
  <2> HIDE DEF freed, a
  <2>4. n = [freed EXCEPT !.map = c, !.pte = pte, !.user = user, !.stale = stale]
    BY <2>1, <2>2, <2>3 DEF a
  <2> HIDE DEF c, pte, user, stale, n
  <2>5. QED
    BY <1>7, <2>3, <2>4 DEF Memories
<1> HIDE DEF n, c, f, pte, user, stale, L
<1>11. Taken(n) = Taken(m) \ {a}
  BY <1>5, <1>10 DEF Taken, c
<1>12. TablesInv(n)
  BY <1>1, <1>4, <1>10, <1>11 DEF TablesInv
<1>13. Identity(n)
  <2> SUFFICES ASSUME NEW w \in 0 .. TablePages - 1, w < KernelEnd \/ w >= n.next_virtual
               PROVE  n.pte[w] = w * PageSize
    BY DEF Identity
  <2>1. w \in Pages /\ w # v
    BY <1>1, <1>2, <1>10, LowPages, LayoutIs
  <2>2. QED
    BY <1>1, <1>9, <1>10, <2>1 DEF Identity
<1>14. \A w \in InUseBy(n, P) : w # v /\ w \in InUseBy(m, O) /\ n.pte[w] = m.pte[w] /\ w \in Pages
  <2> TAKE w \in InUseBy(n, P)
  <2>1. w \in Pages
    <3>1. \A x \in O : x \in 0 .. TablePages - 1
      BY <1>1, LayoutIs
    <3>2. QED
      BY <3>1, LowPages DEF InUseBy, LoadedPages
  <2>2. w # v
    BY <1>9, <1>10 DEF InUseBy, LoadedPages
  <2>3. n.pte[w] = m.pte[w]
    BY <1>9, <1>10, <2>1, <2>2
  <2>4. QED
    BY <2>1, <2>2, <2>3 DEF InUseBy, LoadedPages
<1>15. OwnersInv(n, P)
  <2>1. ASSUME NEW w \in InUseBy(n, P) PROVE OwnFrame(n, w)
    <3>1. OwnFrame(m, w) /\ m.pte[w] # a
      BY <1>1, <1>14 DEF OwnersInv, InUseBy
    <3>2. QED
      BY <1>10, <1>11, <1>14, <3>1 DEF OwnFrame
  <2>2. \A w \in LoadedPages(n) : n.dir[Dir(w)] # None
    <3>1. \A w \in LoadedPages(n) : w \in LoadedPages(m)
      BY <1>14 DEF LoadedPages, InUseBy
    <3>2. QED
      BY <1>1, <1>10, <3>1 DEF OwnersInv
  <2>3. \A w, x \in InUseBy(n, P) : w # x => n.pte[w] # n.pte[x]
    BY <1>1, <1>14 DEF OwnersInv
  <2>4. QED
    BY <2>1, <2>2, <2>3 DEF OwnersInv
<1>16. FreeInv(n, P)
  <2>1. /\ \A k \in 1 .. L : /\ m.free_virtual[k] \in KernelEnd .. m.next_virtual - 1
                             /\ m.pte[m.free_virtual[k]] = None
                             /\ m.free_virtual[k] \notin O
        /\ \A k, l \in 1 .. L : k # l => m.free_virtual[k] # m.free_virtual[l]
        /\ \A w \in m.stale : w \in KernelEnd .. m.next_virtual - 1 /\ w \notin O
    BY <1>1 DEF FreeInv, L
  <2>2. \A k \in 1 .. L : n.pte[m.free_virtual[k]] = None /\ m.free_virtual[k] # v
    <3> TAKE k \in 1 .. L
    <3>1. m.free_virtual[k] \in 0 .. TablePages - 1
      BY <1>1, <2>1, LayoutIs
    <3>2. QED
      BY <1>9, <1>10, <2>1, <3>1, LowPages
  <2>3. \A k \in 1 .. L + 1 : k \in 1 .. L \/ k = L + 1
    BY <1>8
  <2>4. \A k \in 1 .. L + 1 : /\ f[k] \in KernelEnd .. m.next_virtual - 1
                              /\ n.pte[f[k]] = None /\ f[k] \notin P
    BY <1>2, <1>8, <1>9, <1>10, <2>1, <2>2, <2>3
  <2>5. \A k, l \in 1 .. L + 1 : k # l => f[k] # f[l]
    BY <1>8, <2>1, <2>2, <2>3
  <2>6. \A w \in stale : w \in KernelEnd .. m.next_virtual - 1 /\ w \notin P
    BY <1>2, <2>1 DEF stale
  <2>7. QED
    BY <1>8, <1>10, <2>4, <2>5, <2>6 DEF FreeInv
<1>17. MemInv(n, P)
  BY <1>1, <1>5, <1>10, <1>12, <1>13, <1>15, <1>16 DEF MemInv, c
<1>18. Keeps(m, n)
  <2>1. \A w \in High : w # v /\ w \in Pages
    BY <1>3 DEF High
  <2>2. \A d \in Dirs : DirBit(d) # v
    BY <1>2, LayoutIs DEF DirBit, Dirs
  <2>3. QED
    BY <1>9, <1>10, <2>1, <2>2 DEF Keeps, user
<1>19. QED
  BY <1>10, <1>17, <1>18 DEF n

(* The stacks that Stacks() returns are nobody else's.                     *)
KStackOf(s) == s.kstack .. s.kstack + KStackPages - 1

\* The stacks of create_process(): all or none, one page given back in between.
LEMMA StacksAre ==
    ASSUME NEW m, NEW O, MemInv(m, O), m.status = "ok",
           m.next_virtual + KStackPages + 1 <= MaxNext
    PROVE  LET s == Stacks(m)
               R == KStackOf(s) \cup {s.ustack}
           IN  /\ s.kstack = 0 => Call(m, O, s.mem, O) /\ s.mem.short
               /\ s.kstack # 0 => /\ Call(m, O, s.mem, O \cup R)
                                  /\ R \subseteq Low \ O
               /\ s.kstack \in Nat /\ s.ustack \in Nat
<1> DEFINE k == allocate_pages_contig(m, KStackPages, FALSE)
           u == allocate_page(k.mem, TRUE)
           s == Stacks(m)
           R == k.page .. k.page + KStackPages - 1
<1>0. m.next_virtual \in Nat /\ m.next_virtual \in KernelEnd .. MaxNext
  BY LayoutIs DEF MemInv
<1>1. /\ k.page = 0 => Call(m, O, k.mem, O) /\ k.mem.short
      /\ k.page # 0 => Call(m, O, k.mem, O \cup R) /\ R \subseteq Low \ O
      /\ k.page \in Nat /\ k.mem.next_virtual = m.next_virtual + KStackPages
  <2>1. m.next_virtual + KStackPages <= MaxNext /\ KStackPages \in Nat
    BY <1>0, LayoutIs
  <2>2. QED
    BY <2>1, AllocateContig
<1>2. s = IF k.page = 0 THEN [mem |-> k.mem, kstack |-> 0, ustack |-> 0]
          ELSE IF u.page = 0
          THEN [mem |-> free_page(u.mem, k.page), kstack |-> 0, ustack |-> 0]
          ELSE [mem |-> u.mem, kstack |-> k.page, ustack |-> u.page]
  BY DEF Stacks
<1> HIDE DEF k, s
<1>3. CASE k.page = 0
  <2>1. s.mem = k.mem /\ s.kstack = 0 /\ s.ustack = 0
    BY <1>2, <1>3
  <2>2. QED
    BY <1>1, <1>3, <2>1 DEF s
<1>4. CASE k.page # 0
  <2> DEFINE P == O \cup R
  <2>1. Call(m, O, k.mem, P) /\ MemInv(k.mem, P) /\ k.mem.status = "ok"
    BY <1>1, <1>4 DEF Call
  <2>2. k.mem.next_virtual < MaxNext
    BY <1>0, <1>1, LayoutIs
  <2>3. k.page \in R /\ k.page \in P
    BY <1>1, LayoutIs
  <2> HIDE DEF P
  <2>4. /\ u.page = 0 => Call(k.mem, P, u.mem, P) /\ u.mem.short
        /\ u.page # 0 => Call(k.mem, P, u.mem, P \cup {u.page}) /\ u.page \in Low \ P
    BY <2>1, <2>2, AllocatePage
  <2> HIDE DEF u
  <2>5. CASE u.page = 0
    <3> DEFINE n == free_page(u.mem, k.page)
    <3>1. s.mem = n /\ s.kstack = 0 /\ s.ustack = 0
      BY <1>2, <1>4, <2>5
    <3>2. Call(m, O, u.mem, P) /\ u.mem.short
      BY <2>1, <2>4, <2>5, Calls
    <3>3. MemInv(u.mem, P) /\ u.mem.status = "ok"
      BY <3>2 DEF Call
    <3>4. /\ MemInv(n, P \ {k.page}) /\ n.status = "ok" /\ Keeps(u.mem, n)
          /\ n.short = u.mem.short
      BY <2>3, <3>3, FreePage
    <3> HIDE DEF n
    <3>5. MemInv(n, O)
      <4>1. O \subseteq P \ {k.page}
        BY <1>1, <1>4, <2>3 DEF P
      <4>2. QED
        BY <3>4, <4>1, FewerOwners
    <3>6. Call(m, O, n, O) /\ n.short
      <4>1. Keeps(m, n)
        BY <3>2, <3>4 DEF Keeps, Call
      <4>2. QED
        BY <3>2, <3>4, <3>5, <4>1 DEF Call
    <3>7. QED
      BY <3>1, <3>6 DEF s
  <2>6. CASE u.page # 0
    <3>1. s.mem = u.mem /\ s.kstack = k.page /\ s.ustack = u.page
      BY <1>2, <1>4, <2>6
    <3>2. Call(m, O, u.mem, P \cup {u.page}) /\ u.page \in Low \ P
      BY <2>1, <2>4, <2>6, Calls
    <3>3. P \cup {u.page} = O \cup (R \cup {u.page})
      BY DEF P
    <3>4. R \cup {u.page} \subseteq Low \ O /\ u.page \in Nat
      BY <1>1, <1>4, <3>2, LayoutIs DEF P, Low
    <3>5. KStackOf(s) = R
      BY <3>1 DEF KStackOf
    <3>6. QED
      BY <1>1, <1>4, <3>1, <3>2, <3>3, <3>4, <3>5 DEF s
  <2>7. QED
    BY <2>5, <2>6
<1>5. QED
  BY <1>3, <1>4

(* kmalloc(), for the pages S of the stacks.                               *)
LEMMA KmallocIs ==
    ASSUME NEW m, NEW S, MemInv(m, heap \cup S), heap \cap S = {}, m.status = "ok",
           m.next_virtual < MaxNext, NEW user \in BOOLEAN, NEW h \in KmallocPage(m, user)
    PROVE  /\ Call(m, heap \cup S, h.mem, h.pages \cup S)
           /\ h.pages \cap S = {}
           /\ h.mem.next_virtual \in KernelEnd .. m.next_virtual + 1
<1> DEFINE O == heap \cup S
           r == allocate_page(m, user)
<1>1. \/ h = [mem |-> m, pages |-> heap]
      \/ h = [mem |-> r.mem, pages |-> IF r.page = 0 THEN heap ELSE heap \cup {r.page}]
  BY DEF KmallocPage
<1>2. CASE h = [mem |-> m, pages |-> heap]
  <2>1. m.next_virtual \in KernelEnd .. m.next_virtual + 1
    BY LayoutIs DEF MemInv
  <2>2. QED
    BY <1>2, <2>1, NoCall
<1>3. CASE h = [mem |-> r.mem, pages |-> IF r.page = 0 THEN heap ELSE heap \cup {r.page}]
  <2>1. /\ r.page = 0 => Call(m, O, r.mem, O)
        /\ r.page # 0 => Call(m, O, r.mem, O \cup {r.page}) /\ r.page \in Low \ O
        /\ r.mem.next_virtual \in KernelEnd .. m.next_virtual + 1
    <3> HIDE DEF O
    <3>1. MemInv(m, O)
      BY DEF O
    <3>2. QED
      BY <3>1, AllocatePage
  <2> HIDE DEF r
  <2>2. h.mem = r.mem /\ h.pages = IF r.page = 0 THEN heap ELSE heap \cup {r.page}
    BY <1>3
  <2>3. CASE r.page = 0
    BY <2>1, <2>2, <2>3
  <2>4. CASE r.page # 0
    <3>1. O \cup {r.page} = (heap \cup {r.page}) \cup S /\ r.page \notin S
      BY <2>1, <2>4
    <3>2. QED
      BY <2>1, <2>2, <2>4, <3>1
  <2>5. QED
    BY <2>3, <2>4
<1>4. QED
  BY <1>1, <1>2, <1>3
-----------------------------------------------------------------------------
(* Segments and what is written to physical memory.                        *)

\* The maximum of a bounded set of naturals.
LEMMA MaxIsGreatest ==
    ASSUME NEW n \in Nat, NEW S, S \subseteq 0 .. n, S # {}
    PROVE  Max(S) \in S /\ \A x \in S : x <= Max(S)
<1> DEFINE D == {n - x : x \in S}
<1>1. D \subseteq Nat /\ D # {}
  <2>1. PICK x \in S : TRUE
    OBVIOUS
  <2>2. n - x \in D
    OBVIOUS
  <2>3. \A y \in S : n - y \in Nat
    OBVIOUS
  <2>4. QED
    BY <2>2, <2>3
<1>2. Min(D) \in D /\ \A y \in D : Min(D) <= y
  BY <1>1, MinIsLeast
<1>3. PICK x \in S : Min(D) = n - x
  BY <1>2
<1>4. \A y \in S : x >= y
  <2> TAKE y \in S
  <2>1. n - x <= n - y
    BY <1>2, <1>3
  <2>2. QED
    BY <2>1
<1> DEFINE G(z) == \A y \in S : z >= y
<1>5. \E z \in S : G(z)
  BY <1>4
<1>6. Max(S) = CHOOSE z \in S : G(z)
  BY DEF Max
<1> HIDE DEF G
<1>7. Max(S) \in S /\ G(Max(S))
  BY <1>5, <1>6, Zenon
<1>8. QED
  BY <1>7 DEF G

\* Addresses in order are on pages in order.
LEMMA PagesInOrder ==
    ASSUME NEW a \in Nat, NEW b \in Nat, a <= b
    PROVE  PageOf(a) <= PageOf(b) /\ PageOf(a) \in Nat /\ PageOf(b) \in Nat
<1>1. /\ PageOf(a) \in Nat /\ a % PageSize \in 0 .. PageSize - 1
      /\ a = PageSize * PageOf(a) + (a % PageSize)
  BY DivideIs
<1>2. /\ PageOf(b) \in Nat /\ b % PageSize \in 0 .. PageSize - 1
      /\ b = PageSize * PageOf(b) + (b % PageSize)
  BY DivideIs
<1>3. ~ (PageOf(b) < PageOf(a))
  <2> SUFFICES ASSUME PageOf(b) < PageOf(a) PROVE FALSE
    OBVIOUS
  <2>1. PageSize * PageOf(b) + PageSize <= PageSize * PageOf(a)
    BY <1>1, <1>2, TimesOrder
  <2>2. PageSize * PageOf(b) \in Nat /\ PageSize * PageOf(a) \in Nat /\ PageSize \in Nat
    BY <1>1, <1>2, LayoutIs
  <2> DEFINE x == PageSize * PageOf(a)
             y == PageSize * PageOf(b)
  <2>3. /\ x \in Nat /\ y \in Nat /\ PageSize \in Nat /\ y + PageSize <= x
        /\ a % PageSize \in 0 .. PageSize - 1 /\ b % PageSize \in 0 .. PageSize - 1
        /\ a = x + (a % PageSize) /\ b = y + (b % PageSize)
    BY <1>1, <1>2, <2>1, <2>2
  <2> HIDE DEF x, y
  <2>4. QED
    BY <2>3
<1>4. QED
  BY <1>1, <1>2, <1>3

\* PageSize further is one page further.
LEMMA NextPage ==
    ASSUME NEW a \in Nat
    PROVE  PageOf(a + PageSize) = PageOf(a) + 1
<1>1. /\ PageOf(a) \in Nat /\ a % PageSize \in 0 .. PageSize - 1
      /\ a = PageSize * PageOf(a) + (a % PageSize)
  BY DivideIs
<1>2. PageSize * (PageOf(a) + 1) = PageSize * PageOf(a) + PageSize /\ PageSize * PageOf(a) \in Nat
      /\ PageSize \in Nat
  <2>1. \A p, q \in Nat : p * (q + 1) = p * q + p /\ p * q \in Nat
    OBVIOUS
  <2>2. PageSize \in Nat
    BY LayoutIs
  <2>3. QED
    BY <1>1, <2>1, <2>2
<1>3. a + PageSize = PageSize * (PageOf(a) + 1) + (a % PageSize)
  <2> DEFINE x == PageSize * PageOf(a)
             y == PageSize * (PageOf(a) + 1)
  <2>1. x \in Nat /\ y = x + PageSize /\ a = x + (a % PageSize) /\ PageSize \in Nat
    BY <1>1, <1>2
  <2> HIDE DEF x, y
  <2>2. a + PageSize = y + (a % PageSize)
    BY <1>1, <2>1
  <2>3. QED
    BY <2>2 DEF y
<1>4. PageOf(PageSize * (PageOf(a) + 1) + (a % PageSize)) = PageOf(a) + 1
  <2>1. PageOf(a) + 1 \in Nat
    BY <1>1
  <2>2. QED
    BY <1>1, <2>1, DivideTimes
<1>5. QED
  BY <1>3, <1>4

\* The types of the fields.
LEMMA SegmentFields ==
    ASSUME NEW s \in Segments
    PROVE  s.vaddr \in Nat /\ s.offset \in Nat /\ s.filesz \in Nat /\ s.memsz \in Nat
           /\ s.load \in BOOLEAN
BY DEF Segments

(* Every unit of a segment lies on one of its pages.                       *)
LEMMA UnitsOnPages ==
    ASSUME NEW s \in Segments
    PROVE  /\ SegmentCount(s) \in Nat /\ PageOf(s.vaddr) \in Nat
           /\ \A k \in 0 .. s.memsz - 1 : PageOf(s.vaddr + k) \in SegmentPages(s)
<1> DEFINE a == s.vaddr
           e == s.memsz
           z == a + e + PageSize - 1
<1>1. a \in Nat /\ e \in Nat /\ PageSize \in Nat /\ PageSize > 0
  BY SegmentFields, LayoutIs
<1>2. SegmentCount(s) = PageOf(z) - PageOf(a)
  BY DEF SegmentCount
<1>3. SegmentPages(s) = PageOf(a) .. PageOf(a) + SegmentCount(s) - 1
  BY DEF SegmentPages
<1> HIDE DEF a, e
<1>4. z \in Nat /\ a <= z
  BY <1>1
<1> HIDE DEF z
<1>5. PageOf(a) <= PageOf(z) /\ PageOf(a) \in Nat /\ PageOf(z) \in Nat
  BY <1>1, <1>4, PagesInOrder
<1>6. ASSUME NEW k \in 0 .. e - 1 PROVE PageOf(a + k) \in SegmentPages(s)
  <2>1. a + k \in Nat /\ a <= a + k
    BY <1>1
  <2>2. PageOf(a) <= PageOf(a + k) /\ PageOf(a + k) \in Nat
    BY <1>1, <2>1, PagesInOrder
  <2>3. a + k + PageSize \in Nat /\ (a + k) + PageSize <= z
    BY <1>1, <2>1 DEF z
  <2>4. PageOf((a + k) + PageSize) = PageOf(a + k) + 1
    BY <2>1, NextPage
  <2>5. PageOf((a + k) + PageSize) <= PageOf(z)
    <3>1. (a + k) + PageSize \in Nat
      BY <1>1, <2>1
    <3>2. QED
      BY <1>4, <2>3, <3>1, PagesInOrder
  <2>6. QED
    BY <1>2, <1>3, <1>5, <2>2, <2>4, <2>5
<1>7. QED
  BY <1>2, <1>5, <1>6 DEF a, e

Contents == {Zero, Other} \cup {Byte(f, at) : f \in DOMAIN Files, at \in Nat}
Physical == [0 .. AddrLimit - 1 -> Contents]
Loads == [mem : Memories, phys : Physical]

\* The types of the contents.
LEMMA WantedContents ==
    ASSUME NEW f \in DOMAIN Files, NEW s \in Segments, NEW k \in Nat
    PROVE  Wanted(f, s, k) \in Contents
<1>1. s.offset + k \in Nat
  BY SegmentFields
<1>2. QED
  BY <1>1 DEF Wanted, Contents

(* The two ways in which Write ends.                                       *)
LEMMA WriteFaults ==
    ASSUME NEW l \in Loads, NEW f, NEW s, NEW count,
           \E k \in 0 .. count - 1 : get_map(l.mem, PageOf(s.vaddr + k)) = None
    PROVE  LET n == Write(l, f, s, count)
           IN  /\ n \in Loads /\ n.phys = l.phys
               /\ n.mem.status = "fault" /\ n.mem.map = l.mem.map /\ n.mem.dir = l.mem.dir
               /\ n.mem.pte = l.mem.pte /\ n.mem.user = l.mem.user
               /\ n.mem.next_virtual = l.mem.next_virtual
               /\ n.mem.free_virtual = l.mem.free_virtual /\ n.mem.stale = l.mem.stale
               /\ n.mem.table = l.mem.table /\ n.mem.short = l.mem.short
<1> DEFINE m == l.mem
           x == [m EXCEPT !.status = "fault"]
<1>1. m \in Memories /\ l.phys \in Physical
  BY DEF Loads
<1>2. Write(l, f, s, count) = [l EXCEPT !.mem.status = "fault"]
  BY DEF Write
<1>3. [l EXCEPT !.mem.status = "fault"] = [l EXCEPT !.mem = x]
  BY DEF Loads
<1>4. /\ x \in Memories /\ x.status = "fault" /\ x.map = m.map /\ x.dir = m.dir
      /\ x.pte = m.pte /\ x.user = m.user /\ x.next_virtual = m.next_virtual
      /\ x.free_virtual = m.free_virtual /\ x.stale = m.stale
      /\ x.table = m.table /\ x.short = m.short
  BY <1>1 DEF Memories
<1> HIDE DEF x
<1>5. [l EXCEPT !.mem = x] \in Loads /\ [l EXCEPT !.mem = x].mem = x
      /\ [l EXCEPT !.mem = x].phys = l.phys
  BY <1>4 DEF Loads
<1>6. QED
  BY <1>2, <1>3, <1>4, <1>5

\* In n the first units of segment s have been written, and nothing else.
Written(l, n, f, s, count) ==
    /\ n \in Loads /\ n.mem = l.mem
    /\ \A u \in 0 .. AddrLimit - 1 :
          (\A k \in 0 .. count - 1 : PlaceOf(l.mem, s, k) # u) => n.phys[u] = l.phys[u]
    /\ \A k \in 0 .. count - 1 :
          /\ PlaceOf(l.mem, s, k) \in 0 .. AddrLimit - 1
          /\ \A j \in 0 .. count - 1 : j # k => PlaceOf(l.mem, s, j) # PlaceOf(l.mem, s, k)
          => n.phys[PlaceOf(l.mem, s, k)] = Wanted(f, s, k)

\* memcpy() and memset() when all pages are there.
LEMMA WriteDone ==
    ASSUME NEW l \in Loads, NEW f \in DOMAIN Files, NEW s \in Segments, NEW count \in Nat,
           \A k \in 0 .. count - 1 : get_map(l.mem, PageOf(s.vaddr + k)) # None
    PROVE  Written(l, Write(l, f, s, count), f, s, count)
<1> DEFINE n == Write(l, f, s, count)
           units(u) == {k \in 0 .. count - 1 : PlaceOf(l.mem, s, k) = u}
           value(u) == IF units(u) = {} THEN l.phys[u] ELSE Wanted(f, s, Max(units(u)))
           ph == [u \in DOMAIN l.phys |-> value(u)]
<1>1. l.mem \in Memories /\ l.phys \in Physical /\ DOMAIN l.phys = 0 .. AddrLimit - 1
  BY DEF Loads, Physical
<1>2. n = [l EXCEPT !.phys = ph]
  BY DEF Write
<1>3. \A u \in 0 .. AddrLimit - 1 : units(u) # {} => Max(units(u)) \in units(u) /\ Max(units(u)) \in Nat
  <2> TAKE u \in 0 .. AddrLimit - 1
  <2> HAVE units(u) # {}
  <2>1. units(u) \subseteq 0 .. count
    OBVIOUS
  <2> HIDE DEF units
  <2>2. Max(units(u)) \in units(u)
    BY <2>1, MaxIsGreatest
  <2>3. QED
    BY <2>1, <2>2
<1>4. \A u \in 0 .. AddrLimit - 1 : value(u) \in Contents
  <2> TAKE u \in 0 .. AddrLimit - 1
  <2> HIDE DEF units
  <2>1. l.phys[u] \in Contents
    BY <1>1 DEF Physical
  <2>2. QED
    BY <1>3, <2>1, WantedContents
<1>5. ph \in Physical /\ \A u \in 0 .. AddrLimit - 1 : ph[u] = value(u)
  <2> HIDE DEF value
  <2>1. QED
    BY <1>1, <1>4 DEF Physical
<1> HIDE DEF ph, n
<1>6. n \in Loads /\ n.mem = l.mem /\ n.phys = ph
  BY <1>2, <1>5 DEF Loads
<1>7. ASSUME NEW u \in 0 .. AddrLimit - 1, \A k \in 0 .. count - 1 : PlaceOf(l.mem, s, k) # u
      PROVE  n.phys[u] = l.phys[u]
  <2>1. units(u) = {}
    BY <1>7
  <2> HIDE DEF units
  <2>2. QED
    BY <1>5, <1>6, <2>1
<1>8. ASSUME NEW k \in 0 .. count - 1, PlaceOf(l.mem, s, k) \in 0 .. AddrLimit - 1,
             \A j \in 0 .. count - 1 : j # k => PlaceOf(l.mem, s, j) # PlaceOf(l.mem, s, k)
      PROVE  n.phys[PlaceOf(l.mem, s, k)] = Wanted(f, s, k)
  <2> DEFINE u == PlaceOf(l.mem, s, k)
  <2>1. units(u) = {k}
    BY <1>8
  <2>2. u \in 0 .. AddrLimit - 1
    BY <1>8
  <2> HIDE DEF units, u
  <2>3. Max(units(u)) = k
    BY <1>3, <2>1, <2>2
  <2>4. units(u) # {}
    BY <2>1
  <2>5. n.phys[u] = Wanted(f, s, k)
    BY <1>5, <1>6, <2>2, <2>3, <2>4
  <2>6. QED
    BY <2>5 DEF u
<1>9. QED
  BY <1>6, <1>7, <1>8 DEF n, Written
-----------------------------------------------------------------------------
(* load_segment() and elf_load_exec().                                     *)

(* Why a call stopped halfway.                                             *)
Explained(m) ==
    /\ m.status = "astray" => Beyond(m)
    /\ m.status = "fault" => m.short \/ Beyond(m)

(* Segment s of program f lies in memory and user code can read it.        *)
SegmentThere(m, ph, f, s) ==
    \A k \in 0 .. s.memsz - 1 :
        /\ PageOf(s.vaddr + k) \in High /\ PageOf(s.vaddr + k) # StackPage
        /\ UserCanTouch(m, PageOf(s.vaddr + k))
        /\ ph[m.pte[PageOf(s.vaddr + k)] + ((s.vaddr + k) % PageSize)] = Wanted(f, s, k)

\* A page in use is mapped to a frame.
LEMMA LoadedFrames ==
    ASSUME NEW m, NEW O, MemInv(m, O), NEW v \in InUseBy(m, O)
    PROVE  /\ m.pte[v] \in Nat /\ m.pte[v] % PageSize = 0
           /\ v # StackPage => m.pte[v] \in FrameAddrs
<1>1. OwnFrame(m, v) /\ SoundMap(m.map)
  BY DEF MemInv, OwnersInv
<1>2. CASE m.pte[v] \in Taken(m)
  <2>1. m.pte[v] \in FrameAddrs
    BY <1>1, <1>2, TakenFrames DEF Taken, Reserved
  <2>2. QED
    BY <2>1, FrameIs
<1>3. CASE v = StackPage /\ m.pte[v] = 0
  <2>1. 0 % PageSize = 0
    BY LayoutIs
  <2>2. QED
    BY <1>3, <2>1
<1>4. QED
  BY <1>1, <1>2, <1>3 DEF OwnFrame

(* Two pages in use share no unit of memory.                               *)
LEMMA ApartFrames ==
    ASSUME NEW m, NEW O, MemInv(m, O), NEW v \in InUseBy(m, O), NEW w \in InUseBy(m, O),
           NEW x \in 0 .. PageSize - 1, NEW y \in 0 .. PageSize - 1, m.pte[v] + x = m.pte[w] + y
    PROVE  v = w /\ x = y
<1>1. m.pte[v] \in Nat /\ m.pte[v] % PageSize = 0 /\ m.pte[w] \in Nat /\ m.pte[w] % PageSize = 0
  BY LoadedFrames
<1>2. m.pte[v] = m.pte[w] /\ x = y
  BY <1>1, SameUnit
<1>3. QED
  BY <1>2 DEF MemInv, OwnersInv

(* The results of loading one segment; the pages of M got a frame.         *)
LoadsSegment(l, O, n, f, s, M) ==
    /\ n \in Loads /\ M \subseteq SegmentPages(s)
    /\ Grown(l.mem, n.mem, M) /\ MemInv(n.mem, O) /\ UserPages(n.mem, M)
    /\ Explained(n.mem)
    /\ NoMore(l.mem) => NoMore(n.mem)
    /\ n.mem.status = "ok" /\ ~ n.mem.short =>
          /\ M = SegmentPages(s) /\ Exact(l.mem, n.mem, M)
          /\ SegmentThere(n.mem, n.phys, f, s)
          /\ \A w \in LoadedPages(n.mem) : \A x \in 0 .. PageSize - 1 :
                w \notin SegmentPages(s) /\ w # StackPage =>
                    n.phys[n.mem.pte[w] + x] = l.phys[n.mem.pte[w] + x]

(* All pages are mapped: the contents are written.                         *)
LEMMA SegmentWritten ==
    ASSUME NEW l \in Loads, NEW O, MemInv(l.mem, O), NEW f \in DOMAIN Files, NEW s \in Segments,
           SegmentPages(s) \subseteq High \ {StackPage},
           \A v \in SegmentPages(s) : l.mem.pte[v] # None, UserPages(l.mem, SegmentPages(s))
    PROVE  LET n == Write(l, f, s, s.memsz)
           IN  /\ n \in Loads /\ n.mem = l.mem
               /\ SegmentThere(n.mem, n.phys, f, s)
               /\ \A w \in LoadedPages(n.mem) : \A x \in 0 .. PageSize - 1 :
                     w \notin SegmentPages(s) /\ w # StackPage =>
                         n.phys[n.mem.pte[w] + x] = l.phys[n.mem.pte[w] + x]
<1> DEFINE n == Write(l, f, s, s.memsz)
           m == l.mem
           at(k) == PageOf(s.vaddr + k)
           off(k) == (s.vaddr + k) % PageSize
<1>1. s.vaddr \in Nat /\ s.memsz \in Nat /\ PageSize \in Nat /\ AddrLimit \in Nat
  BY SegmentFields, LayoutIs, AddrLimitAssumption
<1>2. \A k \in 0 .. s.memsz - 1 : /\ at(k) \in SegmentPages(s) /\ s.vaddr + k \in Nat
                                  /\ off(k) \in 0 .. PageSize - 1
                                  /\ s.vaddr + k = PageSize * at(k) + off(k)
  <2> TAKE k \in 0 .. s.memsz - 1
  <2>1. s.vaddr + k \in Nat
    BY <1>1
  <2>2. off(k) \in 0 .. PageSize - 1 /\ s.vaddr + k = PageSize * at(k) + off(k)
    BY <2>1, DivideIs
  <2>3. QED
    BY <2>1, <2>2, UnitsOnPages
<1>3. \A v \in SegmentPages(s) : /\ v \in LoadedPages(m) /\ v \in InUseBy(m, O) /\ v # StackPage
                                 /\ get_map(m, v) = m.pte[v] /\ UserCanTouch(m, v)
  <2> TAKE v \in SegmentPages(s)
  <2>1. v \in LoadedPages(m)
    BY DEF High, LoadedPages
  <2>2. m.dir[Dir(v)] # None
    BY <2>1 DEF MemInv, OwnersInv
  <2>3. get_map(m, v) = m.pte[v]
    BY <2>2 DEF get_map
  <2>4. QED
    BY <2>1, <2>3 DEF InUseBy, UserCanTouch, UserPages
<1> HIDE DEF n, m, at, off
<1>4. \A k \in 0 .. s.memsz - 1 : PlaceOf(m, s, k) = m.pte[at(k)] + off(k)
  BY <1>2, <1>3 DEF PlaceOf, at, off
<1>5. \A k \in 0 .. s.memsz - 1 : /\ PlaceOf(m, s, k) \in 0 .. AddrLimit - 1
                                  /\ m.pte[at(k)] \in FrameAddrs
  <2> TAKE k \in 0 .. s.memsz - 1
  <2>1. m.pte[at(k)] \in FrameAddrs
    BY <1>2, <1>3, LoadedFrames DEF m
  <2>2. m.pte[at(k)] \in Nat /\ m.pte[at(k)] + PageSize <= AddrLimit
    BY <2>1, FrameIs
  <2>3. off(k) \in 0 .. PageSize - 1 /\ PlaceOf(m, s, k) = m.pte[at(k)] + off(k)
    BY <1>2, <1>4
  <2> DEFINE a == m.pte[at(k)]
             x == off(k)
  <2> HIDE DEF a, x
  <2>4. a + x \in 0 .. AddrLimit - 1
    BY <1>1, <2>2, <2>3 DEF a, x
  <2>5. QED
    BY <2>1, <2>3, <2>4 DEF a, x
<1>6. \A k, j \in 0 .. s.memsz - 1 : j # k => PlaceOf(m, s, j) # PlaceOf(m, s, k)
  <2> SUFFICES ASSUME NEW k \in 0 .. s.memsz - 1, NEW j \in 0 .. s.memsz - 1,
                      PlaceOf(m, s, j) = PlaceOf(m, s, k)
               PROVE  j = k
    OBVIOUS
  <2>1. m.pte[at(j)] + off(j) = m.pte[at(k)] + off(k)
    BY <1>4
  <2>2. at(j) = at(k) /\ off(j) = off(k)
    <3> DEFINE v == at(j)
               w == at(k)
               x == off(j)
               y == off(k)
    <3>1. /\ v \in InUseBy(m, O) /\ w \in InUseBy(m, O) /\ x \in 0 .. PageSize - 1
          /\ y \in 0 .. PageSize - 1 /\ m.pte[v] + x = m.pte[w] + y /\ MemInv(m, O)
      BY <1>2, <1>3, <2>1 DEF m
    <3> HIDE DEF v, w, x, y
    <3>2. v = w /\ x = y
      BY <3>1, ApartFrames
    <3>3. QED
      BY <3>2 DEF v, w, x, y
  <2>3. s.vaddr + j = s.vaddr + k
    BY <1>2, <2>2
  <2>4. QED
    BY <1>1, <2>3
<1>7. \A k \in 0 .. s.memsz - 1 : get_map(m, PageOf(s.vaddr + k)) # None
  BY <1>2, <1>3 DEF at, UserCanTouch
<1>8. /\ n \in Loads /\ n.mem = m
      /\ \A u \in 0 .. AddrLimit - 1 :
            (\A k \in 0 .. s.memsz - 1 : PlaceOf(m, s, k) # u) => n.phys[u] = l.phys[u]
      /\ \A k \in 0 .. s.memsz - 1 :
            /\ PlaceOf(m, s, k) \in 0 .. AddrLimit - 1
            /\ \A j \in 0 .. s.memsz - 1 : j # k => PlaceOf(m, s, j) # PlaceOf(m, s, k)
            => n.phys[PlaceOf(m, s, k)] = Wanted(f, s, k)
  <2> DEFINE c == s.memsz
  <2>1. c \in Nat /\ \A k \in 0 .. c - 1 : get_map(l.mem, PageOf(s.vaddr + k)) # None
    BY <1>1, <1>7 DEF m
  <2> DEFINE w == Write(l, f, s, c)
  <2> HIDE DEF c
  <2>2. Written(l, w, f, s, c)
    BY <2>1, WriteDone
  <2>3. Written(l, n, f, s, s.memsz)
    BY <2>2 DEF n, c
  <2>4. QED
    BY <2>3 DEF m, Written
<1>9. SegmentThere(n.mem, n.phys, f, s)
  <2> SUFFICES ASSUME NEW k \in 0 .. s.memsz - 1
               PROVE  /\ at(k) \in High /\ at(k) # StackPage
                      /\ UserCanTouch(m, at(k))
                      /\ n.phys[m.pte[at(k)] + off(k)] = Wanted(f, s, k)
    BY <1>8 DEF SegmentThere, at, off
  <2>1. n.phys[PlaceOf(m, s, k)] = Wanted(f, s, k)
    BY <1>5, <1>6, <1>8
  <2>2. QED
    BY <1>2, <1>3, <1>4, <2>1
<1>10. ASSUME NEW w \in LoadedPages(m), NEW x \in 0 .. PageSize - 1,
              w \notin SegmentPages(s), w # StackPage
       PROVE  n.phys[m.pte[w] + x] = l.phys[m.pte[w] + x]
  <2>1. w \in InUseBy(m, O) /\ MemInv(m, O)
    BY DEF InUseBy, m
  <2>2. m.pte[w] \in FrameAddrs
    BY <1>10, <2>1, LoadedFrames
  <2>3. m.pte[w] \in Nat /\ m.pte[w] + PageSize <= AddrLimit
    BY <2>2, FrameIs
  <2>4. m.pte[w] + x \in 0 .. AddrLimit - 1
    <3> DEFINE a == m.pte[w]
    <3> HIDE DEF a
    <3>1. a + x \in 0 .. AddrLimit - 1
      BY <1>1, <2>3 DEF a
    <3>2. QED
      BY <3>1 DEF a
  <2>5. ASSUME NEW k \in 0 .. s.memsz - 1, PlaceOf(m, s, k) = m.pte[w] + x PROVE FALSE
    <3> DEFINE v == at(k)
               y == off(k)
    <3>1. /\ v \in InUseBy(m, O) /\ y \in 0 .. PageSize - 1 /\ m.pte[v] + y = m.pte[w] + x
          /\ v # w
      BY <1>2, <1>3, <1>4, <1>10, <2>5
    <3> HIDE DEF v, y
    <3>2. v = w
      BY <2>1, <3>1, ApartFrames
    <3>3. QED
      BY <3>1, <3>2
  <2>6. QED
    BY <1>8, <2>4, <2>5
<1>11. QED
  BY <1>8, <1>9, <1>10 DEF n, m

\* A fault later on does not undo what was mapped.
LEMMA GrownStatus ==
    ASSUME NEW m, NEW n, NEW o \in Memories, NEW O, NEW M, Grown(m, n, M), MemInv(n, O),
           UserPages(n, M), o.map = n.map, o.dir = n.dir, o.pte = n.pte, o.user = n.user,
           o.next_virtual = n.next_virtual, o.free_virtual = n.free_virtual,
           o.stale = n.stale, o.short = n.short
    PROVE  Grown(m, o, M) /\ MemInv(o, O) /\ UserPages(o, M)
<1>1. Grown(m, o, M)
  BY DEF Grown, Fresh, SameRest
<1>2. UserPages(o, M)
  BY DEF UserPages
<1>3. n.next_virtual \in KernelEnd .. MaxNext /\ FreeInv(n, O)
  BY DEF MemInv
<1>4. FreeInv(o, O) /\ o.next_virtual \in n.next_virtual .. MaxNext
  BY <1>3, LayoutIs DEF FreeInv
<1>5. MemInv(o, O)
  BY <1>4, Renumbered
<1>6. QED
  BY <1>1, <1>2, <1>5

\* A segment has at most as many bytes in the file as in memory.
LEMMA CopyIsWrite ==
    ASSUME NEW l, NEW f, NEW s \in Segments, s.filesz <= s.memsz
    PROVE  CopySegment(l, f, s) = Write(l, f, s, s.memsz)
<1> DEFINE a == s.filesz
           b == s.memsz
           S == {a, b}
<1>1. a \in Nat /\ b \in Nat /\ a <= b
  BY SegmentFields
<1> HIDE DEF a, b
<1>2. S \subseteq 0 .. b /\ S # {}
  BY <1>1
<1> HIDE DEF S
<1>3. Max(S) \in S /\ \A x \in S : x <= Max(S)
  BY <1>1, <1>2, MaxIsGreatest
<1>4. Max(S) = b
  BY <1>1, <1>3 DEF S
<1>5. QED
  BY <1>4 DEF CopySegment, S, a, b

\* load_segment().
LEMMA SegmentLoads ==
    ASSUME NEW l \in Loads, NEW O, MemInv(l.mem, O), l.mem.status = "ok",
           NEW f \in DOMAIN Files, NEW s \in Segments, s.filesz <= s.memsz,
           SegmentPages(s) \subseteq TablePages .. StackPage - 1
    PROVE  \E M \in SUBSET Pages : LoadsSegment(l, O, load_segment(l, f, s), f, s, M)
<1> DEFINE R == SegmentPages(s)
           first == PageOf(s.vaddr)
           count == SegmentCount(s)
           r == MapEach(l.mem, first, count, TRUE)
           n == load_segment(l, f, s)
           mapped == [l EXCEPT !.mem = r.mem]
<1>1. first \in Nat /\ count \in Nat /\ R = first .. first + count - 1
  BY UnitsOnPages DEF SegmentPages
<1>2. R \subseteq High /\ StackPage \notin R /\ R \subseteq Pages /\ R \cap Low = {}
  BY LayoutIs DEF High, Pages, Low
<1>3. Room(l.mem, O, R)
  BY <1>2 DEF Room
<1>4. PICK M \in SUBSET Pages : MapsPages(l.mem, O, r, R, TRUE, M)
  <2> HIDE DEF R, first, count
  <2>1. QED
    BY <1>1, <1>3, MapEachGrows
<1>5. /\ n = IF ~ r.ok \/ r.mem.status # "ok" THEN mapped ELSE CopySegment(mapped, f, s)
  BY DEF load_segment
<1> HIDE DEF R, r, n
<1>6. /\ r.ok \in BOOLEAN /\ M \subseteq R /\ Grown(l.mem, r.mem, M) /\ UserPages(r.mem, M)
      /\ r.ok /\ r.mem.status = "ok" /\ ~ r.mem.short => M = R /\ Exact(l.mem, r.mem, M)
      /\ r.mem.status # "ok" => Beyond(r.mem)
      /\ ~ r.ok => r.mem.short /\ r.mem.status = "ok"
      /\ MemInv(r.mem, O) /\ (NoMore(l.mem) => NoMore(r.mem))
  <2>1. O \cup (M \cap Low) = O
    BY <1>2, <1>4 DEF MapsPages
  <2>2. QED
    BY <1>4, <2>1 DEF MapsPages
<1>7. mapped \in Loads /\ mapped.mem = r.mem /\ mapped.phys = l.phys
  BY <1>6 DEF Loads, MemInv
<1> HIDE DEF mapped
<1>8. CASE ~ r.ok \/ r.mem.status # "ok"
  <2>1. n = mapped
    BY <1>5, <1>8
  <2>2. Explained(r.mem)
    BY <1>6 DEF Explained
  <2>3. LoadsSegment(l, O, n, f, s, M)
    BY <1>6, <1>7, <1>8, <2>1, <2>2 DEF LoadsSegment, R
  <2>4. QED
    BY <2>3 DEF n
<1>9. CASE r.ok /\ r.mem.status = "ok"
  <2>1. n = Write(mapped, f, s, s.memsz)
    BY <1>5, <1>9, CopyIsWrite
  <2>2. ASSUME ~ r.mem.short
        PROVE  M = R /\ \A v \in R : r.mem.pte[v] # None /\ get_map(r.mem, v) # None
    <3>1. M = R
      BY <1>6, <1>9, <2>2
    <3>2. SoundMap(l.mem.map) /\ SoundMap(r.mem.map)
      BY <1>6 DEF MemInv
    <3>3. \A v \in R : r.mem.pte[v] \in Fresh(l.mem, r.mem) /\ r.mem.dir[Dir(v)] # None
      BY <1>6, <3>1 DEF Grown
    <3>4. \A v \in R : r.mem.pte[v] # None
      BY <3>2, <3>3, FreshFrames, FrameIs
    <3>5. QED
      BY <3>1, <3>3, <3>4 DEF get_map
  <2>3. CASE \E k \in 0 .. s.memsz - 1 : get_map(mapped.mem, PageOf(s.vaddr + k)) = None
    <3> DEFINE c == s.memsz
    <3>1. /\ n \in Loads /\ n.mem.status = "fault"
          /\ n.mem.map = r.mem.map /\ n.mem.dir = r.mem.dir
          /\ n.mem.pte = r.mem.pte /\ n.mem.user = r.mem.user
          /\ n.mem.next_virtual = r.mem.next_virtual
          /\ n.mem.free_virtual = r.mem.free_virtual /\ n.mem.stale = r.mem.stale
          /\ n.mem.table = r.mem.table /\ n.mem.short = r.mem.short
      <4>1. \E k \in 0 .. c - 1 : get_map(mapped.mem, PageOf(s.vaddr + k)) = None
        BY <2>3
      <4>2. n = Write(mapped, f, s, c)
        BY <2>1
      <4> HIDE DEF c
      <4>3. LET x == Write(mapped, f, s, c)
            IN  /\ x \in Loads /\ x.phys = mapped.phys
                /\ x.mem.status = "fault" /\ x.mem.map = mapped.mem.map /\ x.mem.dir = mapped.mem.dir
                /\ x.mem.pte = mapped.mem.pte /\ x.mem.user = mapped.mem.user
                /\ x.mem.next_virtual = mapped.mem.next_virtual
                /\ x.mem.free_virtual = mapped.mem.free_virtual
                /\ x.mem.stale = mapped.mem.stale
                /\ x.mem.table = mapped.mem.table /\ x.mem.short = mapped.mem.short
        BY <1>7, <4>1, WriteFaults
      <4>4. QED
        BY <1>7, <4>2, <4>3
    <3>2. r.mem.short
      BY <1>7, <2>2, <2>3, UnitsOnPages DEF R
    <3>3. n.mem \in Memories
      BY <3>1 DEF Loads
    <3>4. Grown(l.mem, n.mem, M) /\ MemInv(n.mem, O) /\ UserPages(n.mem, M)
      BY <1>6, <3>1, <3>3, GrownStatus
    <3>5. NoMore(l.mem) => NoMore(n.mem)
      BY <1>6, <3>1 DEF NoMore
    <3>6. LoadsSegment(l, O, n, f, s, M)
      BY <1>6, <3>1, <3>2, <3>4, <3>5 DEF LoadsSegment, Explained, R
    <3>7. QED
      BY <3>6 DEF n
  <2>4. CASE \A k \in 0 .. s.memsz - 1 : get_map(mapped.mem, PageOf(s.vaddr + k)) # None
    <3>1. n \in Loads /\ n.mem = mapped.mem
      <4> DEFINE c == s.memsz
      <4>1. c \in Nat /\ \A k \in 0 .. c - 1 : get_map(mapped.mem, PageOf(s.vaddr + k)) # None
        BY <2>4, SegmentFields
      <4>2. n = Write(mapped, f, s, c)
        BY <2>1
      <4> HIDE DEF c
      <4>3. Write(mapped, f, s, c) \in Loads /\ Write(mapped, f, s, c).mem = mapped.mem
        BY <1>7, <4>1, WriteDone DEF Written
      <4>4. QED
        BY <4>2, <4>3
    <3>2. Explained(n.mem)
      BY <1>7, <1>9, <3>1 DEF Explained
    <3>3. CASE r.mem.short
      <4>1. LoadsSegment(l, O, n, f, s, M)
        BY <1>6, <1>7, <3>1, <3>2, <3>3 DEF LoadsSegment, R
      <4>2. QED
        BY <4>1 DEF n
    <3>4. CASE ~ r.mem.short
      <4>1. SegmentPages(s) \subseteq High \ {StackPage} /\ MemInv(mapped.mem, O)
        BY <1>2, <1>6, <1>7 DEF R
      <4>2. /\ \A v \in SegmentPages(s) : mapped.mem.pte[v] # None
            /\ UserPages(mapped.mem, SegmentPages(s))
        BY <1>6, <1>7, <2>2, <3>4 DEF R
      <4>3. /\ SegmentThere(n.mem, n.phys, f, s)
            /\ \A w \in LoadedPages(n.mem) : \A x \in 0 .. PageSize - 1 :
                 w \notin SegmentPages(s) /\ w # StackPage =>
                     n.phys[n.mem.pte[w] + x] = l.phys[n.mem.pte[w] + x]
        BY <1>7, <2>1, <4>1, <4>2, SegmentWritten
      <4>4. M = SegmentPages(s) /\ Exact(l.mem, n.mem, M)
        BY <1>6, <1>7, <1>9, <3>1, <3>4 DEF R
      <4>5. LoadsSegment(l, O, n, f, s, M)
        BY <1>6, <1>7, <3>1, <3>2, <4>3, <4>4 DEF LoadsSegment, R
      <4>6. QED
        BY <4>5 DEF n
    <3>5. QED
      BY <3>3, <3>4
  <2>5. QED
    BY <2>3, <2>4
<1>10. QED
  BY <1>6, <1>8, <1>9

(* A segment stays where it is as long as its pages and frames do.         *)
LEMMA SegmentKept ==
    ASSUME NEW m, NEW ph, NEW n, NEW qh, NEW f, NEW s \in Segments, SegmentThere(m, ph, f, s),
           \A v \in SegmentPages(s) : v \in High /\ v # StackPage /\ m.pte[v] # None =>
               /\ n.pte[v] = m.pte[v]
               /\ v \in m.user => v \in n.user
               /\ \A x \in 0 .. PageSize - 1 : qh[m.pte[v] + x] = ph[m.pte[v] + x],
           \A d \in Dirs : /\ m.dir[d] # None => n.dir[d] = m.dir[d]
                           /\ DirBit(d) \in m.user => DirBit(d) \in n.user
    PROVE  SegmentThere(n, qh, f, s)
<1> DEFINE at(k) == PageOf(s.vaddr + k)
           off(k) == (s.vaddr + k) % PageSize
<1> SUFFICES ASSUME NEW k \in 0 .. s.memsz - 1
             PROVE  /\ at(k) \in High /\ at(k) # StackPage
                    /\ UserCanTouch(n, at(k))
                    /\ qh[n.pte[at(k)] + off(k)] = Wanted(f, s, k)
  BY DEF SegmentThere
<1>1. /\ at(k) \in High /\ at(k) # StackPage /\ UserCanTouch(m, at(k))
      /\ ph[m.pte[at(k)] + off(k)] = Wanted(f, s, k)
  BY DEF SegmentThere
<1>2. s.vaddr + k \in Nat /\ at(k) \in SegmentPages(s)
  BY SegmentFields, UnitsOnPages
<1>3. off(k) \in 0 .. PageSize - 1
  BY <1>2, DivideIs
<1>4. Dir(at(k)) \in Dirs
  BY <1>1, DirIs DEF High
<1> HIDE DEF at, off
<1>5. /\ m.dir[Dir(at(k))] # None /\ m.pte[at(k)] # None
      /\ at(k) \in m.user /\ DirBit(Dir(at(k))) \in m.user
  BY <1>1 DEF UserCanTouch, get_map
<1>6. /\ n.pte[at(k)] = m.pte[at(k)] /\ at(k) \in n.user
      /\ qh[m.pte[at(k)] + off(k)] = ph[m.pte[at(k)] + off(k)]
  BY <1>1, <1>2, <1>3, <1>5
<1>7. n.dir[Dir(at(k))] # None /\ DirBit(Dir(at(k))) \in n.user
  BY <1>4, <1>5
<1>8. UserCanTouch(n, at(k))
  BY <1>5, <1>6, <1>7 DEF UserCanTouch, get_map
<1>9. QED
  BY <1>1, <1>6, <1>8

(* The pages of the first N program headers.                               *)
LoadedUpTo(f, N) ==
    UNION {SegmentPages(Files[f].segments[n]) : n \in {i \in 1 .. N : Files[f].segments[i].load}}

(* The results of the first N program headers; the pages of M got a frame. *)
ProgramLoads(b, O, l, f, N, M) ==
    /\ l \in Loads /\ M \subseteq LoadedUpTo(f, N)
    /\ Grown(b.mem, l.mem, M) /\ MemInv(l.mem, O) /\ UserPages(l.mem, M)
    /\ Explained(l.mem)
    /\ NoMore(b.mem) => NoMore(l.mem)
    /\ l.mem.status = "ok" /\ ~ l.mem.short =>
          /\ M = LoadedUpTo(f, N) /\ Exact(b.mem, l.mem, M)
          /\ \A n \in 1 .. N : Files[f].segments[n].load =>
                SegmentThere(l.mem, l.phys, f, Files[f].segments[n])

\* What FilesAssumption and LinkAssumption say of an executable file.
LEMMA ProgramIs ==
    ASSUME NEW f \in DOMAIN Files, Files[f].type = "EXEC"
    PROVE  LET S == Files[f].segments
           IN  /\ Files[f].entry # 0
               /\ S \in Seq(Segments) /\ Len(S) \in Nat /\ DOMAIN S = 1 .. Len(S)
               /\ \A n \in 1 .. Len(S) : S[n] \in Segments
               /\ \A n \in 1 .. Len(S) : S[n].load =>
                     /\ S[n].filesz <= S[n].memsz
                     /\ SegmentPages(S[n]) \subseteq TablePages .. StackPage - 1
               /\ \A n, k \in 1 .. Len(S) : S[n].load /\ S[k].load /\ n # k =>
                     SegmentPages(S[n]) \cap SegmentPages(S[k]) = {}
<1> DEFINE S == Files[f].segments
<1>1. Files[f] \in Headers
  BY FilesAssumption
<1>2. S \in Seq(Segments)
  BY <1>1 DEF Headers
<1>3. /\ Len(S) \in Nat /\ DOMAIN S = 1 .. Len(S)
      /\ \A n \in 1 .. Len(S) : S[n] \in Segments
  BY <1>2
<1>4. /\ Files[f].entry # 0
      /\ \A n \in DOMAIN S : S[n].load =>
            /\ S[n].filesz <= S[n].memsz
            /\ SegmentPages(S[n]) \subseteq TablePages .. StackPage - 1
      /\ \A n, k \in DOMAIN S : S[n].load /\ S[k].load /\ n # k =>
            SegmentPages(S[n]) \cap SegmentPages(S[k]) = {}
  <2> DEFINE loaded == {n \in DOMAIN S : S[n].load}
  <2>1. /\ Files[f].entry # 0
        /\ \A n \in loaded : /\ S[n].filesz <= S[n].memsz
                              /\ SegmentPages(S[n]) \subseteq TablePages .. StackPage - 1
        /\ \A n, k \in loaded : n # k => SegmentPages(S[n]) \cap SegmentPages(S[k]) = {}
    BY LinkAssumption, Zenon
  <2>2. QED
    BY <2>1
<1>5. QED
  BY <1>2, <1>3, <1>4

\* The pages of one segment more.
LEMMA UpToIs ==
    ASSUME NEW f, NEW N \in Nat \ {0}
    PROVE  /\ Files[f].segments[N].load =>
                 LoadedUpTo(f, N) = LoadedUpTo(f, N - 1) \cup SegmentPages(Files[f].segments[N])
           /\ ~ Files[f].segments[N].load => LoadedUpTo(f, N) = LoadedUpTo(f, N - 1)
           /\ \A v : v \in LoadedUpTo(f, N - 1) <=>
                 \E n \in 1 .. N - 1 : /\ Files[f].segments[n].load
                                       /\ v \in SegmentPages(Files[f].segments[n])
<1> DEFINE In(v, K) == \E n \in 1 .. K : /\ Files[f].segments[n].load
                                         /\ v \in SegmentPages(Files[f].segments[n])
<1>1. \A K : \A v : v \in LoadedUpTo(f, K) <=> In(v, K)
  BY DEF LoadedUpTo
<1>2. \A v : In(v, N) <=> \/ In(v, N - 1)
                          \/ /\ Files[f].segments[N].load
                             /\ v \in SegmentPages(Files[f].segments[N])
  <2>1. \A n : n \in 1 .. N <=> n \in 1 .. N - 1 \/ n = N
    OBVIOUS
  <2>2. QED
    BY <2>1
<1> HIDE DEF In
<1>3. (\A v : v \in LoadedUpTo(f, N) <=> In(v, N))
      /\ (\A v : v \in LoadedUpTo(f, N - 1) <=> In(v, N - 1))
  BY <1>1
<1>4. ASSUME Files[f].segments[N].load
      PROVE  LoadedUpTo(f, N) = LoadedUpTo(f, N - 1) \cup SegmentPages(Files[f].segments[N])
  <2>1. \A v : v \in LoadedUpTo(f, N) <=>
           v \in LoadedUpTo(f, N - 1) \/ v \in SegmentPages(Files[f].segments[N])
    BY <1>2, <1>3, <1>4
  <2>2. QED
    BY <2>1
<1>5. ASSUME ~ Files[f].segments[N].load PROVE LoadedUpTo(f, N) = LoadedUpTo(f, N - 1)
  <2>1. \A v : v \in LoadedUpTo(f, N) <=> v \in LoadedUpTo(f, N - 1)
    BY <1>2, <1>3, <1>5
  <2>2. QED
    BY <2>1
<1>6. QED
  BY <1>3, <1>4, <1>5 DEF In

\* Segments lie behind the first table and away from the stack.
LEMMA UpToPages ==
    ASSUME NEW f \in DOMAIN Files, Files[f].type = "EXEC",
           NEW N \in 0 .. Len(Files[f].segments)
    PROVE  LoadedUpTo(f, N) \subseteq High \ {StackPage} /\ LoadedUpTo(f, N) \subseteq Pages
<1> DEFINE S == Files[f].segments
<1>1. TablePages .. StackPage - 1 \subseteq High \ {StackPage} /\ High \subseteq Pages
  BY LayoutIs DEF High, Pages
<1>2. ASSUME NEW n \in 1 .. N, S[n].load PROVE SegmentPages(S[n]) \subseteq High \ {StackPage}
  <2>1. Len(S) \in Nat /\ SegmentPages(S[n]) \subseteq TablePages .. StackPage - 1
    <3>1. Len(S) \in Nat
      BY ProgramIs
    <3>2. n \in 1 .. Len(S)
      BY <3>1
    <3>3. QED
      BY <1>2, <3>1, <3>2, ProgramIs
  <2>2. QED
    BY <1>1, <2>1
<1>3. QED
  BY <1>1, <1>2 DEF LoadedUpTo

\* One step of elf_load_exec().
LEMMA HeaderLoads ==
    ASSUME NEW f \in DOMAIN Files, Files[f].type = "EXEC", NEW b \in Loads, NEW O,
           MemInv(b.mem, O), NEW i \in 1 .. Len(Files[f].segments),
           NEW l, NEW M, ProgramLoads(b, O, l, f, i - 1, M)
    PROVE  \E N \in SUBSET Pages :
              ProgramLoads(b, O, LoadHeader(l, f, Files[f].segments[i]), f, i, N)
<1> DEFINE S == Files[f].segments
           s == S[i]
           n == LoadHeader(l, f, s)
           U == LoadedUpTo(f, i - 1)
<1>1. /\ Len(S) \in Nat /\ i \in Nat \ {0} /\ i - 1 \in 0 .. Len(S) /\ s \in Segments
      /\ \A j \in 1 .. i - 1 : j \in 1 .. Len(S) /\ S[j] \in Segments
  <2>1. Len(S) \in Nat /\ \A j \in 1 .. Len(S) : S[j] \in Segments
    BY ProgramIs
  <2>2. i \in Nat \ {0} /\ i - 1 \in 0 .. Len(S) /\ \A j \in 1 .. i - 1 : j \in 1 .. Len(S)
    BY <2>1
  <2>3. QED
    BY <2>1, <2>2
<1>2. /\ s.load => LoadedUpTo(f, i) = U \cup SegmentPages(s)
      /\ ~ s.load => LoadedUpTo(f, i) = U
      /\ \A v : v \in U <=> \E j \in 1 .. i - 1 : S[j].load /\ v \in SegmentPages(S[j])
  BY <1>1, UpToIs
<1>3. \A j \in 1 .. i : j \in 1 .. i - 1 \/ j = i
  BY <1>1
<1>4. U \subseteq Pages /\ M \subseteq U /\ M \subseteq Pages
  BY <1>1, UpToPages DEF ProgramLoads
<1> HIDE DEF U
<1>5. CASE ~ (s.load /\ l.mem.status = "ok")
  <2>1. n = l
    BY <1>5 DEF LoadHeader
  <2>2. M \subseteq LoadedUpTo(f, i)
    BY <1>2, <1>4
  <2>3. ASSUME l.mem.status = "ok", ~ l.mem.short
        PROVE  /\ M = LoadedUpTo(f, i) /\ Exact(b.mem, l.mem, M)
               /\ \A j \in 1 .. i : S[j].load => SegmentThere(l.mem, l.phys, f, S[j])
    <3>1. ~ s.load /\ M = U /\ Exact(b.mem, l.mem, M)
          /\ \A j \in 1 .. i - 1 : S[j].load => SegmentThere(l.mem, l.phys, f, S[j])
      BY <1>5, <2>3 DEF ProgramLoads, U
    <3>2. QED
      BY <1>2, <1>3, <3>1
  <2>4. ProgramLoads(b, O, l, f, i, M)
    BY <2>2, <2>3 DEF ProgramLoads
  <2>5. QED
    BY <1>4, <2>1, <2>4
<1>6. CASE s.load /\ l.mem.status = "ok"
  <2>1. n = load_segment(l, f, s)
    BY <1>6 DEF LoadHeader
  <2>2. /\ l \in Loads /\ MemInv(l.mem, O) /\ Grown(b.mem, l.mem, M) /\ UserPages(l.mem, M)
    BY DEF ProgramLoads
  <2>3. s.filesz <= s.memsz /\ SegmentPages(s) \subseteq TablePages .. StackPage - 1
    BY <1>6, ProgramIs
  <2> HIDE DEF s, n
  <2>4. PICK N \in SUBSET Pages : LoadsSegment(l, O, n, f, s, N)
    BY <1>1, <1>6, <2>1, <2>2, <2>3, SegmentLoads
  <2>5. /\ n \in Loads /\ N \subseteq SegmentPages(s)
        /\ Grown(l.mem, n.mem, N) /\ MemInv(n.mem, O) /\ UserPages(n.mem, N) /\ Explained(n.mem)
        /\ NoMore(b.mem) => NoMore(n.mem)
    BY <2>4 DEF LoadsSegment, ProgramLoads
  <2>6. \A j \in 1 .. i - 1 : S[j].load => SegmentPages(S[j]) \cap SegmentPages(s) = {}
    <3> TAKE j \in 1 .. i - 1
    <3> HAVE S[j].load
    <3>1. j \in 1 .. Len(S) /\ j # i /\ i \in 1 .. Len(S)
      BY <1>1
    <3>2. QED
      BY <1>6, <3>1, ProgramIs DEF s
  <2>7. U \cap SegmentPages(s) = {} /\ M \cap N = {}
    BY <1>2, <1>4, <2>5, <2>6
  <2>8. /\ Grown(b.mem, n.mem, M \cup N)
        /\ UserPages(l.mem, M) /\ UserPages(n.mem, N) => UserPages(n.mem, M \cup N)
        /\ Exact(b.mem, l.mem, M) /\ Exact(l.mem, n.mem, N) => Exact(b.mem, n.mem, M \cup N)
    <3>1. SoundMap(b.mem.map)
      BY DEF MemInv
    <3>2. QED
      BY <1>4, <2>2, <2>5, <2>7, <3>1, GrownTwice
  <2>9. M \cup N \subseteq LoadedUpTo(f, i)
    BY <1>2, <1>4, <1>6, <2>5 DEF s
  <2>10. ASSUME n.mem.status = "ok", ~ n.mem.short
         PROVE  /\ M \cup N = LoadedUpTo(f, i) /\ Exact(b.mem, n.mem, M \cup N)
                /\ \A j \in 1 .. i : S[j].load => SegmentThere(n.mem, n.phys, f, S[j])
    <3>1. ~ l.mem.short
      BY <2>5, <2>10 DEF Grown
    <3>2. /\ M = U /\ Exact(b.mem, l.mem, M)
          /\ \A j \in 1 .. i - 1 : S[j].load => SegmentThere(l.mem, l.phys, f, S[j])
      BY <1>6, <3>1 DEF ProgramLoads, U
    <3>3. /\ N = SegmentPages(s) /\ Exact(l.mem, n.mem, N)
          /\ SegmentThere(n.mem, n.phys, f, s)
          /\ \A w \in LoadedPages(n.mem) : \A x \in 0 .. PageSize - 1 :
                w \notin SegmentPages(s) /\ w # StackPage =>
                    n.phys[n.mem.pte[w] + x] = l.phys[n.mem.pte[w] + x]
      BY <2>4, <2>10 DEF LoadsSegment
    <3>4. ASSUME NEW j \in 1 .. i - 1, S[j].load PROVE SegmentThere(n.mem, n.phys, f, S[j])
      <4> DEFINE t == S[j]
      <4>1. t \in Segments /\ SegmentThere(l.mem, l.phys, f, t)
            /\ SegmentPages(t) \cap SegmentPages(s) = {}
        BY <1>1, <2>6, <3>2, <3>4
      <4> HIDE DEF t
      <4>2. \A v \in SegmentPages(t) : v \in High /\ v # StackPage /\ l.mem.pte[v] # None =>
               /\ n.mem.pte[v] = l.mem.pte[v]
               /\ v \in l.mem.user => v \in n.mem.user
               /\ \A x \in 0 .. PageSize - 1 : n.phys[l.mem.pte[v] + x] = l.phys[l.mem.pte[v] + x]
        <5> TAKE v \in SegmentPages(t)
        <5> HAVE v \in High /\ v # StackPage /\ l.mem.pte[v] # None
        <5>1. v \in Pages /\ v >= TablePages /\ v \notin N /\ v \notin SegmentPages(s)
          BY <3>3, <4>1 DEF High
        <5>2. n.mem.pte[v] = l.mem.pte[v] /\ (v \in l.mem.user => v \in n.mem.user)
          BY <2>5, <5>1 DEF Grown
        <5>3. v \in LoadedPages(n.mem)
          BY <5>1, <5>2 DEF LoadedPages
        <5>4. QED
          BY <3>3, <5>1, <5>2, <5>3
      <4>3. \A d \in Dirs : /\ l.mem.dir[d] # None => n.mem.dir[d] = l.mem.dir[d]
                            /\ DirBit(d) \in l.mem.user => DirBit(d) \in n.mem.user
        BY <2>5 DEF Grown
      <4>4. SegmentThere(n.mem, n.phys, f, t)
        BY <4>1, <4>2, <4>3, SegmentKept
      <4>5. QED
        BY <4>4 DEF t
    <3>5. QED
      BY <1>2, <1>3, <1>6, <2>8, <3>2, <3>3, <3>4 DEF s
  <2>11. ProgramLoads(b, O, n, f, i, M \cup N)
    BY <2>2, <2>5, <2>8, <2>9, <2>10 DEF ProgramLoads
  <2>12. M \cup N \in SUBSET Pages
    BY <1>4
  <2>13. QED
    BY <2>11, <2>12 DEF n, s
<1>7. QED
  BY <1>5, <1>6

\* elf_load_exec(), by induction along its recursion.
LEMMA ExecLoads ==
    ASSUME NEW f \in DOMAIN Files, Files[f].type = "EXEC", NEW b \in Loads, NEW O,
           MemInv(b.mem, O), b.mem.status = "ok"
    PROVE  \E M \in SUBSET Pages :
              ProgramLoads(b, O, elf_load_exec(b, f), f, Len(Files[f].segments), M)
<1> DEFINE S == Files[f].segments
           n == Len(S)
           F(g) == [k \in 0 .. Len(S) |->
                       IF k = 0 THEN b ELSE LoadHeader(g[k - 1], f, S[k])]
           step == [k \in 1 .. n |->
                      [x \in Loads |-> IF LoadHeader(x, f, S[k]) \in Loads
                                       THEN LoadHeader(x, f, S[k]) ELSE x]]
           r == CHOOSE g : g = F(g)
           Good(x, k) == \E M \in SUBSET Pages : ProgramLoads(b, O, x, f, k, M)
<1>1. n \in Nat
  BY ProgramIs
<1>2. elf_load_exec(b, f) = r[n]
  BY DEF elf_load_exec
<1>3. step \in [1 .. n -> [Loads -> Loads]]
  <2> HIDE DEF n
  <2>1. QED
    OBVIOUS
<1>4. PICK g \in [0 .. n -> Loads] : Iterated(g, n, b, step)
  <2> HIDE DEF step, n
  <2>1. QED
    BY <1>1, <1>3, Iterates
<1>5. g[0] = b /\ \A k \in 1 .. n : k - 1 \in 0 .. n /\ g[k - 1] \in Loads /\ g[k] = step[k][g[k - 1]]
  <2> HIDE DEF step, n
  <2>1. QED
    BY <1>1, <1>4 DEF Iterated
<1> DEFINE Q == {k \in 0 .. n : Good(g[k], k)}
<1>6. 0 \in Q
  <2>1. ProgramLoads(b, O, b, f, 0, {})
    <3>1. LoadedUpTo(f, 0) = {}
      BY DEF LoadedUpTo
    <3>2. Explained(b.mem)
      BY DEF Explained
    <3>3. QED
      BY <3>1, <3>2, GrownItself DEF ProgramLoads
  <2>2. Good(b, 0)
    <3>1. {} \in SUBSET Pages
      OBVIOUS
    <3>2. QED
      BY <2>1, <3>1
  <2> HIDE DEF Good, n
  <2>3. QED
    BY <1>1, <1>5, <2>2
<1>7. ASSUME NEW k \in 1 .. n, k - 1 \in Q
      PROVE  k \in Q /\ g[k] = LoadHeader(g[k - 1], f, S[k])
  <2> DEFINE x == LoadHeader(g[k - 1], f, S[k])
             y == g[k - 1]
  <2>1. PICK M \in SUBSET Pages : ProgramLoads(b, O, y, f, k - 1, M)
    BY <1>7
  <2>2. Good(x, k)
    <3> HIDE DEF y
    <3>1. \E N \in SUBSET Pages : ProgramLoads(b, O, LoadHeader(y, f, S[k]), f, k, N)
      BY <2>1, HeaderLoads
    <3>2. QED
      BY <3>1 DEF y
  <2>3. x \in Loads
    BY <2>2 DEF ProgramLoads
  <2>4. g[k] = x
    BY <1>5, <2>3
  <2> HIDE DEF Good, x, n
  <2>5. k \in Q
    BY <1>1, <2>2, <2>4
  <2>6. QED
    BY <2>4, <2>5 DEF x
<1>8. Q = 0 .. n
  <2> HIDE DEF Q, n
  <2>1. Q \subseteq 0 .. n
    BY DEF Q
  <2>2. QED
    BY <1>1, <1>6, <1>7, <2>1, Reaches
<1>9. \A k \in 1 .. n : g[k] = LoadHeader(g[k - 1], f, S[k])
  <2> HIDE DEF Q, n
  <2>1. \A k \in 1 .. n : k - 1 \in Q
    BY <1>1, <1>8
  <2>2. QED
    BY <1>7, <2>1
<1>10. g = F(g)
  BY <1>1, <1>4, <1>5, <1>9
<1>11. r = F(r)
  <2> HIDE DEF F
  <2>1. QED
    BY <1>10, Zenon
<1> HIDE DEF r
<1>12. r[0] = b /\ \A k \in 1 .. n : r[k] = LoadHeader(r[k - 1], f, S[k])
  <2> DEFINE G == F(r)
  <2>1. \A k \in 0 .. n : G[k] = IF k = 0 THEN b ELSE LoadHeader(r[k - 1], f, S[k])
    OBVIOUS
  <2>2. 0 \in 0 .. n /\ \A k \in 1 .. n : k \in 0 .. n /\ k # 0
    <3> HIDE DEF n
    <3>1. QED
      BY <1>1
  <2>3. r = G
    BY <1>11
  <2> HIDE DEF G, n
  <2>4. QED
    BY <2>1, <2>2, <2>3
<1>13. r[n] = g[n]
  <2> DEFINE E == {k \in 0 .. n : r[k] = g[k]}
  <2>1. 0 \in E
    BY <1>1, <1>5, <1>12
  <2>2. ASSUME NEW k \in 1 .. n, k - 1 \in E PROVE k \in E
    <3>1. r[k - 1] = g[k - 1]
      BY <2>2
    <3>2. r[k] = LoadHeader(r[k - 1], f, S[k]) /\ g[k] = LoadHeader(g[k - 1], f, S[k])
      BY <1>9, <1>12
    <3>3. QED
      BY <1>1, <3>1, <3>2
  <2> HIDE DEF E, n
  <2>3. E \subseteq 0 .. n
    BY DEF E
  <2>4. E = 0 .. n
    BY <1>1, <2>1, <2>2, <2>3, Reaches
  <2>5. QED
    BY <1>1, <2>4 DEF E
<1>14. Good(g[n], n)
  <2> HIDE DEF Good, n
  <2>1. n \in Q
    BY <1>1, <1>8
  <2>2. QED
    BY <2>1
<1>15. QED
  BY <1>2, <1>13, <1>14
-----------------------------------------------------------------------------
(* A file is loaded and gets a stack: elf_load_file(), sys_exec() and the   *)
(* end of create_elf_process().                                             *)

Loadable(f) == check_elf_supported(f) /\ Files[f].type = "EXEC"

\* All segments of f are in memory.
ProgramThere(m, ph, f) ==
    \A n \in 1 .. Len(Files[f].segments) : Files[f].segments[n].load =>
        SegmentThere(m, ph, f, Files[f].segments[n])

\* From b to l the file f was loaded, as far as it can be, into the pages M.
FileLoaded(b, O, l, f, M) ==
    /\ l \in Loads /\ M \subseteq High \ {StackPage}
    /\ Grown(b.mem, l.mem, M) /\ MemInv(l.mem, O) /\ Explained(l.mem)
    /\ NoMore(b.mem) => NoMore(l.mem)
    /\ l.mem.status = "ok" /\ ~ l.mem.short =>
          Exact(b.mem, l.mem, M) /\ (Loadable(f) => ProgramThere(l.mem, l.phys, f))

\* elf_load_file(), with its three ways out.
LEMMA FileLoads ==
    ASSUME NEW f \in DOMAIN Files, NEW b \in Loads, NEW O, MemInv(b.mem, O), b.mem.status = "ok"
    PROVE  LET load == elf_load_file(b, f)
           IN  /\ load.entry \in Nat
               /\ load.entry = 0 => load.l = b
               /\ load.entry # 0 => check_elf_supported(f)
               /\ \E M \in SUBSET Pages : FileLoaded(b, O, load.l, f, M)
<1> DEFINE load == elf_load_file(b, f)
           N == Len(Files[f].segments)
<1>1. CASE Loadable(f)
  <2>1. load.l = elf_load_exec(b, f) /\ load.entry = Files[f].entry
    BY <1>1 DEF elf_load_file, Loadable
  <2>2. Files[f].type = "EXEC" /\ Files[f].entry # 0 /\ N \in Nat
    BY <1>1, ProgramIs DEF Loadable
  <2> DEFINE l == elf_load_exec(b, f)
  <2>3. PICK M \in SUBSET Pages : ProgramLoads(b, O, l, f, N, M)
    BY <2>2, ExecLoads
  <2>4. LoadedUpTo(f, N) \subseteq High \ {StackPage}
    <3>1. N \in 0 .. N
      BY <2>2
    <3>2. QED
      BY <2>2, <3>1, UpToPages
  <2> HIDE DEF l, N
  <2>5. FileLoaded(b, O, l, f, M)
    BY <2>3, <2>4 DEF FileLoaded, ProgramLoads, ProgramThere, N
  <2>6. Files[f].entry \in Nat
    <3>1. Files[f] \in Headers
      BY FilesAssumption
    <3>2. QED
      BY <3>1 DEF Headers
  <2>7. QED
    BY <1>1, <2>1, <2>2, <2>5, <2>6 DEF l, Loadable
<1>2. CASE ~ Loadable(f)
  <2>1. load.l = b /\ load.entry \in Nat /\ (load.entry # 0 => check_elf_supported(f))
    BY <1>2 DEF elf_load_file, Loadable
  <2>2. FileLoaded(b, O, b, f, {})
    BY <1>2, GrownItself DEF FileLoaded, Explained
  <2>3. {} \in SUBSET Pages
    OBVIOUS
  <2>4. QED
    BY <2>1, <2>2, <2>3
<1>3. QED
  BY <1>1, <1>2

\* What sys_exec() and create_elf_process() make of the memory m and its
\* contents, for the file f: n and qh.
Replaced(m, O, n, qh, f) ==
    /\ MemInv(n, O) /\ Explained(n) /\ qh \in Physical
    /\ m.short => n.short
    /\ n.status = "ok" /\ ~ n.short =>
          /\ \A a \in Lost(n, InUseBy(n, O)) :
                a \in Lost(m, InUseBy(m, O)) \/ \E v \in LoadedPages(m) : m.pte[v] = a
          /\ Loadable(f) => ProgramThere(n, qh, f)

\* A program stays where it is when nothing is done to its pages.
LEMMA ProgramKept ==
    ASSUME NEW f \in DOMAIN Files, Loadable(f), NEW m, NEW ph, NEW n, NEW qh,
           ProgramThere(m, ph, f),
           \A v \in High : v # StackPage /\ m.pte[v] # None =>
               /\ n.pte[v] = m.pte[v]
               /\ v \in m.user => v \in n.user
               /\ \A x \in 0 .. PageSize - 1 : qh[m.pte[v] + x] = ph[m.pte[v] + x],
           \A d \in Dirs : /\ m.dir[d] # None => n.dir[d] = m.dir[d]
                           /\ DirBit(d) \in m.user => DirBit(d) \in n.user
    PROVE  ProgramThere(n, qh, f)
<1> SUFFICES ASSUME NEW i \in 1 .. Len(Files[f].segments), Files[f].segments[i].load
             PROVE  SegmentThere(n, qh, f, Files[f].segments[i])
  BY DEF ProgramThere
<1> DEFINE s == Files[f].segments[i]
<1>1. s \in Segments /\ SegmentThere(m, ph, f, s)
  BY ProgramIs DEF Loadable, ProgramThere
<1> HIDE DEF s
<1>2. \A v \in SegmentPages(s) : v \in High /\ v # StackPage /\ m.pte[v] # None =>
         /\ n.pte[v] = m.pte[v]
         /\ v \in m.user => v \in n.user
         /\ \A x \in 0 .. PageSize - 1 : qh[m.pte[v] + x] = ph[m.pte[v] + x]
  OBVIOUS
<1>3. SegmentThere(n, qh, f, s)
  BY <1>1, <1>2, SegmentKept
<1>4. QED
  BY <1>3 DEF s

\* Pages behind the first table get new frames; a program elsewhere stays.
LEMMA GrownProgram ==
    ASSUME NEW f \in DOMAIN Files, Loadable(f), NEW m, NEW ph, NEW n, NEW M,
           M \subseteq {StackPage}, Grown(m, n, M), ProgramThere(m, ph, f)
    PROVE  ProgramThere(n, ph, f)
<1>1. \A v \in High : v # StackPage /\ m.pte[v] # None =>
         /\ n.pte[v] = m.pte[v]
         /\ v \in m.user => v \in n.user
         /\ \A x \in 0 .. PageSize - 1 : ph[m.pte[v] + x] = ph[m.pte[v] + x]
  BY DEF Grown, High
<1>2. \A d \in Dirs : /\ m.dir[d] # None => n.dir[d] = m.dir[d]
                      /\ DirBit(d) \in m.user => DirBit(d) \in n.user
  BY DEF Grown
<1>3. QED
  BY <1>1, <1>2, ProgramKept

\* The frames that are lost when a program, and then a stack, is mapped over
\* what was there.
LEMMA StackMapped ==
    ASSUME NEW f \in DOMAIN Files, NEW b \in Loads, NEW O, MemInv(b.mem, O),
           NEW l, NEW M, FileLoaded(b, O, l, f, M), l.mem.status = "ok"
    PROVE  LET r == MapNew(l.mem, StackPage, TRUE)
           IN  /\ Replaced(b.mem, O, r.mem, l.phys, f)
               /\ r.addr # 0 /\ NoMore(b.mem) /\ Loadable(f) => ProgramThere(r.mem, l.phys, f)
<1> DEFINE r == MapNew(l.mem, StackPage, TRUE)
<1>1. /\ l \in Loads /\ M \subseteq High \ {StackPage} /\ Grown(b.mem, l.mem, M)
      /\ MemInv(l.mem, O)
  BY DEF FileLoaded
<1>2. StackPage \in Pages /\ StackPage \in High /\ StackPage >= TablePages /\ High \subseteq Pages
  BY LayoutIs DEF High
<1>3. /\ MapsOne(l.mem, r, StackPage, TRUE, {}) \/ MapsOne(l.mem, r, StackPage, TRUE, {StackPage})
      /\ r.mem.status # "ok" => Beyond(r.mem)
      /\ r.addr # 0 /\ NoMore(l.mem) => ~ l.mem.short
      /\ r.addr = 0 => r.mem.short /\ r.mem.status = "ok"
  BY <1>1, <1>2, MapNewGrows, MapNewNoMore
<1> HIDE DEF r
<1>4. PICK N \in {{}, {StackPage}} : MapsOne(l.mem, r, StackPage, TRUE, N)
  BY <1>3
<1>5. Grown(l.mem, r.mem, N)
      /\ (r.mem.status = "ok" /\ ~ r.mem.short => N = {StackPage} /\ Exact(l.mem, r.mem, N))
  BY <1>2, <1>3, <1>4 DEF MapsOne
<1>6. N \subseteq {StackPage} /\ N \subseteq High /\ N \subseteq Pages /\ M \subseteq Pages
      /\ M \cap N = {} /\ M \subseteq High
  BY <1>1, <1>2, <1>4
<1>7. N \cap Low = {} /\ M \cap Low = {} /\ (M \cup N) \cap Low = {}
  <2>1. High \cap Low = {}
    BY LayoutIs DEF High, Low
  <2>2. QED
    BY <1>6, <2>1
<1>8. MemInv(r.mem, O)
  <2>1. \A v \in N : v \in High
    BY <1>6
  <2>2. MemInv(r.mem, O \cup (N \cap Low))
    BY <1>1, <1>5, <1>6, <2>1, GrownKeeps
  <2>3. O \cup (N \cap Low) = O
    BY <1>7
  <2>4. QED
    BY <2>2, <2>3
<1>9. SoundMap(b.mem.map)
  BY DEF MemInv
<1>10. /\ Grown(b.mem, r.mem, M \cup N)
       /\ Exact(b.mem, l.mem, M) /\ Exact(l.mem, r.mem, N) => Exact(b.mem, r.mem, M \cup N)
  BY <1>1, <1>5, <1>6, <1>9, GrownTwice
<1>11. Explained(r.mem)
  BY <1>3 DEF Explained
<1>12. l.phys \in Physical
  BY <1>1 DEF Loads
<1>13. ASSUME r.mem.status = "ok", ~ r.mem.short
       PROVE  /\ \A a \in Lost(r.mem, InUseBy(r.mem, O)) :
                    \/ a \in Lost(b.mem, InUseBy(b.mem, O))
                    \/ \E v \in LoadedPages(b.mem) : b.mem.pte[v] = a
              /\ Loadable(f) => ProgramThere(r.mem, l.phys, f)
  <2>1. ~ l.mem.short
    BY <1>5, <1>13 DEF Grown
  <2>2. Exact(b.mem, l.mem, M) /\ (Loadable(f) => ProgramThere(l.mem, l.phys, f))
    BY <2>1 DEF FileLoaded
  <2>3. Exact(b.mem, r.mem, M \cup N)
    BY <1>5, <1>10, <1>13, <2>2
  <2> DEFINE T == M \cup N
             U == O \cup (T \cap Low)
  <2>4. T \subseteq Low \cup High /\ T \cap O = {}
    <3>1. O \cap High = {}
      <4> DEFINE k == b.mem.next_virtual
      <4>1. O \subseteq KernelEnd .. k - 1 /\ k \in KernelEnd .. MaxNext
        BY DEF MemInv
      <4>2. \A v \in High : v >= TablePages
        BY DEF High
      <4> HIDE DEF k
      <4>3. \A v \in O : ~ (v >= TablePages)
        BY <4>1, LayoutIs
      <4>4. QED
        BY <4>2, <4>3
    <3>2. QED
      BY <1>6, <3>1
  <2>5. U = O
    BY <1>7
  <2>6. Grown(b.mem, r.mem, T) /\ Exact(b.mem, r.mem, T)
    BY <1>10, <2>3
  <2> HIDE DEF T
  <2>7. \A a \in Lost(r.mem, InUseBy(r.mem, U)) :
           \/ a \in Lost(b.mem, InUseBy(b.mem, O))
           \/ \E v \in T : v \in LoadedPages(b.mem) /\ b.mem.pte[v] = a
    BY <2>4, <2>6, GrownLeaks
  <2>8. \A a \in Lost(r.mem, InUseBy(r.mem, O)) :
           \/ a \in Lost(b.mem, InUseBy(b.mem, O))
           \/ \E v \in LoadedPages(b.mem) : b.mem.pte[v] = a
    <3> HIDE DEF U
    <3>1. QED
      BY <2>5, <2>7
  <2>9. Loadable(f) => ProgramThere(r.mem, l.phys, f)
    BY <1>5, <1>6, <2>2, GrownProgram
  <2>10. QED
    BY <2>8, <2>9
<1>14. Replaced(b.mem, O, r.mem, l.phys, f)
  <2>1. b.mem.short => r.mem.short
    BY <1>10 DEF Grown
  <2>2. QED
    BY <1>8, <1>11, <1>12, <1>13, <2>1 DEF Replaced
<1>15. ASSUME r.addr # 0, NoMore(b.mem), Loadable(f) PROVE ProgramThere(r.mem, l.phys, f)
  <2>1. ProgramThere(l.mem, l.phys, f)
    BY <1>3, <1>15 DEF FileLoaded
  <2>2. QED
    BY <1>5, <1>6, <1>15, <2>1, GrownProgram
<1>16. QED
  BY <1>14, <1>15 DEF r

\* create_elf_process() without a frame for the stack: page StackPage is mapped
\* to frame 0, or its page table cannot be had, or is not reached.
LEMMA StackAtZero ==
    ASSUME NEW m, NEW O, MemInv(m, O), m.status = "ok", allocate(m.map).addr = 0
    PROVE  LET n == map_page(m, 0, StackPage, TRUE)
           IN  MemInv(n, O) /\ Explained(n) /\ (m.short => n.short)
<1> DEFINE t == TableFor(m, StackPage)
           n == map_page(m, 0, StackPage, TRUE)
           addr == 0
           user == TRUE
<1>1. /\ m \in Memories /\ SoundMap(m.map) /\ TablesInv(m) /\ Identity(m) /\ OwnersInv(m, O)
      /\ FreeInv(m, O) /\ m.next_virtual \in KernelEnd .. MaxNext
      /\ O \subseteq KernelEnd .. m.next_virtual - 1
  BY DEF MemInv
<1>2. StackPage \in Pages /\ StackPage \in High /\ StackPage >= TablePages
      /\ Dir(StackPage) \in Dirs /\ Dir(StackPage) # 0 /\ StackPage \in Nat
  BY LayoutIs, DirIs DEF High
<1>3. /\ t.addr \in Nat /\ SoundMap(t.map)
      /\ \/ /\ t.addr = 0 /\ t.map = m.map
         \/ /\ t.addr # 0 /\ t.map = m.map
            /\ m.dir[Dir(StackPage)] # None /\ m.dir[Dir(StackPage)] = t.addr
      /\ t.addr # 0 /\ Access(m, t.addr) # "ok" =>
            PageOf(t.addr) \notin (0 .. KernelEnd - 1) \cup (m.next_virtual .. TablePages - 1)
  <2>1. t.addr = 0 \/ m.dir[Dir(StackPage)] # None
    BY DEF TableFor
  <2>2. QED
    BY <1>1, <1>2, <2>1, TableForIs
<1>4. n = SetEntry(m, t, addr, StackPage, user)
  BY DEF map_page
<1>5. t.map \in Seq(Entries)
  BY <1>1, <1>3, MemoryFields
<1> HIDE DEF t, n, user, addr
<1>6. CASE t.addr = 0
  <2>1. /\ n \in Memories /\ SameRest(m, n) /\ n.map = m.map /\ n.dir = m.dir /\ n.pte = m.pte
        /\ n.stale = m.stale /\ n.status = m.status /\ n.short
    BY <1>1, <1>4, <1>6, SetEntryShort
  <2>2. FreeInv(n, O) /\ n.next_virtual \in m.next_virtual .. MaxNext
    BY <1>1, <2>1, LayoutIs DEF FreeInv, SameRest
  <2>3. MemInv(n, O)
    BY <2>1, <2>2, Renumbered
  <2>4. Explained(n)
    BY <2>1 DEF Explained
  <2>5. QED
    BY <2>1, <2>3, <2>4 DEF n
<1>7. CASE t.addr # 0 /\ Access(m, t.addr) # "ok"
  <2>1. /\ n \in Memories /\ SameRest(m, n) /\ n.map = t.map /\ n.dir = m.dir /\ n.pte = m.pte
        /\ n.stale = m.stale /\ n.table = t.addr /\ n.short = m.short
    BY <1>1, <1>3, <1>4, <1>5, <1>7, SetEntryLost
  <2>2. FreeInv(n, O) /\ n.next_virtual \in m.next_virtual .. MaxNext
    BY <1>1, <2>1, LayoutIs DEF FreeInv, SameRest
  <2>3. MemInv(n, O)
    BY <1>3, <1>7, <2>1, <2>2, Renumbered
  <2>4. Beyond(n)
    BY <1>3, <1>7, <2>1 DEF Beyond, SameRest
  <2>5. Explained(n)
    BY <2>4 DEF Explained
  <2>6. QED
    BY <2>1, <2>3, <2>5 DEF n
<1>8. CASE t.addr # 0 /\ Access(m, t.addr) = "ok"
  <2>1. Masked(addr) = 0
    <3>1. addr = 0 /\ addr \in Nat /\ addr % PageSize = 0
      BY LayoutIs DEF addr
    <3>2. QED
      BY <3>1, MaskedIs
  <2>2. /\ n \in Memories /\ SameRest(m, n) /\ n.map = t.map
        /\ n.dir[Dir(StackPage)] = t.addr
        /\ \A d \in Dirs : d # Dir(StackPage) => n.dir[d] = m.dir[d]
        /\ n.pte[StackPage] = 0 /\ \A w \in Pages : w # StackPage => n.pte[w] = m.pte[w]
        /\ n.stale = m.stale \ {StackPage} /\ n.status = m.status /\ n.short = m.short
    <3>1. Masked(addr) \in Nat
      BY <2>1
    <3>2. QED
      BY <1>1, <1>2, <1>3, <1>4, <1>5, <1>8, <2>1, <3>1, SetEntryDone
  <2>3. n.map = m.map /\ \A d \in Dirs : n.dir[d] = m.dir[d]
    BY <1>2, <1>3, <1>8, <2>2
  <2>4. Taken(n) = Taken(m)
    BY <2>3 DEF Taken
  <2>5. TablesInv(n)
    BY <1>1, <2>3, <2>4, LayoutIs DEF TablesInv, Dirs
  <2>6. \A w \in O : w \in Pages /\ w # StackPage
    BY <1>1, <1>2, LayoutIs, LowPages
  <2>7. Identity(n)
    <3>1. \A w \in 0 .. TablePages - 1 : w \in Pages /\ w # StackPage
      BY <1>2, LayoutIs, LowPages
    <3>2. QED
      BY <1>1, <2>2, <3>1 DEF Identity, SameRest
  <2>8. \A v \in InUseBy(n, O) : v = StackPage \/ (v \in InUseBy(m, O) /\ n.pte[v] = m.pte[v])
    BY <2>2, <2>6 DEF InUseBy, LoadedPages
  <2>9. \A v \in InUseBy(m, O) : v # StackPage => m.pte[v] \in FrameAddrs /\ m.pte[v] # 0
    BY LoadedFrames, FrameIs
  <2>10. OwnersInv(n, O)
    <3>1. \A v \in LoadedPages(n) : n.dir[Dir(v)] # None
      <4> TAKE v \in LoadedPages(n)
      <4>1. CASE v = StackPage
        BY <1>3, <1>8, <2>2, <4>1
      <4>2. CASE v # StackPage
        <5>1. v \in LoadedPages(m) /\ v \in Pages
          BY <2>2, <4>2 DEF LoadedPages
        <5>2. QED
          BY <1>1, <2>3, <5>1, DirIs DEF OwnersInv
      <4>3. QED
        BY <4>1, <4>2
    <3>2. \A v \in InUseBy(n, O) : OwnFrame(n, v)
      <4> TAKE v \in InUseBy(n, O)
      <4>1. CASE v = StackPage
        BY <2>2, <4>1 DEF OwnFrame
      <4>2. CASE v # StackPage
        BY <1>1, <2>3, <2>4, <2>8, <4>2 DEF OwnFrame, OwnersInv
      <4>3. QED
        BY <4>1, <4>2
    <3>3. \A v, w \in InUseBy(n, O) : v # w => n.pte[v] # n.pte[w]
      BY <1>1, <2>2, <2>8, <2>9 DEF OwnersInv
    <3>4. QED
      BY <3>1, <3>2, <3>3 DEF OwnersInv
  <2>11. FreeInv(n, O)
    <3>1. \A w \in KernelEnd .. m.next_virtual - 1 : w \in Pages /\ w # StackPage
      BY <1>1, <1>2, LayoutIs, LowPages
    <3>2. \A k \in 1 .. Len(m.free_virtual) : n.pte[m.free_virtual[k]] = m.pte[m.free_virtual[k]]
      BY <1>1, <2>2, <3>1 DEF FreeInv
    <3>3. n.free_virtual = m.free_virtual /\ n.next_virtual = m.next_virtual
          /\ n.stale \subseteq m.stale
      BY <2>2 DEF SameRest
    <3>4. QED
      BY <1>1, <3>2, <3>3 DEF FreeInv
  <2>12. MemInv(n, O)
    BY <1>1, <1>3, <2>2, <2>3, <2>5, <2>7, <2>10, <2>11 DEF MemInv, SameRest
  <2>13. Explained(n)
    BY <2>2 DEF Explained
  <2>14. QED
    BY <2>2, <2>12, <2>13 DEF n
<1>9. QED
  BY <1>6, <1>7, <1>8

\* short is a truth value, which is all that has to be known to set it to itself.
LEMMA SameShort ==
    ASSUME NEW m \in Memories, NEW c
    PROVE  [m EXCEPT !.map = c, !.short = m.short \/ FALSE] = [m EXCEPT !.map = c]
<1>1. m.short \in BOOLEAN
  BY MemoryFields
<1>2. (m.short \/ FALSE) = m.short
  BY <1>1
<1>3. \A y : y = m.short => [m EXCEPT !.map = c, !.short = y] = [m EXCEPT !.map = c]
  BY DEF Memories
<1>4. QED
  BY <1>2, <1>3, Zenon

\* The stack at the end of create_elf_process(), with or without a frame.
LEMMA BootStack ==
    ASSUME NEW f \in DOMAIN Files, NEW b \in Loads, NEW O, MemInv(b.mem, O),
           NEW l, NEW M, FileLoaded(b, O, l, f, M), l.mem.status = "ok"
    PROVE  LET frame == allocate(l.mem.map)
               m == map_page([l.mem EXCEPT !.map = frame.map, !.short = @ \/ frame.addr = 0],
                             frame.addr, StackPage, TRUE)
           IN  Replaced(b.mem, O, m, l.phys, f)
<1> DEFINE frame == allocate(l.mem.map)
           c == l.mem
           x == [c EXCEPT !.map = frame.map, !.short = c.short \/ frame.addr = 0]
           m == map_page(x, frame.addr, StackPage, TRUE)
<1>1. MemInv(c, O) /\ l \in Loads /\ c \in Memories /\ c.status = "ok" /\ l.phys \in Physical
  BY DEF FileLoaded, MemInv, Loads
<1>2. CASE frame.addr # 0
  <2>1. (frame.addr = 0) = FALSE
    BY <1>2
  <2>2. x = [c EXCEPT !.map = frame.map]
    <3>1. [c EXCEPT !.map = frame.map, !.short = c.short \/ FALSE] = [c EXCEPT !.map = frame.map]
      BY <1>1, SameShort, Zenon
    <3>2. QED
      BY <2>1, <3>1, Zenon
  <2>3. m = MapNew(c, StackPage, TRUE).mem
    <3> HIDE DEF x
    <3>1. QED
      BY <1>2, <2>2 DEF MapNew, MapFrame
  <2>4. Replaced(b.mem, O, MapNew(c, StackPage, TRUE).mem, l.phys, f)
    BY StackMapped
  <2>5. QED
    BY <2>3, <2>4
<1>3. CASE frame.addr = 0
  <2>1. frame.map = c.map
    <3>1. SoundMap(c.map)
      BY <1>1 DEF MemInv
    <3>2. \/ frame.addr = 0 /\ frame.map = c.map
          \/ frame.addr \in FrameAddrs
      BY <3>1, AllocateSound
    <3>3. QED
      BY <1>3, <3>2, FrameIs
  <2> DEFINE y == (c.short \/ frame.addr = 0)
             k == frame.map
  <2>2. y = TRUE
    BY <1>3
  <2> HIDE DEF y, k, c
  <2>3. LET z == [c EXCEPT !.map = k, !.short = y]
        IN  /\ z \in Memories /\ z.map = k /\ z.dir = c.dir /\ z.pte = c.pte
            /\ z.next_virtual = c.next_virtual /\ z.free_virtual = c.free_virtual
            /\ z.stale = c.stale /\ z.status = c.status /\ z.short = y
    <3>1. k \in Seq(Entries) /\ y \in BOOLEAN
      BY <1>1, <2>1, <2>2, MemoryFields DEF k
    <3>2. QED
      BY <1>1, <3>1 DEF Memories
  <2>4. x = [c EXCEPT !.map = k, !.short = y]
    BY Zenon DEF k, y
  <2> HIDE DEF x
  <2>5. /\ x \in Memories /\ x.map = c.map /\ x.dir = c.dir /\ x.pte = c.pte
        /\ x.next_virtual = c.next_virtual /\ x.free_virtual = c.free_virtual
        /\ x.stale = c.stale /\ x.status = c.status /\ x.short = y
    BY <2>1, <2>3, <2>4 DEF k
  <2>6. FreeInv(x, O) /\ x.next_virtual \in c.next_virtual .. MaxNext
    <3>1. FreeInv(c, O) /\ c.next_virtual \in KernelEnd .. MaxNext
      BY <1>1 DEF MemInv
    <3>2. QED
      BY <2>5, <3>1, LayoutIs DEF FreeInv
  <2>7. MemInv(x, O)
    BY <1>1, <2>5, <2>6, Renumbered
  <2>8. allocate(x.map).addr = 0
    BY <1>3, <2>5 DEF c
  <2>9. x.status = "ok" /\ x.short = TRUE
    BY <1>1, <2>2, <2>5
  <2>10. m = map_page(x, 0, StackPage, TRUE)
    BY <1>3
  <2> HIDE DEF m
  <2>11. MemInv(m, O) /\ Explained(m) /\ m.short
    BY <2>7, <2>8, <2>9, <2>10, StackAtZero
  <2>12. Replaced(b.mem, O, m, l.phys, f)
    BY <1>1, <2>11 DEF Replaced
  <2>13. QED
    BY <2>12 DEF m, x, c
<1>4. QED
  BY <1>2, <1>3

\* What is written into one page in use, or into the stack of programs,
\* reaches no other page.
LEMMA ScribbleKeeps ==
    ASSUME NEW m, NEW O, MemInv(m, O), NEW ph \in Physical, NEW v, v \in O \/ v = StackPage
    PROVE  /\ Scribble(m, ph, v) \in Physical
           /\ \A w \in High : w # StackPage /\ m.pte[w] # None =>
                 \A x \in 0 .. PageSize - 1 :
                    Scribble(m, ph, v)[m.pte[w] + x] = ph[m.pte[w] + x]
<1> DEFINE qh == Scribble(m, ph, v)
<1>1. DOMAIN ph = 0 .. AddrLimit - 1 /\ \A u \in 0 .. AddrLimit - 1 : ph[u] \in Contents
  BY DEF Physical
<1>2. /\ DOMAIN qh = 0 .. AddrLimit - 1
      /\ \A u \in 0 .. AddrLimit - 1 :
            qh[u] = IF get_map(m, v) # None /\ u \div PageSize = PageOf(get_map(m, v))
                    THEN Other ELSE ph[u]
  BY <1>1 DEF Scribble
<1>3. qh \in Physical
  <2>1. Other \in Contents
    BY DEF Contents
  <2>2. qh = [u \in 0 .. AddrLimit - 1 |-> qh[u]]
    BY <1>1 DEF Scribble
  <2> HIDE DEF qh
  <2>3. \A u \in 0 .. AddrLimit - 1 : qh[u] \in Contents
    BY <1>1, <1>2, <2>1
  <2>4. QED
    BY <2>2, <2>3 DEF Physical
<1>4. ASSUME NEW w \in High, w # StackPage, m.pte[w] # None, NEW x \in 0 .. PageSize - 1
      PROVE  qh[m.pte[w] + x] = ph[m.pte[w] + x]
  <2> DEFINE a == m.pte[w]
             e == m.pte[v]
  <2>1. w \in InUseBy(m, O)
    BY <1>4 DEF InUseBy, LoadedPages, High
  <2>2. a \in FrameAddrs
    BY <1>4, <2>1, LoadedFrames
  <2>3. a \in Nat /\ a % PageSize = 0 /\ a + PageSize <= AddrLimit
    BY <2>2, FrameIs
  <2>4. a + x \in 0 .. AddrLimit - 1 /\ PageOf(a + x) = PageOf(a)
    <3> HIDE DEF a
    <3>1. PageOf(a + x) = PageOf(a)
      BY <2>3, UnitInFrame
    <3>2. AddrLimit \in Nat /\ PageSize \in Nat
      BY PageSizeAssumption, AddrLimitAssumption
    <3>3. QED
      BY <2>3, <3>1, <3>2
  <2>5. SUFFICES ASSUME get_map(m, v) # None, PageOf(a) = PageOf(get_map(m, v)) PROVE FALSE
    <3> HIDE DEF a, qh
    <3>1. QED
      BY <1>2, <2>4 DEF PageOf, a
  <2>6. get_map(m, v) = e /\ e # None
    BY <2>5 DEF get_map
  <2>7. v \in InUseBy(m, O) /\ v # w
    <3>1. StackPage \in High /\ \A q \in High : q >= TablePages /\ q \in Pages
      BY LayoutIs DEF High
    <3>2. v \in O => v < TablePages /\ v \in Nat
      <4> DEFINE k == m.next_virtual
      <4>1. O \subseteq KernelEnd .. k - 1 /\ k \in KernelEnd .. MaxNext
        BY DEF MemInv
      <4> HIDE DEF k
      <4>2. QED
        BY <4>1, LayoutIs
    <3>3. v = StackPage => v \in LoadedPages(m)
      BY <2>6, <3>1 DEF LoadedPages
    <3>4. v # w
      BY <1>4, <3>1, <3>2, LayoutIs DEF High, Pages
    <3>5. QED
      BY <3>3, <3>4 DEF InUseBy
  <2>8. e \in Nat /\ e % PageSize = 0
    BY <2>7, LoadedFrames
  <2>9. a = e
    <3> HIDE DEF a, e
    <3>1. a = PageSize * PageOf(a) /\ e = PageSize * PageOf(e)
      BY <2>3, <2>8, AlignedIs
    <3>2. QED
      BY <2>5, <2>6, <3>1
  <2>10. QED
    BY <2>1, <2>7, <2>9 DEF MemInv, OwnersInv
<1>5. QED
  BY <1>3, <1>4
-----------------------------------------------------------------------------
(* The invariant of the specification.                                      *)

Images == DOMAIN Files \cup {"kernel", "none"}
Processes ==
    [state : {"none", "live", "exited"}, image : Images, whole : BOOLEAN, eip : Nat,
     kstack : Nat, ustack : Nat]

\* The stacks of process p of table t, and of all.
StacksIn(t, p) == IF t[p].state = "none" THEN {} ELSE KStackOf(t[p]) \cup {t[p].ustack}
AllStacks(t) == UNION {StacksIn(t, p) : p \in Procs}

\* No two processes, and no process and the heap H, have a page in common.
ProcsInv(t, H) ==
    /\ t \in [Procs -> Processes]
    /\ H \cap AllStacks(t) = {}
    /\ \A p, q \in Procs : p # q => StacksIn(t, p) \cap StacksIn(t, q) = {}

\* What process p of table t loaded is in memory.
LoaderInv(m, ph, t, p) ==
    /\ p \in 0 .. MaxProc
    /\ p # 0 => t[p].state # "none"
    /\ p # 0 /\ t[p].whole /\ m.status = "ok" =>
          /\ t[p].image \in DOMAIN Files /\ Loadable(t[p].image)
          /\ ProgramThere(m, ph, t[p].image)

\* Nothing has happened before create_elf_process().
StartInv ==
    last.op = "none" =>
        /\ mem.status = "ok" /\ mem.next_virtual = KernelEnd /\ loader = 0
        /\ LoadedPages(mem) = {} /\ \A p \in Procs : proc[p].state = "none"

\* After an exec that reports success, the program is in memory.
TellInv ==
    last.op = "exec" /\ last.ok /\ mem.status = "ok" =>
        /\ loader # 0 /\ proc[loader].image \in DOMAIN Files
        /\ check_elf_supported(proc[loader].image)
        /\ Loadable(proc[loader].image) => ProgramThere(mem, phys, proc[loader].image)

ExecInv ==
    /\ MemInv(mem, heap \cup AllStacks(proc))
    /\ Explained(mem)
    /\ phys \in Physical
    /\ ProcsInv(proc, heap)
    /\ LoaderInv(mem, phys, proc, loader)
    /\ StartInv

\* The definitions of Exec in terms of the ones above.
LEMMA StacksAreIn ==
    /\ \A p : StacksOf(p) = StacksIn(proc, p)
    /\ UNION {StacksOf(p) : p \in Procs} = AllStacks(proc)
    /\ InUse = InUseBy(mem, heap \cup AllStacks(proc))
<1>1. \A p : StacksOf(p) = StacksIn(proc, p)
  BY DEF StacksOf, StacksIn, KStack, KStackOf
<1>2. UNION {StacksOf(p) : p \in Procs} = AllStacks(proc)
  BY <1>1 DEF AllStacks
<1>3. QED
  BY <1>1, <1>2 DEF InUse, InUseBy

\* Calm differs from the memory in short alone.
LEMMA CalmIs ==
    ASSUME NEW O, MemInv(mem, O)
    PROVE  /\ Calm \in Memories /\ MemInv(Calm, O) /\ Calm.status = mem.status /\ ~ Calm.short
           /\ Calm.next_virtual = mem.next_virtual /\ Calm.table = mem.table
           /\ Calm.map = mem.map /\ Calm.pte = mem.pte /\ Calm.dir = mem.dir
           /\ Calm.user = mem.user
           /\ Lost(Calm, InUseBy(Calm, O)) = Lost(mem, InUseBy(mem, O))
           /\ LoadedPages(Calm) = LoadedPages(mem)
<1>1. mem \in Memories /\ FreeInv(mem, O) /\ mem.next_virtual \in KernelEnd .. MaxNext
  BY DEF MemInv
<1>2. /\ Calm \in Memories /\ Calm.status = mem.status /\ ~ Calm.short
      /\ Calm.next_virtual = mem.next_virtual /\ Calm.table = mem.table
      /\ Calm.map = mem.map /\ Calm.pte = mem.pte /\ Calm.dir = mem.dir
      /\ Calm.user = mem.user /\ Calm.free_virtual = mem.free_virtual /\ Calm.stale = mem.stale
  BY <1>1 DEF Calm, Memories
<1>3. FreeInv(Calm, O) /\ Calm.next_virtual \in mem.next_virtual .. MaxNext
  BY <1>1, <1>2, LayoutIs DEF FreeInv
<1>4. MemInv(Calm, O)
  BY <1>2, <1>3, Renumbered
<1>5. LoadedPages(Calm) = LoadedPages(mem)
  BY <1>2 DEF LoadedPages
<1>6. Lost(Calm, InUseBy(Calm, O)) = Lost(mem, InUseBy(mem, O))
  BY <1>2, <1>5 DEF Lost, InUseBy, Taken, NewTables
<1>7. QED
  BY <1>2, <1>4, <1>5, <1>6

\* A set of pids has a least one.
LEMMA LeastPid ==
    ASSUME NEW S, S \subseteq Procs, S # {}
    PROVE  \E p \in S : \A q \in 1 .. p - 1 : q \notin S
<1>1. S \subseteq Nat
  BY LayoutAssumption DEF Procs
<1>2. PICK p \in S : \A q \in S : p <= q
  BY <1>1, MinIsLeast
<1>3. p \in Nat
  BY <1>1
<1>4. QED
  BY <1>1, <1>2, <1>3

\* create_process() takes a pid that nobody has.
LEMMA NextPidIs ==
    ASSUME proc \in [Procs -> Processes], \E p \in Procs : proc[p].state = "none"
    PROVE  NextPid \in Procs /\ proc[NextPid].state = "none"
<1> DEFINE S == {p \in Procs : proc[p].state = "none"}
<1>1. S \subseteq Procs /\ S # {}
  OBVIOUS
<1> HIDE DEF S
<1>2. PICK p \in S : \A q \in 1 .. p - 1 : q \notin S
  BY <1>1, LeastPid
<1>3. p \in Procs /\ \A q \in 1 .. p - 1 : q \in Procs
  BY <1>1, LayoutAssumption DEF Procs
<1>4. proc[p].state = "none" /\ \A q \in 1 .. p - 1 : proc[q].state # "none"
  BY <1>2, <1>3 DEF S
<1>5. QED
  BY <1>3, <1>4, Zenon DEF NextPid

\* A process that is changed, but neither created nor given other stacks.
LEMMA ProcessChanged ==
    ASSUME NEW t, NEW H, ProcsInv(t, H), NEW p \in Procs, NEW e \in Processes, t[p].state # "none",
           e.state # "none", e.kstack = t[p].kstack, e.ustack = t[p].ustack
    PROVE  LET n == [t EXCEPT ![p] = e]
           IN  ProcsInv(n, H) /\ AllStacks(n) = AllStacks(t)
<1> DEFINE n == [t EXCEPT ![p] = e]
<1>1. t \in [Procs -> Processes]
  BY DEF ProcsInv
<1>2. n \in [Procs -> Processes] /\ n[p] = e /\ \A q \in Procs : q # p => n[q] = t[q]
  BY <1>1
<1> HIDE DEF n
<1>3. \A q \in Procs : StacksIn(n, q) = StacksIn(t, q)
  BY <1>2 DEF StacksIn, KStackOf
<1>4. AllStacks(n) = AllStacks(t)
  BY <1>3 DEF AllStacks
<1>5. QED
  BY <1>2, <1>3, <1>4 DEF ProcsInv, n

\* A new process with stacks of its own.
LEMMA ProcessAdded ==
    ASSUME NEW t, NEW H, ProcsInv(t, H), NEW n \in [Procs -> Processes], NEW p \in Procs,
           t[p].state = "none", \A q \in Procs : q # p => n[q] = t[q],
           \A v \in StacksIn(n, p) : v \notin H /\ v \notin AllStacks(t)
    PROVE  ProcsInv(n, H) /\ AllStacks(n) = AllStacks(t) \cup StacksIn(n, p)
<1>1. /\ StacksIn(t, p) = {}
      /\ \A q \in Procs : q # p => StacksIn(n, q) = StacksIn(t, q)
  BY DEF StacksIn
<1>2. \A v : v \in AllStacks(n) <=> \E q \in Procs : v \in StacksIn(n, q)
  BY DEF AllStacks
<1>3. \A v : v \in AllStacks(t) <=> \E q \in Procs : v \in StacksIn(t, q)
  BY DEF AllStacks
<1>4. \A v : v \in AllStacks(n) <=> v \in AllStacks(t) \/ v \in StacksIn(n, p)
  BY <1>1, <1>2, <1>3
<1>5. AllStacks(n) = AllStacks(t) \cup StacksIn(n, p)
  BY <1>4
<1>6. H \cap AllStacks(n) = {}
  BY <1>4 DEF ProcsInv
<1>7. ASSUME NEW q \in Procs, NEW r \in Procs, q # r
      PROVE  StacksIn(n, q) \cap StacksIn(n, r) = {}
  BY <1>1, <1>3, <1>7 DEF ProcsInv
<1>8. QED
  BY <1>5, <1>6, <1>7 DEF ProcsInv

\* Calls of the virtual page allocator leave the program where it is.
LEMMA CallKeepsProgram ==
    ASSUME NEW m, NEW O, NEW n, NEW P, Call(m, O, n, P), NEW ph, NEW qh, NEW f \in DOMAIN Files,
           Loadable(f), ProgramThere(m, ph, f),
           \A w \in High : w # StackPage /\ n.pte[w] # None =>
              \A x \in 0 .. PageSize - 1 : qh[n.pte[w] + x] = ph[n.pte[w] + x]
    PROVE  ProgramThere(n, qh, f)
<1>1. Keeps(m, n)
  BY DEF Call
<1>2. \A v \in High : v # StackPage /\ m.pte[v] # None =>
         /\ n.pte[v] = m.pte[v]
         /\ v \in m.user => v \in n.user
         /\ \A x \in 0 .. PageSize - 1 : qh[m.pte[v] + x] = ph[m.pte[v] + x]
  BY <1>1 DEF Keeps
<1>3. \A d \in Dirs : /\ m.dir[d] # None => n.dir[d] = m.dir[d]
                      /\ DirBit(d) \in m.user => DirBit(d) \in n.user
  BY <1>1 DEF Keeps
<1>4. QED
  BY <1>2, <1>3, ProgramKept
-----------------------------------------------------------------------------
(* The steps.                                                               *)

\* A step loses only frames that LeaksExplained allows for.
LeakStep ==
    \A a \in Lost(mem', InUse') \ Lost(mem, InUse) :
        \/ mem'.short \/ mem'.status # "ok"
        \/ last'.op = "exec" /\ a \in {mem.pte[v] : v \in LoadedPages(mem)}

\* InUse after a step.
LEMMA NextInUse == InUse' = InUseBy(mem', heap' \cup AllStacks(proc'))
<1>1. \A p : StacksOf(p)' = StacksIn(proc', p)
  BY DEF StacksOf, StacksIn, KStack, KStackOf
<1>2. (UNION {StacksOf(p) : p \in Procs})' = AllStacks(proc')
  BY <1>1 DEF AllStacks
<1>3. QED
  BY <1>2 DEF InUse, InUseBy

\* The process table and the heap are as before, the pages in use as well.
LEMMA NothingLost ==
    ASSUME mem' = mem, heap' = heap, AllStacks(proc') = AllStacks(proc)
    PROVE  LeakStep
<1>1. InUse' = InUse
  BY NextInUse, StacksAreIn
<1>2. QED
  BY <1>1 DEF LeakStep

\* SYS_EXIT changes the state of a process and nothing in memory.
LEMMA ExitStep ==
    ASSUME ExecInv, NEW p \in Procs, sys_exit(p)
    PROVE  ExecInv' /\ LeakStep
<1>1. /\ proc' = [proc EXCEPT ![p].state = "exited"] /\ last' = Quiet /\ Live(p)
      /\ mem' = mem /\ phys' = phys /\ heap' = heap /\ loader' = loader
  BY DEF sys_exit
<1> DEFINE e == [proc[p] EXCEPT !.state = "exited"]
<1>2. proc \in [Procs -> Processes] /\ ProcsInv(proc, heap)
  BY DEF ExecInv, ProcsInv
<1>3. /\ e \in Processes /\ e.state = "exited" /\ e.kstack = proc[p].kstack
      /\ e.ustack = proc[p].ustack /\ e.image = proc[p].image /\ (e.whole <=> proc[p].whole)
  BY <1>2 DEF Processes
<1>4. proc[p].state # "none"
  BY <1>1 DEF Live
<1>5. proc' = [proc EXCEPT ![p] = e]
  BY <1>1
<1> HIDE DEF e
<1>6. ProcsInv(proc', heap) /\ AllStacks(proc') = AllStacks(proc)
  BY <1>2, <1>3, <1>4, <1>5, ProcessChanged
<1>7. \A q \in Procs : /\ proc'[q].state = "none" => proc[q].state = "none"
                       /\ proc'[q].image = proc[q].image
                       /\ proc'[q].whole => proc[q].whole
  BY <1>2, <1>3, <1>5
<1>8. loader # 0 => loader \in Procs
  BY LayoutAssumption DEF ExecInv, LoaderInv, Procs
<1>9. LoaderInv(mem, phys, proc', loader)
  BY <1>7, <1>8 DEF ExecInv, LoaderInv
<1>10. StartInv'
  BY <1>1 DEF StartInv, Quiet
<1>11. ExecInv'
  BY <1>1, <1>6, <1>9, <1>10 DEF ExecInv
<1>12. QED
  BY <1>1, <1>6, <1>11, NothingLost

\* User code that writes its stack leaves every program alone.
LEMMA WriteStep ==
    ASSUME ExecInv, NEW p \in Procs, UserWrites(p)
    PROVE  ExecInv' /\ LeakStep
<1> DEFINE v == IF proc[p].image = "kernel" THEN proc[p].ustack ELSE StackPage
           O == heap \cup AllStacks(proc)
<1>1. /\ phys' = Scribble(mem, phys, v) /\ last' = Quiet /\ Live(p)
      /\ mem' = mem /\ proc' = proc /\ heap' = heap /\ loader' = loader
  BY DEF UserWrites
<1>2. proc[p].ustack \in AllStacks(proc)
  <2>1. proc[p].ustack \in StacksIn(proc, p)
    BY <1>1 DEF Live, StacksIn
  <2>2. QED
    BY <2>1 DEF AllStacks
<1>3. v \in O \/ v = StackPage
  BY <1>2
<1>4. MemInv(mem, O) /\ phys \in Physical
  BY DEF ExecInv
<1> HIDE DEF v, O
<1>5. /\ phys' \in Physical
      /\ \A w \in High : w # StackPage /\ mem.pte[w] # None =>
            \A x \in 0 .. PageSize - 1 : phys'[mem.pte[w] + x] = phys[mem.pte[w] + x]
  BY <1>1, <1>3, <1>4, ScribbleKeeps
<1>6. LoaderInv(mem, phys', proc, loader)
  <2>1. LoaderInv(mem, phys, proc, loader)
    BY DEF ExecInv
  <2>2. ASSUME NEW f \in DOMAIN Files, Loadable(f), ProgramThere(mem, phys, f)
        PROVE  ProgramThere(mem, phys', f)
    <3>1. \A w \in High : w # StackPage /\ mem.pte[w] # None =>
             /\ mem.pte[w] = mem.pte[w]
             /\ w \in mem.user => w \in mem.user
             /\ \A x \in 0 .. PageSize - 1 : phys'[mem.pte[w] + x] = phys[mem.pte[w] + x]
      BY <1>5
    <3>2. QED
      BY <2>2, <3>1, ProgramKept
  <2>3. QED
    BY <2>1, <2>2 DEF LoaderInv
<1>7. StartInv'
  BY <1>1 DEF StartInv, Quiet
<1>8. ExecInv'
  BY <1>1, <1>5, <1>6, <1>7 DEF ExecInv
<1>9. QED
  BY <1>1, <1>8, NothingLost

\* What a step does to the invariant whose only change of the memory is a call of
\* the virtual page allocator, and which writes no page of a program.
LEMMA AllocationKeeps ==
    ASSUME ExecInv, Running, NEW P, Call(Calm, heap \cup AllStacks(proc), mem', P),
           P = heap' \cup AllStacks(proc'), NEW f \in DOMAIN Files,
           phys' = phys \/ \A w \in High : w # StackPage /\ mem'.pte[w] # None =>
              \A x \in 0 .. PageSize - 1 : phys'[mem'.pte[w] + x] = phys[mem'.pte[w] + x]
    PROVE  /\ MemInv(mem', P) /\ Explained(mem') /\ LeakStep
           /\ Loadable(f) /\ ProgramThere(mem, phys, f) => ProgramThere(mem', phys', f)
<1> DEFINE O == heap \cup AllStacks(proc)
<1>1. MemInv(mem, O)
  BY DEF ExecInv
<1>2. /\ Calm.pte = mem.pte /\ Calm.dir = mem.dir /\ Calm.user = mem.user
      /\ Lost(Calm, InUseBy(Calm, O)) = Lost(mem, InUseBy(mem, O))
  BY <1>1, CalmIs
<1> HIDE DEF O
<1>3. MemInv(mem', P) /\ mem'.status = "ok"
      /\ (~ mem'.short => \A a \in Lost(mem', InUseBy(mem', P)) : a \in Lost(Calm, InUseBy(Calm, O)))
  BY DEF Call, O
<1>4. Explained(mem')
  BY <1>3 DEF Explained
<1>5. LeakStep
  BY <1>2, <1>3, NextInUse, StacksAreIn DEF LeakStep, O
<1>6. ASSUME Loadable(f), ProgramThere(mem, phys, f) PROVE ProgramThere(mem', phys', f)
  <2>1. \A v \in High : v # StackPage /\ mem.pte[v] # None =>
           /\ Calm.pte[v] = mem.pte[v]
           /\ v \in mem.user => v \in Calm.user
           /\ \A x \in 0 .. PageSize - 1 : phys[mem.pte[v] + x] = phys[mem.pte[v] + x]
    BY <1>2
  <2>2. \A d \in Dirs : /\ mem.dir[d] # None => Calm.dir[d] = mem.dir[d]
                        /\ DirBit(d) \in mem.user => DirBit(d) \in Calm.user
    BY <1>2
  <2>3. ProgramThere(Calm, phys, f)
    BY <1>6, <2>1, <2>2, ProgramKept
  <2>4. \A w \in High : w # StackPage /\ mem'.pte[w] # None =>
           \A x \in 0 .. PageSize - 1 : phys'[mem'.pte[w] + x] = phys[mem'.pte[w] + x]
    OBVIOUS
  <2>5. QED
    BY <1>6, <2>3, <2>4, CallKeepsProgram DEF O
<1>7. QED
  BY <1>3, <1>4, <1>5, <1>6

\* SYS_MALLOC adds a page to the heap at most.
LEMMA KmallocStep ==
    ASSUME ExecInv, NEW p \in Procs, sys_kmalloc(p)
    PROVE  ExecInv' /\ LeakStep
<1> DEFINE S == AllStacks(proc)
           user == TRUE
<1>1. PICK h \in KmallocPage(Calm, user) :
         /\ mem' = h.mem /\ heap' = h.pages /\ last' = Quiet
  BY DEF sys_kmalloc
<1>2. /\ Running /\ mem.next_virtual < MaxNext
      /\ phys' = phys /\ proc' = proc /\ loader' = loader
  BY DEF sys_kmalloc
<1>3. MemInv(mem, heap \cup S) /\ heap \cap S = {} /\ user \in BOOLEAN
  BY DEF ExecInv, ProcsInv
<1>4. MemInv(Calm, heap \cup S) /\ Calm.status = "ok" /\ Calm.next_virtual < MaxNext
  BY <1>2, <1>3, CalmIs DEF Running
<1> HIDE DEF S, user
<1>5. Call(Calm, heap \cup S, h.mem, h.pages \cup S) /\ h.pages \cap S = {}
  BY <1>1, <1>3, <1>4, KmallocIs
<1> DEFINE P == h.pages \cup S
<1>6. P = heap' \cup AllStacks(proc') /\ Call(Calm, heap \cup AllStacks(proc), mem', P)
  BY <1>1, <1>2, <1>5 DEF S
<1> HIDE DEF P
<1>7. ASSUME NEW f \in DOMAIN Files
      PROVE  /\ MemInv(mem', P) /\ Explained(mem') /\ LeakStep
             /\ Loadable(f) /\ ProgramThere(mem, phys, f) => ProgramThere(mem', phys', f)
  BY <1>2, <1>6, AllocationKeeps
<1>8. BootFile \in DOMAIN Files
  BY FilesAssumption
<1>9. LoaderInv(mem', phys', proc', loader')
  BY <1>2, <1>7 DEF ExecInv, LoaderInv, Running
<1>10. ProcsInv(proc', heap')
  BY <1>1, <1>2, <1>5 DEF ExecInv, ProcsInv, S
<1>11. StartInv'
  BY <1>1 DEF StartInv, Quiet
<1>12. phys' \in Physical
  BY <1>2 DEF ExecInv
<1>13. ExecInv'
  BY <1>6, <1>7, <1>8, <1>9, <1>10, <1>11, <1>12 DEF ExecInv
<1>14. QED
  BY <1>7, <1>8, <1>13

\* kmalloc() of a process_t and the stacks: what create_process() allocates.
LEMMA NewProcess ==
    ASSUME NEW S, MemInv(Calm, heap \cup S), heap \cap S = {}, Calm.status = "ok",
           Calm.next_virtual + KStackPages + 2 <= MaxNext,
           NEW h \in KmallocPage(Calm, FALSE)
    PROVE  LET s == Stacks(h.mem)
               R == KStackOf(s) \cup {s.ustack}
           IN  /\ h.pages \cap S = {} /\ s.kstack \in Nat /\ s.ustack \in Nat
               /\ s.kstack = 0 => Call(Calm, heap \cup S, s.mem, h.pages \cup S) /\ s.mem.short
               /\ s.kstack # 0 =>
                     /\ Call(Calm, heap \cup S, s.mem, h.pages \cup S \cup R)
                     /\ R \cap (h.pages \cup S) = {} /\ s.kstack + KStackPages - 1 \in R
<1> DEFINE s == Stacks(h.mem)
           R == KStackOf(s) \cup {s.ustack}
           user == FALSE
           k == Calm.next_virtual
           O == heap \cup S
           P == h.pages \cup S
<1>1. user \in BOOLEAN /\ h \in KmallocPage(Calm, user)
  OBVIOUS
<1>2. k \in KernelEnd .. MaxNext /\ k + KStackPages + 2 <= MaxNext
  BY DEF MemInv
<1> HIDE DEF user, k
<1>3. k < MaxNext /\ k \in Nat /\ KStackPages \in Nat /\ KernelEnd \in Nat /\ MaxNext \in Nat
  BY <1>2, LayoutIs
<1>4. /\ Call(Calm, O, h.mem, P) /\ h.pages \cap S = {}
      /\ h.mem.next_virtual \in KernelEnd .. k + 1
  <2>1. Calm.next_virtual < MaxNext
    BY <1>3 DEF k
  <2>2. QED
    BY <1>1, <2>1, KmallocIs DEF k
<1> DEFINE j == h.mem.next_virtual
<1>5. j + KStackPages + 1 <= MaxNext
  <2>1. j \in KernelEnd .. k + 1
    BY <1>4
  <2> HIDE DEF j
  <2>2. QED
    BY <1>2, <1>3, <2>1
<1>6. MemInv(h.mem, P) /\ h.mem.status = "ok"
  BY <1>4 DEF Call
<1> HIDE DEF O, P
<1>7. /\ s.kstack = 0 => Call(h.mem, P, s.mem, P) /\ s.mem.short
      /\ s.kstack # 0 => Call(h.mem, P, s.mem, P \cup R) /\ R \subseteq Low \ P
      /\ s.kstack \in Nat /\ s.ustack \in Nat
  BY <1>5, <1>6, StacksAre
<1>a. \A v \in KStackOf(s) : v \in R
  OBVIOUS
<1> HIDE DEF R, s
<1>8. s.kstack # 0 => s.kstack + KStackPages - 1 \in R
  <2> DEFINE q == s.kstack
  <2>1. q \in Nat
    BY <1>7
  <2>2. q + KStackPages - 1 \in q .. q + KStackPages - 1
    <3> HIDE DEF q
    <3>1. QED
      BY <2>1, LayoutIs
  <2>3. QED
    BY <1>a, <2>2 DEF KStackOf
<1>9. s.kstack = 0 => Call(Calm, O, s.mem, P)
  BY <1>4, <1>7, Calls
<1>10. s.kstack # 0 => Call(Calm, O, s.mem, P \cup R)
  <2> DEFINE Q == P \cup R
  <2> HIDE DEF Q
  <2>1. s.kstack # 0 => Call(h.mem, P, s.mem, Q)
    BY <1>7 DEF Q
  <2>2. s.kstack # 0 => Call(Calm, O, s.mem, Q)
    BY <1>4, <2>1, Calls
  <2>3. QED
    BY <2>2 DEF Q
<1>11. s.kstack # 0 => R \cap P = {}
  BY <1>7
<1>12. QED
  BY <1>4, <1>7, <1>8, <1>9, <1>10, <1>11 DEF O, P, R, s

\* The record that create_process() fills in.
LEMMA CreatedIs ==
    ASSUME NEW s, s.kstack \in Nat, s.ustack \in Nat, NEW image \in Images, NEW eip \in Nat,
           NEW whole \in BOOLEAN
    PROVE  LET e == Created(s, image, eip, whole)
           IN  /\ e \in Processes /\ e.state = "live" /\ e.image = image /\ (e.whole <=> whole)
               /\ KStackOf(e) = KStackOf(s) /\ e.ustack = s.ustack
BY DEF Created, Processes, KStackOf

\* create_process() adds a process with stacks of its own, or none.
LEMMA CreateStep ==
    ASSUME ExecInv, create_process
    PROVE  ExecInv' /\ LeakStep
<1> DEFINE S == AllStacks(proc)
<1>1. PICK h \in KmallocPage(Calm, FALSE) : \E s \in {Stacks(h.mem)} :
         /\ mem' = s.mem
         /\ heap' = h.pages
         /\ proc' = IF s.kstack # 0 THEN [proc EXCEPT ![NextPid] = Created(s, "kernel", 0, TRUE)] ELSE proc
         /\ phys' = IF s.kstack # 0 THEN Scribble(s.mem, phys, s.kstack + KStackPages - 1) ELSE phys
         /\ last' = Quiet
  BY DEF create_process
<1> DEFINE s == Stacks(h.mem)
           R == KStackOf(s) \cup {s.ustack}
<1>2. /\ mem' = s.mem
      /\ heap' = h.pages
      /\ proc' = IF s.kstack # 0 THEN [proc EXCEPT ![NextPid] = Created(s, "kernel", 0, TRUE)] ELSE proc
      /\ phys' = IF s.kstack # 0 THEN Scribble(s.mem, phys, s.kstack + KStackPages - 1) ELSE phys
      /\ last' = Quiet
  BY <1>1
<1>3. Running /\ HasRoom /\ loader' = loader
  BY DEF create_process
<1>4. /\ MemInv(mem, heap \cup S) /\ heap \cap S = {} /\ phys \in Physical
      /\ proc \in [Procs -> Processes] /\ ProcsInv(proc, heap)
      /\ LoaderInv(mem, phys, proc, loader)
  BY DEF ExecInv, ProcsInv
<1>5. MemInv(Calm, heap \cup S) /\ Calm.status = "ok" /\ Calm.next_virtual = mem.next_virtual
  BY <1>3, <1>4, CalmIs DEF Running
<1>6. NextPid \in Procs /\ proc[NextPid].state = "none"
  BY <1>3, <1>4, NextPidIs DEF HasRoom
<1>7. Calm.next_virtual + KStackPages + 2 <= MaxNext
  BY <1>3, <1>5 DEF HasRoom
<1> HIDE DEF S, R, s
<1>8. R = KStackOf(s) \cup {s.ustack}
  BY DEF R
<1>9. /\ h.pages \cap S = {} /\ s.kstack \in Nat /\ s.ustack \in Nat
      /\ s.kstack = 0 => Call(Calm, heap \cup S, s.mem, h.pages \cup S) /\ s.mem.short
      /\ s.kstack # 0 =>
            /\ Call(Calm, heap \cup S, s.mem, h.pages \cup S \cup R)
            /\ R \cap (h.pages \cup S) = {} /\ s.kstack + KStackPages - 1 \in R
  BY <1>4, <1>5, <1>7, NewProcess DEF s, R
<1>10. ProcsInv(proc, h.pages)
  BY <1>4, <1>9 DEF ProcsInv, S
<1>11. BootFile \in DOMAIN Files
  BY FilesAssumption
<1>12. StartInv'
  BY <1>2 DEF StartInv, Quiet
<1>13. loader # 0 => loader \in Procs
  BY <1>4, LayoutAssumption DEF LoaderInv, Procs
<1>14. CASE s.kstack = 0
  <2>1. proc' = proc /\ phys' = phys
    BY <1>2, <1>14
  <2> DEFINE P == h.pages \cup S
  <2>2. P = heap' \cup AllStacks(proc') /\ Call(Calm, heap \cup AllStacks(proc), mem', P)
    BY <1>2, <1>9, <1>14, <2>1 DEF S
  <2> HIDE DEF P
  <2>3. ASSUME NEW f \in DOMAIN Files
        PROVE  /\ MemInv(mem', P) /\ Explained(mem') /\ LeakStep
               /\ Loadable(f) /\ ProgramThere(mem, phys, f) => ProgramThere(mem', phys', f)
    BY <1>3, <2>1, <2>2, AllocationKeeps
  <2>4. LoaderInv(mem', phys', proc', loader')
    BY <1>3, <1>4, <2>1, <2>3 DEF LoaderInv, Running
  <2>5. ExecInv'
    BY <1>2, <1>4, <1>10, <1>11, <1>12, <2>1, <2>2, <2>3, <2>4 DEF ExecInv
  <2>6. QED
    BY <1>11, <2>3, <2>5
<1>15. CASE s.kstack # 0
  <2> DEFINE image == "kernel"
             eip == 0
             whole == TRUE
             e == Created(s, image, eip, whole)
             v == s.kstack + KStackPages - 1
             P == h.pages \cup S \cup R
  <2>1. proc' = [proc EXCEPT ![NextPid] = e] /\ phys' = Scribble(s.mem, phys, v)
    BY <1>2, <1>15
  <2>2. image \in Images /\ eip \in Nat /\ whole \in BOOLEAN
    BY DEF Images
  <2> HIDE DEF image, eip, whole, e, v, P
  <2>3. /\ e \in Processes /\ e.state = "live" /\ KStackOf(e) = KStackOf(s) /\ e.ustack = s.ustack
    BY <1>9, <2>2, CreatedIs DEF e
  <2>4. /\ proc' \in [Procs -> Processes] /\ proc'[NextPid] = e
        /\ \A q \in Procs : q # NextPid => proc'[q] = proc[q]
    BY <1>4, <1>6, <2>1, <2>3
  <2>a. StacksIn(proc', NextPid) = R
    BY <1>8, <2>3, <2>4 DEF StacksIn
  <2>b. \A w \in StacksIn(proc', NextPid) : w \notin h.pages /\ w \notin AllStacks(proc)
    BY <1>9, <1>15, <2>a DEF S
  <2>5. ProcsInv(proc', h.pages) /\ AllStacks(proc') = AllStacks(proc) \cup R
    BY <1>6, <1>10, <2>4, <2>a, <2>b, ProcessAdded
  <2>6. P = heap' \cup AllStacks(proc') /\ Call(Calm, heap \cup AllStacks(proc), mem', P)
    BY <1>2, <1>9, <1>15, <2>5 DEF S, P
  <2>7. MemInv(s.mem, P) /\ v \in P
    BY <1>2, <1>9, <1>15, <2>6 DEF Call, P, v
  <2>8. /\ phys' \in Physical
        /\ \A w \in High : w # StackPage /\ mem'.pte[w] # None =>
              \A x \in 0 .. PageSize - 1 : phys'[mem'.pte[w] + x] = phys[mem'.pte[w] + x]
    BY <1>2, <1>4, <2>1, <2>7, ScribbleKeeps
  <2>9. ASSUME NEW f \in DOMAIN Files
        PROVE  /\ MemInv(mem', P) /\ Explained(mem') /\ LeakStep
               /\ Loadable(f) /\ ProgramThere(mem, phys, f) => ProgramThere(mem', phys', f)
    BY <1>3, <2>6, <2>8, AllocationKeeps
  <2>11. loader # 0 => loader # NextPid
    BY <1>4, <1>6 DEF LoaderInv
  <2>12. LoaderInv(mem', phys', proc', loader')
    BY <1>3, <1>4, <1>13, <2>4, <2>9, <2>11 DEF LoaderInv, Running
  <2>13. ExecInv'
    BY <1>2, <1>11, <1>12, <2>5, <2>6, <2>8, <2>9, <2>12 DEF ExecInv
  <2>14. QED
    BY <1>11, <2>9, <2>13
<1>16. QED
  BY <1>14, <1>15

\* What a load leaves behind, in the terms of the specification: n is the memory
\* before it, with the pages O in use, as Calm or create_process() left it.
LEMMA LoadLeaks ==
    ASSUME ExecInv, NEW n, NEW O, O = heap' \cup AllStacks(proc'),
           Call(Calm, heap \cup AllStacks(proc), n, O),
           NEW f, Replaced(n, O, mem', phys', f), last'.op = "exec" \/ LoadedPages(mem) = {}
    PROVE  LeakStep
<1> DEFINE B == heap \cup AllStacks(proc)
<1>1. MemInv(mem, B)
  BY DEF ExecInv
<1>2. /\ Calm.pte = mem.pte /\ LoadedPages(Calm) = LoadedPages(mem)
      /\ Lost(Calm, InUseBy(Calm, B)) = Lost(mem, InUseBy(mem, B))
  BY <1>1, CalmIs
<1>3. Lost(mem, InUse) = Lost(Calm, InUseBy(Calm, B))
  BY <1>2, StacksAreIn
<1> HIDE DEF B
<1>4. SUFFICES ASSUME NEW a \in Lost(mem', InUse'), a \notin Lost(mem, InUse),
                      ~ mem'.short, mem'.status = "ok"
               PROVE  \E v \in LoadedPages(mem) : mem.pte[v] = a
  BY DEF LeakStep
<1>5. a \in Lost(mem', InUseBy(mem', O))
  BY <1>4, NextInUse
<1>6. a \in Lost(n, InUseBy(n, O)) \/ \E v \in LoadedPages(n) : n.pte[v] = a
  BY <1>4, <1>5 DEF Replaced
<1>7. ~ n.short
  BY <1>4 DEF Replaced
<1>8. a \notin Lost(n, InUseBy(n, O))
  BY <1>3, <1>4, <1>7 DEF Call, B
<1>9. \A v \in LoadedPages(n) : v \in LoadedPages(Calm) /\ n.pte[v] = Calm.pte[v]
  BY DEF Call, Keeps, High, LoadedPages
<1>10. QED
  BY <1>2, <1>6, <1>8, <1>9

\* A program is whole when it can be loaded and there was memory for it.
LEMMA WholeIs ==
    ASSUME NEW m, NEW f
    PROVE  Whole(m, f) \in BOOLEAN /\ (Whole(m, f) <=> ~ m.short /\ Loadable(f))
BY DEF Whole, Loadable

\* SYS_EXEC, refused, stopped halfway, or done.
LEMMA ExecStep ==
    ASSUME ExecInv, NEW p \in Procs, NEW f \in DOMAIN Files, sys_exec(p, f)
    PROVE  ExecInv' /\ LeakStep /\ TellInv'
<1> DEFINE O == heap \cup AllStacks(proc)
           b == [mem |-> Calm, phys |-> phys]
           load == elf_load_file(b, f)
           r == MapNew(load.l.mem, StackPage, TRUE)
           stopped == load.entry = 0 \/ load.l.mem.status # "ok"
<1>1. /\ Running /\ Live(p) /\ heap' = heap
      /\ mem' = IF stopped THEN load.l.mem ELSE r.mem
      /\ phys' = load.l.phys
      /\ proc' = IF stopped THEN proc
                 ELSE [proc EXCEPT ![p].eip = load.entry, ![p].image = f,
                                   ![p].whole = Whole(r.mem, f)]
      /\ loader' = IF stopped THEN loader ELSE p
      /\ last' = [op |-> "exec", ok |-> load.entry # 0 /\ r.addr # 0]
  BY DEF sys_exec
<1>2. /\ MemInv(mem, O) /\ phys \in Physical /\ proc \in [Procs -> Processes]
      /\ ProcsInv(proc, heap) /\ LoaderInv(mem, phys, proc, loader)
  BY DEF ExecInv, ProcsInv
<1>3. /\ Calm \in Memories /\ MemInv(Calm, O) /\ Calm.status = "ok"
      /\ Calm.map = mem.map /\ Calm.pte = mem.pte /\ Calm.dir = mem.dir /\ Calm.user = mem.user
  BY <1>1, <1>2, CalmIs DEF Running
<1>4. b.mem = Calm /\ b.phys = phys /\ b \in Loads
  BY <1>2, <1>3 DEF Loads
<1> HIDE DEF b, O
<1>5. /\ load.entry \in Nat /\ (load.entry = 0 => load.l = b)
      /\ load.entry # 0 => check_elf_supported(f)
  BY <1>3, <1>4, FileLoads
<1>6. PICK M \in SUBSET Pages : FileLoaded(b, O, load.l, f, M)
  BY <1>3, <1>4, FileLoads
<1> HIDE DEF load
<1>7. load.l.mem.status = "ok" =>
         /\ Replaced(Calm, O, r.mem, load.l.phys, f)
         /\ r.addr # 0 /\ Loadable(f) => ProgramThere(r.mem, load.l.phys, f)
  <2>1. NoMore(Calm)
    BY <1>2, CalmIs DEF NoMore
  <2>2. QED
    BY <1>3, <1>4, <1>6, <2>1, StackMapped
<1>8. Call(Calm, O, Calm, O)
  BY <1>3, NoCall
<1>9. last'.op = "exec" /\ (last'.ok <=> load.entry # 0 /\ r.addr # 0)
  BY <1>1
<1> HIDE DEF r
<1>10. StartInv'
  BY <1>9 DEF StartInv
<1>11. proc[p].state # "none"
  BY <1>1 DEF Live
<1>12. CASE load.entry = 0
  <2>1. mem' = Calm /\ phys' = phys /\ proc' = proc /\ loader' = loader
    BY <1>1, <1>4, <1>5, <1>12
  <2>2. ASSUME NEW g \in DOMAIN Files, Loadable(g), ProgramThere(mem, phys, g)
        PROVE  ProgramThere(mem', phys', g)
    <3>1. \A v \in High : v # StackPage /\ mem.pte[v] # None =>
             /\ mem'.pte[v] = mem.pte[v]
             /\ v \in mem.user => v \in mem'.user
             /\ \A x \in 0 .. PageSize - 1 : phys'[mem.pte[v] + x] = phys[mem.pte[v] + x]
      BY <1>3, <2>1
    <3>2. \A d \in Dirs : /\ mem.dir[d] # None => mem'.dir[d] = mem.dir[d]
                          /\ DirBit(d) \in mem.user => DirBit(d) \in mem'.user
      BY <1>3, <2>1
    <3>3. QED
      BY <2>2, <3>1, <3>2, ProgramKept
  <2>3. LoaderInv(mem', phys', proc', loader')
    BY <1>1, <1>2, <2>1, <2>2 DEF LoaderInv, Running
  <2>4. Explained(mem')
    BY <1>3, <2>1 DEF Explained
  <2>5. ExecInv'
    BY <1>1, <1>2, <1>3, <1>10, <2>1, <2>3, <2>4 DEF ExecInv, O
  <2>6. LeakStep
    <3>1. Lost(Calm, InUseBy(Calm, O)) = Lost(mem, InUseBy(mem, O))
      BY <1>2, CalmIs
    <3>2. Lost(mem', InUse') = Lost(mem, InUse)
      BY <1>1, <2>1, <3>1, NextInUse, StacksAreIn DEF O
    <3>3. QED
      BY <3>2 DEF LeakStep
  <2>7. TellInv'
    BY <1>9, <1>12 DEF TellInv
  <2>8. QED
    BY <2>5, <2>6, <2>7
<1>13. CASE load.entry # 0 /\ load.l.mem.status # "ok"
  <2>1. mem' = load.l.mem /\ phys' = load.l.phys /\ proc' = proc /\ loader' = loader
    BY <1>1, <1>13
  <2>2. mem'.status # "ok" /\ MemInv(mem', O) /\ Explained(mem') /\ phys' \in Physical
    BY <1>6, <1>13, <2>1 DEF FileLoaded, Loads
  <2>3. LoaderInv(mem', phys', proc', loader')
    BY <1>2, <2>1, <2>2 DEF LoaderInv
  <2>4. ExecInv'
    BY <1>1, <1>2, <1>10, <2>1, <2>2, <2>3 DEF ExecInv, O
  <2>5. LeakStep
    BY <2>2 DEF LeakStep
  <2>6. TellInv'
    BY <2>2 DEF TellInv
  <2>7. QED
    BY <2>4, <2>5, <2>6
<1>14. CASE load.entry # 0 /\ load.l.mem.status = "ok"
  <2> DEFINE w == Whole(r.mem, f)
             e == [proc[p] EXCEPT !.eip = load.entry, !.image = f, !.whole = w]
  <2>1. /\ mem' = r.mem /\ phys' = load.l.phys /\ loader' = p
        /\ proc' = [proc EXCEPT ![p].eip = load.entry, ![p].image = f, ![p].whole = w]
    BY <1>1, <1>14
  <2>2. w \in BOOLEAN /\ (w <=> ~ r.mem.short /\ Loadable(f))
    BY WholeIs
  <2> HIDE DEF w
  <2>3. proc' = [proc EXCEPT ![p] = e]
    BY <1>2, <2>1
  <2>4. /\ e \in Processes /\ e.state = proc[p].state /\ e.kstack = proc[p].kstack
        /\ e.ustack = proc[p].ustack /\ e.image = f /\ (e.whole <=> w)
    BY <1>2, <1>5, <2>2 DEF Processes, Images
  <2> HIDE DEF e
  <2>5. ProcsInv(proc', heap) /\ AllStacks(proc') = AllStacks(proc)
    BY <1>2, <1>11, <2>3, <2>4, ProcessChanged
  <2>6. proc'[p] = e
    BY <1>2, <2>3
  <2>7. /\ Replaced(Calm, O, mem', phys', f)
        /\ r.addr # 0 /\ Loadable(f) => ProgramThere(mem', phys', f)
    BY <1>7, <1>14, <2>1
  <2>8. LoaderInv(mem', phys', proc', loader')
    <3>1. p \in 0 .. MaxProc /\ p # 0
      BY LayoutAssumption DEF Procs
    <3>2. proc'[p].state # "none" /\ proc'[p].image = f /\ (proc'[p].whole <=> w)
      BY <1>11, <2>4, <2>6
    <3>3. w /\ mem'.status = "ok" => Loadable(f) /\ ProgramThere(mem', phys', f)
      BY <2>1, <2>2, <2>7 DEF Replaced
    <3>4. QED
      BY <2>1, <3>1, <3>2, <3>3 DEF LoaderInv
  <2>9. O = heap' \cup AllStacks(proc')
    BY <1>1, <2>5 DEF O
  <2>10. ExecInv'
    BY <1>1, <1>10, <2>5, <2>7, <2>8, <2>9 DEF ExecInv, Replaced
  <2>11. LeakStep
    <3>1. Call(Calm, heap \cup AllStacks(proc), Calm, O)
      BY <1>8 DEF O
    <3>2. QED
      BY <1>9, <2>7, <2>9, <3>1, LoadLeaks
  <2>12. TellInv'
    <3>1. loader' # 0 /\ proc'[loader'].image = f
      BY <2>1, <2>4, <2>6, LayoutAssumption DEF Procs
    <3>2. last'.ok => r.addr # 0
      BY <1>9
    <3>3. QED
      BY <1>5, <1>14, <2>7, <3>1, <3>2 DEF TellInv
  <2>13. QED
    BY <2>10, <2>11, <2>12
<1>15. QED
  BY <1>12, <1>13, <1>14

\* kernel() loads the boot file before anything else.
LEMMA CreateElfFirst == create_elf_process => last.op = "none"
  BY ZenonT(60) DEF create_elf_process

\* create_elf_process(): the process, the file and its stack.
LEMMA CreateElfStep ==
    ASSUME ExecInv, create_elf_process
    PROVE  ExecInv' /\ LeakStep /\ TellInv'
<1> DEFINE S == AllStacks(proc)
           top(s) == s.kstack + KStackPages - 1
           first(s) == [mem |-> s.mem, phys |-> Scribble(s.mem, phys, top(s))]
           stack(l, frame) ==
               map_page([l.mem EXCEPT !.map = frame.map, !.short = @ \/ frame.addr = 0],
                        frame.addr, StackPage, TRUE)
           Step(h, s, load, frame) ==
               /\ heap' = h.pages
               /\ mem' = IF ~ (s.kstack # 0) THEN s.mem
                         ELSE IF load.l.mem.status # "ok" THEN load.l.mem ELSE stack(load.l, frame)
               /\ phys' = IF s.kstack # 0 THEN load.l.phys ELSE phys
               /\ proc' = IF s.kstack # 0
                          THEN [proc EXCEPT ![1] = Created(s, BootFile, load.entry,
                                                           Whole(stack(load.l, frame), BootFile))]
                          ELSE proc
               /\ loader' = IF s.kstack # 0 THEN 1 ELSE 0
               /\ last' = [op |-> "boot", ok |-> TRUE]
<1>1. PICK h \in KmallocPage(Calm, FALSE) :
         \E s \in {Stacks(h.mem)} : \E load \in {elf_load_file(first(s), BootFile)} :
         \E frame \in {allocate(load.l.mem.map)} : Step(h, s, load, frame)
  BY Zenon DEF create_elf_process
<1> DEFINE s == Stacks(h.mem)
           R == KStackOf(s) \cup {s.ustack}
           b == first(s)
           load == elf_load_file(b, BootFile)
           m == stack(load.l, allocate(load.l.mem.map))
           v == top(s)
           ok == s.kstack # 0
<1>2. Step(h, s, load, allocate(load.l.mem.map))
  <2> HIDE DEF Step, first, stack, top
  <2>1. QED
    BY <1>1
<1>3. /\ heap' = h.pages
      /\ mem' = IF ~ ok THEN s.mem ELSE IF load.l.mem.status # "ok" THEN load.l.mem ELSE m
      /\ phys' = IF ok THEN load.l.phys ELSE phys
      /\ proc' = IF ok THEN [proc EXCEPT ![1] = Created(s, BootFile, load.entry, Whole(m, BootFile))]
                 ELSE proc
      /\ loader' = IF ok THEN 1 ELSE 0
      /\ last' = [op |-> "boot", ok |-> TRUE]
  <2> HIDE DEF s, load, b, stack, first, top
  <2>1. QED
    BY <1>2, Zenon
<1>4. last.op = "none"
  BY CreateElfFirst
<1>5. /\ MemInv(mem, heap \cup S) /\ heap \cap S = {} /\ phys \in Physical
      /\ proc \in [Procs -> Processes] /\ ProcsInv(proc, heap)
      /\ mem.status = "ok" /\ mem.next_virtual = KernelEnd /\ loader = 0
      /\ LoadedPages(mem) = {} /\ \A p \in Procs : proc[p].state = "none"
  BY <1>4 DEF ExecInv, ProcsInv, StartInv
<1>6. MemInv(Calm, heap \cup S) /\ Calm.status = "ok" /\ Calm.next_virtual = KernelEnd
  BY <1>5, CalmIs
<1>7. Calm.next_virtual + KStackPages + 2 <= MaxNext
  <2>1. KernelEnd + KStackPages + 2 <= MaxNext
    BY LayoutAssumption, LayoutIs
  <2>2. QED
    BY <1>6, <2>1
<1>8. 1 \in Procs /\ 1 \in 0 .. MaxProc /\ 0 \in 0 .. MaxProc
  BY LayoutAssumption DEF Procs
<1>9. BootFile \in DOMAIN Files
  BY FilesAssumption
<1> HIDE DEF S, R, s
<1>10. R = KStackOf(s) \cup {s.ustack}
  BY DEF R
<1>11. /\ h.pages \cap S = {} /\ s.kstack \in Nat /\ s.ustack \in Nat
       /\ ~ ok => Call(Calm, heap \cup S, s.mem, h.pages \cup S) /\ s.mem.short
       /\ ok => /\ Call(Calm, heap \cup S, s.mem, h.pages \cup S \cup R)
                /\ R \cap (h.pages \cup S) = {} /\ v \in R
  BY <1>5, <1>6, <1>7, NewProcess DEF s, R
<1>12. ProcsInv(proc, h.pages)
  BY <1>5, <1>11 DEF ProcsInv, S
<1>13. last'.op = "boot"
  <2> HIDE DEF load, ok
  <2>1. QED
    BY <1>3
<1>14. StartInv' /\ TellInv'
  BY <1>13 DEF StartInv, TellInv
<1>15. CASE ~ ok
  <2>1. mem' = s.mem /\ proc' = proc /\ phys' = phys /\ heap' = h.pages /\ loader' = 0
    <3> HIDE DEF load, m, ok
    <3>1. QED
      BY <1>3, <1>15
  <2> DEFINE P == h.pages \cup S
  <2>2. P = heap' \cup AllStacks(proc') /\ Call(Calm, heap \cup AllStacks(proc), mem', P)
    BY <1>11, <1>15, <2>1 DEF S
  <2> HIDE DEF P
  <2>3. /\ MemInv(mem', P) /\ Explained(mem') /\ LeakStep
    <3>1. Running
      BY <1>5 DEF Running
    <3>2. QED
      BY <1>9, <2>1, <2>2, <3>1, AllocationKeeps
  <2>4. LoaderInv(mem', phys', proc', loader')
    BY <1>8, <2>1 DEF LoaderInv
  <2>5. ExecInv'
    BY <1>5, <1>12, <1>14, <2>1, <2>2, <2>3, <2>4 DEF ExecInv
  <2>6. QED
    BY <1>14, <2>3, <2>5
<1>16. CASE ok
  <2> DEFINE O == h.pages \cup S \cup R
             w == Whole(m, BootFile)
             e == Created(s, BootFile, load.entry, w)
  <2>1. /\ mem' = IF load.l.mem.status # "ok" THEN load.l.mem ELSE m
        /\ phys' = load.l.phys /\ heap' = h.pages /\ loader' = 1
        /\ proc' = [proc EXCEPT ![1] = e]
    <3> HIDE DEF load, m, ok
    <3>1. QED
      BY <1>3, <1>16
  <2>2. Call(Calm, heap \cup S, s.mem, O) /\ v \in O /\ MemInv(s.mem, O) /\ s.mem.status = "ok"
    BY <1>11, <1>16 DEF Call
  <2>3. b.mem = s.mem /\ b \in Loads
    <3>1. Scribble(s.mem, phys, v) \in Physical
      <4> HIDE DEF v
      <4>1. QED
        BY <1>5, <2>2, ScribbleKeeps
    <3>2. s.mem \in Memories
      BY <2>2 DEF MemInv
    <3>3. QED
      BY <3>1, <3>2 DEF Loads
  <2> HIDE DEF b, v, O
  <2>4. load.entry \in Nat /\ \E M \in SUBSET Pages : FileLoaded(b, O, load.l, BootFile, M)
    BY <1>9, <2>2, <2>3, FileLoads
  <2>5. PICK M \in SUBSET Pages : FileLoaded(b, O, load.l, BootFile, M)
    BY <2>4
  <2> HIDE DEF load
  <2>6. load.l.mem.status = "ok" => Replaced(s.mem, O, m, load.l.phys, BootFile)
    <3>1. MemInv(b.mem, O)
      BY <2>2, <2>3
    <3> DEFINE l == load.l
    <3>2. FileLoaded(b, O, l, BootFile, M)
      BY <2>5
    <3> HIDE DEF l
    <3>3. l.mem.status = "ok" => Replaced(b.mem, O, stack(l, allocate(l.mem.map)), l.phys, BootFile)
      BY <1>9, <2>3, <3>1, <3>2, BootStack
    <3>4. QED
      BY <2>3, <3>3 DEF l
  <2>7. w \in BOOLEAN /\ (w <=> ~ m.short /\ Loadable(BootFile))
    <3> HIDE DEF m
    <3>1. QED
      BY WholeIs
  <2> HIDE DEF m, w
  <2>8. /\ e \in Processes /\ e.state = "live" /\ e.image = BootFile /\ (e.whole <=> w)
        /\ KStackOf(e) = KStackOf(s) /\ e.ustack = s.ustack
    <3>1. BootFile \in Images
      BY <1>9 DEF Images
    <3>2. QED
      BY <1>11, <2>4, <2>7, <3>1, CreatedIs
  <2> HIDE DEF e
  <2>9. /\ proc' \in [Procs -> Processes] /\ proc'[1] = e
        /\ \A q \in Procs : q # 1 => proc'[q] = proc[q]
    BY <1>5, <1>8, <2>1, <2>8
  <2>10. StacksIn(proc', 1) = R
    BY <1>10, <2>8, <2>9 DEF StacksIn
  <2>11. \A x \in StacksIn(proc', 1) : x \notin h.pages /\ x \notin AllStacks(proc)
    BY <1>11, <1>16, <2>10 DEF S
  <2>12. ProcsInv(proc', h.pages) /\ AllStacks(proc') = AllStacks(proc) \cup R
    BY <1>5, <1>8, <1>12, <2>9, <2>10, <2>11, ProcessAdded
  <2>13. O = heap' \cup AllStacks(proc') /\ Call(Calm, heap \cup AllStacks(proc), s.mem, O)
    BY <2>1, <2>2, <2>12 DEF S, O
  <2>14. CASE load.l.mem.status # "ok"
    <3>1. mem' = load.l.mem /\ mem'.status # "ok"
      BY <2>1, <2>14
    <3>2. MemInv(mem', O) /\ Explained(mem') /\ phys' \in Physical
      BY <2>1, <2>5, <3>1 DEF FileLoaded, Loads
    <3>3. LoaderInv(mem', phys', proc', loader')
      BY <1>8, <2>1, <2>8, <2>9, <3>1 DEF LoaderInv
    <3>4. ExecInv'
      BY <1>14, <2>1, <2>12, <2>13, <3>2, <3>3 DEF ExecInv
    <3>5. LeakStep
      BY <3>1 DEF LeakStep
    <3>6. QED
      BY <1>14, <3>4, <3>5
  <2>15. CASE load.l.mem.status = "ok"
    <3>1. mem' = m /\ Replaced(s.mem, O, mem', phys', BootFile)
      BY <2>1, <2>6, <2>15
    <3>2. LoaderInv(mem', phys', proc', loader')
      BY <1>8, <1>9, <2>1, <2>7, <2>8, <2>9, <3>1 DEF LoaderInv, Replaced
    <3>3. ExecInv'
      BY <1>14, <2>1, <2>12, <2>13, <3>1, <3>2 DEF ExecInv, Replaced
    <3>4. LeakStep
      BY <1>5, <2>13, <3>1, LoadLeaks
    <3>5. QED
      BY <1>14, <3>3, <3>4
  <2>16. QED
    BY <2>14, <2>15
<1>17. QED
  BY <1>15, <1>16

\* The map of every machine is as the proofs need it, and nothing is taken.
LEMMA MachineIs ==
    ASSUME NEW c \in Machines
    PROVE  SoundMap(c) /\ UsedBases(c) = Reserved
<1>1. /\ BiosMap(c) /\ UsedBases(c) = Reserved
      /\ \A k \in DOMAIN c : c[k].type = Usable => c[k].base % PageSize = 0 /\ End(c[k]) <= AddrLimit
  BY MachinesAssumption DEF Reserved
<1>2. WellFormed(c) /\ c \in Seq(Entries) /\ DOMAIN c = 1 .. Len(c)
  BY <1>1 DEF BiosMap, WellFormed
<1>3. Inside(c, 0 .. AddrLimit - 1)
  <2> SUFFICES ASSUME NEW k \in 1 .. Len(c), c[k].type = Usable, NEW x \in Nat,
                      c[k].base <= x, x < c[k].base + c[k].length
               PROVE  x \in 0 .. AddrLimit - 1
    BY DEF Inside
  <2>1. c[k].base \in Nat /\ c[k].length \in Nat
    BY <1>2, Fields
  <2>2. c[k].base + c[k].length <= AddrLimit
    BY <1>1, <1>2 DEF End
  <2>3. QED
    BY <2>1, <2>2, AddrLimitAssumption
<1>4. \A k \in 1 .. Len(c) : c[k].type = Used => c[k].base \in Reserved
  BY <1>1, <1>2, UsedBasesIs
<1>5. \A k \in 1 .. Len(c) : c[k].type = Usable => c[k].base % PageSize = 0
  BY <1>1, <1>2
<1>6. QED
  BY <1>1, <1>2, <1>3, <1>4, <1>5 DEF SoundMap

\* The invariant holds when kernel() has set up paging.
LEMMA InitInv == Init => ExecInv
<1> SUFFICES ASSUME Init PROVE ExecInv
  OBVIOUS
<1>1. PICK c \in Machines : mem = [FirstMemory EXCEPT !.map = c]
  BY DEF Init
<1>2. SoundMap(c) /\ UsedBases(c) = Reserved /\ c \in Seq(Entries)
  BY MachineIs DEF SoundMap, WellFormed
<1>3. /\ mem.map = c
      /\ mem.dir = [d \in 0 .. Tables - 1 |-> IF d = 0 THEN FirstTable ELSE None]
      /\ mem.pte = [v \in Pages |-> IF v < TablePages THEN v * PageSize ELSE None]
      /\ mem.user = {DirBit(0)} \cup 0 .. TablePages - 1
      /\ mem.next_virtual = KernelEnd /\ mem.free_virtual = <<>> /\ mem.stale = {}
      /\ mem.status = "ok" /\ mem.table = 0 /\ mem.short = FALSE
      /\ mem = [map |-> mem.map, dir |-> mem.dir, pte |-> mem.pte, user |-> mem.user,
                next_virtual |-> mem.next_virtual, free_virtual |-> mem.free_virtual,
                stale |-> mem.stale, status |-> mem.status, table |-> mem.table,
                short |-> mem.short]
  BY <1>1 DEF FirstMemory
<1>4. \A d \in Dirs : mem.dir[d] = IF d = 0 THEN FirstTable ELSE None
  BY <1>3 DEF Dirs
<1>5. \A v \in Pages : mem.pte[v] = IF v < TablePages THEN v * PageSize ELSE None
  BY <1>3
<1>6. mem \in Memories
  <2>1. mem.dir \in [Dirs -> Addresses]
    <3>1. FirstTable \in Addresses
      BY KernelAssumption, PageSizeAssumption, LayoutIs DEF Addresses
    <3>2. None \in Addresses
      BY DEF Addresses
    <3>3. QED
      BY <1>3, <3>1, <3>2 DEF Dirs
  <2>2. mem.pte \in [Pages -> Addresses]
    <3>1. \A v \in Pages : v * PageSize \in Addresses /\ None \in Addresses
      BY LayoutIs, DirIs DEF Addresses
    <3>2. QED
      BY <1>3, <3>1
  <2>3. mem.user \in SUBSET Int
    BY <1>3, LayoutIs DEF DirBit
  <2>4. mem.map \in Seq(Entries) /\ mem.free_virtual \in Seq(Nat) /\ mem.next_virtual \in Nat
        /\ mem.stale \in SUBSET Int /\ mem.status \in {"ok", "fault", "astray"}
        /\ mem.table \in Nat /\ mem.short \in BOOLEAN
    <3>1. <<>> \in Seq(Nat) /\ {} \in SUBSET Int /\ 0 \in Nat /\ FALSE \in BOOLEAN
      OBVIOUS
    <3>2. mem.map \in Seq(Entries) /\ mem.free_virtual \in Seq(Nat)
      BY <1>2, <1>3, <3>1
    <3>3. mem.next_virtual \in Nat /\ mem.stale \in SUBSET Int
          /\ mem.status \in {"ok", "fault", "astray"} /\ mem.table \in Nat
      BY <1>3, <3>1, LayoutIs
    <3>4. mem.short \in BOOLEAN
      BY <1>3, <3>1, Zenon
    <3>5. QED
      BY <3>2, <3>3, <3>4
  <2>5. QED
    BY <1>3, <2>1, <2>2, <2>3, <2>4 DEF Memories
<1>7. LoadedPages(mem) = {}
  <2>1. \A v \in Pages : v >= TablePages => mem.pte[v] = None
    <3> TAKE v \in Pages
    <3> HAVE v >= TablePages
    <3>1. v \in Nat /\ TablePages \in Nat
      BY DirIs, LayoutIs
    <3>2. ~ (v < TablePages)
      BY <3>1
    <3>3. QED
      BY <1>5, <3>2
  <2>2. QED
    BY <2>1 DEF LoadedPages
<1>8. /\ proc = [p \in Procs |-> NoProcess] /\ heap = {} /\ loader = 0
      /\ phys = [u \in 0 .. AddrLimit - 1 |-> Other]
  BY DEF Init
<1>9. \A p \in Procs : proc[p].state = "none" /\ StacksIn(proc, p) = {}
  BY <1>8 DEF NoProcess, StacksIn
<1>10. AllStacks(proc) = {}
  BY <1>9 DEF AllStacks
<1>11. proc \in [Procs -> Processes]
  <2>1. NoProcess \in Processes
    BY DEF NoProcess, Processes, Images
  <2>2. QED
    BY <1>8, <2>1
<1>12. Identity(mem)
  <2>1. \A v \in 0 .. TablePages - 1 : v \in Pages /\ v < TablePages
    BY LowPages, LayoutIs
  <2>2. QED
    BY <1>5, <2>1 DEF Identity
<1>13. TablesInv(mem)
  BY <1>4, LayoutIs DEF TablesInv, Dirs
<1>14. OwnersInv(mem, {})
  BY <1>7 DEF OwnersInv, InUseBy
<1>15. FreeInv(mem, {})
  <2>1. Len(mem.free_virtual) = 0
    BY <1>3
  <2>2. QED
    BY <1>3, <2>1 DEF FreeInv
<1>16. MemInv(mem, {})
  <2>1. KernelEnd \in KernelEnd .. MaxNext
    BY LayoutAssumption, LayoutIs
  <2>2. QED
    BY <1>2, <1>3, <1>6, <1>12, <1>13, <1>14, <1>15, <2>1 DEF MemInv
<1>17. MemInv(mem, heap \cup AllStacks(proc))
  <2>1. heap \cup AllStacks(proc) = {}
    BY <1>8, <1>10
  <2>2. QED
    BY <1>16, <2>1
<1>18. Explained(mem) /\ StartInv
  BY <1>3, <1>7, <1>8, <1>9 DEF Explained, StartInv
<1>19. phys \in Physical
  BY <1>8 DEF Physical, Contents
<1>20. ProcsInv(proc, heap) /\ LoaderInv(mem, phys, proc, loader)
  BY <1>8, <1>9, <1>10, <1>11, LayoutAssumption DEF ProcsInv, LoaderInv
<1>21. QED
  BY <1>17, <1>18, <1>19, <1>20 DEF ExecInv

\* Every step keeps the invariants and is as LeaksExplained says.
LEMMA NextInv ==
    ASSUME ExecInv, TellInv, [Next]_vars
    PROVE  ExecInv' /\ TellInv' /\ (vars' = vars \/ LeakStep)
<1> DEFINE Goal == ExecInv' /\ TellInv' /\ (vars' = vars \/ LeakStep)
<1>1. CASE UNCHANGED vars
  <2>1. /\ mem' = mem /\ phys' = phys /\ proc' = proc /\ heap' = heap /\ loader' = loader
        /\ last' = last
    BY <1>1 DEF vars
  <2>2. ExecInv' /\ TellInv'
    BY <2>1 DEF ExecInv, StartInv, TellInv, LoadedPages
  <2>3. QED
    BY <1>1, <2>2
<1>2. ASSUME create_elf_process PROVE Goal
  BY <1>2, CreateElfStep
<1>3. ASSUME last' = Quiet PROVE TellInv'
  BY <1>3 DEF TellInv, Quiet
<1>4. ASSUME create_process PROVE Goal
  <2>1. last' = Quiet
    BY <1>4 DEF create_process
  <2>2. QED
    BY <1>3, <1>4, <2>1, CreateStep
<1>5. ASSUME NEW p \in Procs, NEW f \in DOMAIN Files, sys_exec(p, f) PROVE Goal
  BY <1>5, ExecStep
<1>6. ASSUME NEW p \in Procs, sys_kmalloc(p) PROVE Goal
  <2>1. last' = Quiet
    BY <1>6 DEF sys_kmalloc
  <2>2. QED
    BY <1>3, <1>6, <2>1, KmallocStep
<1>7. ASSUME NEW p \in Procs, sys_exit(p) PROVE Goal
  <2>1. last' = Quiet
    BY <1>7 DEF sys_exit
  <2>2. QED
    BY <1>3, <1>7, <2>1, ExitStep
<1>8. ASSUME NEW p \in Procs, UserWrites(p) PROVE Goal
  <2>1. last' = Quiet
    BY <1>8 DEF UserWrites
  <2>2. QED
    BY <1>3, <1>8, <2>1, WriteStep
<1> HIDE DEF Goal
<1>9. ASSUME Next PROVE Goal
  BY <1>2, <1>4, <1>5, <1>6, <1>7, <1>8, <1>9 DEF Next
<1>10. QED
  BY <1>1, <1>9 DEF Goal

\* The invariant holds in every state.
LEMMA ExecInvariant == Spec => [](ExecInv /\ TellInv)
<1>1. ExecInv /\ TellInv /\ [Next]_vars => ExecInv' /\ TellInv'
  BY NextInv
<1>2. Init => TellInv
  BY DEF Init, TellInv
<1>3. QED
  BY <1>1, <1>2, InitInv, PTL DEF Spec

\* A program that is there is in place as user code sees it.
LEMMA ThereIsInPlace ==
    ASSUME NEW f \in DOMAIN Files, Loadable(f), ProgramThere(mem, phys, f)
    PROVE  InPlace(f)
<1> SUFFICES ASSUME NEW n \in DOMAIN Files[f].segments, Files[f].segments[n].load,
                    NEW k \in 0 .. Files[f].segments[n].memsz - 1
             PROVE  Reads(Files[f].segments[n].vaddr + k) = Wanted(f, Files[f].segments[n], k)
  BY DEF InPlace
<1> DEFINE s == Files[f].segments[n]
<1>1. n \in 1 .. Len(Files[f].segments)
  BY ProgramIs DEF Loadable
<1>2. SegmentThere(mem, phys, f, s)
  BY <1>1 DEF ProgramThere
<1> HIDE DEF s
<1>3. k \in 0 .. s.memsz - 1
  BY DEF s
<1>4. Reads(s.vaddr + k) = Wanted(f, s, k)
  BY <1>2, <1>3 DEF SegmentThere, Reads
<1>5. QED
  BY <1>4 DEF s
-----------------------------------------------------------------------------
\* allocate_page(), allocate_pages_contig(), load_segment(), free_page(): no
\* page of the heap or of a stack has two owners, and two pages in use never
\* share a frame or lie on a page table, for every machine and set of programs.
THEOREM MappingsAreExclusive == Spec => []MappingsExclusive
<1>1. ExecInv => MappingsExclusive
  <2> SUFFICES ASSUME ExecInv PROVE MappingsExclusive
    OBVIOUS
  <2> DEFINE O == heap \cup AllStacks(proc)
  <2>1. OwnersInv(mem, O) /\ ProcsInv(proc, heap) /\ InUse = InUseBy(mem, O)
    BY StacksAreIn DEF ExecInv, MemInv
  <2> HIDE DEF O
  <2>2. \A p \in Procs : StacksOf(p) = StacksIn(proc, p) /\ StacksIn(proc, p) \subseteq AllStacks(proc)
    BY StacksAreIn DEF AllStacks
  <2>3. \A p \in Procs : \A q \in Procs \ {p} : StacksOf(p) \cap StacksOf(q) = {}
    BY <2>1, <2>2 DEF ProcsInv
  <2>4. \A p \in Procs : StacksOf(p) \cap heap = {}
    BY <2>1, <2>2 DEF ProcsInv
  <2>5. ASSUME NEW v \in InUse
        PROVE  /\ \/ mem.pte[v] \in Taken(mem) \ NewTables(mem)
                  \/ v = StackPage /\ mem.pte[v] = 0
               /\ \A w \in InUse \ {v} : mem.pte[w] # mem.pte[v]
    <3>1. OwnFrame(mem, v) /\ \A w \in InUse \ {v} : mem.pte[w] # mem.pte[v]
      BY <2>1, <2>5 DEF OwnersInv
    <3>2. \A d \in 1 .. Tables - 1 : d \in Dirs \ {0}
      BY LayoutIs DEF Dirs
    <3>3. (\A d \in Dirs \ {0} : mem.dir[d] # mem.pte[v]) => mem.pte[v] \notin NewTables(mem)
      BY <3>2 DEF NewTables
    <3>4. QED
      BY <3>1, <3>3 DEF OwnFrame
  <2>6. QED
    BY <2>3, <2>4, <2>5 DEF MappingsExclusive
<1>2. QED
  BY <1>1, ExecInvariant, PTL

\* free_page() and allocate_page(): a page in free_virtual[] is there once, has
\* been handed out before, is not mapped and not in use, and no page in use has
\* a stale translation, although free_page() does not flush the TLB.
THEOREM FreeListIsSound == Spec => []FreeListSound
<1>1. ExecInv => FreeListSound
  <2> SUFFICES ASSUME ExecInv PROVE FreeListSound
    OBVIOUS
  <2> DEFINE O == heap \cup AllStacks(proc)
             n == mem.next_virtual
  <2>1. /\ FreeInv(mem, O) /\ InUse = InUseBy(mem, O) /\ n \in KernelEnd .. MaxNext
        /\ mem.free_virtual \in Seq(Nat)
    BY StacksAreIn, MemoryFields DEF ExecInv, MemInv
  <2>2. \A v \in KernelEnd .. n - 1 : v \notin LoadedPages(mem)
    <3>1. \A v \in LoadedPages(mem) : v >= TablePages
      BY DEF LoadedPages
    <3> HIDE DEF n
    <3>2. \A v \in KernelEnd .. n - 1 : ~ (v >= TablePages)
      BY <2>1, LayoutIs
    <3>3. QED
      BY <3>1, <3>2
  <2> HIDE DEF O
  <2>3. DOMAIN mem.free_virtual = 1 .. Len(mem.free_virtual)
    BY <2>1
  <2>4. \A k \in 1 .. Len(mem.free_virtual) :
           /\ mem.free_virtual[k] \in KernelEnd .. n - 1 /\ mem.pte[mem.free_virtual[k]] = None
           /\ mem.free_virtual[k] \notin InUse
    BY <2>1, <2>2 DEF FreeInv, InUseBy
  <2>5. \A k, l \in 1 .. Len(mem.free_virtual) : k # l => mem.free_virtual[k] # mem.free_virtual[l]
    BY <2>1 DEF FreeInv
  <2>6. InUse \cap mem.stale = {}
    BY <2>1, <2>2 DEF FreeInv, InUseBy
  <2>7. QED
    BY <2>3, <2>4, <2>5, <2>6 DEF FreeListSound
<1>2. QED
  BY <1>1, ExecInvariant, PTL

\* init_virtual_allocator(), map_page() and load_segment(): the kernel and what
\* next_virtual has not reached stays mapped to itself, and the kernel loses a
\* page table only elsewhere.
THEOREM IdentityIsKept == Spec => []IdentityKept
<1>1. ExecInv => IdentityKept
  BY DEF ExecInv, MemInv, Identity, Explained, IdentityKept
<1>2. QED
  BY <1>1, ExecInvariant, PTL

\* load_segment(), sys_exec() and create_elf_process(): what was loaded last with
\* enough memory is complete in memory, and stays so whatever all processes
\* allocate, fail to allocate, give back and write, until the next load.
THEOREM ImageStaysInPlace == Spec => []ImageInPlace
<1>1. ExecInv => ImageInPlace
  <2> SUFFICES ASSUME ExecInv, Running, loader # 0, proc[loader].whole
               PROVE  InPlace(proc[loader].image)
    BY DEF ImageInPlace
  <2> DEFINE f == proc[loader].image
  <2>1. f \in DOMAIN Files /\ Loadable(f) /\ ProgramThere(mem, phys, f)
    BY DEF ExecInv, LoaderInv, Running
  <2> HIDE DEF f
  <2>2. InPlace(f)
    BY <2>1, ThereIsInPlace
  <2>3. QED
    BY <2>2 DEF f
<1>2. QED
  BY <1>1, ExecInvariant, PTL

\* sys_exec(), load_segment() and map_page(): whatever allocate() calls fail
\* unnoticed, an exec that reports success has the whole program in memory.
THEOREM SuccessIsLoaded == Spec => []SuccessMeansLoaded
<1>1. TellInv => SuccessMeansLoaded
  <2> SUFFICES ASSUME TellInv, Running, last.op = "exec", last.ok
               PROVE  loader # 0 /\ (Files[proc[loader].image].type = "EXEC" => InPlace(proc[loader].image))
    BY DEF SuccessMeansLoaded
  <2> DEFINE f == proc[loader].image
  <2>1. /\ loader # 0 /\ f \in DOMAIN Files /\ check_elf_supported(f)
        /\ Loadable(f) => ProgramThere(mem, phys, f)
    BY DEF TellInv, Running
  <2> HIDE DEF f
  <2>2. Files[f].type = "EXEC" => InPlace(f)
    BY <2>1, ThereIsInPlace DEF Loadable
  <2>3. QED
    BY <2>1, <2>2 DEF f
<1>2. QED
  BY <1>1, ExecInvariant, PTL

\* create_process(), load_segment() and sys_exec(): a call for which there was
\* enough memory loses no frame but those that the pages of the program and
\* its stack had before a load.
THEOREM LeaksAreExplained == Spec => LeaksExplained
<1> DEFINE Step == \A a \in Lost(mem', InUse') \ Lost(mem, InUse) :
                      \/ mem'.short \/ mem'.status # "ok"
                      \/ last'.op = "exec" /\ a \in {mem.pte[v] : v \in LoadedPages(mem)}
<1>1. ExecInv /\ TellInv /\ [Next]_vars => [Step]_vars
  BY NextInv DEF LeakStep
<1>2. QED
  BY <1>1, ExecInvariant, PTL DEF Spec, LeaksExplained
=============================================================================
