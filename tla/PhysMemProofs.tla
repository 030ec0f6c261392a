---------------------------- MODULE PhysMemProofs ----------------------------
(***************************************************************************)
(* Proofs about PhysMem, for every memory map, page size, table size and   *)
(* address width.                                                          *)
(***************************************************************************)
EXTENDS PhysMem, SequenceLemmas

(* A map of non-empty entries in address order.                            *)
WellFormed(m) ==
    /\ m \in Seq(Entries)
    /\ \A k \in 1 .. Len(m) : m[k].length > 0
    /\ Sorted(m)

Merged(m) == \A k \in 1 .. Len(m) - 1 : ~ Mergeable(m, k)

(* allocate() chooses an entry the page fits in, if there is one.          *)
LEMMA BestFits ==
    ASSUME NEW m \in Seq(Entries), Fits(m) # {}
    PROVE  best(m) \in Fits(m)
<1> DEFINE L == {m[k].length : k \in Fits(m)}
           B == {k \in Fits(m) : \A l \in Fits(m) : m[k].length <= m[l].length}
<1>1. Fits(m) \subseteq 1 .. Len(m) /\ Len(m) \in Nat
  BY DEF Fits
<1>2. \A k \in 1 .. Len(m) : m[k] \in Entries
  OBVIOUS
<1>3. L \subseteq Nat /\ L # {}
  BY <1>1, <1>2 DEF Entries
<1>4. PICK k \in Fits(m) : m[k].length = Min(L)
  BY <1>3, MinIsLeast
<1>5. k \in B
  BY <1>3, <1>4, MinIsLeast
<1>6. B \subseteq Nat /\ B # {}
  <2>1. B \subseteq Fits(m)
    OBVIOUS
  <2>2. Fits(m) \subseteq Nat
    BY <1>1
  <2>3. QED
    BY <1>5, <2>1, <2>2
<1>7. Min(B) \in B
  BY <1>6, MinIsLeast
<1>8. QED
  BY <1>7 DEF best

-----------------------------------------------------------------------------
(* What a merge makes of two entries.                                      *)
Joined(e, f) == [base |-> e.base, length |-> e.length + f.length, type |-> e.type]

(* An entry is determined by its fields.                                   *)
LEMMA EntryFields ==
    ASSUME NEW e \in Entries
    PROVE  /\ e.base \in Nat /\ e.length \in Nat /\ e.type \in Nat
           /\ e = [base |-> e.base, length |-> e.length, type |-> e.type]
BY DEF Entries

LEMMA CarvedEntry ==
    ASSUME NEW e \in Entries, e.length >= PageSize
    PROVE  UsedPart(e) \in Entries /\ RestPart(e) \in Entries
<1>1. /\ e.base \in Nat /\ PageSize \in Nat
      /\ e.base + PageSize \in Nat /\ e.length - PageSize \in Nat
  BY EntryFields, PageSizeAssumption
<1>2. QED
  BY <1>1 DEF UsedPart, RestPart, Entries, Used, Usable

LEMMA JoinedEntry ==
    ASSUME NEW e \in Entries, NEW f \in Entries
    PROVE  /\ [e EXCEPT !.length = @ + f.length] = Joined(e, f)
           /\ Joined(e, f) \in Entries
<1>1. PICK x \in Nat, y \in Nat, z \in Nat : e = [base |-> x, length |-> y, type |-> z]
  BY EntryFields
<1>2. e.base = x /\ e.length = y /\ e.type = z
  BY <1>1
<1>3. f.length \in Nat
  BY EntryFields
<1>4. Joined(e, f) = [base |-> x, length |-> y + f.length, type |-> z]
  BY <1>2 DEF Joined
<1>5. [e EXCEPT !.length = @ + f.length]
         = [base |-> x, length |-> y + f.length, type |-> z]
  BY <1>1, <1>2
<1>6. Joined(e, f) \in Entries
  BY <1>3, <1>4 DEF Entries
<1>7. QED
  BY <1>4, <1>5, <1>6

(* Carve, element by element.                                              *)
LEMMA CarveIs ==
    ASSUME NEW m \in Seq(Entries), NEW b \in 1 .. Len(m), m[b].length >= PageSize
    PROVE  /\ Carve(m, b) \in Seq(Entries)
           /\ m[b].length = PageSize =>
                 /\ Len(Carve(m, b)) = Len(m)
                 /\ \A k \in 1 .. Len(m) :
                       Carve(m, b)[k] = IF k = b THEN UsedPart(m[b]) ELSE m[k]
           /\ m[b].length > PageSize =>
                 /\ Len(Carve(m, b)) = Len(m) + 1
                 /\ \A k \in 1 .. Len(m) + 1 :
                       Carve(m, b)[k] = IF k < b THEN m[k]
                                        ELSE IF k = b THEN UsedPart(m[b])
                                        ELSE IF k = b + 1 THEN RestPart(m[b])
                                        ELSE m[k - 1]
<1> DEFINE u == UsedPart(m[b])
           r == RestPart(m[b])
           w == [m EXCEPT ![b] = u]
<1>0. m[b] \in Entries /\ Len(m) \in Nat /\ PageSize \in Nat
  BY PageSizeAssumption
<1>1. m[b].length \in Nat
  BY <1>0, EntryFields
<1>3. u \in Entries /\ r \in Entries
  BY <1>0, CarvedEntry
<1>5. Carve(m, b) = IF m[b].length > PageSize THEN InsertAt(w, b + 1, r) ELSE w
  BY Zenon DEF Carve, ReplaceAt
<1> HIDE DEF u, r
<1>4. w \in Seq(Entries) /\ Len(w) = Len(m)
      /\ \A k \in 1 .. Len(m) : w[k] = IF k = b THEN u ELSE m[k]
  BY <1>0, <1>3
<1> HIDE DEF w
<1>6. CASE m[b].length = PageSize
  <2>1. Carve(m, b) = w
    BY <1>0, <1>1, <1>5, <1>6
  <2>2. ~ (m[b].length > PageSize)
    BY <1>0, <1>6
  <2>3. QED
    BY <1>4, <1>6, <2>1, <2>2, Zenon DEF u
<1>7. CASE m[b].length > PageSize
  <2>1. Carve(m, b) = InsertAt(w, b + 1, r)
    BY <1>5, <1>7
  <2>2. b + 1 \in 1 .. Len(w) + 1
    BY <1>0, <1>4
  <2>3. /\ Carve(m, b) \in Seq(Entries)
        /\ Len(Carve(m, b)) = Len(w) + 1
        /\ \A k \in 1 .. Len(w) + 1 :
              Carve(m, b)[k] = IF k < b + 1 THEN w[k]
                               ELSE IF k = b + 1 THEN r ELSE w[k - 1]
    <3>1. /\ InsertAt(w, b + 1, r) \in Seq(Entries)
          /\ Inserted(InsertAt(w, b + 1, r), w, b + 1, r)
      BY <1>3, <1>4, <2>2, InsertAtIs, Zenon
    <3>2. Carve(m, b) \in Seq(Entries) /\ Inserted(Carve(m, b), w, b + 1, r)
      BY <2>1, <3>1
    <3>3. QED
      BY <3>2 DEF Inserted
  <2>4. ASSUME NEW k \in 1 .. Len(m) + 1
        PROVE  Carve(m, b)[k] = IF k < b THEN m[k] ELSE IF k = b THEN u
                                ELSE IF k = b + 1 THEN r ELSE m[k - 1]
    <3> DEFINE ck == Carve(m, b)[k]
    <3>1. ck = IF k < b + 1 THEN w[k] ELSE IF k = b + 1 THEN r ELSE w[k - 1]
      BY <1>4, <2>3
    <3> HIDE DEF ck
    <3>2. CASE k < b
      BY <1>0, <1>4, <3>1, <3>2 DEF ck
    <3>3. CASE k = b
      BY <1>0, <1>4, <3>1, <3>3 DEF ck
    <3>4. CASE k > b
      <4>1. ~ (k < b) /\ k # b /\ ~ (k < b + 1)
        BY <1>0, <3>4
      <4>2. k # b + 1 => k - 1 \in 1 .. Len(m) /\ k - 1 # b
        BY <1>0, <3>4
      <4>3. QED
        BY <1>4, <3>1, <4>1, <4>2 DEF ck
    <3>5. QED
      BY <1>0, <3>2, <3>3, <3>4
  <2>5. m[b].length # PageSize
    BY <1>0, <1>7
  <2>6. QED
    BY <1>4, <1>7, <2>3, <2>4, <2>5, Zenon DEF u, r
<1>8. QED
  BY <1>0, <1>1, <1>6, <1>7

(* Merge, element by element.                                              *)
LEMMA MergeIs ==
    ASSUME NEW m \in Seq(Entries), NEW n \in 1 .. Len(m) - 1
    PROVE  /\ Merge(m, n) \in Seq(Entries)
           /\ Len(Merge(m, n)) = Len(m) - 1
           /\ \A k \in 1 .. Len(m) - 1 :
                 Merge(m, n)[k] = IF k < n THEN m[k]
                                  ELSE IF k = n THEN Joined(m[n], m[n + 1])
                                  ELSE m[k + 1]
<1> DEFINE g == Joined(m[n], m[n + 1])
           w == [m EXCEPT ![n] = g]
<1>0. /\ Len(m) \in Nat /\ n \in 1 .. Len(m) /\ n + 1 \in 1 .. Len(m)
      /\ m[n] \in Entries /\ m[n + 1] \in Entries
  OBVIOUS
<1>1. [m[n] EXCEPT !.length = @ + m[n + 1].length] = g
  BY <1>0, JoinedEntry, Zenon
<1>2. g \in Entries
  BY <1>0, JoinedEntry
<1> HIDE DEF g
<1>3. /\ w \in Seq(Entries) /\ Len(w) = Len(m)
      /\ \A k \in 1 .. Len(m) : w[k] = IF k = n THEN g ELSE m[k]
  BY <1>0, <1>2
<1>4. Merge(m, n) = RemoveAt(w, n + 1)
  BY <1>1, Zenon DEF Merge, ReplaceAt
<1> HIDE DEF w
<1>50. Len(w) - 1 = Len(m) - 1 /\ n + 1 \in 1 .. Len(w)
  BY <1>0, <1>3
<1>5. /\ Merge(m, n) \in Seq(Entries)
      /\ Len(Merge(m, n)) = Len(m) - 1
      /\ \A k \in 1 .. Len(m) - 1 :
            Merge(m, n)[k] = IF k < n + 1 THEN w[k] ELSE w[k + 1]
  BY <1>3, <1>4, <1>50, RemoveAtIs, Zenon
<1>6. ASSUME NEW k \in 1 .. Len(m) - 1
      PROVE  Merge(m, n)[k] = IF k < n THEN m[k] ELSE IF k = n THEN g ELSE m[k + 1]
  BY <1>0, <1>3, <1>5
<1>7. QED
  BY <1>5, <1>6 DEF g
-----------------------------------------------------------------------------
(* Elements of a well-formed map have natural numbers as fields.           *)
LEMMA Fields ==
    ASSUME NEW m \in Seq(Entries)
    PROVE  /\ Len(m) \in Nat /\ DOMAIN m = 1 .. Len(m)
           /\ \A k \in 1 .. Len(m) :
                 /\ m[k] \in Entries
                 /\ m[k].base \in Nat /\ m[k].length \in Nat /\ m[k].type \in Nat
<1>1. \A k \in 1 .. Len(m) : m[k] \in Entries
  OBVIOUS
<1>2. QED
  BY <1>1, EntryFields

LEMMA EndIs ==
    ASSUME NEW e, e.base \in Nat, e.length \in Nat
    PROVE  End(e) = e.base + e.length /\ End(e) \in Nat
BY DEF End

(* A split keeps the order of the entries and makes none of them mergeable.*)
LEMMA CarveKeeps ==
    ASSUME NEW m, WellFormed(m), NEW b \in Fits(m)
    PROVE  /\ WellFormed(Carve(m, b))
           /\ Merged(m) => Merged(Carve(m, b))
<1> DEFINE c == Carve(m, b)
<1>0. m \in Seq(Entries) /\ PageSize \in Nat /\ PageSize > 0
  BY PageSizeAssumption DEF WellFormed
<1>1. /\ Len(m) \in Nat /\ DOMAIN m = 1 .. Len(m)
      /\ \A k \in 1 .. Len(m) :
            /\ m[k] \in Entries
            /\ m[k].base \in Nat /\ m[k].length \in Nat /\ m[k].type \in Nat
  BY <1>0, Fields
<1>2. b \in 1 .. Len(m) /\ m[b].length >= PageSize /\ m[b].type = Usable
  BY <1>1 DEF Fits
<1>3. /\ UsedPart(m[b]).base = m[b].base /\ UsedPart(m[b]).length = PageSize
      /\ UsedPart(m[b]).type = Used
      /\ RestPart(m[b]).base = m[b].base + PageSize
      /\ RestPart(m[b]).length = m[b].length - PageSize
      /\ RestPart(m[b]).type = Usable
  BY DEF UsedPart, RestPart
<1>4. /\ c \in Seq(Entries)
      /\ m[b].length = PageSize =>
            /\ Len(c) = Len(m)
            /\ \A k \in 1 .. Len(m) : c[k] = IF k = b THEN UsedPart(m[b]) ELSE m[k]
      /\ m[b].length > PageSize =>
            /\ Len(c) = Len(m) + 1
            /\ \A k \in 1 .. Len(m) + 1 :
                  c[k] = IF k < b THEN m[k] ELSE IF k = b THEN UsedPart(m[b])
                         ELSE IF k = b + 1 THEN RestPart(m[b]) ELSE m[k - 1]
  BY <1>0, <1>2, CarveIs
<1> HIDE DEF c
<1>5. CASE m[b].length = PageSize
  <2>1. /\ Len(c) = Len(m)
        /\ \A k \in 1 .. Len(m) : k # b => c[k] = m[k]
        /\ c[b].base = m[b].base /\ c[b].length = m[b].length /\ c[b].type = Used
    BY <1>2, <1>3, <1>4, <1>5
  <2>2. \A k \in 1 .. Len(m) :
           c[k].base = m[k].base /\ c[k].length = m[k].length
    BY <2>1
  <2>3. \A k \in 1 .. Len(m) : c[k].type = Usable => m[k].type = Usable
    BY <1>2, <2>1
  <2>4. WellFormed(c)
    BY <1>4, <2>1, <2>2 DEF WellFormed, Sorted, End
  <2>5. ASSUME Merged(m), NEW k \in 1 .. Len(c) - 1, Mergeable(c, k) PROVE FALSE
    <3>1. k \in 1 .. Len(m) /\ k + 1 \in 1 .. Len(m) /\ k \in 1 .. Len(m) - 1
      BY <1>1, <2>1, <2>5
    <3>2. Mergeable(m, k)
      BY <2>2, <2>3, <2>5, <3>1 DEF Mergeable, End
    <3>3. QED
      BY <2>5, <3>1, <3>2 DEF Merged
  <2>6. QED
    BY <2>4, <2>5 DEF c, Merged
<1>6. CASE m[b].length > PageSize
  <2> DEFINE src(k) == IF k <= b THEN k ELSE k - 1
  <2>1. Len(c) = Len(m) + 1
    BY <1>4, <1>6
  <2>2. /\ \A k \in 1 .. b - 1 : c[k] = m[k]
        /\ c[b] = UsedPart(m[b]) /\ c[b + 1] = RestPart(m[b])
        /\ \A k \in b + 2 .. Len(c) : c[k] = m[k - 1]
    <3>0. \A k \in 1 .. Len(c) :
             c[k] = IF k < b THEN m[k] ELSE IF k = b THEN UsedPart(m[b])
                    ELSE IF k = b + 1 THEN RestPart(m[b]) ELSE m[k - 1]
      BY <1>4, <1>6
    <3>1. \A k \in 1 .. b - 1 : k \in 1 .. Len(c) /\ k < b
      BY <1>1, <1>2, <2>1
    <3>2. /\ b \in 1 .. Len(c) /\ ~ (b < b)
          /\ b + 1 \in 1 .. Len(c) /\ ~ (b + 1 < b) /\ b + 1 # b
      BY <1>1, <1>2, <2>1
    <3>3. \A k \in b + 2 .. Len(c) :
             k \in 1 .. Len(c) /\ ~ (k < b) /\ k # b /\ k # b + 1
      BY <1>1, <1>2, <2>1
    <3>4. c[b] = UsedPart(m[b]) /\ c[b + 1] = RestPart(m[b])
      BY <3>0, <3>2
    <3>5. \A k \in 1 .. b - 1 : c[k] = m[k]
      BY <3>0, <3>1
    <3>6. \A k \in b + 2 .. Len(c) : c[k] = m[k - 1]
      BY <3>0, <3>3
    <3>7. QED
      BY <3>4, <3>5, <3>6
  <2>3. \A k \in 1 .. Len(c) : k \in 1 .. b - 1 \/ k = b \/ k = b + 1 \/ k \in b + 2 .. Len(c)
    BY <1>1, <1>2, <2>1
  <2>4. ASSUME NEW k \in 1 .. Len(c)
        PROVE  /\ src(k) \in 1 .. Len(m)
               /\ m[src(k)].base <= c[k].base
               /\ End(c[k]) <= End(m[src(k)])
               /\ c[k].length > 0 /\ c[k].base \in Nat /\ c[k].length \in Nat
    <3>1. CASE k \in 1 .. b - 1
      BY <1>1, <1>2, <2>2, <3>1 DEF End, WellFormed
    <3>2. CASE k = b
      BY <1>0, <1>1, <1>2, <1>3, <1>6, <2>2, <3>2 DEF End
    <3>3. CASE k = b + 1
      <4>1. src(k) = b
        BY <1>1, <1>2, <3>3
      <4>2. /\ c[k].base = m[b].base + PageSize
            /\ c[k].length = m[b].length - PageSize
        BY <1>3, <2>2, <3>3
      <4>3. m[b].base \in Nat /\ m[b].length \in Nat
        BY <1>1, <1>2
      <4>4. c[k].base \in Nat /\ c[k].length \in Nat /\ c[k].length > 0
        BY <1>0, <1>6, <4>2, <4>3
      <4>5. End(c[k]) = c[k].base + c[k].length /\ End(m[b]) = m[b].base + m[b].length
        BY <4>3, <4>4, EndIs
      <4>6. End(c[k]) <= End(m[b]) /\ m[b].base <= c[k].base
        BY <1>0, <4>2, <4>3, <4>5
      <4>7. QED
        BY <1>2, <4>1, <4>4, <4>6
    <3>4. CASE k \in b + 2 .. Len(c)
      <4>1. src(k) = k - 1 /\ k - 1 \in 1 .. Len(m)
        BY <1>1, <1>2, <2>1, <3>4
      <4>2. c[k] = m[k - 1]
        BY <2>2, <3>4
      <4>3. /\ m[k - 1].base \in Nat /\ m[k - 1].length \in Nat
            /\ m[k - 1].length > 0
        BY <1>1, <4>1 DEF WellFormed
      <4>4. QED
        BY <4>1, <4>2, <4>3 DEF End
    <3>5. QED
      BY <2>3, <3>1, <3>2, <3>3, <3>4
  <2>5. ASSUME NEW k \in 1 .. Len(c), NEW l \in 1 .. Len(c), k < l
        PROVE  End(c[k]) <= c[l].base
    <3>1. CASE src(k) = src(l)
      <4>1. k = b /\ l = b + 1
        BY <1>1, <1>2, <2>1, <2>5, <3>1
      <4>2. QED
        BY <1>0, <1>1, <1>2, <1>3, <2>2, <4>1 DEF End
    <3>2. CASE src(k) # src(l)
      <4>1. src(k) < src(l)
        BY <1>1, <1>2, <2>1, <2>5, <3>2
      <4>2. PICK p \in 1 .. Len(m), q \in 1 .. Len(m) : p = src(k) /\ q = src(l)
        BY <2>4
      <4>3. End(m[p]) <= m[q].base
        BY <4>1, <4>2 DEF WellFormed, Sorted
      <4>4. /\ End(c[k]) <= End(m[p]) /\ m[q].base <= c[l].base
            /\ c[k].base \in Nat /\ c[k].length \in Nat /\ c[l].base \in Nat
        BY <2>4, <4>2
      <4>5. m[p].base \in Nat /\ m[p].length \in Nat /\ m[q].base \in Nat
        BY <1>1
      <4>6. End(c[k]) \in Nat /\ End(m[p]) \in Nat
        BY <4>4, <4>5, EndIs, Zenon
      <4>7. QED
        BY <4>3, <4>4, <4>5, <4>6
    <3>3. QED
      BY <3>1, <3>2
  <2>6. WellFormed(c)
    BY <1>4, <2>4, <2>5 DEF WellFormed, Sorted
  <2>7. ASSUME Merged(m), NEW k \in 1 .. Len(c) - 1, Mergeable(c, k) PROVE FALSE
    <3>1. /\ k \in 1 .. Len(c) /\ k + 1 \in 1 .. Len(c)
          /\ k # b /\ k + 1 # b
      BY <1>1, <1>2, <1>3, <2>1, <2>2, <2>7 DEF Mergeable, Used, Usable
    <3>2. CASE k + 1 < b
      <4>1. c[k] = m[k] /\ c[k + 1] = m[k + 1] /\ k \in 1 .. Len(m) - 1
        BY <1>1, <1>2, <2>1, <2>2, <3>2
      <4>2. QED
        BY <2>7, <4>1 DEF Mergeable, Merged
    <3>3. CASE k = b + 1
      <4>1. /\ c[k] = RestPart(m[b]) /\ c[k + 1] = m[b + 1]
            /\ b \in 1 .. Len(m) - 1 /\ k = b + 1
        BY <1>1, <1>2, <2>1, <2>2, <3>1, <3>3
      <4>2. End(RestPart(m[b])) = End(m[b])
        BY <1>0, <1>1, <1>2, <1>3 DEF End
      <4>3. QED
        BY <1>2, <2>7, <4>1, <4>2 DEF Mergeable, Merged
    <3>4. CASE k > b + 1
      <4>1. /\ c[k] = m[k - 1] /\ c[k + 1] = m[k] /\ k - 1 \in 1 .. Len(m) - 1
            /\ k - 1 + 1 = k
        <5>1. /\ k \in b + 2 .. Len(c) /\ k + 1 \in b + 2 .. Len(c)
              /\ k - 1 \in 1 .. Len(m) - 1 /\ k - 1 + 1 = k /\ k + 1 - 1 = k
          BY <1>1, <1>2, <2>1, <3>1, <3>4
        <5>2. QED
          BY <2>2, <5>1
      <4>2. Mergeable(m, k - 1)
        BY <2>7, <4>1 DEF Mergeable
      <4>3. QED
        BY <2>7, <4>1, <4>2 DEF Merged
    <3>5. QED
      BY <1>1, <1>2, <2>1, <3>1, <3>2, <3>3, <3>4
  <2>8. QED
    BY <2>6, <2>7 DEF c, Merged
<1>7. QED
  BY <1>0, <1>1, <1>2, <1>5, <1>6
-----------------------------------------------------------------------------
(* The free entries of m lie in U.                                         *)
Inside(m, U) ==
    \A k \in 1 .. Len(m) : m[k].type = Usable =>
        \A x \in Nat : m[k].base <= x /\ x < m[k].base + m[k].length => x \in U

(* The entries of m that are not free are entries of c.                    *)
KeepsTaken(m, c) ==
    \A l \in 1 .. Len(m) : m[l].type # Usable => \E k \in 1 .. Len(c) : c[k] = m[l]

(* A merge keeps the order, touches only free entries, stays in the memory *)
(* of the two, and leaves only pairs mergeable that were so before.        *)
LEMMA MergeKeeps ==
    ASSUME NEW m, WellFormed(m), NEW n \in 1 .. Len(m) - 1, Mergeable(m, n)
    PROVE  /\ WellFormed(Merge(m, n))
           /\ Len(Merge(m, n)) = Len(m) - 1
           /\ Merge(m, n)[n].type = Usable
           /\ KeepsTaken(m, Merge(m, n))
           /\ \A U : Inside(m, U) => Inside(Merge(m, n), U)
           /\ \A l \in 1 .. Len(m) - 2 :
                 Mergeable(Merge(m, n), l) => Mergeable(m, IF l < n THEN l ELSE l + 1)
<1> DEFINE c == Merge(m, n)
<1>0. m \in Seq(Entries)
  BY DEF WellFormed
<1>1. /\ Len(m) \in Nat
      /\ \A k \in 1 .. Len(m) :
            /\ m[k].base \in Nat /\ m[k].length \in Nat /\ m[k].length > 0
            /\ End(m[k]) = m[k].base + m[k].length
  BY <1>0, Fields, EndIs DEF WellFormed
<1>2. /\ n \in 1 .. Len(m) /\ n + 1 \in 1 .. Len(m) /\ n \in 1 .. Len(m) - 1
      /\ m[n].type = Usable /\ m[n + 1].type = Usable
      /\ m[n].base + m[n].length = m[n + 1].base
  BY <1>1 DEF Mergeable
<1>3. /\ c \in Seq(Entries) /\ Len(c) = Len(m) - 1
      /\ \A k \in 1 .. Len(c) :
            c[k] = IF k < n THEN m[k]
                   ELSE IF k = n THEN Joined(m[n], m[n + 1]) ELSE m[k + 1]
  <2>1. /\ c \in Seq(Entries) /\ Len(c) = Len(m) - 1
        /\ \A k \in 1 .. Len(m) - 1 :
            c[k] = IF k < n THEN m[k]
                   ELSE IF k = n THEN Joined(m[n], m[n + 1]) ELSE m[k + 1]
    BY <1>0, MergeIs
  <2>2. QED
    BY <2>1
<1> HIDE DEF c
<1>4. /\ \A k \in 1 .. n - 1 : c[k] = m[k]
      /\ c[n].base = m[n].base /\ c[n].type = Usable
      /\ c[n].length = m[n].length + m[n + 1].length
      /\ \A k \in n + 1 .. Len(c) : c[k] = m[k + 1]
  <2>1. \A k \in 1 .. n - 1 : k \in 1 .. Len(c) /\ k < n
    BY <1>1, <1>2, <1>3
  <2>2. n \in 1 .. Len(c) /\ ~ (n < n)
    BY <1>1, <1>2, <1>3
  <2>3. \A k \in n + 1 .. Len(c) : k \in 1 .. Len(c) /\ ~ (k < n) /\ k # n
    BY <1>1, <1>2, <1>3
  <2>4. c[n] = Joined(m[n], m[n + 1])
    BY <1>3, <2>2
  <2>5. /\ c[n].base = m[n].base /\ c[n].type = m[n].type
        /\ c[n].length = m[n].length + m[n + 1].length
    BY <2>4 DEF Joined
  <2>6. \A k \in 1 .. n - 1 : c[k] = m[k]
    BY <1>3, <2>1
  <2>7. \A k \in n + 1 .. Len(c) : c[k] = m[k + 1]
    BY <1>3, <2>3
  <2>8. QED
    BY <1>2, <2>5, <2>6, <2>7
<1>5. \A k \in 1 .. Len(c) : k \in 1 .. n - 1 \/ k = n \/ k \in n + 1 .. Len(c)
  BY <1>1, <1>2, <1>3
<1> DEFINE lo(k) == IF k <= n THEN k ELSE k + 1
           hi(k) == IF k < n THEN k ELSE k + 1
<1>6. ASSUME NEW k \in 1 .. Len(c)
      PROVE  /\ lo(k) \in 1 .. Len(m) /\ hi(k) \in 1 .. Len(m)
             /\ c[k].base = m[lo(k)].base
             /\ c[k].base \in Nat /\ c[k].length \in Nat /\ c[k].length > 0
             /\ End(c[k]) = c[k].base + c[k].length
             /\ End(c[k]) = End(m[hi(k)])
             /\ c[k].type = m[lo(k)].type /\ c[k].type = m[hi(k)].type
  <2>1. CASE k \in 1 .. n - 1
    <3>1. lo(k) = k /\ hi(k) = k /\ k \in 1 .. Len(m)
      BY <1>1, <1>2, <2>1
    <3>2. QED
      BY <1>1, <1>4, <2>1, <3>1
  <2>2. CASE k = n
    <3>1. lo(k) = n /\ hi(k) = n + 1
      BY <1>2, <2>2
    <3>2. /\ m[n].base \in Nat /\ m[n].length \in Nat /\ m[n].length > 0
          /\ m[n + 1].base \in Nat /\ m[n + 1].length \in Nat
          /\ End(m[n + 1]) = m[n + 1].base + m[n + 1].length
      BY <1>1, <1>2
    <3>3. /\ c[k].base = m[n].base /\ c[k].length = m[n].length + m[n + 1].length
          /\ c[k].type = Usable
      BY <1>4, <2>2
    <3>4. c[k].base \in Nat /\ c[k].length \in Nat /\ c[k].length > 0
      BY <3>2, <3>3
    <3>5. End(c[k]) = c[k].base + c[k].length
      BY <3>4, EndIs
    <3>6. End(c[k]) = End(m[n + 1])
      BY <1>2, <3>2, <3>3, <3>5
    <3>7. QED
      BY <1>2, <3>1, <3>3, <3>4, <3>5, <3>6
  <2>3. CASE k \in n + 1 .. Len(c)
    <3>1. lo(k) = k + 1 /\ hi(k) = k + 1 /\ k + 1 \in 1 .. Len(m)
      BY <1>1, <1>2, <1>3, <2>3
    <3>2. c[k] = m[k + 1]
      BY <1>4, <2>3
    <3>3. QED
      BY <1>1, <3>1, <3>2
  <2>4. QED
    BY <1>5, <2>1, <2>2, <2>3
<1>7. ASSUME NEW k \in 1 .. Len(c), NEW l \in 1 .. Len(c), k < l
      PROVE  End(c[k]) <= c[l].base
  <2>1. hi(k) < lo(l)
    BY <1>1, <1>2, <1>3, <1>7
  <2>2. PICK p \in 1 .. Len(m), q \in 1 .. Len(m) : p = hi(k) /\ q = lo(l)
    BY <1>6
  <2>3. End(m[p]) <= m[q].base
    BY <2>1, <2>2 DEF WellFormed, Sorted
  <2>4. End(c[k]) = End(m[p]) /\ c[l].base = m[q].base
    BY <1>6, <2>2
  <2>5. QED
    BY <2>3, <2>4
<1>8. WellFormed(c)
  BY <1>3, <1>6, <1>7 DEF WellFormed, Sorted
<1>9. KeepsTaken(m, c)
  <2>1. ASSUME NEW l \in 1 .. Len(m), m[l].type # Usable
        PROVE  \E k \in 1 .. Len(c) : c[k] = m[l]
    <3>1. l # n /\ l # n + 1
      BY <1>2, <2>1
    <3>2. CASE l < n
      <4>1. l \in 1 .. n - 1 /\ l \in 1 .. Len(c)
        BY <1>1, <1>2, <1>3, <3>2
      <4>2. QED
        BY <1>4, <4>1
    <3>3. CASE l > n + 1
      <4>1. PICK k \in n + 1 .. Len(c) : k + 1 = l
        <5>1. l - 1 \in n + 1 .. Len(c) /\ l - 1 + 1 = l
          BY <1>1, <1>2, <1>3, <3>3
        <5>2. QED
          BY <5>1
      <4>2. c[k] = m[l] /\ k \in 1 .. Len(c)
        <5>1. c[k] = m[k + 1]
          BY <1>4
        <5>2. k \in 1 .. Len(c)
          BY <1>1, <1>2, <1>3
        <5>3. QED
          BY <4>1, <5>1, <5>2
      <4>3. QED
        BY <4>2
    <3>4. QED
      BY <1>2, <3>1, <3>2, <3>3
  <2>2. QED
    BY <2>1 DEF KeepsTaken
<1>10. ASSUME NEW U, Inside(m, U) PROVE Inside(c, U)
  <2>1. ASSUME NEW k \in 1 .. Len(c), c[k].type = Usable, NEW x \in Nat,
               c[k].base <= x, x < c[k].base + c[k].length
        PROVE  x \in U
    <3>1. PICK p \in 1 .. Len(m), q \in 1 .. Len(m) : p = lo(k) /\ q = hi(k)
      BY <1>6
    <3>2. /\ m[p].type = Usable /\ m[q].type = Usable
          /\ m[p].base <= x /\ x < m[q].base + m[q].length
      BY <1>1, <1>6, <2>1, <3>1
    <3>3. p = q \/ (p = n /\ q = n + 1)
      BY <1>2, <3>1
    <3>4. m[p].base + m[p].length > x \/ m[q].base <= x
      BY <1>1, <1>2, <3>2, <3>3
    <3>5. QED
      BY <1>10, <3>2, <3>4 DEF Inside
  <2>2. QED
    BY <2>1 DEF Inside
<1>11. ASSUME NEW l \in 1 .. Len(m) - 2, Mergeable(c, l)
       PROVE  Mergeable(m, hi(l))
  <2>1. l \in 1 .. Len(c) /\ l + 1 \in 1 .. Len(c)
    BY <1>1, <1>3
  <2>2. lo(l + 1) = hi(l) + 1
    BY <1>2, <2>1
  <2>3. /\ m[hi(l)].type = Usable /\ m[lo(l + 1)].type = Usable
        /\ End(m[hi(l)]) = m[lo(l + 1)].base
    <3>1. c[l].type = m[hi(l)].type /\ End(c[l]) = End(m[hi(l)])
      BY <1>6, <2>1
    <3>2. c[l + 1].type = m[lo(l + 1)].type /\ c[l + 1].base = m[lo(l + 1)].base
      BY <1>6, <2>1
    <3>3. QED
      BY <1>11, <3>1, <3>2 DEF Mergeable
  <2>4. QED
    BY <2>2, <2>3 DEF Mergeable
<1>12. QED
  BY <1>3, <1>4, <1>8, <1>9, <1>10, <1>11 DEF c

LEMMA KeepsTakenTwice ==
    ASSUME NEW a, NEW b, NEW c, KeepsTaken(a, b), KeepsTaken(b, c)
    PROVE  KeepsTaken(a, c)
<1>1. ASSUME NEW l \in 1 .. Len(a), a[l].type # Usable
      PROVE  \E k \in 1 .. Len(c) : c[k] = a[l]
  <2>1. PICK k \in 1 .. Len(b) : b[k] = a[l]
    BY <1>1, Zenon DEF KeepsTaken
  <2>2. b[k].type # Usable
    BY <1>1, <2>1
  <2>3. PICK p \in 1 .. Len(c) : c[p] = b[k]
    BY <2>2, Zenon DEF KeepsTaken
  <2>4. QED
    BY <2>1, <2>3
<1>2. QED
  BY <1>1, Zenon DEF KeepsTaken

(* What a map may become in free(): order, taken entries and free memory   *)
(* stay, and the table does not grow.                                      *)
Shrinks(m, c) ==
    /\ WellFormed(c)
    /\ Len(c) <= Len(m)
    /\ KeepsTaken(m, c)
    /\ \A U : Inside(m, U) => Inside(c, U)

LEMMA ShrinksTwice ==
    ASSUME NEW a, NEW b, NEW c, WellFormed(a), Shrinks(a, b), Shrinks(b, c)
    PROVE  Shrinks(a, c)
<1>1. Len(a) \in Nat /\ Len(b) \in Nat /\ Len(c) \in Nat
  BY DEF Shrinks, WellFormed
<1>2. Len(c) <= Len(a)
  BY <1>1 DEF Shrinks
<1>3. KeepsTaken(a, c)
  BY KeepsTakenTwice DEF Shrinks
<1>4. \A U : Inside(a, U) => Inside(c, U)
  BY Zenon DEF Shrinks
<1>5. WellFormed(c)
  BY DEF Shrinks
<1>6. QED
  BY <1>2, <1>3, <1>4, <1>5, Zenon DEF Shrinks

LEMMA ShrinksSelf ==
    ASSUME NEW m, WellFormed(m)
    PROVE  Shrinks(m, m)
<1>1. Len(m) <= Len(m)
  BY DEF WellFormed
<1>2. QED
  BY <1>1, Zenon DEF Shrinks, KeepsTaken

(* MergeNext removes the last pair that can be merged.                     *)
LEMMA MergeNextKeeps ==
    ASSUME NEW m, WellFormed(m), NEW n \in 1 .. Len(m)
    PROVE  /\ Shrinks(m, MergeNext(m, n))
           /\ (\A l \in 1 .. Len(m) - 1 : Mergeable(m, l) => l = n)
                 => Merged(MergeNext(m, n))
<1>0. Len(m) \in Nat
  BY DEF WellFormed
<1>1. CASE n < Len(m) /\ Mergeable(m, n)
  <2>1. MergeNext(m, n) = Merge(m, n)
    BY <1>1 DEF MergeNext
  <2>2. n \in 1 .. Len(m) - 1
    BY <1>0, <1>1
  <2>3. /\ WellFormed(Merge(m, n))
        /\ Len(Merge(m, n)) = Len(m) - 1
        /\ KeepsTaken(m, Merge(m, n))
        /\ \A U : Inside(m, U) => Inside(Merge(m, n), U)
        /\ \A l \in 1 .. Len(m) - 2 :
              Mergeable(Merge(m, n), l) => Mergeable(m, IF l < n THEN l ELSE l + 1)
    BY <1>1, <2>2, MergeKeeps
  <2>4. Len(Merge(m, n)) <= Len(m)
    BY <1>0, <2>3
  <2>5. Shrinks(m, MergeNext(m, n))
    BY <2>1, <2>3, <2>4, Zenon DEF Shrinks
  <2>6. ASSUME \A l \in 1 .. Len(m) - 1 : Mergeable(m, l) => l = n,
               NEW l \in 1 .. Len(Merge(m, n)) - 1, Mergeable(Merge(m, n), l)
        PROVE  FALSE
    <3>1. l \in 1 .. Len(m) - 2
      BY <1>0, <2>3
    <3>2. PICK p \in 1 .. Len(m) - 1 : p = IF l < n THEN l ELSE l + 1
      BY <1>0, <3>1
    <3>3. Mergeable(m, p)
      BY <2>3, <2>6, <3>1, <3>2
    <3>4. p # n
      BY <3>1, <3>2, <2>2
    <3>5. QED
      BY <2>6, <3>3, <3>4
  <2>7. QED
    BY <2>1, <2>5, <2>6 DEF Merged
<1>2. CASE ~ (n < Len(m) /\ Mergeable(m, n))
  <2>1. MergeNext(m, n) = m
    BY <1>2 DEF MergeNext
  <2>2. n \in 1 .. Len(m) - 1 => ~ Mergeable(m, n)
    BY <1>0, <1>2
  <2>3. QED
    BY <2>1, <2>2, ShrinksSelf DEF Merged
<1>3. QED
  BY <1>1, <1>2

(* free() merges on both sides, and that is enough.                        *)
LEMMA MergeAroundKeeps ==
    ASSUME NEW m, WellFormed(m), NEW n \in 1 .. Len(m)
    PROVE  /\ Shrinks(m, MergeAround(m, n))
           /\ (\A l \in 1 .. Len(m) - 1 : Mergeable(m, l) => l = n - 1 \/ l = n)
                 => Merged(MergeAround(m, n))
<1>0. Len(m) \in Nat
  BY DEF WellFormed
<1>1. CASE n > 1 /\ Mergeable(m, n - 1)
  <2> DEFINE c == Merge(m, n - 1)
  <2>1. MergeAround(m, n) = MergeNext(c, n - 1)
    BY <1>1 DEF MergeAround
  <2>2. PICK p \in 1 .. Len(m) - 1 : p = n - 1
    BY <1>0, <1>1
  <2>3. /\ WellFormed(c)
        /\ Len(c) = Len(m) - 1
        /\ KeepsTaken(m, c)
        /\ \A U : Inside(m, U) => Inside(c, U)
        /\ \A l \in 1 .. Len(m) - 2 :
              Mergeable(c, l) => Mergeable(m, IF l < p THEN l ELSE l + 1)
    BY <1>1, <2>2, MergeKeeps
  <2> HIDE DEF c
  <2>4. Len(c) <= Len(m)
    BY <1>0, <2>3
  <2>5. Shrinks(m, c)
    BY <2>3, <2>4, Zenon DEF Shrinks
  <2>6. p \in 1 .. Len(c)
    BY <1>0, <2>3
  <2>7. /\ Shrinks(c, MergeNext(c, p))
        /\ (\A l \in 1 .. Len(c) - 1 : Mergeable(c, l) => l = p)
              => Merged(MergeNext(c, p))
    BY <2>3, <2>6, MergeNextKeeps
  <2>8. Shrinks(m, MergeAround(m, n))
    BY <2>1, <2>2, <2>5, <2>7, ShrinksTwice
  <2>9. ASSUME \A l \in 1 .. Len(m) - 1 : Mergeable(m, l) => l = n - 1 \/ l = n,
               NEW l \in 1 .. Len(c) - 1, Mergeable(c, l)
        PROVE  l = p
    <3>1. l \in 1 .. Len(m) - 2
      BY <1>0, <2>3
    <3>2. PICK q \in 1 .. Len(m) - 1 : q = IF l < p THEN l ELSE l + 1
      BY <1>0, <3>1
    <3>3. Mergeable(m, q)
      BY <2>3, <2>9, <3>1, <3>2
    <3>4. q = n - 1 \/ q = n
      BY <2>9, <3>3
    <3>5. QED
      BY <2>2, <3>1, <3>2, <3>4
  <2>10. QED
    BY <2>1, <2>2, <2>7, <2>8, <2>9
<1>2. CASE ~ (n > 1 /\ Mergeable(m, n - 1))
  <2>1. MergeAround(m, n) = MergeNext(m, n)
    BY <1>2 DEF MergeAround
  <2>2. ASSUME \A l \in 1 .. Len(m) - 1 : Mergeable(m, l) => l = n - 1 \/ l = n,
               NEW l \in 1 .. Len(m) - 1, Mergeable(m, l)
        PROVE  l = n
    <3>1. l = n - 1 => n > 1
      BY <1>0
    <3>2. QED
      BY <1>2, <2>2, <3>1
  <2>3. QED
    BY <2>1, <2>2, MergeNextKeeps
<1>3. QED
  BY <1>1, <1>2
-----------------------------------------------------------------------------
Retyped(m, n) == [m EXCEPT ![n].type = Usable]

(* Marking an entry free keeps the order, and at most the pairs on its two *)
(* sides become mergeable.                                                 *)
LEMMA RetypeKeeps ==
    ASSUME NEW m, WellFormed(m), NEW n \in 1 .. Len(m)
    PROVE  /\ WellFormed(Retyped(m, n))
           /\ Len(Retyped(m, n)) = Len(m)
           /\ \A k \in 1 .. Len(m) : /\ k # n => Retyped(m, n)[k] = m[k]
                                     /\ Retyped(m, n)[k].base = m[k].base
                                     /\ Retyped(m, n)[k].length = m[k].length
           /\ Merged(m) => \A l \in 1 .. Len(m) - 1 :
                              Mergeable(Retyped(m, n), l) => l = n - 1 \/ l = n
<1> DEFINE f == [m[n] EXCEPT !.type = Usable]
           c == Retyped(m, n)
<1>0. m \in Seq(Entries) /\ Len(m) \in Nat /\ m[n] \in Entries
  BY DEF WellFormed
<1>1. f \in Entries /\ f.base = m[n].base /\ f.length = m[n].length
  BY <1>0 DEF Entries, Usable
<1>2. c = [m EXCEPT ![n] = f]
  BY DEF Retyped
<1> HIDE DEF f, c
<1>3. /\ c \in Seq(Entries) /\ Len(c) = Len(m)
      /\ \A k \in 1 .. Len(m) : c[k] = IF k = n THEN f ELSE m[k]
  BY <1>0, <1>1, <1>2
<1>4. \A k \in 1 .. Len(m) : c[k].base = m[k].base /\ c[k].length = m[k].length
  BY <1>1, <1>3
<1>5. WellFormed(c)
  BY <1>3, <1>4 DEF WellFormed, Sorted, End
<1>6. ASSUME Merged(m), NEW l \in 1 .. Len(m) - 1, Mergeable(c, l), l # n - 1, l # n
      PROVE  FALSE
  <2>1. c[l] = m[l] /\ c[l + 1] = m[l + 1]
    BY <1>0, <1>3, <1>6
  <2>2. QED
    BY <1>6, <2>1 DEF Mergeable, Merged
<1>7. QED
  BY <1>3, <1>4, <1>5, <1>6 DEF c

(* free() of an address: nothing, or the merge around the first entry that *)
(* starts there.                                                           *)
LEMMA FreeIs ==
    ASSUME NEW m, WellFormed(m), NEW addr
    PROVE  \/ free(m, addr) = m /\ \A k \in 1 .. Len(m) : m[k].base # addr
           \/ \E n \in 1 .. Len(m) : /\ m[n].base = addr
                                     /\ free(m, addr) = MergeAround(Retyped(m, n), n)
<1> DEFINE found == {k \in DOMAIN m : m[k].base = addr}
<1>0. DOMAIN m = 1 .. Len(m) /\ Len(m) \in Nat
  BY DEF WellFormed
<1>1. CASE found = {}
  <2>1. free(m, addr) = m
    BY <1>1 DEF free
  <2>2. QED
    BY <1>0, <1>1, <2>1
<1>2. CASE found # {}
  <2>1. free(m, addr) = MergeAround(Retyped(m, Min(found)), Min(found))
    BY <1>2 DEF free, Retyped
  <2>2. found \subseteq Nat
    BY <1>0
  <2>3. Min(found) \in found
    BY <1>2, <2>2, MinIsLeast
  <2>4. QED
    BY <1>0, <2>1, <2>3
<1>3. QED
  BY <1>1, <1>2

(* free() keeps a map in order, in the table and merged.                   *)
LEMMA FreeKeeps ==
    ASSUME NEW m, WellFormed(m), NEW addr
    PROVE  /\ WellFormed(free(m, addr))
           /\ Len(free(m, addr)) <= Len(m)
           /\ Merged(m) => Merged(free(m, addr))
<1>0. Len(m) \in Nat
  BY DEF WellFormed
<1>1. CASE free(m, addr) = m
  BY <1>0, <1>1
<1>2. ASSUME NEW n \in 1 .. Len(m), free(m, addr) = MergeAround(Retyped(m, n), n)
      PROVE  /\ WellFormed(free(m, addr))
             /\ Len(free(m, addr)) <= Len(m)
             /\ Merged(m) => Merged(free(m, addr))
  <2>1. /\ WellFormed(Retyped(m, n))
        /\ Len(Retyped(m, n)) = Len(m)
        /\ Merged(m) => \A l \in 1 .. Len(m) - 1 :
                           Mergeable(Retyped(m, n), l) => l = n - 1 \/ l = n
    BY RetypeKeeps
  <2>2. /\ Shrinks(Retyped(m, n), MergeAround(Retyped(m, n), n))
        /\ (\A l \in 1 .. Len(m) - 1 :
               Mergeable(Retyped(m, n), l) => l = n - 1 \/ l = n)
              => Merged(MergeAround(Retyped(m, n), n))
    BY <2>1, MergeAroundKeeps
  <2>3. QED
    BY <1>2, <2>1, <2>2 DEF Shrinks
<1>3. QED
  BY <1>1, <1>2, FreeIs
-----------------------------------------------------------------------------
(* What a step changes in the map, shared by the proofs below.             *)
MapInv == WellFormed(map) /\ Len(map) <= MaxEntries /\ Merged(map)

LEMMA AllocateKeepsMap ==
    ASSUME MapInv, Allocate
    PROVE  MapInv'
<1>0. WellFormed(map) /\ map \in Seq(Entries) /\ Len(map) \in Nat
  BY DEF MapInv, WellFormed
<1>1. CASE CanAllocate(map)
  <2>1. map' = Carve(map, best(map))
    BY <1>1 DEF Allocate, allocate
  <2>2. PICK b \in Fits(map) : b = best(map)
    BY <1>0, <1>1, BestFits DEF CanAllocate
  <2>3. WellFormed(map') /\ Merged(map')
    BY <1>0, <2>1, <2>2, CarveKeeps DEF MapInv
  <2>4. b \in 1 .. Len(map) /\ map[b].length >= PageSize /\ map[b].length \in Nat
    BY <1>0, Fields DEF Fits
  <2>5. Len(map') <= MaxEntries
    <3>1. CASE map[b].length = PageSize
      BY <1>0, <2>1, <2>2, <2>4, <3>1, CarveIs DEF MapInv
    <3>2. CASE map[b].length > PageSize
      <4>1. Len(map') = Len(map) + 1
        BY <1>0, <2>1, <2>2, <2>4, <3>2, CarveIs
      <4>2. ~ (Len(map) >= MaxEntries)
        BY <1>1, <2>2, <3>2 DEF CanAllocate, TableFull
      <4>3. QED
        BY <1>0, <4>1, <4>2, MaxEntriesAssumption
    <3>3. QED
      BY <2>4, <3>1, <3>2, PageSizeAssumption
  <2>6. QED
    BY <2>3, <2>5 DEF MapInv, WellFormed, Merged, Sorted, Mergeable, End
<1>2. CASE ~ CanAllocate(map)
  <2>1. map' = map
    BY <1>2 DEF Allocate, allocate
  <2>2. QED
    BY <2>1 DEF MapInv, WellFormed, Merged, Sorted, Mergeable, End
<1>3. QED
  BY <1>1, <1>2

LEMMA FreeKeepsMap ==
    ASSUME MapInv, NEW addr \in held, Free(addr)
    PROVE  MapInv'
<1>0. WellFormed(map) /\ Len(map) \in Nat
  BY DEF MapInv, WellFormed
<1>1. map' = free(map, addr)
  BY DEF Free
<1>2. WellFormed(map') /\ Len(map') <= Len(map) /\ Merged(map')
  BY <1>0, <1>1, FreeKeeps DEF MapInv
<1>3. Len(map') <= MaxEntries
  <2>1. Len(map') \in Nat
    BY <1>2 DEF WellFormed
  <2>2. QED
    BY <1>0, <1>2, <2>1, MaxEntriesAssumption DEF MapInv
<1>4. QED
  BY <1>2, <1>3 DEF MapInv, WellFormed, Merged, Sorted, Mergeable, End

(***************************************************************************)
(* allocate() and free() keep the entries in address order without         *)
(* overlaps, within the table, and free neighbours merged, whatever map    *)
(* the BIOS reported.                                                      *)
(***************************************************************************)
THEOREM MapIsKept == PhysSpec => []MapInv
<1>1. PhysInit => MapInv
  BY InitialMapAssumption DEF BiosMap, PhysInit, MapInv, WellFormed, Merged
<1>2. MapInv /\ [PhysNext]_physVars => MapInv'
  <2>1. ASSUME MapInv, UNCHANGED physVars PROVE MapInv'
    BY <2>1 DEF physVars, MapInv, WellFormed, Merged, Sorted, Mergeable, End
  <2>2. QED
    BY <2>1, AllocateKeepsMap, FreeKeepsMap DEF PhysNext
<1>3. QED
  BY <1>1, <1>2, PTL DEF PhysSpec

(***************************************************************************)
(* The table of allocate() never outgrows its place at 0x504, its entries  *)
(* are never empty, and the addresses handed out are proper ones.          *)
(***************************************************************************)
THEOREM TypeCorrect == PhysSpec => []TypeOK
<1> DEFINE Handed == /\ held \subseteq 1 .. AddrLimit - 1
                     /\ call \in [op : {"none", "allocate", "free"},
                                  addr : 0 .. AddrLimit - 1]
<1>1. PhysInit => Handed
  BY AddrLimitAssumption DEF PhysInit
<1>2. MapInv /\ Handed /\ [PhysNext]_physVars => Handed'
  <2> SUFFICES ASSUME MapInv, Handed, [PhysNext]_physVars PROVE Handed'
    OBVIOUS
  <2>1. CASE Allocate
    <3>1. allocate(map).addr \in 0 .. AddrLimit - 1
      <4>1. CASE CanAllocate(map)
        <5>1. map \in Seq(Entries)
          BY DEF MapInv, WellFormed
        <5>2. best(map) \in Fits(map)
          BY <4>1, <5>1, BestFits DEF CanAllocate
        <5>3. map[best(map)].base \in Nat
          BY <5>1, <5>2, Fields DEF Fits
        <5>4. map[best(map)].base % AddrLimit \in 0 .. AddrLimit - 1
          BY <5>3, AddrLimitAssumption
        <5>5. QED
          BY <4>1, <5>4 DEF allocate
      <4>2. CASE ~ CanAllocate(map)
        BY <4>2, AddrLimitAssumption DEF allocate
      <4>3. QED
        BY <4>1, <4>2
    <3>2. /\ held' = IF allocate(map).addr = 0 THEN held
                     ELSE held \cup {allocate(map).addr}
          /\ call' = [op |-> "allocate", addr |-> allocate(map).addr]
      BY <2>1 DEF Allocate
    <3>3. PICK a \in 0 .. AddrLimit - 1 : a = allocate(map).addr
      BY <3>1
    <3>4. held' \subseteq 1 .. AddrLimit - 1
      <4>1. a # 0 => a \in 1 .. AddrLimit - 1
        BY AddrLimitAssumption
      <4>2. held' = IF a = 0 THEN held ELSE held \cup {a}
        BY <3>2, <3>3
      <4>3. QED
        BY <4>1, <4>2
    <3>5. call' = [op |-> "allocate", addr |-> a]
      BY <3>2, <3>3
    <3>6. QED
      BY <3>4, <3>5
  <2>2. ASSUME NEW addr \in held, Free(addr) PROVE Handed'
    BY <2>2, AddrLimitAssumption DEF Free
  <2>3. CASE UNCHANGED physVars
    BY <2>3 DEF physVars
  <2>4. QED
    BY <2>1, <2>2, <2>3 DEF PhysNext
<1>3. MapInv /\ Handed => TypeOK
  BY DEF MapInv, WellFormed, TypeOK
<1>4. QED
  BY <1>1, <1>2, <1>3, MapIsKept, PTL DEF PhysSpec

(***************************************************************************)
(* No two entries of the memory map overlap, after any sequence of         *)
(* allocate() and free().                                                  *)
(***************************************************************************)
THEOREM EntriesNeverOverlap == PhysSpec => []NoOverlap
<1>1. MapInv => NoOverlap
  BY DEF MapInv, WellFormed, NoOverlap
<1>2. QED
  BY <1>1, MapIsKept, PTL

(***************************************************************************)
(* The two comparisons of free() suffice: free neighbours never stay       *)
(* apart.                                                                  *)
(***************************************************************************)
THEOREM FreeIsAlwaysMerged == PhysSpec => []Coalesced
<1>1. MapInv => Coalesced
  BY DEF MapInv, Merged, Coalesced
<1>2. QED
  BY <1>1, MapIsKept, PTL
-----------------------------------------------------------------------------
(* The entries that are not split are still there, and no other is new.    *)
LEMMA CarveOthers ==
    ASSUME NEW m \in Seq(Entries), NEW b \in 1 .. Len(m), m[b].length >= PageSize
    PROVE  /\ b \in 1 .. Len(Carve(m, b)) /\ Carve(m, b)[b] = UsedPart(m[b])
           /\ \A l \in 1 .. Len(m) : l # b => \E k \in 1 .. Len(Carve(m, b)) : Carve(m, b)[k] = m[l]
           /\ \A k \in 1 .. Len(Carve(m, b)) :
                 \/ Carve(m, b)[k] = UsedPart(m[b])
                 \/ Carve(m, b)[k] = RestPart(m[b])
                 \/ \E l \in 1 .. Len(m) : Carve(m, b)[k] = m[l]
<1> DEFINE c == Carve(m, b)
<1>0. PageSize \in Nat
  BY PageSizeAssumption
<1>1. Len(m) \in Nat /\ m[b].length \in Nat
  BY Fields
<1>2. b \in 1 .. Len(m) /\ m[b].length >= PageSize
  OBVIOUS
<1>4. /\ m[b].length = PageSize =>
            /\ Len(c) = Len(m)
            /\ \A k \in 1 .. Len(m) : c[k] = IF k = b THEN UsedPart(m[b]) ELSE m[k]
      /\ m[b].length > PageSize =>
            /\ Len(c) = Len(m) + 1
            /\ \A k \in 1 .. Len(m) + 1 :
                  c[k] = IF k < b THEN m[k] ELSE IF k = b THEN UsedPart(m[b])
                         ELSE IF k = b + 1 THEN RestPart(m[b]) ELSE m[k - 1]
  BY CarveIs
<1> HIDE DEF c
<1>5. /\ b \in 1 .. Len(c) /\ c[b] = UsedPart(m[b])
      /\ \A k \in 1 .. Len(c) : \/ c[k] = UsedPart(m[b])
                                \/ c[k] = RestPart(m[b])
                                \/ \E l \in 1 .. Len(m) : c[k] = m[l]
      /\ \A l \in 1 .. Len(m) : l # b => \E k \in 1 .. Len(c) : c[k] = m[l]
  <2>1. CASE m[b].length = PageSize
    BY <1>1, <1>2, <1>4, <2>1
  <2>2. CASE m[b].length > PageSize
    <3>1. /\ Len(c) = Len(m) + 1
          /\ \A k \in 1 .. Len(m) + 1 :
                c[k] = IF k < b THEN m[k] ELSE IF k = b THEN UsedPart(m[b])
                       ELSE IF k = b + 1 THEN RestPart(m[b]) ELSE m[k - 1]
      BY <1>4, <2>2
    <3>2. b \in 1 .. Len(c) /\ c[b] = UsedPart(m[b])
      BY <1>1, <1>2, <3>1
    <3>3. ASSUME NEW k \in 1 .. Len(c)
          PROVE  \/ c[k] = UsedPart(m[b])
                 \/ c[k] = RestPart(m[b])
                 \/ \E l \in 1 .. Len(m) : c[k] = m[l]
      <4>1. CASE k < b
        BY <1>1, <1>2, <3>1, <4>1
      <4>2. CASE k = b \/ k = b + 1
        BY <1>1, <1>2, <3>1, <4>2
      <4>3. CASE k > b + 1
        <5>1. k - 1 \in 1 .. Len(m) /\ ~ (k < b) /\ k # b /\ k # b + 1
          BY <1>1, <1>2, <3>1, <4>3
        <5>2. c[k] = m[k - 1]
          BY <3>1, <5>1
        <5>3. QED
          BY <5>1, <5>2
      <4>4. QED
        BY <1>1, <1>2, <3>1, <4>1, <4>2, <4>3
    <3>4. ASSUME NEW l \in 1 .. Len(m), l # b
          PROVE  \E k \in 1 .. Len(c) : c[k] = m[l]
      <4>1. CASE l < b
        BY <1>1, <1>2, <3>1, <4>1
      <4>2. CASE l > b
        <5>1. /\ l + 1 \in 1 .. Len(c) /\ ~ (l + 1 < b) /\ l + 1 # b /\ l + 1 # b + 1
              /\ l + 1 - 1 = l
          BY <1>1, <1>2, <3>1, <4>2
        <5>2. c[l + 1] = m[l]
          BY <3>1, <5>1
        <5>3. QED
          BY <5>1, <5>2
      <4>3. QED
        BY <1>2, <3>4, <4>1, <4>2
    <3>5. QED
      BY <3>2, <3>3, <3>4
  <2>3. m[b].length = PageSize \/ m[b].length > PageSize
    BY <1>0, <1>1, <1>2
  <2>4. QED
    BY <2>1, <2>2, <2>3, Zenon
<1>6. QED
  BY <1>5 DEF c

(* A split touches no taken entry and makes no free memory.                *)
LEMMA CarveKeepsTaken ==
    ASSUME NEW m, WellFormed(m), NEW b \in Fits(m)
    PROVE  /\ KeepsTaken(m, Carve(m, b))
           /\ \A U : Inside(m, U) => Inside(Carve(m, b), U)
           /\ \E k \in 1 .. Len(Carve(m, b)) : Carve(m, b)[k] = UsedPart(m[b])
<1> DEFINE c == Carve(m, b)
<1>0. m \in Seq(Entries) /\ PageSize \in Nat
  BY PageSizeAssumption DEF WellFormed
<1>1. /\ Len(m) \in Nat
      /\ \A k \in 1 .. Len(m) : m[k].base \in Nat /\ m[k].length \in Nat
  BY <1>0, Fields
<1>2. b \in 1 .. Len(m) /\ m[b].length >= PageSize /\ m[b].type = Usable
  BY <1>0, Fields DEF Fits
<1>3. /\ UsedPart(m[b]).type # Usable
      /\ RestPart(m[b]).base = m[b].base + PageSize
      /\ RestPart(m[b]).length = m[b].length - PageSize
  BY DEF UsedPart, RestPart, Used, Usable
<1> HIDE DEF c
<1>5. /\ b \in 1 .. Len(c) /\ c[b] = UsedPart(m[b])
      /\ \A k \in 1 .. Len(c) : \/ c[k] = UsedPart(m[b])
                                \/ c[k] = RestPart(m[b])
                                \/ \E l \in 1 .. Len(m) : c[k] = m[l]
      /\ \A l \in 1 .. Len(m) : l # b => \E k \in 1 .. Len(c) : c[k] = m[l]
  BY <1>0, <1>2, CarveOthers DEF c
<1>6. KeepsTaken(m, c)
  BY <1>2, <1>5 DEF KeepsTaken
<1>7. ASSUME NEW U, Inside(m, U) PROVE Inside(c, U)
  <2>1. ASSUME NEW k \in 1 .. Len(c), c[k].type = Usable, NEW x \in Nat,
               c[k].base <= x, x < c[k].base + c[k].length
        PROVE  x \in U
    <3>1. CASE c[k] = UsedPart(m[b])
      BY <1>3, <2>1, <3>1
    <3>2. CASE c[k] = RestPart(m[b])
      <4>1. m[b].base <= x /\ x < m[b].base + m[b].length
        BY <1>0, <1>1, <1>2, <1>3, <2>1, <3>2
      <4>2. QED
        BY <1>2, <1>7, <4>1 DEF Inside
    <3>3. CASE \E l \in 1 .. Len(m) : c[k] = m[l]
      <4>1. PICK l \in 1 .. Len(m) : c[k] = m[l]
        BY <3>3
      <4>2. m[l].type = Usable /\ m[l].base <= x /\ x < m[l].base + m[l].length
        BY <2>1, <4>1
      <4>3. QED
        BY <1>7, <4>2 DEF Inside
    <3>4. QED
      BY <1>5, <3>1, <3>2, <3>3
  <2>2. QED
    BY <2>1 DEF Inside
<1>8. QED
  BY <1>5, <1>6, <1>7 DEF c

(* free() of a frame that is held makes its memory free and keeps the      *)
(* other taken entries.                                                    *)
LEMMA FreeKeepsTaken ==
    ASSUME NEW m, WellFormed(m), NEW U, Inside(m, U), NEW addr \in Nat,
           \E k \in 1 .. Len(m) :
              m[k] = [base |-> addr, length |-> PageSize, type |-> Used],
           addr .. addr + PageSize - 1 \subseteq U
    PROVE  /\ Inside(free(m, addr), U)
           /\ \A l \in 1 .. Len(m) : m[l].type # Usable /\ m[l].base # addr =>
                 \E k \in 1 .. Len(free(m, addr)) : free(m, addr)[k] = m[l]
<1>0. /\ Len(m) \in Nat /\ PageSize \in Nat
      /\ \A k \in 1 .. Len(m) :
            /\ m[k].base \in Nat /\ m[k].length \in Nat /\ m[k].length > 0
            /\ End(m[k]) = m[k].base + m[k].length
  BY Fields, EndIs, PageSizeAssumption DEF WellFormed
<1>1. PICK p \in 1 .. Len(m) :
         m[p] = [base |-> addr, length |-> PageSize, type |-> Used]
  OBVIOUS
<1>2. m[p].base = addr /\ m[p].length = PageSize
  BY <1>1
<1>3. PICK n \in 1 .. Len(m) : /\ m[n].base = addr
                               /\ free(m, addr) = MergeAround(Retyped(m, n), n)
  BY <1>2, FreeIs
<1>4. n = p
  <2>1. ~ (n < p)
    <3>1. n < p => End(m[n]) <= m[p].base
      BY DEF WellFormed, Sorted
    <3>2. QED
      BY <1>0, <1>2, <1>3, <3>1
  <2>2. ~ (p < n)
    <3>1. p < n => End(m[p]) <= m[n].base
      BY DEF WellFormed, Sorted
    <3>2. QED
      BY <1>0, <1>2, <1>3, <3>1
  <2>3. QED
    BY <1>0, <2>1, <2>2
<1> DEFINE c == Retyped(m, n)
           d == free(m, addr)
<1>5. /\ WellFormed(c) /\ Len(c) = Len(m)
      /\ \A k \in 1 .. Len(m) : /\ k # n => c[k] = m[k]
                                /\ c[k].base = m[k].base
                                /\ c[k].length = m[k].length
  BY RetypeKeeps
<1>6. Shrinks(c, d)
  BY <1>3, <1>5, MergeAroundKeeps
<1> HIDE DEF c, d
<1>7. Inside(c, U)
  <2>1. ASSUME NEW k \in 1 .. Len(c), c[k].type = Usable, NEW x \in Nat,
               c[k].base <= x, x < c[k].base + c[k].length
        PROVE  x \in U
    <3>1. CASE k = n
      <4>1. c[k].base = addr /\ c[k].length = PageSize
        BY <1>2, <1>4, <1>5, <3>1
      <4>2. x \in addr .. addr + PageSize - 1
        BY <1>0, <2>1, <4>1
      <4>3. QED
        BY <4>2
    <3>2. CASE k # n
      <4>1. /\ k \in 1 .. Len(m) /\ m[k].type = Usable
            /\ m[k].base <= x /\ x < m[k].base + m[k].length
        BY <1>5, <2>1, <3>2
      <4>2. QED
        BY <4>1 DEF Inside
    <3>3. QED
      BY <3>1, <3>2
  <2>2. QED
    BY <2>1 DEF Inside
<1>8. Inside(d, U)
  BY <1>6, <1>7 DEF Shrinks
<1>9. ASSUME NEW l \in 1 .. Len(m), m[l].type # Usable, m[l].base # addr
      PROVE  \E k \in 1 .. Len(d) : d[k] = m[l]
  <2>1. l # n
    BY <1>3, <1>9
  <2>2. c[l] = m[l] /\ l \in 1 .. Len(c)
    BY <1>5, <2>1
  <2>3. c[l].type # Usable
    BY <1>9, <2>2
  <2>4. \E k \in 1 .. Len(d) : d[k] = c[l]
    BY <1>6, <2>2, <2>3, Zenon DEF Shrinks, KeepsTaken
  <2>5. QED
    BY <2>2, <2>4
<1>10. QED
  BY <1>8, <1>9 DEF d

(* The memory that the BIOS reported as usable.                            *)
UsableCells == Cells(InitialMap, {Usable})

(* The inductive invariant of the frames: what is free and what was handed *)
(* out lies in usable memory, and every frame is an entry of its own.      *)
FrameInv ==
    /\ Inside(map, UsableCells)
    /\ \A addr \in held :
          /\ addr \in Nat
          /\ \E k \in 1 .. Len(map) :
                map[k] = [base |-> addr, length |-> PageSize, type |-> Used]
          /\ addr .. addr + PageSize - 1 \subseteq UsableCells

(* Below 4 GiB the address that allocate() returns is the entry's base.    *)
LEMMA AddressIsBase ==
    ASSUME LowMemory, MapInv, Inside(map, UsableCells), CanAllocate(map)
    PROVE  /\ best(map) \in Fits(map)
           /\ allocate(map).addr = map[best(map)].base
           /\ allocate(map).addr # 0 /\ allocate(map).addr \in Nat
           /\ \A x \in map[best(map)].base ..
                       map[best(map)].base + map[best(map)].length - 1 : x \in UsableCells
<1>0. map \in Seq(Entries)
  BY DEF MapInv, WellFormed
<1>1. PICK b \in Fits(map) : b = best(map)
  BY <1>0, BestFits DEF CanAllocate
<1>2. /\ b \in 1 .. Len(map) /\ map[b].base \in Nat /\ map[b].length \in Nat
      /\ map[b].base # 0 /\ map[b].length >= PageSize /\ map[b].type = Usable
  BY <1>0, Fields DEF Fits
<1>3. \A x \in map[b].base .. map[b].base + map[b].length - 1 : x \in UsableCells
  BY <1>2 DEF Inside
<1>4. map[b].base \in UsableCells
  BY <1>2, <1>3, PageSizeAssumption
<1>5. PICK k \in DOMAIN InitialMap :
         /\ InitialMap[k].type = Usable
         /\ map[b].base \in InitialMap[k].base .. End(InitialMap[k]) - 1
  BY <1>4 DEF UsableCells, Cells
<1>6. InitialMap[k].base \in Nat /\ InitialMap[k].length \in Nat
  BY InitialMapAssumption, Fields DEF BiosMap
<1>7. End(InitialMap[k]) <= AddrLimit /\ End(InitialMap[k]) \in Nat
  BY <1>5, <1>6, EndIs DEF LowMemory
<1>8. map[b].base < AddrLimit
  BY <1>2, <1>5, <1>6, <1>7, AddrLimitAssumption
<1>9. map[b].base % AddrLimit = map[b].base
  BY <1>2, <1>8, AddrLimitAssumption
<1>10. allocate(map).addr = map[b].base
  BY <1>1, <1>9 DEF allocate
<1>11. QED
  BY <1>1, <1>2, <1>3, <1>10

LEMMA FramesAreKept ==
    ASSUME LowMemory
    PROVE  PhysSpec => []FrameInv
<1>1. PhysInit => FrameInv
  <2> SUFFICES ASSUME PhysInit PROVE FrameInv
    OBVIOUS
  <2>1. map = InitialMap /\ held = {}
    BY DEF PhysInit
  <2>2. ASSUME NEW k \in 1 .. Len(InitialMap), InitialMap[k].type = Usable, NEW x \in Nat,
               InitialMap[k].base <= x,
               x < InitialMap[k].base + InitialMap[k].length
        PROVE  x \in UsableCells
    <3>1. /\ k \in DOMAIN InitialMap
          /\ InitialMap[k].base \in Nat /\ InitialMap[k].length \in Nat
      BY InitialMapAssumption, Fields DEF BiosMap
    <3>2. x \in InitialMap[k].base .. End(InitialMap[k]) - 1
      BY <2>2, <3>1 DEF End
    <3>3. QED
      BY <2>2, <3>1, <3>2 DEF UsableCells, Cells
  <2>3. Inside(map, UsableCells)
    BY <2>1, <2>2 DEF Inside
  <2>4. QED
    BY <2>1, <2>3 DEF FrameInv
<1>2. MapInv /\ FrameInv /\ [PhysNext]_physVars => FrameInv'
  <2> SUFFICES ASSUME MapInv, FrameInv, [PhysNext]_physVars PROVE FrameInv'
    OBVIOUS
  <2>0. WellFormed(map) /\ UsableCells' = UsableCells
    BY DEF MapInv, UsableCells, Cells
  <2>1. CASE Allocate
    <3>1. CASE CanAllocate(map)
      <4>1. PICK b \in Fits(map) : b = best(map)
        BY <3>1, AddressIsBase DEF FrameInv
      <4>2. /\ allocate(map).addr = map[b].base /\ map[b].base # 0 /\ map[b].base \in Nat
            /\ \A x \in map[b].base .. map[b].base + map[b].length - 1 : x \in UsableCells
        BY <3>1, <4>1, AddressIsBase DEF FrameInv
      <4>3. map' = Carve(map, b) /\ held' = held \cup {map[b].base}
        BY <2>1, <3>1, <4>1, <4>2 DEF Allocate, allocate
      <4>4. /\ KeepsTaken(map, map')
            /\ Inside(map', UsableCells)
            /\ \E k \in 1 .. Len(map') : map'[k] = UsedPart(map[b])
        BY <2>0, <4>3, CarveKeepsTaken DEF FrameInv
      <4>5. ASSUME NEW addr \in held
            PROVE  /\ addr \in Nat
                   /\ \E k \in 1 .. Len(map') :
                         map'[k] = [base |-> addr, length |-> PageSize, type |-> Used]
                   /\ addr .. addr + PageSize - 1 \subseteq UsableCells
        <5>1. PICK l \in 1 .. Len(map) :
                 map[l] = [base |-> addr, length |-> PageSize, type |-> Used]
          BY DEF FrameInv
        <5>2. map[l].type # Usable
          BY <5>1 DEF Used, Usable
        <5>3. \E k \in 1 .. Len(map') : map'[k] = map[l]
          BY <4>4, <5>2, Zenon DEF KeepsTaken
        <5>4. QED
          BY <5>1, <5>3 DEF FrameInv
      <4>6. map[b].base .. map[b].base + PageSize - 1 \subseteq UsableCells
        <5>1. map[b].length \in Nat /\ map[b].length >= PageSize
          BY <2>0, Fields DEF Fits, WellFormed
        <5>2. QED
          BY <4>2, <5>1, PageSizeAssumption
      <4>7. QED
        BY <2>0, <4>2, <4>3, <4>4, <4>5, <4>6 DEF FrameInv, UsedPart, Inside
    <3>2. CASE ~ CanAllocate(map)
      <4>1. map' = map /\ held' = held
        BY <2>1, <3>2 DEF Allocate, allocate
      <4>2. QED
        BY <2>0, <4>1 DEF FrameInv, Inside
    <3>3. QED
      BY <3>1, <3>2
  <2>2. ASSUME NEW addr \in held, Free(addr) PROVE FrameInv'
    <3>1. map' = free(map, addr) /\ held' = held \ {addr}
      BY <2>2 DEF Free
    <3>2. /\ addr \in Nat
          /\ \E k \in 1 .. Len(map) :
                map[k] = [base |-> addr, length |-> PageSize, type |-> Used]
          /\ addr .. addr + PageSize - 1 \subseteq UsableCells
          /\ Inside(map, UsableCells)
      BY DEF FrameInv
    <3>3. /\ Inside(map', UsableCells)
          /\ \A l \in 1 .. Len(map) : map[l].type # Usable /\ map[l].base # addr =>
                \E k \in 1 .. Len(map') : map'[k] = map[l]
      BY <2>0, <3>1, <3>2, FreeKeepsTaken
    <3>4. ASSUME NEW a \in held'
          PROVE  /\ a \in Nat
                 /\ \E k \in 1 .. Len(map') :
                       map'[k] = [base |-> a, length |-> PageSize, type |-> Used]
                 /\ a .. a + PageSize - 1 \subseteq UsableCells
      <4>1. a \in held /\ a # addr
        BY <3>1
      <4>2. PICK l \in 1 .. Len(map) :
               map[l] = [base |-> a, length |-> PageSize, type |-> Used]
        BY <4>1 DEF FrameInv
      <4>3. map[l].type # Usable /\ map[l].base # addr
        BY <4>1, <4>2 DEF Used, Usable
      <4>4. \E k \in 1 .. Len(map') : map'[k] = map[l]
        BY <3>3, <4>3
      <4>5. QED
        BY <4>1, <4>2, <4>4 DEF FrameInv
    <3>5. QED
      BY <2>0, <3>3, <3>4 DEF FrameInv, Inside
  <2>3. CASE UNCHANGED physVars
    BY <2>0, <2>3 DEF physVars, FrameInv, Inside
  <2>4. QED
    BY <2>1, <2>2, <2>3 DEF PhysNext
<1>3. QED
  BY <1>1, <1>2, MapIsKept, PTL DEF PhysSpec

(***************************************************************************)
(* On a machine without usable memory above 4 GiB, a frame that allocate() *)
(* handed out is one entry of the map until it is given back, so no two    *)
(* callers share memory, and it lies in memory the BIOS called usable.     *)
(***************************************************************************)
THEOREM FramesAreExclusive ==
    ASSUME LowMemory
    PROVE  PhysSpec => []FramesExclusive
<1>1. MapInv /\ FrameInv => FramesExclusive
  <2> SUFFICES ASSUME MapInv, FrameInv PROVE FramesExclusive
    OBVIOUS
  <2>1. DOMAIN map = 1 .. Len(map)
    BY DEF MapInv, WellFormed
  <2>2. QED
    BY <2>1 DEF FrameInv, FramesExclusive, UsableCells
<1>2. QED
  BY <1>1, MapIsKept, FramesAreKept, PTL

(***************************************************************************)
(* On such a machine the callers may take 0 for failure: an allocate()     *)
(* that returns 0 has not changed the map.                                 *)
(***************************************************************************)
THEOREM ZeroIsFailure ==
    ASSUME LowMemory
    PROVE  PhysSpec => ZeroMeansFailed
<1>1. MapInv /\ FrameInv /\ [PhysNext]_physVars
         => [call'.op = "allocate" /\ call'.addr = 0 => map' = map]_physVars
  <2> SUFFICES ASSUME MapInv, FrameInv, PhysNext, call'.op = "allocate", call'.addr = 0
               PROVE  map' = map
    BY DEF physVars
  <2>1. CASE Allocate
    <3>1. allocate(map).addr = 0
      BY <2>1 DEF Allocate
    <3>2. ~ CanAllocate(map)
      BY <3>1, AddressIsBase DEF FrameInv
    <3>3. QED
      BY <2>1, <3>2 DEF Allocate, allocate
  <2>2. ASSUME NEW addr \in held, Free(addr) PROVE FALSE
    BY <2>2 DEF Free
  <2>3. QED
    BY <2>1, <2>2 DEF PhysNext
<1>2. QED
  BY <1>1, MapIsKept, FramesAreKept, PTL DEF PhysSpec, ZeroMeansFailed
-----------------------------------------------------------------------------
(***************************************************************************)
(* Nothing is lost: every free entry of m lies in one of c, and c has no   *)
(* taken entry that m has not.                                             *)
(***************************************************************************)
Covers(m, c) ==
    \A k \in 1 .. Len(m) : m[k].type = Usable =>
        \E l \in 1 .. Len(c) : /\ c[l].type = Usable
                               /\ c[l].base <= m[k].base
                               /\ m[k].base + m[k].length <= c[l].base + c[l].length

Reshaped(m, c) == KeepsTaken(c, m) /\ Covers(m, c)

LEMMA ReshapedSelf ==
    ASSUME NEW m \in Seq(Entries)
    PROVE  Reshaped(m, m)
<1>1. Covers(m, m)
  <2> SUFFICES ASSUME NEW k \in 1 .. Len(m), m[k].type = Usable
               PROVE  \E l \in 1 .. Len(m) : /\ m[l].type = Usable
                                             /\ m[l].base <= m[k].base
                                             /\ m[k].base + m[k].length <= m[l].base + m[l].length
    BY DEF Covers
  <2>1. m[k].base <= m[k].base /\ m[k].base + m[k].length <= m[k].base + m[k].length
    BY Fields
  <2>2. QED
    BY <2>1
<1>2. QED
  BY <1>1 DEF Reshaped, KeepsTaken

LEMMA ReshapedTwice ==
    ASSUME NEW a \in Seq(Entries), NEW b \in Seq(Entries), NEW c \in Seq(Entries),
           Reshaped(a, b), Reshaped(b, c)
    PROVE  Reshaped(a, c)
<1>1. KeepsTaken(c, a)
  BY KeepsTakenTwice DEF Reshaped
<1>2. ASSUME NEW k \in 1 .. Len(a), a[k].type = Usable
      PROVE  \E l \in 1 .. Len(c) : /\ c[l].type = Usable
                                    /\ c[l].base <= a[k].base
                                    /\ a[k].base + a[k].length <= c[l].base + c[l].length
  <2>1. PICK j \in 1 .. Len(b) : /\ b[j].type = Usable
                                 /\ b[j].base <= a[k].base
                                 /\ a[k].base + a[k].length <= b[j].base + b[j].length
    BY <1>2 DEF Reshaped, Covers
  <2>2. PICK l \in 1 .. Len(c) : /\ c[l].type = Usable
                                 /\ c[l].base <= b[j].base
                                 /\ b[j].base + b[j].length <= c[l].base + c[l].length
    BY <2>1 DEF Reshaped, Covers
  <2>3. /\ a[k].base \in Nat /\ a[k].length \in Nat /\ b[j].base \in Nat /\ b[j].length \in Nat
        /\ c[l].base \in Nat /\ c[l].length \in Nat
    BY Fields
  <2>4. c[l].base <= a[k].base /\ a[k].base + a[k].length <= c[l].base + c[l].length
    <3> DEFINE ab == a[k].base
               al == a[k].length
               bb == b[j].base
               bl == b[j].length
               cb == c[l].base
               cl == c[l].length
    <3>1. /\ ab \in Nat /\ al \in Nat /\ bb \in Nat /\ bl \in Nat /\ cb \in Nat /\ cl \in Nat
          /\ bb <= ab /\ ab + al <= bb + bl /\ cb <= bb /\ bb + bl <= cb + cl
      BY <2>1, <2>2, <2>3, Zenon
    <3> HIDE DEF ab, al, bb, bl, cb, cl
    <3>2. cb <= ab /\ ab + al <= cb + cl
      BY <3>1
    <3>3. QED
      BY <3>2, Zenon DEF ab, al, cb, cl
  <2>5. QED
    BY <2>2, <2>4
<1>3. QED
  BY <1>1, <1>2 DEF Reshaped, Covers

LEMMA MergeReshapes ==
    ASSUME NEW m, WellFormed(m), NEW n \in 1 .. Len(m) - 1, Mergeable(m, n)
    PROVE  Reshaped(m, Merge(m, n))
<1> DEFINE c == Merge(m, n)
<1>0. m \in Seq(Entries) /\ Len(m) \in Nat /\ n \in Nat
  BY DEF WellFormed
<1>1. \A k \in 1 .. Len(m) : m[k].base \in Nat /\ m[k].length \in Nat
  BY <1>0, Fields
<1>2. /\ n \in 1 .. Len(m) /\ n + 1 \in 1 .. Len(m)
      /\ m[n].type = Usable /\ m[n + 1].type = Usable
      /\ m[n].base + m[n].length = m[n + 1].base
  BY <1>0, <1>1 DEF Mergeable, End
<1>3. /\ c \in Seq(Entries) /\ Len(c) = Len(m) - 1
      /\ \A k \in 1 .. Len(m) - 1 :
            c[k] = IF k < n THEN m[k]
                   ELSE IF k = n THEN Joined(m[n], m[n + 1]) ELSE m[k + 1]
  BY <1>0, MergeIs
<1> HIDE DEF c
<1>4. /\ n \in 1 .. Len(m) - 1 /\ n \in 1 .. Len(c)
      /\ c[n].base = m[n].base /\ c[n].length = m[n].length + m[n + 1].length
      /\ c[n].type = Usable
  <2>1. ~ (n < n)
    BY <1>0
  <2>2. c[n] = Joined(m[n], m[n + 1])
    BY <1>3, <2>1
  <2>3. QED
    BY <1>2, <1>3, <2>2 DEF Joined
<1>5. ASSUME NEW l \in 1 .. Len(c), c[l].type # Usable
      PROVE  \E k \in 1 .. Len(m) : m[k] = c[l]
  <2>1. l # n
    BY <1>4, <1>5
  <2>2. CASE l < n
    <3>1. l \in 1 .. Len(m) - 1 /\ l \in 1 .. Len(m)
      BY <1>0, <1>3
    <3>2. QED
      BY <1>3, <2>2, <3>1
  <2>3. CASE l > n
    <3>1. l \in 1 .. Len(m) - 1 /\ l + 1 \in 1 .. Len(m) /\ ~ (l < n)
      BY <1>0, <1>3, <2>3
    <3>2. QED
      BY <1>3, <2>1, <3>1
  <2>4. QED
    BY <1>0, <2>1, <2>2, <2>3
<1>6. ASSUME NEW k \in 1 .. Len(m), m[k].type = Usable
      PROVE  \E l \in 1 .. Len(c) : /\ c[l].type = Usable
                                    /\ c[l].base <= m[k].base
                                    /\ m[k].base + m[k].length <= c[l].base + c[l].length
  <2>0. /\ m[k].base \in Nat /\ m[k].length \in Nat
        /\ m[k].base <= m[k].base /\ m[k].base + m[k].length <= m[k].base + m[k].length
    BY <1>1
  <2>1. CASE k < n
    <3>1. k \in 1 .. Len(m) - 1 /\ k \in 1 .. Len(c)
      BY <1>0, <1>3, <1>4, <2>1
    <3>2. c[k] = m[k]
      BY <1>3, <2>1, <3>1
    <3>3. QED
      BY <1>6, <2>0, <3>1, <3>2
  <2>2. CASE k = n \/ k = n + 1
    <3>1. /\ m[n].base \in Nat /\ m[n].length \in Nat
          /\ m[n + 1].base \in Nat /\ m[n + 1].length \in Nat
      BY <1>1, <1>2
    <3>2. c[n].base <= m[n].base /\ m[n].base + m[n].length <= c[n].base + c[n].length
      BY <1>4, <3>1
    <3>3. c[n].base <= m[n + 1].base /\ m[n + 1].base + m[n + 1].length <= c[n].base + c[n].length
      <4>1. ASSUME NEW b \in Nat, NEW s \in Nat, NEW d \in Nat, NEW t \in Nat, b + s = d
            PROVE  b <= d /\ d + t <= b + (s + t)
        BY <4>1
      <4>2. m[n].base + m[n].length = m[n + 1].base
        BY <1>2
      <4>3. /\ m[n].base <= m[n + 1].base
            /\ m[n + 1].base + m[n + 1].length <= m[n].base + (m[n].length + m[n + 1].length)
        BY <3>1, <4>1, <4>2, Zenon
      <4>4. QED
        BY <1>4, <4>3, Zenon
    <3>4. QED
      BY <1>4, <2>2, <3>2, <3>3
  <2>3. CASE k > n + 1
    <3>1. PICK l \in 1 .. Len(m) - 1 : l = k - 1
      BY <1>0, <2>3
    <3>2. l \in 1 .. Len(c) /\ ~ (l < n) /\ l # n /\ l + 1 = k
      BY <1>0, <1>3, <2>3, <3>1
    <3>3. c[l] = m[k]
      BY <1>3, <3>2
    <3>4. QED
      BY <1>6, <2>0, <3>2, <3>3
  <2>4. QED
    BY <1>0, <2>1, <2>2, <2>3
<1>7. Reshaped(m, c)
  BY <1>5, <1>6 DEF Reshaped, KeepsTaken, Covers
<1>8. QED
  BY <1>7 DEF c

LEMMA MergeNextReshapes ==
    ASSUME NEW m, WellFormed(m), NEW n \in 1 .. Len(m)
    PROVE  Reshaped(m, MergeNext(m, n))
<1>0. m \in Seq(Entries) /\ Len(m) \in Nat
  BY DEF WellFormed
<1>1. CASE n < Len(m) /\ Mergeable(m, n)
  <2>1. n \in 1 .. Len(m) - 1
    BY <1>0, <1>1
  <2>2. QED
    BY <1>1, <2>1, MergeReshapes DEF MergeNext
<1>2. CASE ~ (n < Len(m) /\ Mergeable(m, n))
  BY <1>0, <1>2, ReshapedSelf DEF MergeNext
<1>3. QED
  BY <1>1, <1>2

LEMMA MergeAroundReshapes ==
    ASSUME NEW m, WellFormed(m), NEW n \in 1 .. Len(m)
    PROVE  Reshaped(m, MergeAround(m, n))
<1>0. m \in Seq(Entries) /\ Len(m) \in Nat
  BY DEF WellFormed
<1>1. CASE n > 1 /\ Mergeable(m, n - 1)
  <2> DEFINE c == Merge(m, n - 1)
  <2>1. MergeAround(m, n) = MergeNext(c, n - 1)
    BY <1>1 DEF MergeAround
  <2>2. PICK p \in 1 .. Len(m) - 1 : p = n - 1
    BY <1>0, <1>1
  <2>3. WellFormed(c) /\ Len(c) = Len(m) - 1 /\ Reshaped(m, c)
    BY <1>1, <2>2, MergeKeeps, MergeReshapes
  <2> HIDE DEF c
  <2>4. p \in 1 .. Len(c)
    BY <1>0, <2>3
  <2>5. Reshaped(c, MergeNext(c, p)) /\ WellFormed(MergeNext(c, p))
    BY <2>3, <2>4, MergeNextReshapes, MergeNextKeeps DEF Shrinks
  <2>6. c \in Seq(Entries) /\ MergeNext(c, p) \in Seq(Entries)
    BY <2>3, <2>5 DEF WellFormed
  <2>7. QED
    BY <1>0, <2>1, <2>2, <2>3, <2>5, <2>6, ReshapedTwice
<1>2. CASE ~ (n > 1 /\ Mergeable(m, n - 1))
  BY <1>2, MergeNextReshapes DEF MergeAround
<1>3. QED
  BY <1>1, <1>2

(***************************************************************************)
(* The free addresses of a map.                                            *)
(***************************************************************************)
Avail(m) == Cells(m, {Usable})

LEMMA AvailIs ==
    ASSUME NEW m \in Seq(Entries), NEW x
    PROVE  x \in Avail(m) <=>
              x \in Nat /\ \E k \in 1 .. Len(m) :
                 m[k].type = Usable /\ m[k].base <= x /\ x < m[k].base + m[k].length
<1>1. DOMAIN m = 1 .. Len(m)
  BY Fields
<1>2. x \in Avail(m) <=>
         \E k \in 1 .. Len(m) : m[k].type = Usable /\ x \in m[k].base .. End(m[k]) - 1
  BY <1>1 DEF Avail, Cells
<1>3. ASSUME NEW k \in 1 .. Len(m)
      PROVE  x \in m[k].base .. End(m[k]) - 1
                <=> x \in Nat /\ m[k].base <= x /\ x < m[k].base + m[k].length
  <2>1. m[k].base \in Nat /\ m[k].length \in Nat
    BY Fields
  <2>2. End(m[k]) = m[k].base + m[k].length
    BY <2>1, EndIs
  <2>3. QED
    BY <2>1, <2>2
<1>4. QED
  BY <1>2, <1>3

LEMMA InsideAvail ==
    ASSUME NEW m \in Seq(Entries)
    PROVE  /\ Inside(m, Avail(m))
           /\ \A U : Inside(m, U) => Avail(m) \subseteq U
<1>1. Inside(m, Avail(m))
  BY AvailIs DEF Inside
<1>2. ASSUME NEW U, Inside(m, U), NEW x \in Avail(m) PROVE x \in U
  BY <1>2, AvailIs DEF Inside
<1>3. QED
  BY <1>1, <1>2

LEMMA CoversAvail ==
    ASSUME NEW m \in Seq(Entries), NEW c \in Seq(Entries), Covers(m, c)
    PROVE  Avail(m) \subseteq Avail(c)
<1> SUFFICES ASSUME NEW x \in Avail(m) PROVE x \in Avail(c)
  OBVIOUS
<1>1. PICK k \in 1 .. Len(m) :
         m[k].type = Usable /\ m[k].base <= x /\ x < m[k].base + m[k].length
  BY AvailIs
<1>2. PICK l \in 1 .. Len(c) : /\ c[l].type = Usable
                               /\ c[l].base <= m[k].base
                               /\ m[k].base + m[k].length <= c[l].base + c[l].length
  BY <1>1 DEF Covers
<1>3. /\ x \in Nat /\ m[k].base \in Nat /\ m[k].length \in Nat
      /\ c[l].base \in Nat /\ c[l].length \in Nat
  BY AvailIs, Fields
<1>4. c[l].base <= x /\ x < c[l].base + c[l].length
  <2> DEFINE mb == m[k].base
             ml == m[k].length
             cb == c[l].base
             cl == c[l].length
  <2>1. /\ mb \in Nat /\ ml \in Nat /\ cb \in Nat /\ cl \in Nat /\ x \in Nat
        /\ mb <= x /\ x < mb + ml /\ cb <= mb /\ mb + ml <= cb + cl
    BY <1>1, <1>2, <1>3, Zenon
  <2> HIDE DEF mb, ml, cb, cl
  <2>2. cb <= x /\ x < cb + cl
    BY <2>1
  <2>3. QED
    BY <2>2, Zenon DEF cb, cl
<1>5. QED
  BY <1>2, <1>3, <1>4, AvailIs

(* Two entries that share an address are one.                              *)
LEMMA EntriesApart ==
    ASSUME NEW m, WellFormed(m), NEW k \in 1 .. Len(m), NEW l \in 1 .. Len(m), NEW x \in Nat,
           m[k].base <= x, x < m[k].base + m[k].length,
           m[l].base <= x, x < m[l].base + m[l].length
    PROVE  k = l
<1>1. /\ m[k].base \in Nat /\ m[k].length \in Nat /\ m[l].base \in Nat /\ m[l].length \in Nat
  BY Fields DEF WellFormed
<1>2. (k < l => m[k].base + m[k].length <= m[l].base) /\ (l < k => m[l].base + m[l].length <= m[k].base)
  BY DEF WellFormed, Sorted, End
<1>3. ~ (k < l) /\ ~ (l < k)
  BY <1>1, <1>2
<1>4. QED
  BY <1>3

(* A split takes the page out of the free memory and nothing else.         *)
LEMMA CarveAvail ==
    ASSUME NEW m, WellFormed(m), NEW b \in Fits(m)
    PROVE  /\ Avail(Carve(m, b)) = Avail(m) \ (m[b].base .. m[b].base + PageSize - 1)
           /\ m[b].base .. m[b].base + PageSize - 1 \subseteq Avail(m)
           /\ m[b].base \in Avail(m)
<1> DEFINE c == Carve(m, b)
           P == m[b].base .. m[b].base + PageSize - 1
<1>0. m \in Seq(Entries) /\ PageSize \in Nat /\ PageSize > 0 /\ Len(m) \in Nat
  BY PageSizeAssumption DEF WellFormed
<1>1. /\ b \in 1 .. Len(m) /\ m[b].length >= PageSize /\ m[b].type = Usable
      /\ m[b].base \in Nat /\ m[b].length \in Nat
  BY <1>0, Fields DEF Fits
<1>2. WellFormed(c)
  BY CarveKeeps
<1>3. /\ KeepsTaken(m, c) /\ Inside(c, Avail(m))
      /\ \E k \in 1 .. Len(c) : c[k] = UsedPart(m[b])
  BY <1>0, CarveKeepsTaken, InsideAvail
<1>4. c \in Seq(Entries)
  BY <1>2 DEF WellFormed
<1>5. \A x \in P : x \in Nat /\ m[b].base <= x /\ x < m[b].base + PageSize
                   /\ x < m[b].base + m[b].length
  BY <1>0, <1>1
<1>6. P \subseteq Avail(m) /\ m[b].base \in P
  <2>1. \A x \in P : x \in Avail(m)
    BY <1>0, <1>1, <1>5, AvailIs
  <2>2. QED
    BY <1>0, <1>1, <2>1
<1>7. ASSUME NEW x \in Avail(c) PROVE x \in Avail(m) /\ x \notin P
  <2>1. x \in Avail(m)
    BY <1>3, <1>4, InsideAvail
  <2>2. PICK k \in 1 .. Len(c) :
           c[k].type = Usable /\ c[k].base <= x /\ x < c[k].base + c[k].length
    BY <1>4, AvailIs
  <2>3. PICK u \in 1 .. Len(c) : c[u] = UsedPart(m[b])
    BY <1>3
  <2>4. c[u].type # Usable /\ c[u].base = m[b].base /\ c[u].length = PageSize
    BY <2>3 DEF UsedPart, Used, Usable
  <2>5. x \in P => k = u
    <3> SUFFICES ASSUME x \in P PROVE k = u
      OBVIOUS
    <3>1. x \in Nat /\ c[u].base <= x /\ x < c[u].base + c[u].length
      BY <1>5, <2>4
    <3>2. QED
      BY <1>2, <2>2, <3>1, EntriesApart
  <2>6. QED
    BY <2>1, <2>2, <2>4, <2>5
<1>8. ASSUME NEW x \in Avail(m), x \notin P PROVE x \in Avail(c)
  <2>1. PICK l \in 1 .. Len(m) :
           m[l].type = Usable /\ m[l].base <= x /\ x < m[l].base + m[l].length
    BY <1>0, AvailIs
  <2>2. x \in Nat
    BY <1>0, AvailIs
  <2>3. \E k \in 1 .. Len(c) : c[k].type = Usable /\ c[k].base <= x /\ x < c[k].base + c[k].length
    <3>1. CASE l = b
      <4>1. x >= m[b].base + PageSize /\ m[b].length > PageSize
        BY <1>0, <1>1, <1>8, <2>1, <2>2, <3>1
      <4>2. /\ Len(c) = Len(m) + 1
            /\ \A k \in 1 .. Len(m) + 1 :
                  c[k] = IF k < b THEN m[k] ELSE IF k = b THEN UsedPart(m[b])
                         ELSE IF k = b + 1 THEN RestPart(m[b]) ELSE m[k - 1]
        BY <1>0, <1>1, <4>1, CarveIs
      <4>3. b + 1 \in 1 .. Len(m) + 1 /\ ~ (b + 1 < b) /\ b + 1 # b
        BY <1>0, <1>1
      <4>4. c[b + 1] = RestPart(m[b]) /\ b + 1 \in 1 .. Len(c)
        BY <4>2, <4>3
      <4>5. /\ c[b + 1].type = Usable /\ c[b + 1].base = m[b].base + PageSize
            /\ c[b + 1].length = m[b].length - PageSize
        BY <4>4 DEF RestPart
      <4>6. c[b + 1].base <= x /\ x < c[b + 1].base + c[b + 1].length
        BY <1>0, <1>1, <2>1, <2>2, <3>1, <4>1, <4>5
      <4>7. QED
        BY <4>4, <4>5, <4>6
    <3>2. CASE l # b
      <4>1. \E k \in 1 .. Len(c) : c[k] = m[l]
        BY <1>0, <1>1, <3>2, CarveOthers
      <4>2. QED
        BY <2>1, <4>1
    <3>3. QED
      BY <3>1, <3>2
  <2>4. QED
    BY <1>4, <2>2, <2>3, AvailIs
<1>9. Avail(c) = Avail(m) \ P
  BY <1>7, <1>8
<1>10. QED
  BY <1>6, <1>9

(* free() of a held frame makes the frame free and nothing else.           *)
LEMMA FreeAvail ==
    ASSUME NEW m, WellFormed(m), NEW addr \in Nat,
           \E k \in 1 .. Len(m) : m[k] = [base |-> addr, length |-> PageSize, type |-> Used]
    PROVE  /\ Avail(free(m, addr)) = Avail(m) \cup (addr .. addr + PageSize - 1)
           /\ \A l \in 1 .. Len(free(m, addr)) :
                 free(m, addr)[l].type # Usable =>
                    \E k \in 1 .. Len(m) : m[k] = free(m, addr)[l] /\ m[k].base # addr
<1> DEFINE d == free(m, addr)
           P == addr .. addr + PageSize - 1
<1>0. /\ m \in Seq(Entries) /\ Len(m) \in Nat /\ PageSize \in Nat /\ PageSize > 0
      /\ WellFormed(d)
  BY FreeKeeps, PageSizeAssumption DEF WellFormed
<1>1. d \in Seq(Entries)
  BY <1>0 DEF WellFormed
<1>2. Avail(d) \subseteq Avail(m) \cup P
  <2>1. Inside(m, Avail(m) \cup P)
    BY <1>0, InsideAvail DEF Inside
  <2>2. P \subseteq Avail(m) \cup P
    OBVIOUS
  <2>3. Inside(d, Avail(m) \cup P)
    BY <2>1, <2>2, FreeKeepsTaken
  <2>4. QED
    BY <1>1, <2>3, InsideAvail
<1>3. PICK p \in 1 .. Len(m) : m[p] = [base |-> addr, length |-> PageSize, type |-> Used]
  OBVIOUS
<1>4. m[p].base = addr /\ m[p].length = PageSize
  BY <1>3
<1>5. PICK n \in 1 .. Len(m) : /\ m[n].base = addr
                               /\ free(m, addr) = MergeAround(Retyped(m, n), n)
  BY <1>4, FreeIs
<1>6. n = p
  <2>1. m[n].base <= addr /\ m[p].base <= addr /\ addr < m[p].base + m[p].length
    BY <1>0, <1>4, <1>5
  <2>2. m[n].length > 0 /\ m[n].length \in Nat
    BY <1>0, Fields DEF WellFormed
  <2>3. addr < m[n].base + m[n].length
    BY <1>5, <2>2
  <2>4. QED
    BY <2>1, <2>3, EntriesApart
<1> DEFINE c == Retyped(m, n)
<1>7. /\ WellFormed(c) /\ Len(c) = Len(m)
      /\ \A k \in 1 .. Len(m) : /\ k # n => c[k] = m[k]
                                /\ c[k].base = m[k].base
                                /\ c[k].length = m[k].length
  BY RetypeKeeps
<1>8. c[n].type = Usable
  <2>1. m[n] \in Entries
    BY <1>0, Fields
  <2>2. [m[n] EXCEPT !.type = Usable].type = Usable
    BY <2>1 DEF Entries
  <2>3. c[n] = [m[n] EXCEPT !.type = Usable]
    BY <1>0 DEF Retyped
  <2>4. QED
    BY <2>2, <2>3
<1>9. Reshaped(c, d)
  BY <1>5, <1>7, MergeAroundReshapes
<1>10. c \in Seq(Entries)
  BY <1>7 DEF WellFormed
<1> HIDE DEF c, d
<1>11. Avail(c) \subseteq Avail(d)
  BY <1>1, <1>9, <1>10, CoversAvail DEF Reshaped
<1>12. ASSUME NEW x \in Avail(m) PROVE x \in Avail(c)
  <2>1. PICK k \in 1 .. Len(m) :
           m[k].type = Usable /\ m[k].base <= x /\ x < m[k].base + m[k].length
    BY <1>0, AvailIs
  <2>2. c[k].type = Usable
    BY <1>7, <1>8, <2>1
  <2>3. c[k].base <= x /\ x < c[k].base + c[k].length /\ k \in 1 .. Len(c)
    BY <1>7, <2>1
  <2>4. x \in Nat
    BY <1>0, AvailIs
  <2>5. QED
    BY <1>10, <2>2, <2>3, <2>4, AvailIs
<1>13. ASSUME NEW x \in P PROVE x \in Avail(c)
  <2>1. x \in Nat /\ addr <= x /\ x < addr + PageSize
    BY <1>0
  <2>2. c[n].base = addr /\ c[n].length = PageSize /\ n \in 1 .. Len(c)
    BY <1>4, <1>6, <1>7
  <2>3. QED
    BY <1>8, <1>10, <2>1, <2>2, AvailIs
<1>14. ASSUME NEW l \in 1 .. Len(d), d[l].type # Usable
       PROVE  \E k \in 1 .. Len(m) : m[k] = d[l] /\ m[k].base # addr
  <2>1. PICK k \in 1 .. Len(c) : c[k] = d[l]
    BY <1>9, <1>14, Zenon DEF Reshaped, KeepsTaken
  <2>2. k # n
    BY <1>8, <1>14, <2>1
  <2>3. k \in 1 .. Len(m) /\ m[k] = d[l]
    BY <1>7, <2>1, <2>2
  <2>4. m[k].base # addr
    <3>1. /\ m[k].base \in Nat /\ m[k].length \in Nat /\ m[k].length > 0
          /\ m[n].base \in Nat /\ m[n].length \in Nat /\ m[n].length > 0
      BY <1>0, <2>3, Fields DEF WellFormed
    <3>2. m[k].base = addr => k = n
      <4>1. m[k].base = addr => /\ m[k].base <= addr /\ addr < m[k].base + m[k].length
        BY <3>1
      <4>2. m[n].base <= addr /\ addr < m[n].base + m[n].length
        BY <1>5, <3>1
      <4>3. QED
        BY <2>3, <4>1, <4>2, EntriesApart
    <3>3. QED
      BY <2>2, <3>2
  <2>5. QED
    BY <2>3, <2>4
<1>15. Avail(d) = Avail(m) \cup P
  BY <1>2, <1>11, <1>12, <1>13
<1>16. QED
  BY <1>14, <1>15 DEF d

(***************************************************************************)
(* On such a machine allocate() and free() implement the pool of frames:   *)
(* a call takes one whole frame out of the free memory, or gives one back, *)
(* or does nothing at all.                                                 *)
(***************************************************************************)
THEOREM MapImplementsPool ==
    ASSUME LowMemory
    PROVE  PhysSpec => ImplementsPool
<1>1. PhysInit => Frames!Init
  BY DEF PhysInit, Frames!Init
<1>2. MapInv /\ FrameInv /\ [PhysNext]_physVars => [Frames!Next]_<<Avail(map), held>>
  <2> SUFFICES ASSUME MapInv, FrameInv, [PhysNext]_physVars
               PROVE  \/ \E a \in Avail(map) : /\ a # 0 /\ a .. a + PageSize - 1 \subseteq Avail(map)
                                               /\ Avail(map)' = Avail(map) \ (a .. a + PageSize - 1)
                                               /\ held' = held \cup {a}
                      \/ \E a \in held : /\ Avail(map)' = Avail(map) \cup (a .. a + PageSize - 1)
                                         /\ held' = held \ {a}
                      \/ Avail(map)' = Avail(map) /\ held' = held
    BY DEF Frames!Next, Frames!Take, Frames!Give, Frames!Piece, Avail
  <2>0. WellFormed(map) /\ Inside(map, UsableCells) /\ Avail(map)' = Avail(map')
    BY DEF MapInv, FrameInv, Avail, Cells, End
  <2>1. CASE Allocate
    <3>1. CASE CanAllocate(map)
      <4>1. PICK b \in Fits(map) : b = best(map)
        BY <2>0, <3>1, AddressIsBase
      <4>2. allocate(map).addr = map[b].base /\ map[b].base # 0
        BY <2>0, <3>1, <4>1, AddressIsBase
      <4>3. map' = Carve(map, b) /\ held' = held \cup {map[b].base}
        BY <2>1, <3>1, <4>1, <4>2 DEF Allocate, allocate
      <4>4. /\ Avail(map') = Avail(map) \ (map[b].base .. map[b].base + PageSize - 1)
            /\ map[b].base .. map[b].base + PageSize - 1 \subseteq Avail(map)
            /\ map[b].base \in Avail(map)
        BY <2>0, <4>3, CarveAvail
      <4>5. QED
        BY <2>0, <4>2, <4>3, <4>4
    <3>2. CASE ~ CanAllocate(map)
      <4>1. map' = map /\ held' = held
        BY <2>1, <3>2 DEF Allocate, allocate
      <4>2. QED
        BY <2>0, <4>1
    <3>3. QED
      BY <3>1, <3>2
  <2>2. ASSUME NEW addr \in held, Free(addr)
        PROVE  /\ Avail(map)' = Avail(map) \cup (addr .. addr + PageSize - 1)
               /\ held' = held \ {addr}
    <3>1. map' = free(map, addr) /\ held' = held \ {addr}
      BY <2>2 DEF Free
    <3>2. /\ addr \in Nat
          /\ \E k \in 1 .. Len(map) :
                map[k] = [base |-> addr, length |-> PageSize, type |-> Used]
      BY DEF FrameInv
    <3>3. Avail(map') = Avail(map) \cup (addr .. addr + PageSize - 1)
      BY <2>0, <3>1, <3>2, FreeAvail
    <3>4. QED
      BY <2>0, <3>1, <3>3
  <2>3. CASE UNCHANGED physVars
    BY <2>0, <2>3 DEF physVars
  <2>4. QED
    BY <2>1, <2>2, <2>3, Zenon DEF PhysNext
<1>3. QED
  BY <1>1, <1>2, MapIsKept, FramesAreKept, PTL DEF PhysSpec, ImplementsPool, Frames!Spec, Avail
-----------------------------------------------------------------------------
(***************************************************************************)
(* A merged map is determined by its taken entries and its free addresses. *)
(***************************************************************************)
SameMemory(m, c) ==
    /\ WellFormed(m) /\ Merged(m) /\ WellFormed(c) /\ Merged(c)
    /\ KeepsTaken(m, c) /\ KeepsTaken(c, m) /\ Avail(m) = Avail(c)

LEMMA SameMemorySymmetric ==
    ASSUME NEW m, NEW c, SameMemory(m, c)
    PROVE  SameMemory(c, m)
BY Zenon DEF SameMemory

LEMMA MapFacts ==
    ASSUME NEW m, WellFormed(m)
    PROVE  /\ m \in Seq(Entries) /\ Len(m) \in Nat
           /\ \A k \in 1 .. Len(m) : /\ m[k] \in Entries /\ m[k].base \in Nat
                                     /\ m[k].length \in Nat /\ m[k].length > 0
           /\ \A k, l \in 1 .. Len(m) : k < l => m[k].base + m[k].length <= m[l].base
BY Fields DEF WellFormed, Sorted, End

LEMMA LeqTransitive ==
    ASSUME NEW x \in Nat, NEW y \in Nat, NEW z \in Nat, x <= y, y <= z
    PROVE  x <= z
OBVIOUS

(* Where the first k - 1 entries agree, the other map has an entry k that  *)
(* starts no later.                                                        *)
LEMMA NextStarts ==
    ASSUME NEW m, NEW c, SameMemory(m, c), NEW k \in 1 .. Len(m),
           \A j \in 1 .. k - 1 : j <= Len(c) /\ c[j] = m[j]
    PROVE  k \in 1 .. Len(c) /\ c[k].base <= m[k].base
<1>1. /\ WellFormed(m) /\ WellFormed(c)
  BY DEF SameMemory
<1>2. /\ Len(m) \in Nat /\ m[k].base \in Nat /\ m[k].length \in Nat /\ m[k].length > 0
      /\ m \in Seq(Entries) /\ c \in Seq(Entries) /\ Len(c) \in Nat
  BY <1>1, MapFacts
<1>3. PICK j \in 1 .. Len(c) : c[j].base <= m[k].base /\ m[k].base < c[j].base + c[j].length
  <2>1. CASE m[k].type # Usable
    <3>1. PICK j \in 1 .. Len(c) : c[j] = m[k]
      BY <2>1, Zenon DEF SameMemory, KeepsTaken
    <3>2. c[j].base <= m[k].base /\ m[k].base < c[j].base + c[j].length
      BY <1>2, <3>1
    <3>3. QED
      BY <3>2
  <2>2. CASE m[k].type = Usable
    <3>1. m[k].base <= m[k].base /\ m[k].base < m[k].base + m[k].length
      BY <1>2
    <3>2. m[k].base \in Avail(m)
      BY <1>2, <2>2, <3>1, AvailIs
    <3>3. m[k].base \in Avail(c)
      BY <3>2 DEF SameMemory
    <3>4. QED
      BY <1>2, <3>3, AvailIs
  <2>3. QED
    BY <2>1, <2>2
<1>4. c[j].base \in Nat /\ c[j].length \in Nat
  BY <1>1, MapFacts
<1>5. ~ (j < k)
  <2> SUFFICES ASSUME j < k PROVE FALSE
    OBVIOUS
  <2>1. j \in 1 .. k - 1 /\ j \in 1 .. Len(m)
    BY <1>2
  <2>2. c[j] = m[j]
    BY <2>1
  <2>3. m[j].base + m[j].length <= m[k].base
    BY <1>1, <2>1, MapFacts
  <2>4. QED
    BY <1>2, <1>3, <1>4, <2>2, <2>3
<1>6. k \in 1 .. Len(c)
  BY <1>2, <1>5
<1>7. c[k].base <= m[k].base
  <2>1. CASE k = j
    BY <1>3, <2>1
  <2>2. CASE k < j
    <3>1. c[k].base + c[k].length <= c[j].base /\ c[k].base \in Nat /\ c[k].length \in Nat
      BY <1>1, <1>6, <2>2, MapFacts
    <3>2. c[k].base <= c[j].base
      BY <1>4, <3>1
    <3>3. QED
      BY <1>2, <1>3, <1>4, <3>1, <3>2, LeqTransitive
  <2>3. QED
    BY <1>2, <1>5, <2>1, <2>2
<1>8. QED
  BY <1>6, <1>7

(* A free entry does not end inside a free entry of the other map: what    *)
(* follows would have been merged.                                         *)
LEMMA FreeNotShorter ==
    ASSUME NEW m, NEW c, SameMemory(m, c), NEW k \in 1 .. Len(m), k \in 1 .. Len(c),
           m[k].type = Usable, c[k].type = Usable, m[k].base = c[k].base
    PROVE  ~ (m[k].length < c[k].length)
<1> SUFFICES ASSUME m[k].length < c[k].length PROVE FALSE
  OBVIOUS
<1>1. WellFormed(m) /\ WellFormed(c) /\ Merged(m) /\ Avail(m) = Avail(c)
  BY DEF SameMemory
<1>2. /\ Len(m) \in Nat /\ m[k].base \in Nat /\ m[k].length \in Nat /\ m[k].length > 0
      /\ c[k].base \in Nat /\ c[k].length \in Nat
      /\ m \in Seq(Entries) /\ c \in Seq(Entries)
  BY <1>1, MapFacts
<1> DEFINE e == m[k].base + m[k].length
<1>3. e \in Nat /\ c[k].base <= e /\ e < c[k].base + c[k].length
  BY <1>2
<1>4. e \in Avail(m)
  BY <1>1, <1>2, <1>3, AvailIs
<1>5. PICK j \in 1 .. Len(m) : m[j].type = Usable /\ m[j].base <= e /\ e < m[j].base + m[j].length
  BY <1>2, <1>4, AvailIs
<1>6. m[j].base \in Nat /\ m[j].length \in Nat
  BY <1>1, MapFacts
<1>7. j > k
  <2>1. j # k
    BY <1>5, <1>2
  <2>2. ~ (j < k)
    <3>1. j < k => m[j].base + m[j].length <= m[k].base
      BY <1>1, MapFacts
    <3>2. QED
      BY <1>2, <1>5, <1>6, <3>1
  <2>3. QED
    BY <2>1, <2>2
<1> HIDE DEF e
<1>8. k + 1 \in 1 .. Len(m) /\ k \in 1 .. Len(m) - 1 /\ k < k + 1
  BY <1>2, <1>7
<1>9. /\ e <= m[k + 1].base /\ m[k + 1].base \in Nat /\ m[k + 1].length \in Nat
      /\ m[k + 1].length > 0
  BY <1>1, <1>8, MapFacts DEF e
<1>10. j = k + 1
  <2> SUFFICES ASSUME j # k + 1 PROVE FALSE
    OBVIOUS
  <2>1. k + 1 < j
    BY <1>7
  <2>2. m[k + 1].base + m[k + 1].length <= m[j].base
    BY <1>1, <1>8, <2>1, MapFacts
  <2>3. QED
    BY <1>3, <1>5, <1>6, <1>9, <2>2
<1>11. m[k + 1].base = e /\ m[k + 1].type = Usable
  BY <1>3, <1>5, <1>9, <1>10
<1>12. Mergeable(m, k)
  BY <1>11 DEF Mergeable, End, e
<1>13. QED
  BY <1>1, <1>8, <1>12 DEF Merged

(* The next entry is the same.                                             *)
LEMMA NextAgrees ==
    ASSUME NEW m, NEW c, SameMemory(m, c), NEW k \in 1 .. Len(m),
           \A j \in 1 .. k - 1 : j <= Len(c) /\ j <= Len(m) /\ c[j] = m[j]
    PROVE  k \in 1 .. Len(c) /\ c[k] = m[k]
<1>0. SameMemory(c, m)
  BY SameMemorySymmetric
<1>1. k \in 1 .. Len(c) /\ c[k].base <= m[k].base
  BY NextStarts
<1>2. m[k].base <= c[k].base
  <2>1. \A j \in 1 .. k - 1 : j <= Len(m) /\ m[j] = c[j]
    OBVIOUS
  <2>2. QED
    BY <1>0, <1>1, <2>1, NextStarts
<1>3. WellFormed(m) /\ WellFormed(c)
  BY DEF SameMemory
<1>4. /\ m[k].base \in Nat /\ m[k].length \in Nat /\ m[k].length > 0 /\ m[k] \in Entries
      /\ c[k].base \in Nat /\ c[k].length \in Nat /\ c[k].length > 0 /\ c[k] \in Entries
  BY <1>1, <1>3, MapFacts
<1>5. /\ m[k].base = c[k].base
      /\ m[k].base <= m[k].base /\ m[k].base < m[k].base + m[k].length
      /\ c[k].base <= m[k].base /\ m[k].base < c[k].base + c[k].length
  BY <1>1, <1>2, <1>4
<1>6. CASE m[k].type # Usable
  <2>1. PICK j \in 1 .. Len(c) : c[j] = m[k]
    BY <1>6, Zenon DEF SameMemory, KeepsTaken
  <2>2. c[j].base <= m[k].base /\ m[k].base < c[j].base + c[j].length
    BY <1>5, <2>1
  <2>3. j = k
    BY <1>1, <1>3, <1>4, <1>5, <2>2, EntriesApart
  <2>4. QED
    BY <1>1, <2>1, <2>3
<1>7. CASE c[k].type # Usable
  <2>1. PICK j \in 1 .. Len(m) : m[j] = c[k]
    BY <1>1, <1>7, Zenon DEF SameMemory, KeepsTaken
  <2>2. m[j].base <= m[k].base /\ m[k].base < m[j].base + m[j].length
    BY <1>5, <2>1
  <2>3. j = k
    BY <1>3, <1>4, <1>5, <2>2, EntriesApart
  <2>4. QED
    BY <1>1, <2>1, <2>3
<1>8. CASE m[k].type = Usable /\ c[k].type = Usable
  <2>1. ~ (m[k].length < c[k].length)
    BY <1>1, <1>5, <1>8, FreeNotShorter
  <2>2. ~ (c[k].length < m[k].length)
    BY <1>0, <1>1, <1>5, <1>8, FreeNotShorter
  <2>3. m[k].length = c[k].length
    BY <1>4, <2>1, <2>2
  <2>4. /\ m[k] = [base |-> m[k].base, length |-> m[k].length, type |-> m[k].type]
        /\ c[k] = [base |-> c[k].base, length |-> c[k].length, type |-> c[k].type]
    BY <1>4, EntryFields
  <2>5. QED
    BY <1>1, <1>5, <1>8, <2>3, <2>4, Zenon
<1>9. QED
  BY <1>6, <1>7, <1>8

LEMMA SameMemorySameMap ==
    ASSUME NEW m, NEW c, SameMemory(m, c)
    PROVE  m = c
<1> DEFINE Bad == {k \in Nat : /\ k >= 1 /\ (k <= Len(m) \/ k <= Len(c))
                               /\ ~ (k <= Len(m) /\ k <= Len(c) /\ m[k] = c[k])}
<1>1. /\ m \in Seq(Entries) /\ c \in Seq(Entries) /\ Len(m) \in Nat /\ Len(c) \in Nat
  BY MapFacts DEF SameMemory
<1>2. Bad = {}
  <2> SUFFICES ASSUME Bad # {} PROVE FALSE
    OBVIOUS
  <2>1. Bad \subseteq Nat
    OBVIOUS
  <2>2. PICK k \in Bad : \A y \in Bad : k <= y
    BY <2>1, MinIsLeast
  <2>3. \A j \in 1 .. k - 1 : j <= Len(m) /\ j <= Len(c) /\ m[j] = c[j]
    <3> SUFFICES ASSUME NEW j \in 1 .. k - 1
                 PROVE  j <= Len(m) /\ j <= Len(c) /\ m[j] = c[j]
      OBVIOUS
    <3>1. k \in Nat /\ (k <= Len(m) \/ k <= Len(c))
      OBVIOUS
    <3>2. j \in Nat /\ j >= 1 /\ ~ (k <= j)
      BY <3>1
    <3>3. j \notin Bad
      BY <2>2, <3>2
    <3>4. j <= Len(m) \/ j <= Len(c)
      BY <1>1, <3>1, <3>2
    <3>5. QED
      BY <3>2, <3>3, <3>4
  <2>4. CASE k <= Len(m)
    <3>1. k \in 1 .. Len(m)
      BY <1>1, <2>4
    <3>2. k \in 1 .. Len(c) /\ c[k] = m[k]
      BY <2>3, <3>1, NextAgrees
    <3>3. QED
      BY <2>4, <3>2
  <2>5. CASE k <= Len(c)
    <3>1. k \in 1 .. Len(c)
      BY <1>1, <2>5
    <3>2. \A j \in 1 .. k - 1 : j <= Len(m) /\ j <= Len(c) /\ m[j] = c[j]
      BY <2>3
    <3>3. k \in 1 .. Len(m) /\ m[k] = c[k]
      BY <3>1, <3>2, NextAgrees, SameMemorySymmetric
    <3>4. QED
      BY <2>5, <3>3
  <2>6. QED
    BY <2>4, <2>5
<1>3. \A k \in 1 .. Len(m) : k <= Len(c) /\ m[k] = c[k]
  BY <1>1, <1>2
<1>4. \A k \in 1 .. Len(c) : k <= Len(m)
  BY <1>1, <1>2
<1>5. Len(m) = Len(c)
  <2>1. Len(m) > 0 => Len(m) \in 1 .. Len(m)
    BY <1>1
  <2>2. Len(c) > 0 => Len(c) \in 1 .. Len(c)
    BY <1>1
  <2>3. QED
    BY <1>1, <1>3, <1>4, <2>1, <2>2
<1>6. QED
  BY <1>1, <1>3, <1>5, SeqEqual

(***************************************************************************)
(* Every address the BIOS reported as usable is free or in a frame that is *)
(* held, and besides those frames the taken entries are the BIOS's.        *)
(***************************************************************************)
SourceInv ==
    /\ \A x \in UsableCells : x \in Avail(map) \/ \E a \in held : x \in a .. a + PageSize - 1
    /\ KeepsTaken(InitialMap, map)
    /\ \A k \in 1 .. Len(map) : map[k].type # Usable =>
          \/ map[k].base \in held
          \/ \E j \in 1 .. Len(InitialMap) : InitialMap[j] = map[k]

LEMMA InitialMapFacts == WellFormed(InitialMap) /\ Merged(InitialMap)
<1>1. DOMAIN InitialMap = 1 .. Len(InitialMap)
  BY InitialMapAssumption, Fields DEF BiosMap
<1>2. QED
  BY <1>1, InitialMapAssumption DEF BiosMap, WellFormed, Merged

LEMMA SourcesAreKept ==
    ASSUME LowMemory
    PROVE  PhysSpec => []SourceInv
<1>1. PhysInit => SourceInv
  <2> SUFFICES ASSUME PhysInit PROVE SourceInv
    OBVIOUS
  <2>1. map = InitialMap
    BY DEF PhysInit
  <2>2. QED
    BY <2>1 DEF SourceInv, UsableCells, Avail, KeepsTaken
<1>2. MapInv /\ FrameInv /\ SourceInv /\ [PhysNext]_physVars => SourceInv'
  <2> SUFFICES ASSUME MapInv, FrameInv, SourceInv, [PhysNext]_physVars PROVE SourceInv'
    OBVIOUS
  <2>0. /\ WellFormed(map) /\ Inside(map, UsableCells) /\ map \in Seq(Entries)
    BY DEF MapInv, FrameInv, WellFormed
  <2>00. ASSUME /\ \A x \in UsableCells : x \in Avail(map') \/ \E a \in held' : x \in a .. a + PageSize - 1
                /\ KeepsTaken(InitialMap, map')
                /\ \A k \in 1 .. Len(map') : map'[k].type # Usable =>
                      \/ map'[k].base \in held'
                      \/ \E j \in 1 .. Len(InitialMap) : InitialMap[j] = map'[k]
         PROVE  SourceInv'
    BY <2>00 DEF SourceInv, UsableCells, Avail, Cells, End, KeepsTaken
  <2>1. CASE Allocate
    <3>1. CASE CanAllocate(map)
      <4>1. PICK b \in Fits(map) : b = best(map)
        BY <2>0, <3>1, AddressIsBase
      <4>2. allocate(map).addr = map[b].base /\ map[b].base # 0
        BY <2>0, <3>1, <4>1, AddressIsBase
      <4>3. map' = Carve(map, b) /\ held' = held \cup {map[b].base}
        BY <2>1, <3>1, <4>1, <4>2 DEF Allocate, allocate
      <4>4. b \in 1 .. Len(map) /\ map[b].length >= PageSize /\ map[b].type = Usable
        BY <2>0, Fields DEF Fits
      <4>5. \A x \in UsableCells : x \in Avail(map') \/ \E a \in held' : x \in a .. a + PageSize - 1
        <5>1. Avail(map') = Avail(map) \ (map[b].base .. map[b].base + PageSize - 1)
          BY <2>0, <4>3, CarveAvail
        <5>2. QED
          BY <4>3, <5>1 DEF SourceInv
      <4>6. KeepsTaken(InitialMap, map')
        <5>1. KeepsTaken(map, map')
          BY <2>0, <4>3, CarveKeepsTaken
        <5>2. QED
          BY <5>1, KeepsTakenTwice DEF SourceInv
      <4>7. ASSUME NEW k \in 1 .. Len(map'), map'[k].type # Usable
            PROVE  \/ map'[k].base \in held'
                   \/ \E j \in 1 .. Len(InitialMap) : InitialMap[j] = map'[k]
        <5>1. \/ map'[k] = UsedPart(map[b])
              \/ map'[k] = RestPart(map[b])
              \/ \E l \in 1 .. Len(map) : map'[k] = map[l]
          BY <2>0, <4>3, <4>4, CarveOthers
        <5>2. CASE map'[k] = UsedPart(map[b])
          BY <4>3, <5>2 DEF UsedPart
        <5>3. CASE map'[k] = RestPart(map[b])
          BY <4>7, <5>3 DEF RestPart
        <5>4. CASE \E l \in 1 .. Len(map) : map'[k] = map[l]
          BY <4>3, <4>7, <5>4 DEF SourceInv
        <5>5. QED
          BY <5>1, <5>2, <5>3, <5>4
      <4>8. QED
        BY <2>00, <4>5, <4>6, <4>7
    <3>2. CASE ~ CanAllocate(map)
      <4>1. map' = map /\ held' = held
        BY <2>1, <3>2 DEF Allocate, allocate
      <4>2. QED
        BY <2>00, <4>1 DEF SourceInv
    <3>3. QED
      BY <3>1, <3>2
  <2>2. ASSUME NEW addr \in held, Free(addr) PROVE SourceInv'
    <3>1. map' = free(map, addr) /\ held' = held \ {addr}
      BY <2>2 DEF Free
    <3>2. /\ addr \in Nat
          /\ \E k \in 1 .. Len(map) :
                map[k] = [base |-> addr, length |-> PageSize, type |-> Used]
          /\ addr .. addr + PageSize - 1 \subseteq UsableCells
      BY DEF FrameInv
    <3>3. /\ Avail(map') = Avail(map) \cup (addr .. addr + PageSize - 1)
          /\ \A l \in 1 .. Len(map') : map'[l].type # Usable =>
                \E k \in 1 .. Len(map) : map[k] = map'[l] /\ map[k].base # addr
      BY <2>0, <3>1, <3>2, FreeAvail
    <3>4. \A l \in 1 .. Len(map) : map[l].type # Usable /\ map[l].base # addr =>
                \E k \in 1 .. Len(map') : map'[k] = map[l]
      BY <2>0, <3>1, <3>2, FreeKeepsTaken
    <3>5. \A x \in UsableCells : x \in Avail(map') \/ \E a \in held' : x \in a .. a + PageSize - 1
      BY <3>1, <3>3 DEF SourceInv
    <3>6. ASSUME NEW j \in 1 .. Len(InitialMap), InitialMap[j].type # Usable
          PROVE  \E k \in 1 .. Len(map') : map'[k] = InitialMap[j]
      <4>1. PICK l \in 1 .. Len(map) : map[l] = InitialMap[j]
        BY <3>6, Zenon DEF SourceInv, KeepsTaken
      <4>2. /\ InitialMap \in Seq(Entries) /\ InitialMap[j].base \in Nat
            /\ InitialMap[j].length \in Nat /\ InitialMap[j].length > 0
        BY InitialMapFacts, MapFacts
      <4>3. InitialMap[j].base # addr
        <5> SUFFICES ASSUME InitialMap[j].base = addr PROVE FALSE
          OBVIOUS
        <5>1. addr \in addr .. addr + PageSize - 1
          BY <3>2, PageSizeAssumption
        <5>2. addr \in Avail(InitialMap)
          BY <3>2, <5>1 DEF UsableCells, Avail
        <5>3. PICK i \in 1 .. Len(InitialMap) :
                 /\ InitialMap[i].type = Usable
                 /\ InitialMap[i].base <= addr /\ addr < InitialMap[i].base + InitialMap[i].length
          BY <4>2, <5>2, AvailIs
        <5>4. InitialMap[j].base <= addr /\ addr < InitialMap[j].base + InitialMap[j].length
          BY <4>2
        <5>5. i = j
          BY <3>2, <5>3, <5>4, InitialMapFacts, EntriesApart
        <5>6. QED
          BY <3>6, <5>3, <5>5
      <4>4. QED
        BY <3>4, <3>6, <4>1, <4>3
    <3>7. ASSUME NEW k \in 1 .. Len(map'), map'[k].type # Usable
          PROVE  \/ map'[k].base \in held'
                 \/ \E j \in 1 .. Len(InitialMap) : InitialMap[j] = map'[k]
      <4>1. PICK l \in 1 .. Len(map) : map[l] = map'[k] /\ map[l].base # addr
        BY <3>3, <3>7
      <4>2. \/ map[l].base \in held
            \/ \E j \in 1 .. Len(InitialMap) : InitialMap[j] = map[l]
        BY <3>7, <4>1 DEF SourceInv
      <4>3. QED
        BY <3>1, <4>1, <4>2
    <3>8. KeepsTaken(InitialMap, map')
      BY <3>6 DEF KeepsTaken
    <3>9. QED
      BY <2>00, <3>5, <3>7, <3>8
  <2>3. CASE UNCHANGED physVars
    BY <2>00, <2>3 DEF physVars, SourceInv
  <2>4. QED
    BY <2>1, <2>2, <2>3 DEF PhysNext
<1>3. QED
  BY <1>1, <1>2, MapIsKept, FramesAreKept, PTL DEF PhysSpec

(***************************************************************************)
(* On such a machine free() undoes allocate() in any order: once nothing   *)
(* is held the map is entry for entry what the BIOS reported.              *)
(***************************************************************************)
THEOREM MapIsRestored ==
    ASSUME LowMemory
    PROVE  PhysSpec => []Restored
<1>1. MapInv /\ FrameInv /\ SourceInv => Restored
  <2> SUFFICES ASSUME MapInv, FrameInv, SourceInv, held = {} PROVE map = InitialMap
    BY DEF Restored
  <2>1. map \in Seq(Entries) /\ WellFormed(map) /\ Merged(map)
    BY DEF MapInv, WellFormed
  <2>2. Avail(map) = Avail(InitialMap)
    <3>1. Avail(map) \subseteq UsableCells
      BY <2>1, InsideAvail DEF FrameInv
    <3>2. UsableCells \subseteq Avail(map)
      BY DEF SourceInv
    <3>3. QED
      BY <3>1, <3>2 DEF UsableCells, Avail
  <2>3. KeepsTaken(InitialMap, map) /\ KeepsTaken(map, InitialMap)
    BY DEF SourceInv, KeepsTaken
  <2>4. SameMemory(map, InitialMap)
    BY <2>1, <2>2, <2>3, InitialMapFacts DEF SameMemory
  <2>5. QED
    BY <2>4, SameMemorySameMap
<1>2. QED
  BY <1>1, MapIsKept, FramesAreKept, SourcesAreKept, PTL
=============================================================================
