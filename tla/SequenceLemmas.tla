--------------------------- MODULE SequenceLemmas ---------------------------
(***************************************************************************)
(* Lemmas about sets of numbers, sequences and recursive functions that    *)
(* the other proofs share.                                                 *)
(***************************************************************************)
EXTENDS Integers, SequencesExt, SequenceTheorems, WellFoundedInduction, TLAPS

(* The minimum of a non-empty set of naturals is its least element.        *)
LEMMA MinIsLeast ==
    ASSUME NEW S, S \subseteq Nat, S # {}
    PROVE  Min(S) \in S /\ \A y \in S : Min(S) <= y
<1>1. PICK x \in S : \A y \in S : ~ (<<y, x>> \in OpToRel(<, Nat))
  BY NatLessThanWellFounded, WFMin
<1>2. OpToRel(<, Nat) = {ss \in Nat \X Nat : ss[1] < ss[2]}
  BY Zenon DEF OpToRel
<1>3. \A y \in S : ~ (y < x)
  BY <1>1, <1>2
<1>4. \A y \in S : x <= y
  BY <1>3
<1>5. QED
  BY <1>4, Zenon DEF Min

(* InsertAt and RemoveAt, element by element.                              *)
Inserted(c, s, n, e) ==
    /\ Len(c) = Len(s) + 1
    /\ \A k \in 1 .. Len(s) + 1 :
          c[k] = IF k < n THEN s[k] ELSE IF k = n THEN e ELSE s[k - 1]

LEMMA InsertAtIs ==
    ASSUME NEW S, NEW s \in Seq(S), NEW n \in 1 .. Len(s) + 1, NEW e \in S
    PROVE  InsertAt(s, n, e) \in Seq(S) /\ Inserted(InsertAt(s, n, e), s, n, e)
<1> DEFINE a == SubSeq(s, 1, n - 1)
           b == <<e>>
           c == SubSeq(s, n, Len(s))
<1>0. Len(s) \in Nat /\ n \in Nat /\ \A k \in 1 .. Len(s) : s[k] \in S
  OBVIOUS
<1>1. /\ a \in Seq(S) /\ Len(a) = n - 1
      /\ \A k \in 1 .. n - 1 : a[k] = s[k]
  <2>1. \A k \in 1 .. n - 1 : s[k] \in S
    BY <1>0
  <2>2. /\ a \in Seq(S) /\ Len(a) = (IF 1 <= n - 1 THEN n - 1 - 1 + 1 ELSE 0)
        /\ \A k \in 1 .. n - 1 - 1 + 1 : a[k] = s[1 + k - 1]
    BY <1>0, <2>1, SubSeqProperties, 1 \in Int, n - 1 \in Int
  <2>3. QED
    BY <1>0, <2>2
<1>2. /\ c \in Seq(S) /\ Len(c) = Len(s) - n + 1
      /\ \A k \in 1 .. Len(s) - n + 1 : c[k] = s[n + k - 1]
  <2>1. \A k \in n .. Len(s) : s[k] \in S
    BY <1>0
  <2>2. /\ c \in Seq(S) /\ Len(c) = (IF n <= Len(s) THEN Len(s) - n + 1 ELSE 0)
        /\ \A k \in 1 .. Len(s) - n + 1 : c[k] = s[n + k - 1]
    BY <1>0, <2>1, SubSeqProperties, n \in Int, Len(s) \in Int
  <2>3. QED
    BY <1>0, <2>2
<1>3. b \in Seq(S) /\ Len(b) = 1 /\ b[1] = e
  OBVIOUS
<1> HIDE DEF a, b, c
<1>4. /\ a \o b \in Seq(S) /\ Len(a \o b) = n
      /\ \A k \in 1 .. n : (a \o b)[k] = IF k <= n - 1 THEN a[k] ELSE b[k - (n - 1)]
  <2>1. n - 1 + 1 = n
    BY <1>0
  <2>2. /\ a \o b \in Seq(S) /\ Len(a \o b) = Len(a) + Len(b)
        /\ \A k \in 1 .. Len(a) + Len(b) :
              (a \o b)[k] = IF k <= Len(a) THEN a[k] ELSE b[k - Len(a)]
    BY <1>1, <1>3, ConcatProperties
  <2>3. QED
    BY <1>1, <1>3, <2>1, <2>2, Zenon
<1>5. /\ (a \o b) \o c \in Seq(S) /\ Len((a \o b) \o c) = Len(s) + 1
      /\ \A k \in 1 .. Len(s) + 1 :
            ((a \o b) \o c)[k] = IF k <= n THEN (a \o b)[k] ELSE c[k - n]
  <2>1. n + (Len(s) - n + 1) = Len(s) + 1
    BY <1>0
  <2>2. QED
    BY <1>2, <1>4, <2>1, ConcatProperties
<1>6. InsertAt(s, n, e) = (a \o b) \o c
  BY DEF InsertAt, a, b, c
<1>7. ASSUME NEW k \in 1 .. Len(s) + 1
      PROVE  ((a \o b) \o c)[k] = IF k < n THEN s[k] ELSE IF k = n THEN e ELSE s[k - 1]
  <2>1. CASE k < n
    <3>1. k \in 1 .. n - 1 /\ k \in 1 .. n /\ k <= n - 1 /\ k <= n
      BY <1>0, <2>1
    <3>2. QED
      BY <2>1, <3>1, <1>1, <1>4, <1>5
  <2>2. CASE k = n
    <3>1. ~ (n <= n - 1) /\ n - (n - 1) = 1 /\ ~ (n < n) /\ n <= n /\ n \in 1 .. n
      BY <1>0
    <3>2. QED
      BY <2>2, <3>1, <1>3, <1>4, <1>5
  <2>3. CASE k > n
    <3>1. /\ k - n \in 1 .. Len(s) - n + 1 /\ ~ (k < n) /\ k # n /\ ~ (k <= n)
          /\ n + (k - n) - 1 = k - 1
      BY <1>0, <2>3
    <3>2. QED
      BY <3>1, <1>2, <1>5
  <2>4. k < n \/ k = n \/ k > n
    BY <1>0
  <2>5. QED
    BY <2>1, <2>2, <2>3, <2>4, Zenon
<1>8. QED
  BY <1>5, <1>6, <1>7 DEF Inserted

LEMMA RemoveAtIs ==
    ASSUME NEW S, NEW s \in Seq(S), NEW n \in 1 .. Len(s)
    PROVE  /\ RemoveAt(s, n) \in Seq(S)
           /\ Len(RemoveAt(s, n)) = Len(s) - 1
           /\ \A k \in 1 .. Len(s) - 1 :
                 RemoveAt(s, n)[k] = IF k < n THEN s[k] ELSE s[k + 1]
<1> DEFINE a == SubSeq(s, 1, n - 1)
           c == SubSeq(s, n + 1, Len(s))
<1>0. Len(s) \in Nat /\ n \in Nat /\ \A k \in 1 .. Len(s) : s[k] \in S
  OBVIOUS
<1>1. /\ a \in Seq(S) /\ Len(a) = n - 1
      /\ \A k \in 1 .. n - 1 : a[k] = s[k]
  <2>1. \A k \in 1 .. n - 1 : s[k] \in S
    BY <1>0
  <2>2. /\ a \in Seq(S) /\ Len(a) = (IF 1 <= n - 1 THEN n - 1 - 1 + 1 ELSE 0)
        /\ \A k \in 1 .. n - 1 - 1 + 1 : a[k] = s[1 + k - 1]
    BY <1>0, <2>1, SubSeqProperties, 1 \in Int, n - 1 \in Int
  <2>3. QED
    BY <1>0, <2>2
<1>2. /\ c \in Seq(S) /\ Len(c) = Len(s) - n
      /\ \A k \in 1 .. Len(s) - n : c[k] = s[n + k]
  <2>1. \A k \in n + 1 .. Len(s) : s[k] \in S
    BY <1>0
  <2>2. /\ c \in Seq(S)
        /\ Len(c) = (IF n + 1 <= Len(s) THEN Len(s) - (n + 1) + 1 ELSE 0)
        /\ \A k \in 1 .. Len(s) - (n + 1) + 1 : c[k] = s[n + 1 + k - 1]
    BY <1>0, <2>1, SubSeqProperties, n + 1 \in Int, Len(s) \in Int
  <2>3. QED
    BY <1>0, <2>2
<1> HIDE DEF a, c
<1>3. /\ a \o c \in Seq(S) /\ Len(a \o c) = Len(s) - 1
      /\ \A k \in 1 .. Len(s) - 1 :
            (a \o c)[k] = IF k <= n - 1 THEN a[k] ELSE c[k - (n - 1)]
  <2>1. n - 1 + (Len(s) - n) = Len(s) - 1
    BY <1>0
  <2>2. /\ a \o c \in Seq(S) /\ Len(a \o c) = Len(a) + Len(c)
        /\ \A k \in 1 .. Len(a) + Len(c) :
              (a \o c)[k] = IF k <= Len(a) THEN a[k] ELSE c[k - Len(a)]
    BY <1>1, <1>2, ConcatProperties
  <2>3. QED
    BY <1>1, <1>2, <2>1, <2>2, Zenon
<1>4. RemoveAt(s, n) = a \o c
  BY DEF RemoveAt, a, c
<1>5. ASSUME NEW k \in 1 .. Len(s) - 1
      PROVE  (a \o c)[k] = IF k < n THEN s[k] ELSE s[k + 1]
  <2>1. CASE k < n
    <3>1. k \in 1 .. n - 1 /\ k <= n - 1
      BY <1>0, <2>1
    <3>2. QED
      BY <2>1, <3>1, <1>1, <1>3
  <2>2. CASE ~ (k < n)
    <3>1. /\ k - (n - 1) \in 1 .. Len(s) - n /\ ~ (k <= n - 1)
          /\ n + (k - (n - 1)) = k + 1
      BY <1>0, <2>2
    <3>2. QED
      BY <2>2, <3>1, <1>2, <1>3
  <2>3. QED
    BY <2>1, <2>2
<1>6. QED
  BY <1>3, <1>4, <1>5

(* Induction up to n, for a set of numbers and for the values of a function. *)
LEMMA Reaches ==
    ASSUME NEW n \in Nat, NEW P, P \subseteq 0 .. n, 0 \in P,
           \A k \in 1 .. n : k - 1 \in P => k \in P
    PROVE  P = 0 .. n
<1> SUFFICES ASSUME P # 0 .. n PROVE FALSE
  OBVIOUS
<1> DEFINE Bad == (0 .. n) \ P
<1>0. \E x \in 0 .. n : x \notin P
  OBVIOUS
<1>1. Bad \subseteq Nat /\ Bad # {}
  BY <1>0
<1>2. Min(Bad) \in Bad /\ \A y \in Bad : Min(Bad) <= y
  BY <1>1, MinIsLeast
<1>3. PICK k \in Bad : \A y \in Bad : k <= y
  BY <1>2
<1>4. k \in 1 .. n /\ k - 1 \in 0 .. n /\ ~ (k <= k - 1)
  BY <1>3
<1>5. QED
  BY <1>3, <1>4

LEMMA StaysIn ==
    ASSUME NEW n \in Nat, NEW T, NEW r, r[0] \in T,
           \A k \in 1 .. n : r[k - 1] \in T => r[k] \in T
    PROVE  \A k \in 0 .. n : r[k] \in T
<1> DEFINE P == {k \in 0 .. n : r[k] \in T}
<1>1. 0 \in P /\ P \subseteq 0 .. n
  OBVIOUS
<1>2. ASSUME NEW k \in 1 .. n, k - 1 \in P PROVE k \in P
  <2>1. r[k - 1] \in T
    BY <1>2
  <2>2. QED
    BY <2>1
<1> HIDE DEF P
<1>3. P = 0 .. n
  BY <1>1, <1>2, Reaches
<1>4. QED
  BY <1>3 DEF P

(* What a recursive function computes: the values that step by step follow  *)
(* from b exist, when the steps stay in a set T.                           *)
Iterated(g, n, b, step) == g[0] = b /\ \A k \in 1 .. n : g[k] = step[k][g[k - 1]]

LEMMA Iterates ==
    ASSUME NEW n \in Nat, NEW T, NEW b \in T, NEW step \in [1 .. n -> [T -> T]]
    PROVE  \E g \in [0 .. n -> T] : Iterated(g, n, b, step)
<1> DEFINE Good(g, m) == Iterated(g, m, b, step)
           P == {m \in 0 .. n : \E g \in [0 .. m -> T] : Good(g, m)}
<1>1. 0 \in P
  <2>1. Good([k \in 0 .. 0 |-> b], 0) /\ [k \in 0 .. 0 |-> b] \in [0 .. 0 -> T]
    BY DEF Iterated
  <2> HIDE DEF Good
  <2>2. \E g \in [0 .. 0 -> T] : Good(g, 0)
    BY <2>1, Zenon
  <2>3. QED
    BY <2>2
<1>2. ASSUME NEW m \in 1 .. n, m - 1 \in P PROVE m \in P
  <2>1. PICK g \in [0 .. m - 1 -> T] : Good(g, m - 1)
    BY <1>2
  <2> DEFINE h == [k \in 0 .. m |-> IF k = m THEN step[m][g[m - 1]] ELSE g[k]]
  <2>2. m - 1 \in 0 .. m - 1 /\ g[m - 1] \in T /\ step[m][g[m - 1]] \in T
    OBVIOUS
  <2>3. h \in [0 .. m -> T]
    BY <2>2
  <2>4. h[0] = b
    BY <2>1 DEF Iterated
  <2>5. ASSUME NEW k \in 1 .. m PROVE h[k] = step[k][h[k - 1]]
    <3>1. k - 1 \in 0 .. m /\ k - 1 # m /\ k \in 0 .. m
      OBVIOUS
    <3>2. h[k - 1] = g[k - 1]
      BY <3>1
    <3>3. CASE k = m
      BY <3>1, <3>2, <3>3
    <3>4. CASE k # m
      <4>1. k \in 1 .. m - 1
        BY <3>4
      <4>2. QED
        BY <2>1, <3>1, <3>2, <3>4, <4>1 DEF Iterated
    <3>5. QED
      BY <3>3, <3>4
  <2>6. Good(h, m)
    BY <2>4, <2>5 DEF Iterated
  <2> HIDE DEF Good, h
  <2>7. \E f \in [0 .. m -> T] : Good(f, m)
    BY <2>3, <2>6
  <2>8. QED
    BY <2>7
<1>3. P = 0 .. n
  <2> HIDE DEF P
  <2>1. P \subseteq 0 .. n
    BY DEF P
  <2>2. QED
    BY <1>1, <1>2, <2>1, Reaches
<1>4. QED
  BY <1>3
=============================================================================
