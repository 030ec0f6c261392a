----------------------------- MODULE ForkProofs -----------------------------
(***************************************************************************)
(* Proofs about Fork, for every size of a stack and of the address space,  *)
(* every place of the stacks and every contents of the parent's.           *)
(***************************************************************************)
EXTENDS Fork, SequenceLemmas

(* uint32_t arithmetic, once around at most.                               *)
LEMMA WrapIs ==
    /\ \A x \in Int : Wrap(x) \in 0 .. Space - 1
    /\ \A x \in 0 .. Space - 1 : Wrap(x) = x
    /\ \A x \in - Space .. -1 : Wrap(x) = x + Space
    /\ \A x \in Space .. 2 * Space - 1 : Wrap(x) = x - Space
<1>1. Space \in Nat \ {0}
  BY SpaceAssumption, BasesAssumption
<1>2. \A x \in Int : Wrap(x) \in 0 .. Space - 1
  BY <1>1 DEF Wrap
<1>3. \A x \in 0 .. Space - 1 : Wrap(x) = x
  BY <1>1 DEF Wrap
<1>4. \A x \in - Space .. -1 : Wrap(x) = x + Space
  BY <1>1 DEF Wrap
<1>5. \A x \in Space .. 2 * Space - 1 : Wrap(x) = x - Space
  BY <1>1 DEF Wrap
<1>6. QED
  BY <1>2, <1>3, <1>4, <1>5

(* Two different pages do not overlap.                                     *)
LEMMA PagesApart ==
    ASSUME NEW b \in Bases \cup {ExecBase}, NEW c \in Bases \cup {ExecBase}, b < c
    PROVE  b + StackWords <= c
<1> DEFINE W == StackWords
<1>1. W \in Nat \ {0} /\ b \in Nat /\ c \in Nat /\ b % W = 0 /\ c % W = 0
  BY SpaceAssumption, BasesAssumption, Zenon
<1>2. PICK p \in Int : b = W * p
  BY <1>1
<1>3. PICK q \in Int : c = W * q
  BY <1>1
<1>4. p < q
  BY <1>1, <1>2, <1>3
<1>5. W * (p + 1) <= W * q
  BY <1>1, <1>4
<1>6. W * (p + 1) = W * p + W
  BY <1>1
<1>7. QED
  BY <1>1, <1>2, <1>3, <1>5, <1>6
-----------------------------------------------------------------------------
OnExecStack == regs.esp \in ExecBase .. ExecBase + StackWords

(* Types, and that a fork goes on to the walk only on its own stack.       *)
ForkTyped ==
    /\ parent \in Bases /\ child \in Bases /\ parent # child
    /\ mem \in [Mapped -> 0 .. Space - 1]
    /\ regs \in [esp : Int, ebp : 0 .. Space - 1, eax : Int]
    /\ OnOwnStack \/ OnExecStack
    /\ frame \in 0 .. Space - 1
    /\ at \in {"call", "failed", "fault", "walk", "done"}
    /\ at \in {"walk", "done"} => OnOwnStack
    /\ at = "fault" => ~ OnOwnStack

(* Where the two stacks lie.                                               *)
LEMMA Layout ==
    ASSUME ForkTyped
    PROVE  /\ StackWords \in Nat \ {0} /\ Space \in Nat /\ parent \in Nat /\ child \in Nat
           /\ parent + StackWords < Space /\ child + StackWords < Space
           /\ parent + StackWords <= child \/ child + StackWords <= parent
<1>1. /\ StackWords \in Nat \ {0} /\ Space \in Nat /\ parent \in Nat /\ child \in Nat
      /\ parent + StackWords < Space /\ child + StackWords < Space /\ parent # child
      /\ parent \in Bases \cup {ExecBase} /\ child \in Bases \cup {ExecBase}
  BY SpaceAssumption, BasesAssumption, Zenon DEF ForkTyped
<1>2. CASE parent < child
  BY <1>1, <1>2, PagesApart
<1>3. CASE child < parent
  BY <1>1, <1>3, PagesApart
<1>4. QED
  BY <1>1, <1>2, <1>3

LEMMA StacksMapped ==
    ASSUME ForkTyped
    PROVE  Page(parent) \subseteq Mapped /\ Page(child) \subseteq Mapped
           /\ Page(parent) \cap Page(child) = {}
<1>1. Page(parent) \subseteq Mapped /\ Page(child) \subseteq Mapped
  BY Zenon DEF Mapped, ForkTyped
<1>2. Page(parent) \cap Page(child) = {}
  BY Layout DEF Page
<1>3. QED
  BY <1>1, <1>2

(* Adding delta moves the parent's stack to the child's, and nothing else  *)
(* there.                                                                  *)
LEMMA DeltaMoves ==
    ASSUME ForkTyped
    PROVE  /\ \A x \in Page(parent) : /\ Wrap(x + delta) = x + (child - parent)
                                      /\ x + (child - parent) \in Page(child)
           /\ \A x \in 0 .. Space - 1 :
                 /\ Wrap(x + delta) \in 0 .. Space - 1
                 /\ Wrap(x + delta) \in Page(child) =>
                       x \in Page(parent) /\ Wrap(x + delta) = x + (child - parent)
<1> DEFINE d == child - parent
<1>1. /\ StackWords \in Nat \ {0} /\ Space \in Nat /\ parent \in Nat /\ child \in Nat
      /\ parent + StackWords < Space /\ child + StackWords < Space
      /\ child_stack_top - parent_stack_top = d /\ d \in Int /\ d # 0
      /\ d < Space - StackWords /\ d > StackWords - Space
  BY Layout DEF child_stack_top, parent_stack_top
<1>2. delta = d \/ delta = d + Space
  BY <1>1, WrapIs DEF delta
<1>3. delta \in 0 .. Space - 1
  BY <1>1, WrapIs DEF delta
<1>4. ASSUME NEW x \in 0 .. Space - 1
      PROVE  /\ Wrap(x + delta) \in 0 .. Space - 1
             /\ Wrap(x + delta) \in {x + d, x + d + Space, x + d - Space}
  <2>1. x + delta \in 0 .. 2 * Space - 1 /\ x + delta \in Int
    BY <1>1, <1>3
  <2>2. Wrap(x + delta) \in 0 .. Space - 1
    BY <2>1, WrapIs
  <2>3. Wrap(x + delta) = x + delta \/ Wrap(x + delta) = (x + delta) - Space
    <3>1. CASE x + delta < Space
      <4>1. x + delta \in 0 .. Space - 1
        BY <1>1, <2>1, <3>1
      <4>2. QED
        BY <4>1, WrapIs
    <3>2. CASE x + delta >= Space
      <4>1. x + delta \in Space .. 2 * Space - 1
        BY <1>1, <2>1, <3>2
      <4>2. QED
        BY <4>1, WrapIs, Zenon
    <3>3. QED
      BY <1>1, <2>1, <3>1, <3>2
  <2>4. QED
    BY <1>1, <1>2, <2>2, <2>3
<1>5. ASSUME NEW x \in Page(parent)
      PROVE  Wrap(x + delta) = x + d /\ x + d \in Page(child)
  <2>1. x \in 0 .. Space - 1 /\ x + d \in Page(child) /\ x + d \in 0 .. Space - 1
    BY <1>1 DEF Page
  <2>2. QED
    BY <1>1, <1>4, <2>1
<1>6. ASSUME NEW x \in 0 .. Space - 1, Wrap(x + delta) \in Page(child)
      PROVE  x \in Page(parent) /\ Wrap(x + delta) = x + d
  <2>1. CASE Wrap(x + delta) = x + d
    BY <1>1, <1>6, <2>1 DEF Page
  <2>2. CASE Wrap(x + delta) = x + d + Space
    BY <1>1, <1>6, <2>2 DEF Page
  <2>3. CASE Wrap(x + delta) = x + d - Space
    BY <1>1, <1>6, <2>3 DEF Page
  <2>4. QED
    BY <1>4, <2>1, <2>2, <2>3
<1>7. QED
  BY <1>4, <1>5, <1>6

(* On its own stack the caller's used part is what lies above esp, and all *)
(* of it can be copied.                                                    *)
LEMMA OwnStack ==
    ASSUME ForkTyped, OnOwnStack
    PROVE  /\ used = parent + StackWords - regs.esp /\ used \in 0 .. StackWords
           /\ Wrap(parent_stack_top - used) = regs.esp
           /\ Wrap(child_stack_top - used) = regs.esp + (child - parent)
           /\ child_stack_top - used = regs.esp + (child - parent)
           /\ Copied = used
<1>1. /\ StackWords \in Nat \ {0} /\ Space \in Nat /\ parent \in Nat /\ child \in Nat
      /\ parent + StackWords < Space /\ child + StackWords < Space
      /\ parent_stack_top = parent + StackWords /\ child_stack_top = child + StackWords
      /\ regs.esp \in parent .. parent + StackWords
  BY Layout DEF child_stack_top, parent_stack_top, OnOwnStack
<1>2. used = parent + StackWords - regs.esp /\ used \in 0 .. StackWords
  <2>1. parent_stack_top - regs.esp \in 0 .. Space - 1
    BY <1>1
  <2>2. used = parent_stack_top - regs.esp
    BY <2>1, WrapIs DEF used
  <2>3. QED
    BY <1>1, <2>2
<1>3. /\ parent_stack_top - used = regs.esp
      /\ child_stack_top - used = regs.esp + (child - parent)
      /\ regs.esp \in 0 .. Space - 1
      /\ regs.esp + (child - parent) \in 0 .. Space - 1
  BY <1>1, <1>2
<1>4. /\ Wrap(parent_stack_top - used) = regs.esp
      /\ Wrap(child_stack_top - used) = regs.esp + (child - parent)
  BY <1>3, WrapIs
<1>5. Copied = used
  <2> SUFFICES ASSUME NEW k \in 0 .. used - 1
               PROVE  /\ Wrap(parent_stack_top - used + k) \in Mapped
                      /\ Wrap(child_stack_top - used + k) \in Mapped
    BY Zenon DEF Copied
  <2>1. /\ parent_stack_top - used + k \in Page(parent)
        /\ child_stack_top - used + k \in Page(child)
    BY <1>1, <1>2, <1>3 DEF Page
  <2>2. /\ parent_stack_top - used + k \in 0 .. Space - 1
        /\ child_stack_top - used + k \in 0 .. Space - 1
    BY <1>1, <1>2, <1>3
  <2>3. QED
    BY <2>1, <2>2, WrapIs, StacksMapped
<1>6. QED
  BY <1>2, <1>3, <1>4, <1>5

(* After an exec not even the first word can be copied: it is not mapped,  *)
(* or its place in the child's stack would not be.                         *)
LEMMA ExecStack ==
    ASSUME ForkTyped, ~ OnOwnStack
    PROVE  Copied = 0 /\ used # 0
<1> DEFINE d == child - parent
           W == StackWords
           bad == {k \in 0 .. used - 1 : \/ Wrap(parent_stack_top - used + k) \notin Mapped
                                         \/ Wrap(child_stack_top - used + k) \notin Mapped}
<1>1. /\ W \in Nat \ {0} /\ Space \in Nat /\ parent \in Nat /\ child \in Nat
      /\ parent + W < Space /\ child + W < Space
      /\ parent + W <= child \/ child + W <= parent
      /\ parent_stack_top = parent + W /\ child_stack_top = child + W
      /\ regs.esp \in ExecBase .. ExecBase + W
  BY Layout DEF child_stack_top, parent_stack_top, ForkTyped, OnExecStack
<1>2. ExecBase \in Nat /\ ExecBase + W < Space
  BY BasesAssumption
<1>3. \A b \in Bases : b \in Nat /\ ExecBase - b >= W /\ ExecBase + d - b >= W
  <2> SUFFICES ASSUME NEW b \in Bases
               PROVE  b \in Nat /\ ExecBase - b >= W /\ ExecBase + d - b >= W
    OBVIOUS
  <2>1. b \in Nat
    BY BasesAssumption
  <2>2. parent \in Bases /\ child \in Bases
    BY DEF ForkTyped
  <2>3. ExecBase - b >= parent - parent + W /\ ExecBase - b >= parent - child + W
    BY <2>2, ExecFar
  <2>4. QED
    BY <1>1, <1>2, <2>1, <2>3
<1>4. ExecBase + d + W <= Space /\ ExecBase + d >= 0 /\ ExecBase >= parent + W + W
  <2>1. parent \in Bases /\ child \in Bases
    BY DEF ForkTyped
  <2>2. /\ ExecBase + (child - parent) + W <= Space
        /\ ExecBase - parent >= child - parent + W
        /\ ExecBase - parent >= parent - child + W
    BY <2>1, ExecFar
  <2>3. QED
    BY <1>1, <1>2, <2>2
<1>5. parent_stack_top - regs.esp \in - Space .. -1
  BY <1>1, <1>2, <1>4
<1>6. used = (parent_stack_top - regs.esp) + Space /\ used \in Nat \ {0}
  <2>1. used = (parent_stack_top - regs.esp) + Space
    BY <1>5, WrapIs DEF used
  <2>2. QED
    BY <1>1, <1>2, <1>5, <2>1
<1>7. 0 \in bad
  <2>1. 0 \in 0 .. used - 1
    BY <1>6
  <2>2. CASE regs.esp = ExecBase + W
    <3>1. parent_stack_top - used + 0 = regs.esp - Space
      BY <1>1, <1>2, <1>6
    <3>2. regs.esp - Space \in - Space .. -1 /\ (regs.esp - Space) + Space = regs.esp
      BY <1>1, <1>2
    <3>3. Wrap(parent_stack_top - used + 0) = regs.esp
      BY <3>1, <3>2, WrapIs
    <3>4. \A b \in Bases \cup {ExecBase} : regs.esp \notin Page(b)
      BY <1>1, <1>2, <1>3, <2>2 DEF Page
    <3>5. QED
      BY <2>1, <3>3, <3>4 DEF Mapped
  <2>3. CASE regs.esp \in Page(ExecBase)
    <3>1. child_stack_top - used + 0 = (regs.esp + d) - Space
      BY <1>1, <1>2, <1>6
    <3>2. (regs.esp + d) - Space \in - Space .. -1 /\ ((regs.esp + d) - Space) + Space = regs.esp + d
      BY <1>1, <1>2, <1>4, <2>3 DEF Page
    <3>3. Wrap(child_stack_top - used + 0) = regs.esp + d
      BY <3>1, <3>2, WrapIs
    <3>4. \A b \in Bases : regs.esp + d \notin Page(b)
      BY <1>1, <1>2, <1>3 DEF Page
    <3>5. regs.esp + d \notin Page(ExecBase)
      BY <1>1, <1>2, <2>3 DEF Page
    <3>6. QED
      BY <2>1, <3>3, <3>4, <3>5 DEF Mapped
  <2>4. QED
    BY <1>1, <1>2, <2>2, <2>3 DEF Page
<1>8. Min(bad) = 0
  <2>1. bad \subseteq Nat /\ bad # {}
    BY <1>6, <1>7
  <2>2. Min(bad) \in Nat /\ Min(bad) <= 0
    BY <2>1, <1>7, MinIsLeast
  <2>3. QED
    BY <2>2
<1>9. QED
  BY <1>6, <1>7, <1>8 DEF Copied
-----------------------------------------------------------------------------
(* A word of the parent's stack that holds a frame pointer to be moved.    *)
Pointer(a) == IsFrame(a) /\ mem[a] \in Page(parent)

(* Frames is closed, and the least set that is.                            *)
LEMMA FramesClosed ==
    /\ Frames \subseteq Page(parent)
    /\ regs.ebp \in Page(parent) => regs.ebp \in Frames
    /\ \A x \in Frames : Pointer(x) => mem[x] \in Frames
BY Zenon DEF Frames, Pointer

LEMMA FramesLeast ==
    ASSUME NEW S \in SUBSET Page(parent),
           regs.ebp \in Page(parent) => regs.ebp \in S,
           \A x \in S : Pointer(x) => mem[x] \in S
    PROVE  Frames \subseteq S
BY Zenon DEF Frames, Pointer

(* Frames depends only on the parent's stack, its esp and its ebp.         *)
LEMMA FramesKept ==
    ASSUME parent' = parent, regs'.esp = regs.esp, regs'.ebp = regs.ebp,
           \A a \in Page(parent) : mem'[a] = mem[a]
    PROVE  /\ Frames' = Frames
           /\ \A a \in Page(parent) : Pointer(a)' <=> Pointer(a)
<1>1. Page(parent)' = Page(parent)
  BY DEF Page
<1>2. \A a : IsFrame(a)' <=> IsFrame(a)
  BY DEF IsFrame, parent_stack_top
<1>3. \A a \in Page(parent) : Pointer(a)' <=> Pointer(a)
  BY <1>1, <1>2 DEF Pointer
<1>4. ASSUME NEW S \in SUBSET Page(parent)
      PROVE  (\A x \in S : IsFrame(x)' /\ mem'[x] \in Page(parent) => mem'[x] \in S)
                 <=> (\A x \in S : IsFrame(x) /\ mem[x] \in Page(parent) => mem[x] \in S)
  BY <1>2
<1>5. Frames' = {a \in Page(parent) :
        \A S \in SUBSET Page(parent) :
            /\ regs.ebp \in Page(parent) => regs.ebp \in S
            /\ \A x \in S : IsFrame(x)' /\ mem'[x] \in Page(parent) => mem'[x] \in S
            => a \in S}
  BY <1>1 DEF Frames
<1>6. QED
  BY <1>3, <1>4, <1>5 DEF Frames
-----------------------------------------------------------------------------
(* The pointer at a has been moved in the copy.                            *)
Moved(a) == Pointer(a) /\ mem[a + (child - parent)] = mem[a] + (child - parent)

(* An address of the parent's stack that needs no visit any more, or is    *)
(* the one that comes next.                                                *)
Settled(x) ==
    x \in Page(parent) => Moved(x) \/ x + (child - parent) = frame \/ ~ Pointer(x)

(* During the walk: the copy differs from the original in moved pointers   *)
(* of frames only, the loop stands at a frame or has left the stack, and   *)
(* where the moved pointers lead is moved or comes next.                   *)
WalkInv ==
    /\ cregs.esp = regs.esp + (child - parent)
    /\ \A a \in regs.esp .. parent_stack_top - 1 :
          \/ mem[a + (child - parent)] = mem[a]
          \/ a \in Frames /\ Moved(a)
    /\ frame \in Page(child) => frame - (child - parent) \in Frames
    /\ Settled(regs.ebp)
    /\ \A a \in Page(parent) : Moved(a) => Settled(mem[a])

(* What StackRelocated says of a child that is complete.                   *)
Relocated ==
    /\ cregs.esp - child = regs.esp - parent
    /\ \A a \in regs.esp .. parent_stack_top - 1 :
          mem[a - parent + child] =
              IF a \in Frames /\ IsFrame(a) /\ mem[a] \in Page(parent)
              THEN mem[a] - parent + child ELSE mem[a]

ForkInv ==
    /\ ForkTyped
    /\ at = "walk" => WalkInv
    /\ at = "done" => Relocated

(* The copy changes the used part of the child's stack only.               *)
LEMMA CopyIs ==
    ASSUME ForkTyped, OnOwnStack, copy
    PROVE  /\ at' = "walk" /\ mem' \in [Mapped -> 0 .. Space - 1]
           /\ \A a \in Mapped : mem'[a] =
                 IF a \in regs.esp + (child - parent) .. child + StackWords - 1
                 THEN mem[a - (child - parent)] ELSE mem[a]
<1> DEFINE d == child - parent
           W == StackWords
           to == regs.esp + d
<1>1. /\ W \in Nat \ {0} /\ Space \in Nat /\ parent \in Nat /\ child \in Nat
      /\ parent + W < Space /\ child + W < Space
      /\ regs.esp \in parent .. parent + W
  BY Layout DEF OnOwnStack, parent_stack_top
<1>2. /\ used = parent + W - regs.esp /\ Copied = used /\ used \in 0 .. W
      /\ Wrap(parent_stack_top - used) = regs.esp /\ Wrap(child_stack_top - used) = to
  BY OwnStack
<1>3. mem \in [Mapped -> 0 .. Space - 1]
  BY DEF ForkTyped
<1>4. mem' = [a \in Mapped |-> IF Wrap(a - to) < used
                               THEN mem[Wrap(regs.esp + Wrap(a - to))] ELSE mem[a]]
  BY <1>2, <1>3 DEF copy
<1>5. at' = "walk"
  BY <1>2 DEF copy
<1>6. \A a \in Mapped : a \in 0 .. Space - 1
  BY BasesAssumption, SpaceAssumption DEF Mapped, Page
<1>7. ASSUME NEW a \in Mapped
      PROVE  mem'[a] = IF a \in to .. child + W - 1 THEN mem[a - d] ELSE mem[a]
  <2>1. a \in 0 .. Space - 1 /\ to \in child .. child + W /\ to \in 0 .. Space - 1
    BY <1>1, <1>6
  <2>2. CASE a >= to
    <3>1. a - to \in 0 .. Space - 1
      BY <1>1, <2>1, <2>2
    <3>2. Wrap(a - to) = a - to
      BY <3>1, WrapIs
    <3>3. CASE a \in to .. child + W - 1
      <4>1. a - to < used /\ regs.esp + (a - to) = a - d /\ a - d \in 0 .. Space - 1
        BY <1>1, <1>2, <2>1, <3>3
      <4>2. Wrap(regs.esp + (a - to)) = a - d
        BY <4>1, WrapIs
      <4>3. QED
        BY <1>4, <3>2, <3>3, <4>1, <4>2
    <3>4. CASE a \notin to .. child + W - 1
      <4>1. ~ (a - to < used)
        BY <1>1, <1>2, <2>1, <2>2, <3>4
      <4>2. QED
        BY <1>4, <3>2, <3>4, <4>1
    <3>5. QED
      BY <3>3, <3>4
  <2>3. CASE a < to
    <3>1. a - to \in - Space .. -1
      BY <1>1, <2>1, <2>3
    <3>2. Wrap(a - to) = (a - to) + Space
      BY <3>1, WrapIs
    <3>3. ~ ((a - to) + Space < used) /\ a \notin to .. child + W - 1
      BY <1>1, <1>2, <2>1, <2>3
    <3>4. QED
      BY <1>4, <3>2, <3>3
  <2>4. QED
    BY <2>1, <2>2, <2>3
<1>8. mem' \in [Mapped -> 0 .. Space - 1]
  <2> SUFFICES ASSUME NEW a \in Mapped
               PROVE  mem'[a] \in 0 .. Space - 1
    BY <1>4
  <2>1. CASE a \in to .. child + W - 1
    <3>1. a - d \in Page(parent)
      BY <1>1, <2>1 DEF Page
    <3>2. a - d \in Mapped
      BY <3>1, StacksMapped
    <3>3. QED
      BY <1>3, <1>7, <2>1, <3>2
  <2>2. CASE a \notin to .. child + W - 1
    BY <1>3, <1>7, <2>2
  <2>3. QED
    BY <2>1, <2>2
<1>9. QED
  BY <1>5, <1>7, <1>8

(* After an exec the copy faults and changes nothing.                      *)
LEMMA CopyFaults ==
    ASSUME ForkTyped, ~ OnOwnStack, copy
    PROVE  at' = "fault" /\ mem' = mem
<1>1. Copied = 0 /\ used # 0
  BY ExecStack
<1>2. \A a \in Mapped : ~ (Wrap(a - Wrap(child_stack_top - used)) < 0)
  <2>1. \A a \in Mapped : a \in Int
    BY BasesAssumption, SpaceAssumption DEF Mapped, Page
  <2>2. child_stack_top \in Int /\ parent_stack_top \in Int
    BY Layout DEF child_stack_top, parent_stack_top
  <2>3. used \in Int /\ Space \in Nat
    BY <2>2, WrapIs, SpaceAssumption DEF used, ForkTyped
  <2>4. Wrap(child_stack_top - used) \in Int
    BY <2>2, <2>3, WrapIs
  <2>5. QED
    BY <2>1, <2>3, <2>4, WrapIs
<1>3. mem \in [Mapped -> 0 .. Space - 1]
  BY DEF ForkTyped
<1>4. QED
  BY <1>1, <1>2, <1>3 DEF copy

(* The stacks do not move, and the parent's is not written, while ebp and  *)
(* esp stay: what the walk relies on.                                      *)
LEMMA CopyStarts ==
    ASSUME ForkTyped, OnOwnStack, copy
    PROVE  WalkInv'
<1> DEFINE d == child - parent
           W == StackWords
<1>1. /\ W \in Nat \ {0} /\ Space \in Nat /\ parent \in Nat /\ child \in Nat
      /\ parent + W <= child \/ child + W <= parent
      /\ regs.esp \in parent .. parent + W
      /\ d \in Int /\ d # 0
  BY Layout DEF OnOwnStack, parent_stack_top
<1>2. /\ parent' = parent /\ child' = child /\ regs' = regs
      /\ cregs' = [esp |-> Wrap(child_stack_top - used), ebp |-> Wrap(regs.ebp + delta), eax |-> 0]
      /\ frame' = Wrap(regs.ebp + delta)
  BY DEF copy
<1>3. \A a \in Mapped : mem'[a] = IF a \in regs.esp + d .. child + W - 1
                                  THEN mem[a - d] ELSE mem[a]
  BY CopyIs
<1>4. \A a \in Page(parent) : a \in Mapped /\ mem'[a] = mem[a] /\ mem[a] \in Int
  <2> SUFFICES ASSUME NEW a \in Page(parent)
               PROVE  a \in Mapped /\ mem'[a] = mem[a] /\ mem[a] \in Int
    OBVIOUS
  <2>1. a \in Mapped /\ mem[a] \in 0 .. Space - 1
    BY StacksMapped DEF ForkTyped
  <2>2. a \notin regs.esp + d .. child + W - 1
    BY <1>1 DEF Page
  <2>3. QED
    BY <1>1, <1>3, <2>1, <2>2
<1>5. \A a \in regs.esp .. parent + W - 1 : mem'[a + d] = mem[a] /\ a \in Page(parent)
  <2> SUFFICES ASSUME NEW a \in regs.esp .. parent + W - 1
               PROVE  mem'[a + d] = mem[a] /\ a \in Page(parent)
    OBVIOUS
  <2>1. /\ a \in Page(parent) /\ a + d \in Page(child) /\ (a + d) - d = a
        /\ a + d \in regs.esp + d .. child + W - 1
    BY <1>1 DEF Page
  <2>2. a + d \in Mapped
    BY <2>1, StacksMapped
  <2>3. QED
    BY <1>3, <2>1, <2>2
<1>6. Frames' = Frames /\ \A a \in Page(parent) : Pointer(a)' <=> Pointer(a)
  BY <1>2, <1>4, FramesKept
<1>7. cregs'.esp = regs'.esp + (child' - parent')
  BY <1>2, OwnStack
<1>8. (\A a \in regs.esp .. parent_stack_top - 1 : mem[a + (child - parent)] = mem[a])'
  <2>1. \A a \in regs.esp .. parent + W - 1 : mem'[a + d] = mem'[a]
    BY <1>4, <1>5
  <2>2. /\ parent_stack_top' - 1 = parent + W - 1
        /\ regs'.esp = regs.esp /\ child' - parent' = d
    BY <1>1, <1>2 DEF parent_stack_top
  <2>3. QED
    BY <2>1, <2>2
<1>9. regs.ebp \in 0 .. Space - 1
  BY DEF ForkTyped
<1>10. (frame \in Page(child) => frame - (child - parent) \in Frames)'
  <2> SUFFICES ASSUME Wrap(regs.ebp + delta) \in Page(child)
               PROVE  Wrap(regs.ebp + delta) - d \in Frames
    BY <1>2, <1>6 DEF Page
  <2>1. regs.ebp \in Page(parent) /\ Wrap(regs.ebp + delta) = regs.ebp + d
    BY <1>9, DeltaMoves
  <2>2. (regs.ebp + d) - d = regs.ebp
    BY <1>1, <1>9
  <2>3. QED
    BY <2>1, <2>2, FramesClosed
<1>11. Settled(regs.ebp)'
  <2>1. regs.ebp \in Page(parent) => regs.ebp + d = frame'
    BY <1>2, DeltaMoves
  <2>2. Page(parent)' = Page(parent)
    BY <1>2 DEF Page
  <2>3. QED
    BY <1>2, <2>1, <2>2 DEF Settled
<1>12. \A a \in Page(parent) : ~ Moved(a)'
  <2> SUFFICES ASSUME NEW a \in Page(parent), Pointer(a)
               PROVE  mem'[a + d] # mem'[a] + d
    BY <1>2, <1>6 DEF Moved
  <2>1. a \in regs.esp .. parent + W - 1
    BY <1>1 DEF Pointer, IsFrame, parent_stack_top
  <2>2. QED
    BY <1>1, <1>4, <1>5, <2>1
<1>13. Page(parent)' = Page(parent)
  BY <1>2 DEF Page
<1>14. QED
  BY <1>7, <1>8, <1>10, <1>11, <1>12, <1>13 DEF WalkInv

(* An iteration of the loop moves one more pointer of a frame.             *)
LEMMA RelocateKeeps ==
    ASSUME ForkTyped, WalkInv, relocate
    PROVE  ForkTyped' /\ WalkInv' /\ at' = "walk"
<1> DEFINE d == child - parent
           W == StackWords
           x == frame - d
<1>1. OnOwnStack /\ at = "walk" /\ InStack /\ SavedByParent
  BY DEF ForkTyped, relocate
<1>2. /\ W \in Nat \ {0} /\ Space \in Nat /\ parent \in Nat /\ child \in Nat
      /\ parent + W < Space /\ child + W < Space
      /\ parent + W <= child \/ child + W <= parent
      /\ regs.esp \in parent .. parent + W /\ frame \in Int
      /\ d \in Int /\ d # 0
      /\ parent_stack_top = parent + W /\ child_stack_top = child + W
  BY <1>1, Layout DEF OnOwnStack, parent_stack_top, child_stack_top, ForkTyped
<1>3. x \in regs.esp .. parent + W - 2 /\ x + d = frame /\ frame \in Page(child) /\ x \in Page(parent)
  <2>1. child_stack_top - used = regs.esp + d
    BY <1>1, OwnStack
  <2>2. frame >= regs.esp + d /\ frame < child + W - 1
    BY <1>1, <1>2, <2>1 DEF InStack
  <2>3. QED
    BY <1>2, <2>2 DEF Page
<1>4. /\ frame \in Mapped /\ x \in Mapped /\ mem \in [Mapped -> 0 .. Space - 1]
      /\ mem[x] \in 0 .. Space - 1 /\ mem[frame] \in 0 .. Space - 1
  BY <1>3, StacksMapped DEF ForkTyped
<1>5. mem[frame] \in Page(parent)
  BY <1>1 DEF SavedByParent
<1>6. x \in Frames
  BY <1>3 DEF WalkInv
<1>7. mem[frame] = mem[x]
  <2>1. x \in regs.esp .. parent_stack_top - 1
    BY <1>2, <1>3
  <2>2. CASE Moved(x)
    <3>1. mem[frame] = mem[x] + d /\ mem[x] \in Page(parent)
      BY <1>3, <2>2 DEF Moved, Pointer
    <3>2. mem[x] + d \in Page(child)
      BY <3>1, DeltaMoves
    <3>3. QED
      BY <1>5, <3>1, <3>2, StacksMapped
  <2>3. QED
    BY <1>3, <2>1, <2>2 DEF WalkInv
<1>8. Pointer(x) /\ mem[x] \in Page(parent)
  BY <1>2, <1>3, <1>5, <1>7 DEF Pointer, IsFrame
<1>9. Wrap(mem[frame] + delta) = mem[x] + d /\ mem[x] + d \in Page(child)
  BY <1>5, <1>7, DeltaMoves
<1>10. /\ parent' = parent /\ child' = child /\ regs' = regs /\ cregs' = cregs /\ at' = at
       /\ mem' = [mem EXCEPT ![frame] = mem[x] + d]
       /\ frame' = mem[x] + d
  BY <1>4, <1>9 DEF relocate
<1>11. \A a \in Page(parent) : mem'[a] = mem[a] /\ a \in Mapped /\ mem[a] \in Int
  <2> SUFFICES ASSUME NEW a \in Page(parent)
               PROVE  mem'[a] = mem[a] /\ a \in Mapped /\ mem[a] \in Int
    OBVIOUS
  <2>1. a # frame /\ a \in Mapped
    BY <1>3, StacksMapped
  <2>2. mem[a] \in 0 .. Space - 1
    BY <1>4, <2>1
  <2>3. QED
    BY <1>2, <1>4, <1>10, <2>1, <2>2
<1>12. Frames' = Frames /\ \A a \in Page(parent) : Pointer(a)' <=> Pointer(a)
  BY <1>10, <1>11, FramesKept
<1>13. Page(parent)' = Page(parent) /\ Page(child)' = Page(child)
       /\ parent_stack_top' = parent_stack_top
  BY <1>10 DEF Page, parent_stack_top
<1>14. \A a \in Page(parent) : mem'[a + d] = IF a = x THEN mem[x] + d ELSE mem[a + d]
  <2> SUFFICES ASSUME NEW a \in Page(parent)
               PROVE  mem'[a + d] = IF a = x THEN mem[x] + d ELSE mem[a + d]
    OBVIOUS
  <2>1. a + d \in Page(child) /\ (a + d = frame <=> a = x)
    BY <1>2, <1>3 DEF Page
  <2>2. a + d \in Mapped
    BY <2>1, StacksMapped
  <2>3. QED
    BY <1>4, <1>10, <2>1, <2>2
<1>15. \A a \in Page(parent) : Moved(a)' <=> Moved(a) \/ a = x
  <2> SUFFICES ASSUME NEW a \in Page(parent)
               PROVE  Moved(a)' <=> Moved(a) \/ a = x
    OBVIOUS
  <2>1. Moved(a)' <=> Pointer(a) /\ mem'[a + d] = mem[a] + d
    BY <1>10, <1>11, <1>12 DEF Moved
  <2>2. QED
    BY <1>8, <1>14, <2>1 DEF Moved
<1>16. \A z : Settled(z)' <=>
           (z \in Page(parent) => Moved(z) \/ z = x \/ z + d = frame' \/ ~ Pointer(z))
  BY <1>10, <1>12, <1>13, <1>15 DEF Settled
<1>17. \A z : Settled(z) => Settled(z)'
  <2>1. \A z \in Page(parent) : z + d = frame => z = x
    BY <1>2, <1>3 DEF Page
  <2>2. QED
    BY <1>16, <2>1 DEF Settled
<1>18. WalkInv'
  <2>1. (cregs.esp = regs.esp + (child - parent))'
    BY <1>10 DEF WalkInv
  <2>2. ASSUME NEW a \in regs.esp .. parent_stack_top - 1
        PROVE  mem'[a + d] = mem'[a] \/ (a \in Frames' /\ Moved(a)')
    <3>1. a \in Page(parent)
      BY <1>2 DEF Page
    <3>2. CASE a = x
      BY <1>6, <1>12, <1>15, <3>1, <3>2
    <3>3. CASE a # x
      BY <1>11, <1>12, <1>14, <1>15, <3>1, <3>3 DEF WalkInv
    <3>4. QED
      BY <3>2, <3>3
  <2>3. frame' - d \in Frames'
    <3>1. (mem[x] + d) - d = mem[x]
      BY <1>2, <1>4
    <3>2. QED
      BY <1>6, <1>8, <1>10, <1>12, <3>1, FramesClosed
  <2>4. Settled(regs.ebp)'
    <3>1. Settled(regs.ebp)
      BY DEF WalkInv
    <3>2. QED
      BY <1>10, <1>17, <3>1 DEF Settled, Moved, Pointer, Page, IsFrame
  <2>5. ASSUME NEW a \in Page(parent), Moved(a)'
        PROVE  Settled(mem[a])'
    <3>1. CASE a = x
      <4>1. mem[x] + d = frame' /\ mem'[a] = mem[x]
        BY <1>10, <1>11, <3>1
      <4>2. QED
        BY <1>10, <4>1 DEF Settled
    <3>2. CASE Moved(a)
      <4>1. Settled(mem[a])
        BY <3>2 DEF WalkInv
      <4>2. QED
        BY <1>11, <1>17, <4>1 DEF Settled, Moved, Pointer, Page, IsFrame
    <3>3. QED
      BY <1>15, <2>5, <3>1, <3>2
  <2>6. QED
    BY <1>10, <1>13, <2>1, <2>2, <2>3, <2>4, <2>5 DEF WalkInv
<1>19. ForkTyped'
  <2>1. mem' \in [Mapped -> 0 .. Space - 1] /\ frame' \in 0 .. Space - 1
    BY <1>2, <1>4, <1>9, <1>10 DEF Page
  <2>2. Mapped' = Mapped
    BY DEF Mapped, Page
  <2>3. QED
    BY <1>10, <2>1, <2>2 DEF ForkTyped, OnOwnStack, OnExecStack, parent_stack_top
<1>20. QED
  BY <1>1, <1>10, <1>18, <1>19

(* When the loop ends, all frames of the stack have been moved.            *)
LEMMA FinishRelocates ==
    ASSUME ForkTyped, WalkInv, finish
    PROVE  ForkTyped' /\ Relocated' /\ at' = "done"
<1> DEFINE d == child - parent
           W == StackWords
           S == {x \in Page(parent) : Moved(x) \/ ~ Pointer(x)}
<1>1. OnOwnStack /\ at = "walk" /\ ~ (InStack /\ SavedByParent)
  BY DEF ForkTyped, finish
<1>2. /\ W \in Nat \ {0} /\ Space \in Nat /\ parent \in Nat /\ child \in Nat
      /\ regs.esp \in parent .. parent + W /\ frame \in Int
      /\ d \in Int
      /\ parent_stack_top = parent + W /\ child_stack_top = child + W
  BY <1>1, Layout DEF OnOwnStack, parent_stack_top, child_stack_top, ForkTyped
<1>3. child_stack_top - used = regs.esp + d
  BY <1>1, OwnStack
<1>4. \A x \in Page(parent) : Settled(x) => x \in S
  <2> SUFFICES ASSUME NEW x \in Page(parent), x + d = frame, Pointer(x), ~ Moved(x)
               PROVE  FALSE
    BY DEF Settled
  <2>1. x \in regs.esp .. parent + W - 2 /\ mem[x] \in Page(parent)
    BY <1>2 DEF Pointer, IsFrame
  <2>2. InStack
    BY <1>2, <1>3, <2>1 DEF InStack
  <2>3. mem[frame] = mem[x]
    BY <1>2, <2>1 DEF WalkInv
  <2>4. QED
    BY <1>1, <2>1, <2>2, <2>3 DEF SavedByParent
<1>5. Frames \subseteq S
  <2>1. S \in SUBSET Page(parent)
    OBVIOUS
  <2>2. regs.ebp \in Page(parent) => regs.ebp \in S
    BY <1>4 DEF WalkInv
  <2>3. \A x \in S : Pointer(x) => mem[x] \in S
    BY <1>4 DEF WalkInv, Pointer
  <2>4. QED
    BY <2>1, <2>2, <2>3, FramesLeast
<1>6. /\ parent' = parent /\ child' = child /\ mem' = mem /\ cregs' = cregs /\ frame' = frame
      /\ at' = "done" /\ regs' = [regs EXCEPT !.eax = ChildPid]
  BY DEF finish
<1>7. regs'.esp = regs.esp /\ regs'.ebp = regs.ebp
      /\ regs' \in [esp : Int, ebp : 0 .. Space - 1, eax : Int]
  BY <1>6, WordsAssumption DEF ForkTyped
<1>8. Frames' = Frames
  BY <1>6, <1>7, FramesKept
<1>9. ASSUME NEW a \in regs.esp .. parent_stack_top - 1
      PROVE  mem[a - parent + child] = IF a \in Frames /\ IsFrame(a) /\ mem[a] \in Page(parent)
                                       THEN mem[a] - parent + child ELSE mem[a]
  <2>1. a \in Page(parent)
    BY <1>2 DEF Page
  <2>2. mem[a] \in 0 .. Space - 1
    BY <2>1, StacksMapped DEF ForkTyped
  <2>3. a - parent + child = a + d /\ mem[a] - parent + child = mem[a] + d
    BY <1>2, <2>2
  <2>4. CASE a \in Frames /\ Pointer(a)
    <3>1. Moved(a)
      BY <1>5, <2>4
    <3>2. QED
      BY <2>3, <2>4, <3>1 DEF Moved, Pointer
  <2>5. CASE ~ (a \in Frames /\ Pointer(a))
    <3>1. mem[a + d] = mem[a]
      BY <2>5 DEF WalkInv, Moved
    <3>2. QED
      BY <2>3, <2>5, <3>1 DEF Pointer
  <2>6. QED
    BY <2>4, <2>5
<1>10. cregs.esp - child = regs.esp - parent
  BY <1>2 DEF WalkInv
<1>11. Relocated'
  BY <1>6, <1>7, <1>8, <1>9, <1>10 DEF Relocated, parent_stack_top, IsFrame, Page
<1>12. ForkTyped'
  BY <1>1, <1>6, <1>7 DEF ForkTyped, OnOwnStack, OnExecStack, parent_stack_top, Mapped
<1>13. QED
  BY <1>6, <1>11, <1>12

LEMMA ForkInit == Init => ForkInv
<1> SUFFICES ASSUME Init
             PROVE  ForkInv
  OBVIOUS
<1>1. parent \in Bases /\ child \in Bases /\ parent # child /\ frame = 0 /\ at = "call"
  BY DEF Init
<1>2. /\ StackWords \in Nat \ {0} /\ Space \in Nat /\ parent \in Nat
      /\ parent + StackWords < Space /\ ExecBase \in Nat
  BY <1>1, SpaceAssumption, BasesAssumption
<1>3. PICK ebp \in Words \cup Page(parent), exec \in BOOLEAN :
          \E esp \in IF exec THEN ExecBase .. ExecBase + StackWords
                             ELSE parent .. parent + StackWords :
             /\ regs = [esp |-> esp, ebp |-> ebp, eax |-> 0]
             /\ \E stack \in [(IF exec THEN {} ELSE esp .. parent + StackWords - 1)
                                 -> Words \cup Page(parent)] :
                   mem = [a \in Mapped |-> IF a \in DOMAIN stack THEN stack[a] ELSE 0]
  BY DEF Init
<1>4. PICK esp \in IF exec THEN ExecBase .. ExecBase + StackWords
                           ELSE parent .. parent + StackWords :
          /\ regs = [esp |-> esp, ebp |-> ebp, eax |-> 0]
          /\ \E stack \in [(IF exec THEN {} ELSE esp .. parent + StackWords - 1)
                              -> Words \cup Page(parent)] :
                mem = [a \in Mapped |-> IF a \in DOMAIN stack THEN stack[a] ELSE 0]
  BY <1>3
<1>5. Words \cup Page(parent) \subseteq 0 .. Space - 1 /\ 0 \in 0 .. Space - 1
  BY <1>2, WordsAssumption DEF Page
<1>6. mem \in [Mapped -> 0 .. Space - 1]
  <2> DEFINE D == IF exec THEN {} ELSE esp .. parent + StackWords - 1
  <2>1. PICK stack \in [D -> Words \cup Page(parent)] :
            mem = [a \in Mapped |-> IF a \in DOMAIN stack THEN stack[a] ELSE 0]
    BY <1>4
  <2>2. QED
    BY <1>5, <2>1
<1>7. esp \in Int /\ (OnOwnStack \/ OnExecStack)
  BY <1>2, <1>4 DEF OnOwnStack, OnExecStack, parent_stack_top
<1>8. regs \in [esp : Int, ebp : 0 .. Space - 1, eax : Int]
  BY <1>4, <1>5, <1>7
<1>9. QED
  BY <1>1, <1>5, <1>6, <1>7, <1>8 DEF ForkInv, ForkTyped

LEMMA ForkStep == ForkInv /\ [Next]_vars => ForkInv'
<1> SUFFICES ASSUME ForkInv, [Next]_vars
             PROVE  ForkInv'
  OBVIOUS
<1>1. ForkTyped
  BY DEF ForkInv
<1>2. CASE fork_fails
  <2>1. Wrap(-1) \in Int
    BY WrapIs, SpaceAssumption
  <2>2. /\ regs' \in [esp : Int, ebp : 0 .. Space - 1, eax : Int]
        /\ regs'.esp = regs.esp /\ at' = "failed"
    BY <1>1, <1>2, <2>1 DEF fork_fails, ForkTyped
  <2>3. QED
    BY <1>1, <1>2, <2>2 DEF ForkInv, ForkTyped, fork_fails, OnOwnStack, OnExecStack,
                            parent_stack_top, Mapped
<1>3. CASE copy /\ OnOwnStack
  <2>1. at' = "walk" /\ mem' \in [Mapped -> 0 .. Space - 1]
    BY <1>1, <1>3, CopyIs
  <2>2. frame' \in 0 .. Space - 1
    <3>1. regs.ebp \in 0 .. Space - 1
      BY <1>1 DEF ForkTyped
    <3>2. QED
      BY <1>1, <1>3, <3>1, DeltaMoves DEF copy
  <2>3. ForkTyped'
    BY <1>1, <1>3, <2>1, <2>2 DEF ForkTyped, copy, OnOwnStack, OnExecStack, parent_stack_top, Mapped
  <2>4. QED
    BY <1>1, <1>3, <2>1, <2>3, CopyStarts DEF ForkInv
<1>4. CASE copy /\ ~ OnOwnStack
  <2>1. at' = "fault" /\ mem' = mem
    BY <1>1, <1>4, CopyFaults
  <2>2. frame' \in 0 .. Space - 1
    <3>1. regs.ebp \in 0 .. Space - 1
      BY <1>1 DEF ForkTyped
    <3>2. QED
      BY <1>1, <1>4, <3>1, DeltaMoves DEF copy
  <2>3. ForkTyped'
    BY <1>1, <1>4, <2>1, <2>2 DEF ForkTyped, copy, OnOwnStack, OnExecStack, parent_stack_top, Mapped
  <2>4. QED
    BY <2>1, <2>3 DEF ForkInv
<1>5. CASE relocate
  BY <1>1, <1>5, RelocateKeeps DEF ForkInv, relocate
<1>6. CASE finish
  BY <1>1, <1>6, FinishRelocates DEF ForkInv, finish
<1>7. CASE UNCHANGED vars
  <2>1. ForkTyped'
    BY <1>1, <1>7 DEF vars, ForkTyped, OnOwnStack, OnExecStack, parent_stack_top, Mapped
  <2>2. at = "walk" => WalkInv'
    BY <1>7 DEF ForkInv, vars, WalkInv, Settled, Moved, Pointer, IsFrame, Frames, Page, parent_stack_top
  <2>3. at = "done" => Relocated'
    BY <1>7 DEF ForkInv, vars, Relocated, IsFrame, Frames, Page, parent_stack_top
  <2>4. QED
    BY <1>7, <2>1, <2>2, <2>3 DEF ForkInv, vars
<1>8. QED
  BY <1>2, <1>3, <1>4, <1>5, <1>6, <1>7 DEF Next

(* sys_fork(): the invariant of the copy and of the walk holds at every    *)
(* iteration, for every contents of the parent's stack.                    *)
THEOREM ForkIsSound == Spec => []ForkInv
BY ForkInit, ForkStep, PTL DEF Spec

(* sys_fork(): the child's stack is the parent's with exactly the frame    *)
(* pointers moved, for every stack (StackRelocated).                       *)
THEOREM StackIsRelocated == Spec => []StackRelocated
<1>1. ForkInv => StackRelocated
  <2> SUFFICES ASSUME ForkInv
               PROVE  StackRelocated
    OBVIOUS
  <2>1. ForkTyped
    BY DEF ForkInv
  <2>2. ASSUME at = "walk", InStack
        PROVE  frame \in Page(child)
    <3>1. OnOwnStack
      BY <2>1, <2>2 DEF ForkTyped
    <3>2. child_stack_top - used = regs.esp + (child - parent) /\ child_stack_top = child + StackWords
          /\ regs.esp \in parent .. parent + StackWords /\ frame \in Int
      BY <2>1, <3>1, OwnStack DEF child_stack_top, parent_stack_top, OnOwnStack, ForkTyped
    <3>3. QED
      BY <2>1, <2>2, <3>2, Layout DEF InStack, Page
  <2>3. QED
    BY <2>1, <2>2 DEF StackRelocated, ForkInv, ForkTyped, Relocated
<1>2. QED
  BY <1>1, ForkIsSound, PTL

(* sys_fork(): it faults if and only if its caller has left its stack by   *)
(* exec (FaultsAfterExec).                                                 *)
THEOREM FaultsOnlyAfterExec == Spec => []FaultsAfterExec
<1>1. ForkInv => FaultsAfterExec
  BY DEF ForkInv, ForkTyped, FaultsAfterExec
<1>2. QED
  BY <1>1, ForkIsSound, PTL

(* sys_fork() only reads the parent's stack (ParentUntouched).             *)
THEOREM ParentIsUntouched == Spec => ParentUntouched
<1>1. ASSUME ForkInv, [Next]_vars
      PROVE  [\A a \in DOMAIN mem : mem'[a] # mem[a] =>
                 a \in Page(child) /\ a >= child_stack_top - used]_vars
  <2>1. ForkTyped /\ DOMAIN mem = Mapped
    BY <1>1 DEF ForkInv, ForkTyped
  <2>2. CASE copy /\ OnOwnStack
    <3>1. /\ \A a \in Mapped : mem'[a] =
                 IF a \in regs.esp + (child - parent) .. child + StackWords - 1
                 THEN mem[a - (child - parent)] ELSE mem[a]
      BY <2>1, <2>2, CopyIs
    <3>2. child_stack_top - used = regs.esp + (child - parent)
          /\ regs.esp \in parent .. parent + StackWords
      BY <2>1, <2>2, OwnStack DEF OnOwnStack, parent_stack_top
    <3>3. \A a \in regs.esp + (child - parent) .. child + StackWords - 1 :
              a \in Page(child) /\ a >= child_stack_top - used
      BY <2>1, <3>2, Layout DEF Page
    <3>4. QED
      BY <2>1, <3>1, <3>3
  <2>3. CASE copy /\ ~ OnOwnStack
    BY <2>1, <2>3, CopyFaults
  <2>4. CASE relocate
    <3>1. OnOwnStack /\ InStack
      BY <2>1, <2>4 DEF ForkTyped, relocate
    <3>2. child_stack_top - used = regs.esp + (child - parent) /\ child_stack_top = child + StackWords
          /\ regs.esp \in parent .. parent + StackWords /\ frame \in Int
      BY <2>1, <3>1, OwnStack DEF child_stack_top, parent_stack_top, OnOwnStack, ForkTyped
    <3>3. frame \in Page(child) /\ frame >= child_stack_top - used
      BY <2>1, <3>1, <3>2, Layout DEF InStack, Page
    <3>4. QED
      BY <2>1, <2>4, <3>3 DEF relocate
  <2>5. CASE fork_fails \/ finish \/ UNCHANGED vars
    BY <2>5 DEF fork_fails, finish, vars
  <2>6. QED
    BY <1>1, <2>2, <2>3, <2>4, <2>5 DEF Next
<1>2. QED
  BY <1>1, ForkIsSound, PTL DEF Spec, ParentUntouched
=============================================================================
