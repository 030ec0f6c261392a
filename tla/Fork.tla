-------------------------------- MODULE Fork --------------------------------
(***************************************************************************)
(* The user stack that sys_fork() (kernel/syscall.c) makes for the child:  *)
(* the used part of the parent's stack is copied, then the chain of saved  *)
(* frame pointers is followed and moved to the child's stack.              *)
(*                                                                         *)
(* An address is a word; address arithmetic wraps around, as uint32_t.     *)
(* What is on the parent's stack is up to user code, so every contents,    *)
(* every ebp and every esp inside the stack is explored.  A process that   *)
(* has called exec runs on the page below USER_STACK_TOP, while user_stack *)
(* still names its old stack.  The iterations of the loop are actions; the *)
(* call itself runs with IF = 0.                                           *)
(***************************************************************************)
EXTENDS Integers, FiniteSetsExt

CONSTANTS Space,      \* 2^30: words of the address space
          StackWords, \* 1024: words of a page
          Bases,      \* the pages allocate_page() has handed out
          ExecBase,   \* the page below USER_STACK_TOP
          Words,      \* the words besides stack addresses that are told apart
          ChildPid

ASSUME SpaceAssumption == Space \in Nat /\ StackWords \in Nat \ {0}
ASSUME BasesAssumption ==
    \A b \in Bases \cup {ExecBase} : b \in Nat /\ b % StackWords = 0 /\ b + StackWords < Space
ASSUME WordsAssumption == Words \subseteq 0 .. Space - 1 /\ ChildPid \in Nat

\* The pages of allocate_page() lie behind the kernel, close together, and the
\* stack of exec far above them.
ASSUME ExecFar ==
    \A b, c, d \in Bases :
        ExecBase - b >= c - d + StackWords /\ ExecBase + (c - d) + StackWords <= Space

VARIABLES parent, child,  \* user_stack of both
          mem,            \* the stacks
          regs,           \* user_esp, ebp and eax of the parent
          cregs,          \* the same of the child
          frame,          \* the loop variable
          at              \* where the call is

vars == <<parent, child, mem, regs, cregs, frame, at>>

Page(b) == b .. b + StackWords - 1
Mapped == UNION {Page(b) : b \in Bases \cup {ExecBase}}
Wrap(x) == x % Space

parent_stack_top == parent + StackWords
child_stack_top == child + StackWords
delta == Wrap(child_stack_top - parent_stack_top)

\* Mutant: user_stack is taken for the top of the stack.
used_from_base == Wrap(parent - regs.esp)

\* The used part of the parent's stack, if it is on its own stack.
used == Wrap(parent_stack_top - regs.esp)

\* How many words memcpy() can move before one is not mapped.
Copied ==
    LET bad == {k \in 0 .. used - 1 : \/ Wrap(parent_stack_top - used + k) \notin Mapped
                                      \/ Wrap(child_stack_top - used + k) \notin Mapped}
    IN  IF bad = {} THEN used ELSE Min(bad)

\* create_process() has no memory: -1.
fork_fails ==
    /\ at = "call"
    /\ at' = "failed"
    /\ regs' = [regs EXCEPT !.eax = Wrap(-1)]
    /\ UNCHANGED <<parent, child, mem, cregs, frame>>

\* Mutant: the arguments of memcpy() are swapped.
copy_swapped ==
    /\ at = "call"
    /\ LET from == Wrap(child_stack_top - used)
           to   == Wrap(parent_stack_top - used)
       IN  mem' = [a \in DOMAIN mem |-> IF Wrap(a - to) < Copied
                                        THEN mem[Wrap(from + Wrap(a - to))] ELSE mem[a]]
    /\ cregs' = [esp |-> Wrap(child_stack_top - used), ebp |-> Wrap(regs.ebp + delta), eax |-> 0]
    /\ frame' = Wrap(regs.ebp + delta)
    /\ at' = IF Copied = used THEN "walk" ELSE "fault"
    /\ UNCHANGED <<parent, child, regs>>

\* The copy of the registers and of the used part of the stack.
copy ==
    /\ at = "call"
    /\ LET from == Wrap(parent_stack_top - used)
           to   == Wrap(child_stack_top - used)
       IN  mem' = [a \in DOMAIN mem |-> IF Wrap(a - to) < Copied
                                        THEN mem[Wrap(from + Wrap(a - to))] ELSE mem[a]]
    /\ cregs' = [esp |-> Wrap(child_stack_top - used), ebp |-> Wrap(regs.ebp + delta), eax |-> 0]
    /\ frame' = Wrap(regs.ebp + delta)
    /\ at' = IF Copied = used THEN "walk" ELSE "fault"
    /\ UNCHANGED <<parent, child, regs>>

\* Mutant: one word less.
InStack_short == frame >= child_stack_top - used /\ frame < child_stack_top - 2

\* The condition of the loop: the frame of the entry function, in the last
\* word, has no caller.
InStack == frame >= child_stack_top - used /\ frame < child_stack_top - 1

\* saved_ebp lies in the parent's stack.
SavedByParent == mem[frame] \in Page(parent)

\* Mutant: the moved pointer is followed but not stored.
relocate_unstored ==
    /\ at = "walk" /\ InStack /\ SavedByParent
    /\ frame' = Wrap(mem[frame] + delta)
    /\ UNCHANGED <<parent, child, mem, regs, cregs, at>>

\* An iteration that moves a saved ebp and goes on with the caller's frame.
relocate ==
    /\ at = "walk" /\ InStack /\ SavedByParent
    /\ mem' = [mem EXCEPT ![frame] = Wrap(@ + delta)]
    /\ frame' = mem'[frame]
    /\ UNCHANGED <<parent, child, regs, cregs, at>>

\* The end of the loop, and of the call.
finish ==
    /\ at = "walk" /\ ~(InStack /\ SavedByParent)
    /\ at' = "done"
    /\ regs' = [regs EXCEPT !.eax = ChildPid]
    /\ UNCHANGED <<parent, child, mem, cregs, frame>>
-----------------------------------------------------------------------------
\* A parent on its own stack, or on the one that exec has given it.
Init ==
    /\ parent \in Bases
    /\ child \in Bases \ {parent}
    /\ \E ebp \in Words \cup Page(parent) :
       \E exec \in BOOLEAN :
       \E esp \in IF exec THEN ExecBase .. ExecBase + StackWords
                          ELSE parent .. parent + StackWords :
          /\ regs = [esp |-> esp, ebp |-> ebp, eax |-> 0]
          /\ \E stack \in [(IF exec THEN {} ELSE esp .. parent + StackWords - 1)
                              -> Words \cup Page(parent)] :
                mem = [a \in Mapped |-> IF a \in DOMAIN stack THEN stack[a] ELSE 0]
    /\ cregs = [esp |-> 0, ebp |-> 0, eax |-> 0]
    /\ frame = 0
    /\ at = "call"

Next == fork_fails \/ copy \/ relocate \/ finish

\* The call is not interrupted, so it goes on.
Spec == Init /\ [][Next]_vars /\ WF_vars(Next)
-----------------------------------------------------------------------------
OnOwnStack == regs.esp \in parent .. parent_stack_top

\* The words of the parent's stack that are frames: what is reached from ebp
\* over saved frame pointers, except the last word.
IsFrame(a) == a \in regs.esp .. parent_stack_top - 2
Frames ==
    {a \in Page(parent) :
        \A S \in SUBSET Page(parent) :
            /\ regs.ebp \in Page(parent) => regs.ebp \in S
            /\ \A x \in S : IsFrame(x) /\ mem[x] \in Page(parent) => mem[x] \in S
            => a \in S}

\* sys_fork(): the child's stack is the parent's, with exactly the saved frame
\* pointers moved, whatever is on the stack, cyclic chains included; so the
\* child returns through the same calls, on its own stack.  On the way nothing is
\* read or written outside of the child's stack.
StackRelocated ==
    /\ at = "walk" /\ InStack => frame \in Page(child)
    /\ at = "done" =>
          /\ OnOwnStack
          /\ cregs.esp - child = regs.esp - parent
          /\ \A a \in regs.esp .. parent_stack_top - 1 :
                mem[a - parent + child] =
                    IF a \in Frames /\ IsFrame(a) /\ mem[a] \in Page(parent)
                    THEN mem[a] - parent + child ELSE mem[a]

\* sys_fork(): the parent's stack, like all memory but the used part of the
\* child's, is only read.
ParentUntouched ==
    [][\A a \in DOMAIN mem : mem'[a] # mem[a] =>
          a \in Page(child) /\ a >= child_stack_top - used]_vars

\* sys_fork(): a fork faults if and only if its caller has left its stack by
\* exec: then "used" wraps around.
FaultsAfterExec ==
    /\ at = "fault" => ~ OnOwnStack
    /\ ~ OnOwnStack => at \in {"call", "fault", "failed"}

\* sys_fork(): the walk ends, also when saved frame pointers form a cycle or
\* point downwards, because a word that was moved is not a parent's any more.
ForkReturns == <>(at \in {"done", "failed", "fault"})
=============================================================================
