# mini_kernel in TLA+

A verification project for mini_kernel, a 32-bit x86 teaching kernel in C and NASM
(`src/`). TLA+ modules model the parts that carry its logic; TLC checks them on small
instances; TLAPS proves the central properties for every size.

## 1. The system

| Part | State | Operations | Interacts with |
|---|---|---|---|
| Process table, scheduler, context switch (`process.c`, `syscall.c`, `restore_esp.asm`, `irqo.asm`, `sycall_handeler.asm`) | `process_list`, `current_process`, per process `state`, `wake`, `parent`, `regs`; `tss.esp0` | create, yield, sleep, wait, exit, fork, timer tick | memory (stacks), boot thread, user code |
| Boot thread `kernel()` (`kernel.c`) | its place in `kernel()` | creates the ELF process and `user_main`, enters the first one | interrupted by the timer |
| Physical frames (`pmm.c` `allocate`, `free`) | the E820 table at 0x504 | best fit, split, merge | used by paging, ELF, exec |
| Heap (`pmm.c` `kmalloc`, `kfree`) | list of blocks, `current_block` | best fit, split, new page | pages; `create_process`, SYS_MALLOC |
| Paging (`pmm.c`) | page directory and tables, `next_virtual`, `free_virtual[]` | map, allocate a page or several, free | frames; stacks, heap |
| Fork's stack copy (`syscall.c`) | the two stacks | copy, relocate the chain of frame pointers | process table |
| ELF loader, exec (`elf.c`, `syscall.c`) | the one address space | check, load segments, enter | frames, paging |
| Console (`vga.c`, `keyboard.c`, `kernel.c`) | cursor `i`, column `j`, screen, `command[]` | print, scroll, keys | every printing call, keyboard interrupt |
| Shell and user programs (`user/`) | `command_ready` | fork, exec, wait | all system calls, keyboard |
| Boot sector (`boot.asm`) | the E820 table, sectors left | E820 loop, LBA loop | BIOS |
| Descriptor tables, PIC, PIT (`idt.c`, `tss.c`, `pit.c`, stubs) | none after set-up | straight-line programming, interrupts enabled half way | devices |

What is hard here. Interrupt and system-call gates clear IF, so handlers are atomic; user
code and the boot thread are not, and the timer can come between any two of their steps.
A context is in one of three places (CPU, trap frame, `regs`), and the kernel stack on
which a trap frame lands is chosen by `tss.esp0`, which `context_switch` updates and
`exit_process` and `kernel()` do not. A process's `state` is written by its own calls, by
the timer and by its children's exits. Resources run out: table entries, frames, pages.
`ticks` overflows. Errors are reported by 0, or not at all. There is one address space: page
tables are written at their physical addresses, the virtual allocator walks over the identity
mapping, and every program is linked to the same address. The hazards, each at its line,
are in `PROJECT.json`.

What makes each part correct: a process resumes exactly where it was suspended, every
READY one runs, a blocked one wakes at its time, an exited one never runs; a frame or a
piece of heap belongs to one owner, and what is given back can be used again; the cursor
stays on the screen; a failed call leaves nothing half done; a loaded program is in memory as
its file says; a forked child has the parent's stack, moved; the boot uses what the BIOS said.

## 2. Modules

### Process (with MCProcess, ProcessProofs)

Processes are pids, in creation order (nothing outside `tests.c` removes one). A context
`[owner, pc]` abstracts `registers_t`: whose stack and code it continues, and where; `pc`
also stands for the value a call returns. `cpu` is the context that executes, `regs[p]`
the one stored for p, `tss_esp0` the owner of the kernel stack in the TSS (`Boot` is the
stack at 0x90000).

- A trap from ring 3 pushes its frame at `tss.esp0`, which is where the `registers_t` of
  that stack's owner lies: `TrapFrame`. From ring 0 (the boot thread) it does not.
- `context_switch` = save_context, new current process, new esp0, restore_esp.
- `exit_process` makes the process a zombie and its parent READY, and restores the next
  process without touching esp0; with nobody READY it halts.
- `sys_sleep`, `sys_wait_found`, `sys_wait_block`, `sys_yield`, `sys_create_process`,
  `sys_fork` are the system calls; all the others (printing, pids, malloc, exec, failed
  create and fork) return to the caller: `sys_return`. `fault_handler` is a fault of user
  code, or of fork copying a stack that exec moved.
- `Tick` is `irq0_handler`; it interrupts user code and the boot thread.
- `BootCreateElf`, `BootCreateUser`, `BootHandoff`, `BootRunsOff` are the rest of
  `kernel()` from the ELF process on; creation may find no memory.

`resume` and `mishaps` are history variables: where each process was suspended, and
whether one of the two events happened after which contexts get mixed (a tick that
switches away from the boot thread; a zombie made READY). Neither guards an action.

`user_step` is user code between two calls; here it may go anywhere (`UserStep`).

Left out: keyboard interrupts (see Shell and Console); exit codes and the status word of wait; PROCESS_KERNEL processes;
`remove_process_list`. A NULL parent in `sys_wait` reads the word at address 0, which is no
pid, and matches nobody.

### FrameMap, PhysMem, Pool (with MCPhysMem, PhysMemProofs)

`FrameMap` has the E820 table as a sequence of `[base, length, type]` and `allocate`, `free` as
operators on a map; `PhysMem` and `Paging` use them. In `PhysMem`, `Allocate` and `Free` are the
steps of callers, who free what they hold; `held` is what was handed out, `call` the last call.
The address is cut to 32 bits (`% AddrLimit`). Assumed of the BIOS: the map is sorted and
disjoint, and usable neighbours are one entry.

`Pool` is the abstract specification of a frame allocator: a set of free addresses and a set of
pieces, one taken or given back as a whole. `ImplementsPool` says that `PhysMem` implements it,
with the free addresses of the map as `avail` and `held` as `taken`; best fit, splits, merges,
the full table and failed calls are all stutters or steps of the pool.

### Paging, Exec (with MCExec, ExecProofs)

`Paging` has page directory and page tables, `next_virtual` and `free_virtual[]` as operators on
a memory record that contains the map of `FrameMap`. All page tables are one function `pte`; a
table that is accessed must still be mapped to itself, else the access faults or hits another
frame (`Access`). `stale` is the set of pages whose translation may be in the TLB after
`free_page`, which does not flush it. `map_page` without a frame for a table does nothing.
`MapEach` is the loop that both `allocate_pages_contig` and `load_segment` have.

`Exec` is the state machine on top: `create_elf_process` (the first call of `kernel()`),
`create_process`, `sys_exec`, `sys_kmalloc`, `sys_exit`, and user code that writes its stack. A
file has the fields the loader looks at and its segments (`Headers`); `phys` holds bytes of
files, zeros, or anything else. Every partial failure is there: `load_segment` that gives up
half way, a kernel stack of which one page is given back, a stack page that is frame 0, an exec
that fails after `eip` was set, and so goes on in the new program with -1. `elf_load_rel` returns nothing; in the unoptimised build EAX
then holds `e_type`. `short`, `table`, `whole`, `loader` and `last` are history. Blocks of the
heap are in `Heap`; here the heap asks for a page or does not. Bytes that were copied before a
fault are left out: nothing runs after it.

Assumed of the machines (`MachinesAssumption`): usable memory starts at page boundaries and ends
below 4 GiB. Of the layout (`LayoutAssumption`): the stack of programs, below 0xBFFFF000, lies
behind the first table, and `next_virtual` has room for a first process; `MaxNext` keeps it in the
first table. Of the programs (`LinkAssumption`): segments lie between the first table and the
stack, share no page, and the entry point is not 0; the four ELF files in `src/user` are linked so (a
file with entry 0 would be loaded and then refused, `elf.c:83`, `syscall.c:212`; that is not covered).
The loader itself checks none of this; segments that share a page are the hazard at `elf.c:57`.

### Fork (with ForkProofs)

The part of `sys_fork` that `Process` abstracts: the copy of the used stack (`copy`) and the
walk over saved frame pointers (`relocate`, one action per iteration), with 32-bit wrap-around,
for every contents of the parent's stack. A caller that has exec'ed is on the page below
`USER_STACK_TOP` while `user_stack` names its old page. Addresses are words; a stack pointer
that is not a multiple of four is left out. `Frames` is the reference definition: the least set
that contains `ebp` and is closed under saved frame pointers. `ExecFar` assumes what
`process.h:9` and `pmm.c:30` give: the stack of exec, below 0xBFFFF000, is far above every page
the virtual allocator has handed out, so that `used` of such a caller is never a small number.

### Boot (with MCBoot, BootProofs)

The boot sector's loops (`do_e820`, `search`, `loopp`, `read_kernel`) against a BIOS that gives
any list, ends it either way, and a disk that may fail at each read; then `kernel()` up to
paging, one action per step of the set-up, with `Interrupt` of any request line wherever IF and
the masks let it through. F10 in `switch_mode` is possible at any time.

### Shell (extends Process; its theorems are in ProcessProofs)

The system as it is shipped: `kernel()` starts `elf_test` and `user_main`, which starts
`user_up_time` and the shell; the command "hello" forks a child, which loads `hello`, and the
shell waits. Its actions are those of `Process`, taken when the program `prog[p]` is at the call;
`PointsAssumption` keeps the points of the programs apart from a process's entry.

Two defects of the code tie the programs together, and both are in the model.

- All ELF programs are linked to 0x08048000 and run on the page below `USER_STACK_TOP`, in one
  address space. `image` is what lies there: when it becomes `hello`, `elf_test`, whose loop is
  at 0x08048003, runs into the rest of `hello`. From then on it and every child push the return
  addresses of `write_string` and `user_exit` into the same word; `slot` is that word and who
  changed it last. A process that is preempted inside a call may so return behind the other call:
  to `user_exit` as it should, behind `user_exit`, where `_start` returns through the unmapped word
  at `USER_STACK_TOP` and faults, or, after another exec has mapped a new page there, to whatever
  that page contains, which is taken for a fault.
- `keyboard_isr` executes `mov al, 0x20` behind `popa`, so every key, and every key let go, changes
  AL in the code it interrupts. `Astray` has the decisions that hang on AL in the unoptimised build:
  the number of a system call on its way to `int 0x80` (0x20 is none of them, so create, fork, wait,
  exec or exit is not made and what follows it comes at once), the child's 0 from fork (it becomes
  a pid, and the child waits like a shell), the -1 of wait (it becomes a pid, and `user_wait`
  returns). In `strcmp` a wrong AL changes what the command is taken for, which the keys themselves
  may do anyway (`command_ready'`). A child whose exec and exit are both not made comes back to the
  loop of the shell and is a second shell. `hit` is the set of processes led astray since their last
  prompt, `strays` how often it happened.

Assumed: memory suffices for the first four programs and for exec (`Exec` has the failures; an exec
that finds none goes on at hello's entry in whatever is there); fork may find none, and then the
shell waits for a child that need not exist. Keys that meet the boot thread before the handoff are
left out, and so is what follows a mishap of `Process`.

### Heap (with MCHeap, HeapProofs)

The list from `heap_head` as a sequence of blocks. `Link` is `current_block->next =
new_page`: everything behind `current_block` falls off the list. `allocate_page` may fail
(`Exhausts`), and then the code works on a block at address 0. `live` is what callers hold.
Page flags are left out. `FitPage` is no assumption of the model: a request between
`PageSize - HeaderSize` and `PageSize` is not refused (`pmm.c:264`); the theorem about pieces
has it as a hypothesis.

### Console (with MCConsole, ConsoleProofs)

The cursor `i`, `j` with the printing calls of `vga.c` (`sys_print`), the keyboard interrupt
(`keyboard_isr`, one action per kind of key) and the shell (`Shell`, one action per access
to `command[]`, `command_index` and `command_ready`). The printing calls and the handler
run with IF = 0 and are atomic; the shell is interrupted between any two steps. What the
cells show is left out; `off` says whether the last print or key wrote off the screen.

Two defects shape the model. `keyboard_isr` loads AL behind `popa`, so the code it
interrupts goes on with AL = 0x20: `clobbered` says that the shell's next step may be hit,
and each step has the outcomes that the unoptimised build allows (a missed poll, a garbled
comparison, a zero written over `j` instead of `command[k]`, a prompt that is not
printed, a wait that ends early). And the handler calls `add_line()` without an argument: `Scrolled` and `KeyFault`
are its outcomes on this state; that it may lower an unrelated word is left out.

The command `Hello` runs a program: `shell_wait` stands for fork, exec and wait. It ends, or it
is "stuck", when there is no child or the child waits itself, from which only another key at one of
its calls frees the shell; the program may also fault (`ProgramFault`). When each of these happens is
in `Shell`. One shell is followed; what two of them make of `command[]` is not modelled.

`executed`, `line` and `disturbed` are history variables: what `command_exec` saw, the keys
of the line, and whether interrupts met it while the shell did not wait for it.

## 3. Runs

| Run | Result | Shows |
|---|---|---|
| process_contexts | pass | `TypeOK`, `ContextsKept`, `Esp0Safe`: contexts survive every interleaving until one of the two mishaps; `ReadyRuns` (liveness) |
| process_scheduling | pass | `NoZombieOnCpu`, `PanicMeansNobodyReady`; `BootLostOnlyAtHandoff`, `WokenForAReason` (action properties); `BlockedWakes` (liveness), across the overflow of `ticks` |
| process_zombie | violation | `ZombieStaysDead`: the exit of a child revives its exited parent (`process.c:266`) |
| shell | pass | With the shipped programs, wrong AL and shared stack page included: `SystemStaysUp` (no zombie is revived; the machine stops only by a tick before the handoff or in a `hello` led astray or with an overwritten return address), `PromptAfterChild`; `CommandAnswered` (unless every shell waits in vain), `ChildrenFinish` (liveness) |
| fork | pass | `StackRelocated` against the reference definition, `FaultsAfterExec`; `ParentUntouched` (action property); `ForkReturns` (termination) |
| physmem | pass | `TypeOK`, `NoOverlap`, `FramesExclusive`, `Coalesced`, `Restored`, `ZeroMeansFailed`; `ImplementsPool` (refinement) |
| exec | pass | `MappingsExclusive`, `FreeListSound`, `IdentityKept`, `ImageInPlace`, `SuccessMeansLoaded` (an exec that reports success has the whole program in memory, although `load_segment` and `map_page` fail silently); `LeaksExplained` (action property), from far too little memory to enough |
| exec_image | violation | `RunningImageKept`: an exec replaces the program another process runs (`syscall.c:209`) |
| heap | pass | `PiecesExclusive`, `BlocksDisjoint`; `ListKept` (action property), also when pages run out |
| console | pass | `QuietLineRuns`: an undisturbed line is executed as typed; `PrintStaysOnScreen` (action property); `EnterIsAnswered` (liveness): unless a fault stops the machine or `user_wait` does not end |
| console_release | violation | `TypedLineRuns`: a key let go during the comparison garbles it (`keyboard_isr.asm:12`) |
| boot | pass | `MapAsReported`, `KernelInPlace`, `InterruptsHandled`; `BootsOrStops` (liveness) |

Bounds. `MaxProc = 3`: exiting, waiting and a third process whose context must survive;
the esp0 left by an exit matters only with two others. `TickHalf = 2` in process_scheduling:
`ticks` wraps after four steps, so every relation of `ticks` and `wake` occurs. When a sleeper
wakes is of no matter to contexts, and process_contexts has `TickHalf = 1`; the theorems hold for
every width. `TickHalf = 4` in process_zombie keeps overflow out of the
counterexample. Two program points tell a lost or swapped
context from a kept one; the scheduling run needs one. `process_contexts` stops exploring
behind a mishap (`UntilMixed`): its invariants promise nothing there, and `ReadyRuns` is met by
every behaviour that gets there; `process_scheduling` goes on. physmem: thirteen pages in two regions and room for eight more entries, so the
table fills before memory does; units are half pages so that a region is no multiple of a
page. heap: pages of 8 units with a header of 1, three pages, at most four pieces held;
sizes that split, that fill a page, and that leave rests too small for any request.
console: a screen of two lines of two, a command of two keys and its terminator, texts
that wrap and scroll more than once; `MaxOff` and `MaxColumn` bound how far keys move the
cursor and `j`, and the typist stops before the end of `command[]`. Two keys and two
positions suffice for a stale character behind a shorter line; one of the two keys is the command
that runs a program.
exec: pages of two units, two processes, six machines with 3 to 15 frames, so that memory ends
in every call, from the first stack to the second program; a program that starts inside a page
and ends in zeros, one with two segments over the same pages, a relocatable file and one that is
refused; the frames of page tables lie in the identity mapping, and `next_virtual` walks over
it as far as to reach them. fork: stacks of four words and all their contents over the
addresses of the stack and two other words: chains of every shape, cycles included. shell: the
four programs and one child (`MaxProc = 5`), so `elf_test` and the child run in the same image and
on the same page, the second command finds no memory for a child and meets the first one's zombie;
one wrong AL (`MaxStrays = 1`), at any call of any process; nobody sleeps, so `TickHalf = 1`. The
theorems have no such bounds. boot: all lists of up to three entries
of five kinds, kernels of 1 to 7 sectors with reads of 3.
Deadlock is not checked where the system really may stop: `cli; hlt`, a fault, the end of a
call (Fork), the end of the boot, all processes exited; `physmem` and `heap` check it.

Fairness. Weak fairness of `Tick` (the PIT keeps interrupting; user code and the boot
thread run with IF = 1) and of the boot thread's steps (the CPU executes instructions).
None is assumed of user code: it may loop for ever. In Console, weak fairness of the
shell's steps: `process_contexts` shows that a READY process runs, `shell` that children which are
not led astray finish, and not every poll can be hit between its two instructions. None is
assumed of a wait that is stuck. In Fork, weak fairness of the call, which
runs with IF = 0. In Boot, weak fairness of the boot thread and of the timer. In Shell, the
fairness of `Tick` and strong fairness of the steps of each process while it has the CPU, but for
the first two, which owe nobody a step: a slice of 10 ms executes many instructions, so a process
that gets the CPU again and again goes on.

## 4. Proofs

All theorems hold for every value of the constants under the named assumptions of the modules.
Each rests on an inductive invariant, which TLC checked as an invariant of the module's run
before it was proved. `SequenceLemmas` has what several of them need: what inserting and
removing at an index yields, that a set of naturals has a least element, and how to reason about
loops. A loop is a recursive function here (`MapEach`, `elf_load_exec`, `print_string`,
`print_number`). The library's theorems about such functions take an operator as a parameter,
which the provers cannot instantiate; `Reaches` states induction over a set of numbers, `Iterates`
that the iterates of a function of steps exist, and `StaysIn` that they stay in a set that the
steps do not leave, all three with sets and functions only.

`ProcessProofs`:

- `TypeCorrect`: `TypeOK`. The parts that matter: the list contains `current_process`, so
  the second loop of `schedule()` stops; a parent is older than its children, so an exit
  does not make the dead process itself READY.
- `NoZombieIsCurrent`: `NoZombieOnCpu`, from `ScheduleReturns` (the scheduler returns
  NULL or a listed READY process other than the current one).
- `PanicOnlyWhenNobodyIsReady`: `PanicMeansNobodyReady`, from `ScheduleFinds` (the scheduler
  returns NULL only if no other process is READY: the two loops miss nobody) and from
  `TypeOK` (a parent is not its own child, so an exiting process stays a zombie).
- `Esp0IsSafe`, `ContextsAreKept`: `ContextsKept` is not inductive, because a trap writes
  its frame to `regs[tss_esp0]`. The inductive invariant is `ContextInv` = `ContextsKept`
  and `Esp0Safe`, relative to the two invariants above: esp0 is on the boot stack, on the
  current process's stack, or on a zombie's, so a pushed frame destroys no context that is
  still needed (`TrapFrameKeeps`); an exit leaves esp0 on a zombie's stack and a zombie
  stays one, unless it is revived, which is a mishap.
- `WokenOnlyForAReason`: the action property `WokenForAReason`, one case per action. It needs
  `Unborn`: an entry that is not in the list is in no state, so that creating a process is not
  a way to wake one.
- `BootIsLostOnlyAtHandoff`: the action property `BootLostOnlyAtHandoff`. `BootInv` ties the
  place of the boot thread to the length of the list (before the handoff there are too few
  processes for `schedule()` to find another) and says that a context of the boot thread that
  was saved for a process is there only after the mishap was recorded.

`PhysMemProofs`, for every map that satisfies `InitialMapAssumption`, every page size,
table size and address width:

- `MapIsKept`: the inductive invariant `MapInv` (entries non-empty, in address order without
  overlaps, within the table, free neighbours merged). `CarveIs` and `MergeIs` say what the
  shifts of the table do element by element; `CarveKeeps`, `MergeKeeps` and `RetypeKeeps`
  that each keeps the order and which pairs it can make mergeable, so that the two
  comparisons of `free` suffice (`MergeAroundKeeps`). `TypeCorrect`, `EntriesNeverOverlap`
  and `FreeIsAlwaysMerged` follow.
- `FramesAreExclusive`, `ZeroIsFailure`: under `LowMemory` (no usable memory above the
  address limit; without it the cut to 32 bits makes both false). `FramesExclusive` is not
  inductive: that a frame comes from usable memory needs that all free entries lie there
  (`Inside`), which in turn needs that only held frames are made free. `FrameInv` is both.
- `MapImplementsPool`: the refinement `ImplementsPool`, step by step, under `LowMemory`. What an
  operation does to the table is shown in terms of addresses: a split takes exactly the frame's
  addresses from the free ones (`CarveAvail`), `free` adds exactly them and merging none
  (`FreeAvail`, `MergeAroundReshapes`).
- `MapIsRestored`: `Restored` under `LowMemory`. `SourceInv` says that every usable address is
  free or held and that taken entries are held or the BIOS's own. With nothing held the map
  describes the same memory as the initial one; `SameMemorySameMap` shows that two sorted and
  merged maps of the same memory are equal entry for entry, by way of the least index at which
  they would differ.

`HeapProofs`, for every page size, header and set of requests, whether or not pages run out:

- `BlocksAreDisjoint`: `BlocksDisjoint` from `ListsInv`, which adds that every block lies inside
  one page: that is why a page added behind `current_block` meets no block, although blocks
  have fallen off the list. The block at address 0 without a page counts as one.
- `PiecesAreExclusive`: `PiecesExclusive`, if requests fit (`FitPage`). Pieces outlive their
  blocks, so the invariant `HeldInv` speaks of both: a piece either is inside its own used
  block or has nothing in common with a block of the list, and lies in one page.
  `TakeIs` says where each block of the new list comes from, and so covers split and whole
  blocks alike.
- `ListIsKept`: the action property `ListKept`.

`ForkProofs`, for every stack size, address width, word and contents of the stack:

- `StackIsRelocated`: `StackRelocated`. During the walk (`WalkInv`) the copy differs from the
  original in moved pointers of frames only, the loop stands at a frame or has left the stack,
  and every pointer that a moved word contains is moved or comes next. When the loop ends the
  moved words are closed under the chain, so by the leastness of `Frames` they are all of it,
  also with cycles and downward pointers.
- `FaultsOnlyAfterExec`: `FaultsAfterExec`. `ExecStack` shows by modular arithmetic that after
  an exec the copy cannot do its first word.
- `ParentIsUntouched`: the action property `ParentUntouched`.

`BootProofs`:

- `MapIsAsReported`: `MapAsReported` for every list a BIOS may give (`TableInv`: the table is the
  answers so far without the ignored ones, in order).
- `KernelIsInPlace`: `KernelInPlace` for every size of kernel and read (`DiskInv`: the sectors
  read are a prefix, each in its place, and address and number of the next read agree).
- `InterruptsAreHandled`: `InterruptsHandled` (`SetUpInv`: what is set up at each step).

`ConsoleProofs`: `QuietLinesRun`, `QuietLineRuns` for every length of `command[]`, every set of
keys and any number of lines. `LineInv`: while nothing disturbed the line its keys are the
first `command_index` characters; from Enter on they are terminated; the shell clears only when
no line waits; AL is right when the comparison starts. What a disturbed line leaves behind is
left open, which is why the invariant is conditional. `PrintingStaysOnScreen`: the action property
`PrintStaysOnScreen` for every screen, text and number: each character keeps the cursor where
`add_line_if_needed` can bring it back by one line, and so does the whole print.

`ExecProofs`, for every machine, every set of programs, any number of processes and of pages of
the heap, wherever memory ends. It uses the lemmas of `PhysMemProofs` about `allocate` and `free`.

- `MemInv(m, O)` is the invariant of a memory of which the pages O belong to stacks and the heap:
  pages in use are on different frames, none of which is a page table, all taken in the map, which
  is sound; what `next_virtual` has not reached is mapped to itself; `free_virtual[]` has unmapped
  pages that O does not contain, each once; no page of O has a stale translation.
- The operations are followed bottom up. `Grown(m, n, M)` says that n is m with new frames for the
  pages M; `map_page`, `MapOne`, `MapEach`, `allocate_page` and `load_segment` are of this kind,
  whether they finish or give up. `Call(m, O, n, P)` adds what the virtual allocator hands out,
  and what `create_process` gives back when it fails half way. Both keep `MemInv` and lose no
  frame unless `short` is set.
- `LoaderInv` is about contents: a segment that was copied is in place, the next one goes to other
  frames, because its pages differ (`LinkAssumption`) and its frames are new; all later writes, to
  new stacks, the heap or a user's stack, are on frames of pages that the program does not have.
- `ExecInvariant`: `ExecInv`, which joins them with the processes (stacks of different processes
  are disjoint and not on the heap) is inductive. `MappingsAreExclusive`, `FreeListIsSound`,
  `IdentityIsKept`, `ImageStaysInPlace` and the action property `LeaksAreExplained` follow.
- `SuccessIsLoaded`: `SuccessMeansLoaded`. `load_segment` and `map_page` do not report that memory
  ran out, and `sys_exec` looks only at its own `allocate` at the end. `NoMore` is why this is
  enough: an `allocate` that fails leaves the map as it is, so once one has failed in a call
  (`short`) the next one fails too; the lemmas about `MapNew`, `MapEach`, segments and files carry it
  to the end of the load. `TellInv`, proved with `ExecInv`, remembers it in the state.
- The proof changed two properties. A stack page may be frame 0, when `create_elf_process` does
  not look at what `allocate` returned (`elf.c:123`): `MappingsExclusive` says so now, and a
  machine with six frames, on which it happens, is among those of the run. A page table that the
  kernel loses is not always one that `next_virtual` walked over: one whose frame lies behind the
  first table was never mapped, so `Beyond` has both.

`ProcessProofs` also has the theorems about the shipped programs (`Shell`), with any number of
processes:

- `ShellImplementsProcess`: `ShellSpec` implies the initial states and the steps of `Process`, so
  the theorems of `ProcessProofs` about safety hold of the shipped system, too.
- `ShippedSystem`: the inductive invariant `ShellInv`, under every wrong AL, any number of them.
  `ProgInv`: who runs what, and in which order they were started. `FamilyInv`: `user_main` stays
  READY, no shell exits, and a child's parent is a shell, which is why no exit revives a zombie.
  `PlaceInv` (`Fits`): each process, on the CPU or saved, is at a point of its program; one behind
  `user_wait` has an exited child or was hit, and one inside a call finds its own return address
  unless it was hit or another process has written the word. It uses
  `ContextsKept`: that a saved process goes on where it stopped is what carries a fact about its
  program point over other processes' steps (`Moves`, `GoesOn`). `SomebodyIsReady`: `user_main` is
  there for `schedule()` to find.
- `SystemIsUp`, `PromptIsAfterChild`: `SystemStaysUp` and `PromptAfterChild`.

Only model-checked: the liveness properties `ReadyRuns`, `BlockedWakes`, `CommandAnswered`,
`ChildrenFinish`, `ForkReturns`, `EnterIsAnswered` and `BootsOrStops`, because fairness and ENABLED
are outside the prover. Every invariant, action property and refinement of a passing run is stated
by a theorem.

The counterexamples of the violation runs are facts about the code, not gaps of the proofs.

## 5. Other behaviour the models have

What the models contain and no property forbids, because the code promises nothing else:
`sys_sleep` of the only runnable process returns at once while it is BLOCKED (`syscall.c:66`);
`sys_wait` halts the machine although the child it waits for only sleeps (`syscall.c:119`); a
tick between the creation of `user_main` and the handoff costs the ELF process its context
(`kernel.c:296`); a block that was split off falls off the heap's list when a page is added and
cannot be freed any more (`pmm.c:290`); without memory `kmalloc` works at address 0 and returns
an address near it (`pmm.c:286`); a BIOS that reports one region, or ends its list with a carry,
is refused (`boot.asm:27`, `boot.asm:36`). Of the shipped programs: a key at the number or the result
of fork, or a fork without memory, leaves the shell waiting for ever; a key at exec and at exit makes
a child a second shell; `elf_test` and a child overwrite each other's return address and one of them
faults, which stops the machine; an exec that finds no page for the stack goes on in the new program
with -1 (`syscall.c:216`).

## 6. Not modelled, and the plan

Not modelled: PROCESS_KERNEL processes and the branch of the first F10, which creates one before
paging is on (Boot ends there); `remove_process`, `remove_process_list` and `unmap_page`, which
nobody but `tests.c` calls; `tests.c`; `program1`, `program2` and `user_test`, which nobody
starts; the bit layout of descriptors; `search`, `inspect` and other printing of diagnostics;
page flags of heap blocks.

The order in which the project was built, most important first: Process; FrameMap and PhysMem
with Pool; Heap; Console; Paging and Exec; Fork; Boot; Shell, which composes Process with the
programs; each with its run before its proofs. What a next step would add: segments that share a
page, without `LinkAssumption`, as a run of its own; the flags of heap pages; a machine on which
`next_virtual` leaves the first table.
