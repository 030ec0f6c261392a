------------------------------- MODULE Process -------------------------------
(***************************************************************************)
(* The process table, the scheduler and the context switch of mini_kernel  *)
(* (kernel/process.c, kernel/syscall.c, the timer interrupt and the boot   *)
(* thread of kernel/kernel.c), for processes created with PROCESS_USER.    *)
(*                                                                         *)
(* Interrupts and system calls enter through interrupt gates (0x8E, 0xEE), *)
(* so a handler runs with IF = 0 and is one atomic action.  User code and  *)
(* the boot thread kernel() run with IF = 1 and are interleaved with Tick. *)
(*                                                                         *)
(* A context is the data of a registers_t, reduced to whose stack and code *)
(* it continues ("owner") and where ("pc", which stands for eip and eax).  *)
(* A process is named by its pid; the pids are handed out in creation      *)
(* order and nothing outside the tests removes a process.                  *)
(***************************************************************************)
EXTENDS Integers, Sequences, FiniteSetsExt

CONSTANTS MaxProc,     \* bound: how many processes memory has room for
          TickHalf,    \* ticks is a signed int: -TickHalf .. TickHalf - 1
          SleepTimes,  \* the arguments of sys_sleep that are explored
          UserPc,      \* the points of a user program that are told apart
          EntryPc      \* where a new process starts

ASSUME MaxProcAssumption == MaxProc \in Nat \ {0}
ASSUME TickHalfAssumption == TickHalf \in Nat \ {0}
ASSUME SleepAssumption == SleepTimes \subseteq Nat
ASSUME EntryAssumption == EntryPc \in UserPc

VARIABLES process_list,     \* the linked list, head first
          current_process,  \* a pid or NULL
          state, wake, parent,   \* fields of process_t, by pid
          regs,             \* by pid: the registers_t at the top of its kernel stack
          tss_esp0,         \* whose kernel stack tss.esp0 points to
          ticks,
          cpu,              \* the context that is executing
          halted,           \* whether, and why, the CPU reached "cli; hlt"
          resume,           \* history: where each process that is off the CPU
                            \* was suspended
          mishaps           \* history: the events after which contexts mix

vars == <<process_list, current_process, state, wake, parent, regs, tss_esp0,
          ticks, cpu, halted, resume, mishaps>>

NULL == 0
Boot == -1                  \* the boot thread, and its stack at 0x90000
Procs == 1..MaxProc
BootPc == {"start", "switch_mode", "handoff", "lost_esp"}
Contexts == [owner : Procs, pc : UserPc] \cup [owner : {Boot}, pc : BootPc]

\* PROCESS_RUNNING and PROCESS_TERMINATED are never assigned by the kernel;
\* "NONE" is a process_t that has not been created yet.
States == {"NONE", "READY", "BLOCKED", "ZOMBIE"}

Listed == {process_list[k] : k \in DOMAIN process_list}

\* Mutant: wake is wider than ticks.
Signed_unbounded(x) == x

\* Conversion to a signed int of the width of ticks.
Signed(x) == ((x + TickHalf) % (2 * TickHalf)) - TickHalf
-----------------------------------------------------------------------------
(* Helpers of process.c, on an explicit state table st.                    *)

\* Mutant: the walk stops at the last element instead of behind it.
wake_processes_stops_early(st, t) ==
    [p \in Procs |-> IF /\ p \in Listed \ {process_list[Len(process_list)]}
                        /\ st[p] = "BLOCKED" /\ t >= wake[p]
                     THEN "READY" ELSE st[p]]

\* Mutant: the wake time is not looked at.
wake_processes_all(st, t) ==
    [p \in Procs |-> IF p \in Listed /\ st[p] = "BLOCKED" THEN "READY" ELSE st[p]]

\* wake_processes() at time t: every blocked process whose time has come.
wake_processes(st, t) ==
    [p \in Procs |-> IF p \in Listed /\ st[p] = "BLOCKED" /\ t >= wake[p]
                     THEN "READY" ELSE st[p]]

\* The ready processes among the positions K of the list.
ReadyAt(K, st) == {k \in K : st[process_list[k]] = "READY"}

\* Mutant: every search starts at the head of the list.
schedule_from_head(st) ==
    LET others == {k \in ReadyAt(DOMAIN process_list, st) :
                      process_list[k] # current_process}
    IN  IF others = {} THEN NULL ELSE process_list[Min(others)]

\* Mutant: the search skips BLOCKED processes only.
schedule_not_blocked(st) ==
    LET others == {k \in DOMAIN process_list :
                      /\ process_list[k] # current_process
                      /\ st[process_list[k]] # "BLOCKED"}
    IN  IF others = {} THEN NULL ELSE process_list[Min(others)]

\* Mutant: the search does not start again at the head of the list.
schedule_forward_only(st) ==
    LET after == {k \in ReadyAt(DOMAIN process_list, st) : process_list[k] > current_process}
    IN  IF after = {} THEN NULL ELSE process_list[Min(after)]

\* Mutant: the current process may be chosen again.
schedule_current_too(st) ==
    LET ready == ReadyAt(DOMAIN process_list, st)
    IN  IF ready = {} THEN NULL ELSE process_list[Min(ready)]

\* schedule(): the first READY process after the current one, else the first
\* one before it, else NULL.  The current process itself is never returned.
schedule(st) ==
    LET here   == CHOOSE k \in DOMAIN process_list :
                      process_list[k] = current_process
        after  == ReadyAt(here + 1 .. Len(process_list), st)
        before == ReadyAt(1 .. here - 1, st)
    IN  CASE after # {} -> process_list[Min(after)]
          [] after = {} /\ before # {} -> process_list[Min(before)]
          [] OTHER -> NULL

\* Entering the kernel from ring 3 pushes the frame at tss.esp0, and that is
\* where the registers_t of the owner of this kernel stack lies.  From ring 0
\* (the boot thread) the frame goes to the stack in use.
TrapFrame(frame) ==
    IF frame.owner # Boot /\ tss_esp0 # Boot
    THEN [regs EXCEPT ![tss_esp0] = frame]
    ELSE regs

\* What save_context keeps of a frame.  restore_esp does not reload esp of a
\* ring 0 context (popa skips it, iretd pops no stack), so the boot thread's
\* place on its stack is lost.
Saved(frame) == IF frame.owner = Boot THEN [frame EXCEPT !.pc = "lost_esp"]
                                      ELSE frame

\* Leaving the kernel by the frame it was entered with.
return_from_trap(frame) ==
    /\ regs' = TrapFrame(frame)
    /\ cpu' = frame
    /\ UNCHANGED <<current_process, tss_esp0, resume, mishaps>>

\* The owner of frame leaves the CPU to next.
Suspend(frame, next) ==
    [p \in Procs |-> CASE p = next -> EntryPc
                       [] p # next /\ p = frame.owner -> frame.pc
                       [] OTHER -> resume[p]]

\* Mutant: save_context is left out, as if the frame were always at regs.
context_switch_without_save(frame, next) ==
    /\ regs' = TrapFrame(frame)
    /\ current_process' = next
    /\ tss_esp0' = next
    /\ cpu' = regs'[next]
    /\ resume' = Suspend(frame, next)
    /\ mishaps' = IF frame.owner = Boot THEN mishaps \cup {"boot_preempted"}
                  ELSE mishaps

\* Mutant: the write to tss.esp0 is left out.
context_switch_without_esp0(frame, next) ==
    /\ regs' = [TrapFrame(frame) EXCEPT ![current_process] = Saved(frame)]
    /\ current_process' = next
    /\ tss_esp0' = IF tss_esp0 = Boot THEN next ELSE tss_esp0
    /\ cpu' = regs'[next]
    /\ resume' = Suspend(frame, next)
    /\ mishaps' = IF frame.owner = Boot THEN mishaps \cup {"boot_preempted"}
                  ELSE mishaps

\* context_switch(): save_context, the new current process and its esp0,
\* restore_esp.
context_switch(frame, next) ==
    /\ regs' = [TrapFrame(frame) EXCEPT ![current_process] = Saved(frame)]
    /\ current_process' = next
    /\ tss_esp0' = next
    /\ cpu' = regs'[next]
    /\ resume' = Suspend(frame, next)
    /\ mishaps' = IF frame.owner = Boot THEN mishaps \cup {"boot_preempted"}
                  ELSE mishaps

\* schedule() followed by a switch when there is somebody to switch to.
switch_if_ready(frame, st) ==
    LET next == schedule(st)
    IN  \/ next # NULL /\ context_switch(frame, next)
        \/ next = NULL /\ return_from_trap(frame)

\* add_process(): the end of the list; current_process if the list was empty.
add_process(p) ==
    /\ process_list' = Append(process_list, p)
    /\ current_process' = IF process_list = <<>> THEN p ELSE current_process

\* create_process(): the next pid, READY, a child of the current process; its
\* stacks and registers are new memory, and regs is left to the callers.
create_process(p, pc) ==
    /\ p = Len(process_list) + 1
    /\ p <= MaxProc
    /\ add_process(p)
    /\ state' = [state EXCEPT ![p] = "READY"]
    /\ wake' = [wake EXCEPT ![p] = 0]
    /\ parent' = [parent EXCEPT ![p] = current_process]
    /\ resume' = [resume EXCEPT ![p] = pc]
-----------------------------------------------------------------------------
(* System calls (int 0x80) of the user code that is on the CPU.            *)

InUser == halted = "no" /\ cpu.owner # Boot

\* SYS_YIELD.
sys_yield ==
    /\ InUser
    /\ LET st == wake_processes(state, ticks)
       IN  state' = st /\ switch_if_ready(cpu, st)
    /\ UNCHANGED <<process_list, wake, parent, ticks, halted>>

\* SYS_SLEEP: nobody is woken first, and with no ready process the caller
\* goes on running although it is BLOCKED.
sys_sleep(time) ==
    /\ InUser
    /\ wake' = [wake EXCEPT ![current_process] = Signed(ticks + time)]
    /\ LET st == [state EXCEPT ![current_process] = "BLOCKED"]
       IN  state' = st /\ switch_if_ready(cpu, st)
    /\ UNCHANGED <<process_list, parent, ticks, halted>>

\* Mutant: any exited process will do.
ZombieChildren_anyone == {p \in Listed : state[p] = "ZOMBIE"}

\* The exited children of the current process.  A NULL parent compares the
\* word at address 0, which is no pid, and matches nobody.
ZombieChildren == {p \in Listed : parent[p] = current_process /\ state[p] = "ZOMBIE"}

\* SYS_WAIT when a child has exited: its pid is returned at okpc; the zombie
\* stays in the list.
sys_wait_found(okpc) ==
    /\ InUser
    /\ ZombieChildren # {}
    /\ return_from_trap([cpu EXCEPT !.pc = okpc])
    /\ UNCHANGED <<process_list, state, wake, parent, ticks, halted>>

\* SYS_WAIT otherwise: BLOCKED (with the old wake), and -1 is delivered at
\* retrypc when the caller runs again; with no ready process the CPU halts.
sys_wait_block(retrypc) ==
    /\ InUser
    /\ ZombieChildren = {}
    /\ LET frame == [cpu EXCEPT !.pc = retrypc]
           st    == [state EXCEPT ![current_process] = "BLOCKED"]
       IN  /\ state' = st
           /\ \/ /\ schedule(st) # NULL
                 /\ context_switch(frame, schedule(st))
                 /\ UNCHANGED halted
              \/ /\ schedule(st) = NULL
                 /\ halted' = "panic"
                 /\ return_from_trap(frame)
    /\ UNCHANGED <<process_list, wake, parent, ticks>>

\* The table exit_process leaves: the dead process a zombie and its parent,
\* whatever that was doing, READY.
AfterExit ==
    LET dead == [state EXCEPT ![current_process] = "ZOMBIE"]
    IN  IF parent[current_process] = NULL THEN dead
        ELSE [dead EXCEPT ![parent[current_process]] = "READY"]

\* exit_process() goes to the next process without a context_switch, so
\* tss.esp0 keeps pointing to the stack it had.
exit_process ==
    /\ state' = AfterExit
    /\ regs' = TrapFrame(cpu)
    /\ mishaps' = IF \E p \in Procs : state[p] = "ZOMBIE" /\ AfterExit[p] = "READY"
                  THEN mishaps \cup {"zombie_revived"} ELSE mishaps
    /\ \/ /\ schedule(AfterExit) # NULL
          /\ current_process' = schedule(AfterExit)
          /\ cpu' = regs'[schedule(AfterExit)]
          /\ resume' = [resume EXCEPT ![schedule(AfterExit)] = EntryPc]
          /\ UNCHANGED halted
       \/ /\ schedule(AfterExit) = NULL
          /\ halted' = "panic"
          /\ UNCHANGED <<current_process, cpu, resume>>
    /\ UNCHANGED tss_esp0

\* SYS_EXIT; the exit code is left out.
sys_exit ==
    /\ InUser
    /\ exit_process
    /\ UNCHANGED <<process_list, wake, parent, ticks>>

\* SYS_CREATE_PROCESS with PROCESS_USER; the caller goes on at pc.
sys_create_process(pc) ==
    /\ InUser
    /\ LET p == Len(process_list) + 1
           frame == [cpu EXCEPT !.pc = pc]
       IN  /\ create_process(p, EntryPc)
           /\ regs' = [TrapFrame(frame) EXCEPT ![p] = [owner |-> p, pc |-> EntryPc]]
           /\ cpu' = frame
    /\ UNCHANGED <<tss_esp0, ticks, halted, mishaps>>

\* SYS_FORK: the child gets a copy of the caller's frame, on its own stack.
\* The caller continues at parentpc with the pid, the child at childpc with 0.
sys_fork(parentpc, childpc) ==
    /\ InUser
    /\ LET p == Len(process_list) + 1
           frame == [cpu EXCEPT !.pc = parentpc]
       IN  /\ create_process(p, childpc)
           /\ regs' = [TrapFrame(frame) EXCEPT ![p] = [owner |-> p, pc |-> childpc]]
           /\ cpu' = frame
    /\ UNCHANGED <<tss_esp0, ticks, halted, mishaps>>

\* fault_handler(): user code, or a fork that copies the stack of a process
\* which left its own (exec moves user_esp, not user_stack), touches memory
\* that is not mapped.  The frame is pushed and the CPU halts.
fault_handler ==
    /\ InUser
    /\ halted' = "fault"
    /\ return_from_trap(cpu)
    /\ UNCHANGED <<process_list, state, wake, parent, ticks>>

\* Every other system call (printing, pids, malloc and free, exec, a create
\* or fork without memory) and the keyboard interrupt: the frame is pushed,
\* popped, and the same process goes on at pc.
sys_return(pc) ==
    /\ InUser
    /\ return_from_trap([cpu EXCEPT !.pc = pc])
    /\ UNCHANGED <<process_list, state, wake, parent, ticks, halted>>
-----------------------------------------------------------------------------
(* The timer interrupt and the boot thread.                                *)

\* irq0_handler(): it may interrupt user code and the boot thread.
Tick ==
    /\ halted = "no"
    /\ ticks' = Signed(ticks + 1)
    /\ \/ /\ current_process = NULL
          /\ UNCHANGED <<current_process, state, regs, tss_esp0, cpu, resume, mishaps>>
       \/ /\ current_process # NULL
          /\ LET st == wake_processes(state, ticks')
             IN  state' = st /\ switch_if_ready(cpu, st)
    /\ UNCHANGED <<process_list, wake, parent, halted>>

BootAt(pc) == halted = "no" /\ cpu = [owner |-> Boot, pc |-> pc]

BootGoes(pc) == cpu' = [owner |-> Boot, pc |-> pc]

\* A step of kernel() that creates a process, or finds no memory for it.
BootCreate(from, to) ==
    /\ BootAt(from)
    /\ BootGoes(to)
    /\ \/ /\ create_process(Len(process_list) + 1, EntryPc)
          /\ regs' = [regs EXCEPT ![Len(process_list) + 1] =
                          [owner |-> Len(process_list) + 1, pc |-> EntryPc]]
       \/ UNCHANGED <<process_list, current_process, state, wake, parent, regs, resume>>
    /\ UNCHANGED <<tss_esp0, ticks, halted, mishaps>>

\* kernel(): create_elf_process() and, once switch_mode() has timed out, the
\* process of user_main.
BootCreateElf == BootCreate("start", "switch_mode")
BootCreateUser == BootCreate("switch_mode", "handoff")

\* kernel(): restore_esp(current_process) enters the first process; tss.esp0
\* still holds the boot stack.  With no process the NULL is dereferenced.
BootHandoff ==
    /\ BootAt("handoff")
    /\ \/ current_process # NULL /\ cpu' = regs[current_process] /\ UNCHANGED halted
       \/ current_process = NULL /\ halted' = "fault" /\ UNCHANGED cpu
    /\ UNCHANGED <<process_list, current_process, state, wake, parent, regs,
                   tss_esp0, ticks, resume, mishaps>>

\* F10 in switch_mode(): kernel() returns into the code linked behind start,
\* whose iret pops what lies above the boot stack and faults.  The same end
\* has a boot thread that is resumed without its stack pointer.
BootRunsOff ==
    /\ BootAt("switch_mode") \/ BootAt("lost_esp")
    /\ halted' = "fault"
    /\ UNCHANGED <<process_list, current_process, state, wake, parent, regs,
                   tss_esp0, ticks, cpu, resume, mishaps>>

\* User code runs on, to pc.
user_step(pc) ==
    /\ InUser
    /\ cpu' = [cpu EXCEPT !.pc = pc]
    /\ UNCHANGED <<process_list, current_process, state, wake, parent, regs,
                   tss_esp0, ticks, halted, resume, mishaps>>

UserStep == \E pc \in UserPc : user_step(pc)
-----------------------------------------------------------------------------
Init ==
    /\ process_list = <<>>
    /\ current_process = NULL
    /\ state = [p \in Procs |-> "NONE"]
    /\ wake = [p \in Procs |-> 0]
    /\ parent = [p \in Procs |-> NULL]
    /\ regs = [p \in Procs |-> [owner |-> p, pc |-> EntryPc]]
    /\ tss_esp0 = Boot
    /\ ticks = 0
    /\ cpu = [owner |-> Boot, pc |-> "start"]
    /\ halted = "no"
    /\ resume = [p \in Procs |-> EntryPc]
    /\ mishaps = {}

\* The boot thread.
BootNext == BootCreateElf \/ BootCreateUser \/ BootHandoff

\* User code and the calls it makes.
UserNext ==
    \/ UserStep
    \/ sys_yield
    \/ \E time \in SleepTimes : sys_sleep(time)
    \/ \E pc \in UserPc : sys_wait_found(pc) \/ sys_wait_block(pc) \/ sys_return(pc)
    \/ sys_exit
    \/ \E pc \in UserPc : sys_create_process(pc)
    \/ \E parentpc, childpc \in UserPc : sys_fork(parentpc, childpc)
    \/ fault_handler

Next == Tick \/ BootNext \/ BootRunsOff \/ UserNext

\* The PIT keeps interrupting and the boot thread keeps executing; user code
\* owes nobody a step.
Spec == Init /\ [][Next]_vars /\ WF_vars(Tick) /\ WF_vars(BootNext)
-----------------------------------------------------------------------------
\* Types: pids, contexts and the signed tick counter stay in their ranges; the
\* list holds the pids in creation order and contains current_process, which
\* the second loop of schedule() relies on to stop; a parent is older than
\* its children, so that exit_process() never makes the dead process READY.
TypeOK ==
    /\ process_list \in Seq(Procs)
    /\ Len(process_list) <= MaxProc
    /\ \A k \in DOMAIN process_list : process_list[k] = k
    /\ current_process \in Listed \cup {NULL}
    /\ current_process = NULL => process_list = <<>> /\ cpu.owner = Boot
    /\ state \in [Procs -> States]
    /\ wake \in [Procs -> -TickHalf .. TickHalf - 1]
    /\ parent \in [Procs -> Procs \cup {NULL}]
    /\ \A p \in Procs : parent[p] < p
    /\ regs \in [Procs -> Contexts]
    /\ tss_esp0 \in Listed \cup {Boot}
    /\ ticks \in -TickHalf .. TickHalf - 1
    /\ cpu \in Contexts
    /\ halted \in {"no", "panic", "fault"}
    /\ resume \in [Procs -> UserPc]
    /\ mishaps \subseteq {"boot_preempted", "zombie_revived"}

\* schedule() and exit_process(): an exited process never is the current one
\* while the CPU runs.
NoZombieOnCpu ==
    halted = "no" /\ current_process # NULL => state[current_process] # "ZOMBIE"

\* save_context(), restore_esp() and the trap frames: user code executes only
\* as the current process, and a process that is off the CPU and has not
\* exited has exactly the context it was suspended with in its regs, although
\* exit_process() and the boot thread leave tss.esp0 on a stack that is not
\* the running process's.  Two events end this: a tick between the creation
\* of user_main and restore_esp, and a zombie made READY by its child.
ContextsKept ==
    mishaps = {} =>
        /\ cpu.owner \in {Boot, current_process}
        /\ \A p \in Listed :
              /\ state[p] # "ZOMBIE"
              /\ p # cpu.owner
              => regs[p] = [owner |-> p, pc |-> resume[p]]

\* context_switch() sets tss.esp0, exit_process() and the boot thread do not:
\* a trap from user code never pushes its frame on the kernel stack of another
\* process that will run again.
Esp0Safe ==
    mishaps = {} => \/ tss_esp0 \in {Boot, current_process}
                    \/ state[tss_esp0] = "ZOMBIE"

\* irq0_handler(), schedule() and kernel(): ticks may interrupt the boot thread
\* all the time that it waits in switch_mode(), a process being there already;
\* they take the CPU from it for good only between the creation of user_main
\* and restore_esp.
BootLostOnlyAtHandoff ==
    [][\A m \in mishaps' \ mishaps : m = "boot_preempted" => BootAt("handoff")]_vars

\* irq0_handler() and schedule(): every READY process gets the CPU, unless the
\* machine halts or contexts have been mixed up.
ReadyRuns ==
    \A p \in Procs :
        state[p] = "READY" ~> (cpu.owner = p \/ halted # "no" \/ mishaps # {})

\* wake_processes(): a blocked process is made READY again in the end, also
\* across the overflow of ticks.
BlockedWakes ==
    \A p \in Procs : state[p] = "BLOCKED" ~> (state[p] # "BLOCKED" \/ halted # "no")

\* wake_processes(), sys_sleep() and exit_process(): a blocked process becomes
\* READY only when its wake time has come or a child of its exits, never
\* because somebody else was switched, woken, created or waited for.
WokenForAReason ==
    [][\A p \in Procs :
          state[p] = "BLOCKED" /\ state'[p] = "READY" =>
              \/ ticks' >= wake[p]
              \/ \E c \in Listed : /\ parent[c] = p
                                   /\ state[c] # "ZOMBIE"
                                   /\ state'[c] = "ZOMBIE"]_vars

\* exit_process(): once a process has exited it stays a zombie, so that its
\* code never continues.
ZombieStaysDead ==
    [][\A p \in Procs : state[p] = "ZOMBIE" => state'[p] = "ZOMBIE"]_vars

\* schedule(), sys_wait() and exit_process(): the CPU is halted for want of a
\* runnable process only if no process in the list is READY.
PanicMeansNobodyReady == halted = "panic" => \A p \in Listed : state[p] # "READY"
=============================================================================
