-------------------------------- MODULE Shell --------------------------------
(***************************************************************************)
(* The system as it is shipped: Process with the programs that really run  *)
(* (user/user_space.c, user/shell.c, user/elf_test.c, user/hello.c).       *)
(*                                                                         *)
(* kernel() starts elf_test and user_main, which starts user_up_time and   *)
(* the shell; the shell forks for the command "hello", the child loads     *)
(* hello and the shell waits.  Two things tie these programs together.     *)
(*                                                                         *)
(* - Both ELF programs are linked to 0x08048000 and run on the page below  *)
(*   USER_STACK_TOP, and there is one address space: once hello is loaded, *)
(*   elf_test finds itself behind the first instructions of hello (its     *)
(*   loop is at 0x08048003), and from then on it and all children that run *)
(*   hello find their return addresses in the same word of the same page.  *)
(* - keyboard_isr executes mov al, 0x20 behind popa, so that every key, and*)
(*   every key let go, changes AL in the code it interrupts.  Which        *)
(*   decisions hang on AL is read off the unoptimised build: the number of *)
(*   a system call on its way to int 0x80 (0x20 is none, and nothing is    *)
(*   done) and its result on the way back.                                 *)
(***************************************************************************)
EXTENDS Process

CONSTANT MaxStrays  \* bound: how often keys lead a process astray

VARIABLES prog,           \* by pid: the program it runs
          image,          \* what lies at 0x08048000
          slot,           \* the return address that hello's calls push, and
                          \* who has last changed this word
          command_ready,  \* "no", or what command[] says once Enter is pressed
          hit,            \* history: the processes that a wrong AL has led
                          \* astray since their last prompt
          strays          \* how often that has happened

shellvars == <<prog, image, slot, command_ready, hit, strays>>
allvars == <<vars, shellvars>>

ASSUME RoomAssumption == MaxProc >= 5
ASSUME StraysAssumption == MaxStrays \in Nat

(***************************************************************************)
(* The points of the programs besides their beginning.                     *)
(*   user_main: the second process is created, the loop of yields.         *)
(*   shell: in user_fork(), in user_wait(), behind it, at the end of a     *)
(*     command, and in the child at user_exec() and at user_exit(1).       *)
(*   hello: its first call, in a call that will return (write_string()),   *)
(*     behind that, in user_exit().                                        *)
(***************************************************************************)
Points == {"second", "yield",
           "fork", "wait", "waited", "clear", "child", "exit1",
           "hello", "call", "rest", "exit"}

ASSUME PointsAssumption == Points \subseteq UserPc /\ EntryPc \notin Points

NewPid == Len(process_list) + 1
Runs(program) == {p \in Procs : prog[p] = program}

\* The process on the CPU is one of P and is at pc.
At(P, pc) == InUser /\ cpu.owner \in P /\ cpu.pc = pc

\* Those that execute the code of the shell, the children until they have
\* loaded hello.
Shells == Runs("shell") \cup Runs("child")
-----------------------------------------------------------------------------
(* kernel(), as far as its processes have a program; memory suffices.      *)

BootStarts ==
    /\ \/ /\ BootCreateElf /\ process_list' # process_list
          /\ prog' = [prog EXCEPT ![NewPid] = "elf_test"]
       \/ /\ BootCreateUser /\ process_list' # process_list
          /\ prog' = [prog EXCEPT ![NewPid] = "user_main"]
       \/ BootHandoff /\ UNCHANGED prog
    /\ UNCHANGED <<image, slot, command_ready, hit, strays>>

\* user_main(): two processes, then it yields for ever.
user_main ==
    /\ \/ /\ At(Runs("user_main"), EntryPc)
          /\ sys_create_process("second")
          /\ prog' = [prog EXCEPT ![NewPid] = "up_time"]
       \/ /\ At(Runs("user_main"), "second")
          /\ sys_create_process("yield")
          /\ prog' = [prog EXCEPT ![NewPid] = "shell"]
       \/ At(Runs("user_main"), "yield") /\ sys_yield /\ UNCHANGED prog
    /\ UNCHANGED <<image, slot, command_ready, hit, strays>>

\* user_up_time(): asks for the seconds and prints them.
user_up_time ==
    /\ At(Runs("up_time"), EntryPc)
    /\ sys_return(EntryPc)
    /\ UNCHANGED shellvars

\* elf_test: an empty loop, as long as its code is there; then hello behind
\* its first instructions.
elf_test ==
    /\ At(Runs("elf_test"), EntryPc)
    /\ image = "hello"
    /\ user_step("hello")
    /\ UNCHANGED shellvars

\* A call in hello pushes the address of what follows it.
HelloCalls(from, to, address) ==
    /\ At(Procs, from)
    /\ user_step(to)
    /\ slot' = [by |-> cpu.owner, to |-> address]
    /\ UNCHANGED <<prog, image, command_ready, hit, strays>>

\* Mutant: the program ends without user_exit().
hello_without_exit ==
    \/ HelloCalls("hello", "call", "rest")
    \/ /\ At(Procs, "call")
       /\ IF slot.to = "rest" THEN sys_return("rest") ELSE fault_handler
       /\ UNCHANGED shellvars
    \/ HelloCalls("rest", "hello", "end")

\* hello: write_string(), user_exit().  A call returns to what the word holds
\* by then: behind write_string(); or behind user_exit(), where _start returns
\* through the word at USER_STACK_TOP, which is not mapped; or to whatever a
\* new page for the stack contained, which is taken for a fault, too.
hello ==
    \/ HelloCalls("hello", "call", "rest")
    \/ /\ At(Procs, "call")
       /\ IF slot.to = "rest" THEN sys_return("rest") ELSE fault_handler
       /\ UNCHANGED shellvars
    \/ HelloCalls("rest", "exit", "end")
    \/ /\ At(Procs, "exit") /\ sys_exit
       /\ UNCHANGED shellvars

\* shell(): without a command it yields; otherwise strcmp() tells hello from
\* the rest, to which also a command belongs that another shell empties in
\* the middle of the comparison.
shell ==
    /\ At(Runs("shell"), EntryPc)
    /\ \/ command_ready = "no" /\ sys_yield
       \/ command_ready = "hello" /\ user_step("fork")
       \/ /\ command_ready # "no"
          /\ command_ready = "other" \/ Runs("shell") # {cpu.owner}
          /\ user_step("clear")
    /\ UNCHANGED shellvars

\* user_fork(), which returns -1 when there is no memory.
user_fork ==
    /\ At(Runs("shell"), "fork")
    /\ \/ /\ sys_fork("wait", "child")
          /\ prog' = [prog EXCEPT ![NewPid] = "child"]
       \/ /\ NewPid > MaxProc
          /\ sys_return("wait")
          /\ UNCHANGED prog
    /\ UNCHANGED <<image, slot, command_ready, hit, strays>>

\* command_exec() in the child: exec loads hello and gives it a new page for
\* its stack; memory suffices for that.  Only if exec is not made it exits.
child ==
    /\ \/ /\ At(Shells, "child") /\ sys_return("hello")
          /\ image' = "hello"
          /\ slot' = [by |-> cpu.owner, to |-> "unknown"]
       \/ At(Shells, "exit1") /\ sys_exit /\ UNCHANGED <<image, slot>>
    /\ UNCHANGED <<prog, command_ready, hit, strays>>

\* user_wait(): again and again until it gets a pid.
user_wait ==
    /\ At(Shells, "wait")
    /\ sys_wait_found("waited") \/ sys_wait_block("wait")
    /\ UNCHANGED shellvars

\* Mutant: command_ready is not reset.
shell_done_kept ==
    /\ At(Shells, "waited") \/ At(Shells, "clear")
    /\ sys_return(EntryPc)
    /\ prog' = [prog EXCEPT ![cpu.owner] = "shell"]
    /\ hit' = hit \ {cpu.owner}
    /\ UNCHANGED <<image, slot, command_ready, strays>>

\* The end of the iteration: the command is cleared and the prompt printed.
\* A child that has come here instead of exiting is a second shell.
shell_done ==
    /\ At(Shells, "waited") \/ At(Shells, "clear")
    /\ sys_return(EntryPc)
    /\ command_ready' = "no"
    /\ prog' = [prog EXCEPT ![cpu.owner] = "shell"]
    /\ hit' = hit \ {cpu.owner}
    /\ UNCHANGED <<image, slot, strays>>

(***************************************************************************)
(* Where a wrong AL takes the process on the CPU: a system call (create,   *)
(* fork, wait, exec, exit) is not made, and what would follow it comes at  *)
(* once; the child's 0 from fork becomes a pid, and it waits; the -1 of    *)
(* wait becomes a pid.  In strcmp() it changes what the command is taken   *)
(* for, which keys may do anyway.  Elsewhere no decision hangs on AL.      *)
(***************************************************************************)
Astray ==
    {to \in UserPc :
        \/ <<cpu.pc, to>> \in {<<"second", "yield">>,
                               <<"fork", "wait">>, <<"wait", "waited">>,
                               <<"child", "wait">>, <<"child", "exit1">>,
                               <<"exit1", "clear">>, <<"exit", "call">>}
        \/ At(Runs("user_main"), EntryPc) /\ to = "second"}

\* A key that is pressed or let go interrupts user code.  It may end the line,
\* or change the one that is being executed.
keyboard_isr ==
    /\ InUser
    /\ \/ sys_return(cpu.pc) /\ UNCHANGED <<hit, strays>>
       \/ /\ strays < MaxStrays
          /\ \E to \in Astray : sys_return(to)
          /\ strays' = strays + 1
          /\ hit' = hit \cup {cpu.owner}
    /\ command_ready' \in {command_ready, "hello", "other"}
    /\ UNCHANGED <<prog, image, slot>>
-----------------------------------------------------------------------------
ShellInit ==
    /\ Init
    /\ prog = [p \in Procs |-> "none"]
    /\ image = "elf_test"
    /\ slot = [by |-> NULL, to |-> "unknown"]
    /\ command_ready = "no"
    /\ hit = {}
    /\ strays = 0

\* What the process on the CPU does next.
UserRuns ==
    \/ user_main \/ user_up_time \/ elf_test \/ hello
    \/ shell \/ user_fork \/ child \/ user_wait \/ shell_done

\* What a mishap leads to is Process's matter and not followed here.
ShellNext ==
    /\ mishaps = {}
    /\ \/ BootStarts
       \/ BootRunsOff /\ UNCHANGED shellvars
       \/ Tick /\ UNCHANGED shellvars
       \/ UserRuns
       \/ keyboard_isr

\* The PIT as in Process.  A time slice of 10 ms is long enough for a process
\* that gets the CPU again and again to go on; the first two, elf_test and
\* user_main, and the boot thread owe nobody a step.
ShellSpec ==
    /\ ShellInit /\ [][ShellNext]_allvars
    /\ WF_allvars(Tick /\ mishaps = {} /\ UNCHANGED shellvars)
    /\ \A p \in Procs \ {1, 2} : SF_allvars(cpu.owner = p /\ mishaps = {} /\ UserRuns)
-----------------------------------------------------------------------------
\* exit_process(), sys_wait(), schedule() and the shared page under the
\* shipped programs: no zombie is made READY and there is always a process to
\* run, whatever keys do to the processes.  The machine stops only when a tick
\* comes before the handoff, or in a hello that a key has kept from exiting or
\* whose return address another process has overwritten.
SystemStaysUp ==
    /\ "zombie_revived" \notin mishaps
    /\ mishaps = {} /\ halted # "no" =>
          /\ halted = "fault"
          /\ cpu.owner = Boot \/ cpu.owner \in hit \/ slot.by # cpu.owner

\* sys_wait() and command_exec(): user_wait() returns only when a child that
\* was forked for a command has exited, whoever else exits or is woken
\* meanwhile, unless a key has led the waiting process astray.  (The child may
\* be that of an earlier command: its zombie is found again.)
PromptAfterChild ==
    mishaps = {} /\ At(Shells, "waited") /\ cpu.owner \notin hit =>
        \E p \in Runs("child") : state[p] = "ZOMBIE" /\ parent[p] = cpu.owner

Place(p) == IF cpu.owner = p THEN cpu.pc ELSE resume[p]

\* p waits for children of which none will exit: each waits itself or has
\* become a shell, or there are none.
WaitsInVain(p) ==
    /\ Place(p) = "wait"
    /\ \A c \in Listed : parent[c] = p =>
          state[c] # "ZOMBIE" /\ (prog[c] = "shell" \/ Place(c) = "wait")

\* shell(), command_exec() and exit_process(): every command is answered with
\* a new prompt, unless the machine has stopped, contexts were mixed up, or a
\* key at fork, wait or exit has left every shell waiting for a child that
\* was not created, waits itself, or has become a shell.
CommandAnswered ==
    command_ready # "no" ~>
        \/ command_ready = "no"
        \/ halted # "no" \/ mishaps # {}
        \/ \A p \in Runs("shell") : WaitsInVain(p)

\* The children that are still on their way to user_exit().
Running == {p \in Runs("child") : state[p] # "ZOMBIE" /\ p \notin hit}

\* sys_fork(), sys_exec() and the scheduler: again and again all children that
\* were forked have run to their end and are zombies, also those the shell did
\* not wait for, unless a key has led them astray or the machine stops.
ChildrenFinish == []<>(Running = {} \/ halted # "no" \/ mishaps # {})
=============================================================================
