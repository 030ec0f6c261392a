---------------------------- MODULE ProcessProofs ----------------------------
(***************************************************************************)
(* Proofs about Process, for every number of processes, every width of     *)
(* ticks and every set of program points, and, in the last part, about the *)
(* programs that Shell adds.  What is proved of Process uses neither the   *)
(* assumptions nor the definitions of Shell.                               *)
(***************************************************************************)
EXTENDS Shell, SequenceLemmas

(* Conversion to the width of ticks stays in its range.                    *)
LEMMA SignedInRange ==
    ASSUME NEW x \in Int
    PROVE  Signed(x) \in -TickHalf .. TickHalf - 1
<1>1. (x + TickHalf) % (2 * TickHalf) \in 0 .. 2 * TickHalf - 1
  BY TickHalfAssumption
<1>2. QED
  BY <1>1, TickHalfAssumption DEF Signed

(* The list holds the pids 1 .. Len(process_list).                         *)
LEMMA ListedIs ==
    ASSUME TypeOK
    PROVE  /\ Listed = 1 .. Len(process_list)
           /\ Listed \subseteq Procs
           /\ Len(process_list) \in Nat
<1>1. /\ DOMAIN process_list = 1 .. Len(process_list)
      /\ Len(process_list) \in Nat
      /\ Len(process_list) <= MaxProc
      /\ \A k \in DOMAIN process_list : process_list[k] = k
  BY DEF TypeOK
<1>2. Listed = DOMAIN process_list
  BY <1>1 DEF Listed
<1>3. QED
  BY <1>1, <1>2, MaxProcAssumption DEF Procs

(* schedule() returns NULL or a listed READY process that is not current.  *)
LEMMA ScheduleReturns ==
    ASSUME TypeOK, current_process # NULL, NEW st
    PROVE  \/ schedule(st) = NULL
           \/ /\ schedule(st) \in Listed
              /\ schedule(st) # current_process
              /\ schedule(st) # NULL
              /\ st[schedule(st)] = "READY"
<1> DEFINE here   == CHOOSE k \in DOMAIN process_list :
                         process_list[k] = current_process
           after  == ReadyAt(here + 1 .. Len(process_list), st)
           before == ReadyAt(1 .. here - 1, st)
<1>1. here \in DOMAIN process_list /\ process_list[here] = current_process
  BY DEF TypeOK, Listed
<1>2. /\ DOMAIN process_list = 1 .. Len(process_list)
      /\ Len(process_list) \in Nat
      /\ \A k \in DOMAIN process_list : process_list[k] = k
  BY DEF TypeOK
<1>3. after \subseteq Nat /\ before \subseteq Nat
  BY <1>1, <1>2 DEF ReadyAt
<1>4. CASE after # {}
  <2>1. Min(after) \in after
    BY <1>3, <1>4, MinIsLeast
  <2>2. schedule(st) = process_list[Min(after)]
    BY <1>4 DEF schedule
  <2>3. Min(after) \in here + 1 .. Len(process_list) /\ st[process_list[Min(after)]] = "READY"
    BY <2>1 DEF ReadyAt
  <2>4. Min(after) \in DOMAIN process_list /\ Min(after) # here
    <3> HIDE DEF here, after
    <3> QED BY <2>3, <1>1, <1>2
  <2>5. process_list[Min(after)] # current_process /\ process_list[Min(after)] # NULL
    <3> HIDE DEF here, after
    <3> QED BY <2>4, <1>1, <1>2 DEF NULL
  <2>6. QED
    BY <2>2, <2>3, <2>4, <2>5 DEF Listed
<1>5. CASE after = {} /\ before # {}
  <2>1. Min(before) \in before
    BY <1>3, <1>5, MinIsLeast
  <2>2. schedule(st) = process_list[Min(before)]
    BY <1>5 DEF schedule
  <2>3. Min(before) \in 1 .. here - 1 /\ st[process_list[Min(before)]] = "READY"
    BY <2>1 DEF ReadyAt
  <2>4. Min(before) \in DOMAIN process_list /\ Min(before) # here
    <3> HIDE DEF here, before
    <3> QED BY <2>3, <1>1, <1>2
  <2>5. process_list[Min(before)] # current_process /\ process_list[Min(before)] # NULL
    <3> HIDE DEF here, before
    <3> QED BY <2>4, <1>1, <1>2 DEF NULL
  <2>6. QED
    BY <2>2, <2>3, <2>4, <2>5 DEF Listed
<1>6. CASE after = {} /\ before = {}
  BY <1>6 DEF schedule
<1>7. QED
  BY <1>4, <1>5, <1>6

(* schedule() returns NULL only if no other process in the list is READY.  *)
LEMMA ScheduleFinds ==
    ASSUME TypeOK, current_process # NULL, NEW st, schedule(st) = NULL
    PROVE  \A p \in Listed : p # current_process => st[p] # "READY"
<1> DEFINE here   == CHOOSE k \in DOMAIN process_list :
                         process_list[k] = current_process
           after  == ReadyAt(here + 1 .. Len(process_list), st)
           before == ReadyAt(1 .. here - 1, st)
<1>1. here \in DOMAIN process_list /\ process_list[here] = current_process
  BY DEF TypeOK, Listed
<1>2. /\ DOMAIN process_list = 1 .. Len(process_list)
      /\ Len(process_list) \in Nat
      /\ \A k \in DOMAIN process_list : process_list[k] = k
  BY DEF TypeOK
<1>3. after \subseteq DOMAIN process_list /\ before \subseteq DOMAIN process_list
  <2>1. here + 1 .. Len(process_list) \subseteq DOMAIN process_list
    <3> HIDE DEF here
    <3> QED BY <1>1, <1>2
  <2>2. 1 .. here - 1 \subseteq DOMAIN process_list
    <3> HIDE DEF here
    <3> QED BY <1>1, <1>2
  <2>3. QED
    BY <2>1, <2>2 DEF ReadyAt
<1>4. after \subseteq Nat /\ before \subseteq Nat
  BY <1>2, <1>3
<1>5. after = {}
  <2> SUFFICES ASSUME after # {} PROVE FALSE
    OBVIOUS
  <2>1. Min(after) \in after
    BY <1>4, MinIsLeast
  <2>2. schedule(st) = process_list[Min(after)]
    BY DEF schedule
  <2>3. process_list[Min(after)] # NULL
    <3> HIDE DEF after
    <3> QED BY <1>2, <1>3, <2>1 DEF NULL
  <2>4. QED
    BY <2>2, <2>3
<1>6. before = {}
  <2> SUFFICES ASSUME before # {} PROVE FALSE
    OBVIOUS
  <2>1. Min(before) \in before
    BY <1>4, MinIsLeast
  <2>2. schedule(st) = process_list[Min(before)]
    BY <1>5 DEF schedule
  <2>3. process_list[Min(before)] # NULL
    <3> HIDE DEF before
    <3> QED BY <1>2, <1>3, <2>1 DEF NULL
  <2>4. QED
    BY <2>2, <2>3
<1>7. SUFFICES ASSUME NEW k \in DOMAIN process_list, process_list[k] # current_process
               PROVE  st[process_list[k]] # "READY"
  BY DEF Listed
<1>8. k \in here + 1 .. Len(process_list) \/ k \in 1 .. here - 1
  <2> HIDE DEF here
  <2> QED BY <1>1, <1>2, <1>7
<1>9. QED
  BY <1>5, <1>6, <1>8 DEF ReadyAt
-----------------------------------------------------------------------------
(* Type correctness.                                                       *)

(* A user context stays a context when its program point changes.          *)
LEMMA UserContext ==
    ASSUME NEW c \in Contexts, c.owner # Boot, NEW pc \in UserPc
    PROVE  /\ c.owner \in Procs
           /\ c.pc \in UserPc
           /\ [c EXCEPT !.pc = pc] \in Contexts
           /\ [c EXCEPT !.pc = pc].owner = c.owner
           /\ [c EXCEPT !.pc = pc].pc = pc
<1>1. c \in [owner : Procs, pc : UserPc]
  BY DEF Contexts
<1>2. [c EXCEPT !.pc = pc] \in [owner : Procs, pc : UserPc]
  BY <1>1
<1>3. QED
  BY <1>1, <1>2 DEF Contexts

(* What save_context keeps is a context.                                   *)
LEMMA SavedContext ==
    ASSUME NEW c \in Contexts
    PROVE  Saved(c) \in Contexts
<1>1. CASE c.owner = Boot
  <2>1. Boot \notin Procs
    BY MaxProcAssumption DEF Boot, Procs
  <2>2. c \in [owner : {Boot}, pc : BootPc]
    BY <1>1, <2>1 DEF Contexts
  <2>3. Saved(c) \in [owner : {Boot}, pc : BootPc]
    BY <1>1, <2>2 DEF Saved, BootPc
  <2>4. QED
    BY <2>3 DEF Contexts
<1>2. CASE c.owner # Boot
  BY <1>2 DEF Saved
<1>3. QED
  BY <1>1, <1>2

(* Pushing a frame keeps the type of regs and touches one entry at most.   *)
LEMMA TrapFrameIs ==
    ASSUME TypeOK, NEW frame \in Contexts
    PROVE  /\ TrapFrame(frame) \in [Procs -> Contexts]
           /\ \A p \in Procs : p # tss_esp0 => TrapFrame(frame)[p] = regs[p]
           /\ frame.owner = Boot => TrapFrame(frame) = regs
<1>1. regs \in [Procs -> Contexts]
  BY DEF TypeOK
<1>2. QED
  BY <1>1 DEF TrapFrame

(* The part of the type invariant that a switch can disturb.               *)
SwitchTyped ==
    /\ current_process' \in Listed
    /\ regs' \in [Procs -> Contexts]
    /\ tss_esp0' \in Listed \cup {Boot}
    /\ cpu' \in Contexts
    /\ resume' \in [Procs -> UserPc]
    /\ mishaps' \subseteq {"boot_preempted", "zombie_revived"}

(* return_from_trap keeps it.                                              *)
LEMMA ReturnTyped ==
    ASSUME TypeOK, current_process # NULL, NEW frame \in Contexts,
           return_from_trap(frame)
    PROVE  SwitchTyped
<1>1. TrapFrame(frame) \in [Procs -> Contexts]
  BY TrapFrameIs
<1>2. QED
  BY <1>1 DEF return_from_trap, TypeOK, SwitchTyped

(* context_switch keeps it, to any listed process.                         *)
LEMMA ContextSwitchTyped ==
    ASSUME TypeOK, current_process # NULL, NEW frame \in Contexts,
           NEW next \in Listed, context_switch(frame, next)
    PROVE  SwitchTyped
<1>1. next \in Procs /\ current_process \in Procs
  BY ListedIs DEF TypeOK
<1>2. TrapFrame(frame) \in [Procs -> Contexts] /\ Saved(frame) \in Contexts
  BY TrapFrameIs, SavedContext
<1>3. regs' \in [Procs -> Contexts]
  BY <1>2 DEF context_switch
<1>4. cpu' \in Contexts
  BY <1>1, <1>3 DEF context_switch
<1>5. resume' \in [Procs -> UserPc]
  <2>1. ASSUME NEW p \in Procs PROVE resume'[p] \in UserPc
    <3>1. CASE p # next /\ p = frame.owner
      <4>1. frame.owner # Boot
        BY <3>1 DEF Procs, Boot
      <4>2. QED
        BY <3>1, <4>1, UserContext, EntryAssumption DEF context_switch, Suspend
    <3>2. CASE ~ (p # next /\ p = frame.owner)
      BY <3>2, EntryAssumption DEF context_switch, Suspend, TypeOK
    <3>3. QED
      BY <3>1, <3>2
  <2>2. QED
    BY <2>1 DEF context_switch, Suspend
<1>6. mishaps' \subseteq {"boot_preempted", "zombie_revived"}
  BY DEF context_switch, TypeOK
<1>7. QED
  BY <1>3, <1>4, <1>5, <1>6 DEF context_switch, SwitchTyped

(* So does schedule() with the switch it may lead to.                      *)
LEMMA SwitchIfReadyTyped ==
    ASSUME TypeOK, current_process # NULL, NEW frame \in Contexts, NEW st,
           switch_if_ready(frame, st)
    PROVE  SwitchTyped
<1>1. CASE schedule(st) # NULL /\ context_switch(frame, schedule(st))
  <2>1. schedule(st) \in Listed
    BY <1>1, ScheduleReturns
  <2>2. QED
    BY <1>1, <2>1, ContextSwitchTyped
<1>2. CASE schedule(st) = NULL /\ return_from_trap(frame)
  BY <1>2, ReturnTyped
<1>3. QED
  BY <1>1, <1>2 DEF switch_if_ready

(* wake_processes() keeps the type of the state table.                     *)
LEMMA WakeTyped ==
    ASSUME NEW st \in [Procs -> States], NEW t
    PROVE  wake_processes(st, t) \in [Procs -> States]
BY DEF wake_processes, States

(* SYS_CREATE_PROCESS is a fork whose child starts at its entry.           *)
LEMMA CreateIsFork ==
    ASSUME NEW pc, sys_create_process(pc)
    PROVE  sys_fork(pc, EntryPc)
BY DEF sys_create_process, sys_fork

(* The type invariant after a step that creates no process.                *)
LEMMA TypeOKFromSwitch ==
    ASSUME TypeOK, current_process # NULL, SwitchTyped,
           state' \in [Procs -> States],
           wake' \in [Procs -> -TickHalf .. TickHalf - 1],
           ticks' \in -TickHalf .. TickHalf - 1,
           halted' \in {"no", "panic", "fault"},
           UNCHANGED <<process_list, parent>>
    PROVE  TypeOK'
<1>1. Listed' = Listed
  BY DEF Listed
<1>2. current_process' # NULL
  BY ListedIs DEF SwitchTyped, NULL
<1>3. QED
  BY <1>1, <1>2 DEF TypeOK, SwitchTyped

(* create_process() extends the list by the next pid.                      *)
LEMMA CreateTyped ==
    ASSUME TypeOK, NEW p, NEW pc \in UserPc, create_process(p, pc)
    PROVE  /\ p \in Procs
           /\ p \notin Listed
           /\ Listed' = Listed \cup {p}
           /\ process_list' \in Seq(Procs)
           /\ Len(process_list') <= MaxProc
           /\ \A k \in DOMAIN process_list' : process_list'[k] = k
           /\ current_process' \in Listed'
           /\ current_process' # NULL
           /\ state' \in [Procs -> States]
           /\ wake' \in [Procs -> -TickHalf .. TickHalf - 1]
           /\ parent' \in [Procs -> Procs \cup {NULL}]
           /\ \A q \in Procs : parent'[q] < q
           /\ resume' \in [Procs -> UserPc]
<1>1. /\ p = Len(process_list) + 1
      /\ p <= MaxProc
      /\ process_list' = Append(process_list, p)
  BY DEF create_process, add_process
<1>2. /\ process_list \in Seq(Procs)
      /\ Len(process_list) \in Nat
      /\ DOMAIN process_list = 1 .. Len(process_list)
      /\ \A k \in DOMAIN process_list : process_list[k] = k
  BY DEF TypeOK
<1>3. Listed = 1 .. Len(process_list) /\ Listed \subseteq Procs
  BY ListedIs
<1>4. p \in Procs /\ p \notin Listed
  BY <1>1, <1>2, <1>3, MaxProcAssumption DEF Procs
<1>5. /\ process_list' \in Seq(Procs)
      /\ Len(process_list') = p
      /\ DOMAIN process_list' = 1 .. p
      /\ \A k \in 1 .. p : process_list'[k] = k
  BY <1>1, <1>2, <1>4
<1>6. Listed' = 1 .. p
  BY <1>5 DEF Listed
<1>7. Listed' = Listed \cup {p}
  BY <1>1, <1>2, <1>3, <1>6
<1>8. current_process' \in Listed' /\ current_process' # NULL
  <2>1. CASE process_list = <<>>
    <3>1. current_process' = p
      BY <2>1 DEF create_process, add_process
    <3>2. QED
      BY <3>1, <1>1, <1>2, <1>7 DEF NULL
  <2>2. CASE process_list # <<>>
    <3>1. current_process' = current_process /\ current_process \in Listed
      BY <2>2 DEF create_process, add_process, TypeOK
    <3>2. QED
      BY <3>1, <1>3, <1>7 DEF NULL
  <2>3. QED
    BY <2>1, <2>2
<1>9. state' \in [Procs -> States]
  BY DEF create_process, add_process, TypeOK, States
<1>10. wake' \in [Procs -> -TickHalf .. TickHalf - 1]
  <2>1. 0 \in -TickHalf .. TickHalf - 1
    BY TickHalfAssumption
  <2>2. wake \in [Procs -> -TickHalf .. TickHalf - 1]
    BY DEF TypeOK
  <2>3. QED
    BY <2>1, <2>2 DEF create_process, add_process
<1>11. current_process \in Procs \cup {NULL} /\ current_process < p
  <2>1. current_process \in 1 .. Len(process_list) \cup {0}
    BY <1>3 DEF TypeOK, NULL
  <2>2. current_process < p
    BY <2>1, <1>1, <1>2
  <2>3. QED
    BY <2>2, <1>3 DEF TypeOK
<1>12. parent' \in [Procs -> Procs \cup {NULL}] /\ \A q \in Procs : parent'[q] < q
  BY <1>11 DEF create_process, add_process, TypeOK
<1>13. resume' \in [Procs -> UserPc]
  BY DEF create_process, add_process, TypeOK
<1>14. QED
  BY <1>1, <1>4, <1>5, <1>7, <1>8, <1>9, <1>10, <1>12, <1>13

(* Whoever is on the CPU in ring 3, there is a current process.            *)
LEMMA InUserFacts ==
    ASSUME TypeOK, InUser
    PROVE  /\ current_process # NULL
           /\ current_process \in Listed
           /\ current_process \in Procs
           /\ cpu \in Contexts
           /\ cpu.owner # Boot
           /\ cpu.owner \in Procs
           /\ cpu.pc \in UserPc
<1>1. cpu \in Contexts /\ cpu.owner # Boot /\ current_process # NULL
  BY DEF InUser, TypeOK
<1>2. current_process \in Listed /\ current_process \in Procs
  BY <1>1, ListedIs DEF TypeOK
<1>3. cpu.owner \in Procs /\ cpu.pc \in UserPc
  BY <1>1, UserContext, EntryAssumption
<1>4. QED
  BY <1>1, <1>2, <1>3

(* The frame of a system call that goes on at pc.                          *)
LEMMA UserFrame ==
    ASSUME TypeOK, InUser, NEW pc \in UserPc
    PROVE  /\ [cpu EXCEPT !.pc = pc] \in Contexts
           /\ [cpu EXCEPT !.pc = pc].owner = cpu.owner
           /\ [cpu EXCEPT !.pc = pc].owner # Boot
BY InUserFacts, UserContext

(* A new process and its context, next to whatever else happens to regs.   *)
LEMMA TypeOKFromCreate ==
    ASSUME TypeOK, NEW p, NEW pc \in UserPc, create_process(p, pc),
           NEW base \in [Procs -> Contexts],
           regs' = [base EXCEPT ![p] = [owner |-> p, pc |-> pc]],
           cpu' \in Contexts,
           UNCHANGED <<tss_esp0, ticks, halted, mishaps>>
    PROVE  TypeOK'
<1>1. /\ p \in Procs
      /\ Listed' = Listed \cup {p}
      /\ current_process' \in Listed'
      /\ current_process' # NULL
  BY CreateTyped
<1>2. regs' \in [Procs -> Contexts]
  <2>1. [owner |-> p, pc |-> pc] \in Contexts
    BY <1>1 DEF Contexts
  <2>2. QED
    BY <2>1
<1>3. /\ process_list' \in Seq(Procs)
      /\ Len(process_list') <= MaxProc
      /\ \A k \in DOMAIN process_list' : process_list'[k] = k
      /\ state' \in [Procs -> States]
      /\ wake' \in [Procs -> -TickHalf .. TickHalf - 1]
      /\ parent' \in [Procs -> Procs \cup {NULL}]
      /\ \A q \in Procs : parent'[q] < q
      /\ resume' \in [Procs -> UserPc]
  BY CreateTyped
<1>4. /\ tss_esp0' \in Listed' \cup {Boot}
      /\ ticks' \in -TickHalf .. TickHalf - 1
      /\ halted' \in {"no", "panic", "fault"}
      /\ mishaps' \subseteq {"boot_preempted", "zombie_revived"}
  BY <1>1 DEF TypeOK
<1>5. QED
  BY <1>1, <1>2, <1>3, <1>4 DEF TypeOK

(* Every step keeps the type invariant.                                    *)
LEMMA TypeOKStep ==
    ASSUME TypeOK, [Next]_vars
    PROVE  TypeOK'
<1> USE ListedIs
<1>1. CASE sys_yield
  <2>1. PICK st : st = wake_processes(state, ticks) /\ state' = st /\ switch_if_ready(cpu, st)
    BY <1>1 DEF sys_yield
  <2>2. state' \in [Procs -> States]
    BY <2>1, WakeTyped DEF TypeOK
  <2>3. SwitchTyped
    BY <1>1, <2>1, InUserFacts, SwitchIfReadyTyped DEF sys_yield
  <2>4. QED
    BY <1>1, <2>2, <2>3, InUserFacts, TypeOKFromSwitch DEF sys_yield, TypeOK
<1>2. ASSUME NEW time \in SleepTimes, sys_sleep(time) PROVE TypeOK'
  <2>1. PICK st : /\ st = [state EXCEPT ![current_process] = "BLOCKED"]
                  /\ state' = st
                  /\ switch_if_ready(cpu, st)
    BY <1>2 DEF sys_sleep
  <2>2. state' \in [Procs -> States]
    BY <2>1 DEF TypeOK, States
  <2>3. SwitchTyped
    BY <1>2, <2>1, InUserFacts, SwitchIfReadyTyped DEF sys_sleep
  <2>4. wake' \in [Procs -> -TickHalf .. TickHalf - 1]
    <3>1. ticks + time \in Int
      BY SleepAssumption, TickHalfAssumption DEF TypeOK
    <3>2. Signed(ticks + time) \in -TickHalf .. TickHalf - 1
      BY <3>1, SignedInRange
    <3>3. QED
      BY <1>2, <3>2 DEF sys_sleep, TypeOK
  <2>5. QED
    BY <1>2, <2>2, <2>3, <2>4, InUserFacts, TypeOKFromSwitch DEF sys_sleep, TypeOK
<1>3. ASSUME NEW pc \in UserPc, sys_wait_found(pc) PROVE TypeOK'
  <2>1. InUser /\ return_from_trap([cpu EXCEPT !.pc = pc])
    BY <1>3 DEF sys_wait_found
  <2>2. SwitchTyped
    BY <2>1, InUserFacts, UserFrame, ReturnTyped
  <2>3. QED
    BY <1>3, <2>1, <2>2, InUserFacts, TypeOKFromSwitch DEF sys_wait_found, TypeOK
<1>4. ASSUME NEW pc \in UserPc, sys_wait_block(pc) PROVE TypeOK'
  <2> DEFINE frame == [cpu EXCEPT !.pc = pc]
  <2>1. InUser /\ frame \in Contexts
    BY <1>4, UserFrame DEF sys_wait_block
  <2>2. PICK st : /\ st = [state EXCEPT ![current_process] = "BLOCKED"]
                  /\ state' = st
                  /\ \/ schedule(st) # NULL /\ context_switch(frame, schedule(st)) /\ UNCHANGED halted
                     \/ schedule(st) = NULL /\ halted' = "panic" /\ return_from_trap(frame)
    BY <1>4 DEF sys_wait_block
  <2> HIDE DEF frame
  <2>3. state' \in [Procs -> States]
    BY <2>2 DEF TypeOK, States
  <2>4. SwitchTyped
    BY <2>1, <2>2, InUserFacts, SwitchIfReadyTyped DEF switch_if_ready
  <2>5. halted' \in {"no", "panic", "fault"}
    BY <2>2 DEF TypeOK
  <2>6. QED
    BY <1>4, <2>1, <2>3, <2>4, <2>5, InUserFacts, TypeOKFromSwitch DEF sys_wait_block, TypeOK
<1>5. CASE sys_exit
  <2>1. AfterExit \in [Procs -> States]
    BY DEF AfterExit, TypeOK, States
  <2>2. regs' \in [Procs -> Contexts]
    BY <1>5, TrapFrameIs DEF sys_exit, exit_process, TypeOK
  <2>3. /\ current_process' \in Listed /\ cpu' \in Contexts /\ halted' \in {"no", "panic", "fault"}
        /\ resume' \in [Procs -> UserPc]
    <3>1. CASE schedule(AfterExit) # NULL
      <4>1. schedule(AfterExit) \in Listed
        BY <1>5, <3>1, InUserFacts, ScheduleReturns DEF sys_exit, exit_process
      <4>2. resume' \in [Procs -> UserPc] /\ halted' \in {"no", "panic", "fault"}
        BY <1>5, <3>1, EntryAssumption DEF sys_exit, exit_process, TypeOK
      <4>3. cpu' \in Contexts /\ current_process' \in Listed
        BY <1>5, <3>1, <4>1, <2>2, ListedIs DEF sys_exit, exit_process, TypeOK
      <4>4. QED
        BY <4>2, <4>3
    <3>2. CASE schedule(AfterExit) = NULL
      BY <1>5, <3>2, InUserFacts DEF sys_exit, exit_process, TypeOK
    <3>3. QED
      BY <3>1, <3>2
  <2>4. mishaps' \subseteq {"boot_preempted", "zombie_revived"}
    BY <1>5 DEF sys_exit, exit_process, TypeOK
  <2>5. SwitchTyped
    BY <1>5, <2>2, <2>3, <2>4 DEF sys_exit, exit_process, SwitchTyped, TypeOK
  <2>6. QED
    BY <1>5, <2>1, <2>3, <2>5, InUserFacts, TypeOKFromSwitch DEF sys_exit, exit_process, TypeOK
<1>7. ASSUME NEW parentpc \in UserPc, NEW childpc \in UserPc, sys_fork(parentpc, childpc)
      PROVE  TypeOK'
  <2> DEFINE frame == [cpu EXCEPT !.pc = parentpc]
  <2>1. InUser /\ frame \in Contexts /\ frame.owner = cpu.owner
    BY <1>7, UserFrame DEF sys_fork
  <2>2. PICK p : /\ p = Len(process_list) + 1
                 /\ create_process(p, childpc)
                 /\ regs' = [TrapFrame(frame) EXCEPT ![p] = [owner |-> p, pc |-> childpc]]
                 /\ cpu' = frame
    BY <1>7 DEF sys_fork
  <2> HIDE DEF frame
  <2>3. TrapFrame(frame) \in [Procs -> Contexts]
    BY <2>1, TrapFrameIs
  <2>4. QED
    BY <1>7, <2>1, <2>2, <2>3, TypeOKFromCreate DEF sys_fork, TypeOK
<1>6. ASSUME NEW pc \in UserPc, sys_create_process(pc) PROVE TypeOK'
  BY <1>7, <1>6, CreateIsFork, EntryAssumption
<1>8. CASE fault_handler
  <2>1. SwitchTyped
    BY <1>8, InUserFacts, ReturnTyped DEF fault_handler
  <2>2. QED
    BY <1>8, <2>1, InUserFacts, TypeOKFromSwitch DEF fault_handler, TypeOK
<1>9. ASSUME NEW pc \in UserPc, sys_return(pc) PROVE TypeOK'
  <2>1. InUser /\ return_from_trap([cpu EXCEPT !.pc = pc])
    BY <1>9 DEF sys_return
  <2>2. SwitchTyped
    BY <2>1, InUserFacts, UserFrame, ReturnTyped
  <2>3. QED
    BY <1>9, <2>1, <2>2, InUserFacts, TypeOKFromSwitch DEF sys_return, TypeOK
<1>10. CASE Tick
  <2>1. ticks' \in -TickHalf .. TickHalf - 1
    <3>1. ticks + 1 \in Int
      BY TickHalfAssumption DEF TypeOK
    <3>2. QED
      BY <1>10, <3>1, SignedInRange DEF Tick
  <2>2. CASE current_process = NULL
    <3>1. UNCHANGED <<process_list, current_process, state, wake, parent, regs,
                      tss_esp0, cpu, halted, resume, mishaps>>
      BY <1>10, <2>2 DEF Tick
    <3>2. Listed' = Listed
      BY <3>1 DEF Listed
    <3>3. QED
      BY <2>1, <3>1, <3>2 DEF TypeOK
  <2>3. CASE current_process # NULL
    <3>1. PICK st : st = wake_processes(state, ticks') /\ state' = st /\ switch_if_ready(cpu, st)
      BY <1>10, <2>3 DEF Tick
    <3>2. state' \in [Procs -> States]
      BY <3>1, WakeTyped DEF TypeOK
    <3>3. SwitchTyped
      BY <2>3, <3>1, SwitchIfReadyTyped DEF TypeOK
    <3>4. QED
      BY <1>10, <2>1, <2>3, <3>2, <3>3, TypeOKFromSwitch DEF Tick, TypeOK
  <2>4. QED
    BY <2>2, <2>3
<1>11. ASSUME NEW from, NEW to \in BootPc, BootCreate(from, to) PROVE TypeOK'
  <2>1. cpu' \in Contexts /\ cpu'.owner = Boot
    BY <1>11 DEF BootCreate, BootGoes, Contexts
  <2>2. CASE UNCHANGED <<process_list, current_process, state, wake, parent, regs, resume>>
    <3>1. Listed' = Listed
      BY <2>2 DEF Listed
    <3>2. QED
      BY <1>11, <2>1, <2>2, <3>1 DEF BootCreate, TypeOK
  <2>3. CASE /\ create_process(Len(process_list) + 1, EntryPc)
             /\ regs' = [regs EXCEPT ![Len(process_list) + 1] =
                             [owner |-> Len(process_list) + 1, pc |-> EntryPc]]
    BY <1>11, <2>1, <2>3, EntryAssumption, TypeOKFromCreate DEF BootCreate, TypeOK
  <2>4. QED
    BY <1>11, <2>2, <2>3 DEF BootCreate
<1>12. CASE BootHandoff
  <2>1. cpu' \in Contexts /\ halted' \in {"no", "panic", "fault"}
    BY <1>12 DEF BootHandoff, TypeOK
  <2>2. Listed' = Listed
    BY <1>12 DEF BootHandoff, Listed
  <2>3. current_process' = NULL => process_list' = <<>> /\ cpu'.owner = Boot
    BY <1>12 DEF BootHandoff, TypeOK
  <2>4. QED
    BY <1>12, <2>1, <2>2, <2>3 DEF BootHandoff, TypeOK
<1>13. CASE BootRunsOff
  <2>1. Listed' = Listed
    BY <1>13 DEF BootRunsOff, Listed
  <2>2. QED
    BY <1>13, <2>1 DEF BootRunsOff, TypeOK
<1>14. CASE UserStep
  <2>1. cpu' \in Contexts
    BY <1>14, InUserFacts, UserContext DEF UserStep, user_step
  <2>2. Listed' = Listed
    BY <1>14 DEF UserStep, user_step, Listed
  <2>3. QED
    BY <1>14, <2>1, <2>2, InUserFacts DEF UserStep, user_step, TypeOK
<1>15. CASE UNCHANGED vars
  <2>1. Listed' = Listed
    BY <1>15 DEF vars, Listed
  <2>2. QED
    BY <1>15, <2>1 DEF vars, TypeOK
<1>16. QED
  BY <1>1, <1>2, <1>3, <1>4, <1>5, <1>6, <1>7, <1>8, <1>9, <1>10, <1>11, <1>12,
     <1>13, <1>14, <1>15
     DEF Next, BootNext, UserNext, BootCreateElf, BootCreateUser, BootPc

(* The kernel starts in a state of the right types.                        *)
LEMMA InitTyped ==
    ASSUME Init
    PROVE  TypeOK
<1>1. process_list \in Seq(Procs) /\ Len(process_list) = 0 /\ DOMAIN process_list = {}
  BY DEF Init
<1>2. [owner |-> Boot, pc |-> "start"] \in Contexts
  BY DEF Contexts, BootPc
<1>3. \A p \in Procs : [owner |-> p, pc |-> EntryPc] \in Contexts
  BY EntryAssumption DEF Contexts
<1>4. 0 \in -TickHalf .. TickHalf - 1
  BY TickHalfAssumption
<1>5. \A p \in Procs : 0 < p
  BY DEF Procs
<1>6. regs \in [Procs -> Contexts] /\ cpu \in Contexts /\ cpu.owner = Boot
  BY <1>2, <1>3 DEF Init
<1>7. /\ wake \in [Procs -> -TickHalf .. TickHalf - 1]
      /\ ticks \in -TickHalf .. TickHalf - 1
  BY <1>4 DEF Init
<1>8. QED
  BY <1>1, <1>5, <1>6, <1>7, MaxProcAssumption, EntryAssumption
     DEF Init, TypeOK, States, NULL

(* The type invariant holds of every behaviour of the kernel: in particular *)
(* schedule() always starts from a process that is in the list.            *)
THEOREM TypeCorrect == Spec => []TypeOK
<1>1. Init => TypeOK
  BY InitTyped
<1>2. TypeOK /\ [Next]_vars => TypeOK'
  BY TypeOKStep
<1>3. QED
  BY <1>1, <1>2, PTL DEF Spec
-----------------------------------------------------------------------------
(* No exited process is current.                                           *)

(* wake_processes() neither makes nor revives a zombie.                    *)
LEMMA WakeZombies ==
    ASSUME NEW st, NEW t, NEW p \in Procs
    PROVE  wake_processes(st, t)[p] = "ZOMBIE" <=> st[p] = "ZOMBIE"
BY DEF wake_processes

(* After schedule() and its switch the current process is the old one or a *)
(* READY one.                                                              *)
LEMMA SwitchPicks ==
    ASSUME TypeOK, current_process # NULL, NEW frame, NEW st,
           switch_if_ready(frame, st)
    PROVE  current_process' = current_process \/ st[current_process'] = "READY"
<1>1. CASE schedule(st) # NULL /\ context_switch(frame, schedule(st))
  BY <1>1, ScheduleReturns DEF context_switch
<1>2. CASE schedule(st) = NULL /\ return_from_trap(frame)
  BY <1>2 DEF return_from_trap
<1>3. QED
  BY <1>1, <1>2 DEF switch_if_ready

(* Every step keeps exited processes from being current.                   *)
LEMMA NoZombieStep ==
    ASSUME TypeOK, NoZombieOnCpu, [Next]_vars
    PROVE  NoZombieOnCpu'
<1> SUFFICES ASSUME halted' = "no", current_process' # NULL
             PROVE  state'[current_process'] # "ZOMBIE"
  BY DEF NoZombieOnCpu
<1> USE ListedIs
<1>1. CASE sys_yield
  <2>1. PICK st : st = wake_processes(state, ticks) /\ state' = st /\ switch_if_ready(cpu, st)
    BY <1>1 DEF sys_yield
  <2>2. state[current_process] # "ZOMBIE"
    BY <1>1, InUserFacts DEF sys_yield, InUser, NoZombieOnCpu
  <2>3. st[current_process] # "ZOMBIE"
    BY <1>1, <2>1, <2>2, InUserFacts, WakeZombies DEF sys_yield
  <2>4. QED
    BY <1>1, <2>1, <2>3, InUserFacts, SwitchPicks DEF sys_yield
<1>2. ASSUME NEW time \in SleepTimes, sys_sleep(time)
      PROVE  state'[current_process'] # "ZOMBIE"
  <2>1. PICK st : /\ st = [state EXCEPT ![current_process] = "BLOCKED"]
                  /\ state' = st
                  /\ switch_if_ready(cpu, st)
    BY <1>2 DEF sys_sleep
  <2>2. st[current_process] = "BLOCKED"
    BY <1>2, <2>1, InUserFacts DEF sys_sleep, TypeOK
  <2>3. QED
    BY <1>2, <2>1, <2>2, InUserFacts, SwitchPicks DEF sys_sleep
<1>3. ASSUME NEW pc \in UserPc, sys_wait_found(pc)
      PROVE  state'[current_process'] # "ZOMBIE"
  BY <1>3 DEF sys_wait_found, return_from_trap, InUser, NoZombieOnCpu
<1>4. ASSUME NEW pc \in UserPc, sys_wait_block(pc)
      PROVE  state'[current_process'] # "ZOMBIE"
  <2>1. PICK st : /\ st = [state EXCEPT ![current_process] = "BLOCKED"]
                  /\ state' = st
                  /\ \/ schedule(st) # NULL /\ current_process' = schedule(st)
                     \/ halted' = "panic"
    BY <1>4 DEF sys_wait_block, context_switch
  <2>2. QED
    BY <1>4, <2>1, InUserFacts, ScheduleReturns DEF sys_wait_block
<1>5. CASE sys_exit
  <2>1. PICK st : /\ st = AfterExit
                  /\ state' = st
                  /\ \/ schedule(st) # NULL /\ current_process' = schedule(st)
                     \/ halted' = "panic"
    BY <1>5 DEF sys_exit, exit_process
  <2>2. QED
    BY <1>5, <2>1, InUserFacts, ScheduleReturns DEF sys_exit, exit_process
<1>6. ASSUME NEW p, NEW pc \in UserPc, create_process(p, pc), halted = "no"
      PROVE  state'[current_process'] # "ZOMBIE"
  <2>1. p \in Procs /\ state \in [Procs -> States]
    BY <1>6, CreateTyped DEF TypeOK
  <2>2. CASE process_list = <<>>
    BY <1>6, <2>1, <2>2 DEF create_process, add_process
  <2>3. CASE process_list # <<>>
    BY <1>6, <2>1, <2>3 DEF create_process, add_process, NoZombieOnCpu, TypeOK
  <2>4. QED
    BY <2>2, <2>3
<1>8. ASSUME NEW parentpc \in UserPc, NEW childpc \in UserPc, sys_fork(parentpc, childpc)
      PROVE  state'[current_process'] # "ZOMBIE"
  BY <1>6, <1>8 DEF sys_fork, InUser
<1>7. ASSUME NEW pc \in UserPc, sys_create_process(pc) PROVE state'[current_process'] # "ZOMBIE"
  BY <1>8, <1>7, CreateIsFork, EntryAssumption
<1>9. CASE fault_handler
  BY <1>9 DEF fault_handler
<1>10. ASSUME NEW pc \in UserPc, sys_return(pc)
       PROVE  state'[current_process'] # "ZOMBIE"
  BY <1>10 DEF sys_return, return_from_trap, InUser, NoZombieOnCpu
<1>11. CASE Tick
  <2>1. CASE current_process = NULL
    BY <1>11, <2>1 DEF Tick
  <2>2. CASE current_process # NULL
    <3>1. PICK st : st = wake_processes(state, ticks') /\ state' = st /\ switch_if_ready(cpu, st)
      BY <1>11, <2>2 DEF Tick
    <3>2. current_process \in Procs /\ state[current_process] # "ZOMBIE"
      BY <1>11, <2>2 DEF Tick, NoZombieOnCpu, TypeOK
    <3>3. st[current_process] # "ZOMBIE"
      BY <3>1, <3>2, WakeZombies
    <3>4. QED
      BY <2>2, <3>1, <3>3, SwitchPicks
  <2>3. QED
    BY <2>1, <2>2
<1>12. ASSUME NEW from, NEW to, BootCreate(from, to)
       PROVE  state'[current_process'] # "ZOMBIE"
  <2>1. halted = "no"
    BY <1>12 DEF BootCreate, BootAt
  <2>2. CASE create_process(Len(process_list) + 1, EntryPc)
    BY <1>6, <2>1, <2>2, EntryAssumption
  <2>3. CASE UNCHANGED <<current_process, state>>
    BY <2>1, <2>3 DEF NoZombieOnCpu
  <2>4. QED
    BY <1>12, <2>2, <2>3 DEF BootCreate
<1>13. CASE BootHandoff
  BY <1>13 DEF BootHandoff, NoZombieOnCpu
<1>14. CASE BootRunsOff
  BY <1>14 DEF BootRunsOff
<1>15. CASE UserStep
  BY <1>15 DEF UserStep, user_step, InUser, NoZombieOnCpu
<1>16. CASE UNCHANGED vars
  BY <1>16 DEF vars, NoZombieOnCpu
<1>17. QED
  BY <1>1, <1>2, <1>3, <1>4, <1>5, <1>7, <1>8, <1>9, <1>10, <1>11, <1>12, <1>13,
     <1>14, <1>15, <1>16
     DEF Next, BootNext, UserNext, BootCreateElf, BootCreateUser

(* schedule() and exit_process() never leave an exited process current     *)
(* while the CPU runs, for any number of processes.                        *)
THEOREM NoZombieIsCurrent == Spec => []NoZombieOnCpu
<1>1. Init => NoZombieOnCpu
  BY DEF Init, NoZombieOnCpu
<1>2. TypeOK /\ NoZombieOnCpu /\ [Next]_vars => NoZombieOnCpu'
  BY NoZombieStep
<1>3. QED
  BY <1>1, <1>2, TypeCorrect, PTL DEF Spec
-----------------------------------------------------------------------------
(* The machine halts for want of a runnable process only if there is none. *)

(* Every step keeps this: only sys_wait() and exit_process() halt with     *)
(* "panic", and then the CPU has stopped.                                  *)
LEMMA PanicStep ==
    ASSUME TypeOK, PanicMeansNobodyReady, [Next]_vars
    PROVE  PanicMeansNobodyReady'
<1> SUFFICES ASSUME halted' = "panic"
             PROVE  \A p \in Listed' : state'[p] # "READY"
  BY DEF PanicMeansNobodyReady
<1>1. ASSUME NEW pc \in UserPc, sys_wait_block(pc), halted = "no"
      PROVE  \A p \in Listed' : state'[p] # "READY"
  <2>1. PICK st : /\ st = [state EXCEPT ![current_process] = "BLOCKED"]
                  /\ state' = st
                  /\ schedule(st) = NULL
    BY <1>1 DEF sys_wait_block
  <2>2. current_process \in Procs /\ current_process # NULL /\ Listed' = Listed
    BY <1>1, InUserFacts, ListedIs DEF sys_wait_block, Listed
  <2>3. st[current_process] = "BLOCKED"
    BY <2>1, <2>2 DEF TypeOK
  <2>4. QED
    BY <2>1, <2>2, <2>3, ScheduleFinds
<1>2. CASE sys_exit /\ halted = "no"
  <2>1. state' = AfterExit /\ schedule(AfterExit) = NULL
    BY <1>2 DEF sys_exit, exit_process
  <2>2. current_process \in Procs /\ current_process # NULL /\ Listed' = Listed
    BY <1>2, InUserFacts, ListedIs DEF sys_exit, Listed
  <2>3. AfterExit[current_process] = "ZOMBIE"
    <3>1. state \in [Procs -> States] /\ parent[current_process] \in Procs \cup {NULL}
      BY <2>2 DEF TypeOK
    <3>2. parent[current_process] # current_process
      BY <2>2, <3>1, MaxProcAssumption DEF TypeOK, Procs, NULL
    <3>3. QED
      BY <2>2, <3>1, <3>2 DEF AfterExit
  <2>4. QED
    BY <2>1, <2>2, <2>3, ScheduleFinds
<1>3. CASE UNCHANGED vars
  BY <1>3 DEF vars, PanicMeansNobodyReady, Listed
<1>4. ASSUME Next
      PROVE  halted = "no" /\ ((\E pc \in UserPc : sys_wait_block(pc)) \/ sys_exit)
  BY <1>4 DEF Next, BootNext, UserNext, BootCreateElf, BootCreateUser, BootCreate, BootAt,
        BootHandoff, BootRunsOff, Tick, UserStep, user_step, InUser, sys_yield, sys_sleep, sys_wait_found,
        sys_wait_block, sys_exit, sys_create_process, sys_fork, fault_handler, sys_return
<1>5. QED
  BY <1>1, <1>2, <1>3, <1>4

(* schedule(), sys_wait() and exit_process(): for any number of processes  *)
(* the CPU is stopped for want of a process only if none is READY.         *)
THEOREM PanicOnlyWhenNobodyIsReady == Spec => []PanicMeansNobodyReady
<1>1. Init => PanicMeansNobodyReady
  BY DEF Init, PanicMeansNobodyReady
<1>2. TypeOK /\ PanicMeansNobodyReady /\ [Next]_vars => PanicMeansNobodyReady'
  BY PanicStep
<1>3. QED
  BY <1>1, <1>2, TypeCorrect, PTL DEF Spec
-----------------------------------------------------------------------------
(* Contexts are kept.  ContextsKept is not inductive alone: a trap writes  *)
(* its frame to regs[tss_esp0], so it needs Esp0Safe, and exit_process()   *)
(* and the handoff need that the current process is no zombie.             *)
ContextInv == ContextsKept /\ Esp0Safe

(* Zombies are the same before and after: the step neither exits nor       *)
(* revives a process.                                                      *)
SameZombies == \A p \in Procs : state'[p] = "ZOMBIE" <=> state[p] = "ZOMBIE"

(* A frame that is pushed overwrites no context that is still needed.      *)
LEMMA TrapFrameKeeps ==
    ASSUME TypeOK, ContextInv, mishaps = {}, NEW frame \in Contexts,
           frame.owner = cpu.owner,
           NEW p \in Listed, state[p] # "ZOMBIE", p # cpu.owner
    PROVE  TrapFrame(frame)[p] = [owner |-> p, pc |-> resume[p]]
<1>1. p \in Procs
  BY ListedIs
<1>2. regs[p] = [owner |-> p, pc |-> resume[p]]
  BY DEF ContextInv, ContextsKept
<1>3. CASE frame.owner = Boot
  BY <1>2, <1>3, TrapFrameIs
<1>4. CASE frame.owner # Boot
  <2>1. cpu.owner = current_process
    BY <1>4 DEF ContextInv, ContextsKept
  <2>2. p # tss_esp0 \/ tss_esp0 = Boot
    BY <2>1 DEF ContextInv, Esp0Safe
  <2>3. QED
    BY <1>1, <1>2, <2>2, TrapFrameIs DEF TrapFrame
<1>5. QED
  BY <1>3, <1>4

(* Returning by the frame keeps the contexts.                              *)
LEMMA ReturnKeeps ==
    ASSUME TypeOK, ContextInv, NEW frame \in Contexts, frame.owner = cpu.owner,
           return_from_trap(frame), SameZombies, UNCHANGED process_list
    PROVE  ContextInv'
<1> SUFFICES ASSUME mishaps = {}
             PROVE  ContextInv'
  BY DEF ContextInv, ContextsKept, Esp0Safe, return_from_trap
<1>1. Listed' = Listed /\ Listed \subseteq Procs
  BY ListedIs DEF Listed
<1>2. cpu'.owner = cpu.owner /\ regs' = TrapFrame(frame)
  BY DEF return_from_trap
<1>3. ContextsKept'
  BY <1>1, <1>2, TrapFrameKeeps
     DEF ContextInv, ContextsKept, SameZombies, return_from_trap
<1>4. Esp0Safe'
  BY <1>1 DEF ContextInv, Esp0Safe, SameZombies, return_from_trap, TypeOK
<1>5. QED
  BY <1>3, <1>4 DEF ContextInv

(* So does a switch to another process that is READY.                      *)
LEMMA ContextSwitchKeeps ==
    ASSUME TypeOK, ContextInv, current_process # NULL,
           NEW frame \in Contexts, frame.owner = cpu.owner,
           NEW next \in Listed, next # current_process, state'[next] = "READY",
           context_switch(frame, next), SameZombies, UNCHANGED process_list
    PROVE  ContextInv'
<1>1. CASE frame.owner = Boot
  BY <1>1 DEF context_switch, ContextInv, ContextsKept, Esp0Safe
<1>2. CASE frame.owner # Boot /\ mishaps # {}
  BY <1>2 DEF context_switch, ContextInv, ContextsKept, Esp0Safe
<1>3. CASE frame.owner # Boot /\ mishaps = {}
  <2>1. Listed' = Listed /\ Listed \subseteq Procs /\ current_process \in Procs
    BY ListedIs DEF Listed, TypeOK
  <2>2. frame.owner = current_process
    BY <1>3 DEF ContextInv, ContextsKept
  <2>3. Saved(frame) = frame
    BY <1>3 DEF Saved
  <2>4. frame = [owner |-> current_process, pc |-> frame.pc]
    BY <2>2 DEF Contexts
  <2>5. TrapFrame(frame) \in [Procs -> Contexts] /\ resume \in [Procs -> UserPc]
    BY TrapFrameIs DEF TypeOK
  <2>6. /\ regs' = [TrapFrame(frame) EXCEPT ![current_process] = frame]
        /\ resume'[current_process] = frame.pc
        /\ \A p \in Procs \ {current_process, next} : resume'[p] = resume[p]
        /\ cpu' = regs'[next]
        /\ current_process' = next
        /\ tss_esp0' = next
    BY <1>3, <2>1, <2>2, <2>3 DEF context_switch, Suspend
  <2>7. \A p \in Listed \ {next} :
            state'[p] # "ZOMBIE" => regs'[p] = [owner |-> p, pc |-> resume'[p]]
    <3> SUFFICES ASSUME NEW p \in Listed, p # next, state'[p] # "ZOMBIE"
                 PROVE  regs'[p] = [owner |-> p, pc |-> resume'[p]]
      OBVIOUS
    <3>1. CASE p = current_process
      BY <2>1, <2>4, <2>5, <2>6, <3>1
    <3>2. CASE p # current_process
      <4>1. TrapFrame(frame)[p] = [owner |-> p, pc |-> resume[p]]
        BY <1>3, <2>1, <2>2, <3>2, TrapFrameKeeps DEF SameZombies
      <4>2. QED
        BY <2>1, <2>5, <2>6, <3>2, <4>1
    <3>3. QED
      BY <3>1, <3>2
  <2>8. cpu'.owner = next
    <3>1. TrapFrame(frame)[next] = [owner |-> next, pc |-> resume[next]]
      BY <1>3, <2>1, <2>2, TrapFrameKeeps DEF SameZombies
    <3>2. cpu' = [owner |-> next, pc |-> resume[next]]
      BY <2>1, <2>5, <2>6, <3>1
    <3>3. QED
      BY <3>2
  <2>9. QED
    BY <2>1, <2>6, <2>7, <2>8 DEF ContextInv, ContextsKept, Esp0Safe
<1>4. QED
  BY <1>1, <1>2, <1>3

(* So does schedule() with the switch it may lead to.                      *)
LEMMA SwitchIfReadyKeeps ==
    ASSUME TypeOK, ContextInv, current_process # NULL,
           NEW frame \in Contexts, frame.owner = cpu.owner,
           NEW st, state' = st, switch_if_ready(frame, st),
           SameZombies, UNCHANGED process_list
    PROVE  ContextInv'
<1>1. CASE schedule(st) # NULL /\ context_switch(frame, schedule(st))
  <2>1. /\ schedule(st) \in Listed
        /\ schedule(st) # current_process
        /\ state'[schedule(st)] = "READY"
    BY <1>1, ScheduleReturns
  <2>2. QED
    BY <1>1, <2>1, ContextSwitchKeeps
<1>2. CASE schedule(st) = NULL /\ return_from_trap(frame)
  BY <1>2, ReturnKeeps
<1>3. QED
  BY <1>1, <1>2 DEF switch_if_ready

(* A new process has its context, and the others keep theirs.              *)
LEMMA CreateKeeps ==
    ASSUME TypeOK, ContextInv, NEW p, NEW pc \in UserPc, create_process(p, pc),
           NEW frame \in Contexts, frame.owner = cpu.owner,
           regs' = [TrapFrame(frame) EXCEPT ![p] = [owner |-> p, pc |-> pc]],
           cpu'.owner = cpu.owner, UNCHANGED <<tss_esp0, mishaps>>
    PROVE  ContextInv'
<1> SUFFICES ASSUME mishaps = {}
             PROVE  ContextInv'
  BY DEF ContextInv, ContextsKept, Esp0Safe
<1>1. /\ p \in Procs /\ p \notin Listed /\ Listed' = Listed \cup {p}
      /\ Listed \subseteq Procs
  BY ListedIs, CreateTyped
<1>2. /\ TrapFrame(frame) \in [Procs -> Contexts]
      /\ state \in [Procs -> States]
      /\ resume \in [Procs -> UserPc]
  BY TrapFrameIs DEF TypeOK
<1>3. current_process # NULL => current_process' = current_process
  <2>1. current_process # NULL => process_list # <<>>
    BY DEF TypeOK, Listed
  <2>2. QED
    BY <2>1 DEF create_process, add_process
<1>4. cpu'.owner \in {Boot, current_process'}
  BY <1>3 DEF ContextInv, ContextsKept, TypeOK
<1>5. ASSUME NEW q \in Listed', state'[q] # "ZOMBIE", q # cpu'.owner
      PROVE  regs'[q] = [owner |-> q, pc |-> resume'[q]]
  <2>1. CASE q = p
    BY <1>1, <1>2, <2>1 DEF create_process, add_process
  <2>2. CASE q # p
    <3>1. q \in Listed /\ q \in Procs /\ state[q] # "ZOMBIE" /\ resume'[q] = resume[q]
      BY <1>1, <1>2, <1>5, <2>2 DEF create_process, add_process
    <3>2. TrapFrame(frame)[q] = [owner |-> q, pc |-> resume[q]]
      BY <1>2, <1>5, <3>1, TrapFrameKeeps
    <3>3. QED
      BY <1>2, <2>2, <3>1, <3>2
  <2>3. QED
    BY <2>1, <2>2
<1>6. Esp0Safe'
  <2>1. tss_esp0 # p /\ (tss_esp0 = Boot \/ tss_esp0 \in Procs)
    BY <1>1, MaxProcAssumption DEF TypeOK, Boot, Procs
  <2>2. tss_esp0 # NULL
    BY <2>1 DEF Boot, Procs, NULL
  <2>3. CASE tss_esp0 \in {Boot, current_process}
    BY <1>3, <2>2, <2>3 DEF Esp0Safe
  <2>4. CASE tss_esp0 \in Procs /\ state[tss_esp0] = "ZOMBIE"
    <3>1. state'[tss_esp0] = "ZOMBIE"
      BY <1>2, <2>1, <2>4 DEF create_process, add_process
    <3>2. QED
      BY <3>1 DEF Esp0Safe
  <2>5. QED
    BY <2>1, <2>3, <2>4 DEF ContextInv, Esp0Safe
<1>7. QED
  BY <1>4, <1>5, <1>6 DEF ContextInv, ContextsKept

(* Every step keeps the contexts.                                          *)
LEMMA ContextStep ==
    ASSUME TypeOK, NoZombieOnCpu, ContextInv, [Next]_vars
    PROVE  ContextInv'
<1> USE ListedIs
<1>1. CASE sys_yield
  <2>1. PICK st : st = wake_processes(state, ticks) /\ state' = st /\ switch_if_ready(cpu, st)
    BY <1>1 DEF sys_yield
  <2>2. SameZombies
    BY <2>1, WakeZombies DEF SameZombies
  <2>3. QED
    BY <1>1, <2>1, <2>2, InUserFacts, SwitchIfReadyKeeps DEF sys_yield
<1>2. ASSUME InUser, state' = [state EXCEPT ![current_process] = "BLOCKED"]
      PROVE  SameZombies
  <2>1. state[current_process] # "ZOMBIE" /\ state \in [Procs -> States]
    BY <1>2, InUserFacts DEF InUser, NoZombieOnCpu, TypeOK
  <2>2. QED
    BY <1>2, <2>1 DEF SameZombies
<1>3. ASSUME NEW time \in SleepTimes, sys_sleep(time) PROVE ContextInv'
  <2>1. PICK st : /\ st = [state EXCEPT ![current_process] = "BLOCKED"]
                  /\ state' = st
                  /\ switch_if_ready(cpu, st)
    BY <1>3 DEF sys_sleep
  <2>2. SameZombies
    BY <1>2, <1>3, <2>1 DEF sys_sleep
  <2>3. QED
    BY <1>3, <2>1, <2>2, InUserFacts, SwitchIfReadyKeeps DEF sys_sleep
<1>4. ASSUME NEW pc \in UserPc, sys_wait_found(pc) PROVE ContextInv'
  <2>1. /\ InUser /\ return_from_trap([cpu EXCEPT !.pc = pc])
        /\ UNCHANGED <<process_list, state>>
    BY <1>4 DEF sys_wait_found
  <2>2. QED
    BY <2>1, UserFrame, ReturnKeeps DEF SameZombies
<1>5. ASSUME NEW pc \in UserPc, sys_wait_block(pc) PROVE ContextInv'
  <2> DEFINE frame == [cpu EXCEPT !.pc = pc]
  <2>1. /\ InUser /\ UNCHANGED process_list
        /\ frame \in Contexts /\ frame.owner = cpu.owner
    BY <1>5, UserFrame DEF sys_wait_block
  <2>2. PICK st : /\ st = [state EXCEPT ![current_process] = "BLOCKED"]
                  /\ state' = st
                  /\ switch_if_ready(frame, st)
    BY <1>5 DEF sys_wait_block, switch_if_ready
  <2> HIDE DEF frame
  <2>3. SameZombies
    BY <1>2, <2>1, <2>2
  <2>4. QED
    BY <2>1, <2>2, <2>3, InUserFacts, SwitchIfReadyKeeps
<1>6. CASE sys_exit
  <2> SUFFICES ASSUME mishaps' = {} PROVE ContextInv'
    BY DEF ContextInv, ContextsKept, Esp0Safe
  <2>1. /\ mishaps = {}
        /\ \A p \in Procs : ~ (state[p] = "ZOMBIE" /\ AfterExit[p] = "READY")
    BY <1>6 DEF sys_exit, exit_process
  <2>2. /\ current_process \in Procs /\ current_process # NULL
        /\ cpu \in Contexts /\ cpu.owner # Boot /\ cpu.owner = current_process
    BY <1>6, <2>1, InUserFacts DEF sys_exit, exit_process, ContextInv, ContextsKept
  <2>3. /\ state \in [Procs -> States]
        /\ parent[current_process] \in Procs \cup {NULL}
        /\ parent[current_process] # current_process
    <3>1. /\ parent[current_process] \in Procs \cup {NULL}
          /\ parent[current_process] < current_process
          /\ state \in [Procs -> States]
      BY <2>2 DEF TypeOK
    <3>2. parent[current_process] \in Int /\ current_process \in Int
      BY <2>2, <3>1 DEF Procs, NULL
    <3>3. QED
      BY <3>1, <3>2
  <2>4. /\ AfterExit[current_process] = "ZOMBIE"
        /\ \A p \in Procs \ {current_process} :
              AfterExit[p] = "ZOMBIE" <=> state[p] = "ZOMBIE"
    <3>1. CASE parent[current_process] = NULL
      BY <2>2, <2>3, <3>1 DEF AfterExit
    <3>2. CASE parent[current_process] # NULL
      BY <2>1, <2>2, <2>3, <3>2 DEF AfterExit
    <3>3. QED
      BY <3>1, <3>2
  <2>5. Listed' = Listed /\ Listed \subseteq Procs
    BY <1>6 DEF sys_exit, exit_process, Listed
  <2>6. regs' = TrapFrame(cpu) /\ state' = AfterExit /\ UNCHANGED tss_esp0
    BY <1>6 DEF sys_exit, exit_process
  <2>7. \A p \in Listed : state'[p] # "ZOMBIE" => regs'[p] = [owner |-> p, pc |-> resume[p]]
    <3> SUFFICES ASSUME NEW p \in Listed, state'[p] # "ZOMBIE"
                 PROVE  regs'[p] = [owner |-> p, pc |-> resume[p]]
      OBVIOUS
    <3>1. p # current_process /\ state[p] # "ZOMBIE"
      BY <2>4, <2>5, <2>6
    <3>2. TrapFrame(cpu)[p] = [owner |-> p, pc |-> resume[p]]
      BY <2>1, <2>2, <3>1, TrapFrameKeeps
    <3>3. QED
      BY <2>6, <3>2
  <2>8. /\ cpu'.owner \in {Boot, current_process'}
        /\ \A p \in Procs \ {cpu'.owner} : resume'[p] = resume[p]
    <3>1. CASE schedule(AfterExit) # NULL
      <4> DEFINE next == schedule(AfterExit)
      <4>1. /\ next \in Listed /\ state'[next] = "READY"
            /\ cpu' = regs'[next] /\ current_process' = next
            /\ resume' = [resume EXCEPT ![next] = EntryPc]
        BY <1>6, <2>2, <2>6, <3>1, ScheduleReturns DEF sys_exit, exit_process
      <4> HIDE DEF next
      <4>2. cpu' = [owner |-> next, pc |-> resume[next]]
        BY <2>7, <4>1
      <4>3. cpu'.owner = next
        BY <4>2
      <4>4. QED
        BY <4>1, <4>3 DEF TypeOK
    <3>2. CASE schedule(AfterExit) = NULL
      BY <1>6, <2>2, <3>2 DEF sys_exit, exit_process
    <3>3. QED
      BY <3>1, <3>2
  <2>9. Esp0Safe'
    <3>1. CASE tss_esp0 = Boot
      BY <2>6, <3>1 DEF Esp0Safe
    <3>2. CASE tss_esp0 # Boot
      <4>1. tss_esp0 \in Procs
        BY <2>5, <3>2 DEF TypeOK
      <4>2. state'[tss_esp0] = "ZOMBIE"
        BY <2>1, <2>4, <2>6, <3>2, <4>1 DEF ContextInv, Esp0Safe
      <4>3. QED
        BY <2>6, <4>2 DEF Esp0Safe
    <3>3. QED
      BY <3>1, <3>2
  <2>10. QED
    BY <2>5, <2>7, <2>8, <2>9 DEF ContextInv, ContextsKept
<1>8. ASSUME NEW parentpc \in UserPc, NEW childpc \in UserPc, sys_fork(parentpc, childpc)
      PROVE  ContextInv'
  <2> DEFINE frame == [cpu EXCEPT !.pc = parentpc]
  <2>1. frame \in Contexts /\ frame.owner = cpu.owner
    BY <1>8, UserFrame DEF sys_fork
  <2>2. PICK p : /\ p = Len(process_list) + 1
                 /\ create_process(p, childpc)
                 /\ regs' = [TrapFrame(frame) EXCEPT ![p] = [owner |-> p, pc |-> childpc]]
                 /\ cpu' = frame
    BY <1>8 DEF sys_fork
  <2> HIDE DEF frame
  <2>3. QED
    BY <1>8, <2>1, <2>2, CreateKeeps DEF sys_fork
<1>7. ASSUME NEW pc \in UserPc, sys_create_process(pc) PROVE ContextInv'
  BY <1>8, <1>7, CreateIsFork, EntryAssumption
<1>9. CASE fault_handler
  BY <1>9, InUserFacts, ReturnKeeps DEF fault_handler, SameZombies
<1>10. ASSUME NEW pc \in UserPc, sys_return(pc) PROVE ContextInv'
  <2>1. /\ InUser /\ return_from_trap([cpu EXCEPT !.pc = pc])
        /\ UNCHANGED <<process_list, state>>
    BY <1>10 DEF sys_return
  <2>2. QED
    BY <2>1, UserFrame, ReturnKeeps DEF SameZombies
<1>11. CASE Tick
  <2>1. CASE current_process = NULL
    BY <1>11, <2>1 DEF Tick, ContextInv, ContextsKept, Esp0Safe, Listed
  <2>2. CASE current_process # NULL
    <3>1. PICK st : st = wake_processes(state, ticks') /\ state' = st /\ switch_if_ready(cpu, st)
      BY <1>11, <2>2 DEF Tick
    <3>2. SameZombies
      BY <3>1, WakeZombies DEF SameZombies
    <3>3. QED
      BY <1>11, <2>2, <3>1, <3>2, SwitchIfReadyKeeps DEF Tick, TypeOK
  <2>3. QED
    BY <2>1, <2>2
<1>12. ASSUME NEW from, NEW to \in BootPc, BootCreate(from, to) PROVE ContextInv'
  <2>1. /\ cpu.owner = Boot /\ cpu'.owner = Boot /\ cpu \in Contexts
        /\ UNCHANGED <<tss_esp0, mishaps>>
    BY <1>12 DEF BootCreate, BootAt, BootGoes, TypeOK
  <2>2. CASE UNCHANGED <<process_list, current_process, state, wake, parent, regs, resume>>
    BY <2>1, <2>2 DEF ContextInv, ContextsKept, Esp0Safe, Listed
  <2>3. CASE /\ create_process(Len(process_list) + 1, EntryPc)
             /\ regs' = [regs EXCEPT ![Len(process_list) + 1] =
                             [owner |-> Len(process_list) + 1, pc |-> EntryPc]]
    <3>1. TrapFrame(cpu) = regs
      BY <2>1 DEF TrapFrame
    <3>2. QED
      BY <2>1, <2>3, <3>1, EntryAssumption, CreateKeeps
  <2>4. QED
    BY <1>12, <2>2, <2>3 DEF BootCreate
<1>13. CASE BootHandoff
  <2>1. /\ cpu.owner = Boot /\ halted = "no" /\ Listed' = Listed
        /\ UNCHANGED <<current_process, state, regs, tss_esp0, resume, mishaps>>
    BY <1>13 DEF BootHandoff, BootAt, Listed
  <2>2. Boot \notin Listed
    BY MaxProcAssumption DEF Procs, Boot
  <2>3. CASE current_process = NULL
    BY <1>13, <2>1, <2>3 DEF BootHandoff, ContextInv, ContextsKept, Esp0Safe
  <2>4. CASE current_process # NULL
    <3>1. current_process \in Listed /\ state[current_process] # "ZOMBIE"
      BY <2>1, <2>4 DEF NoZombieOnCpu, TypeOK
    <3>2. cpu' = regs[current_process]
      BY <1>13, <2>4 DEF BootHandoff
    <3>3. mishaps = {} => cpu'.owner = current_process
      <4> SUFFICES ASSUME mishaps = {} PROVE cpu'.owner = current_process
        OBVIOUS
      <4>1. cpu' = [owner |-> current_process, pc |-> resume[current_process]]
        BY <2>1, <2>2, <3>1, <3>2 DEF ContextInv, ContextsKept
      <4>2. QED
        BY <4>1
    <3>4. mishaps = {} => \A p \in Listed : state[p] # "ZOMBIE"
                              => regs[p] = [owner |-> p, pc |-> resume[p]]
      BY <2>1, <2>2 DEF ContextInv, ContextsKept
    <3>5. QED
      BY <2>1, <3>3, <3>4 DEF ContextInv, ContextsKept, Esp0Safe
  <2>5. QED
    BY <2>3, <2>4
<1>14. CASE BootRunsOff
  BY <1>14 DEF BootRunsOff, ContextInv, ContextsKept, Esp0Safe, Listed
<1>15. CASE UserStep
  <2>1. cpu'.owner = cpu.owner
    BY <1>15, InUserFacts, UserContext DEF UserStep, user_step
  <2>2. QED
    BY <1>15, <2>1 DEF UserStep, user_step, ContextInv, ContextsKept, Esp0Safe, Listed
<1>16. CASE UNCHANGED vars
  BY <1>16 DEF vars, ContextInv, ContextsKept, Esp0Safe, Listed
<1>17. QED
  BY <1>1, <1>3, <1>4, <1>5, <1>6, <1>7, <1>8, <1>9, <1>10, <1>11, <1>12, <1>13,
     <1>14, <1>15, <1>16
     DEF Next, BootNext, UserNext, BootCreateElf, BootCreateUser, BootPc

(* Until contexts are mixed by one of the two known events, tss.esp0 is    *)
(* never on the kernel stack of another process that will run again ...    *)
THEOREM Esp0IsSafe == Spec => []Esp0Safe
<1>1. Init => ContextInv
  BY DEF Init, ContextInv, ContextsKept, Esp0Safe, Listed
<1>2. TypeOK /\ NoZombieOnCpu /\ ContextInv /\ [Next]_vars => ContextInv'
  BY ContextStep
<1>3. ContextInv => Esp0Safe
  BY DEF ContextInv
<1>4. QED
  BY <1>1, <1>2, <1>3, TypeCorrect, NoZombieIsCurrent, PTL DEF Spec

(* ... and every process that is off the CPU resumes exactly where it was  *)
(* suspended.                                                              *)
THEOREM ContextsAreKept == Spec => []ContextsKept
<1>1. Init => ContextInv
  BY DEF Init, ContextInv, ContextsKept, Esp0Safe, Listed
<1>2. TypeOK /\ NoZombieOnCpu /\ ContextInv /\ [Next]_vars => ContextInv'
  BY ContextStep
<1>3. ContextInv => ContextsKept
  BY DEF ContextInv
<1>4. QED
  BY <1>1, <1>2, <1>3, TypeCorrect, NoZombieIsCurrent, PTL DEF Spec
-----------------------------------------------------------------------------
(* A blocked process becomes READY only for a reason.                      *)

(* A process_t that is not in the list has not been created: what          *)
(* create_process() makes READY was not BLOCKED before.                    *)
Unborn == \A p \in Procs \ Listed : state[p] = "NONE"

(* Why a step may make p READY, as WokenForAReason has it.                 *)
Reason(p) ==
    \/ ticks' >= wake[p]
    \/ \E c \in Listed : /\ parent[c] = p
                         /\ state[c] # "ZOMBIE"
                         /\ state'[c] = "ZOMBIE"

(* What is to be shown of a step.                                          *)
WokenStep ==
    /\ Unborn'
    /\ \A p \in Procs : state[p] = "BLOCKED" /\ state'[p] = "READY" => Reason(p)

(* wake_processes() at the time of the step.                               *)
LEMMA WakeWokenStep ==
    ASSUME TypeOK, Unborn, state' = wake_processes(state, ticks'),
           UNCHANGED process_list
    PROVE  WokenStep
<1>1. Listed' = Listed
  BY DEF Listed
<1>2. \A p \in Procs : state'[p] = IF p \in Listed /\ state[p] = "BLOCKED" /\ ticks' >= wake[p]
                                   THEN "READY" ELSE state[p]
  BY DEF wake_processes
<1>3. QED
  BY <1>1, <1>2 DEF Unborn, WokenStep, Reason

(* A process that is put to sleep.                                         *)
LEMMA BlockWokenStep ==
    ASSUME TypeOK, Unborn, InUser, UNCHANGED process_list,
           state' = [state EXCEPT ![current_process] = "BLOCKED"]
    PROVE  WokenStep
<1>1. Listed' = Listed
  BY DEF Listed
<1>2. current_process \in Listed /\ state \in [Procs -> States]
  BY InUserFacts DEF TypeOK
<1>3. QED
  BY <1>1, <1>2 DEF Unborn, WokenStep

(* exit_process() makes the parent READY, and the child is the reason.     *)
LEMMA ExitWokenStep ==
    ASSUME TypeOK, NoZombieOnCpu, Unborn, sys_exit
    PROVE  WokenStep
<1> DEFINE c == current_process
<1>1. Listed' = Listed
  BY DEF sys_exit, Listed
<1>2. /\ c \in Listed /\ c \in Procs /\ state[c] # "ZOMBIE"
      /\ state \in [Procs -> States]
      /\ parent[c] \in Procs \cup {NULL}
      /\ parent[c] < c
  BY InUserFacts DEF TypeOK, NoZombieOnCpu, sys_exit, InUser
<1>3. parent[c] # NULL => parent[c] \in Listed /\ parent[c] # c
  BY <1>2, ListedIs DEF Procs, NULL
<1>4. state' = AfterExit
  BY DEF sys_exit, exit_process
<1>5. CASE parent[c] = NULL
  <2>1. state' = [state EXCEPT ![c] = "ZOMBIE"]
    BY <1>4, <1>5 DEF AfterExit
  <2>2. QED
    BY <1>1, <1>2, <2>1 DEF Unborn, WokenStep
<1>6. CASE parent[c] # NULL
  <2>1. state' = [[state EXCEPT ![c] = "ZOMBIE"] EXCEPT ![parent[c]] = "READY"]
    BY <1>4, <1>6 DEF AfterExit
  <2>2. /\ state'[c] = "ZOMBIE"
        /\ \A p \in Procs : p # c /\ p # parent[c] => state'[p] = state[p]
    BY <1>2, <1>3, <1>6, <2>1
  <2>3. \A p \in Procs : state[p] = "BLOCKED" /\ state'[p] = "READY" => p = parent[c]
    BY <2>2
  <2>4. Reason(parent[c])
    BY <1>2, <2>2 DEF Reason
  <2>5. Unborn'
    BY <1>1, <1>2, <1>3, <1>6, <2>2 DEF Unborn
  <2>6. QED
    BY <2>3, <2>4, <2>5 DEF WokenStep
<1>7. QED
  BY <1>5, <1>6

(* create_process() touches only the process it creates.                   *)
LEMMA CreateWokenStep ==
    ASSUME TypeOK, Unborn, NEW p, NEW pc \in UserPc, create_process(p, pc)
    PROVE  WokenStep
<1>1. p \in Procs /\ p \notin Listed /\ Listed' = Listed \cup {p}
  BY CreateTyped
<1>2. state' = [state EXCEPT ![p] = "READY"] /\ state \in [Procs -> States]
  BY DEF create_process, TypeOK
<1>3. state[p] = "NONE"
  BY <1>1 DEF Unborn
<1>4. QED
  BY <1>1, <1>2, <1>3 DEF Unborn, WokenStep

(* Steps that leave the state table and the list alone.                    *)
LEMMA QuietWokenStep ==
    ASSUME Unborn, UNCHANGED <<process_list, state>>
    PROVE  WokenStep
BY DEF Unborn, WokenStep, Listed

(* Every step wakes for a reason.                                          *)
LEMMA EveryWokenStep ==
    ASSUME TypeOK, NoZombieOnCpu, Unborn, [Next]_vars
    PROVE  WokenStep
<1>1. CASE sys_yield
  BY <1>1, WakeWokenStep DEF sys_yield
<1>2. ASSUME NEW time \in SleepTimes, sys_sleep(time) PROVE WokenStep
  BY <1>2, BlockWokenStep DEF sys_sleep
<1>3. ASSUME NEW pc \in UserPc, sys_wait_found(pc) PROVE WokenStep
  BY <1>3, QuietWokenStep DEF sys_wait_found
<1>4. ASSUME NEW pc \in UserPc, sys_wait_block(pc) PROVE WokenStep
  BY <1>4, BlockWokenStep DEF sys_wait_block
<1>5. CASE sys_exit
  BY <1>5, ExitWokenStep
<1>7. ASSUME NEW parentpc \in UserPc, NEW childpc \in UserPc, sys_fork(parentpc, childpc)
      PROVE  WokenStep
  BY <1>7, CreateWokenStep DEF sys_fork
<1>6. ASSUME NEW pc \in UserPc, sys_create_process(pc) PROVE WokenStep
  BY <1>7, <1>6, CreateIsFork, EntryAssumption
<1>8. CASE fault_handler
  BY <1>8, QuietWokenStep DEF fault_handler
<1>9. ASSUME NEW pc \in UserPc, sys_return(pc) PROVE WokenStep
  BY <1>9, QuietWokenStep DEF sys_return
<1>10. CASE Tick
  <2>1. CASE current_process = NULL
    BY <1>10, <2>1, QuietWokenStep DEF Tick
  <2>2. CASE current_process # NULL
    BY <1>10, <2>2, WakeWokenStep DEF Tick
  <2>3. QED
    BY <2>1, <2>2
<1>11. ASSUME NEW from, NEW to, BootCreate(from, to) PROVE WokenStep
  <2>1. CASE create_process(Len(process_list) + 1, EntryPc)
    BY <2>1, EntryAssumption, CreateWokenStep
  <2>2. CASE UNCHANGED <<process_list, state>>
    BY <2>2, QuietWokenStep
  <2>3. QED
    BY <1>11, <2>1, <2>2 DEF BootCreate
<1>12. CASE BootHandoff
  BY <1>12, QuietWokenStep DEF BootHandoff
<1>13. CASE BootRunsOff
  BY <1>13, QuietWokenStep DEF BootRunsOff
<1>14. CASE UserStep
  BY <1>14, QuietWokenStep DEF UserStep, user_step
<1>15. CASE UNCHANGED vars
  BY <1>15, QuietWokenStep DEF vars
<1>16. QED
  BY <1>1, <1>2, <1>3, <1>4, <1>5, <1>6, <1>7, <1>8, <1>9, <1>10, <1>11, <1>12,
     <1>13, <1>14, <1>15
     DEF Next, BootNext, UserNext, BootCreateElf, BootCreateUser

(* wake_processes(), sys_sleep() and exit_process(): for any number of     *)
(* processes and any width of ticks, a blocked process becomes READY only  *)
(* when its time has come or a child of its exits.                         *)
THEOREM WokenOnlyForAReason == Spec => WokenForAReason
<1>1. Init => Unborn
  BY DEF Init, Unborn
<1>2. TypeOK /\ NoZombieOnCpu /\ Unborn /\ [Next]_vars => Unborn'
  BY EveryWokenStep DEF WokenStep
<1>3. TypeOK /\ NoZombieOnCpu /\ Unborn /\ [Next]_vars
        => [\A p \in Procs :
               state[p] = "BLOCKED" /\ state'[p] = "READY" =>
                   \/ ticks' >= wake[p]
                   \/ \E c \in Listed : /\ parent[c] = p
                                        /\ state[c] # "ZOMBIE"
                                        /\ state'[c] = "ZOMBIE"]_vars
  BY EveryWokenStep DEF WokenStep, Reason
<1>4. QED
  BY <1>1, <1>2, <1>3, TypeCorrect, NoZombieIsCurrent, PTL DEF Spec, WokenForAReason
-----------------------------------------------------------------------------
(* The boot thread loses the CPU only between the creation of user_main    *)
(* and restore_esp.                                                        *)

(* A context c of the boot thread that context_switch() has saved: its     *)
(* place on its stack is lost, and that it was taken from the CPU is among *)
(* the mishaps m.                                                          *)
Strayed(c, m) == c.owner = Boot => c.pc = "lost_esp" /\ "boot_preempted" \in m

(* Where the boot thread is tells how many processes there are: schedule() *)
(* finds nobody to switch to before it has come to the handoff.            *)
BootInv ==
    /\ \A p \in Procs : Strayed(regs[p], mishaps)
    /\ \/ Strayed(cpu, mishaps)
       \/ cpu.pc = "start" /\ process_list = <<>>
       \/ cpu.pc = "switch_mode" /\ Len(process_list) <= 1
       \/ cpu.pc = "handoff"

(* What is to be shown of a step.                                          *)
BootStep ==
    /\ BootInv'
    /\ "boot_preempted" \in mishaps' \ mishaps => BootAt("handoff")

(* A trap from user code that pushes frame, and may create the process p:  *)
(* no context of the boot thread is written.                               *)
LEMMA FrameStrayed ==
    ASSUME TypeOK, BootInv, NEW frame \in Contexts, frame.owner # Boot,
           NEW m, mishaps \subseteq m
    PROVE  /\ \A p \in Procs : Strayed(TrapFrame(frame)[p], m)
           /\ Strayed(frame, m)
<1>1. Strayed(frame, m)
  BY DEF Strayed
<1>2. \A p \in Procs : Strayed(regs[p], m)
  BY DEF BootInv, Strayed
<1>3. \A p \in Procs : TrapFrame(frame)[p] \in {regs[p], frame}
  BY DEF TrapFrame, TypeOK
<1>4. QED
  BY <1>1, <1>2, <1>3

(* Such a trap that returns.                                               *)
LEMMA ReturnBootStep ==
    ASSUME TypeOK, BootInv, NEW frame \in Contexts, frame.owner # Boot,
           return_from_trap(frame)
    PROVE  BootStep
<1>1. regs' = TrapFrame(frame) /\ cpu' = frame /\ mishaps' = mishaps
  BY DEF return_from_trap
<1>2. (\A p \in Procs : Strayed(TrapFrame(frame)[p], mishaps)) /\ Strayed(frame, mishaps)
  BY FrameStrayed
<1>3. QED
  BY <1>1, <1>2 DEF BootStep, BootInv

(* Such a trap that switches.                                              *)
LEMMA UserSwitchBootStep ==
    ASSUME TypeOK, BootInv, NEW frame \in Contexts, frame.owner # Boot,
           current_process # NULL, NEW next \in Listed, context_switch(frame, next)
    PROVE  BootStep
<1>1. next \in Procs /\ current_process \in Procs
  BY ListedIs DEF TypeOK
<1>2. (\A p \in Procs : Strayed(TrapFrame(frame)[p], mishaps)) /\ Strayed(frame, mishaps)
  BY FrameStrayed
<1>3. /\ regs' = [TrapFrame(frame) EXCEPT ![current_process] = frame]
      /\ cpu' = regs'[next]
      /\ mishaps' = mishaps
  BY DEF context_switch, Saved
<1>4. TrapFrame(frame) \in [Procs -> Contexts]
  BY TrapFrameIs
<1>5. \A p \in Procs : regs'[p] \in {TrapFrame(frame)[p], frame}
  BY <1>1, <1>3, <1>4
<1>6. \A p \in Procs : Strayed(regs'[p], mishaps')
  BY <1>2, <1>3, <1>5
<1>7. QED
  BY <1>1, <1>3, <1>6 DEF BootStep, BootInv

(* schedule() and a switch from user code, whatever table it looks at.     *)
LEMMA UserBootStep ==
    ASSUME TypeOK, BootInv, InUser, NEW frame \in Contexts, frame.owner # Boot,
           NEW st, switch_if_ready(frame, st)
    PROVE  BootStep
<1>1. current_process # NULL
  BY InUserFacts
<1>2. CASE schedule(st) # NULL /\ context_switch(frame, schedule(st))
  <2>1. schedule(st) \in Listed
    BY <1>1, <1>2, ScheduleReturns
  <2>2. QED
    BY <1>1, <1>2, <2>1, UserSwitchBootStep
<1>3. CASE schedule(st) = NULL /\ return_from_trap(frame)
  BY <1>3, ReturnBootStep
<1>4. QED
  BY <1>2, <1>3 DEF switch_if_ready

(* schedule() and a switch from the boot thread: with two processes in the *)
(* list the boot thread has come to the handoff, or has lost its stack.    *)
LEMMA BootBootStep ==
    ASSUME TypeOK, BootInv, halted = "no", cpu.owner = Boot, current_process # NULL,
           UNCHANGED process_list, NEW st, switch_if_ready(cpu, st)
    PROVE  BootStep
<1>1. CASE schedule(st) # NULL /\ context_switch(cpu, schedule(st))
  <2>1. /\ schedule(st) \in Listed /\ current_process \in Listed
        /\ schedule(st) # current_process
        /\ schedule(st) \in Procs /\ current_process \in Procs
    BY <1>1, ScheduleReturns, ListedIs DEF TypeOK
  <2>2. Len(process_list) > 1
    BY <2>1, ListedIs
  <2>3. cpu.pc = "handoff" \/ "boot_preempted" \in mishaps
    <3>1. process_list = <<>> => Len(process_list) = 0
      OBVIOUS
    <3>2. Len(process_list) \in Nat
      BY ListedIs
    <3>3. QED
      BY <2>2, <3>1, <3>2 DEF BootInv, Strayed
  <2>4. cpu \in [owner : {Boot}, pc : BootPc]
    <3>1. Boot \notin Procs
      BY MaxProcAssumption DEF Boot, Procs
    <3>2. QED
      BY <3>1 DEF TypeOK, Contexts
  <2>5. cpu.pc = "handoff" => BootAt("handoff")
    BY <2>4 DEF BootAt
  <2>6. /\ regs' = [regs EXCEPT ![current_process] = [cpu EXCEPT !.pc = "lost_esp"]]
        /\ cpu' = regs'[schedule(st)]
        /\ mishaps' = mishaps \cup {"boot_preempted"}
    BY <1>1 DEF context_switch, Saved, TrapFrame
  <2>7. \A p \in Procs : regs'[p] \in {regs[p], [cpu EXCEPT !.pc = "lost_esp"]}
    BY <2>1, <2>6 DEF TypeOK
  <2>8. Strayed([cpu EXCEPT !.pc = "lost_esp"], mishaps')
    BY <2>4, <2>6 DEF Strayed
  <2>9. \A p \in Procs : Strayed(regs'[p], mishaps')
    BY <2>6, <2>7, <2>8 DEF BootInv, Strayed
  <2>10. QED
    BY <2>1, <2>3, <2>5, <2>6, <2>9 DEF BootStep, BootInv
<1>2. CASE schedule(st) = NULL /\ return_from_trap(cpu)
  <2>1. regs' = regs /\ cpu' = cpu /\ mishaps' = mishaps
    BY <1>2 DEF return_from_trap, TrapFrame
  <2>2. QED
    BY <2>1 DEF BootStep, BootInv
<1>3. QED
  BY <1>1, <1>2 DEF switch_if_ready

(* A new process in regs, next to whatever else has been written there.    *)
LEMMA CreateStrayed ==
    ASSUME NEW base \in [Procs -> Contexts], NEW m, NEW p \in Procs, NEW pc,
           \A q \in Procs : Strayed(base[q], m)
    PROVE  \A q \in Procs : Strayed([base EXCEPT ![p] = [owner |-> p, pc |-> pc]][q], m)
<1>1. Strayed([owner |-> p, pc |-> pc], m)
  BY MaxProcAssumption DEF Strayed, Procs, Boot
<1>2. \A q \in Procs : [base EXCEPT ![p] = [owner |-> p, pc |-> pc]][q]
                           \in {base[q], [owner |-> p, pc |-> pc]}
  OBVIOUS
<1>3. QED
  BY <1>1, <1>2

(* Every step.                                                             *)
LEMMA EveryBootStep ==
    ASSUME TypeOK, BootInv, [Next]_vars
    PROVE  BootStep
<1>1. CASE sys_yield
  BY <1>1, InUserFacts, UserBootStep DEF sys_yield
<1>2. ASSUME NEW time \in SleepTimes, sys_sleep(time) PROVE BootStep
  BY <1>2, InUserFacts, UserBootStep DEF sys_sleep
<1>3. ASSUME NEW pc \in UserPc, sys_wait_found(pc) PROVE BootStep
  BY <1>3, UserFrame, ReturnBootStep DEF sys_wait_found
<1>4. ASSUME NEW pc \in UserPc, sys_wait_block(pc) PROVE BootStep
  <2> DEFINE frame == [cpu EXCEPT !.pc = pc]
  <2>1. InUser /\ frame \in Contexts /\ frame.owner # Boot
    BY <1>4, UserFrame DEF sys_wait_block
  <2>2. PICK st : switch_if_ready(frame, st)
    BY <1>4 DEF sys_wait_block, switch_if_ready
  <2> HIDE DEF frame
  <2>3. QED
    BY <2>1, <2>2, UserBootStep
<1>5. CASE sys_exit
  <2>1. /\ current_process # NULL /\ cpu \in Contexts /\ cpu.owner # Boot
        /\ mishaps \subseteq mishaps'
        /\ mishaps' \subseteq mishaps \cup {"zombie_revived"}
        /\ regs' = TrapFrame(cpu)
    BY <1>5, InUserFacts DEF sys_exit, exit_process
  <2>2. (\A p \in Procs : Strayed(regs'[p], mishaps')) /\ Strayed(cpu, mishaps')
    BY <2>1, FrameStrayed
  <2>3. Strayed(cpu', mishaps')
    <3>1. CASE schedule(AfterExit) # NULL
      <4>1. schedule(AfterExit) \in Procs
        BY <2>1, <3>1, ScheduleReturns, ListedIs
      <4>2. QED
        BY <1>5, <2>2, <3>1, <4>1 DEF sys_exit, exit_process
    <3>2. CASE schedule(AfterExit) = NULL
      BY <1>5, <2>2, <3>2 DEF sys_exit, exit_process
    <3>3. QED
      BY <3>1, <3>2
  <2>4. QED
    BY <2>1, <2>2, <2>3 DEF BootStep, BootInv
<1>7. ASSUME NEW parentpc \in UserPc, NEW childpc \in UserPc, sys_fork(parentpc, childpc)
      PROVE  BootStep
  <2> DEFINE frame == [cpu EXCEPT !.pc = parentpc]
  <2>1. frame \in Contexts /\ frame.owner # Boot
    BY <1>7, UserFrame DEF sys_fork
  <2>2. PICK p : /\ create_process(p, childpc)
                 /\ regs' = [TrapFrame(frame) EXCEPT ![p] = [owner |-> p, pc |-> childpc]]
                 /\ cpu' = frame /\ mishaps' = mishaps
    BY <1>7 DEF sys_fork
  <2> HIDE DEF frame
  <2>3. p \in Procs
    BY <2>2, CreateTyped
  <2>4. (\A q \in Procs : Strayed(TrapFrame(frame)[q], mishaps)) /\ Strayed(frame, mishaps)
    BY <2>1, FrameStrayed
  <2>5. TrapFrame(frame) \in [Procs -> Contexts]
    BY <2>1, TrapFrameIs
  <2>6. \A q \in Procs : Strayed(regs'[q], mishaps)
    BY <2>2, <2>3, <2>4, <2>5, CreateStrayed
  <2>7. QED
    BY <2>2, <2>4, <2>6 DEF BootStep, BootInv
<1>6. ASSUME NEW pc \in UserPc, sys_create_process(pc) PROVE BootStep
  BY <1>7, <1>6, CreateIsFork, EntryAssumption
<1>8. CASE fault_handler
  BY <1>8, InUserFacts, ReturnBootStep DEF fault_handler
<1>9. ASSUME NEW pc \in UserPc, sys_return(pc) PROVE BootStep
  BY <1>9, UserFrame, ReturnBootStep DEF sys_return
<1>10. CASE Tick
  <2>1. CASE current_process = NULL
    BY <1>10, <2>1 DEF Tick, BootStep, BootInv
  <2>2. CASE current_process # NULL
    <3>1. halted = "no" /\ UNCHANGED process_list /\ \E st : switch_if_ready(cpu, st)
      BY <1>10, <2>2 DEF Tick
    <3>2. CASE cpu.owner = Boot
      BY <2>2, <3>1, <3>2, BootBootStep
    <3>3. CASE cpu.owner # Boot
      BY <3>1, <3>3, UserBootStep DEF InUser, TypeOK
    <3>4. QED
      BY <3>2, <3>3
  <2>3. QED
    BY <2>1, <2>2
<1>11. CASE BootCreateElf \/ BootCreateUser
  <2>1. PICK from \in {"start", "switch_mode"}, to \in {"switch_mode", "handoff"} :
            /\ BootCreate(from, to)
            /\ to = "switch_mode" => from = "start"
    BY <1>11 DEF BootCreateElf, BootCreateUser
  <2>2. cpu' = [owner |-> Boot, pc |-> to] /\ mishaps' = mishaps /\ cpu = [owner |-> Boot, pc |-> from]
    BY <2>1 DEF BootCreate, BootGoes, BootAt
  <2>3. \A q \in Procs : Strayed(regs'[q], mishaps)
    <3>1. CASE /\ create_process(Len(process_list) + 1, EntryPc)
               /\ regs' = [regs EXCEPT ![Len(process_list) + 1] =
                               [owner |-> Len(process_list) + 1, pc |-> EntryPc]]
      <4>1. Len(process_list) + 1 \in Procs /\ regs \in [Procs -> Contexts]
        BY <3>1, CreateTyped, EntryAssumption DEF TypeOK
      <4>2. QED
        BY <3>1, <4>1, CreateStrayed DEF BootInv
    <3>2. CASE UNCHANGED regs
      BY <3>2 DEF BootInv
    <3>3. QED
      BY <2>1, <3>1, <3>2 DEF BootCreate
  <2>4. to = "switch_mode" => Len(process_list') <= 1
    <3>1. SUFFICES ASSUME to = "switch_mode" PROVE Len(process_list') <= 1
      OBVIOUS
    <3>2. process_list = <<>>
      BY <2>1, <2>2, <3>1 DEF BootInv, Strayed
    <3>3. process_list' = process_list \/ process_list' = Append(process_list, Len(process_list) + 1)
      BY <2>1 DEF BootCreate, create_process, add_process
    <3>4. Len(process_list) = 0 /\ process_list \in Seq(Procs)
      BY <3>2
    <3>5. Len(Append(process_list, Len(process_list) + 1)) = 1
      BY <3>2
    <3>6. QED
      BY <3>3, <3>4, <3>5
  <2>5. QED
    BY <2>2, <2>3, <2>4 DEF BootStep, BootInv
<1>12. CASE BootHandoff
  <2>1. CASE current_process # NULL
    <3>1. current_process \in Procs
      BY <2>1, ListedIs DEF TypeOK
    <3>2. QED
      BY <1>12, <2>1, <3>1 DEF BootHandoff, BootStep, BootInv
  <2>2. CASE current_process = NULL
    BY <1>12, <2>2 DEF BootHandoff, BootStep, BootInv
  <2>3. QED
    BY <2>1, <2>2
<1>13. CASE BootRunsOff
  BY <1>13 DEF BootRunsOff, BootStep, BootInv
<1>14. CASE UserStep
  <2>1. cpu'.owner # Boot
    BY <1>14, InUserFacts, UserContext DEF UserStep, user_step
  <2>2. QED
    BY <1>14, <2>1 DEF UserStep, user_step, BootStep, BootInv, Strayed
<1>15. CASE UNCHANGED vars
  BY <1>15 DEF vars, BootStep, BootInv
<1>16. QED
  BY <1>1, <1>2, <1>3, <1>4, <1>5, <1>6, <1>7, <1>8, <1>9, <1>10, <1>11, <1>12,
     <1>13, <1>14, <1>15
     DEF Next, BootNext, UserNext

(* irq0_handler(), schedule() and kernel(): for any number of processes,   *)
(* a tick takes the CPU from the boot thread only between the creation of  *)
(* user_main and restore_esp.                                              *)
THEOREM BootIsLostOnlyAtHandoff == Spec => BootLostOnlyAtHandoff
<1>1. Init => BootInv
  BY MaxProcAssumption DEF Init, BootInv, Strayed, Boot, Procs
<1>2. TypeOK /\ BootInv /\ [Next]_vars => BootInv'
  BY EveryBootStep DEF BootStep
<1>3. TypeOK /\ BootInv /\ [Next]_vars
        => [\A m \in mishaps' \ mishaps : m = "boot_preempted" => BootAt("handoff")]_vars
  BY EveryBootStep DEF BootStep
<1>4. QED
  BY <1>1, <1>2, <1>3, TypeCorrect, PTL DEF Spec, BootLostOnlyAtHandoff
-----------------------------------------------------------------------------
(***************************************************************************)
(* The shipped system: its steps are steps of Process, so that what is     *)
(* shown above of a step holds of them too, and on top of this the machine *)
(* stays up and the shell's prompt waits for its child, for every number   *)
(* of processes, every width of ticks, and wherever keys may lead them.    *)
(***************************************************************************)

(* Every program of the system does only what Process allows user code.    *)
LEMMA ShellStepIsStep ==
    ASSUME TypeOK, [ShellNext]_allvars
    PROVE  [Next]_vars
<1>0. Points \subseteq UserPc /\ EntryPc \in UserPc
  BY PointsAssumption, EntryAssumption
<1>1. CASE BootStarts
  BY <1>1 DEF BootStarts, Next, BootNext
<1>2. CASE BootRunsOff \/ Tick
  BY <1>2 DEF Next
<1>3. CASE user_main
  BY <1>0, <1>3 DEF user_main, Points, Next, UserNext
<1>4. CASE user_up_time
  BY <1>0, <1>4 DEF user_up_time, Next, UserNext
<1>5. CASE elf_test
  BY <1>0, <1>5 DEF elf_test, Points, Next, UserNext, UserStep
<1>6. CASE hello
  BY <1>0, <1>6 DEF hello, HelloCalls, Points, Next, UserNext, UserStep
<1>7. CASE shell
  BY <1>0, <1>7 DEF shell, Points, Next, UserNext, UserStep
<1>8. CASE user_fork
  BY <1>0, <1>8 DEF user_fork, Points, Next, UserNext
<1>9. CASE child
  BY <1>0, <1>9 DEF child, Points, Next, UserNext
<1>10. CASE user_wait
  BY <1>0, <1>10 DEF user_wait, Points, Next, UserNext
<1>11. CASE shell_done
  BY <1>0, <1>11 DEF shell_done, Next, UserNext
<1>12. CASE keyboard_isr
  <2>1. cpu.pc \in UserPc
    BY <1>12, InUserFacts DEF keyboard_isr
  <2>2. \E pc \in UserPc : sys_return(pc)
    BY <1>12, <2>1 DEF keyboard_isr, Astray
  <2>3. QED
    BY <2>2 DEF Next, UserNext
<1>13. CASE UNCHANGED allvars
  BY <1>13 DEF allvars
<1>14. QED
  BY <1>1, <1>2, <1>3, <1>4, <1>5, <1>6, <1>7, <1>8, <1>9, <1>10, <1>11, <1>12, <1>13
     DEF ShellNext, UserRuns

(* What is shown above of the kernel.                                      *)
KernelInv == TypeOK /\ NoZombieOnCpu /\ ContextInv /\ BootInv

LEMMA KernelInit ==
    ASSUME Init
    PROVE  KernelInv
<1>1. TypeOK
  BY InitTyped
<1>2. ContextInv /\ NoZombieOnCpu
  BY DEF Init, ContextInv, ContextsKept, Esp0Safe, Listed, NoZombieOnCpu
<1>3. BootInv
  BY MaxProcAssumption DEF Init, BootInv, Strayed, Boot, Procs
<1>4. QED
  BY <1>1, <1>2, <1>3 DEF KernelInv

LEMMA KernelStep ==
    ASSUME KernelInv, [Next]_vars
    PROVE  KernelInv'
BY TypeOKStep, NoZombieStep, ContextStep, EveryBootStep DEF KernelInv, BootStep

(* A mishap is remembered.                                                 *)
LEMMA MishapsGrow ==
    ASSUME [Next]_vars, mishaps' = {}
    PROVE  mishaps = {}
BY DEF vars, Next, BootNext, UserNext, BootCreateElf, BootCreateUser, BootCreate, BootHandoff,
       BootRunsOff, Tick, UserStep, user_step, sys_yield, sys_sleep, sys_wait_found, sys_wait_block,
       sys_exit, exit_process, sys_create_process, sys_fork, fault_handler, sys_return,
       switch_if_ready, context_switch, return_from_trap

(* Until then user code on the CPU is the current process.                 *)
LEMMA OnCpu ==
    ASSUME KernelInv, InUser, mishaps = {}
    PROVE  /\ cpu.owner = current_process
           /\ current_process \in Listed /\ current_process \in Procs
           /\ current_process # NULL
           /\ cpu \in Contexts /\ cpu.owner # Boot /\ cpu.pc \in UserPc
           /\ state[current_process] # "ZOMBIE"
BY InUserFacts DEF KernelInv, ContextInv, ContextsKept, NoZombieOnCpu, InUser
-----------------------------------------------------------------------------
(* Where each process goes on.                                             *)

(* The process on the CPU goes on at pc, whoever runs next, and the others *)
(* that have not exited stay where they are.                               *)
Moves(pc) ==
    \A p \in Listed : state[p] # "ZOMBIE" =>
        Place(p)' = IF p = cpu.owner THEN pc ELSE Place(p)

(* User code that runs on.                                                 *)
LEMMA RunMoves ==
    ASSUME KernelInv, NEW pc \in UserPc, user_step(pc)
    PROVE  Moves(pc)
<1>1. cpu'.owner = cpu.owner /\ cpu'.pc = pc
  BY InUserFacts, UserContext DEF user_step, KernelInv
<1>2. QED
  BY <1>1 DEF user_step, Moves, Place

(* A system call that returns.                                             *)
LEMMA ReturnMoves ==
    ASSUME NEW frame, frame.owner = cpu.owner, return_from_trap(frame)
    PROVE  Moves(frame.pc)
BY DEF return_from_trap, Moves, Place

(* A switch from user code.                                                *)
LEMMA SwitchMoves ==
    ASSUME KernelInv, mishaps = {}, NEW frame \in Contexts, frame.owner = cpu.owner,
           frame.owner # Boot, current_process # NULL,
           NEW next \in Listed, next # current_process, state[next] # "ZOMBIE",
           context_switch(frame, next)
    PROVE  Moves(frame.pc)
<1>1. /\ frame.owner = current_process /\ cpu.owner = current_process
      /\ next \in Procs /\ current_process \in Procs
      /\ Listed \subseteq Procs /\ resume \in [Procs -> UserPc]
  BY ListedIs DEF KernelInv, TypeOK, ContextInv, ContextsKept
<1>2. TrapFrame(frame) \in [Procs -> Contexts]
  BY TrapFrameIs DEF KernelInv
<1>3. TrapFrame(frame)[next] = [owner |-> next, pc |-> resume[next]]
  BY <1>1, TrapFrameKeeps DEF KernelInv
<1>4. /\ regs' = [TrapFrame(frame) EXCEPT ![current_process] = Saved(frame)]
      /\ cpu' = regs'[next]
      /\ resume'[current_process] = frame.pc
      /\ \A p \in Procs \ {current_process, next} : resume'[p] = resume[p]
  BY <1>1 DEF context_switch, Suspend
<1>5. cpu' = [owner |-> next, pc |-> resume[next]]
  BY <1>1, <1>2, <1>3, <1>4
<1>6. cpu'.owner = next /\ cpu'.pc = resume[next]
  BY <1>5
<1>7. QED
  BY <1>1, <1>4, <1>6 DEF Moves, Place

(* schedule() and a switch, from user code or, without a mishap, from the  *)
(* boot thread.                                                            *)
LEMMA SwitchIfReadyMoves ==
    ASSUME KernelInv, mishaps' = {}, mishaps = {}, NEW frame \in Contexts,
           frame.owner = cpu.owner, current_process # NULL,
           NEW st, \A p \in Procs : st[p] = "READY" => state[p] # "ZOMBIE",
           switch_if_ready(frame, st)
    PROVE  Moves(frame.pc)
<1>1. CASE schedule(st) # NULL /\ context_switch(frame, schedule(st))
  <2>1. /\ schedule(st) \in Listed /\ schedule(st) # current_process
        /\ state[schedule(st)] # "ZOMBIE"
    BY <1>1, ScheduleReturns, ListedIs DEF KernelInv
  <2>2. frame.owner # Boot
    BY <1>1 DEF context_switch
  <2>3. QED
    BY <1>1, <2>1, <2>2, SwitchMoves
<1>2. CASE schedule(st) = NULL /\ return_from_trap(frame)
  BY <1>2, ReturnMoves
<1>3. QED
  BY <1>1, <1>2 DEF switch_if_ready

(* exit_process(): everybody but the process that exits stays where it is. *)
LEMMA ExitMoves ==
    ASSUME KernelInv, mishaps' = {}, mishaps = {}, sys_exit
    PROVE  \A p \in Listed : state[p] # "ZOMBIE" /\ p # cpu.owner => Place(p)' = Place(p)
<1>1. /\ cpu.owner = current_process /\ current_process \in Procs /\ current_process # NULL
      /\ cpu \in Contexts /\ Listed \subseteq Procs
  BY OnCpu, ListedIs DEF sys_exit, KernelInv
<1>2. regs' = TrapFrame(cpu) /\ resume \in [Procs -> UserPc]
  BY DEF sys_exit, exit_process, KernelInv, TypeOK
<1>3. \A p \in Procs : ~ (state[p] = "ZOMBIE" /\ AfterExit[p] = "READY")
  BY DEF sys_exit, exit_process
<1>4. CASE schedule(AfterExit) # NULL
  <2> DEFINE next == schedule(AfterExit)
  <2>1. /\ next \in Listed /\ next # current_process /\ AfterExit[next] = "READY"
        /\ cpu' = regs'[next] /\ resume' = [resume EXCEPT ![next] = EntryPc]
    BY <1>1, <1>4, ScheduleReturns DEF sys_exit, exit_process, KernelInv
  <2> HIDE DEF next
  <2>2. state[next] # "ZOMBIE"
    BY <1>1, <1>3, <2>1
  <2>3. cpu' = [owner |-> next, pc |-> resume[next]]
    BY <1>1, <1>2, <2>1, <2>2, TrapFrameKeeps DEF KernelInv
  <2>4. cpu'.owner = next /\ cpu'.pc = resume[next]
    BY <2>3
  <2>5. QED
    BY <1>1, <1>2, <2>1, <2>4 DEF Place
<1>5. CASE schedule(AfterExit) = NULL
  BY <1>2, <1>5 DEF sys_exit, exit_process, Place
<1>6. QED
  BY <1>4, <1>5

(* A new process begins at pc, the others stay.                            *)
LEMMA CreateMoves ==
    ASSUME KernelInv, mishaps = {}, NEW p, NEW pc \in UserPc, create_process(p, pc),
           cpu'.owner = cpu.owner
    PROVE  Moves(cpu'.pc) /\ Place(p)' = pc
<1>1. p \in Procs /\ p \notin Listed /\ Listed \subseteq Procs
  BY CreateTyped, ListedIs DEF KernelInv
<1>2. resume' = [resume EXCEPT ![p] = pc] /\ resume \in [Procs -> UserPc]
  BY DEF create_process, KernelInv, TypeOK
<1>3. cpu.owner # p
  <2>1. cpu.owner \in {Boot, current_process} /\ current_process \in Listed \cup {NULL}
    BY DEF KernelInv, ContextInv, ContextsKept, TypeOK
  <2>2. p # Boot /\ p # NULL
    BY <1>1 DEF Procs, Boot, NULL
  <2>3. QED
    BY <1>1, <2>1, <2>2
<1>4. QED
  BY <1>1, <1>2, <1>3 DEF Moves, Place

(* The timer interrupt.                                                    *)
LEMMA TickMoves ==
    ASSUME KernelInv, mishaps' = {}, mishaps = {}, Tick
    PROVE  Moves(cpu.pc)
<1>1. CASE current_process = NULL
  BY <1>1 DEF Tick, Moves, Place
<1>2. CASE current_process # NULL
  <2>1. PICK st : st = wake_processes(state, ticks') /\ switch_if_ready(cpu, st)
    BY <1>2 DEF Tick
  <2>2. \A p \in Procs : st[p] = "READY" => state[p] # "ZOMBIE"
    BY <2>1 DEF wake_processes
  <2>3. cpu \in Contexts
    BY DEF KernelInv, TypeOK
  <2>4. QED
    BY <1>2, <2>1, <2>2, <2>3, SwitchIfReadyMoves
<1>3. QED
  BY <1>1, <1>2

(* The handoff.                                                            *)
LEMMA HandoffMoves ==
    ASSUME KernelInv, mishaps = {}, BootHandoff
    PROVE  Moves(cpu.pc)
<1>1. /\ cpu.owner = Boot /\ halted = "no" /\ resume' = resume
      /\ Boot \notin Listed /\ Listed \subseteq Procs
  <2>1. Boot \notin Procs
    BY DEF Boot, Procs
  <2>2. QED
    BY <2>1, ListedIs DEF BootHandoff, BootAt, KernelInv
<1>2. CASE current_process = NULL
  BY <1>1, <1>2 DEF BootHandoff, Moves, Place
<1>3. CASE current_process # NULL
  <2>1. current_process \in Listed /\ state[current_process] # "ZOMBIE"
    BY <1>1, <1>3 DEF KernelInv, TypeOK, NoZombieOnCpu
  <2>2. cpu' = [owner |-> current_process, pc |-> resume[current_process]]
    BY <1>1, <1>3, <2>1 DEF BootHandoff, KernelInv, ContextInv, ContextsKept
  <2>3. cpu'.owner = current_process /\ cpu'.pc = resume[current_process]
    BY <2>2
  <2>4. QED
    BY <1>1, <2>3 DEF Moves, Place
<1>4. QED
  BY <1>2, <1>3
-----------------------------------------------------------------------------
(***************************************************************************)
(* The programs.                                                           *)
(***************************************************************************)

Programs == {"none", "elf_test", "user_main", "up_time", "shell", "child"}

(* The points that a program can be at.                                    *)
HelloPoints == {"hello", "call", "rest", "exit"}
WaitPoints == {"wait", "waited", "clear"}

Code(program) ==
    CASE program = "user_main" -> {EntryPc, "second", "yield"}
      [] program = "elf_test" -> {EntryPc} \cup HelloPoints
      [] program = "shell" -> {EntryPc, "fork"} \cup WaitPoints
      [] program = "child" -> {"child", "exit1"} \cup WaitPoints \cup HelloPoints
      [] OTHER -> {EntryPc}

(* Who runs what: user_main is older than the shells and their children,   *)
(* and hello is loaded only by a child.                                    *)
ProgInv ==
    /\ prog \in [Procs -> Programs]
    /\ \A p \in Procs : prog[p] # "none" => p \in Listed
    /\ \A p \in Procs : prog[p] \in {"shell", "child"} =>
          \E q \in Procs : q < p /\ prog[q] = "user_main"
    /\ image = "hello" => Runs("user_main") # {}

(* user_main never leaves the state READY, and no shell exits; a child was *)
(* forked by a shell, elf_test by nobody, and only children of             *)
(* command_exec() have a shell or a child for a parent.                    *)
FamilyInv ==
    /\ \A p \in Procs : prog[p] = "user_main" => state[p] = "READY"
    /\ \A p \in Procs : prog[p] = "shell" => state[p] # "ZOMBIE"
    /\ \A p \in Procs : prog[p] = "elf_test" => parent[p] = NULL
    /\ \A p \in Procs : prog[p] = "child" => parent[p] \in Runs("shell")
    /\ \A p \in Listed : parent[p] \in Shells => p \in Shells

ExitedChild(s) ==
    \E p \in Procs : prog[p] = "child" /\ state[p] = "ZOMBIE" /\ parent[p] = s

(* What it means that p is at pc: its program has this point, elf_test has *)
(* left its loop only into hello, user_wait() has found a child, and the   *)
(* return address in the shared word is the one that p has pushed.         *)
Fits(p, pc) ==
    /\ pc \in Code(prog[p])
    /\ prog[p] = "elf_test" /\ pc # EntryPc => image = "hello"
    /\ pc = "waited" /\ p \notin hit => ExitedChild(p)
    /\ pc = "call" /\ p \notin hit /\ slot.by = p => slot.to = "rest"

(* The properties speak of the process on the CPU; off it the same must    *)
(* hold of the place where it goes on.                                     *)
PlaceInv == \A p \in Listed : state[p] # "ZOMBIE" => Fits(p, Place(p))

ShellInv ==
    /\ ProgInv
    /\ mishaps = {} => FamilyInv /\ PlaceInv
    /\ SystemStaysUp

(* Nobody is revived, user_main stays READY and the shells alive.          *)
Kept ==
    /\ \A p \in Procs : state[p] = "ZOMBIE" => state'[p] = "ZOMBIE"
    /\ \A p \in Procs : prog[p] = "user_main" /\ state[p] = "READY" => state'[p] = "READY"
    /\ \A p \in Procs : prog[p] = "shell" /\ state[p] # "ZOMBIE" => state'[p] # "ZOMBIE"

(* wake_processes() keeps them.                                            *)
LEMMA WakeKept ==
    ASSUME NEW t, state' = wake_processes(state, t)
    PROVE  Kept
BY DEF Kept, wake_processes

(* So does sys_wait() of whoever is not user_main.                         *)
LEMMA BlockKept ==
    ASSUME KernelInv, mishaps = {}, InUser, prog[cpu.owner] # "user_main",
           state' = [state EXCEPT ![current_process] = "BLOCKED"]
    PROVE  Kept
<1>1. cpu.owner = current_process /\ state[current_process] # "ZOMBIE"
  BY OnCpu
<1>2. state \in [Procs -> States]
  BY DEF KernelInv, TypeOK
<1>3. QED
  BY <1>1, <1>2 DEF Kept

(* So does the exit of elf_test or of a child: its parent, if it has one,  *)
(* is a shell, and alive.                                                  *)
LEMMA ExitKept ==
    ASSUME KernelInv, ShellInv, mishaps = {}, sys_exit,
           prog[cpu.owner] \in {"elf_test", "child"}
    PROVE  Kept /\ mishaps' = {} /\ state'[cpu.owner] = "ZOMBIE"
<1>1. /\ cpu.owner = current_process /\ state[current_process] # "ZOMBIE"
      /\ current_process \in Procs
  BY OnCpu DEF sys_exit
<1>2. state \in [Procs -> States] /\ state' = AfterExit
  BY DEF KernelInv, TypeOK, sys_exit, exit_process
<1>3. CASE parent[current_process] = NULL
  <2>1. state' = [state EXCEPT ![current_process] = "ZOMBIE"]
    BY <1>2, <1>3 DEF AfterExit
  <2>2. \A p \in Procs : ~ (state[p] = "ZOMBIE" /\ AfterExit[p] = "READY")
    BY <1>1, <1>2, <2>1
  <2>3. QED
    BY <1>1, <1>2, <2>1, <2>2 DEF Kept, sys_exit, exit_process
<1>4. CASE parent[current_process] # NULL
  <2>1. /\ parent[current_process] \in Procs /\ prog[parent[current_process]] = "shell"
        /\ state[parent[current_process]] # "ZOMBIE"
    BY <1>1, <1>4 DEF ShellInv, FamilyInv, Runs
  <2>2. /\ state'[current_process] = "ZOMBIE"
        /\ state'[parent[current_process]] = "READY"
        /\ \A p \in Procs \ {current_process, parent[current_process]} : state'[p] = state[p]
    BY <1>1, <1>2, <1>4, <2>1 DEF AfterExit
  <2>3. \A p \in Procs : ~ (state[p] = "ZOMBIE" /\ AfterExit[p] = "READY")
    BY <1>1, <1>2, <2>1, <2>2
  <2>4. QED
    BY <1>1, <1>2, <2>1, <2>2, <2>3 DEF Kept, sys_exit, exit_process
<1>5. QED
  BY <1>3, <1>4

(* Steps that create no process: o, on the CPU, goes on at pc, the others  *)
(* where they are.                                                         *)
LEMMA StaysStep ==
    ASSUME KernelInv, ShellInv, mishaps = {}, NEW o, o = cpu.owner, NEW pc,
           UNCHANGED <<process_list, parent>>,
           prog' = prog \/ (/\ o \in Shells /\ UNCHANGED state
                            /\ state[o] # "ZOMBIE"
                            /\ prog' = [prog EXCEPT ![o] = "shell"]),
           image' = image \/ (image' = "hello" /\ Runs("user_main") # {}),
           slot' = slot \/ slot'.by = o,
           \A p \in Procs \ {o} : p \in hit <=> p \in hit',
           Kept,
           \A p \in Listed : state[p] # "ZOMBIE" /\ p # o => Place(p)' = Place(p),
           o \in Listed /\ state[o] # "ZOMBIE" /\ state'[o] # "ZOMBIE" =>
               Place(o)' = pc /\ Fits(o, pc)'
    PROVE  ProgInv' /\ FamilyInv' /\ PlaceInv'
<1>1. Listed' = Listed /\ Listed \subseteq Procs
  BY ListedIs DEF Listed, KernelInv
<1>2. /\ prog \in [Procs -> Programs] /\ prog' \in [Procs -> Programs]
      /\ \A p \in Procs \ {o} : prog'[p] = prog[p]
      /\ \A p \in Procs : prog'[p] = prog[p] \/ (/\ prog[p] = "child" \/ prog[p] = "shell"
                                                 /\ prog'[p] = "shell"
                                                 /\ state'[p] # "ZOMBIE")
  BY DEF ShellInv, ProgInv, Programs, Shells, Runs
<1>3. FamilyInv /\ PlaceInv
  BY DEF ShellInv
<1>4. ProgInv'
  <2>1. \A p \in Procs : prog'[p] # "none" => p \in Listed'
    BY <1>1, <1>2 DEF ShellInv, ProgInv
  <2>2. \A p \in Procs : prog'[p] \in {"shell", "child"} =>
            \E q \in Procs : q < p /\ prog'[q] = "user_main"
    BY <1>2 DEF ShellInv, ProgInv
  <2>3. image' = "hello" => Runs("user_main") # {}
    BY DEF ShellInv, ProgInv
  <2>4. Runs("user_main")' = Runs("user_main")
    BY <1>2 DEF Runs
  <2>5. QED
    BY <1>2, <2>1, <2>2, <2>3, <2>4 DEF ProgInv
<1>5. FamilyInv'
  <2>1. Shells' = Shells /\ Runs("shell") \subseteq Runs("shell")'
    BY <1>2 DEF Shells, Runs
  <2>2. \A p \in Procs : prog'[p] = "user_main" => state'[p] = "READY"
    BY <1>2, <1>3 DEF FamilyInv, Kept
  <2>3. \A p \in Procs : prog'[p] = "shell" => state'[p] # "ZOMBIE"
    BY <1>2, <1>3 DEF FamilyInv, Kept
  <2>4. \A p \in Procs : prog'[p] = "elf_test" => parent'[p] = NULL
    BY <1>2, <1>3 DEF FamilyInv
  <2>5. \A p \in Procs : prog'[p] = "child" => parent'[p] \in Runs("shell")'
    BY <1>2, <1>3, <2>1 DEF FamilyInv
  <2>6. \A p \in Listed' : parent'[p] \in Shells' => p \in Shells'
    BY <1>1, <1>3, <2>1 DEF FamilyInv
  <2>7. QED
    BY <2>2, <2>3, <2>4, <2>5, <2>6 DEF FamilyInv
<1>6. PlaceInv'
  <2>1. SUFFICES ASSUME NEW p \in Listed, state'[p] # "ZOMBIE"
                 PROVE  Fits(p, Place(p))'
    BY <1>1 DEF PlaceInv
  <2>2. p \in Procs /\ state[p] # "ZOMBIE"
    BY <1>1, <2>1 DEF Kept
  <2>3. CASE p = o
    <3>1. Place(p)' = pc /\ Fits(p, pc)'
      BY <2>1, <2>2, <2>3
    <3>2. QED
      BY <3>1 DEF Fits
  <2>4. CASE p # o
    <3>1. Place(p)' = Place(p) /\ Fits(p, Place(p)) /\ prog'[p] = prog[p]
      BY <1>2, <1>3, <2>1, <2>2, <2>4 DEF PlaceInv
    <3>2. ExitedChild(p) => ExitedChild(p)'
      BY <1>2 DEF ExitedChild, Kept
    <3>3. prog[p] = "elf_test" /\ Place(p)' # EntryPc => image' = "hello"
      BY <3>1 DEF Fits
    <3>4. Place(p)' = "waited" /\ p \notin hit' => ExitedChild(p)'
      BY <2>2, <2>4, <3>1, <3>2 DEF Fits
    <3>5. Place(p)' = "call" /\ p \notin hit' /\ slot'.by = p => slot'.to = "rest"
      BY <2>2, <2>4, <3>1 DEF Fits
    <3>6. Place(p)' \in Code(prog'[p])
      BY <3>1 DEF Fits
    <3>7. QED
      BY <3>1, <3>3, <3>4, <3>5, <3>6 DEF Fits, Code
  <2>5. QED
    BY <2>3, <2>4
<1>7. QED
  BY <1>4, <1>5, <1>6

(* Steps that create a process which runs program from pc on.              *)
LEMMA CreateStep ==
    ASSUME KernelInv, ShellInv, mishaps = {}, NEW o, o = cpu.owner,
           NEW p, NEW pc \in UserPc, create_process(p, pc),
           cpu'.owner = cpu.owner, UNCHANGED <<image, slot, hit>>,
           NEW program \in Programs \ {"none"}, prog' = [prog EXCEPT ![p] = program],
           pc \in Code(program) \ ({"waited"} \cup (HelloPoints \ {EntryPc})),
           program = "elf_test" => current_process = NULL /\ pc = EntryPc,
           program = "shell" \/ program = "child" =>
               \E q \in Procs : q < p /\ prog[q] = "user_main",
           program = "child" => current_process \in Runs("shell"),
           current_process \in Shells => program = "child",
           o \in Procs => /\ cpu'.pc \in Code(prog[o]) \ ({"waited"} \cup HelloPoints)
                          /\ prog[o] # "elf_test"
    PROVE  ProgInv' /\ FamilyInv' /\ PlaceInv'
<1>1. /\ p \in Procs /\ p \notin Listed /\ Listed' = Listed \cup {p}
      /\ Listed \subseteq Procs /\ Listed = 1 .. Len(process_list)
      /\ Len(process_list) \in Nat /\ p = Len(process_list) + 1
  BY CreateTyped, ListedIs DEF KernelInv, create_process
<1>2. /\ state \in [Procs -> States] /\ state' = [state EXCEPT ![p] = "READY"]
      /\ parent' = [parent EXCEPT ![p] = current_process]
      /\ parent \in [Procs -> Procs \cup {NULL}]
      /\ \A q \in Procs : parent[q] < q
      /\ current_process \in Listed \cup {NULL}
  BY DEF create_process, KernelInv, TypeOK
<1>3. /\ prog \in [Procs -> Programs] /\ prog[p] = "none"
      /\ prog'[p] = program
      /\ \A q \in Procs : q # p => prog'[q] = prog[q]
      /\ \A q \in Procs : prog[q] # "none" => q \in Listed /\ q # p
  BY <1>1 DEF ShellInv, ProgInv
<1>4. \A q \in Procs : prog[q] # "none" => prog'[q] = prog[q]
  BY <1>3
<1>5. FamilyInv /\ PlaceInv
  BY DEF ShellInv
<1>6. ProgInv'
  <2>1. prog' \in [Procs -> Programs]
    BY <1>3
  <2>2. \A q \in Procs : prog'[q] # "none" => q \in Listed'
    BY <1>1, <1>3
  <2>3. \A q \in Procs : prog'[q] \in {"shell", "child"} =>
            \E r \in Procs : r < q /\ prog'[r] = "user_main"
    <3>1. SUFFICES ASSUME NEW q \in Procs, prog'[q] \in {"shell", "child"}
                   PROVE  \E r \in Procs : r < q /\ prog'[r] = "user_main"
      OBVIOUS
    <3>2. \E r \in Procs : r < q /\ prog[r] = "user_main"
      BY <1>3, <3>1 DEF ShellInv, ProgInv
    <3>3. QED
      BY <1>4, <3>2
  <2>4. image' = "hello" => Runs("user_main")' # {}
    BY <1>4 DEF ShellInv, ProgInv, Runs
  <2>5. QED
    BY <2>1, <2>2, <2>3, <2>4 DEF ProgInv
<1>7. FamilyInv'
  <2>1. \A q \in Procs : prog'[q] = "user_main" => state'[q] = "READY"
    BY <1>1, <1>2, <1>3, <1>5 DEF FamilyInv
  <2>2. \A q \in Procs : prog'[q] = "shell" => state'[q] # "ZOMBIE"
    BY <1>1, <1>2, <1>3, <1>5 DEF FamilyInv
  <2>3. \A q \in Procs : prog'[q] = "elf_test" => parent'[q] = NULL
    BY <1>1, <1>2, <1>3, <1>5 DEF FamilyInv
  <2>4. \A q \in Procs : prog'[q] = "child" => parent'[q] \in Runs("shell")'
    <3>1. Runs("shell") \subseteq Runs("shell")'
      BY <1>4 DEF Runs
    <3>2. QED
      BY <1>1, <1>2, <1>3, <1>5, <3>1 DEF FamilyInv
  <2>5. ASSUME NEW q \in Listed', parent'[q] \in Shells' PROVE q \in Shells'
    <3>1. CASE q = p
      <4>0. parent'[q] = current_process
        BY <1>1, <1>2, <3>1
      <4>1. current_process \in Procs /\ current_process # p /\ parent'[q] = current_process
        <5>1. current_process \in Procs
          BY <2>5, <4>0 DEF Shells, Runs
        <5>2. current_process # p
          BY <1>1, <1>2 DEF Procs, NULL
        <5>3. QED
          BY <4>0, <5>1, <5>2
      <4>2. current_process \in Shells
        BY <1>3, <2>5, <4>1 DEF Shells, Runs
      <4>3. QED
        BY <1>1, <1>3, <3>1, <4>2 DEF Shells, Runs
    <3>2. CASE q # p
      <4>1. q \in Listed /\ q \in Procs /\ parent'[q] = parent[q] /\ parent[q] < q
        BY <1>1, <1>2, <3>2
      <4>2. parent[q] \in Procs /\ parent[q] # p
        BY <1>1, <2>5, <4>1 DEF Procs, Shells, Runs
      <4>3. parent[q] \in Shells
        BY <1>3, <2>5, <4>1, <4>2 DEF Shells, Runs
      <4>4. QED
        BY <1>3, <1>5, <3>2, <4>1, <4>3 DEF FamilyInv, Shells, Runs
    <3>3. QED
      BY <3>1, <3>2
  <2>6. QED
    BY <2>1, <2>2, <2>3, <2>4, <2>5 DEF FamilyInv
<1>8. PlaceInv'
  <2>1. SUFFICES ASSUME NEW q \in Listed', state'[q] # "ZOMBIE"
                 PROVE  Fits(q, Place(q))'
    BY DEF PlaceInv
  <2>2. Moves(cpu'.pc) /\ Place(p)' = pc
    BY CreateMoves
  <2>3. CASE q = p
    <3>1. Place(q)' = pc /\ prog'[q] = program
      BY <1>3, <2>2, <2>3
    <3>2. program = "elf_test" => pc = EntryPc
      OBVIOUS
    <3>3. EntryPc # "call" /\ EntryPc # "waited"
      BY PointsAssumption DEF Points
    <3>4. pc # "call" /\ pc # "waited"
      BY <3>3 DEF HelloPoints
    <3>5. QED
      BY <3>1, <3>2, <3>4 DEF Fits, Code
  <2>4. CASE q # p
    <3>1. q \in Listed /\ q \in Procs /\ prog'[q] = prog[q] /\ state[q] # "ZOMBIE"
      BY <1>1, <1>2, <1>3, <2>1, <2>4
    <3>2. CASE q = o
      <4>1. Place(q)' = cpu'.pc
        BY <2>2, <3>1, <3>2 DEF Moves
      <4>2. QED
        BY <3>1, <3>2, <4>1 DEF Fits, Code, HelloPoints
    <3>3. CASE q # o
      <4>1. Place(q)' = Place(q) /\ Fits(q, Place(q))
        BY <1>5, <2>2, <3>1, <3>3 DEF Moves, PlaceInv
      <4>2. ExitedChild(q) => ExitedChild(q)'
        <5>1. SUFFICES ASSUME NEW c \in Procs, prog[c] = "child", state[c] = "ZOMBIE",
                              parent[c] = q
                       PROVE  prog'[c] = "child" /\ state'[c] = "ZOMBIE" /\ parent'[c] = q
          BY DEF ExitedChild
        <5>2. c # p
          BY <1>3, <5>1
        <5>3. QED
          BY <1>2, <1>3, <5>1, <5>2
      <4>3. QED
        BY <3>1, <4>1, <4>2 DEF Fits, Code
    <3>4. QED
      BY <3>2, <3>3
  <2>5. QED
    BY <2>3, <2>4
<1>9. QED
  BY <1>6, <1>7, <1>8
-----------------------------------------------------------------------------
(* The steps of the shipped system.                                        *)

(* Which programs have a point.                                            *)
LEMMA WhoIsAt ==
    ASSUME NEW program, NEW pc \in Code(program), pc # EntryPc
    PROVE  /\ pc \in HelloPoints => program \in {"elf_test", "child"}
           /\ pc \in WaitPoints => program \in {"shell", "child"}
           /\ pc \in {"child", "exit1"} => program = "child"
           /\ pc = "fork" => program = "shell"
           /\ pc \in {"second", "yield"} => program = "user_main"
BY DEF Code, HelloPoints, WaitPoints

(* The process on the CPU is at a point that fits.                         *)
LEMMA FitsHere ==
    ASSUME KernelInv, ShellInv, mishaps = {}, InUser
    PROVE  /\ Fits(cpu.owner, cpu.pc)
           /\ cpu.owner \in Procs /\ cpu.owner \in Listed
           /\ cpu.owner = current_process /\ state[cpu.owner] # "ZOMBIE"
<1>1. /\ cpu.owner \in Procs /\ cpu.owner \in Listed
      /\ cpu.owner = current_process /\ state[cpu.owner] # "ZOMBIE"
  BY OnCpu
<1>2. Place(cpu.owner) = cpu.pc
  BY DEF Place
<1>3. QED
  BY <1>1, <1>2 DEF ShellInv, PlaceInv

(* user_main is there for schedule() to find whenever anybody else gives   *)
(* up the CPU for good or waits.                                           *)
LEMMA SomebodyIsReady ==
    ASSUME KernelInv, ShellInv, InUser, mishaps = {}, Runs("user_main") # {},
           prog[cpu.owner] # "user_main",
           NEW st, \A p \in Procs : p # current_process /\ state[p] = "READY" => st[p] = "READY"
    PROVE  schedule(st) # NULL
<1>1. PICK m \in Procs : prog[m] = "user_main"
  BY DEF Runs
<1>2. m \in Listed /\ state[m] = "READY"
  BY <1>1 DEF ShellInv, ProgInv, FamilyInv
<1>3. m # current_process /\ current_process # NULL
  BY <1>1, OnCpu
<1>4. st[m] = "READY"
  BY <1>2, <1>3
<1>5. QED
  BY <1>2, <1>3, <1>4, ScheduleFinds DEF KernelInv

(* The process on the CPU goes on at pc, in user code or behind a system   *)
(* call that returns.                                                      *)
LEMMA GoesOn ==
    ASSUME KernelInv, ShellInv, mishaps = {}, NEW o, o = cpu.owner, NEW pc \in UserPc,
           sys_return(pc) \/ user_step(pc),
           \/ prog' = prog
           \/ o \in Shells /\ prog' = [prog EXCEPT ![o] = "shell"],
           image' = image \/ (image' = "hello" /\ Runs("user_main") # {}),
           slot' = slot \/ slot'.by = o,
           \A p \in Procs \ {o} : p \in hit <=> p \in hit',
           Fits(o, pc)'
    PROVE  ShellInv'
<1>1. /\ InUser /\ mishaps' = mishaps
      /\ UNCHANGED <<process_list, parent, state, halted>>
  BY DEF sys_return, return_from_trap, user_step
<1>2. Kept /\ o \in Procs /\ state[o] # "ZOMBIE"
  BY <1>1, FitsHere DEF Kept
<1>3. Moves(pc)
  <2> DEFINE frame == [cpu EXCEPT !.pc = pc]
  <2>1. frame.owner = cpu.owner /\ frame.pc = pc
    BY <1>1, InUserFacts, UserContext DEF KernelInv
  <2>2. CASE sys_return(pc)
    <3>1. return_from_trap(frame)
      BY <2>2 DEF sys_return
    <3> HIDE DEF frame
    <3>2. QED
      BY <2>1, <3>1, ReturnMoves
  <2>3. CASE user_step(pc)
    BY <2>3, RunMoves
  <2>4. QED
    BY <2>2, <2>3
<1>4. \A p \in Listed : state[p] # "ZOMBIE" => Place(p)' = IF p = o THEN pc ELSE Place(p)
  BY <1>3 DEF Moves
<1>5. ProgInv' /\ FamilyInv' /\ PlaceInv'
  BY <1>1, <1>2, <1>4, StaysStep
<1>6. SystemStaysUp'
  BY <1>1 DEF SystemStaysUp, InUser
<1>7. QED
  BY <1>5, <1>6 DEF ShellInv

(* Everybody goes on where he was: a yield, a tick, the handoff, a key that*)
(* leads nobody astray.                                                    *)
LEMMA InPlaceStep ==
    ASSUME KernelInv, ShellInv, mishaps = {},
           UNCHANGED <<process_list, parent, prog, image, slot, hit>>,
           Kept, Moves(cpu.pc)
    PROVE  ProgInv' /\ FamilyInv' /\ PlaceInv'
<1>1. PICK o : o = cpu.owner
  OBVIOUS
<1>2. PICK pc : pc = cpu.pc
  OBVIOUS
<1>3. \A p \in Listed : state[p] # "ZOMBIE" => Place(p)' = IF p = o THEN pc ELSE Place(p)
  BY <1>1, <1>2 DEF Moves
<1>4. ASSUME o \in Listed, state[o] # "ZOMBIE" PROVE Fits(o, pc)'
  <2>1. Fits(o, pc)
    BY <1>1, <1>2, <1>4 DEF ShellInv, PlaceInv, Place
  <2>2. ExitedChild(o) => ExitedChild(o)'
    BY DEF ExitedChild, Kept
  <2>3. QED
    BY <2>1, <2>2 DEF Fits, Code
<1>5. QED
  BY <1>1, <1>3, <1>4, StaysStep

LEMMA YieldStep ==
    ASSUME KernelInv, ShellInv, mishaps = {}, sys_yield,
           UNCHANGED <<prog, image, slot, hit>>
    PROVE  ShellInv'
<1>1. PICK st : st = wake_processes(state, ticks) /\ state' = st /\ switch_if_ready(cpu, st)
  BY DEF sys_yield
<1>2. Kept
  BY <1>1, WakeKept
<1>3. \A p \in Procs : st[p] = "READY" => state[p] # "ZOMBIE"
  BY <1>1 DEF wake_processes
<1>4. /\ current_process # NULL /\ cpu \in Contexts /\ cpu.owner # Boot
      /\ UNCHANGED <<process_list, parent, halted>> /\ halted = "no"
  BY InUserFacts DEF sys_yield, InUser, KernelInv
<1>5. mishaps' = mishaps
  BY <1>1, <1>4 DEF switch_if_ready, context_switch, return_from_trap
<1>6. Moves(cpu.pc)
  BY <1>1, <1>3, <1>4, <1>5, SwitchIfReadyMoves
<1>7. ProgInv' /\ FamilyInv' /\ PlaceInv'
  BY <1>2, <1>4, <1>6, InPlaceStep
<1>8. SystemStaysUp'
  BY <1>4, <1>5 DEF SystemStaysUp
<1>9. QED
  BY <1>7, <1>8 DEF ShellInv

(* A tick may hit the handoff; then only the programs remain to be shown.  *)
LEMMA TickStep ==
    ASSUME KernelInv, ShellInv, mishaps = {}, Tick, UNCHANGED shellvars
    PROVE  ShellInv'
<1>1. Kept
  <2>1. state' = state \/ state' = wake_processes(state, ticks')
    BY DEF Tick
  <2>2. CASE state' = state
    BY <2>2 DEF Kept
  <2>3. QED
    BY <2>1, <2>2, WakeKept
<1>2. /\ UNCHANGED <<process_list, parent, halted>> /\ halted = "no"
      /\ UNCHANGED <<prog, image, slot, hit>>
  BY DEF Tick, shellvars
<1>3. mishaps' \subseteq {"boot_preempted"}
  BY DEF Tick, switch_if_ready, context_switch, return_from_trap
<1>4. SystemStaysUp'
  BY <1>2, <1>3 DEF SystemStaysUp
<1>5. CASE mishaps' = {}
  <2>1. Moves(cpu.pc)
    BY <1>5, TickMoves
  <2>2. QED
    BY <1>1, <1>2, <1>4, <2>1, InPlaceStep DEF ShellInv
<1>6. CASE mishaps' # {}
  <2>1. Listed' = Listed /\ Runs("user_main")' = Runs("user_main")
    BY <1>2 DEF Listed, Runs
  <2>2. ProgInv'
    BY <1>2, <2>1 DEF ShellInv, ProgInv
  <2>3. QED
    BY <1>4, <1>6, <2>2 DEF ShellInv
<1>7. QED
  BY <1>5, <1>6

(* The boot thread: it creates elf_test and user_main, hands over, or      *)
(* stops the machine itself.                                               *)
LEMMA BootThreadStep ==
    ASSUME KernelInv, ShellInv, mishaps = {},
           BootStarts \/ (BootRunsOff /\ UNCHANGED shellvars)
    PROVE  ShellInv'
<1>1. ASSUME NEW from \in {"start", "switch_mode"}, NEW to, BootCreate(from, to),
             process_list' # process_list, UNCHANGED <<image, slot, hit>>,
             NEW program \in {"elf_test", "user_main"},
             program = "elf_test" => from = "start",
             prog' = [prog EXCEPT ![NewPid] = program]
      PROVE  ShellInv'
  <2>1. /\ create_process(NewPid, EntryPc)
        /\ cpu = [owner |-> Boot, pc |-> from] /\ cpu' = [owner |-> Boot, pc |-> to]
        /\ UNCHANGED <<mishaps, halted>> /\ halted = "no"
    BY <1>1 DEF BootCreate, BootAt, BootGoes, NewPid
  <2>2. cpu.owner = Boot /\ cpu'.owner = Boot /\ cpu.pc = from /\ Boot \notin Procs
    BY <2>1 DEF Boot, Procs
  <2>3. /\ Len(process_list) <= 1
        /\ from = "start" => process_list = <<>>
    <3>1. process_list = <<>> => Len(process_list) = 0
      OBVIOUS
    <3>2. ~ Strayed(cpu, mishaps)
      BY <2>2 DEF Strayed
    <3>3. QED
      BY <1>1, <2>2, <3>1, <3>2 DEF KernelInv, BootInv
  <2>4. current_process \notin Shells
    <3>1. SUFFICES ASSUME current_process \in Procs,
                          prog[current_process] \in {"shell", "child"}
                   PROVE  FALSE
      BY DEF Shells, Runs
    <3>2. current_process \in Listed
      BY <3>1 DEF ShellInv, ProgInv
    <3>3. current_process = 1
      BY <2>3, <3>1, <3>2, ListedIs DEF KernelInv
    <3>4. PICK q \in Procs : q < current_process
      BY <3>1 DEF ShellInv, ProgInv
    <3>5. QED
      BY <3>3, <3>4 DEF Procs
  <2>5. program = "elf_test" => current_process = NULL
    <3>1. SUFFICES ASSUME process_list = <<>> PROVE current_process = NULL
      BY <1>1, <2>3
    <3>2. Len(process_list) = 0
      BY <3>1
    <3>3. Listed = {}
      BY <3>2, ListedIs DEF KernelInv
    <3>4. QED
      BY <3>3 DEF KernelInv, TypeOK
  <2>6. EntryPc \in Code(program) \ ({"waited"} \cup (HelloPoints \ {EntryPc}))
    BY <1>1, PointsAssumption DEF Code, Points, HelloPoints
  <2>7. ProgInv' /\ FamilyInv' /\ PlaceInv'
    <3>1. program \in Programs \ {"none"} /\ program \notin {"shell", "child"}
      BY <1>1 DEF Programs
    <3>2. PICK o : o = cpu.owner
      OBVIOUS
    <3>3. o \notin Procs /\ cpu'.owner = cpu.owner
      BY <2>2, <3>2
    <3>4. QED
      BY <1>1, <2>1, <2>4, <2>5, <2>6, <3>1, <3>2, <3>3, EntryAssumption, CreateStep
  <2>8. SystemStaysUp'
    BY <2>1 DEF SystemStaysUp
  <2>9. QED
    BY <2>7, <2>8 DEF ShellInv
<1>2. CASE BootHandoff /\ UNCHANGED shellvars
  <2>1. /\ UNCHANGED <<process_list, parent, state, mishaps, prog, image, slot, hit>>
        /\ halted = "no" /\ cpu.owner = Boot
        /\ \/ halted' = "no"
           \/ cpu' = cpu /\ halted' = "fault"
    BY <1>2 DEF BootHandoff, BootAt, shellvars
  <2>2. Kept
    BY <2>1 DEF Kept
  <2>3. SystemStaysUp'
    BY <2>1 DEF SystemStaysUp
  <2>4. ProgInv' /\ FamilyInv' /\ PlaceInv'
    BY <1>2, <2>1, <2>2, HandoffMoves, InPlaceStep
  <2>5. QED
    BY <2>3, <2>4 DEF ShellInv
<1>3. CASE BootRunsOff /\ UNCHANGED shellvars
  <2>1. /\ UNCHANGED <<process_list, parent, state, mishaps, cpu, resume, prog, image, slot, hit>>
        /\ cpu.owner = Boot /\ halted' = "fault"
    BY <1>3 DEF BootRunsOff, BootAt, shellvars
  <2>2. Kept /\ Moves(cpu.pc)
    BY <2>1 DEF Kept, Moves, Place
  <2>3. SystemStaysUp'
    BY <2>1 DEF SystemStaysUp
  <2>4. ProgInv' /\ FamilyInv' /\ PlaceInv'
    BY <2>1, <2>2, InPlaceStep
  <2>5. QED
    BY <2>3, <2>4 DEF ShellInv
<1>4. QED
  BY <1>1, <1>2, <1>3 DEF BootStarts, BootCreateElf, BootCreateUser, shellvars

(* user_main().                                                            *)
LEMMA UserMainStep ==
    ASSUME KernelInv, ShellInv, mishaps = {}, user_main
    PROVE  ShellInv'
<1>1. PICK o : o = cpu.owner
  OBVIOUS
<1>2. /\ InUser /\ prog[o] = "user_main" /\ o \in Procs /\ o \in Listed
      /\ o = current_process /\ UNCHANGED <<image, slot, hit>>
  BY <1>1, FitsHere DEF user_main, At, Runs
<1>3. ASSUME NEW pc \in {"second", "yield"}, sys_create_process(pc),
             NEW program \in {"up_time", "shell"},
             prog' = [prog EXCEPT ![NewPid] = program]
      PROVE  ShellInv'
  <2>1. pc \in UserPc
    BY PointsAssumption DEF Points
  <2>2. /\ create_process(NewPid, EntryPc)
        /\ cpu' = [cpu EXCEPT !.pc = pc]
        /\ UNCHANGED <<mishaps, halted>>
    BY <1>3 DEF sys_create_process, NewPid
  <2>3. cpu'.owner = cpu.owner /\ cpu'.pc = pc
    BY <1>2, <2>1, <2>2, InUserFacts, UserContext DEF KernelInv
  <2>4. o < NewPid /\ current_process \notin Shells
    BY <1>2, ListedIs DEF NewPid, KernelInv, Shells, Runs
  <2>5. /\ program \in Programs \ {"none"}
        /\ EntryPc \in Code(program) \ ({"waited"} \cup (HelloPoints \ {EntryPc}))
        /\ pc \in Code(prog[o]) \ ({"waited"} \cup HelloPoints)
    BY <1>2, PointsAssumption DEF Programs, Code, Points, HelloPoints
  <2>6. ProgInv' /\ FamilyInv' /\ PlaceInv'
    BY <1>1, <1>2, <1>3, <2>2, <2>3, <2>4, <2>5, EntryAssumption, CreateStep
  <2>7. SystemStaysUp'
    BY <1>2, <2>2 DEF SystemStaysUp, InUser
  <2>8. QED
    BY <2>6, <2>7 DEF ShellInv
<1>4. CASE sys_yield /\ UNCHANGED prog
  BY <1>2, <1>4, YieldStep
<1>5. QED
  BY <1>3, <1>4 DEF user_main

(* hello, in elf_test or in a child.                                       *)
LEMMA HelloStep ==
    ASSUME KernelInv, ShellInv, mishaps = {}, NEW o, o = cpu.owner,
           cpu.pc \in HelloPoints, InUser
    PROVE  /\ prog[o] \in {"elf_test", "child"}
           /\ prog[o] = "elf_test" => image = "hello"
           /\ HelloPoints \subseteq Code(prog[o])
           /\ HelloPoints \subseteq UserPc
           /\ Runs("user_main") # {}
<1>1. /\ EntryPc \notin HelloPoints /\ HelloPoints \subseteq UserPc
      /\ Fits(o, cpu.pc) /\ o \in Procs
  BY FitsHere, PointsAssumption DEF Points, HelloPoints
<1>2. prog[o] \in {"elf_test", "child"}
  BY <1>1, WhoIsAt DEF Fits
<1>3. prog[o] = "elf_test" => image = "hello"
  BY <1>1 DEF Fits
<1>4. Runs("user_main") # {}
  BY <1>1, <1>2, <1>3 DEF ShellInv, ProgInv, Runs
<1>5. QED
  BY <1>1, <1>2, <1>3, <1>4 DEF Code

(* The exit of elf_test or of a child.                                     *)
LEMMA ExitStep ==
    ASSUME KernelInv, ShellInv, mishaps = {}, sys_exit, Runs("user_main") # {},
           prog[cpu.owner] \in {"elf_test", "child"},
           UNCHANGED <<prog, image, slot, hit>>
    PROVE  ShellInv'
<1>1. PICK o : o = cpu.owner
  OBVIOUS
<1>2. /\ InUser /\ UNCHANGED <<process_list, parent>>
      /\ state \in [Procs -> States]
  BY DEF sys_exit, KernelInv, TypeOK
<1>3. Kept /\ mishaps' = {} /\ state'[o] = "ZOMBIE"
  BY <1>1, ExitKept
<1>4. \A p \in Listed : state[p] # "ZOMBIE" /\ p # o => Place(p)' = Place(p)
  BY <1>1, <1>3, ExitMoves
<1>5. ProgInv' /\ FamilyInv' /\ PlaceInv'
  BY <1>1, <1>2, <1>3, <1>4, StaysStep
<1>6. SystemStaysUp'
  <2>1. \A p \in Procs : p # current_process /\ state[p] = "READY" => AfterExit[p] = "READY"
    BY <1>2 DEF AfterExit
  <2>2. schedule(AfterExit) # NULL
    BY <1>2, <2>1, SomebodyIsReady
  <2>3. halted' = "no"
    BY <1>2, <2>2 DEF sys_exit, exit_process, InUser
  <2>4. QED
    BY <1>3, <2>3 DEF SystemStaysUp
<1>7. QED
  BY <1>5, <1>6 DEF ShellInv

(* The calls of hello and their returns; the wrong return stops the        *)
(* machine only in a process that was led astray or whose word was written *)
(* by another.                                                             *)
LEMMA HelloProgramStep ==
    ASSUME KernelInv, ShellInv, mishaps = {}, hello
    PROVE  ShellInv'
<1>1. PICK o : o = cpu.owner
  OBVIOUS
<1>2. /\ InUser /\ cpu.pc \in HelloPoints /\ UNCHANGED <<prog, image, hit>>
  BY DEF hello, HelloCalls, At, HelloPoints, shellvars
<1>3. /\ prog[o] \in {"elf_test", "child"}
      /\ prog[o] = "elf_test" => image = "hello"
      /\ HelloPoints \subseteq Code(prog[o])
      /\ HelloPoints \subseteq UserPc
      /\ Runs("user_main") # {}
  BY <1>1, <1>2, HelloStep
<1>4. ASSUME NEW pc \in HelloPoints, sys_return(pc) \/ user_step(pc),
             pc = "call" => slot' = [by |-> o, to |-> "rest"],
             slot' = slot \/ slot'.by = o
      PROVE  ShellInv'
  <2>1. pc # "waited" /\ (pc = "call" => slot'.to = "rest")
    BY <1>4 DEF HelloPoints
  <2>2. Fits(o, pc)'
    BY <1>2, <1>3, <1>4, <2>1 DEF Fits, Code
  <2>3. QED
    BY <1>1, <1>2, <1>3, <1>4, <2>2, GoesOn
<1>5. CASE HelloCalls("hello", "call", "rest")
  <2>1. user_step("call") /\ slot' = [by |-> o, to |-> "rest"] /\ slot'.by = o
    BY <1>1, <1>5 DEF HelloCalls
  <2>2. QED
    BY <1>4, <2>1 DEF HelloPoints
<1>6. CASE HelloCalls("rest", "exit", "end")
  <2>1. user_step("exit") /\ slot'.by = o
    BY <1>1, <1>6 DEF HelloCalls
  <2>2. QED
    BY <1>4, <2>1 DEF HelloPoints
<1>7. CASE /\ At(Procs, "call") /\ slot.to = "rest" /\ sys_return("rest")
           /\ UNCHANGED shellvars
  BY <1>4, <1>7 DEF HelloPoints, shellvars
<1>8. CASE /\ At(Procs, "call") /\ slot.to # "rest" /\ fault_handler
           /\ UNCHANGED shellvars
  <2>1. /\ return_from_trap(cpu) /\ halted' = "fault" /\ cpu' = cpu
        /\ UNCHANGED <<process_list, parent, state, mishaps, prog, image, slot, hit>>
    BY <1>8 DEF fault_handler, return_from_trap, shellvars
  <2>2. Kept /\ Moves(cpu.pc)
    BY <2>1, ReturnMoves DEF Kept
  <2>3. ProgInv' /\ FamilyInv' /\ PlaceInv'
    BY <2>1, <2>2, InPlaceStep
  <2>4. o \in hit \/ slot.by # o
    BY <1>1, <1>2, <1>8, FitsHere DEF Fits, At
  <2>5. SystemStaysUp'
    BY <1>1, <2>1, <2>4 DEF SystemStaysUp
  <2>6. QED
    BY <2>3, <2>5 DEF ShellInv
<1>9. CASE At(Procs, "exit") /\ sys_exit /\ UNCHANGED shellvars
  BY <1>1, <1>3, <1>9, ExitStep DEF shellvars
<1>10. QED
  BY <1>5, <1>6, <1>7, <1>8, <1>9 DEF hello

(* user_up_time() and elf_test.                                            *)
LEMMA LoopStep ==
    ASSUME KernelInv, ShellInv, mishaps = {}, user_up_time \/ elf_test
    PROVE  ShellInv'
<1>1. PICK o : o = cpu.owner
  OBVIOUS
<1>2. /\ "hello" \in UserPc /\ EntryPc \in UserPc
      /\ EntryPc # "call" /\ EntryPc # "waited"
  BY PointsAssumption, EntryAssumption DEF Points
<1>3. UNCHANGED <<prog, image, slot, hit>>
  BY DEF user_up_time, elf_test, shellvars
<1>4. CASE prog[o] = "up_time" /\ sys_return(EntryPc)
  <2>1. Fits(o, EntryPc)'
    BY <1>2, <1>3, <1>4 DEF Fits, Code
  <2>2. QED
    BY <1>1, <1>2, <1>3, <1>4, <2>1, GoesOn
<1>5. CASE prog[o] = "elf_test" /\ image = "hello" /\ user_step("hello")
  <2>1. Fits(o, "hello")'
    BY <1>3, <1>5 DEF Fits, Code, HelloPoints
  <2>2. QED
    BY <1>1, <1>2, <1>3, <1>5, <2>1, GoesOn
<1>6. QED
  BY <1>1, <1>4, <1>5 DEF user_up_time, elf_test, At, Runs

(* shell() up to user_fork().                                              *)
LEMMA ShellRunsStep ==
    ASSUME KernelInv, ShellInv, mishaps = {}, shell
    PROVE  ShellInv'
<1>1. PICK o : o = cpu.owner
  OBVIOUS
<1>2. prog[o] = "shell" /\ UNCHANGED <<prog, image, slot, hit>>
  BY <1>1 DEF shell, At, Runs, shellvars
<1>3. CASE sys_yield
  BY <1>2, <1>3, YieldStep
<1>4. ASSUME NEW pc \in {"fork", "clear"}, user_step(pc) PROVE ShellInv'
  <2>1. Fits(o, pc)'
    BY <1>2, <1>4 DEF Fits, Code, WaitPoints
  <2>2. pc \in UserPc
    BY <1>4, PointsAssumption DEF Points
  <2>3. QED
    BY <1>1, <1>2, <1>4, <2>1, <2>2, GoesOn
<1>5. QED
  BY <1>3, <1>4 DEF shell

(* user_fork().                                                            *)
LEMMA ForkStep ==
    ASSUME KernelInv, ShellInv, mishaps = {}, user_fork
    PROVE  ShellInv'
<1>1. PICK o : o = cpu.owner
  OBVIOUS
<1>2. /\ InUser /\ prog[o] = "shell" /\ o \in Procs /\ o \in Listed
      /\ o = current_process /\ UNCHANGED <<image, slot, hit>>
      /\ "wait" \in UserPc /\ "child" \in UserPc
  BY <1>1, FitsHere, PointsAssumption DEF user_fork, At, Runs, Points
<1>3. CASE sys_return("wait") /\ UNCHANGED prog
  <2>1. Fits(o, "wait")'
    BY <1>2, <1>3 DEF Fits, Code, WaitPoints
  <2>2. QED
    BY <1>1, <1>2, <1>3, <2>1, GoesOn
<1>4. CASE sys_fork("wait", "child") /\ prog' = [prog EXCEPT ![NewPid] = "child"]
  <2>1. /\ create_process(NewPid, "child")
        /\ cpu' = [cpu EXCEPT !.pc = "wait"]
        /\ UNCHANGED <<mishaps, halted>>
    BY <1>4 DEF sys_fork, NewPid
  <2>2. cpu'.owner = cpu.owner /\ cpu'.pc = "wait"
    BY <1>2, <2>1, InUserFacts, UserContext DEF KernelInv
  <2>3. \E q \in Procs : q < NewPid /\ prog[q] = "user_main"
    <3>1. PICK q \in Procs : q < o /\ prog[q] = "user_main"
      BY <1>2 DEF ShellInv, ProgInv
    <3>2. q \in Listed
      BY <3>1 DEF ShellInv, ProgInv
    <3>3. q < NewPid
      BY <3>2, ListedIs DEF NewPid, KernelInv
    <3>4. QED
      BY <3>1, <3>3
  <2>4. /\ "child" \in Programs \ {"none"}
        /\ "child" \in Code("child") \ ({"waited"} \cup (HelloPoints \ {EntryPc}))
        /\ "wait" \in Code(prog[o]) \ ({"waited"} \cup HelloPoints)
        /\ current_process \in Runs("shell")
    BY <1>2 DEF Programs, Code, HelloPoints, WaitPoints, Runs
  <2>5. ProgInv' /\ FamilyInv' /\ PlaceInv'
    BY <1>1, <1>2, <1>4, <2>1, <2>2, <2>3, <2>4, CreateStep
  <2>6. SystemStaysUp'
    BY <1>2, <2>1 DEF SystemStaysUp, InUser
  <2>7. QED
    BY <2>5, <2>6 DEF ShellInv
<1>5. QED
  BY <1>3, <1>4 DEF user_fork

(* The child up to hello, or to its exit.                                  *)
LEMMA ChildStep ==
    ASSUME KernelInv, ShellInv, mishaps = {}, child
    PROVE  ShellInv'
<1>1. PICK o : o = cpu.owner
  OBVIOUS
<1>2. /\ InUser /\ o \in Procs /\ Fits(o, cpu.pc) /\ UNCHANGED <<prog, hit>>
      /\ cpu.pc \in {"child", "exit1"} /\ EntryPc \notin {"child", "exit1"}
      /\ "hello" \in UserPc /\ "exit1" \in UserPc
  BY <1>1, FitsHere, PointsAssumption DEF child, At, Points
<1>3. prog[o] = "child"
  BY <1>2, WhoIsAt DEF Fits
<1>4. Runs("user_main") # {}
  BY <1>2, <1>3 DEF ShellInv, ProgInv, Runs
<1>5. CASE /\ sys_return("hello") /\ image' = "hello"
           /\ slot' = [by |-> cpu.owner, to |-> "unknown"]
  <2>1. Fits(o, "hello")'
    BY <1>2, <1>3, <1>5 DEF Fits, Code, HelloPoints
  <2>2. slot'.by = o
    BY <1>1, <1>5
  <2>3. QED
    BY <1>1, <1>2, <1>4, <1>5, <2>1, <2>2, GoesOn
<1>6. CASE sys_exit /\ UNCHANGED <<image, slot>>
  BY <1>1, <1>2, <1>3, <1>4, <1>6, ExitStep
<1>7. QED
  BY <1>5, <1>6 DEF child

(* user_wait(): the zombie it finds is a child of command_exec(), and      *)
(* otherwise there is a process to switch to.                              *)
LEMMA WaitStep ==
    ASSUME KernelInv, ShellInv, mishaps = {}, user_wait
    PROVE  ShellInv'
<1>1. PICK o : o = cpu.owner
  OBVIOUS
<1>2. /\ InUser /\ o \in Shells /\ o \in Procs /\ prog[o] \in {"shell", "child"}
      /\ o = current_process /\ current_process # NULL /\ state[o] # "ZOMBIE"
      /\ "wait" \in UserPc /\ "waited" \in UserPc
      /\ UNCHANGED <<prog, image, slot, hit>>
  BY <1>1, FitsHere, OnCpu, PointsAssumption
     DEF user_wait, At, Shells, Runs, Points, shellvars
<1>3. {"wait", "waited"} \subseteq Code(prog[o])
  BY <1>2 DEF Code, WaitPoints
<1>4. Runs("user_main") # {}
  BY <1>2 DEF ShellInv, ProgInv, Runs
<1>5. CASE sys_wait_found("waited")
  <2>1. sys_return("waited") /\ UNCHANGED <<state, parent>>
    BY <1>5 DEF sys_wait_found, sys_return
  <2>2. PICK p \in Listed : parent[p] = o /\ state[p] = "ZOMBIE"
    BY <1>2, <1>5 DEF sys_wait_found, ZombieChildren
  <2>3. p \in Shells
    BY <1>2, <2>2 DEF ShellInv, FamilyInv
  <2>4. prog[p] = "child" /\ p \in Procs
    BY <2>2, <2>3 DEF ShellInv, FamilyInv, Shells, Runs
  <2>5. ExitedChild(o)'
    BY <1>2, <2>1, <2>2, <2>4 DEF ExitedChild
  <2>6. Fits(o, "waited")'
    BY <1>2, <1>3, <2>5 DEF Fits, Code
  <2>7. QED
    BY <1>1, <1>2, <2>1, <2>6, GoesOn
<1>6. CASE sys_wait_block("wait")
  <2> DEFINE frame == [cpu EXCEPT !.pc = "wait"]
             st == [state EXCEPT ![current_process] = "BLOCKED"]
  <2>1. /\ state' = st /\ UNCHANGED <<process_list, parent>>
        /\ state \in [Procs -> States]
    BY <1>6 DEF sys_wait_block, KernelInv, TypeOK
  <2>2. \A p \in Procs : p # current_process /\ state[p] = "READY" => st[p] = "READY"
    BY <2>1
  <2>3. schedule(st) # NULL
    BY <1>1, <1>2, <1>4, <2>2, SomebodyIsReady
  <2>4. context_switch(frame, schedule(st)) /\ UNCHANGED halted
    BY <1>6, <2>3 DEF sys_wait_block
  <2>5. /\ frame \in Contexts /\ frame.owner = cpu.owner /\ frame.pc = "wait"
        /\ frame.owner # Boot
    BY <1>2, InUserFacts, UserContext DEF KernelInv
  <2>6. /\ schedule(st) \in Listed /\ schedule(st) # current_process
        /\ st[schedule(st)] = "READY" /\ Listed \subseteq Procs
    BY <1>2, <2>3, ScheduleReturns, ListedIs DEF KernelInv
  <2>7. state[schedule(st)] # "ZOMBIE"
    BY <2>1, <2>6
  <2>8. Kept /\ state'[o] # "ZOMBIE"
    BY <1>1, <1>2, <2>1, BlockKept
  <2> HIDE DEF frame, st
  <2>9. Moves(frame.pc) /\ mishaps' = mishaps
    BY <1>2, <2>4, <2>5, <2>6, <2>7, SwitchMoves DEF context_switch
  <2>10. \A p \in Listed : state[p] # "ZOMBIE" => Place(p)' = IF p = o THEN "wait" ELSE Place(p)
    BY <1>1, <2>5, <2>9 DEF Moves
  <2>11. Fits(o, "wait")'
    BY <1>2, <1>3 DEF Fits, Code
  <2>12. ProgInv' /\ FamilyInv' /\ PlaceInv'
    BY <1>1, <1>2, <2>1, <2>8, <2>10, <2>11, StaysStep
  <2>13. SystemStaysUp'
    BY <1>2, <2>4, <2>9 DEF SystemStaysUp, InUser
  <2>14. QED
    BY <2>12, <2>13 DEF ShellInv
<1>7. QED
  BY <1>5, <1>6 DEF user_wait

(* The prompt.                                                             *)
LEMMA DoneStep ==
    ASSUME KernelInv, ShellInv, mishaps = {}, shell_done
    PROVE  ShellInv'
<1>1. PICK o : o = cpu.owner
  OBVIOUS
<1>2. /\ o \in Shells /\ o \in Procs /\ sys_return(EntryPc)
      /\ prog' = [prog EXCEPT ![o] = "shell"]
      /\ hit' = hit \ {o} /\ UNCHANGED <<image, slot>>
  BY <1>1 DEF shell_done, At, Shells, Runs
<1>3. prog'[o] = "shell" /\ EntryPc \notin {"waited", "call"}
  BY <1>2, PointsAssumption DEF ShellInv, ProgInv, Points
<1>4. Fits(o, EntryPc)'
  BY <1>3 DEF Fits, Code
<1>5. QED
  BY <1>1, <1>2, <1>4, EntryAssumption, GoesOn

(* A key, and where it may lead the process that it interrupts.            *)
LEMMA KeyStep ==
    ASSUME KernelInv, ShellInv, mishaps = {}, keyboard_isr
    PROVE  ShellInv'
<1>1. PICK o : o = cpu.owner
  OBVIOUS
<1>2. /\ InUser /\ Fits(o, cpu.pc) /\ o \in Procs /\ UNCHANGED <<prog, image, slot>>
      /\ cpu.pc \in UserPc
  BY <1>1, FitsHere, InUserFacts DEF keyboard_isr, KernelInv
<1>3. CASE sys_return(cpu.pc) /\ UNCHANGED hit
  <2>1. UNCHANGED <<state, parent>>
    BY <1>3 DEF sys_return
  <2>2. PICK pc \in UserPc : pc = cpu.pc
    BY <1>2
  <2>3. ExitedChild(o) => ExitedChild(o)'
    BY <1>2, <2>1 DEF ExitedChild
  <2>4. Fits(o, pc)'
    BY <1>2, <1>3, <2>2, <2>3 DEF Fits, Code
  <2>5. QED
    BY <1>1, <1>2, <1>3, <2>2, <2>4, GoesOn
<1>4. ASSUME NEW to \in Astray, sys_return(to), hit' = hit \cup {cpu.owner} PROVE ShellInv'
  <2>1. to \in UserPc /\ o \in hit'
    BY <1>1, <1>4 DEF Astray
  <2>2. to \in Code(prog[o]) /\ (prog[o] = "elf_test" => image = "hello")
    <3>1. CASE At(Runs("user_main"), EntryPc) /\ to = "second"
      BY <1>1, <3>1 DEF At, Runs, Code
    <3>2. ASSUME <<cpu.pc, to>> \in {<<"second", "yield">>, <<"fork", "wait">>,
                                     <<"wait", "waited">>, <<"child", "wait">>,
                                     <<"child", "exit1">>, <<"exit1", "clear">>,
                                     <<"exit", "call">>}
          PROVE to \in Code(prog[o]) /\ (prog[o] = "elf_test" => image = "hello")
      <4>1. cpu.pc # EntryPc /\ cpu.pc \in Code(prog[o])
        BY <1>2, <3>2, PointsAssumption DEF Fits, Points
      <4>2. CASE cpu.pc = "second" /\ to = "yield"
        BY <4>1, <4>2, WhoIsAt DEF Code
      <4>3. CASE cpu.pc = "fork" /\ to = "wait"
        BY <4>1, <4>3, WhoIsAt DEF Code, WaitPoints
      <4>4. CASE cpu.pc = "wait" /\ to = "waited"
        <5>1. prog[o] \in {"shell", "child"}
          BY <4>1, <4>4, WhoIsAt DEF WaitPoints
        <5>2. QED
          BY <4>4, <5>1 DEF Code, WaitPoints
      <4>5. CASE cpu.pc \in {"child", "exit1"} /\ to \in {"wait", "exit1", "clear"}
        BY <4>1, <4>5, WhoIsAt DEF Code, WaitPoints
      <4>6. CASE cpu.pc = "exit" /\ to = "call"
        <5>1. prog[o] \in {"elf_test", "child"}
          BY <4>1, <4>6, WhoIsAt DEF HelloPoints
        <5>2. prog[o] = "elf_test" => image = "hello"
          BY <1>2, <4>1 DEF Fits
        <5>3. QED
          BY <4>6, <5>1, <5>2 DEF Code, HelloPoints
      <4>7. QED
        BY <3>2, <4>2, <4>3, <4>4, <4>5, <4>6
    <3>3. QED
      BY <1>4, <3>1, <3>2 DEF Astray
  <2>3. Fits(o, to)'
    BY <1>2, <2>1, <2>2 DEF Fits, Code
  <2>4. \A p \in Procs \ {o} : p \in hit <=> p \in hit'
    BY <1>1, <1>4
  <2>5. QED
    BY <1>1, <1>2, <1>4, <2>1, <2>3, <2>4, GoesOn
<1>5. QED
  BY <1>1, <1>3, <1>4 DEF keyboard_isr

(* Every step of the shipped system.                                       *)
LEMMA EveryShellStep ==
    ASSUME KernelInv, ShellInv, [ShellNext]_allvars
    PROVE  ShellInv'
<1>1. CASE UNCHANGED allvars
  <2>1. UNCHANGED <<process_list, parent, state, mishaps, cpu, resume, halted, prog, image, slot, hit>>
    BY <1>1 DEF allvars, vars, shellvars
  <2>2. Listed' = Listed /\ Runs("user_main")' = Runs("user_main")
        /\ Runs("shell")' = Runs("shell") /\ Shells' = Shells
    BY <2>1 DEF Listed, Runs, Shells
  <2>3. ProgInv' /\ SystemStaysUp'
    BY <2>1, <2>2 DEF ShellInv, ProgInv, SystemStaysUp
  <2>4. CASE mishaps = {}
    <3>1. Kept /\ Moves(cpu.pc)
      BY <2>1 DEF Kept, Moves, Place
    <3>2. QED
      BY <2>1, <2>3, <2>4, <3>1, InPlaceStep DEF ShellInv
  <2>5. QED
    BY <2>1, <2>3, <2>4 DEF ShellInv
<1>2. CASE ShellNext
  <2>1. mishaps = {}
    BY <1>2 DEF ShellNext
  <2>2. CASE BootStarts \/ (BootRunsOff /\ UNCHANGED shellvars)
    BY <2>1, <2>2, BootThreadStep
  <2>3. CASE Tick /\ UNCHANGED shellvars
    BY <2>1, <2>3, TickStep
  <2>4. CASE UserRuns
    BY <2>1, <2>4, UserMainStep, LoopStep, HelloProgramStep, ShellRunsStep, ForkStep,
       ChildStep, WaitStep, DoneStep DEF UserRuns
  <2>5. CASE keyboard_isr
    BY <2>1, <2>5, KeyStep
  <2>6. QED
    BY <1>2, <2>2, <2>3, <2>4, <2>5 DEF ShellNext
<1>3. QED
  BY <1>1, <1>2

(* The invariant holds of the shipped system.                              *)
THEOREM ShippedSystem == ShellSpec => [](KernelInv /\ ShellInv)
<1>1. ShellInit => KernelInv /\ ShellInv
  <2> SUFFICES ASSUME ShellInit PROVE KernelInv /\ ShellInv
    OBVIOUS
  <2>1. Init /\ prog = [p \in Procs |-> "none"] /\ image = "elf_test"
    BY DEF ShellInit
  <2>2. KernelInv
    BY <2>1, KernelInit
  <2>3. process_list = <<>> /\ DOMAIN process_list = {} /\ halted = "no" /\ mishaps = {}
    BY <2>1 DEF Init
  <2>4. Listed = {}
    BY <2>3 DEF Listed
  <2>5. ProgInv /\ FamilyInv /\ PlaceInv
    BY <2>1, <2>4 DEF ProgInv, FamilyInv, PlaceInv, Programs
  <2>6. SystemStaysUp
    BY <2>3 DEF SystemStaysUp
  <2>7. QED
    BY <2>2, <2>5, <2>6 DEF ShellInv
<1>2. KernelInv /\ ShellInv /\ [ShellNext]_allvars => (KernelInv /\ ShellInv)'
  BY ShellStepIsStep, KernelStep, EveryShellStep DEF KernelInv
<1>3. QED
  BY <1>1, <1>2, PTL DEF ShellSpec

(* The shipped system implements the process table and the scheduler of    *)
(* Process, fairness apart: every program, started, forked or exec'd, and  *)
(* wherever a key has led it, makes only the steps that Process allows     *)
(* user code in general.                                                   *)
THEOREM ShellImplementsProcess == ShellSpec => Init /\ [][Next]_vars
<1>1. ShellInit => Init
  BY DEF ShellInit
<1>2. KernelInv /\ ShellInv /\ [ShellNext]_allvars => [Next]_vars
  BY ShellStepIsStep DEF KernelInv
<1>3. QED
  BY <1>1, <1>2, ShippedSystem, PTL DEF ShellSpec

(* exit_process(), sys_wait(), schedule() and the shared page: under the   *)
(* shipped programs no zombie is revived and schedule() always finds a     *)
(* process, however many commands are run, whoever exits, and wherever     *)
(* keys lead the processes; what stops the machine is a tick before the    *)
(* handoff, or the return address in hello that another process, or the    *)
(* way a key has led this one, has left there.                             *)
THEOREM SystemIsUp == ShellSpec => []SystemStaysUp
<1>1. KernelInv /\ ShellInv => SystemStaysUp
  BY DEF ShellInv
<1>2. QED
  BY <1>1, ShippedSystem, PTL

(* sys_wait() and command_exec(): the wait for a command returns only when *)
(* a child that was forked for one has exited, unless a key has led the    *)
(* waiting process astray.                                                 *)
THEOREM PromptIsAfterChild == ShellSpec => []PromptAfterChild
<1>1. KernelInv /\ ShellInv => PromptAfterChild
  <2> SUFFICES ASSUME KernelInv, ShellInv, mishaps = {}, At(Shells, "waited"),
                      cpu.owner \notin hit
               PROVE  ExitedChild(cpu.owner)
    BY DEF PromptAfterChild, ExitedChild, Runs
  <2>1. Fits(cpu.owner, "waited")
    BY FitsHere DEF At
  <2>2. QED
    BY <2>1 DEF Fits
<1>2. QED
  BY <1>1, ShippedSystem, PTL
=============================================================================
