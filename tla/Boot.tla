-------------------------------- MODULE Boot --------------------------------
(***************************************************************************)
(* From the boot sector (boot/boot.asm) to paging: the BIOS is asked for   *)
(* the memory map (the table at 0x504 that the frame allocator works on)   *)
(* and for the sectors of the kernel; then kernel() (kernel/kernel.c) sets *)
(* up segments and interrupts, while the devices may already interrupt.    *)
(*                                                                         *)
(* The BIOS is the environment: its list of regions, how it ends the list, *)
(* whether it answers with "SMAP", and a disk that may fail at any read.   *)
(* An entry of its list has the number of bytes it stores (cx), the first  *)
(* bit of the extended attributes and a length.                            *)
(***************************************************************************)
EXTENDS Integers, SequencesExt

CONSTANTS Lists,        \* the lists of regions that are explored
          KernelSizes,  \* the values of KERNEL_SECTORS that are explored
          Chunk,        \* 64: sectors of a full read
          ChunkParas,   \* 0x800: paragraphs of a full read
          SectorParas,  \* 32: paragraphs of a sector
          KernelSegment,\* 0x1000: where the kernel goes
          SegmentLimit, \* 2^16: dap_segment is a word
          WaitTicks     \* 300: how long switch_mode() waits

ASSUME ChunkAssumption == Chunk \in Nat \ {0} /\ ChunkParas = Chunk * SectorParas
ASSUME ParasAssumption ==
    SectorParas \in Nat \ {0} /\ KernelSegment \in Nat /\ SegmentLimit \in Nat
ASSUME SizeAssumption ==
    \A n \in KernelSizes : n \in Nat \ {0} /\ KernelSegment + n * SectorParas < SegmentLimit
ASSUME ListsAssumption ==
    \A list \in Lists : list \in Seq([cx : Nat, valid : BOOLEAN, length : Nat])

VARIABLES at,           \* where the boot thread is
          bios,         \* list, how it ends, whether eax is "SMAP"
          ebx, table,   \* continuation value; the entries behind 0x504 that bp counts
          kernel_remaining, dap_segment, dap_lba,
          memory,       \* by segment: the sector that was read there
          flags,        \* IF (iflag), and whether gdt and idt are loaded
          pic,          \* first vector and the requests that are masked
          gates,        \* the vectors that have a gate in idt[]
          ticks,
          unhandled     \* history: an interrupt met no handler

bootvars == <<bios, ebx, table>>
diskvars == <<kernel_remaining, dap_segment, dap_lba, memory>>
cpuvars == <<flags, pic, gates, ticks, unhandled>>
vars == <<at, bootvars, diskvars, cpuvars>>

Sectors == 1 .. bios.sectors
Requests == 0 .. 15
-----------------------------------------------------------------------------
(* boot.asm                                                                *)

\* What loopp does with entry e: nothing was stored; the entry is to be
\* ignored, which ends the loop; it is empty; or it is counted.
Skipped(e) == e.cx = 0
Ignored(e) == e.cx > 20 /\ ~ e.valid

\* Mutant: empty regions are counted.
Counted_empty(e) == ~ Skipped(e) /\ ~ Ignored(e)

Counted(e) == ~ Skipped(e) /\ ~ Ignored(e) /\ e.length > 0

\* The k-th call returns entry k, if there is one, and the value for the next
\* call, 0 with the last entry unless the end is told by a carry.
Answered(k) == k <= Len(bios.list)
Continuation(k) == IF k = Len(bios.list) /\ bios.ending = "last" THEN 0 ELSE k

\* loopp, next and skip with the answer k.
loopp(k) ==
    /\ table' = IF Counted(bios.list[k]) THEN Append(table, k) ELSE table
    /\ ebx' = Continuation(k)
    /\ at' = IF Ignored(bios.list[k]) \/ Continuation(k) = 0 THEN "read_kernel" ELSE "search"

BootFails ==
    /\ at' = "disk_error"
    /\ UNCHANGED <<bootvars, diskvars>>

\* do_e820: the first call.  Its "SMAP" is compared but the result is not
\* used; a list of one entry is refused.
do_e820 ==
    /\ at = "do_e820"
    /\ \/ (~ Answered(1) \/ Continuation(1) = 0) /\ BootFails
       \/ /\ Answered(1) /\ Continuation(1) # 0
          /\ loopp(1)
          /\ UNCHANGED <<bios, diskvars>>
    /\ UNCHANGED cpuvars

\* search: every further call.  A carry is an error, also behind the last.
search ==
    /\ at = "search"
    /\ \/ (~ Answered(ebx + 1) \/ ~ bios.smap) /\ BootFails
       \/ /\ Answered(ebx + 1) /\ bios.smap
          /\ loopp(ebx + 1)
          /\ UNCHANGED <<bios, diskvars>>
    /\ UNCHANGED cpuvars

dap_count == IF kernel_remaining >= Chunk THEN Chunk ELSE kernel_remaining

\* Mutant: 0x400 for 0x800.
Advance_half == IF dap_count = Chunk THEN ChunkParas \div 2 ELSE dap_count * SectorParas

\* How far dap_segment moves: .small_read multiplies.
Advance == IF dap_count = Chunk THEN ChunkParas ELSE dap_count * SectorParas

\* read_kernel: up to 64 sectors; an error ends the boot.
read_kernel ==
    /\ at = "read_kernel"
    /\ \/ BootFails
       \/ /\ memory' = [s \in DOMAIN memory \cup {dap_segment + k * SectorParas : k \in 0 .. dap_count - 1} |->
                            IF s \in dap_segment .. dap_segment + dap_count * SectorParas - 1
                            THEN dap_lba + (s - dap_segment) \div SectorParas ELSE memory[s]]
          /\ kernel_remaining' = kernel_remaining - dap_count
          /\ dap_segment' = (dap_segment + Advance) % SegmentLimit
          /\ dap_lba' = dap_lba + dap_count
          /\ at' = IF kernel_remaining' = 0 THEN "start" ELSE "read_kernel"
          /\ UNCHANGED bootvars
    /\ UNCHANGED cpuvars
-----------------------------------------------------------------------------
(* kernel(), after the bss has been cleared, up to paging.                 *)

Step(from, to) ==
    /\ at = from
    /\ at' = to
    /\ UNCHANGED <<bootvars, diskvars, unhandled>>

\* Protected mode (cli from the start of the boot sector), then init_gdt().
init_gdt ==
    /\ Step("start", "remap_pic")
    /\ flags' = [flags EXCEPT !.gdt = TRUE]
    /\ UNCHANGED <<pic, gates, ticks>>

\* remap_pic(): the requests go to vector 32 and up, none is masked.
remap_pic ==
    /\ Step("remap_pic", "mask")
    /\ pic' = [first |-> 32, masked |-> {}]
    /\ UNCHANGED <<flags, gates, ticks>>

\* Mutant: the cascade of the second PIC is left open.
mask_pic_cascade ==
    /\ Step("mask", "add")
    /\ pic' = [pic EXCEPT !.masked = Requests \ {0, 1, 2, 8}]
    /\ UNCHANGED <<flags, gates, ticks>>

\* outb(0x21, 0xFC): timer and keyboard only; the second PIC has no way in.
mask_pic ==
    /\ Step("mask", "add")
    /\ pic' = [pic EXCEPT !.masked = Requests \ {0, 1}]
    /\ UNCHANGED <<flags, gates, ticks>>

\* The six calls of add(), and load_idt().
add_gates ==
    /\ Step("add", "sti")
    /\ gates' = {8, 13, 14, 32, 33, 128}
    /\ flags' = [flags EXCEPT !.idt = TRUE]
    /\ UNCHANGED <<pic, ticks>>

sti ==
    /\ Step("sti", "pit_init")
    /\ flags' = [flags EXCEPT !.iflag = TRUE]
    /\ UNCHANGED <<pic, gates, ticks>>

\* Mutant: the sti() at the end is left out.
pit_init_cli ==
    /\ \/ Step("pit_init", "pit_set") /\ flags' = [flags EXCEPT !.iflag = FALSE]
       \/ Step("pit_set", "switch_mode") /\ UNCHANGED flags
    /\ UNCHANGED <<pic, gates, ticks>>

\* pit_init() between cli and sti.
pit_init ==
    /\ \/ Step("pit_init", "pit_set") /\ flags' = [flags EXCEPT !.iflag = FALSE]
       \/ Step("pit_set", "switch_mode") /\ flags' = [flags EXCEPT !.iflag = TRUE]
    /\ UNCHANGED <<pic, gates, ticks>>

\* switch_mode() has seen its ticks go by (the ones before are not counted),
\* and page directory and paging follow; or F10 was pressed in time, and the
\* machine goes on without them.
switch_mode ==
    /\ \/ ticks = WaitTicks /\ Step("switch_mode", "paging")
       \/ Step("switch_mode", "bios_mode")
    /\ UNCHANGED <<flags, pic, gates, ticks>>

\* A device requests service, and the CPU accepts it.  irq0_handler() counts
\* and, with no process, returns; keyboard_handler() is in Console.
Interrupt(n) ==
    /\ flags.iflag /\ n \notin pic.masked
    /\ unhandled' = (unhandled \/ ~(flags.gdt /\ flags.idt /\ pic.first + n \in gates))
    /\ ticks' = IF n = 0 /\ at = "switch_mode" /\ ticks < WaitTicks THEN ticks + 1 ELSE ticks
    /\ UNCHANGED <<at, bootvars, diskvars, flags, pic, gates>>
-----------------------------------------------------------------------------
Init ==
    /\ at = "do_e820"
    /\ bios \in [list : Lists, ending : {"last", "carry"}, smap : BOOLEAN, sectors : KernelSizes]
    /\ ebx = 0
    /\ table = <<>>
    /\ kernel_remaining = bios.sectors
    /\ dap_segment = KernelSegment
    /\ dap_lba = 1
    /\ memory = [s \in {} |-> 0]
    /\ flags = [iflag |-> FALSE, gdt |-> FALSE, idt |-> FALSE]
    /\ pic = [first |-> 8, masked |-> {}]
    /\ gates = {}
    /\ ticks = 0
    /\ unhandled = FALSE

BootSteps ==
    \/ do_e820 \/ search \/ read_kernel
    \/ init_gdt \/ remap_pic \/ mask_pic \/ add_gates \/ sti \/ pit_init

Next == BootSteps \/ switch_mode \/ \E n \in Requests : Interrupt(n)

\* The boot thread executes and the PIT interrupts.
Spec == Init /\ [][Next]_vars /\ WF_vars(BootSteps \/ (ticks = WaitTicks /\ switch_mode))
             /\ WF_vars(Interrupt(0))
-----------------------------------------------------------------------------
\* The answers that are to end up in the table: up to the first one that is
\* marked as to be ignored, those that stored a region that is not empty.
Reported ==
    {k \in DOMAIN bios.list :
        /\ \A l \in 1 .. k : ~ Ignored(bios.list[l])
        /\ ~ Skipped(bios.list[k]) /\ bios.list[k].length > 0}

\* do_e820: the frame allocator gets each nonempty region the BIOS reports
\* before one that is to be ignored, once and in order; a partial table is
\* never used, since any error ends the boot.
MapAsReported ==
    at \notin {"do_e820", "search", "disk_error"} =>
        /\ Range(table) = Reported
        /\ \A k, l \in DOMAIN table : k < l => table[k] < table[l]

\* read_kernel: when the kernel is entered every sector of it has been read to
\* its place, whatever its size and however the last read was cut; before that
\* the sectors read are a prefix, without gap or overlap.
KernelInPlace ==
    /\ DOMAIN memory = {KernelSegment + (n - 1) * SectorParas : n \in 1 .. dap_lba - 1}
    /\ \A n \in 1 .. dap_lba - 1 : memory[KernelSegment + (n - 1) * SectorParas] = n
    /\ at \notin {"do_e820", "search", "read_kernel", "disk_error"} => dap_lba - 1 = bios.sectors

\* remap_pic(), add() and sti(): an interrupt that comes in, at whatever step
\* of kernel(), finds segments, a table and a gate.
InterruptsHandled == ~ unhandled

\* boot.asm and kernel(): the machine stops with an error or goes on to its
\* processes, with paging or without; it waits for nothing but the timer.
BootsOrStops == <>(at \in {"disk_error", "paging", "bios_mode"})
=============================================================================
