-------------------------------- MODULE Exec --------------------------------
(***************************************************************************)
(* Processes and programs in the one address space of mini_kernel: the     *)
(* memory side of create_process() (kernel/process.c), the ELF loader      *)
(* (kernel/elf.c), sys_exec() and sys_kmalloc() (kernel/syscall.c), on     *)
(* Paging and FrameMap.  All of this runs with IF = 0, or in kernel()      *)
(* before a second process exists, so a call is one atomic action.         *)
(*                                                                         *)
(* phys is the contents of physical memory.  A program is a file, which    *)
(* is linked into the kernel, or "kernel" for the functions (user_main,    *)
(* shell) that run where the kernel lies.  A file has the header fields    *)
(* that the loader looks at and a sequence of segments.                    *)
(***************************************************************************)
EXTENDS Paging

CONSTANTS Machines,     \* the memory maps of the machines that are explored
          Files,        \* the ELF files, by name
          BootFile,     \* the file that kernel() loads
          KStackPages,  \* KERNEL_STACK_SIZE / 4096
          StackPage,    \* the page below USER_STACK_TOP
          MaxProc,      \* bound: processes
          MaxHeap,      \* bound: pages of the heap
          MaxNext       \* bound: how far next_virtual walks

\* External: every machine reserves the same addresses, and its usable memory
\* starts at page boundaries and ends below 4 GiB.
ASSUME MachinesAssumption ==
    /\ InitialMap \in Machines
    /\ \A m \in Machines :
          /\ BiosMap(m) /\ UsedBases(m) = UsedBases(InitialMap)
          /\ \A k \in DOMAIN m : m[k].type = Usable =>
                m[k].base % PageSize = 0 /\ End(m[k]) <= AddrLimit

\* The stack of programs lies behind the first table; there is room for the
\* first process before next_virtual leaves it.
ASSUME LayoutAssumption ==
    /\ KStackPages \in Nat \ {0}
    /\ StackPage \in TablePages .. TablePages * Tables - 1
    /\ MaxNext \in KernelEnd + KStackPages + 2 .. TablePages
    /\ MaxProc \in Nat \ {0} /\ MaxHeap \in Nat

\* What the loader looks at of a file: fields of Elf32_Ehdr and of the program
\* headers behind e_phoff.  class32, i386 and current compare e_ident and
\* e_machine with ELFCLASS32, EM_386 and EV_CURRENT.
Segments == [load : BOOLEAN, vaddr : Nat, offset : Nat, filesz : Nat, memsz : Nat]
Headers == [magic : BOOLEAN, class32 : BOOLEAN, i386 : BOOLEAN, current : BOOLEAN,
            type : {"NONE", "REL", "EXEC"}, entry : Nat, segments : Seq(Segments)]

ASSUME FilesAssumption == BootFile \in DOMAIN Files /\ Files \in [DOMAIN Files -> Headers]

VARIABLES mem,    \* the memory of Paging
          phys,   \* contents of physical memory
          proc,   \* by pid
          heap,   \* the pages of the heap
          loader, \* history: who loaded a program last, or 0
          last    \* history: whether the last call was an exec and succeeded

vars == <<mem, phys, proc, heap, loader, last>>

Procs == 1 .. MaxProc

\* The contents that are told apart: bytes of a file, zeros, all the rest.
Zero == <<"zero">>
Other == <<"other">>
Byte(f, at) == <<"byte", f, at>>

\* "whole" is history: the image was loaded with enough memory.
NoProcess == [state |-> "none", image |-> "none", whole |-> FALSE, eip |-> 0,
              kstack |-> 0, ustack |-> 0]

Live(p) == proc[p].state = "live"

\* The last call was none that loads a program.
Quiet == [op |-> "other", ok |-> TRUE]

\* A call starts with no failure so far.
Calm == [mem EXCEPT !.short = FALSE]

Running == mem.status = "ok"

\* The kernel or a user writes the page v, nothing of which is a file.
Scribble(m, ph, v) ==
    [u \in DOMAIN ph |-> IF get_map(m, v) # None /\ u \div PageSize = PageOf(get_map(m, v))
                         THEN Other ELSE ph[u]]
-----------------------------------------------------------------------------
(* elf.c                                                                   *)

\* check_elf_file()
check_elf_file(f) == Files[f].magic

\* check_elf_supported()
check_elf_supported(f) ==
    /\ check_elf_file(f)
    /\ Files[f].class32 /\ Files[f].i386 /\ Files[f].current
    /\ Files[f].type \in {"REL", "EXEC"}

\* Mutant: the end is rounded down.
SegmentCount_rounded_down(s) == PageOf(s.vaddr + s.memsz) - PageOf(s.vaddr)

\* How many pages a segment has, from segment_start to segment_end.
SegmentCount(s) == PageOf(s.vaddr + s.memsz + PageSize - 1) - PageOf(s.vaddr)

SegmentPages(s) == PageOf(s.vaddr) .. PageOf(s.vaddr) + SegmentCount(s) - 1

\* External: the programs are linked as the files in user/ are: segments lie behind
\* the first table and below the stack and share no page; none has more
\* bytes in the file than in memory, and the entry point is not 0.
ASSUME LinkAssumption ==
    \A f \in DOMAIN Files : Files[f].type = "EXEC" =>
        LET loaded == {n \in DOMAIN Files[f].segments : Files[f].segments[n].load}
            seg(n) == Files[f].segments[n]
        IN  /\ Files[f].entry # 0
            /\ \A n \in loaded : /\ seg(n).filesz <= seg(n).memsz
                                 /\ SegmentPages(seg(n)) \subseteq TablePages .. StackPage - 1
            /\ \A n, k \in loaded :
                  n # k => SegmentPages(seg(n)) \cap SegmentPages(seg(k)) = {}

\* What unit k of a segment is to hold: a byte of the file, or 0 behind them.
Wanted(f, s, k) == IF k < s.filesz THEN Byte(f, s.offset + k) ELSE Zero

\* Where unit k of a segment lies in physical memory.
PlaceOf(m, s, k) == get_map(m, PageOf(s.vaddr + k)) + ((s.vaddr + k) % PageSize)

\* The units 0 .. count - 1 of a segment are written in this order; a page that
\* is not mapped is a fault, which ends the run; what was written before it is
\* left out.
Write(l, f, s, count) ==
    IF \E k \in 0 .. count - 1 : get_map(l.mem, PageOf(s.vaddr + k)) = None
    THEN [l EXCEPT !.mem.status = "fault"]
    ELSE [l EXCEPT !.phys =
             [u \in DOMAIN l.phys |->
                 LET units == {k \in 0 .. count - 1 : PlaceOf(l.mem, s, k) = u}
                 IN  IF units = {} THEN l.phys[u] ELSE Wanted(f, s, Max(units))]]

\* Mutant: the memset() is left out.
CopySegment_no_zeros(l, f, s) == Write(l, f, s, s.filesz)

\* memcpy() and memset() of load_segment().
CopySegment(l, f, s) == Write(l, f, s, Max({s.filesz, s.memsz}))

\* load_segment(): new frames for all pages, then the contents; it returns
\* without a word when a frame is missing.
load_segment(l, f, s) ==
    LET r == MapEach(l.mem, PageOf(s.vaddr), SegmentCount(s), TRUE)
        mapped == [l EXCEPT !.mem = r.mem]
    IN  IF ~ r.ok \/ r.mem.status # "ok" THEN mapped ELSE CopySegment(mapped, f, s)

\* Program header s, after what l says; only PT_LOAD is looked at.
LoadHeader(l, f, s) ==
    IF s.load /\ l.mem.status = "ok" THEN load_segment(l, f, s) ELSE l

\* elf_load_exec(): all program headers in turn.
elf_load_exec(l, f) ==
    LET segments == Files[f].segments
        r[n \in 0 .. Len(segments)] ==
            IF n = 0 THEN l ELSE LoadHeader(r[n - 1], f, segments[n])
    IN  r[Len(segments)]

\* elf_load_file(): the memory and the entry point, 0 for a file that is
\* refused.  elf_load_rel() returns nothing; what is in EAX is e_type, 1.
elf_load_file(l, f) ==
    CASE ~ check_elf_supported(f) -> [l |-> l, entry |-> 0]
      [] check_elf_supported(f) /\ Files[f].type = "EXEC" ->
            [l |-> elf_load_exec(l, f), entry |-> Files[f].entry]
      [] OTHER -> [l |-> l, entry |-> 1]
-----------------------------------------------------------------------------
(* create_process()                                                        *)

\* The stacks of a process for which kmalloc() has found a process_t.  If the
\* user stack cannot be had, one page of the kernel stack is given back.
Stacks(m) ==
    LET k == allocate_pages_contig(m, KStackPages, FALSE)
        u == allocate_page(k.mem, TRUE)
    IN  IF k.page = 0 THEN [mem |-> k.mem, kstack |-> 0, ustack |-> 0]
        ELSE IF u.page = 0
        THEN [mem |-> free_page(u.mem, k.page), kstack |-> 0, ustack |-> 0]
        ELSE [mem |-> u.mem, kstack |-> k.page, ustack |-> u.page]

\* kmalloc(): a block of a page it has, or, always at first, a new page.  That
\* there is none goes unnoticed (see Heap).
KmallocPage(m, user) ==
    {[mem |-> m, pages |-> heap] : x \in {y \in {1} : heap # {}}}
    \cup {[mem |-> r.mem, pages |-> IF r.page = 0 THEN heap ELSE heap \cup {r.page}] :
             r \in {x \in {allocate_page(m, user)} : Cardinality(heap) < MaxHeap}}

\* The process that create_process() makes, with its registers at the top of
\* its kernel stack.
Created(s, image, eip, whole) ==
    [state |-> "live", image |-> image, whole |-> whole, eip |-> eip,
     kstack |-> s.kstack, ustack |-> s.ustack]

\* A program of f that was loaded into m as it should be.
Whole(m, f) == ~ m.short /\ check_elf_supported(f) /\ Files[f].type = "EXEC"

NextPid == CHOOSE p \in Procs : proc[p].state = "none" /\ \A q \in 1 .. p - 1 : proc[q].state # "none"

HasRoom ==
    /\ \E p \in Procs : proc[p].state = "none"
    /\ mem.next_virtual + KStackPages + 2 <= MaxNext

\* create_process() for a function of the kernel, from SYS_CREATE_PROCESS,
\* SYS_FORK or kernel(); NULL is reported to the caller.
create_process ==
    /\ Running /\ HasRoom
    /\ last.op # "none"
    /\ \E h \in KmallocPage(Calm, FALSE) : \E s \in {Stacks(h.mem)} :
          LET ok == s.kstack # 0
          IN  /\ mem' = s.mem
              /\ heap' = h.pages
              /\ proc' = IF ok THEN [proc EXCEPT ![NextPid] = Created(s, "kernel", 0, TRUE)] ELSE proc
              /\ phys' = IF ok THEN Scribble(s.mem, phys, s.kstack + KStackPages - 1) ELSE phys
              /\ last' = Quiet
    /\ UNCHANGED loader

\* create_elf_process(), the first thing kernel() does with a process.  A file
\* that is refused, or loaded in part, is entered all the same, and so is a
\* stack that is frame 0.
create_elf_process ==
    /\ last.op = "none"
    /\ \E h \in KmallocPage(Calm, FALSE) :
       \E s \in {Stacks(h.mem)} :
       \E load \in {elf_load_file([mem |-> s.mem,
                                  phys |-> Scribble(s.mem, phys, s.kstack + KStackPages - 1)],
                                 BootFile)} :
       \E frame \in {allocate(load.l.mem.map)} :
          LET ok    == s.kstack # 0
              m     == map_page([load.l.mem EXCEPT !.map = frame.map,
                                                   !.short = @ \/ frame.addr = 0],
                                frame.addr, StackPage, TRUE)
          IN  /\ heap' = h.pages
              /\ mem' = IF ~ ok THEN s.mem ELSE IF load.l.mem.status # "ok" THEN load.l.mem ELSE m
              /\ phys' = IF ok THEN load.l.phys ELSE phys
              /\ proc' = IF ok THEN [proc EXCEPT ![1] = Created(s, BootFile, load.entry, Whole(m, BootFile))]
                         ELSE proc
              /\ loader' = IF ok THEN 1 ELSE 0
              /\ last' = [op |-> "boot", ok |-> TRUE]
-----------------------------------------------------------------------------
(* System calls of process p.                                              *)

\* Mutant: the frame for the stack is taken before the file is loaded.
sys_exec_stack_first(p, f) ==
    /\ Running /\ Live(p)
    /\ \E frame \in {allocate(mem.map)} :
       \E load \in {elf_load_file([mem |-> [Calm EXCEPT !.map = frame.map], phys |-> phys], f)} :
          LET ok == load.entry # 0 /\ frame.addr # 0
              m  == map_page(load.l.mem, frame.addr, StackPage, TRUE)
          IN  /\ mem' = IF ok /\ load.l.mem.status = "ok" THEN m ELSE load.l.mem
              /\ phys' = load.l.phys
              /\ proc' = IF ok THEN [proc EXCEPT ![p].eip = load.entry, ![p].image = f,
                                                 ![p].whole = Whole(m, f)]
                         ELSE proc
              /\ loader' = IF ok THEN p ELSE loader
              /\ last' = [op |-> "exec", ok |-> ok]
    /\ UNCHANGED heap

\* SYS_EXEC: the file is loaded over whatever is there; -1 if it is refused,
\* and also, when eip has been set already, if there is no frame for a stack.
sys_exec(p, f) ==
    /\ Running /\ Live(p)
    /\ \E load \in {elf_load_file([mem |-> Calm, phys |-> phys], f)} :
       \E r \in {MapNew(load.l.mem, StackPage, TRUE)} :
          LET stopped == load.entry = 0 \/ load.l.mem.status # "ok"
          IN  /\ mem' = IF stopped THEN load.l.mem ELSE r.mem
              /\ phys' = load.l.phys
              /\ proc' = IF stopped THEN proc
                         ELSE [proc EXCEPT ![p].eip = load.entry, ![p].image = f,
                                           ![p].whole = Whole(r.mem, f)]
              /\ loader' = IF stopped THEN loader ELSE p
              /\ last' = [op |-> "exec", ok |-> load.entry # 0 /\ r.addr # 0]
    /\ UNCHANGED heap

\* SYS_MALLOC: a page for the heap, when it needs one.
sys_kmalloc(p) ==
    /\ Running /\ Live(p) /\ mem.next_virtual < MaxNext
    /\ \E h \in KmallocPage(Calm, TRUE) :
          /\ mem' = h.mem
          /\ heap' = h.pages
          /\ last' = Quiet
    /\ UNCHANGED <<phys, proc, loader>>

\* SYS_EXIT, as far as memory goes: nothing is given back.
sys_exit(p) ==
    /\ Running /\ Live(p)
    /\ proc' = [proc EXCEPT ![p].state = "exited"]
    /\ last' = Quiet
    /\ UNCHANGED <<mem, phys, heap, loader>>

\* User code writes its stack: its own page, or after an exec the common one.
UserWrites(p) ==
    /\ Running /\ Live(p)
    /\ phys' = Scribble(mem, phys, IF proc[p].image = "kernel" THEN proc[p].ustack ELSE StackPage)
    /\ last' = Quiet
    /\ UNCHANGED <<mem, proc, heap, loader>>
-----------------------------------------------------------------------------
Init ==
    /\ \E machine \in Machines : mem = [FirstMemory EXCEPT !.map = machine]
    /\ phys = [u \in 0 .. AddrLimit - 1 |-> Other]
    /\ proc = [p \in Procs |-> NoProcess]
    /\ heap = {}
    /\ loader = 0
    /\ last = [op |-> "none", ok |-> TRUE]

Next ==
    \/ create_elf_process
    \/ create_process
    \/ \E p \in Procs : \/ \E f \in DOMAIN Files : sys_exec(p, f)
                        \/ sys_kmalloc(p)
                        \/ sys_exit(p)
                        \/ UserWrites(p)

Spec == Init /\ [][Next]_vars
-----------------------------------------------------------------------------
\* The pages that somebody uses: heap, stacks, and what was loaded.
KStack(p) == proc[p].kstack .. proc[p].kstack + KStackPages - 1
StacksOf(p) == IF proc[p].state = "none" THEN {} ELSE KStack(p) \cup {proc[p].ustack}
LoadedPages(m) == {v \in Pages : v >= TablePages /\ m.pte[v] # None}
InUse == heap \cup LoadedPages(mem) \cup UNION {StacksOf(p) : p \in Procs}

\* allocate_page(), allocate_pages_contig(), load_segment(), free_page(): no
\* page belongs to two owners; two pages in use are never mapped to the same
\* frame, nor to a page table, and the frame is taken in the memory map, or it
\* is frame 0, which create_elf_process() maps for the stack when allocate() fails.
MappingsExclusive ==
    Running =>
        /\ \A p \in Procs : \A q \in Procs \ {p} : StacksOf(p) \cap StacksOf(q) = {}
        /\ \A p \in Procs : StacksOf(p) \cap heap = {}
        /\ \A v \in InUse :
              /\ \/ mem.pte[v] \in Taken(mem) \ NewTables(mem)
                 \/ v = StackPage /\ mem.pte[v] = 0
              /\ \A w \in InUse \ {v} : mem.pte[w] # mem.pte[v]

\* free_page() and allocate_page(): a page in free_virtual[] is there once,
\* lies where next_virtual has been (never in the kernel, never at 0, which
\* means failure), is not mapped and not in use; and no page in use has a stale translation,
\* although free_page() does not flush the TLB.
FreeListSound ==
    Running =>
        /\ \A k \in DOMAIN mem.free_virtual :
              /\ mem.free_virtual[k] \in KernelEnd .. mem.next_virtual - 1
              /\ mem.pte[mem.free_virtual[k]] = None
              /\ mem.free_virtual[k] \notin InUse
              /\ \A l \in DOMAIN mem.free_virtual \ {k} : mem.free_virtual[l] # mem.free_virtual[k]
        /\ InUse \cap mem.stale = {}

\* The page table that was not reached lies where next_virtual has been, or
\* behind the first table.
Beyond(m) ==
    PageOf(m.table) \notin (0 .. KernelEnd - 1) \cup (m.next_virtual .. TablePages - 1)

\* init_virtual_allocator(), map_page() and load_segment(): the kernel, and
\* what lies where next_virtual has not come yet (the screen, the boot stack,
\* page tables), stays mapped to itself.  So the kernel loses a page table only
\* where next_virtual has been or behind the first table, and does not fault
\* otherwise unless it was out of frames.
IdentityKept ==
    /\ \A v \in 0 .. TablePages - 1 :
          v < KernelEnd \/ v >= mem.next_virtual => mem.pte[v] = v * PageSize
    /\ mem.status = "astray" => Beyond(mem)
    /\ mem.status = "fault" => mem.short \/ Beyond(mem)

\* Frames that are taken but neither mapped for anybody nor a page table.
Lost(m, pages) == Taken(m) \ ({m.pte[v] : v \in pages} \cup NewTables(m))

\* create_process(), load_segment() and sys_exec(): a call for which there was
\* enough memory loses no frame, except that loading forgets the frames that
\* the pages of the program and its stack had before.
LeaksExplained ==
    [][\A a \in Lost(mem', InUse') \ Lost(mem, InUse) :
          \/ mem'.short \/ mem'.status # "ok"
          \/ last'.op = "exec" /\ a \in {mem.pte[v] : v \in LoadedPages(mem)}]_vars

\* Unit a of the address space as user code sees it.
Reads(a) ==
    IF UserCanTouch(mem, PageOf(a)) THEN phys[mem.pte[PageOf(a)] + (a % PageSize)] ELSE Other

\* The program f lies in memory as its segments say.
InPlace(f) ==
    \A n \in DOMAIN Files[f].segments :
        LET s == Files[f].segments[n]
        IN  s.load => \A k \in 0 .. s.memsz - 1 : Reads(s.vaddr + k) = Wanted(f, s, k)

\* load_segment(), sys_exec() and create_elf_process(): the program that was
\* loaded last, if there was enough memory, is complete in memory, bytes and
\* zeros, and readable for user code, and it stays so whatever all processes
\* allocate, fail to allocate, give back and write, until the next load.
ImageInPlace ==
    Running /\ loader # 0 /\ proc[loader].whole => InPlace(proc[loader].image)

\* sys_exec(), load_segment() and map_page(): load_segment() and map_page()
\* fail without a word, and sys_exec() looks at its own allocate() only.  Yet
\* when it reports success, the program is complete in memory: an allocate()
\* that fails leaves the memory map alone, so that the next one fails too.
SuccessMeansLoaded ==
    Running /\ last.op = "exec" /\ last.ok =>
        loader # 0 /\ (Files[proc[loader].image].type = "EXEC" => InPlace(proc[loader].image))

\* sys_exec(): a program that was loaded as it should be is in memory as long
\* as its process runs.
RunningImageKept ==
    Running => \A p \in Procs :
        Live(p) /\ proc[p].whole /\ proc[p].image # "kernel" => InPlace(proc[p].image)
=============================================================================
