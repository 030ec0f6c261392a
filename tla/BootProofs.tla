----------------------------- MODULE BootProofs -----------------------------
(***************************************************************************)
(* Proofs about Boot, for every list of the BIOS, every size of the kernel *)
(* and of a read.                                                          *)
(***************************************************************************)
EXTENDS Boot, TLAPS

Loading == {"do_e820", "search", "read_kernel"}
SettingUp == {"start", "remap_pic", "mask", "add", "sti"}
SetUp == {"pit_init", "pit_set", "switch_mode", "paging", "bios_mode"}

(* What is set up at which step of kernel(): interrupts are let in only    *)
(* when segments, table, gates and masks are in place.                     *)
SetUpInv ==
    /\ at \in Loading \cup {"disk_error"} \cup SettingUp \cup SetUp
    /\ flags \in [iflag : BOOLEAN, gdt : BOOLEAN, idt : BOOLEAN]
    /\ pic \in [first : Nat, masked : SUBSET Requests]
    /\ flags.iflag => at \in SetUp
    /\ at \in {"remap_pic", "mask", "add", "sti"} \cup SetUp => flags.gdt
    /\ at \in {"mask", "add", "sti"} \cup SetUp => pic.first = 32
    /\ at \in {"add", "sti"} \cup SetUp => pic.masked = Requests \ {0, 1}
    /\ at \in {"sti"} \cup SetUp => flags.idt /\ {32, 33} \subseteq gates
    /\ ~ unhandled

(* kernel(): an interrupt that comes in, at whatever step, finds segments, *)
(* a table and a gate (InterruptsHandled).                                 *)
THEOREM InterruptsAreHandled == Spec => []InterruptsHandled
<1> USE DEF Loading, SettingUp, SetUp
<1>1. Init => SetUpInv
  BY DEF Init, SetUpInv
<1>2. SetUpInv /\ [Next]_vars => SetUpInv'
  <2> SUFFICES ASSUME SetUpInv, [Next]_vars
               PROVE  SetUpInv'
    OBVIOUS
  <2>1. CASE do_e820 \/ search
    BY <2>1 DEF SetUpInv, do_e820, search, loopp, BootFails, cpuvars
  <2>2. CASE read_kernel
    BY <2>2 DEF SetUpInv, read_kernel, BootFails, cpuvars
  <2>3. CASE init_gdt
    BY <2>3 DEF SetUpInv, init_gdt, Step
  <2>4. CASE remap_pic
    BY <2>4 DEF SetUpInv, remap_pic, Step, Requests
  <2>5. CASE mask_pic
    BY <2>5 DEF SetUpInv, mask_pic, Step
  <2>6. CASE add_gates
    BY <2>6 DEF SetUpInv, add_gates, Step
  <2>7. CASE sti
    BY <2>7 DEF SetUpInv, sti, Step
  <2>8. CASE pit_init
    <3>1. CASE Step("pit_init", "pit_set")
      BY <2>8, <3>1 DEF SetUpInv, pit_init, Step
    <3>2. CASE Step("pit_set", "switch_mode")
      BY <2>8, <3>2 DEF SetUpInv, pit_init, Step
    <3>3. QED
      BY <2>8, <3>1, <3>2 DEF pit_init
  <2>9. CASE switch_mode
    BY <2>9 DEF SetUpInv, switch_mode, Step
  <2>10. ASSUME NEW n \in Requests, Interrupt(n)
         PROVE  SetUpInv'
    <3>1. flags.iflag /\ n \notin pic.masked
      BY <2>10 DEF Interrupt
    <3>2. /\ at \in SetUp /\ flags.gdt /\ flags.idt
          /\ pic.first = 32 /\ pic.masked = Requests \ {0, 1} /\ {32, 33} \subseteq gates
      BY <3>1 DEF SetUpInv
    <3>3. n = 0 \/ n = 1
      BY <3>1, <3>2
    <3>4. pic.first + n \in gates
      BY <3>2, <3>3
    <3>5. ~ unhandled'
      BY <2>10, <3>2, <3>4 DEF SetUpInv, Interrupt
    <3>6. QED
      BY <2>10, <3>5 DEF SetUpInv, Interrupt
  <2>11. CASE UNCHANGED vars
    BY <2>11 DEF SetUpInv, vars, cpuvars
  <2>12. QED
    BY <2>1, <2>2, <2>3, <2>4, <2>5, <2>6, <2>7, <2>8, <2>9, <2>10, <2>11
       DEF Next, BootSteps
<1>3. SetUpInv => InterruptsHandled
  BY DEF SetUpInv, InterruptsHandled
<1>4. QED
  BY <1>1, <1>2, <1>3, PTL DEF Spec
-----------------------------------------------------------------------------
(* The first n answers that are counted.                                   *)
Seen(n) == {k \in 1 .. n : Counted(bios.list[k])}

Increasing(s) == \A k, l \in 1 .. Len(s) : k < l => s[k] < s[l]

(* The answers so far are in the table, in order, and none was to be       *)
(* ignored.                                                                *)
TableInv ==
    /\ at \in Loading \cup {"disk_error"} \cup SettingUp \cup SetUp
    /\ bios.list \in Lists
    /\ table \in Seq(Nat)
    /\ Increasing(table)
    /\ at = "do_e820" => ebx = 0 /\ table = <<>>
    /\ at = "search" => /\ ebx \in 1 .. Len(bios.list)
                        /\ Range(table) = Seen(ebx)
                        /\ \A l \in 1 .. ebx : ~ Ignored(bios.list[l])
    /\ at \notin {"do_e820", "search", "disk_error"} => Range(table) = Reported

(* loopp with answer k extends the table to the first k answers.           *)
LEMMA LoopKeeps ==
    ASSUME NEW k \in 1 .. Len(bios.list), bios.list \in Lists, UNCHANGED bios,
           table \in Seq(Nat), Increasing(table), Range(table) = Seen(k - 1),
           \A l \in 1 .. k - 1 : ~ Ignored(bios.list[l]),
           loopp(k)
    PROVE  TableInv'
<1> USE DEF Loading, SettingUp, SetUp
<1> DEFINE L == bios.list
<1>1. /\ L \in Seq([cx : Nat, valid : BOOLEAN, length : Nat])
      /\ Len(L) \in Nat /\ k \in Nat /\ k - 1 \in Nat /\ DOMAIN L = 1 .. Len(L)
  BY ListsAssumption
<1>2. \A n \in 1 .. Len(table) : table[n] \in 1 .. k - 1
  BY DEF Range, Seen
<1>a. \A l \in 1 .. k : l \in 1 .. k - 1 \/ l = k
  BY <1>1
<1>3. /\ table' \in Seq(Nat) /\ Increasing(table') /\ Range(table') = Seen(k)
  <2>1. CASE Counted(L[k])
    <3>1. table' = Append(table, k)
      BY <2>1 DEF loopp
    <3>2. /\ table' \in Seq(Nat) /\ Len(table') = Len(table) + 1
          /\ \A n \in 1 .. Len(table) : table'[n] = table[n]
          /\ table'[Len(table) + 1] = k
      BY <3>1, <1>1
    <3>3. Increasing(table')
      <4> SUFFICES ASSUME NEW p \in 1 .. Len(table) + 1, NEW q \in 1 .. Len(table) + 1, p < q
                   PROVE  table'[p] < table'[q]
        BY <3>2 DEF Increasing
      <4>1. Len(table) \in Nat
        OBVIOUS
      <4>2. p \in 1 .. Len(table) /\ table'[p] = table[p] /\ table[p] \in 1 .. k - 1
        BY <3>2, <4>1, <1>2
      <4>3. CASE q = Len(table) + 1
        BY <3>2, <4>2, <4>3, <1>1
      <4>4. CASE q \in 1 .. Len(table)
        BY <3>2, <4>2, <4>4 DEF Increasing
      <4>5. QED
        BY <4>1, <4>3, <4>4
    <3>4. Seen(k) = Seen(k - 1) \cup {k}
      BY <2>1, <1>1 DEF Seen
    <3>5. DOMAIN table' = 1 .. Len(table) + 1 /\ DOMAIN table = 1 .. Len(table)
      BY <3>2
    <3>6. Range(table') = Range(table) \cup {k}
      <4>1. \A x \in Range(table') : x \in Range(table) \cup {k}
        <5> SUFFICES ASSUME NEW n \in 1 .. Len(table) + 1
                     PROVE  table'[n] \in Range(table) \cup {k}
          BY <3>5, Zenon DEF Range
        <5>1. n \in 1 .. Len(table) \/ n = Len(table) + 1
          OBVIOUS
        <5>2. QED
          BY <3>2, <3>5, <5>1, Zenon DEF Range
      <4>2. \A x \in Range(table) : x \in Range(table')
        <5> SUFFICES ASSUME NEW n \in 1 .. Len(table)
                     PROVE  table[n] \in Range(table')
          BY <3>5 DEF Range
        <5>1. n \in DOMAIN table' /\ table'[n] = table[n]
          BY <3>2, <3>5
        <5>2. QED
          BY <5>1 DEF Range
      <4>3. k \in Range(table')
        <5>1. Len(table) + 1 \in DOMAIN table'
          BY <3>5
        <5>2. QED
          BY <3>2, <5>1 DEF Range
      <4>4. QED
        BY <4>1, <4>2, <4>3
    <3>7. QED
      BY <3>2, <3>3, <3>4, <3>6
  <2>2. CASE ~ Counted(L[k])
    <3>1. Seen(k) = Seen(k - 1)
      <4>1. \A x : x \in 1 .. k <=> x \in 1 .. k - 1 \/ x = k
        BY <1>1
      <4>2. QED
        BY <2>2, <4>1 DEF Seen
    <3>2. QED
      BY <3>1, <2>2 DEF loopp
  <2>3. QED
    BY <2>1, <2>2
<1>4. Seen(k)' = Seen(k)
  BY DEF Seen, Counted, Skipped, Ignored
<1>5. Reported' = Reported
  BY DEF Reported, Skipped, Ignored
<1>6. CASE Ignored(L[k])
  <2>1. at' = "read_kernel"
    BY <1>6 DEF loopp
  <2>2. \A x \in 1 .. Len(L) : (\A l \in 1 .. x : ~ Ignored(L[l])) <=> x < k
    <3>1. \A x \in 1 .. Len(L) : x < k => \A l \in 1 .. x : l \in 1 .. k - 1
      BY <1>1
    <3>2. \A x \in 1 .. Len(L) : ~ (x < k) => k \in 1 .. x
      BY <1>1
    <3>3. QED
      BY <3>1, <3>2, <1>6
  <2>3. \A x : x \in 1 .. k /\ Counted(L[x]) <=> x \in 1 .. Len(L) /\ x < k /\ Counted(L[x])
    BY <1>1, <1>6 DEF Counted
  <2>4. Seen(k) = Reported
    <3>1. ASSUME NEW x \in 1 .. Len(L), x < k
          PROVE  Counted(L[x]) <=> ~ Skipped(L[x]) /\ L[x].length > 0
      <4>1. x \in 1 .. k - 1
        BY <3>1, <1>1
      <4>2. ~ Ignored(L[x])
        BY <4>1
      <4>3. QED
        BY <4>2, Zenon DEF Counted
    <3>2. \A x : x \in Seen(k) <=> x \in 1 .. Len(L) /\ x < k /\ Counted(L[x])
      BY <2>3 DEF Seen
    <3>3. \A x : x \in Reported <=> x \in 1 .. Len(L) /\ x < k /\ Counted(L[x])
      <4>1. \A x : x \in Reported <=>
                /\ x \in 1 .. Len(L) /\ \A p \in 1 .. x : ~ Ignored(L[p])
                /\ ~ Skipped(L[x]) /\ L[x].length > 0
        BY <1>1 DEF Reported
      <4>2. QED
        BY <4>1, <2>2, <3>1
    <3>4. QED
      BY <3>2, <3>3
  <2>5. QED
    BY <2>1, <2>4, <1>3, <1>5 DEF TableInv
<1>7. CASE ~ Ignored(L[k]) /\ Continuation(k) = 0
  <2>1. at' = "read_kernel" /\ k = Len(L)
    BY <1>7, <1>1 DEF loopp, Continuation
  <2>2. \A x \in 1 .. Len(L) : \A l \in 1 .. x : ~ Ignored(L[l])
    <3>1. \A x \in 1 .. Len(L) : \A l \in 1 .. x : l \in 1 .. k
      BY <1>1, <2>1
    <3>2. QED
      BY <1>a, <1>7, <3>1
  <2>3. Seen(k) = Reported
    <3>1. \A x \in 1 .. Len(L) : Counted(L[x]) <=> ~ Skipped(L[x]) /\ L[x].length > 0
      BY <2>2, <1>1 DEF Counted
    <3>2. QED
      BY <2>1, <2>2, <3>1, <1>1 DEF Seen, Reported
  <2>4. QED
    BY <2>1, <2>3, <1>3, <1>5 DEF TableInv
<1>8. CASE ~ Ignored(L[k]) /\ Continuation(k) # 0
  <2>1. at' = "search" /\ ebx' = k
    BY <1>8, <1>1 DEF loopp, Continuation
  <2>2. \A l \in 1 .. k : ~ Ignored(L[l])
    BY <1>a, <1>8
  <2>3. (\A l \in 1 .. ebx : ~ Ignored(bios.list[l]))'
    BY <2>1, <2>2 DEF Ignored
  <2>4. Seen(ebx)' = Seen(k)
    BY <2>1, <1>4 DEF Seen, Counted, Skipped, Ignored
  <2>5. QED
    BY <2>1, <2>3, <2>4, <1>1, <1>3 DEF TableInv
<1>9. QED
  BY <1>6, <1>7, <1>8

(* do_e820: the frame allocator gets what the BIOS reported, once and in   *)
(* order, or the boot ends (MapAsReported).                                *)
THEOREM MapIsAsReported == Spec => []MapAsReported
<1> USE DEF Loading, SettingUp, SetUp
<1>1. Init => TableInv
  BY DEF Init, TableInv, Increasing
<1>2. TableInv /\ [Next]_vars => TableInv'
  <2> SUFFICES ASSUME TableInv, [Next]_vars
               PROVE  TableInv'
    OBVIOUS
  <2>1. CASE do_e820
    <3>1. CASE BootFails
      BY <3>1 DEF BootFails, TableInv, bootvars, Increasing
    <3>2. CASE Answered(1) /\ loopp(1) /\ UNCHANGED bios
      <4>1. bios.list \in Seq([cx : Nat, valid : BOOLEAN, length : Nat])
        BY ListsAssumption DEF TableInv
      <4>2. 1 \in 1 .. Len(bios.list)
        BY <3>2, <4>1 DEF Answered
      <4>3. Range(table) = Seen(1 - 1)
        BY <2>1 DEF TableInv, do_e820, Range, Seen
      <4>4. QED
        BY <3>2, <4>2, <4>3, LoopKeeps DEF TableInv
    <3>3. QED
      BY <2>1, <3>1, <3>2 DEF do_e820
  <2>2. CASE search
    <3>1. CASE BootFails
      BY <3>1 DEF BootFails, TableInv, bootvars, Increasing
    <3>2. CASE Answered(ebx + 1) /\ loopp(ebx + 1) /\ UNCHANGED bios
      <4>1. bios.list \in Seq([cx : Nat, valid : BOOLEAN, length : Nat])
        BY ListsAssumption DEF TableInv
      <4>2. ebx + 1 \in 1 .. Len(bios.list) /\ (ebx + 1) - 1 = ebx
        BY <2>2, <3>2, <4>1 DEF Answered, search, TableInv
      <4>3. QED
        BY <2>2, <3>2, <4>2, LoopKeeps DEF TableInv, search
    <3>3. QED
      BY <2>2, <3>1, <3>2 DEF search
  <2>3. CASE UNCHANGED <<bios, ebx, table>> /\ at \notin {"do_e820", "search", "disk_error"}
             /\ at' \in {"disk_error", "read_kernel"} \cup SettingUp \cup SetUp
    BY <2>3 DEF TableInv, Increasing, Reported, Ignored, Skipped
  <2>4. CASE read_kernel
    BY <2>3, <2>4 DEF read_kernel, BootFails, bootvars
  <2>5. CASE init_gdt \/ remap_pic \/ mask_pic \/ add_gates \/ sti \/ pit_init \/ switch_mode
    BY <2>3, <2>5 DEF init_gdt, remap_pic, mask_pic, add_gates, sti, pit_init, switch_mode,
                      Step, bootvars
  <2>6. CASE UNCHANGED <<at, bios, ebx, table>>
    BY <2>6 DEF TableInv, Increasing, Reported, Ignored, Skipped, Seen, Counted
  <2>7. CASE UNCHANGED vars \/ \E n \in Requests : Interrupt(n)
    BY <2>6, <2>7 DEF vars, bootvars, Interrupt
  <2>8. QED
    BY <2>1, <2>2, <2>4, <2>5, <2>7 DEF Next, BootSteps
<1>3. TableInv => MapAsReported
  BY DEF TableInv, MapAsReported, Increasing
<1>4. QED
  BY <1>1, <1>2, <1>3, PTL DEF Spec
-----------------------------------------------------------------------------
(* Where sector n of the kernel belongs.                                   *)
Place(n) == KernelSegment + (n - 1) * SectorParas

(* The sectors that were read are a prefix of the kernel, each in its      *)
(* place, and the next read goes right behind them.                        *)
DiskInv ==
    /\ at \in Loading \cup {"disk_error"} \cup SettingUp \cup SetUp
    /\ bios.sectors \in KernelSizes
    /\ kernel_remaining \in Nat /\ dap_lba \in Nat \ {0}
    /\ kernel_remaining + dap_lba - 1 = bios.sectors
    /\ dap_segment = Place(dap_lba)
    /\ DOMAIN memory = {Place(n) : n \in 1 .. dap_lba - 1}
    /\ \A n \in 1 .. dap_lba - 1 : memory[Place(n)] = n
    /\ at \notin Loading \cup {"disk_error"} => kernel_remaining = 0

(* Places follow one another without a gap.                                *)
LEMMA PlaceIs ==
    /\ \A n \in Nat : Place(n) \in Int
    /\ \A n, c \in Nat : Place(n + c) = Place(n) + c * SectorParas
    /\ \A n, l \in Nat : n < l => Place(n) < Place(l)
    /\ \A c, k \in Nat : k < c => k * SectorParas \in 0 .. c * SectorParas - 1
    /\ \A k \in Nat : (k * SectorParas) \div SectorParas = k
<1> DEFINE P == SectorParas
<1>1. P \in Nat \ {0} /\ KernelSegment \in Nat
  BY ParasAssumption
<1>2. \A a, b \in Int : (a + b) * P = a * P + b * P /\ a * P \in Int
  BY <1>1
<1>3. \A a \in Nat : a * P >= 0
  BY <1>1
<1>4. \A a \in Nat \ {0} : a * P > 0
  BY <1>1
<1>5. \A n \in Nat : Place(n) \in Int
  BY <1>1, <1>2 DEF Place
<1>6. \A n, c \in Nat : Place(n + c) = Place(n) + c * P
  <2> SUFFICES ASSUME NEW n \in Nat, NEW c \in Nat
               PROVE  Place(n + c) = Place(n) + c * P
    OBVIOUS
  <2>1. (n + c) - 1 = (n - 1) + c /\ n - 1 \in Int /\ c \in Int
    OBVIOUS
  <2>2. ((n - 1) + c) * P = (n - 1) * P + c * P /\ (n - 1) * P \in Int /\ c * P \in Int
    BY <1>2, <2>1
  <2>3. QED
    BY <1>1, <2>1, <2>2 DEF Place
<1>7. ASSUME NEW n \in Nat, NEW l \in Nat, n < l
      PROVE  Place(n) < Place(l)
  <2>1. l - n \in Nat \ {0} /\ n + (l - n) = l
    BY <1>7
  <2>2. Place(n + (l - n)) = Place(n) + (l - n) * P
    BY <2>1, <1>6
  <2>3. (l - n) * P > 0 /\ (l - n) * P \in Int
    BY <2>1, <1>2, <1>4
  <2>4. QED
    BY <2>1, <2>2, <2>3, <1>5
<1>8. ASSUME NEW c \in Nat, NEW k \in Nat, k < c
      PROVE  k * P \in 0 .. c * P - 1
  <2>1. c - k \in Nat \ {0} /\ k + (c - k) = c
    BY <1>8
  <2>2. (k + (c - k)) * P = k * P + (c - k) * P
    BY <1>2, <2>1
  <2>3. (c - k) * P > 0 /\ k * P >= 0 /\ k * P \in Int /\ (c - k) * P \in Int
    BY <1>2, <1>3, <1>4, <2>1
  <2>4. QED
    BY <2>1, <2>2, <2>3
<1>9. ASSUME NEW k \in Nat
      PROVE  (k * P) \div P = k
  BY <1>1
<1>10. QED
  BY <1>5, <1>6, <1>7, <1>8, <1>9

(* A read that succeeds puts the next sectors in their places.             *)
LEMMA ReadKeeps ==
    ASSUME DiskInv, read_kernel, at' # "disk_error"
    PROVE  DiskInv'
<1> USE DEF Loading, SettingUp, SetUp
<1> DEFINE c == dap_count
           l == dap_lba
           P == SectorParas
           New == {dap_segment + k * P : k \in 0 .. c - 1}
<1>1. /\ Chunk \in Nat \ {0} /\ ChunkParas = Chunk * P
      /\ P \in Nat \ {0} /\ KernelSegment \in Nat /\ SegmentLimit \in Nat
  BY ChunkAssumption, ParasAssumption
<1>2. /\ kernel_remaining \in Nat /\ l \in Nat \ {0} /\ kernel_remaining + l - 1 = bios.sectors
      /\ bios.sectors \in KernelSizes /\ bios.sectors \in Nat \ {0}
      /\ KernelSegment + bios.sectors * P < SegmentLimit
      /\ dap_segment = Place(l)
  BY SizeAssumption DEF DiskInv
<1>3. c \in Nat /\ c <= kernel_remaining
  BY <1>1, <1>2 DEF dap_count
<1>4. Advance = c * P
  BY <1>1, <1>2 DEF Advance, dap_count
<1>5. /\ kernel_remaining' = kernel_remaining - c
      /\ dap_segment' = (dap_segment + c * P) % SegmentLimit
      /\ dap_lba' = l + c
      /\ at' = IF kernel_remaining' = 0 THEN "start" ELSE "read_kernel"
      /\ bios' = bios
  BY <1>4 DEF read_kernel, BootFails, bootvars
<1>6. memory' = [s \in DOMAIN memory \cup New |->
                    IF s \in dap_segment .. dap_segment + c * P - 1
                    THEN l + (s - dap_segment) \div P ELSE memory[s]]
  BY DEF read_kernel, BootFails
<1>7. dap_segment' = Place(dap_lba')
  <2>1. Place(l + c) = dap_segment + c * P
    BY <1>2, <1>3, PlaceIs
  <2>2. l + c <= bios.sectors + 1
    BY <1>2, <1>3
  <2>3. Place(bios.sectors + 1) = KernelSegment + bios.sectors * P
    BY <1>2 DEF Place
  <2>4. Place(l + c) <= Place(bios.sectors + 1)
    <3>1. l + c \in Nat /\ bios.sectors + 1 \in Nat
      BY <1>2, <1>3
    <3>2. CASE l + c = bios.sectors + 1
      BY <3>1, <3>2, PlaceIs
    <3>3. CASE l + c < bios.sectors + 1
      <4>1. Place(l + c) < Place(bios.sectors + 1)
        BY <3>1, <3>3, PlaceIs
      <4>2. Place(l + c) \in Int /\ Place(bios.sectors + 1) \in Int
        BY <3>1, PlaceIs
      <4>3. QED
        BY <4>1, <4>2
    <3>4. QED
      BY <3>1, <2>2, <3>2, <3>3
  <2>5. Place(l + c) \in Nat
    <3>1. l + c \in Nat /\ 1 \in Nat /\ l + c >= 1
      BY <1>2, <1>3
    <3>2. Place(1) = KernelSegment
      BY <1>1 DEF Place
    <3>3. Place(l + c) \in Int
      BY <3>1, PlaceIs
    <3>4. CASE l + c = 1
      BY <3>2, <3>4, <1>1
    <3>5. CASE 1 < l + c
      <4>1. Place(1) < Place(l + c)
        BY <3>1, <3>5, PlaceIs
      <4>2. QED
        BY <4>1, <3>2, <3>3, <1>1
    <3>6. QED
      BY <3>1, <3>4, <3>5
  <2>6. Place(l + c) < SegmentLimit
    <3>1. Place(bios.sectors + 1) \in Int
      <4>1. bios.sectors + 1 \in Nat
        BY <1>2
      <4>2. QED
        BY <4>1, PlaceIs
    <3>2. Place(bios.sectors + 1) < SegmentLimit
      BY <1>2, <2>3
    <3>3. QED
      BY <3>1, <3>2, <1>1, <2>4, <2>5
  <2>7. QED
    BY <1>1, <1>5, <2>1, <2>5, <2>6
<1>8. \A n \in 1 .. dap_lba' - 1 : n \in 1 .. l - 1 \/ \E k \in 0 .. c - 1 : n = l + k
  <2> SUFFICES ASSUME NEW n \in 1 .. dap_lba' - 1, n \notin 1 .. l - 1
               PROVE  \E k \in 0 .. c - 1 : n = l + k
    OBVIOUS
  <2>1. n - l \in 0 .. c - 1 /\ n = l + (n - l)
    BY <1>2, <1>3, <1>5
  <2>2. QED
    BY <2>1
<1>9. \A k \in 0 .. c - 1 : /\ l + k \in 1 .. dap_lba' - 1
                            /\ Place(l + k) = dap_segment + k * P
                            /\ k * P \in 0 .. c * P - 1
                            /\ (k * P) \div P = k
  <2> SUFFICES ASSUME NEW k \in 0 .. c - 1
               PROVE  /\ l + k \in 1 .. dap_lba' - 1
                      /\ Place(l + k) = dap_segment + k * P
                      /\ k * P \in 0 .. c * P - 1
                      /\ (k * P) \div P = k
    OBVIOUS
  <2>1. k \in Nat /\ k < c /\ l \in Nat
    BY <1>2, <1>3
  <2>2. l + k \in 1 .. dap_lba' - 1
    BY <2>1, <1>2, <1>3, <1>5
  <2>3. QED
    BY <2>1, <2>2, <1>2, <1>3, PlaceIs
<1>10. \A n \in 1 .. l - 1 : n \in 1 .. dap_lba' - 1 /\ Place(n) < dap_segment
  <2>1. \A n \in 1 .. l - 1 : n \in Nat /\ n < l /\ n \in 1 .. dap_lba' - 1
    BY <1>2, <1>3, <1>5
  <2>2. QED
    BY <2>1, <1>2, PlaceIs
<1>11. DOMAIN memory = {Place(n) : n \in 1 .. l - 1}
  BY DEF DiskInv
<1>12. DOMAIN memory' = {Place(n) : n \in 1 .. dap_lba' - 1}
  <2>1. DOMAIN memory' = {Place(n) : n \in 1 .. l - 1} \cup New
    BY <1>6, <1>11
  <2>2. \A x \in New : \E n \in 1 .. dap_lba' - 1 : x = Place(n)
    BY <1>9
  <2>3. \A n \in 1 .. dap_lba' - 1 : Place(n) \in DOMAIN memory'
    BY <2>1, <1>8, <1>9
  <2>4. QED
    BY <2>1, <2>2, <2>3, <1>10
<1>13. ASSUME NEW n \in 1 .. dap_lba' - 1
       PROVE  memory'[Place(n)] = n
  <2>1. Place(n) \in DOMAIN memory'
    BY <1>12
  <2>2. CASE n \in 1 .. l - 1
    <3>1. Place(n) \notin dap_segment .. dap_segment + c * P - 1
      <4>1. Place(n) \in Int /\ dap_segment \in Int
        BY <1>2, <2>2, PlaceIs
      <4>2. QED
        BY <4>1, <1>10, <2>2
    <3>2. memory'[Place(n)] = memory[Place(n)]
      <4>1. Place(n) \in DOMAIN memory \cup New
        BY <2>2, <1>11
      <4>2. QED
        BY <1>6, <3>1, <4>1
    <3>3. QED
      BY <2>2, <3>2 DEF DiskInv
  <2>3. ASSUME NEW k \in 0 .. c - 1, n = l + k
        PROVE  memory'[Place(n)] = n
    <3>1. Place(n) = dap_segment + k * P /\ k * P \in 0 .. c * P - 1 /\ (k * P) \div P = k
      BY <1>9, <2>3
    <3>2. dap_segment \in Int /\ k * P \in Int /\ c * P \in Int
      BY <1>1, <1>2, <1>3, PlaceIs
    <3>3. Place(n) \in dap_segment .. dap_segment + c * P - 1 /\ Place(n) - dap_segment = k * P
      BY <3>1, <3>2
    <3>4. Place(n) \in DOMAIN memory \cup New
      BY <3>1
    <3>5. memory'[Place(n)] = l + (Place(n) - dap_segment) \div P
      BY <1>6, <3>3, <3>4
    <3>6. QED
      BY <2>3, <3>1, <3>3, <3>5
  <2>4. QED
    BY <1>8, <2>2, <2>3
<1>14. kernel_remaining' \in Nat /\ dap_lba' \in Nat \ {0}
       /\ kernel_remaining' + dap_lba' - 1 = bios'.sectors
  BY <1>2, <1>3, <1>5
<1>15. /\ at' \in Loading \cup SettingUp
       /\ at' \notin Loading \cup {"disk_error"} => kernel_remaining' = 0
  BY <1>5
<1>16. QED
  BY <1>2, <1>5, <1>7, <1>12, <1>13, <1>14, <1>15 DEF DiskInv, Place

(* read_kernel: when the kernel is entered every sector of it is in its    *)
(* place, for every size of the kernel and of a read (KernelInPlace).      *)
THEOREM KernelIsInPlace == Spec => []KernelInPlace
<1> USE DEF Loading, SettingUp, SetUp
<1>1. Init => DiskInv
  <2> SUFFICES ASSUME Init
               PROVE  DiskInv
    OBVIOUS
  <2>1. bios.sectors \in KernelSizes /\ bios.sectors \in Nat
    BY SizeAssumption DEF Init
  <2>2. Place(1) = KernelSegment
    BY ParasAssumption DEF Place
  <2>3. DOMAIN memory = {} /\ 1 .. dap_lba - 1 = {}
    BY DEF Init
  <2>4. QED
    BY <2>1, <2>2, <2>3 DEF Init, DiskInv
<1>2. DiskInv /\ [Next]_vars => DiskInv'
  <2> SUFFICES ASSUME DiskInv, [Next]_vars
               PROVE  DiskInv'
    OBVIOUS
  <2>1. ASSUME UNCHANGED <<bios, diskvars>>,
               at' \in Loading \cup {"disk_error"} \cup SettingUp \cup SetUp,
               at' \in Loading \cup {"disk_error"} \/ at \notin Loading \cup {"disk_error"}
        PROVE  DiskInv'
    BY <2>1 DEF DiskInv, diskvars, Place
  <2>2. CASE do_e820 \/ search
    BY <2>1, <2>2 DEF do_e820, search, loopp, BootFails, bootvars
  <2>3. CASE read_kernel
    <3>1. CASE at' = "disk_error"
      BY <2>1, <2>3, <3>1 DEF read_kernel, BootFails, bootvars
    <3>2. QED
      BY <2>3, <3>1, ReadKeeps
  <2>4. CASE init_gdt \/ remap_pic \/ mask_pic \/ add_gates \/ sti \/ pit_init \/ switch_mode
    BY <2>1, <2>4 DEF init_gdt, remap_pic, mask_pic, add_gates, sti, pit_init, switch_mode,
                      Step, bootvars
  <2>5. CASE UNCHANGED vars \/ \E n \in Requests : Interrupt(n)
    BY <2>1, <2>5 DEF vars, bootvars, Interrupt, DiskInv
  <2>6. QED
    BY <2>2, <2>3, <2>4, <2>5 DEF Next, BootSteps
<1>3. DiskInv => KernelInPlace
  BY DEF DiskInv, KernelInPlace, Place
<1>4. QED
  BY <1>1, <1>2, <1>3, PTL DEF Spec
=============================================================================
