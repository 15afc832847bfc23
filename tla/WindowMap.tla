----------------------------- MODULE WindowMap -----------------------------
(***************************************************************************)
(* From the firmware's memory map to the words under test: the segments    *)
(* (PhysMem), the heaps that take pages out of them (Heap), the two load   *)
(* addresses of the program (set_load_addr), and the windows a test goes   *)
(* through (setup_vm_map, map_window, the loop of test_all_windows).  The  *)
(* cores and their barriers are in TestLoop, the tests in Patterns.        *)
(***************************************************************************)
EXTENDS MemBench

CONSTANTS
  E820Maps,        \* the firmware's maps
  AffinityTables,  \* SRAT memory ranges, in table order; << >>: no NUMA
  Limits,          \* what the user may set pm_limit_lower and _upper to
  LowLoadLimit,    \* LOW_LOAD_LIMIT, in pages
  HighLoadLimit,   \* HIGH_LOAD_LIMIT, in pages
  LowestLoad,      \* 0x1000, in pages
  ProgramSize,     \* in pages, with the stacks
  WindowSize,      \* VM_WINDOW_SIZE
  CpuModes,        \* the processor's addressing: "nopae", "pae" or "lm"
  NoPaeWindows,    \* windows a processor without PAE reaches
  PaePages         \* pages a processor without long mode reaches

ASSUME WindowAssumption ==
  /\ PageSize \in Nat \ {0} /\ ProgramSize \in Nat \ {0} /\ WindowSize \in Nat \ {0}
  /\ LowLoadLimit \in 1 .. WindowSize /\ LowestLoad \in Nat /\ HighLoadLimit \in Nat
  /\ PinnedSize \in Nat /\ PinnedSize >= WindowSize /\ PinnedSize % WindowSize = 0
  /\ NoPaeWindows \in Nat /\ PaePages \in Nat /\ CpuModes \subseteq {"nopae", "pae", "lm"}
  /\ \A t \in AffinityTables : t \in Seq([start : Nat, end : Nat, domain : Nat])
  /\ \A l \in Limits : l \in [lower : Nat, upper : Nat]

VARIABLES
  e820, affinity, cpu_mode,             \* what the machine is
  phase,                                \* "efi" (before e820 is known), "init", "run", "swept" or "reboot"
  low_load_addr, high_load_addr,
  pm_limit,                             \* pm_limit_lower, pm_limit_upper
  stages,                               \* of the current test
  window_num, window_end, mapped_window,
  vm_map,                               \* the segments of the window
  tested                                \* history: pages tested in this sweep

machineVars == <<e820, affinity, cpu_mode>>
loadVars == <<low_load_addr, high_load_addr>>
testVars == <<pm_limit, stages>>
windowVars == <<window_num, window_end, mapped_window, vm_map, tested>>
vars == <<heapVars, machineVars, phase, loadVars, testVars, windowVars>>


\* The memory map is known, and global_init begins.
Start(map, ph) ==
  /\ e820 = map
  /\ affinity \in AffinityTables
  /\ cpu_mode \in CpuModes
  /\ pm_map = PmemInit(e820)
  /\ HeapStateInit
  /\ phase = ph
  /\ low_load_addr = 0 /\ high_load_addr = 0
  /\ pm_limit = [lower |-> 0, upper |-> IF pm_map = << >> THEN 0 ELSE pm_map[Len(pm_map)].end]
  /\ stages = 1
  /\ window_num = 0 /\ window_end = 0 /\ mapped_window = 0
  /\ vm_map = << >> /\ tested = {}

Init == \E map \in E820Maps : Start(map, "init")

-----------------------------------------------------------------------------
(* set_load_addr *)

AddrRangeIsUsable(start) ==
  \E i \in DOMAIN pm_map : start >= pm_map[i].start /\ start + ProgramSize <= pm_map[i].end

TryLoadAnywhere(i, lower) == pm_map[i].start

\* Where the program would go in segment i.
TryLoad(i, lower) == IF pm_map[i].start < lower THEN lower ELSE pm_map[i].start

\* The loop breaks at the first segment that starts above the range.
Fits(i, lower, upper) ==
  /\ TryLoad(i, lower) + ProgramSize <= pm_map[i].end
  /\ \A j \in 1 .. i : \/ TryLoad(j, lower) + ProgramSize > pm_map[j].end
                       \/ TryLoad(j, lower) < upper

\* The load addresses the range allows: one, or none.
LoadAddr(lower, upper) ==
  LET fitting == {i \in DOMAIN pm_map : Fits(i, lower, upper)}
      here == Program.start
  IN IF here >= lower /\ here + ProgramSize <= upper /\ AddrRangeIsUsable(here)
       THEN {here}
       ELSE {TryLoad(i, lower) : i \in {k \in fitting : \A j \in fitting : k <= j}}

\* The end of global_init: without two places for the program it reboots.
SetLoadAddr ==
  LET low == LoadAddr(LowestLoad, LowLoadLimit)
      high == LoadAddr(LowLoadLimit, HighLoadLimit)
  IN /\ phase = "init" /\ heap_ready /\ marks = << >>
     /\ IF low # {} /\ high # {}
          THEN /\ phase' = "run"
               /\ low_load_addr' \in low
               /\ high_load_addr' \in high
          ELSE /\ phase' = "reboot"
               /\ UNCHANGED loadVars
     /\ UNCHANGED <<heapVars, machineVars, testVars, windowVars>>

-----------------------------------------------------------------------------
(* The mapping of pages to virtual addresses, here virtual page numbers *)

FirstWordMapping(page) ==
  IF page < PinnedSize THEN page ELSE PinnedSize + (page % WindowSize)

PageOf(virtual) ==
  IF virtual >= PinnedSize THEN (virtual % WindowSize) + mapped_window * WindowSize
                           ELSE virtual

\* map_window succeeds for the window of this page.
CanMap(page) ==
  LET window == page \div WindowSize
  IN \/ window < PinnedSize \div WindowSize
     \/ cpu_mode = "nopae" /\ window < NoPaeWindows
     \/ cpu_mode = "pae" /\ page < PaePages
     \/ cpu_mode = "lm"

\* The physical pages of an entry of vm_map: its words are mapped where those of its base are.
Physical(e) == LET first == e.base + e.start - FirstWordMapping(e.base)
               IN first .. (first + e.end - e.start)

\* Below 2 GB nothing is mapped, and mapped_window stays.
MapWindow(page) ==
  LET window == page \div WindowSize
  IN IF window < PinnedSize \div WindowSize THEN mapped_window ELSE window

-----------------------------------------------------------------------------
(* setup_vm_map *)

Entry(start, end, domain) ==
  [base |-> start, start |-> FirstWordMapping(start),
   end |-> FirstWordMapping(end - 1), domain |-> domain]

\* smp_narrow_to_proximity_domain: the first range of the table that the
\* segment starts in, or starts before and reaches.
Touches(r, start, end) ==
  IF start >= r.start THEN start < r.end ELSE end >= r.start

Narrow(start, end) ==
  LET hits == {i \in DOMAIN affinity : Touches(affinity[i], start, end)}
      i == CHOOSE k \in hits : \A j \in hits : k <= j
      r == affinity[i]
  IN IF hits = {} THEN [found |-> FALSE, end |-> end, domain |-> 0]
     ELSE [found |-> TRUE, domain |-> r.domain,
           end |-> IF start < r.start THEN r.start
                   ELSE IF end <= r.end THEN end ELSE r.end]

\* A segment is split at the borders of the ranges; when a rest is in no range,
\* the whole segment is added again.
SplitSteps(seg) ==
  LET step[k \in 0 .. Len(affinity) * 2 + 1] ==
        IF k = 0 THEN [at |-> seg.start, done |-> FALSE, entries |-> << >>]
        ELSE LET prev == step[k - 1]
                 n == Narrow(prev.at, seg.end)
             IN IF prev.done THEN prev
                ELSE IF ~n.found
                  THEN [at |-> prev.at, done |-> TRUE,
                        entries |-> Append(prev.entries, Entry(seg.start, seg.end, 0))]
                  ELSE [at |-> n.end, done |-> n.end = seg.end,
                        entries |-> Append(prev.entries, Entry(prev.at, n.end, n.domain))]
  IN step

Split(seg) == SplitSteps(seg)[Len(affinity) * 2 + 1].entries

\* The part of a segment inside the window.
Clip(seg, start, end) ==
  [start |-> IF seg.start <= start THEN start ELSE seg.start,
   end |-> IF seg.end >= end THEN end ELSE seg.end]

AddEntries(map, seg) ==
  IF seg.start >= seg.end THEN map
  ELSE IF affinity # << >> THEN map \o Split(seg)
  ELSE Append(map, Entry(seg.start, seg.end, 0))

\* vm_map after the first i segments.
MapSteps(start, end) ==
  LET map[i \in 0 .. Len(pm_map)] ==
        IF i = 0 THEN << >> ELSE AddEntries(map[i - 1], Clip(pm_map[i], start, end))
  IN map

SetupVmMap(win_start, win_end) ==
  LET start == IF win_start < pm_limit.lower THEN pm_limit.lower ELSE win_start
      end == IF win_end > pm_limit.upper THEN pm_limit.upper ELSE win_end
  IN IF start >= end THEN << >> ELSE MapSteps(start, end)[Len(pm_map)]

-----------------------------------------------------------------------------
(* The loop over the windows, one step per window *)

UnderTest == UNION {Physical(vm_map[i]) : i \in DOMAIN vm_map}

\* Window 0 is skipped by the tests with several stages; the limit is compared
\* with a size in bytes.
FirstWindow ==
  IF window_num = 0 /\ (stages > 1 \/ pm_limit.lower >= LowLoadLimit * PageSize)
    THEN 1
    ELSE window_num

WindowStartZero(w) == IF w < 2 THEN 0 ELSE window_end

WindowStart(w) ==
  CASE w = 0 -> 0
    [] w = 1 -> LowLoadLimit
    [] OTHER -> window_end

WindowEnd(w) ==
  CASE w = 0 -> LowLoadLimit
    [] w = 1 -> WindowSize
    [] OTHER -> window_end + WindowSize

LastEnd == pm_map[Len(pm_map)].end

\* run_test, on x86: in the first window the test begins at the lower limit ("we need to test all
\* selected lower memory"), wherever setup_vm_map found the first page.  A limit of 0 stands for
\* 0x500, in page 0.
SelectLower(map, w) ==
  IF w = 0 /\ map # << >> THEN [map EXCEPT ![1].start = FirstWordMapping(pm_limit.lower)]
                          ELSE map

Window ==
  LET w == FirstWindow
      map == SetupVmMap(WindowStart(w), WindowEnd(w))
      mapped == map # << >> => CanMap(map[1].base)
  IN /\ phase = "run" /\ marks = << >>
     /\ vm_map' = SelectLower(map, w)
     /\ window_end' = WindowEnd(w)
     /\ window_num' = IF mapped THEN w + 1 ELSE w
     /\ mapped_window' = IF map # << >> /\ mapped THEN MapWindow(map[1].base)
                                                  ELSE mapped_window
     /\ tested' = IF mapped THEN tested \cup UnderTest' ELSE tested
     /\ phase' = IF mapped /\ WindowEnd(w) < LastEnd THEN "run" ELSE "swept"
     /\ UNCHANGED <<heapVars, machineVars, loadVars, testVars>>

\* The next test, with the limits of the address range menu.
NextTest ==
  /\ phase = "swept" /\ marks = << >>
  /\ phase' = "run"
  /\ pm_limit' \in Limits \cup {pm_limit}
  /\ stages' \in {1, 2}
  /\ window_num' = 0 /\ window_end' = 0
  /\ vm_map' = << >> /\ tested' = {}
  /\ UNCHANGED <<heapVars, machineVars, loadVars, mapped_window>>

\* The heaps are used by the drivers at start-up, and by the menus in a test.
Heaps ==
  /\ phase \in {"init", "run", "swept"}
  /\ HeapNext
  /\ UNCHANGED <<machineVars, phase, loadVars, testVars, windowVars>>

Reboot ==
  /\ phase = "reboot"
  /\ UNCHANGED vars

Next == SetLoadAddr \/ Window \/ NextTest \/ Heaps \/ Reboot

Spec == Init /\ [][Next]_vars

-----------------------------------------------------------------------------
(* Properties *)

\* The types of the variables.
TypeOK ==
  /\ HeapTypeOK
  /\ phase \in {"efi", "init", "run", "swept", "reboot"}
  /\ low_load_addr \in Nat /\ high_load_addr \in Nat
  /\ pm_limit \in [lower : Nat, upper : Nat] /\ stages \in {1, 2}
  /\ window_num \in Nat /\ window_end \in Nat /\ mapped_window \in Nat
  /\ vm_map \in Seq([base : Nat, start : Nat, end : Nat, domain : Nat])
  /\ tested \subseteq Nat

\* What the firmware says of an address: the type that takes precedence.
ReportedType(a) ==
  LET types == {E820_NONE} \cup
        {e820[i].type : i \in {k \in DOMAIN e820 : /\ e820[k].addr <= a
                                                   /\ a < e820[k].addr + e820[k].size}}
  IN CHOOSE t \in types : \A u \in types : u <= t

AddressesOf(page) == (page * PageSize) .. (page * PageSize + PageSize - 1)

Reserved(page) == AddressesOf(page) \subseteq ReservedStart .. (ReservedEnd - 1)

MappedPages == UNION {Pages(pm_map[i]) : i \in DOMAIN pm_map}

AllPages == 0 .. ((AddrMod - 1) \div PageSize)

\* pmem_init keeps exactly the usable memory: a page of the map is usable to the
\* last byte whatever overlapping entries the firmware reports, and a page that
\* lies in usable memory of one type is in the map, except between 640 KB and
\* 1 MB, where a page is in the map only if the firmware reports all of that
\* range as usable.  What is overwritten first, by the benchmark, is free memory
\* of that map too.
UsableMemoryOnly ==
  /\ phase = "init" /\ heap_ready /\ marks = << >> => BenchInFreeMemory
  /\ ~heap_ready /\ pm_map # << >> =>
       \A page \in AllPages :
         /\ page \in MappedPages => \A a \in AddressesOf(page) : ReportedType(a) \in UsableTypes
         /\ (/\ ~Reserved(page)
             /\ \E t \in UsableTypes : \A a \in AddressesOf(page) : ReportedType(a) = t)
            => page \in MappedPages
         /\ page \in MappedPages /\ Reserved(page) =>
              \A a \in ReservedStart .. (ReservedEnd - 1) : ReportedType(a) \in UsableTypes

\* What the windows rely on: pmem_init leaves the segments in order, and a segment that begins
\* below the low load limit is not so close to it that the program would reach over the limit,
\* which set_load_addr does not check.
MapRight(m) ==
  /\ m \in Maps
  /\ \A i, j \in DOMAIN m : i < j => m[i].end <= m[j].end
  /\ \A i \in DOMAIN m :
       m[i].start < LowLoadLimit => Most2(m[i].start, LowestLoad) + ProgramSize <= LowLoadLimit

MapsRight == \A map \in E820Maps : MapRight(PmemInit(map))

\* The test never overwrites the program: while a window is under test the pages
\* of the copy that runs (the low one, or the high one in window 0) are not in
\* it (set_load_addr, test_all_windows).
ProgramUntested ==
  LET running == IF window_num > 1 THEN low_load_addr ELSE high_load_addr
      copy == running .. (running + ProgramSize - 1)
  IN phase \in {"run", "swept"} /\ vm_map # << >> /\ window_num > 0
       => copy \cap UnderTest = {}

\* A word of the window has one virtual address, and page_of takes it back to
\* its physical page, so that errors are reported where they are
\* (first_word_mapping, page_of; the windows of setup_vm_map never reach over a
\* 1 GB border).
PageOfInverts ==
  window_num > 0 /\ vm_map # << >> /\ CanMap(vm_map[1].base) =>
    \A i \in DOMAIN vm_map :
      \A p \in Physical(vm_map[i]) : PageOf(FirstWordMapping(p)) = p

\* What run_test puts in front of the first segment of the first window.
InFront == IF window_num = 1 /\ vm_map # << >> THEN pm_limit.lower .. (vm_map[1].base - 1) ELSE {}

\* A window under test holds only pages the map offers, and nothing a driver has allocated, except
\* in front of the first segment of the first window, where run_test does not ask; it holds no
\* page twice, and none an earlier window of the same test had (setup_vm_map, heap_alloc, run_test).
WindowsApart ==
  [][vm_map' # vm_map =>
       /\ UnderTest' \ InFront' \subseteq MappedPages
       /\ \A b \in blocks : Pages(b) \cap UnderTest' \subseteq InFront'
       /\ UnderTest' \cap tested = {}
       /\ \A i, j \in DOMAIN vm_map' :
            i # j => Physical(vm_map'[i]) \cap Physical(vm_map'[j]) = {}]_vars

\* When a test is over, every page of the map inside the limits was in a window,
\* except what the processor cannot reach, and except the low pages in a test
\* with several stages (test_all_windows).
SweepComplete ==
  phase = "swept" =>
    \A page \in MappedPages :
      \/ page < pm_limit.lower \/ page >= pm_limit.upper
      \/ page < LowLoadLimit /\ stages > 1
      \/ ~CanMap(page)
      \/ page \in tested

\* The windows of a test: the running program is in none, an error in one is reported at its
\* physical page, and together they hold all the memory there is to test.
WindowsRight == ProgramUntested /\ PageOfInverts /\ SweepComplete

=============================================================================
