------------------------------ MODULE MemBench ------------------------------
(***************************************************************************)
(* The memory benchmark of system/x86/membw.c: before any test, the        *)
(* program copies a block of memory to another and measures how long that  *)
(* takes, for each level of cache and for the RAM.  It takes the memory    *)
(* for that from the map without asking the heap for it.  Sizes and        *)
(* addresses are bytes.  What the time stamp counter says is an input.     *)
(***************************************************************************)
EXTENDS PhysMem, Heap

CONSTANTS
  PinnedSize,      \* VM_PINNED_SIZE, in pages
  MinStart,        \* BENCH_MIN_START_ADR
  BenchAlign,      \* BENCH_ALIGN
  CopyBlock,       \* COPY_BLOCK_BYTES
  MinWorkset,      \* MIN_RAM_WORKSET_BYTES
  MaxL2, MaxL3,    \* max_l2_ws, max_l3_ws
  MinRam,          \* below 256 KB there is no other try
  CacheSizes,      \* the caches of the processor: records [l1, l2, l3], 0 for none
  Clocks,          \* what a timed loop takes, in cycles, less the overhead
  ClksPerMsecs,    \* values of clks_per_msec, 0 if the timers could not be calibrated
  MaxIter, MaxSpeed, \* the limits of an iteration count and of a result
  MaxShrink        \* bound: how often ram_len is halved

AlignUp(v, a) == ((v + a - 1) \div a) * a
AlignDown(v, a) == (v \div a) * a
Least2(m, n) == IF m < n THEN m ELSE n
Most2(m, n) == IF m < n THEN n ELSE m

\* choose_cache_len_bytes: two buffers of this length fill the cache, but not the lower one.
ChooseCacheLen(cache, lower, max_ws) ==
  LET occupied == (cache * 2) \div 3
      capped == IF max_ws > 0 THEN Least2(occupied, max_ws) ELSE occupied
      top == (cache * 7) \div 8
      above == IF lower > 0 /\ capped < 2 * lower THEN Least2(2 * lower, top) ELSE capped
      len == AlignDown(Least2(above, top) \div 2, CopyBlock)
  IN IF cache < 2 * CopyBlock \/ len < CopyBlock THEN 0 ELSE len

\* choose_ram_len_bytes: far more than the last level of cache holds.
ChooseRamLen(llc) ==
  LET ws == IF llc > 0 THEN Most2(6 * llc, MinWorkset) ELSE MinWorkset
  IN AlignDown(ws \div 2, CopyBlock)

-----------------------------------------------------------------------------
\* The bytes the program is loaded at: _start, _end.
ProgStart == Program.start * PageSize
ProgEnd == Program.end * PageSize

SegEnd(i) == Least2(pm_map[i].end, PinnedSize) * PageSize

\* Where the benchmark would start in segment i, without regard to the program.
BenchStart(i, needed) ==
  LET start == pm_map[i].start * PageSize
  IN IF start >= MinStart THEN {start}
     ELSE IF pm_map[i].end * PageSize >= MinStart + needed THEN {MinStart} ELSE {}

\* It is moved behind the program if the two overlap.
BesideProgram(start, needed) ==
  IF start < ProgEnd /\ start + needed > ProgStart THEN ProgEnd ELSE start

\* find_bench_region: the first segment that has room.
RegionIn(i, needed) == {BesideProgram(s, needed) : s \in BenchStart(i, needed)}
HasRoom(i, needed) == /\ pm_map[i].start < PinnedSize
                      /\ \E s \in RegionIn(i, needed) : s + needed <= SegEnd(i)
FindBenchRegion(needed) ==
  LET fitting == {i \in DOMAIN pm_map : HasRoom(i, needed)}
  IN UNION {RegionIn(i, needed) : i \in {k \in fitting : \A j \in fitting : k <= j}}

-----------------------------------------------------------------------------
\* measure_memory_bandwidth: the lengths of the buffers.
LastLevel(c) == IF c.l3 > 0 THEN c.l3 ELSE IF c.l2 > 0 THEN c.l2 ELSE c.l1
LowerLevel(c) == IF c.l2 > 0 THEN c.l2 ELSE c.l1
CacheLens(c) ==
  [l1 |-> IF c.l1 > 0 THEN ChooseCacheLen(c.l1, 0, 0) ELSE 0,
   l2 |-> IF c.l2 > 0 THEN ChooseCacheLen(c.l2, c.l1, MaxL2) ELSE 0,
   l3 |-> IF c.l3 > 0 THEN ChooseCacheLen(c.l3, LowerLevel(c), MaxL3) ELSE 0]

MaxLen(lens, ram_len) == Most2(ram_len, Most2(lens.l3, Most2(lens.l2, lens.l1)))
BytesNeeded(max_len) == 2 * max_len + 2 * BenchAlign

\* ram_len after n halvings.
RamLen(c, n) ==
  LET halved[k \in 0 .. n] == IF k = 0 THEN ChooseRamLen(LastLevel(c))
                              ELSE AlignDown(halved[k - 1] \div 2, CopyBlock)
  IN halved[n]

\* The loop tries again with a shorter one until there is room, or gives up.
Tried(c, n) == \A k \in 1 .. n : /\ RamLen(c, k - 1) > MinRam
                                 /\ RamLen(c, k) >= CopyBlock
                                 /\ FindBenchRegion(BytesNeeded(MaxLen(CacheLens(c), RamLen(c, k - 1)))) = {}

\* What is copied, level by level: from src to dst, len bytes.
Copies(c) ==
  LET lens == CacheLens(c)
      tries == {k \in 0 .. MaxShrink : LastLevel(c) > 0 /\ RamLen(c, 0) > 0 /\ Tried(c, k)}
  IN UNION {LET max == MaxLen(lens, RamLen(c, n))
            IN {[src |-> AlignUp(start, BenchAlign),
                 dst |-> AlignUp(AlignUp(start, BenchAlign) + max, BenchAlign),
                 len |-> AlignDown(len, CopyBlock)] :
                  start \in FindBenchRegion(BytesNeeded(max)),
                  len \in {lens.l1, lens.l2, lens.l3, RamLen(c, n)} \ {0}} : n \in tries}

-----------------------------------------------------------------------------
\* bench_copy_cycles: 0 if there is nothing to copy, or nothing was measured.
CopyCycles(len, iter, clocks) == IF iter <= 0 \/ len \div CopyBlock = 0 THEN 0 ELSE clocks

\* choose_iterations, from a sample that took so many cycles.
SampleIter(len) == Most2(1, Least2(64, (64 * CopyBlock) \div len))
CeilDiv(n, d) == (n + d - 1) \div d
ChooseIterations(len, clocks, clks, min_ms) ==
  LET sample == CopyCycles(len, SampleIter(len), clocks)
      each == CeilDiv(sample, SampleIter(len))
      wanted == CeilDiv(clks * min_ms, each)
      least == IF len >= MinWorkset THEN 1 ELSE 3
  IN IF sample = 0 THEN 0
     ELSE IF clks * min_ms = 0 THEN 16
     ELSE Least2(MaxIter, Most2(wanted, least))

\* memspeed: 0 if it could not be measured.
MemSpeed(len, sample, clocks, clks, min_ms, factor) ==
  LET iter == ChooseIterations(len, sample, clks, min_ms)
      cycles == CopyCycles(len, iter, clocks)
  IN IF iter = 0 \/ cycles = 0 THEN 0
     ELSE Least2(MaxSpeed, (len * iter * factor * clks) \div cycles)

-----------------------------------------------------------------------------
InBytes(start, len) == start .. (start + len - 1)
FreeBytes(i) == InBytes(pm_map[i].start * PageSize, (pm_map[i].end - pm_map[i].start) * PageSize)

\* The benchmark overwrites nothing: whatever the caches of the processor and wherever the
\* program has been loaded, it reads and writes inside one free segment that is mapped, above
\* the low memory, next to the program and to what the drivers have allocated, and its two
\* buffers are apart (find_bench_region, measure_memory_bandwidth).  It measures with aligned
\* buffers of whole blocks (movdqa would fault), and at least once.
BenchInFreeMemory ==
  \A c \in CacheSizes : \A b \in Copies(c) :
    LET all == InBytes(b.src, b.len) \cup InBytes(b.dst, b.len)
    IN /\ \E i \in DOMAIN pm_map : all \subseteq FreeBytes(i) \cap InBytes(MinStart, PinnedSize * PageSize - MinStart)
       /\ all \cap InBytes(ProgStart, ProgEnd - ProgStart) = {}
       /\ \A k \in blocks : all \cap InBytes(k.start * PageSize, (k.end - k.start) * PageSize) = {}
       /\ InBytes(b.src, b.len) \cap InBytes(b.dst, b.len) = {}
       /\ b.src % BenchAlign = 0 /\ b.dst % BenchAlign = 0 /\ b.len % CopyBlock = 0 /\ b.len > 0
       /\ \A s \in Clocks, clks \in ClksPerMsecs, ms \in {1, 4} :
            /\ ChooseIterations(b.len, s, clks, ms) \in 0 .. Most2(16, MaxIter)
            /\ clks > 0 /\ s > 0 => MemSpeed(b.len, s, b.len, clks, ms, 2) > 0
=============================================================================
