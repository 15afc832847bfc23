-------------------------------- MODULE Heap --------------------------------
(***************************************************************************)
(* The heaps of system/heap.c.  A heap is the top of a segment of the      *)
(* physical memory map: an allocation lowers the end of the segment, which *)
(* also takes the pages out of every later test window, and heap_rewind    *)
(* raises it again to a mark.  The callers (the USB drivers, smp_init, the *)
(* code that saves reports and settings) take a mark, allocate, and either *)
(* keep what they have or rewind; they nest.                               *)
(*                                                                         *)
(* Numbers are pages.  A segment is [start, end).                          *)
(***************************************************************************)
EXTENDS Integers, Sequences, FiniteSets

CONSTANTS
  Maps,           \* the memory maps pmem_init leaves: sequences of segments
  Program,        \* the pages the program is loaded at, [start, end)
  LowHeapLimit,   \* low_memory_heap
  HeapLimit,      \* heap_limit
  PageMod,        \* page numbers are computed modulo this (uintptr_t)
  Requests,       \* sizes the callers ask for, in pages
  Alignments,     \* in pages: powers of 2
  Oversized,      \* may a caller ask for more than the segment's end?
  MaxMarks,       \* bound on the nesting of callers
  MaxBlocks       \* bound on the live allocations

ASSUME HeapAssumption ==
  /\ LowHeapLimit \in Nat /\ HeapLimit \in Nat /\ PageMod \in Nat \ {0}
  /\ Requests \subseteq Nat \ {0}
  /\ Alignments \subseteq Nat \ {0}
  /\ Oversized \in BOOLEAN
  /\ Program \in [start : Nat, end : Nat] /\ Program.start <= Program.end
  /\ MaxMarks \in Nat /\ MaxBlocks \in Nat

HeapId == {"LM", "HM"}

NoSegment == 0

VARIABLES
  pm_map,     \* the segments, with what is left of them
  heaps,      \* the segment, the start and the original end of each heap
  heap_ready, \* heap_init has run
  blocks,     \* history: the live allocations
  marks       \* the callers that may still rewind, innermost last

heapVars == <<pm_map, heaps, heap_ready, blocks, marks>>

Segment == [start : Nat, end : Nat]

\* Segments in ascending order; one shorter than a page is inverted.
Ordered(m) == \A i, j \in DOMAIN m : i < j => m[i].end <= m[j].start

ASSUME MapsAssumption ==
  \A m \in Maps :
    /\ m \in Seq(Segment)
    /\ Ordered(m)
    /\ \A i \in DOMAIN m : m[i].end < PageMod

HeapStateInit ==
  /\ heaps = [h \in HeapId |-> [segment |-> NoSegment, start |-> 0, end |-> 0]]
  /\ heap_ready = FALSE
  /\ blocks = {}
  /\ marks = << >>

HeapSpecInit ==
  /\ pm_map \in Maps
  /\ HeapStateInit

-----------------------------------------------------------------------------
(* heap_init *)

\* The part of a segment above the program.
TryStart(i) ==
  IF Program.start >= pm_map[i].start /\ Program.end <= pm_map[i].end
    THEN Program.end
    ELSE pm_map[i].start

\* segment_size, an unsigned difference
SegmentSize(i) == (pm_map[i].end - TryStart(i)) % PageMod

\* The loop stops at the first segment that ends above the limit.
Scanned == {i \in DOMAIN pm_map : \A j \in 1 .. i : pm_map[j].end <= HeapLimit}

\* The segments that were the largest so far when the loop came to them.
Largest == {i \in Scanned : \A j \in 1 .. (i - 1) : SegmentSize(j) <= SegmentSize(i)}

\* The loop keeps the last one it assigned.
IsLast(i, candidates) ==
  IF candidates = {} THEN i = NoSegment
  ELSE i \in candidates /\ \A j \in candidates : j <= i

Made(i) ==
  IF i = NoSegment THEN [segment |-> NoSegment, start |-> 0, end |-> 0]
  ELSE [segment |-> i, start |-> TryStart(i), end |-> pm_map[i].end]

HeapInit ==
  /\ ~heap_ready
  /\ heap_ready' = TRUE
  /\ \E low, high \in {NoSegment} \cup DOMAIN pm_map :
       /\ IsLast(low, {i \in Largest : pm_map[i].end <= LowHeapLimit})
       /\ IsLast(high, Largest)
       /\ heaps' = [h \in HeapId |-> IF h = "LM" THEN Made(low) ELSE Made(high)]
  /\ UNCHANGED <<pm_map, blocks, marks>>

-----------------------------------------------------------------------------
(* heap_alloc, heap_mark, heap_rewind *)

\* addr of a request: the difference wraps, then the low bits are cleared
Placed(end, n, align) ==
  LET addr == (end - n) % PageMod IN addr - (addr % align)

\* The heaps the innermost caller allocates from.
InUse == IF marks = << >> THEN HeapId ELSE DOMAIN marks[Len(marks)].at

HeapAlloc(h, n, align) ==
  LET seg == heaps[h].segment
      addr == Placed(pm_map[seg].end, n, align)
  IN /\ heap_ready
     /\ Cardinality(blocks) < MaxBlocks
     /\ h \in InUse
     /\ seg # NoSegment
     /\ Oversized \/ n <= pm_map[seg].end
     /\ addr >= heaps[h].start
     /\ pm_map' = [pm_map EXCEPT ![seg].end = addr]
     /\ blocks' = blocks \cup {[segment |-> seg, start |-> addr,
                                end |-> pm_map[seg].end]}
     /\ UNCHANGED <<heaps, heap_ready, marks>>

\* A caller marks the low-memory heap, or both (xhci).
HeapMark(hs) ==
  /\ heap_ready
  /\ Len(marks) < MaxMarks
  /\ hs \subseteq InUse
  /\ \A h \in hs : heaps[h].segment # NoSegment
  /\ marks' = Append(marks, [at |-> [h \in hs |-> pm_map[heaps[h].segment].end],
                             kept |-> blocks])
  /\ UNCHANGED <<pm_map, heaps, heap_ready, blocks>>

RewoundToTop(i) ==
  LET tops == {heaps[h].end : h \in {k \in HeapId : heaps[k].segment = i}}
  IN IF tops = {} THEN pm_map[i].end ELSE CHOOSE e \in tops : TRUE

\* heap_rewind for each heap the caller marked.
Rewound(i) ==
  LET mark == marks[Len(marks)]
      back == {mark.at[h] : h \in {k \in DOMAIN mark.at :
                 /\ heaps[k].segment = i
                 /\ mark.at[k] > pm_map[i].end
                 /\ mark.at[k] <= heaps[k].end}}
  IN IF back = {} THEN pm_map[i].end ELSE CHOOSE e \in back : TRUE

HeapRewind ==
  /\ marks # << >>
  /\ pm_map' = [i \in DOMAIN pm_map |-> [pm_map[i] EXCEPT !.end = Rewound(i)]]
  /\ blocks' = marks[Len(marks)].kept
  /\ marks' = SubSeq(marks, 1, Len(marks) - 1)
  /\ UNCHANGED <<heaps, heap_ready>>

\* The driver keeps the device: its allocations stay.
HeapKeep ==
  /\ marks # << >>
  /\ marks' = SubSeq(marks, 1, Len(marks) - 1)
  /\ UNCHANGED <<pm_map, heaps, heap_ready, blocks>>

HeapUse ==
  \/ \E h \in HeapId, n \in Requests, a \in Alignments : HeapAlloc(h, n, a)
  \/ \E hs \in {{"LM"}, HeapId} : HeapMark(hs)
  \/ HeapRewind
  \/ HeapKeep

HeapNext == HeapInit \/ HeapUse

HeapSpec == HeapSpecInit /\ [][HeapNext]_heapVars

-----------------------------------------------------------------------------
(* Properties *)

\* The pages of a segment or of a block.
Pages(s) == s.start .. (s.end - 1)

\* The types of the heap's state.
HeapTypeOK ==
  /\ pm_map \in Seq(Segment)
  /\ heaps \in [HeapId -> [segment : Nat, start : Nat, end : Nat]]
  /\ \A h \in HeapId : heaps[h].segment \in {NoSegment} \cup DOMAIN pm_map
  /\ heap_ready \in BOOLEAN
  /\ \A b \in blocks : /\ b \in [segment : Nat, start : Nat, end : Nat]
                       /\ b.segment \in DOMAIN pm_map
  /\ DOMAIN marks = 1 .. Len(marks)
  /\ \A k \in DOMAIN marks : /\ DOMAIN marks[k].at \subseteq HeapId
                              /\ marks[k].at \in [DOMAIN marks[k].at -> Nat]
                              /\ marks[k].kept \subseteq blocks

\* The memory that is handed out is not handed out twice and is not offered to
\* the tests: the pages of a live allocation are in no segment of the map and in
\* no other live allocation, whatever was marked, kept and rewound before, also
\* when both heaps are in one segment (heap_alloc, heap_rewind).
BlocksApart ==
  \A b \in blocks :
    /\ \A i \in DOMAIN pm_map : Pages(b) \cap Pages(pm_map[i]) = {}
    /\ \A c \in blocks : b # c => Pages(b) \cap Pages(c) = {}
=============================================================================
