------------------------------ MODULE PhysMem ------------------------------
(***************************************************************************)
(* The physical memory map of system/pmem.c: the memory map of the         *)
(* firmware (e820 entries, which may overlap) is turned into the segments  *)
(* that may be tested.  Addresses are bytes, PageSize of them in a page.   *)
(***************************************************************************)
EXTENDS Integers, Sequences, SequencesExt

CONSTANTS
  PageSize,
  ReservedStart,   \* RESERVED_MEM_START, an address
  ReservedEnd,     \* RESERVED_MEM_END
  AddrMod,         \* addresses are computed modulo this (uint64_t)
  MapSize          \* E820_MAP_SIZE

E820_NONE == 0
E820_RAM == 1
E820_ACPI == 3

UsableTypes == {E820_RAM, E820_ACPI}

-----------------------------------------------------------------------------
(* sanitize_e820_map *)

\* Both ends of every entry.
ChangePoints(orig) ==
  LET n == Len(orig)
  IN [k \in 1 .. 2 * n |->
       LET i == (k + 1) \div 2
       IN IF k % 2 = 1
            THEN [addr |-> orig[i].addr, start |-> TRUE, entry |-> i]
            ELSE [addr |-> orig[i].addr + orig[i].size, start |-> FALSE, entry |-> i]]

\* At one address the starts come before the ends.
Earlier(p, q) ==
  \/ p.addr < q.addr
  \/ p.addr = q.addr /\ p.start /\ ~q.start

TypeOfLeast(orig, overlap) ==
  LET types == {orig[i].type : i \in overlap}
  IN IF types = {} THEN E820_NONE ELSE CHOOSE t \in types : \A u \in types : t <= u

\* The type of a set of overlapping entries: the larger value takes precedence.
TypeOf(orig, overlap) ==
  LET types == {orig[i].type : i \in overlap} \cup {E820_NONE}
  IN CHOOSE t \in types : \A u \in types : u <= t

\* One change point: the entry that ends is emitted unless it is empty.
Sweep(orig, acc, p) ==
  LET overlap == IF p.start THEN acc.overlap \cup {p.entry} ELSE acc.overlap \ {p.entry}
      type == TypeOf(orig, overlap)
      size == p.addr - acc.last_addr
      emitted == IF acc.last_type # E820_NONE /\ size # 0
                   THEN Append(acc.map, [addr |-> acc.last_addr, size |-> size,
                                         type |-> acc.last_type])
                   ELSE acc.map
  IN IF Len(acc.map) >= MapSize THEN acc
     ELSE IF type = acc.last_type THEN [acc EXCEPT !.overlap = overlap]
     ELSE [overlap |-> overlap, map |-> emitted, last_type |-> type,
           last_addr |-> IF type # E820_NONE THEN p.addr ELSE acc.last_addr]

\* An entry that runs over the end of the address space discredits the map.
Unreasonable(e) == (e.addr + e.size) % AddrMod < e.addr

SanitizeE820(orig) ==
  IF \E i \in DOMAIN orig : Unreasonable(orig[i])
    THEN << >>
    ELSE FoldLeft(LAMBDA acc, p : Sweep(orig, acc, p),
                  [overlap |-> {}, map |-> << >>, last_type |-> E820_NONE, last_addr |-> 0],
                  SortSeq(ChangePoints(orig), Earlier)).map

-----------------------------------------------------------------------------
(* init_pm_map, sort_pm_map *)

\* The memory between 640 KB and 1 MB is cut off, by strict comparisons.
ClipStart(e) ==
  IF e.addr > ReservedStart /\ e.addr < ReservedEnd THEN ReservedEnd ELSE e.addr

ClipEnd(e) ==
  LET end == e.addr + e.size
  IN IF end > ReservedStart /\ end < ReservedEnd THEN ReservedStart ELSE end

Skipped(e) ==
  /\ e.addr > ReservedStart
  /\ e.addr + e.size < ReservedEnd

\* Whole pages only: the start is rounded up, the end down.
ToSegment(e) ==
  [start |-> (ClipStart(e) + PageSize - 1) \div PageSize,
   end |-> ClipEnd(e) \div PageSize]

\* A segment that starts where the previous one ends is joined to it.
AddSegment(map, e) ==
  LET seg == ToSegment(e)
      last == Len(map)
  IN IF e.type \notin UsableTypes \/ Skipped(e) THEN map
     ELSE IF last > 0 /\ map[last].end = seg.start
       THEN [map EXCEPT ![last].end = seg.end]
       ELSE Append(map, seg)

InitPmMap(e820) == FoldLeft(AddSegment, << >>, e820)

SortPmMap(map) == SortSeq(map, LAMBDA a, b : a.start < b.start)

PmemInit(e820) == SortPmMap(InitPmMap(SanitizeE820(e820)))
=============================================================================
