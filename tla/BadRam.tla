------------------------------- MODULE BadRam -------------------------------
(***************************************************************************)
(* The accumulation of BadRAM patterns, memmap regions and bad pages       *)
(* (app/badram.c).  Up to MAX_PATTERNS entries describe all the faulty     *)
(* addresses reported since the last badram_init; a new address is merged  *)
(* into an entry where that costs little, and two entries are merged when  *)
(* there are too many.                                                     *)
(*                                                                         *)
(* An address is the set of its 1 bits; the bits below the granularity of  *)
(* the test (one word) are left out, so DEFAULT_MASK is the set of all     *)
(* bits and sizeof(uintptr_t) is one.  Val is the number an address stands *)
(* for.  The regions of the memmap mode and the page ranges are kept       *)
(* alike; the mode "MEMMAP" stands for both.                               *)
(***************************************************************************)
EXTENDS Integers, Sequences, FiniteSets

CONSTANTS
  W,              \* bits of an address
  Val(_),         \* the number of an address
  MaxPatterns,    \* MAX_PATTERNS
  MaxFaults,      \* bound: addresses reported
  Modes           \* the error modes the user chooses

Bit == 0 .. W - 1
Addr == SUBSET Bit
Pattern == [addr : Addr, mask : Addr]
Mode == {"BADRAM", "MEMMAP"}

ASSUME WidthAssumption == W \in Nat \ {0}
ASSUME PatternsAssumption == MaxPatterns \in Nat \ {0} /\ MaxFaults \in Nat
ASSUME ModesAssumption == Modes \in SUBSET Mode
ASSUME ValAssumption ==
  /\ \A a \in Addr : Val(a) \in 0 .. 2^W - 1
  /\ \A a, b \in Addr : Val(a) = Val(b) => a = b
ASSUME PowerAssumption ==
  /\ \A i \in 0 .. W : 2^i \in Nat \ {0}
  /\ \A i, j \in 0 .. W : i < j => 2^i < 2^j
  /\ 2^0 = 1 /\ \A i \in 0 .. W - 1 : 2^(i + 1) = 2 * 2^i

VARIABLES
  error_mode,
  patterns,       \* patterns[], with num_patterns entries
  faults          \* (history) the addresses reported since badram_init

vars == <<error_mode, patterns, faults>>

-----------------------------------------------------------------------------
\* The bits in which a and b are equal.
Equal(a, b) == Bit \ ((a \ b) \cup (b \ a))

\* Mutant: the bits in which the addresses differ stay in the mask.
CombineMasks(p, q) ==
  IF error_mode = "BADRAM"
  THEN LET mask == p.mask \cap q.mask
       IN [addr |-> (p.addr \cup q.addr) \cap mask, mask |-> mask]
  ELSE [addr |-> IF Val(p.addr) < Val(q.addr) THEN p.addr ELSE q.addr,
        mask |-> IF Val(p.mask) > Val(q.mask) THEN p.mask ELSE q.mask]

\* combine: in BadRAM mode the mask keeps the bits on which both agree,
\* otherwise the entries are intervals.
Combine(p, q) ==
  IF error_mode = "BADRAM"
  THEN LET mask == p.mask \cap q.mask \cap Equal(p.addr, q.addr)
       IN [addr |-> (p.addr \cup q.addr) \cap mask, mask |-> mask]
  ELSE [addr |-> IF Val(p.addr) < Val(q.addr) THEN p.addr ELSE q.addr,
        mask |-> IF Val(p.mask) > Val(q.mask) THEN p.mask ELSE q.mask]

\* addresses: the number of addresses a mask covers.  The count of all of them
\* does not fit into the word and wraps to zero.
Addresses(mask) == IF mask = {} THEN 0 ELSE 2^(W - Cardinality(mask))

\* combi_cost, an unsigned difference.
CombiCost(p, q) ==
  LET r == Combine(p, q)
      more == IF error_mode = "BADRAM"
              THEN Addresses(r.mask) - Addresses(p.mask)
              ELSE (Val(r.mask) - Val(r.addr)) - (Val(p.mask) - Val(p.addr))
  IN IF more < 0 THEN more + 2^W ELSE more

InsertAt(s, i, p) ==
  [j \in 1 .. Len(s) + 1 |-> IF j < i THEN s[j] ELSE IF j = i THEN p ELSE s[j - 1]]

First(S) == CHOOSE i \in S : \A j \in S : i <= j

\* insert_sorted: before the first entry with a larger address.
Normalise(p) == IF error_mode = "BADRAM" THEN [p EXCEPT !.addr = @ \cap p.mask] ELSE p

\* Mutant: new entries go to the end.
InsertLast(s, p) == InsertAt(s, Len(s) + 1, Normalise(p))

InsertSorted(s, p) ==
  LET q == Normalise(p)
      after == {i \in 1 .. Len(s) : Val(q.addr) < Val(s[i].addr)}
  IN InsertAt(s, IF after = {} THEN Len(s) + 1 ELSE First(after), q)

\* cheapest_pair: the last one of the cheapest pairs of neighbours.
PairCost(s, i) == CombiCost(s[i], s[i + 1])

CheapestPair(s) ==
  CHOOSE i \in 1 .. Len(s) - 1 :
    \A j \in 1 .. Len(s) - 1 : \/ PairCost(s, i) < PairCost(s, j)
                               \/ PairCost(s, i) = PairCost(s, j) /\ j <= i

\* remove_pair
RemovePair(s, i) == [j \in 1 .. Len(s) - 2 |-> IF j < i THEN s[j] ELSE s[j + 2]]

\* The forced merge of badram_insert, when there are too many entries.
Merge(s) ==
  IF Len(s) <= MaxPatterns THEN s
  ELSE LET i == CheapestPair(s)
       IN InsertSorted(RemovePair(s, i), Combine(s[i], s[i + 1]))

-----------------------------------------------------------------------------
Init == error_mode \in Modes /\ patterns = <<>> /\ faults = {}

NewPattern(a) == [addr |-> a, mask |-> IF error_mode = "BADRAM" THEN Bit ELSE a]

\* The entries that cover the address already, or can be made to by one more
\* address.
Near(a) == {i \in 1 .. Len(patterns) : CombiCost(patterns[i], NewPattern(a)) \in {0, 1}}

\* badram_insert: the first such entry takes the address.
Insert(a) ==
  /\ Cardinality(faults) < MaxFaults
  /\ faults' = faults \cup {a}
  /\ LET first == First(Near(a))
     IN patterns' = IF Near(a) = {} THEN Merge(InsertSorted(patterns, NewPattern(a)))
                    ELSE IF CombiCost(patterns[first], NewPattern(a)) = 0 THEN patterns
                    ELSE [patterns EXCEPT ![first] = Combine(@, NewPattern(a))]
  /\ UNCHANGED error_mode

\* A new run, or a new error mode: common_err calls badram_init.
Clear == /\ error_mode' \in Modes
         /\ patterns' = <<>>
         /\ faults' = {}

Next == Clear \/ \E a \in Addr : Insert(a)

Spec == Init /\ [][Next]_vars

-----------------------------------------------------------------------------
\* Every entry has its type, and there are no more of them than the array and
\* the display have room for.
TypeOK == /\ error_mode \in Mode
          /\ patterns \in Seq(Pattern)
          /\ Len(patterns) <= MaxPatterns
          /\ faults \in SUBSET Addr

\* The addresses an entry stands for.
Covers(p, a) ==
  IF error_mode = "BADRAM" THEN a \cap p.mask = p.addr \cap p.mask
  ELSE Val(p.addr) <= Val(a) /\ Val(a) <= Val(p.mask)

\* (README.md:424) "Such a pattern may capture more errors than actually exist,
\* but at least all the errors are captured": every faulty address stays
\* covered, through all the merges.
AllCaptured ==
  \A a \in faults : \E i \in 1 .. Len(patterns) : Covers(patterns[i], a)

\* As long as the faulty addresses are no more than the entries there is room
\* for, nothing else is reported: the merges by cost are exact.
Exact == Cardinality(faults) <= MaxPatterns =>
           \A a \in Addr : (\E i \in 1 .. Len(patterns) : Covers(patterns[i], a)) => a \in faults

\* The entries are sorted by address: what insert_sorted ("NOTE: Assumes
\* patterns is already sorted by .addr asc!", badram.c:194) and cheapest_pair
\* ("Assumes patterns is sorted by .addr asc", badram.c:122) rely on.
Sorted == \A i \in 1 .. Len(patterns) - 1 :
            Val(patterns[i].addr) <= Val(patterns[i + 1].addr)

\* In the interval modes they are.
SortedRegions == error_mode = "MEMMAP" => Sorted

\* While the faults fit into the table it covers nothing else, and in the modes with regions
\* it stays sorted, over any sequence of insertions and merges (badram_insert).
TableTight == Exact /\ SortedRegions

\* The inductive invariant behind it (BadRamProofs): regions are intervals with different
\* starts, and there is never more than one entry per faulty address, so that as long as
\* these fit no two entries have been merged for want of room.
Ordered(s) == \A i, j \in 1 .. Len(s) : i < j => Val(s[i].addr) < Val(s[j].addr)
Intervals(s) == \A i \in 1 .. Len(s) : Val(s[i].addr) <= Val(s[i].mask)

TightInv == /\ TypeOK /\ AllCaptured /\ Exact
            /\ Len(patterns) <= Cardinality(faults)
            /\ error_mode = "MEMMAP" => Ordered(patterns) /\ Intervals(patterns)
=============================================================================
