--------------------------- MODULE WindowMapProofs ---------------------------
(***************************************************************************)
(* The heaps never hand out a page twice and never leave one of their pages*)
(* to the tests, for every memory map and every nesting of the callers, as *)
(* long as no request is larger than the end of the segment.  The windows  *)
(* of a test never hold the program, never share a page, and hold in the   *)
(* end all the memory there is to test.                                    *)
(*                                                                         *)
(* BlocksApart is not inductive: that a rewind is safe depends on where    *)
(* the end of the segment was when the mark was taken, on what lives above *)
(* it, and on the marks below it.  Nor is WindowsRight, which speaks of    *)
(* the window of the moment and of the end of a sweep: WindowInv says what *)
(* part of the memory a sweep has had at each window, while the heaps move *)
(* the ends of the segments, and that a window lies in one part of the     *)
(* address space.  What setup_vm_map computes comes first.                 *)
(***************************************************************************)
EXTENDS WindowMap, SequenceTheorems, FiniteSetTheorems, WellFoundedInduction, TLAPS

Block == [segment : Nat, start : Nat, end : Nat]

Mark == [at : UNION {[hs -> Nat] : hs \in SUBSET HeapId}, kept : SUBSET Block]

\* The segments stay in order.
MapInv ==
  /\ pm_map \in [DOMAIN pm_map -> Segment]
  /\ DOMAIN pm_map \subseteq Nat \ {0}
  /\ Ordered(pm_map)

\* Each heap begins in its segment and ends below all later ones.
HeapOf(h) ==
  heaps[h].segment # NoSegment =>
    /\ heaps[h].segment \in DOMAIN pm_map
    /\ heaps[h].start >= pm_map[heaps[h].segment].start
    /\ \A j \in DOMAIN pm_map : heaps[h].segment < j => heaps[h].end <= pm_map[j].start

HeapsInv ==
  /\ heaps \in [HeapId -> Block]
  /\ \A h \in HeapId : HeapOf(h)

\* A block lies in its segment's place, above what is left of the segment.
BlockPlaced(b) ==
  /\ b \in Block
  /\ b.segment \in DOMAIN pm_map
  /\ b.start < b.end
  /\ pm_map[b.segment].start <= b.start
  /\ pm_map[b.segment].end <= b.start
  /\ \A j \in DOMAIN pm_map : b.segment < j => b.end <= pm_map[j].start

BlocksInv ==
  /\ \A b \in blocks : BlockPlaced(b)
  /\ \A b, c \in blocks :
       b # c /\ b.segment = c.segment => b.end <= c.start \/ c.end <= b.start

\* What a mark keeps is alive and lies above it; an inner mark keeps more.
MarksInv ==
  /\ marks \in Seq(Mark)
  /\ \A k \in 1 .. Len(marks) :
       /\ marks[k].kept \subseteq blocks
       /\ \A h \in DOMAIN marks[k].at, b \in marks[k].kept :
            b.segment = heaps[h].segment => marks[k].at[h] <= b.start
  /\ \A j, k \in 1 .. Len(marks) : j < k => marks[j].kept \subseteq marks[k].kept

\* Nothing is allocated before heap_init.
ReadyInv == ~heap_ready => blocks = {} /\ marks = << >>

HeapInv == MapInv /\ HeapsInv /\ BlocksInv /\ MarksInv /\ ReadyInv

-----------------------------------------------------------------------------

\* A remainder is no larger than the number itself.
LEMMA ModBounds ==
  ASSUME NEW x \in Nat, NEW p \in Nat \ {0}
  PROVE  x % p \in Nat /\ x % p <= x
<1>1. x % p \in 0 .. (p - 1)
  OBVIOUS
<1>2. CASE x < p
  BY <1>2
<1>3. CASE x >= p
  BY <1>1, <1>3
<1> QED BY <1>2, <1>3

\* An allocation that does not wrap lies below the end (heap_alloc).
LEMMA PlacedBelow ==
  ASSUME NEW end \in Nat, NEW n \in Nat \ {0}, n <= end, NEW align \in Nat \ {0}
  PROVE  Placed(end, n, align) \in Nat /\ Placed(end, n, align) < end
<1> DEFINE addr == (end - n) % PageMod
<1>1. addr \in Nat /\ addr <= end - n
  BY ModBounds, HeapAssumption
<1> HIDE DEF addr
<1>2. addr % align \in Nat /\ addr % align <= addr
  BY <1>1, ModBounds
<1>3. addr - (addr % align) \in Nat /\ addr - (addr % align) < end
  BY <1>1, <1>2
<1> QED BY <1>3 DEF Placed, addr

\* The invariant says what is wanted.
LEMMA InvImpliesApart == HeapInv => BlocksApart
<1> SUFFICES ASSUME HeapInv, NEW b \in blocks
             PROVE  /\ \A i \in DOMAIN pm_map : Pages(b) \cap Pages(pm_map[i]) = {}
                    /\ \A c \in blocks : b # c => Pages(b) \cap Pages(c) = {}
  BY DEF BlocksApart
<1> USE DEF HeapInv, Block
<1>1. BlockPlaced(b)
  BY DEF BlocksInv
<1>2. ASSUME NEW i \in DOMAIN pm_map
      PROVE  Pages(b) \cap Pages(pm_map[i]) = {}
  <2>1. pm_map[i] \in Segment /\ pm_map[b.segment] \in Segment /\ i \in Nat
    BY <1>1 DEF MapInv, BlockPlaced
  <2>2. CASE i = b.segment
    BY <1>1, <2>1, <2>2 DEF BlockPlaced, Pages, Segment
  <2>3. CASE b.segment < i
    BY <1>1, <2>1, <2>3 DEF BlockPlaced, Pages, Segment
  <2>4. CASE i < b.segment
    <3>1. pm_map[i].end <= pm_map[b.segment].start
      BY <1>1, <2>4 DEF MapInv, Ordered, BlockPlaced
    <3> QED BY <1>1, <2>1, <3>1 DEF BlockPlaced, Pages, Segment
  <2> QED BY <1>1, <2>1, <2>2, <2>3, <2>4 DEF BlockPlaced
<1>3. ASSUME NEW c \in blocks, b # c
      PROVE  Pages(b) \cap Pages(c) = {}
  <2>1. BlockPlaced(c)
    BY DEF BlocksInv
  <2>2. b.end <= c.start \/ c.end <= b.start
    <3>1. CASE b.segment = c.segment
      BY <1>3, <3>1 DEF BlocksInv
    <3>2. CASE b.segment < c.segment
      <4>1. b.end <= pm_map[c.segment].start /\ pm_map[c.segment].start <= c.start
        BY <1>1, <2>1, <3>2 DEF BlockPlaced
      <4>2. pm_map[c.segment].start \in Nat
        BY <2>1 DEF BlockPlaced, MapInv, Segment
      <4> QED BY <1>1, <2>1, <4>1, <4>2 DEF BlockPlaced
    <3>3. CASE c.segment < b.segment
      <4>1. c.end <= pm_map[b.segment].start /\ pm_map[b.segment].start <= b.start
        BY <1>1, <2>1, <3>3 DEF BlockPlaced
      <4>2. pm_map[b.segment].start \in Nat
        BY <1>1 DEF BlockPlaced, MapInv, Segment
      <4> QED BY <1>1, <2>1, <4>1, <4>2 DEF BlockPlaced
    <3> QED BY <1>1, <2>1, <3>1, <3>2, <3>3 DEF BlockPlaced
  <2> QED BY <1>1, <2>1, <2>2 DEF BlockPlaced, Pages
<1> QED BY <1>2, <1>3

\* Before heap_init nothing is allocated.
LEMMA InitInv == HeapSpecInit => HeapInv
<1> SUFFICES ASSUME HeapSpecInit PROVE HeapInv
  OBVIOUS
<1> USE DEF HeapSpecInit, HeapStateInit
<1>1. MapInv
  <2>1. pm_map \in Seq(Segment) /\ Ordered(pm_map)
    BY MapsAssumption
  <2> QED BY <2>1 DEF MapInv
<1>2. HeapsInv
  BY DEF HeapsInv, HeapOf, Block, NoSegment, HeapId
<1>3. BlocksInv /\ ReadyInv
  BY DEF BlocksInv, ReadyInv
<1>4. MarksInv
  BY DEF MarksInv
<1> QED BY <1>1, <1>2, <1>3, <1>4 DEF HeapInv

\* heap_init makes its heaps of segments of the map.
LEMMA HeapInitKeeps == HeapInv /\ HeapInit => HeapInv'
<1> SUFFICES ASSUME HeapInv, HeapInit PROVE HeapInv'
  OBVIOUS
<1>1. PICK low, high \in {NoSegment} \cup DOMAIN pm_map :
        heaps' = [h \in HeapId |-> IF h = "LM" THEN Made(low) ELSE Made(high)]
  BY DEF HeapInit
<1>2. UNCHANGED <<pm_map, blocks, marks>> /\ heap_ready' = TRUE /\ blocks = {} /\ marks = << >>
  BY DEF HeapInit, HeapInv, ReadyInv
<1>3. \A i \in {NoSegment} \cup DOMAIN pm_map :
        /\ Made(i) \in Block
        /\ Made(i).segment # NoSegment =>
             /\ Made(i).segment \in DOMAIN pm_map
             /\ Made(i).start >= pm_map[Made(i).segment].start
             /\ \A j \in DOMAIN pm_map : Made(i).segment < j => Made(i).end <= pm_map[j].start
  <2> SUFFICES ASSUME NEW i \in DOMAIN pm_map
               PROVE  /\ Made(i) \in Block
                      /\ Made(i).segment \in DOMAIN pm_map
                      /\ Made(i).start >= pm_map[Made(i).segment].start
                      /\ \A j \in DOMAIN pm_map : Made(i).segment < j => Made(i).end <= pm_map[j].start
    BY DEF Made, Block, NoSegment
  <2>1. pm_map[i] \in Segment /\ i \in Nat \ {0}
    BY DEF HeapInv, MapInv
  <2>2. Made(i) = [segment |-> i, start |-> TryStart(i), end |-> pm_map[i].end]
    BY <2>1 DEF Made, NoSegment
  <2>3. TryStart(i) \in Nat /\ TryStart(i) >= pm_map[i].start
    BY <2>1, HeapAssumption DEF TryStart, Segment
  <2>4. \A j \in DOMAIN pm_map : i < j => pm_map[i].end <= pm_map[j].start
    BY DEF HeapInv, MapInv, Ordered
  <2> QED BY <2>1, <2>2, <2>3, <2>4 DEF Block, Segment
<1>4. MapInv'
  BY <1>2 DEF HeapInv, MapInv
<1>5. HeapsInv'
  <2>1. heaps' \in [HeapId -> Block]
    BY <1>1, <1>3
  <2>2. ASSUME NEW h \in HeapId PROVE HeapOf(h)'
    <3>1. PICK i \in {NoSegment} \cup DOMAIN pm_map : heaps'[h] = Made(i)
      BY <1>1
    <3> QED BY <1>2, <1>3, <3>1 DEF HeapOf
  <2> QED BY <2>1, <2>2 DEF HeapsInv
<1>6. BlocksInv' /\ MarksInv' /\ ReadyInv'
  BY <1>2 DEF BlocksInv, MarksInv, ReadyInv
<1> QED BY <1>4, <1>5, <1>6 DEF HeapInv

\* An allocation takes the top of what is left.
LEMMA AllocKeeps ==
  ASSUME ~Oversized, HeapInv, NEW h \in HeapId, NEW n \in Requests, NEW a \in Alignments,
         HeapAlloc(h, n, a)
  PROVE  HeapInv'
<1> DEFINE seg == heaps[h].segment
           old == pm_map[seg].end
           addr == Placed(old, n, a)
           new == [segment |-> seg, start |-> addr, end |-> old]
<1>1. /\ seg # NoSegment /\ n <= old /\ addr >= heaps[h].start
      /\ pm_map' = [pm_map EXCEPT ![seg].end = addr]
      /\ blocks' = blocks \cup {new}
      /\ UNCHANGED <<heaps, heap_ready, marks>>
      /\ heap_ready
  BY DEF HeapAlloc
<1>2. /\ seg \in DOMAIN pm_map /\ seg \in Nat
      /\ heaps[h].start \in Nat /\ heaps[h].start >= pm_map[seg].start
  BY <1>1 DEF HeapInv, HeapsInv, HeapOf, MapInv, Block
<1>3. pm_map \in [DOMAIN pm_map -> Segment] /\ DOMAIN pm_map \subseteq Nat \ {0}
  BY DEF HeapInv, MapInv
<1>4. old \in Nat /\ pm_map[seg].start \in Nat
  BY <1>2, <1>3 DEF Segment
<1>5. addr \in Nat /\ addr < old
  BY <1>1, <1>4, PlacedBelow, HeapAssumption
<1> HIDE DEF addr
<1>6. /\ DOMAIN pm_map' = DOMAIN pm_map
      /\ \A i \in DOMAIN pm_map : /\ pm_map'[i].start = pm_map[i].start
                                  /\ pm_map'[i] \in Segment
                                  /\ pm_map'[i].end <= pm_map[i].end
      /\ pm_map'[seg].end = addr
      /\ \A i \in DOMAIN pm_map : i # seg => pm_map'[i] = pm_map[i]
  BY <1>1, <1>2, <1>3, <1>4, <1>5 DEF Segment
<1>7. MapInv'
  <2>1. pm_map' \in [DOMAIN pm_map' -> Segment] /\ DOMAIN pm_map' \subseteq Nat \ {0}
    BY <1>1, <1>3, <1>6
  <2>2. ASSUME NEW i \in DOMAIN pm_map, NEW j \in DOMAIN pm_map, i < j
        PROVE  pm_map'[i].end <= pm_map'[j].start
    <3>1. pm_map[i].end <= pm_map[j].start
      BY <2>2 DEF HeapInv, MapInv, Ordered
    <3>2. pm_map[i] \in Segment /\ pm_map[j] \in Segment /\ pm_map'[i] \in Segment
      BY <1>3, <1>6
    <3> QED BY <1>6, <3>1, <3>2 DEF Segment
  <2> QED BY <1>6, <2>1, <2>2 DEF MapInv, Ordered
<1>8. HeapsInv'
  <2>1. heaps' \in [HeapId -> Block]
    BY <1>1 DEF HeapInv, HeapsInv
  <2>2. ASSUME NEW g \in HeapId PROVE HeapOf(g)'
    <3>1. HeapOf(g)
      BY DEF HeapInv, HeapsInv
    <3> QED BY <1>1, <1>6, <3>1 DEF HeapOf
  <2> QED BY <2>1, <2>2 DEF HeapsInv
<1>9. PICK nb \in Block : nb = new /\ nb.segment = seg /\ nb.start = addr /\ nb.end = old
  <2>1. new \in Block /\ new.segment = seg /\ new.start = addr /\ new.end = old
    BY <1>2, <1>4, <1>5 DEF Block
  <2> HIDE DEF new
  <2> QED BY <2>1
<1>10. blocks' = blocks \cup {nb}
  <2>1. blocks' = blocks \cup {new} /\ nb = new
    BY <1>1, <1>9
  <2> HIDE DEF new
  <2> QED BY <2>1
<1>11. \A b \in blocks : BlockPlaced(b)
  BY DEF HeapInv, BlocksInv
<1> HIDE DEF new
<1>12. BlocksInv'
  <2>1. ASSUME NEW b \in blocks PROVE BlockPlaced(b)'
    <3>1. BlockPlaced(b)
      BY <1>11
    <3>2. pm_map[b.segment] \in Segment /\ pm_map'[b.segment] \in Segment
      BY <1>3, <1>6, <3>1 DEF BlockPlaced
    <3>3. b.start \in Nat /\ b.end \in Nat
      BY <3>1 DEF BlockPlaced, Block
    <3>4. pm_map'[b.segment].end <= b.start
      BY <1>6, <3>1, <3>2, <3>3 DEF BlockPlaced, Segment
    <3> QED BY <1>6, <3>1, <3>4 DEF BlockPlaced
  <2>2. BlockPlaced(nb)'
    <3>1. \A j \in DOMAIN pm_map : seg < j => old <= pm_map[j].start
      BY <1>2 DEF HeapInv, MapInv, Ordered
    <3>2. pm_map[seg].start <= addr
      BY <1>1, <1>2, <1>4, <1>5
    <3>3. pm_map'[seg].start = pm_map[seg].start /\ pm_map'[seg].end <= addr
      BY <1>2, <1>5, <1>6
    <3>4. \A j \in DOMAIN pm_map' : seg < j => old <= pm_map'[j].start
      BY <1>6, <3>1
    <3> HIDE DEF seg, old
    <3> QED BY <1>2, <1>5, <1>6, <1>9, <3>2, <3>3, <3>4 DEF BlockPlaced
  <2>3. \A b \in blocks : b.segment = nb.segment => nb.end <= b.start
    BY <1>9, <1>11 DEF BlockPlaced
  <2>4. \A b, c \in blocks : b # c /\ b.segment = c.segment => b.end <= c.start \/ c.end <= b.start
    BY DEF HeapInv, BlocksInv
  <2>5. ASSUME NEW b \in blocks', NEW c \in blocks', b # c, b.segment = c.segment
        PROVE  b.end <= c.start \/ c.end <= b.start
    BY <1>10, <2>3, <2>4, <2>5
  <2>6. \A b \in blocks' : BlockPlaced(b)'
    BY <1>10, <2>1, <2>2
  <2> QED BY <2>5, <2>6 DEF BlocksInv
<1>13. MarksInv'
  <2>1. MarksInv
    BY DEF HeapInv
  <2>2. blocks \subseteq blocks'
    BY <1>1
  <2> QED BY <1>1, <2>1, <2>2 DEF MarksInv
<1>14. ReadyInv'
  BY <1>1 DEF ReadyInv
<1> QED BY <1>7, <1>8, <1>12, <1>13, <1>14 DEF HeapInv

\* A mark is the end of its segment, below which no block lies.
LEMMA MarkKeeps ==
  ASSUME HeapInv, NEW hs \in SUBSET HeapId, HeapMark(hs)
  PROVE  HeapInv'
<1>1. PICK m : /\ m = [at |-> [h \in hs |-> pm_map[heaps[h].segment].end], kept |-> blocks]
               /\ marks' = Append(marks, m)
  BY DEF HeapMark
<1>2. /\ \A h \in hs : heaps[h].segment # NoSegment
      /\ UNCHANGED <<pm_map, heaps, heap_ready, blocks>> /\ heap_ready
  BY DEF HeapMark
<1>3. MapInv' /\ HeapsInv' /\ BlocksInv' /\ ReadyInv'
  BY <1>2 DEF HeapInv, MapInv, HeapsInv, HeapOf, BlocksInv, BlockPlaced, ReadyInv
<1>4. \A h \in hs : heaps[h].segment \in DOMAIN pm_map /\ pm_map[heaps[h].segment].end \in Nat
  <2> SUFFICES ASSUME NEW h \in hs
               PROVE  heaps[h].segment \in DOMAIN pm_map /\ pm_map[heaps[h].segment].end \in Nat
    OBVIOUS
  <2>1. heaps[h].segment \in DOMAIN pm_map
    BY <1>2 DEF HeapInv, HeapsInv, HeapOf
  <2> QED BY <2>1 DEF HeapInv, MapInv, Segment
<1>5. \A b \in blocks : b \in Block /\ pm_map[b.segment].end <= b.start
  BY DEF HeapInv, BlocksInv, BlockPlaced
<1>6. m \in Mark
  <2>1. [h \in hs |-> pm_map[heaps[h].segment].end] \in [hs -> Nat]
    BY <1>4
  <2>2. [h \in hs |-> pm_map[heaps[h].segment].end] \in UNION {[gs -> Nat] : gs \in SUBSET HeapId}
    BY <2>1
  <2>3. blocks \in SUBSET Block
    BY <1>5
  <2> QED BY <1>1, <2>2, <2>3 DEF Mark
<1>7. /\ m.kept = blocks
      /\ \A h \in DOMAIN m.at, b \in m.kept : b.segment = heaps[h].segment => m.at[h] <= b.start
  BY <1>1, <1>5
<1>8. MarksInv'
  <2>1. MarksInv /\ marks \in Seq(Mark)
    BY DEF HeapInv, MarksInv
  <2>2. /\ marks' \in Seq(Mark) /\ Len(marks') = Len(marks) + 1
        /\ \A k \in 1 .. Len(marks) : marks'[k] = marks[k]
        /\ marks'[Len(marks) + 1] = m
    BY <1>1, <1>6, <2>1
  <2>3. \A k \in 1 .. Len(marks') : k \in 1 .. Len(marks) \/ k = Len(marks) + 1
    BY <2>1, <2>2
  <2>4. ASSUME NEW k \in 1 .. Len(marks')
        PROVE  /\ marks'[k].kept \subseteq blocks'
               /\ \A h \in DOMAIN marks'[k].at, b \in marks'[k].kept :
                    b.segment = heaps'[h].segment => marks'[k].at[h] <= b.start
    <3>1. CASE k = Len(marks) + 1
      BY <1>2, <1>7, <2>2, <3>1
    <3>2. CASE k \in 1 .. Len(marks)
      BY <1>2, <2>1, <2>2, <3>2 DEF MarksInv
    <3> QED BY <2>3, <3>1, <3>2
  <2>5. ASSUME NEW j \in 1 .. Len(marks'), NEW k \in 1 .. Len(marks'), j < k
        PROVE  marks'[j].kept \subseteq marks'[k].kept
    <3>1. j \in 1 .. Len(marks)
      BY <2>1, <2>2, <2>5
    <3>2. CASE k = Len(marks) + 1
      BY <1>7, <2>1, <2>2, <3>1, <3>2 DEF MarksInv
    <3>3. CASE k \in 1 .. Len(marks)
      BY <2>1, <2>2, <2>5, <3>1, <3>3 DEF MarksInv
    <3> QED BY <2>3, <3>2, <3>3
  <2> QED BY <2>2, <2>4, <2>5 DEF MarksInv
<1> QED BY <1>3, <1>8 DEF HeapInv

\* The marks that are left when the innermost caller is done.
LEMMA PopKeeps ==
  ASSUME HeapInv, marks # << >>, marks' = SubSeq(marks, 1, Len(marks) - 1), heaps' = heaps,
         blocks' = blocks \/ blocks' = marks[Len(marks)].kept
  PROVE  MarksInv'
<1>1. MarksInv /\ marks \in Seq(Mark)
  BY DEF HeapInv, MarksInv
<1>2. Len(marks) \in Nat \ {0}
  BY <1>1
<1>3. /\ marks' \in Seq(Mark) /\ Len(marks') = Len(marks) - 1
      /\ \A k \in 1 .. (Len(marks) - 1) : marks'[k] = marks[k]
  <2> DEFINE last == Len(marks) - 1
  <2>1. last \in Nat /\ \A i \in 1 .. last : marks[i] \in Mark
    BY <1>1, <1>2
  <2>2. /\ SubSeq(marks, 1, last) \in Seq(Mark)
        /\ Len(SubSeq(marks, 1, last)) = last
        /\ \A i \in 1 .. last : SubSeq(marks, 1, last)[i] = marks[i]
    <3> HIDE DEF last
    <3>1. \A i \in 1 .. last : marks[1 + i - 1] = marks[i]
      BY <2>1
    <3> QED BY <2>1, <3>1, SubSeqProperties
  <2> QED BY <2>2
<1>4. ASSUME NEW k \in 1 .. Len(marks') PROVE marks'[k].kept \subseteq blocks'
  <2>1. k \in 1 .. Len(marks) /\ k < Len(marks) /\ Len(marks) \in 1 .. Len(marks)
    BY <1>2, <1>3
  <2>2. marks[k].kept \subseteq blocks /\ marks[k].kept \subseteq marks[Len(marks)].kept
    BY <1>1, <2>1 DEF MarksInv
  <2> QED BY <1>3, <2>2
<1>5. ASSUME NEW k \in 1 .. Len(marks')
      PROVE  \A h \in DOMAIN marks'[k].at, b \in marks'[k].kept :
               b.segment = heaps'[h].segment => marks'[k].at[h] <= b.start
  BY <1>1, <1>2, <1>3 DEF MarksInv
<1>6. \A j, k \in 1 .. Len(marks') : j < k => marks'[j].kept \subseteq marks'[k].kept
  BY <1>1, <1>2, <1>3 DEF MarksInv
<1> QED BY <1>3, <1>4, <1>5, <1>6 DEF MarksInv

\* A rewind raises the end of a segment no further than the blocks that stay and the next
\* segment allow (heap_rewind).
LEMMA RewindKeeps == HeapInv /\ HeapRewind => HeapInv'
<1> SUFFICES ASSUME HeapInv, HeapRewind PROVE HeapInv'
  OBVIOUS
<1> DEFINE mark == marks[Len(marks)]
<1>1. /\ marks # << >>
      /\ pm_map' = [i \in DOMAIN pm_map |-> [pm_map[i] EXCEPT !.end = Rewound(i)]]
      /\ blocks' = mark.kept
      /\ marks' = SubSeq(marks, 1, Len(marks) - 1)
      /\ UNCHANGED <<heaps, heap_ready>>
  BY DEF HeapRewind
<1>2. MarksInv /\ marks \in Seq(Mark) /\ Len(marks) \in 1 .. Len(marks)
  BY <1>1 DEF HeapInv, MarksInv
<1>3. /\ mark \in Mark /\ mark.kept \subseteq blocks
      /\ \A h \in DOMAIN mark.at, b \in mark.kept :
           b.segment = heaps[h].segment => mark.at[h] <= b.start
  BY <1>2 DEF MarksInv
<1>4. DOMAIN mark.at \subseteq HeapId /\ \A h \in DOMAIN mark.at : mark.at[h] \in Nat
  <2> HIDE DEF mark
  <2>1. mark.at \in UNION {[hs -> Nat] : hs \in SUBSET HeapId}
    BY <1>3 DEF Mark
  <2>2. PICK hs \in SUBSET HeapId : mark.at \in [hs -> Nat]
    BY <2>1
  <2> QED BY <2>2
<1>5. pm_map \in [DOMAIN pm_map -> Segment] /\ DOMAIN pm_map \subseteq Nat \ {0}
  BY DEF HeapInv, MapInv
<1>6. ASSUME NEW i \in DOMAIN pm_map
      PROVE  \/ Rewound(i) = pm_map[i].end
             \/ \E h \in DOMAIN mark.at : /\ heaps[h].segment = i
                                          /\ Rewound(i) = mark.at[h]
                                          /\ mark.at[h] <= heaps[h].end
  <2> DEFINE hs == {k \in DOMAIN mark.at : /\ heaps[k].segment = i
                                           /\ mark.at[k] > pm_map[i].end
                                           /\ mark.at[k] <= heaps[k].end}
             back == {mark.at[h] : h \in hs}
  <2>1. Rewound(i) = IF back = {} THEN pm_map[i].end ELSE CHOOSE e \in back : TRUE
    BY DEF Rewound
  <2>2. CASE back = {}
    BY <2>1, <2>2
  <2>3. CASE back # {}
    <3>1. Rewound(i) \in back
      <4> HIDE DEF back
      <4> QED BY <2>1, <2>3
    <3> QED BY <3>1
  <2> QED BY <2>2, <2>3
<1> HIDE DEF mark
<1>7. ASSUME NEW i \in DOMAIN pm_map
      PROVE  /\ Rewound(i) \in Nat
             /\ \A j \in DOMAIN pm_map : i < j => Rewound(i) <= pm_map[j].start
             /\ \A b \in mark.kept : b.segment = i => Rewound(i) <= b.start
  <2>1. pm_map[i] \in Segment /\ \A j \in DOMAIN pm_map : pm_map[j] \in Segment
    BY <1>5
  <2>2. CASE Rewound(i) = pm_map[i].end
    <3>1. pm_map[i].end \in Nat
      BY <2>1 DEF Segment
    <3>2. \A j \in DOMAIN pm_map : i < j => pm_map[i].end <= pm_map[j].start
      BY DEF HeapInv, MapInv, Ordered
    <3>3. \A b \in mark.kept : b.segment = i => pm_map[i].end <= b.start
      BY <1>3 DEF HeapInv, BlocksInv, BlockPlaced
    <3> QED BY <2>2, <3>1, <3>2, <3>3
  <2>3. ASSUME NEW h \in DOMAIN mark.at, heaps[h].segment = i, Rewound(i) = mark.at[h],
               mark.at[h] <= heaps[h].end
        PROVE  /\ Rewound(i) \in Nat
               /\ \A j \in DOMAIN pm_map : i < j => Rewound(i) <= pm_map[j].start
               /\ \A b \in mark.kept : b.segment = i => Rewound(i) <= b.start
    <3>1. h \in HeapId /\ mark.at[h] \in Nat
      BY <1>4
    <3>2. i # NoSegment
      BY <1>5 DEF NoSegment
    <3>3. /\ heaps[h].end \in Nat
          /\ \A j \in DOMAIN pm_map : i < j => heaps[h].end <= pm_map[j].start
      BY <2>3, <3>1, <3>2 DEF HeapInv, HeapsInv, HeapOf, Block
    <3>4. \A j \in DOMAIN pm_map : i < j => mark.at[h] <= pm_map[j].start
      BY <2>1, <2>3, <3>1, <3>3 DEF Segment
    <3> QED BY <1>3, <2>3, <3>1, <3>4
  <2> QED BY <1>6, <2>2, <2>3
<1>8. /\ DOMAIN pm_map' = DOMAIN pm_map
      /\ \A i \in DOMAIN pm_map : /\ pm_map'[i].start = pm_map[i].start
                                  /\ pm_map'[i].end = Rewound(i)
                                  /\ pm_map'[i] \in Segment
  BY <1>1, <1>5, <1>7 DEF Segment
<1>9. MapInv'
  <2>1. pm_map' \in [DOMAIN pm_map' -> Segment] /\ DOMAIN pm_map' \subseteq Nat \ {0}
    BY <1>1, <1>5, <1>8
  <2>2. \A i, j \in DOMAIN pm_map' : i < j => pm_map'[i].end <= pm_map'[j].start
    BY <1>7, <1>8
  <2> QED BY <2>1, <2>2 DEF MapInv, Ordered
<1>10. HeapsInv'
  <2>1. heaps' \in [HeapId -> Block]
    BY <1>1 DEF HeapInv, HeapsInv
  <2>2. ASSUME NEW g \in HeapId PROVE HeapOf(g)'
    <3>1. HeapOf(g)
      BY DEF HeapInv, HeapsInv
    <3> QED BY <1>1, <1>8, <3>1 DEF HeapOf
  <2> QED BY <2>1, <2>2 DEF HeapsInv
<1>11. BlocksInv'
  <2>1. ASSUME NEW b \in mark.kept PROVE BlockPlaced(b)'
    <3>1. BlockPlaced(b)
      BY <1>3 DEF HeapInv, BlocksInv
    <3>2. b.segment \in DOMAIN pm_map /\ Rewound(b.segment) <= b.start
      BY <1>7, <3>1 DEF BlockPlaced
    <3> QED BY <1>8, <3>1, <3>2 DEF BlockPlaced
  <2>2. \A b, c \in mark.kept :
          b # c /\ b.segment = c.segment => b.end <= c.start \/ c.end <= b.start
    BY <1>3 DEF HeapInv, BlocksInv
  <2>3. \A b \in blocks' : BlockPlaced(b)'
    BY <1>1, <2>1
  <2>4. \A b, c \in blocks' :
          b # c /\ b.segment = c.segment => b.end <= c.start \/ c.end <= b.start
    BY <1>1, <2>2
  <2> QED BY <2>3, <2>4 DEF BlocksInv
<1>12. MarksInv'
  BY <1>1, PopKeeps DEF mark
<1>13. ReadyInv'
  BY <1>1 DEF HeapInv, ReadyInv
<1> QED BY <1>9, <1>10, <1>11, <1>12, <1>13 DEF HeapInv

\* A caller that keeps its memory leaves the marks below its own.
LEMMA KeepKeeps == HeapInv /\ HeapKeep => HeapInv'
<1> SUFFICES ASSUME HeapInv, HeapKeep PROVE HeapInv'
  OBVIOUS
<1>1. UNCHANGED <<pm_map, heaps, heap_ready, blocks>> /\ marks # << >>
      /\ marks' = SubSeq(marks, 1, Len(marks) - 1)
  BY DEF HeapKeep
<1>2. MarksInv'
  BY <1>1, PopKeeps
<1>3. MapInv' /\ HeapsInv' /\ BlocksInv'
  BY <1>1 DEF HeapInv, MapInv, HeapsInv, HeapOf, BlocksInv, BlockPlaced
<1>4. ReadyInv'
  BY <1>1 DEF HeapInv, ReadyInv
<1> QED BY <1>2, <1>3, <1>4 DEF HeapInv

\* Every step of the heaps keeps the invariant.
LEMMA HeapStep == ASSUME ~Oversized, HeapInv, [HeapNext]_heapVars PROVE HeapInv'
<1>1. CASE HeapInit
  BY <1>1, HeapInitKeeps
<1>2. ASSUME NEW h \in HeapId, NEW n \in Requests, NEW a \in Alignments, HeapAlloc(h, n, a)
      PROVE  HeapInv'
  BY <1>2, AllocKeeps
<1>3. ASSUME NEW hs \in {{"LM"}, HeapId}, HeapMark(hs)
      PROVE  HeapInv'
  <2>1. hs \in SUBSET HeapId
    BY DEF HeapId
  <2> QED BY <1>3, <2>1, MarkKeeps
<1>4. CASE HeapRewind
  BY <1>4, RewindKeeps
<1>5. CASE HeapKeep
  BY <1>5, KeepKeeps
<1>6. CASE UNCHANGED heapVars
  BY <1>6 DEF heapVars, HeapInv, MapInv, HeapsInv, HeapOf, BlocksInv, BlockPlaced, MarksInv,
              ReadyInv
<1> QED BY <1>1, <1>2, <1>3, <1>4, <1>5, <1>6 DEF HeapNext, HeapUse

\* If no caller asks for more pages than lie below the end of the segment, no page is handed
\* out twice and no page that is handed out is tested, for every memory map, every size and
\* alignment of the requests and every nesting of marks and rewinds (heap_alloc, heap_rewind).
THEOREM HeapKeepsBlocksApart == ~Oversized => (HeapSpec => []BlocksApart)
<1> SUFFICES ASSUME ~Oversized PROVE HeapSpec => []BlocksApart
  OBVIOUS
<1>1. HeapSpecInit => HeapInv
  BY InitInv
<1>2. HeapInv /\ [HeapNext]_heapVars => HeapInv'
  BY HeapStep
<1>3. HeapInv => BlocksApart
  BY InvImpliesApart
<1> QED BY <1>1, <1>2, <1>3, PTL DEF HeapSpec

-----------------------------------------------------------------------------
(***************************************************************************)
(* Least and greatest elements                                             *)
(***************************************************************************)
\* A well-founded relation that contains < gives least elements.
LEMMA LeastInOrder ==
  ASSUME NEW R, IsWellFoundedOn(R, Nat), NEW T, T \subseteq Nat, T # {}
  PROVE  (\A x, y \in Nat : x < y => <<x, y>> \in R) => \E x \in T : \A y \in T : x <= y
<1>1. PICK x \in T : \A y \in T : ~ (<<y, x>> \in R)
  BY WFMin, Zenon
<1>2. ASSUME \A v, w \in Nat : v < w => <<v, w>> \in R PROVE \A y \in T : x <= y
  <2>1. \A y \in T : ~ (y < x)
    BY <1>1, <1>2
  <2>2. x \in Nat /\ \A y \in T : y \in Nat
    OBVIOUS
  <2> QED BY <2>1, <2>2
<1> QED BY <1>2

\* A nonempty set of natural numbers has a least element.
LEMMA LeastNatural ==
  ASSUME NEW T, T \subseteq Nat, T # {}
  PROVE  \E x \in T : \A y \in T : x <= y
<1>1. \A x, y \in Nat : x < y => <<x, y>> \in OpToRel(<, Nat)
  BY Zenon DEF OpToRel
<1> QED BY <1>1, LeastInOrder, NatLessThanWellFounded, Zenon

\* What holds at 0 and is kept by each step holds up to n.
LEMMA UpTo ==
  ASSUME NEW n \in Nat, NEW S, 0 \in S, \A k \in 1 .. n : k - 1 \in S => k \in S
  PROVE  \A k \in 0 .. n : k \in S
<1> DEFINE T == {k \in 0 .. n : k \notin S}
<1> SUFFICES ASSUME T # {} PROVE FALSE
  OBVIOUS
<1>1. T \subseteq Nat
  OBVIOUS
<1>2. PICK k \in T : \A y \in T : k <= y
  BY <1>1, LeastNatural
<1>3. k \in 1 .. n /\ k - 1 \in 0 .. n /\ k - 1 \notin T
  BY <1>2
<1> QED BY <1>3

\* A recursion over 0 .. n, whose steps f are functions of a set D, defines a function.
Steps(n, D) == [1 .. n -> [D -> D]]

Recurs(n, D, base, f) ==
  \E at \in [0 .. n -> D] : \A k \in 0 .. n : at[k] = IF k = 0 THEN base ELSE f[k][at[k - 1]]

LEMMA Recursion ==
  ASSUME NEW n \in Nat, NEW D, NEW base \in D, NEW f \in Steps(n, D)
  PROVE  Recurs(n, D, base, f)
<1>0. f \in [1 .. n -> [D -> D]]
  BY DEF Steps
<1> DEFINE Eq(m, at) == \A k \in 0 .. m : at[k] = IF k = 0 THEN base ELSE f[k][at[k - 1]]
           S == {m \in 0 .. n : \E at \in [0 .. m -> D] : Eq(m, at)}
<1> USE <1>0
<1>1. 0 \in S
  <2> DEFINE at == [k \in 0 .. 0 |-> base]
  <2>1. at \in [0 .. 0 -> D] /\ Eq(0, at) /\ 0 \in 0 .. n
    OBVIOUS
  <2> HIDE DEF at, Eq
  <2> QED BY <2>1
<1>2. ASSUME NEW m \in 1 .. n, m - 1 \in S PROVE m \in S
  <2>1. PICK at \in [0 .. (m - 1) -> D] : Eq(m - 1, at)
    BY <1>2
  <2> DEFINE new == [k \in 0 .. m |-> IF k = m THEN f[m][at[m - 1]] ELSE at[k]]
  <2>2. new \in [0 .. m -> D]
    BY <2>1
  <2>3. ASSUME NEW k \in 0 .. m PROVE new[k] = IF k = 0 THEN base ELSE f[k][new[k - 1]]
    <3>1. CASE k = m
      <4>1. new[k - 1] = at[m - 1]
        BY <3>1
      <4> QED BY <3>1, <4>1
    <3>2. CASE k # m
      <4>1. k \in 0 .. (m - 1) /\ new[k] = at[k]
        BY <3>2
      <4>2. k # 0 => new[k - 1] = at[k - 1]
        BY <3>2
      <4> QED BY <2>1, <4>1, <4>2
    <3> QED BY <3>1, <3>2
  <2>4. Eq(m, new) /\ m \in 0 .. n
    <3> HIDE DEF new
    <3> QED BY <2>3
  <2> HIDE DEF Eq, new
  <2> QED BY <2>2, <2>4
<1>3. n \in 0 .. n /\ n \in Nat
  OBVIOUS
<1>4. n \in S
  <2> HIDE DEF S
  <2> QED BY <1>1, <1>2, <1>3, UpTo
<1> QED BY <1>4 DEF Recurs

-----------------------------------------------------------------------------
(***************************************************************************)
(* Pages and virtual addresses                                             *)
(***************************************************************************)
\* Products of naturals keep the order.
LEMMA TimesMonotonic ==
  ASSUME NEW n \in Nat, NEW a \in Nat, NEW b \in Nat, a <= b
  PROVE  a * n <= b * n
<1>1. PICK d \in Nat : b = a + d
  <2> WITNESS b - a \in Nat
  <2> QED OBVIOUS
<1>2. b * n = a * n + d * n
  BY <1>1
<1>3. a * n \in Nat /\ d * n \in Nat
  OBVIOUS
<1> DEFINE x == a * n
           y == d * n
           z == b * n
<1>4. x \in Nat /\ y \in Nat /\ z = x + y
  BY <1>2, <1>3
<1> HIDE DEF x, y, z
<1>5. x <= z
  BY <1>4
<1> QED BY <1>5 DEF x, z

\* Page p is in the part a of the address space, as large as a window.
InPart(p, a) == a * WindowSize <= p /\ p < a * WindowSize + WindowSize

\* The part a page is in, and its place there.
LEMMA PartOf ==
  ASSUME NEW p \in Nat, NEW a \in Nat, InPart(p, a)
  PROVE  p \div WindowSize = a /\ p % WindowSize = p - a * WindowSize
<1> DEFINE w == WindowSize
           q == p \div w
           r == p % w
<1>1. w \in Nat \ {0}
  BY WindowAssumption
<1>2. q \in Nat /\ r \in 0 .. (w - 1) /\ p = q * w + r
  BY <1>1
<1>3. a * w <= p /\ p < a * w + w
  BY DEF InPart
<1> HIDE DEF w, q, r
<1>4. a * w \in Nat /\ q * w \in Nat
  BY <1>1, <1>2
<1>5. ~ (q < a)
  <2> SUFFICES ASSUME q + 1 <= a PROVE FALSE
    BY <1>2
  <2>1. (q + 1) * w <= a * w
    BY <1>1, <1>2, TimesMonotonic
  <2>2. (q + 1) * w = q * w + w
    BY <1>1, <1>2
  <2> QED BY <1>1, <1>2, <1>3, <1>4, <2>1, <2>2
<1>6. ~ (a < q)
  <2> SUFFICES ASSUME a + 1 <= q PROVE FALSE
    BY <1>2
  <2>1. (a + 1) * w <= q * w
    BY <1>1, <1>2, TimesMonotonic
  <2>2. (a + 1) * w = a * w + w
    BY <1>1
  <2> QED BY <1>1, <1>2, <1>3, <1>4, <2>1, <2>2
<1>7. q = a
  BY <1>2, <1>5, <1>6
<1>8. r = p - a * w
  BY <1>1, <1>2, <1>4, <1>7
<1> QED BY <1>7, <1>8 DEF q, r, w

\* Every page is in a part.
LEMMA PartExists ==
  ASSUME NEW p \in Nat
  PROVE  p \div WindowSize \in Nat /\ InPart(p, p \div WindowSize)
<1> DEFINE w == WindowSize
           q == p \div w
           r == p % w
<1>1. w \in Nat \ {0}
  BY WindowAssumption
<1>2. q \in Nat /\ r \in 0 .. (w - 1) /\ p = q * w + r
  BY <1>1
<1> HIDE DEF w, q, r
<1>3. q * w \in Nat
  BY <1>1, <1>2
<1>4. q * w <= p /\ p < q * w + w
  BY <1>1, <1>2, <1>3
<1> QED BY <1>2, <1>4 DEF InPart, q, w

\* The pages that are not mapped by windows are whole parts.
LEMMA PinnedParts ==
  /\ PinnedSize \div WindowSize \in Nat \ {0}
  /\ PinnedSize = (PinnedSize \div WindowSize) * WindowSize
<1> DEFINE c == PinnedSize \div WindowSize
<1>1. WindowSize \in Nat \ {0} /\ PinnedSize \in Nat /\ PinnedSize >= WindowSize
      /\ PinnedSize % WindowSize = 0
  BY WindowAssumption
<1>2. c \in Nat /\ PinnedSize = c * WindowSize
  BY <1>1
<1>3. c # 0
  BY <1>1, <1>2
<1> QED BY <1>2, <1>3

\* All pages of a part are below the limit, or none.
LEMMA PinnedOrNot ==
  ASSUME NEW p \in Nat, NEW a \in Nat, InPart(p, a)
  PROVE  /\ p < PinnedSize <=> a < PinnedSize \div WindowSize
         /\ a < PinnedSize \div WindowSize <=> a * WindowSize < PinnedSize
<1> DEFINE w == WindowSize
           c == PinnedSize \div w
<1>1. w \in Nat \ {0} /\ c \in Nat /\ PinnedSize = c * w
  BY WindowAssumption, PinnedParts
<1>2. a * w <= p /\ p < a * w + w /\ a * w \in Nat /\ c * w \in Nat
  BY <1>1 DEF InPart
<1> HIDE DEF w, c
<1>3. CASE a < c
  <2>1. (a + 1) * w <= c * w
    BY <1>1, <1>3, TimesMonotonic
  <2>2. (a + 1) * w = a * w + w
    BY <1>1
  <2>3. p < c * w /\ a * w < c * w
    BY <1>1, <1>2, <2>1, <2>2
  <2> QED BY <1>1, <1>3, <2>3 DEF w, c
<1>4. CASE c <= a
  <2>1. c * w <= a * w
    BY <1>1, <1>4, TimesMonotonic
  <2>2. ~ (p < c * w) /\ ~ (a * w < c * w)
    BY <1>1, <1>2, <2>1
  <2> QED BY <1>1, <1>4, <2>2 DEF w, c
<1> QED BY <1>1, <1>3, <1>4

\* In a part the virtual addresses are in the order of the pages.
LEMMA Mapping ==
  ASSUME NEW a \in Nat, NEW s \in Nat, NEW p \in Nat, InPart(s, a), InPart(p, a)
  PROVE  /\ FirstWordMapping(s) \in Nat /\ FirstWordMapping(p) \in Nat
         /\ FirstWordMapping(p) = FirstWordMapping(s) + p - s
<1>1. s % WindowSize = s - a * WindowSize /\ p % WindowSize = p - a * WindowSize
  BY PartOf
<1>2. s < PinnedSize <=> p < PinnedSize
  BY PinnedOrNot
<1>3. a * WindowSize \in Nat /\ PinnedSize \in Nat /\ a * WindowSize <= s /\ a * WindowSize <= p
  BY WindowAssumption DEF InPart
<1> DEFINE x == a * WindowSize
           u == s % WindowSize
           v == p % WindowSize
<1>4. x \in Nat /\ x <= s /\ x <= p /\ u = s - x /\ v = p - x
  BY <1>1, <1>3
<1>5. FirstWordMapping(s) = (IF s < PinnedSize THEN s ELSE PinnedSize + u)
      /\ FirstWordMapping(p) = (IF p < PinnedSize THEN p ELSE PinnedSize + v)
  BY DEF FirstWordMapping
<1> HIDE DEF x, u, v
<1> QED BY <1>2, <1>3, <1>4, <1>5

\* page_of takes a virtual address back to its page.
LEMMA PageOfMapping ==
  ASSUME NEW a \in Nat, NEW p \in Nat, InPart(p, a),
         a * WindowSize >= PinnedSize => mapped_window = a
  PROVE  PageOf(FirstWordMapping(p)) = p
<1>1. p % WindowSize = p - a * WindowSize /\ PinnedSize \in Nat /\ WindowSize \in Nat \ {0}
  BY PartOf, WindowAssumption
<1>2. CASE p < PinnedSize
  BY <1>1, <1>2 DEF PageOf, FirstWordMapping
<1>3. CASE ~ (p < PinnedSize)
  <2>1. mapped_window = a
    BY <1>1, <1>3, PinnedOrNot
  <2> DEFINE r == p % WindowSize
             c == PinnedSize \div WindowSize
             v == PinnedSize + r
  <2>2. r \in 0 .. (WindowSize - 1) /\ c \in Nat /\ PinnedSize = c * WindowSize
    BY <1>1, PinnedParts
  <2>3. v \in Nat /\ FirstWordMapping(p) = v /\ v >= PinnedSize
    BY <1>1, <1>3, <2>2 DEF FirstWordMapping
  <2>4. InPart(v, c)
    <3> HIDE DEF r, c
    <3> QED BY <1>1, <2>2 DEF InPart
  <2>5. v % WindowSize = v - c * WindowSize
    <3> HIDE DEF v, c
    <3> QED BY <2>2, <2>3, <2>4, PartOf
  <2>6. v % WindowSize = r
    <3> HIDE DEF r, c
    <3> QED BY <1>1, <2>2, <2>5
  <2>7. PageOf(v) = (v % WindowSize) + mapped_window * WindowSize
    <3> HIDE DEF v
    <3> QED BY <2>3 DEF PageOf
  <2>8. PageOf(v) = r + a * WindowSize
    <3> HIDE DEF v, r
    <3> QED BY <2>1, <2>6, <2>7
  <2>9. r + a * WindowSize = p
    <3>1. a * WindowSize \in Nat
      BY <1>1
    <3> QED BY <1>1, <3>1
  <2> QED BY <2>3, <2>8, <2>9
<1> QED BY <1>2, <1>3

-----------------------------------------------------------------------------
(***************************************************************************)
(* The memory that may be tested: the segments, up to the ends to which a  *)
(* rewind can raise them again                                             *)
(***************************************************************************)
Marked(i, e) ==
  \E k \in 1 .. Len(marks) : \E h \in DOMAIN marks[k].at :
    heaps[h].segment = i /\ marks[k].at[h] = e

Reaches(i, e) == e = pm_map[i].end \/ Marked(i, e)

Memory ==
  {p \in Nat : \E i \in DOMAIN pm_map : \E e \in Nat :
                 Reaches(i, e) /\ pm_map[i].start <= p /\ p < e}

\* The segments stay in order, wherever they end.
Ascends ==
  \A i, j \in DOMAIN pm_map : \A e \in Nat :
    i < j /\ Reaches(i, e) => e <= pm_map[j].start /\ e <= pm_map[j].end

MemoryInv == HeapInv /\ pm_map \in Seq(Segment) /\ Ascends

\* What a step of the heaps does to the segments: they begin where they did, reach no further, and
\* end above their start if they end lower than before.
KeepsMemory ==
  /\ pm_map' \in Seq(Segment) /\ DOMAIN pm_map' = DOMAIN pm_map
  /\ \A i \in DOMAIN pm_map :
       /\ pm_map'[i].start = pm_map[i].start
       /\ pm_map'[i].end >= pm_map[i].end \/ pm_map'[i].end >= pm_map[i].start
       /\ \A e \in Nat : Reaches(i, e)' => \E f \in Nat : Reaches(i, f) /\ e <= f

\* The types that are needed for this.
LEMMA MemoryTypes ==
  ASSUME MemoryInv
  PROVE  /\ Len(pm_map) \in Nat /\ DOMAIN pm_map = 1 .. Len(pm_map)
         /\ \A i \in DOMAIN pm_map : pm_map[i].start \in Nat /\ pm_map[i].end \in Nat
         /\ marks \in Seq(Mark) /\ Len(marks) \in Nat
         /\ \A k \in 1 .. Len(marks) : \A h \in DOMAIN marks[k].at :
              h \in HeapId /\ marks[k].at[h] \in Nat
<1>1. pm_map \in Seq(Segment) /\ marks \in Seq(Mark)
  BY DEF MemoryInv, HeapInv, MarksInv
<1>2. Len(pm_map) \in Nat /\ DOMAIN pm_map = 1 .. Len(pm_map) /\ Len(marks) \in Nat
  BY <1>1
<1>3. \A i \in DOMAIN pm_map : pm_map[i].start \in Nat /\ pm_map[i].end \in Nat
  <2>1. \A i \in DOMAIN pm_map : pm_map[i] \in Segment
    BY <1>1
  <2> QED BY <2>1 DEF Segment
<1>4. ASSUME NEW k \in 1 .. Len(marks), NEW h \in DOMAIN marks[k].at
      PROVE  h \in HeapId /\ marks[k].at[h] \in Nat
  <2>1. marks[k] \in Mark
    BY <1>1
  <2>2. marks[k].at \in UNION {[hs -> Nat] : hs \in SUBSET HeapId}
    BY <2>1 DEF Mark
  <2>3. PICK hs \in SUBSET HeapId : marks[k].at \in [hs -> Nat]
    BY <2>2
  <2> QED BY <2>3
<1> QED BY <1>1, <1>2, <1>3, <1>4

\* A segment with another end.
LEMMA EndMoved ==
  ASSUME NEW s \in Segment, NEW e \in Nat
  PROVE  /\ [s EXCEPT !.end = e] \in Segment
         /\ [s EXCEPT !.end = e].start = s.start /\ [s EXCEPT !.end = e].end = e
  BY DEF Segment

\* heap_init takes nothing.
LEMMA InitMemory == ASSUME MemoryInv, HeapInit PROVE KeepsMemory
<1>1. UNCHANGED <<pm_map, marks>> /\ marks = << >>
  BY DEF HeapInit, MemoryInv, HeapInv, ReadyInv
<1>2. \A i, e : ~ Marked(i, e) /\ ~ Marked(i, e)'
  BY <1>1 DEF Marked
<1> QED BY <1>1, <1>2, MemoryTypes DEF KeepsMemory, Reaches, MemoryInv

\* An allocation lowers the end of a segment, not below the start of the heap.
LEMMA AllocMemory ==
  ASSUME MemoryInv, ~Oversized, NEW h \in HeapId, NEW n \in Requests, NEW a \in Alignments,
         HeapAlloc(h, n, a)
  PROVE  KeepsMemory
<1> DEFINE seg == heaps[h].segment
           addr == Placed(pm_map[seg].end, n, a)
<1>1. /\ seg # NoSegment /\ addr >= heaps[h].start /\ n <= pm_map[seg].end
      /\ pm_map' = [pm_map EXCEPT ![seg].end = addr]
      /\ UNCHANGED <<heaps, marks>>
  BY DEF HeapAlloc
<1>2. seg \in DOMAIN pm_map /\ heaps[h].start >= pm_map[seg].start /\ heaps[h].start \in Nat
  BY <1>1 DEF MemoryInv, HeapInv, HeapsInv, HeapOf, Block
<1>3. addr \in Nat /\ addr < pm_map[seg].end /\ pm_map[seg].end \in Nat /\ pm_map[seg].start \in Nat
  BY <1>1, <1>2, MemoryTypes, PlacedBelow, HeapAssumption
<1> HIDE DEF seg, addr
<1>4. pm_map' \in Seq(Segment) /\ DOMAIN pm_map' = DOMAIN pm_map
  <2>2. pm_map \in Seq(Segment)
    BY DEF MemoryInv
  <2>1. [pm_map[seg] EXCEPT !.end = addr] \in Segment
    BY <1>2, <1>3, <2>2, EndMoved
  <2> QED BY <1>1, <1>2, <2>1, <2>2
<1>5. \A i \in DOMAIN pm_map : /\ pm_map'[i].start = pm_map[i].start
                               /\ pm_map'[i].end = IF i = seg THEN addr ELSE pm_map[i].end
  BY <1>1, <1>2
<1>6. \A i, e : Marked(i, e)' <=> Marked(i, e)
  BY <1>1 DEF Marked
<1>7. ASSUME NEW i \in DOMAIN pm_map
      PROVE  /\ pm_map'[i].end >= pm_map[i].end \/ pm_map'[i].end >= pm_map[i].start
             /\ \A e \in Nat : Reaches(i, e)' => \E f \in Nat : Reaches(i, f) /\ e <= f
  <2>1. pm_map'[i].end <= pm_map[i].end /\ pm_map[i].end \in Nat /\ pm_map'[i].end \in Nat
    BY <1>3, <1>5, MemoryTypes
  <2>2. ASSUME NEW e \in Nat, Reaches(i, e)' PROVE \E f \in Nat : Reaches(i, f) /\ e <= f
    <3>1. CASE e = pm_map'[i].end
      BY <2>1, <3>1 DEF Reaches
    <3>2. CASE Marked(i, e)'
      BY <1>6, <3>2 DEF Reaches
    <3> QED BY <2>2, <3>1, <3>2 DEF Reaches
  <2>3. pm_map'[i].end >= pm_map[i].end \/ pm_map'[i].end >= pm_map[i].start
    BY <1>2, <1>3, <1>1, <1>5, MemoryTypes
  <2> QED BY <2>2, <2>3
<1> QED BY <1>4, <1>5, <1>7 DEF KeepsMemory

\* A mark remembers where the segments end.
LEMMA MarkMemory == ASSUME MemoryInv, NEW hs \in SUBSET HeapId, HeapMark(hs) PROVE KeepsMemory
<1> DEFINE m == [at |-> [h \in hs |-> pm_map[heaps[h].segment].end], kept |-> blocks]
<1>1. marks' = Append(marks, m) /\ UNCHANGED <<pm_map, heaps>>
  BY DEF HeapMark
<1>2. /\ Len(marks') = Len(marks) + 1 /\ Len(marks) \in Nat
      /\ \A k \in 1 .. Len(marks) : marks'[k] = marks[k]
      /\ marks'[Len(marks) + 1] = m
  BY <1>1, MemoryTypes
<1>3. ASSUME NEW i, NEW e, Marked(i, e)' PROVE Reaches(i, e)
  <2>1. PICK k \in 1 .. Len(marks') : \E h \in DOMAIN marks'[k].at :
          heaps[h].segment = i /\ marks'[k].at[h] = e
    BY <1>1, <1>3 DEF Marked
  <2>2. CASE k = Len(marks) + 1
    <3>1. marks'[k].at = [h \in hs |-> pm_map[heaps[h].segment].end]
      BY <1>2, <2>2
    <3> QED BY <2>1, <3>1 DEF Reaches
  <2>3. CASE k # Len(marks) + 1
    <3>1. k \in 1 .. Len(marks) /\ marks'[k] = marks[k]
      BY <1>2, <2>3
    <3> QED BY <2>1, <3>1 DEF Marked, Reaches
  <2> QED BY <2>2, <2>3
<1>4. \A i \in DOMAIN pm_map : \A e \in Nat : Reaches(i, e)' => Reaches(i, e) /\ e <= e
  <2> SUFFICES ASSUME NEW i \in DOMAIN pm_map, NEW e \in Nat, Reaches(i, e)' PROVE Reaches(i, e)
    OBVIOUS
  <2>1. e = pm_map'[i].end \/ Marked(i, e)'
    BY DEF Reaches
  <2> QED BY <1>1, <1>3, <2>1 DEF Reaches
<1> QED BY <1>1, <1>4, MemoryTypes DEF KeepsMemory, MemoryInv

\* A rewind raises the end to a mark.
LEMMA PopMemory ==
  ASSUME MemoryInv, HeapRewind \/ HeapKeep
  PROVE  KeepsMemory
<1>1. marks # << >> /\ marks' = SubSeq(marks, 1, Len(marks) - 1) /\ heaps' = heaps
  BY DEF HeapRewind, HeapKeep
<1>2. /\ Len(marks) \in 1 .. Len(marks)
      /\ \A k \in 1 .. Len(marks') : k \in 1 .. Len(marks) /\ marks'[k] = marks[k]
  <2>1. Len(marks) \in Nat \ {0} /\ marks \in Seq(Mark)
    BY <1>1, MemoryTypes
  <2> DEFINE last == Len(marks) - 1
  <2>2. last \in Nat /\ \A i \in 1 .. last : marks[i] \in Mark
    BY <2>1
  <2>3. /\ Len(SubSeq(marks, 1, last)) = last
        /\ \A i \in 1 .. last : SubSeq(marks, 1, last)[i] = marks[i]
    <3> HIDE DEF last
    <3>1. \A i \in 1 .. last : marks[1 + i - 1] = marks[i]
      BY <2>2
    <3> QED BY <2>2, <3>1, SubSeqProperties
  <2> QED BY <1>1, <2>1, <2>2, <2>3
<1>3. \A i, e : Marked(i, e)' => Marked(i, e)
  BY <1>1, <1>2 DEF Marked
<1>4. \A i \in DOMAIN pm_map : \/ Rewound(i) = pm_map[i].end
                               \/ Marked(i, Rewound(i)) /\ Rewound(i) > pm_map[i].end
  <2> SUFFICES ASSUME NEW i \in DOMAIN pm_map
               PROVE  \/ Rewound(i) = pm_map[i].end
                      \/ Marked(i, Rewound(i)) /\ Rewound(i) > pm_map[i].end
    OBVIOUS
  <2> DEFINE mark == marks[Len(marks)]
             back == {mark.at[h] : h \in {k \in DOMAIN mark.at :
                        /\ heaps[k].segment = i
                        /\ mark.at[k] > pm_map[i].end
                        /\ mark.at[k] <= heaps[k].end}}
  <2>1. CASE back = {}
    BY <2>1 DEF Rewound
  <2>2. CASE back # {}
    <3>1. Rewound(i) = CHOOSE e \in back : TRUE
      BY <2>2 DEF Rewound
    <3>2. Rewound(i) \in back
      <4> HIDE DEF back
      <4> QED BY <2>2, <3>1
    <3> QED BY <1>2, <3>2 DEF Marked
  <2> QED BY <2>1, <2>2
<1>5. /\ pm_map' \in Seq(Segment) /\ DOMAIN pm_map' = DOMAIN pm_map
      /\ \A i \in DOMAIN pm_map :
           /\ pm_map'[i].start = pm_map[i].start
           /\ \/ pm_map'[i].end = pm_map[i].end
              \/ Marked(i, pm_map'[i].end) /\ pm_map'[i].end > pm_map[i].end
  <2>1. CASE HeapKeep
    BY <2>1 DEF HeapKeep, MemoryInv
  <2>2. CASE HeapRewind
    <3>1. pm_map' = [i \in DOMAIN pm_map |-> [pm_map[i] EXCEPT !.end = Rewound(i)]]
      BY <2>2 DEF HeapRewind
    <3>2. \A i \in DOMAIN pm_map : Rewound(i) \in Nat
      BY <1>4, MemoryTypes DEF Marked
    <3>3. \A i \in DOMAIN pm_map :
            /\ [pm_map[i] EXCEPT !.end = Rewound(i)] \in Segment
            /\ pm_map'[i].start = pm_map[i].start /\ pm_map'[i].end = Rewound(i)
      <4>1. \A i \in DOMAIN pm_map : pm_map[i] \in Segment
        BY DEF MemoryInv
      <4> QED BY <3>1, <3>2, <4>1, EndMoved
    <3>4. pm_map' \in Seq(Segment) /\ DOMAIN pm_map' = DOMAIN pm_map
      <4> DEFINE f(i) == [pm_map[i] EXCEPT !.end = Rewound(i)]
      <4>1. pm_map' = [i \in 1 .. Len(pm_map) |-> f(i)] /\ \A i \in 1 .. Len(pm_map) : f(i) \in Segment
        BY <3>1, <3>3, MemoryTypes
      <4> HIDE DEF f
      <4> QED BY <4>1, MemoryTypes
    <3> QED BY <1>4, <3>3, <3>4
  <2> QED BY <2>1, <2>2
<1>6. ASSUME NEW i \in DOMAIN pm_map
      PROVE  /\ pm_map'[i].end >= pm_map[i].end \/ pm_map'[i].end >= pm_map[i].start
             /\ \A e \in Nat : Reaches(i, e)' => \E f \in Nat : Reaches(i, f) /\ e <= f
  <2>1. pm_map'[i].end \in Nat /\ pm_map[i].end \in Nat
    <3>1. pm_map'[i] \in Segment
      BY <1>5
    <3> QED BY <3>1, MemoryTypes DEF Segment
  <2>2. pm_map'[i].end >= pm_map[i].end
    BY <1>5, <2>1
  <2>3. ASSUME NEW e \in Nat, Reaches(i, e)' PROVE Reaches(i, e) /\ e <= e
    BY <1>3, <1>5, <2>3 DEF Reaches
  <2> QED BY <2>2, <2>3
<1> QED BY <1>5, <1>6 DEF KeepsMemory

\* Every step of the heaps.
LEMMA HeapNextMemory ==
  ASSUME MemoryInv, ~Oversized, HeapNext
  PROVE  KeepsMemory /\ MemoryInv' /\ Memory' \subseteq Memory
<1>1. KeepsMemory
  <2>1. CASE HeapInit
    BY <2>1, InitMemory
  <2>2. ASSUME NEW h \in HeapId, NEW n \in Requests, NEW a \in Alignments, HeapAlloc(h, n, a)
        PROVE  KeepsMemory
    BY <2>2, AllocMemory
  <2>3. ASSUME NEW hs \in {{"LM"}, HeapId}, HeapMark(hs) PROVE KeepsMemory
    <3>1. hs \in SUBSET HeapId
      BY DEF HeapId
    <3> QED BY <2>3, <3>1, MarkMemory
  <2>4. CASE HeapRewind \/ HeapKeep
    BY <2>4, PopMemory
  <2> QED BY <2>1, <2>2, <2>3, <2>4 DEF HeapNext, HeapUse
<1>2. HeapInv'
  BY HeapStep DEF MemoryInv
<1>3. Ascends'
  <2> SUFFICES ASSUME NEW i \in DOMAIN pm_map, NEW j \in DOMAIN pm_map, NEW e \in Nat,
                      i < j, Reaches(i, e)'
               PROVE  e <= pm_map'[j].start /\ e <= pm_map'[j].end
    BY <1>1 DEF Ascends, KeepsMemory
  <2>1. PICK f \in Nat : Reaches(i, f) /\ e <= f
    BY <1>1 DEF KeepsMemory
  <2>2. f <= pm_map[j].start /\ f <= pm_map[j].end
    BY <2>1 DEF Ascends, MemoryInv
  <2>3. /\ pm_map'[j].start = pm_map[j].start
        /\ pm_map'[j].end >= pm_map[j].end \/ pm_map'[j].end >= pm_map[j].start
        /\ pm_map'[j].end \in Nat
    <3>1. pm_map'[j] \in Segment
      BY <1>1 DEF KeepsMemory
    <3> QED BY <1>1, <3>1 DEF KeepsMemory, Segment
  <2>4. pm_map[j].start \in Nat /\ pm_map[j].end \in Nat
    BY MemoryTypes
  <2> QED BY <2>1, <2>2, <2>3, <2>4
<1>4. Memory' \subseteq Memory
  <2> SUFFICES ASSUME NEW p \in Nat, NEW i \in DOMAIN pm_map, NEW e \in Nat,
                      Reaches(i, e)', pm_map'[i].start <= p, p < e
               PROVE  p \in Memory
    BY <1>1 DEF Memory, KeepsMemory
  <2>1. PICK f \in Nat : Reaches(i, f) /\ e <= f
    BY <1>1 DEF KeepsMemory
  <2>2. pm_map[i].start <= p /\ p < f
    BY <1>1, <2>1 DEF KeepsMemory
  <2> QED BY <2>1, <2>2 DEF Memory
<1> QED BY <1>1, <1>2, <1>3, <1>4 DEF MemoryInv, KeepsMemory

-----------------------------------------------------------------------------
(***************************************************************************)
(* Entries of vm_map                                                       *)
(***************************************************************************)
EntryType == [base : Nat, start : Nat, end : Nat, domain : Nat]

Sound(e) == e \in EntryType /\ e.start <= e.end /\ e.start = FirstWordMapping(e.base)

PagesOf(map) == UNION {Physical(map[i]) : i \in DOMAIN map}

Apart(map) == \A i, j \in DOMAIN map : i # j => Physical(map[i]) \cap Physical(map[j]) = {}

SoundMaps == {m \in Seq(EntryType) : \A i \in DOMAIN m : Sound(m[i])}

\* A sound map extended by another one.
LEMMA Joined ==
  ASSUME NEW m \in SoundMaps, NEW n \in SoundMaps
  PROVE  /\ m \o n \in SoundMaps
         /\ PagesOf(m \o n) = PagesOf(m) \cup PagesOf(n)
         /\ Apart(m) /\ Apart(n) /\ PagesOf(m) \cap PagesOf(n) = {} => Apart(m \o n)
         /\ m # << >> => m \o n # << >> /\ (m \o n)[1] = m[1]
<1> DEFINE x == Len(m)
           y == Len(n)
<1>1. m \in Seq(EntryType) /\ n \in Seq(EntryType)
  BY DEF SoundMaps
<1>2. /\ x \in Nat /\ y \in Nat /\ DOMAIN m = 1 .. x /\ DOMAIN n = 1 .. y
      /\ m \o n \in Seq(EntryType) /\ DOMAIN (m \o n) = 1 .. (x + y)
      /\ \A i \in 1 .. x : (m \o n)[i] = m[i]
      /\ \A i \in 1 .. y : (m \o n)[x + i] = n[i]
  BY <1>1
<1>3. \A i \in 1 .. (x + y) : i \in 1 .. x \/ \E j \in 1 .. y : i = x + j
  <2> SUFFICES ASSUME NEW i \in 1 .. (x + y), i \notin 1 .. x PROVE i - x \in 1 .. y /\ i = x + (i - x)
    OBVIOUS
  <2> HIDE DEF x, y
  <2> QED BY <1>2
<1>4. \A j \in 1 .. y : x + j \in 1 .. (x + y)
  BY <1>2
<1>5. \A i \in 1 .. x : i \in 1 .. (x + y)
  BY <1>2
<1> HIDE DEF x, y
<1> DEFINE c == m \o n
<1>6. /\ c \in Seq(EntryType) /\ DOMAIN c = 1 .. (x + y)
      /\ \A i \in 1 .. x : c[i] = m[i]
      /\ \A i \in 1 .. y : c[x + i] = n[i]
  BY <1>2
<1> HIDE DEF c
<1>7. c \in SoundMaps
  <2>1. \A i \in DOMAIN m : Sound(m[i])
    BY DEF SoundMaps
  <2>2. \A i \in DOMAIN n : Sound(n[i])
    BY DEF SoundMaps
  <2>3. ASSUME NEW i \in DOMAIN c PROVE Sound(c[i])
    <3>1. CASE i \in 1 .. x
      BY <1>2, <1>6, <2>1, <3>1
    <3>2. CASE \E j \in 1 .. y : i = x + j
      BY <1>2, <1>6, <2>2, <3>2
    <3> QED BY <1>3, <1>6, <3>1, <3>2
  <2> QED BY <1>6, <2>3 DEF SoundMaps
<1>8. PagesOf(c) = PagesOf(m) \cup PagesOf(n)
  <2>1. ASSUME NEW p \in PagesOf(c) PROVE p \in PagesOf(m) \cup PagesOf(n)
    <3>1. PICK i \in 1 .. (x + y) : p \in Physical(c[i])
      BY <1>6 DEF PagesOf
    <3>2. CASE i \in 1 .. x
      BY <1>2, <1>6, <3>1, <3>2 DEF PagesOf
    <3>3. CASE \E j \in 1 .. y : i = x + j
      BY <1>2, <1>6, <3>1, <3>3 DEF PagesOf
    <3> QED BY <1>3, <3>2, <3>3
  <2>2. ASSUME NEW p \in PagesOf(m) PROVE p \in PagesOf(c)
    BY <1>2, <1>5, <1>6 DEF PagesOf
  <2>3. ASSUME NEW p \in PagesOf(n) PROVE p \in PagesOf(c)
    <3>1. PICK j \in 1 .. y : p \in Physical(n[j])
      BY <1>2 DEF PagesOf
    <3>2. x + j \in DOMAIN c /\ p \in Physical(c[x + j])
      BY <1>4, <1>6, <3>1
    <3> QED BY <3>2 DEF PagesOf
  <2> QED BY <2>1, <2>2, <2>3
<1>9. ASSUME Apart(m), Apart(n), PagesOf(m) \cap PagesOf(n) = {} PROVE Apart(c)
  <2> SUFFICES ASSUME NEW i \in 1 .. (x + y), NEW j \in 1 .. (x + y), i # j
               PROVE  Physical(c[i]) \cap Physical(c[j]) = {}
    BY <1>6 DEF Apart
  <2>1. \A k \in 1 .. x : c[k] = m[k] /\ Physical(m[k]) \subseteq PagesOf(m)
    BY <1>2, <1>6 DEF PagesOf
  <2>2. \A k \in 1 .. y : c[x + k] = n[k] /\ Physical(n[k]) \subseteq PagesOf(n)
    BY <1>2, <1>6 DEF PagesOf
  <2>3. CASE i \in 1 .. x /\ j \in 1 .. x
    BY <1>2, <1>9, <2>1, <2>3 DEF Apart
  <2>4. CASE i \in 1 .. x /\ j \notin 1 .. x
    <3>1. PICK k \in 1 .. y : j = x + k
      BY <1>3, <2>4
    <3> QED BY <1>9, <2>1, <2>2, <2>4, <3>1
  <2>5. CASE i \notin 1 .. x /\ j \in 1 .. x
    <3>1. PICK k \in 1 .. y : i = x + k
      BY <1>3, <2>5
    <3> QED BY <1>9, <2>1, <2>2, <2>5, <3>1
  <2>6. CASE i \notin 1 .. x /\ j \notin 1 .. x
    <3>1. PICK k \in 1 .. y : i = x + k
      BY <1>3, <2>6
    <3>2. PICK l \in 1 .. y : j = x + l
      BY <1>3, <2>6
    <3>3. k # l
      BY <3>1, <3>2
    <3> QED BY <1>2, <1>9, <2>2, <3>1, <3>2, <3>3 DEF Apart
  <2> QED BY <2>3, <2>4, <2>5, <2>6
<1>10. ASSUME m # << >> PROVE c # << >> /\ c[1] = m[1]
  <2>1. 1 \in 1 .. x
    BY <1>1, <1>2, <1>10 DEF x
  <2>2. 1 \in DOMAIN c
    BY <1>2, <1>6, <2>1
  <2>3. DOMAIN << >> = {}
    OBVIOUS
  <2>4. c # << >>
    BY <2>2, <2>3
  <2> QED BY <1>6, <2>1, <2>4
<1> QED BY <1>7, <1>8, <1>9, <1>10 DEF c

\* A map of one entry, and of none.
LEMMA OneEntry ==
  ASSUME NEW e, Sound(e)
  PROVE  /\ <<e>> \in SoundMaps /\ PagesOf(<<e>>) = Physical(e) /\ Apart(<<e>>)
         /\ <<e>>[1] = e /\ <<e>> # << >>
         /\ \A m \in SoundMaps : Append(m, e) = m \o <<e>>
<1>1. e \in EntryType
  BY DEF Sound
<1>2. <<e>> \in Seq(EntryType) /\ DOMAIN <<e>> = {1} /\ <<e>>[1] = e /\ <<e>> # << >>
  BY <1>1
<1>3. \A m \in SoundMaps : Append(m, e) = m \o <<e>>
  <2> SUFFICES ASSUME NEW m \in SoundMaps PROVE Append(m, e) = m \o <<e>>
    OBVIOUS
  <2>1. m \in Seq(EntryType)
    BY DEF SoundMaps
  <2> QED BY <1>1, <2>1
<1> QED BY <1>2, <1>3 DEF SoundMaps, PagesOf, Apart

LEMMA NoEntries == << >> \in SoundMaps /\ PagesOf(<< >>) = {} /\ Apart(<< >>)
  BY DEF SoundMaps, PagesOf, Apart

\* The pages s .. end - 1 lie in one part.
Within(s, end, a) == s \in Nat /\ end \in Nat /\ s < end /\ InPart(s, a) /\ InPart(end - 1, a)

LEMMA WithinAll ==
  ASSUME NEW s, NEW end, NEW a \in Nat, Within(s, end, a), NEW p \in s .. (end - 1)
  PROVE  p \in Nat /\ InPart(p, a)
<1>1. s \in Nat /\ end \in Nat /\ s < end /\ a * WindowSize \in Nat /\ WindowSize \in Nat
  BY WindowAssumption DEF Within
<1> DEFINE x == a * WindowSize
<1>2. x <= s /\ end - 1 < x + WindowSize /\ x \in Nat
  BY <1>1 DEF Within, InPart
<1> HIDE DEF x
<1>3. p \in Nat /\ x <= p /\ p < x + WindowSize
  BY <1>1, <1>2
<1> QED BY <1>3 DEF InPart, x

\* An entry for a run of pages stands for these.
LEMMA EntryRight ==
  ASSUME NEW s, NEW end, NEW a \in Nat, Within(s, end, a), NEW d \in Nat
  PROVE  /\ Sound(Entry(s, end, d))
         /\ Physical(Entry(s, end, d)) = s .. (end - 1)
         /\ Entry(s, end, d).base = s
<1> DEFINE x == FirstWordMapping(s)
           y == FirstWordMapping(end - 1)
<1>1. s \in Nat /\ end \in Nat /\ s < end /\ end - 1 \in Nat
  BY DEF Within
<1>2. x \in Nat /\ y \in Nat /\ y = x + (end - 1) - s
  BY <1>1, Mapping DEF Within
<1>3. Entry(s, end, d) = [base |-> s, start |-> x, end |-> y, domain |-> d]
  BY DEF Entry
<1> HIDE DEF x, y
<1>4. Sound(Entry(s, end, d))
  BY <1>1, <1>2, <1>3 DEF Sound, EntryType, x
<1>5. Physical(Entry(s, end, d)) = (s + x - FirstWordMapping(s)) .. (s + x - FirstWordMapping(s) + y - x)
  BY <1>3 DEF Physical
<1>6. s + x - FirstWordMapping(s) = s /\ s + x - FirstWordMapping(s) + y - x = end - 1
  BY <1>1, <1>2 DEF x
<1> QED BY <1>3, <1>4, <1>5, <1>6

\* Any entry has the right type.
LEMMA EntryTyped ==
  ASSUME NEW s \in Nat, NEW end \in Nat \ {0}, NEW d \in Nat
  PROVE  Entry(s, end, d) \in EntryType
<1>1. \A p \in Nat : FirstWordMapping(p) \in Nat
  <2> SUFFICES ASSUME NEW p \in Nat PROVE FirstWordMapping(p) \in Nat
    OBVIOUS
  <2>1. PinnedSize \in Nat /\ p % WindowSize \in Nat
    BY WindowAssumption
  <2> QED BY <2>1 DEF FirstWordMapping
<1>2. end - 1 \in Nat
  OBVIOUS
<1> QED BY <1>1, <1>2 DEF Entry, EntryType

-----------------------------------------------------------------------------
(***************************************************************************)
(* smp_narrow_to_proximity_domain                                          *)
(***************************************************************************)
Ranges == [start : Nat, end : Nat, domain : Nat]

Borders == {affinity[i].start : i \in DOMAIN affinity} \cup {affinity[i].end : i \in DOMAIN affinity}

\* The part of a segment that is in the range found for its first page ends in the segment.
LEMMA Narrowed ==
  ASSUME affinity \in Seq(Ranges), NEW s \in Nat, NEW end \in Nat \ {0}
  PROVE  /\ Narrow(s, end).found \in BOOLEAN /\ Narrow(s, end).domain \in Nat
         /\ Narrow(s, end).end \in Nat \ {0}
         /\ Narrow(s, end).found /\ s < end =>
              /\ s < Narrow(s, end).end /\ Narrow(s, end).end <= end
              /\ Narrow(s, end).end = end \/ Narrow(s, end).end \in Borders
         /\ (\E i \in DOMAIN affinity : affinity[i].start <= s /\ s < affinity[i].end)
              => Narrow(s, end).found
<1> DEFINE hits == {i \in DOMAIN affinity : Touches(affinity[i], s, end)}
           least == CHOOSE k \in hits : \A j \in hits : k <= j
<1>1. DOMAIN affinity \subseteq Nat
      /\ \A i \in DOMAIN affinity : /\ affinity[i].start \in Nat /\ affinity[i].end \in Nat
                                    /\ affinity[i].domain \in Nat
  <2>1. DOMAIN affinity = 1 .. Len(affinity) /\ \A i \in DOMAIN affinity : affinity[i] \in Ranges
    OBVIOUS
  <2> QED BY <2>1 DEF Ranges
<1>2. CASE hits = {}
  <2>1. Narrow(s, end) = [found |-> FALSE, end |-> end, domain |-> 0]
    BY <1>2 DEF Narrow
  <2>2. ~ \E i \in DOMAIN affinity : affinity[i].start <= s /\ s < affinity[i].end
    BY <1>1, <1>2 DEF Touches
  <2> QED BY <2>1, <2>2
<1>3. CASE hits # {}
  <2>1. \E k \in hits : \A j \in hits : k <= j
    BY <1>1, <1>3, LeastNatural
  <2>2. least \in hits
    BY <2>1
  <2> DEFINE r == affinity[least]
             n == IF s < r.start THEN r.start ELSE IF end <= r.end THEN end ELSE r.end
  <2>3. Narrow(s, end) = [found |-> TRUE, domain |-> r.domain, end |-> n]
    BY <1>3 DEF Narrow
  <2>4. least \in DOMAIN affinity /\ Touches(r, s, end)
    BY <2>2
  <2> HIDE DEF least
  <2>5. r.start \in Nat /\ r.end \in Nat /\ r.domain \in Nat /\ r.start \in Borders /\ r.end \in Borders
    BY <1>1, <2>4 DEF Borders
  <2>6. IF s >= r.start THEN s < r.end ELSE end >= r.start
    BY <2>4 DEF Touches
  <2> HIDE DEF r
  <2>7. n \in Nat \ {0} /\ (s < end => s < n /\ n <= end /\ (n = end \/ n \in Borders))
    BY <2>5, <2>6
  <2> HIDE DEF n
  <2> QED BY <2>3, <2>5, <2>7
<1> QED BY <1>2, <1>3

\* There are two borders for a range.
LEMMA BordersFew ==
  ASSUME affinity \in Seq(Ranges)
  PROVE  /\ IsFiniteSet(Borders) /\ Cardinality(Borders) \in Nat
         /\ Cardinality(Borders) <= Len(affinity) * 2
<1> DEFINE n == Len(affinity)
           d == 1 .. n
           b == {affinity[i].start : i \in d}
           e == {affinity[i].end : i \in d}
<1>1. n \in Nat /\ DOMAIN affinity = d
  OBVIOUS
<1>2. IsFiniteSet(d) /\ Cardinality(d) = n
  BY <1>1, FS_Interval
<1> HIDE DEF d, n
<1>3. IsFiniteSet(b) /\ Cardinality(b) <= n
  <2> DEFINE f == [i \in d |-> affinity[i].start]
  <2>1. f \in Surjection(d, b)
    BY DEF Surjection
  <2> QED BY <1>2, <2>1, FS_Surjection
<1>4. IsFiniteSet(e) /\ Cardinality(e) <= n
  <2> DEFINE f == [i \in d |-> affinity[i].end]
  <2>1. f \in Surjection(d, e)
    BY DEF Surjection
  <2> QED BY <1>2, <2>1, FS_Surjection
<1>5. Borders = b \cup e
  BY <1>1 DEF Borders
<1> HIDE DEF b, e
<1>6. IsFiniteSet(Borders) /\ Cardinality(Borders) = Cardinality(b) + Cardinality(e) - Cardinality(b \cap e)
  BY <1>3, <1>4, <1>5, FS_Union
<1>7. IsFiniteSet(b \cap e)
  BY <1>3, FS_Intersection
<1>8. Cardinality(b) \in Nat /\ Cardinality(e) \in Nat /\ Cardinality(b \cap e) \in Nat /\ Cardinality(Borders) \in Nat
  BY <1>3, <1>4, <1>6, <1>7, FS_CardinalityType
<1>9. Cardinality(Borders) <= n * 2
  BY <1>1, <1>3, <1>4, <1>6, <1>8
<1> QED BY <1>6, <1>8, <1>9 DEF n

-----------------------------------------------------------------------------
(***************************************************************************)
(* A segment split at the borders of the ranges                            *)
(***************************************************************************)
SplitType == [at : Nat, done : BOOLEAN, entries : Seq(EntryType)]

SplitStart(seg) == [at |-> seg.start, done |-> FALSE, entries |-> << >>]

SplitNext(prev, seg) ==
  LET n == Narrow(prev.at, seg.end)
  IN IF prev.done THEN prev
     ELSE IF ~n.found
       THEN [at |-> prev.at, done |-> TRUE,
             entries |-> Append(prev.entries, Entry(seg.start, seg.end, 0))]
       ELSE [at |-> n.end, done |-> n.end = seg.end,
             entries |-> Append(prev.entries, Entry(prev.at, n.end, n.domain))]

\* The two ways on.
LEMMA SplitCases ==
  ASSUME NEW x \in SplitType, NEW seg, ~x.done
  PROVE  /\ ~Narrow(x.at, seg.end).found =>
              SplitNext(x, seg) = [at |-> x.at, done |-> TRUE,
                                   entries |-> Append(x.entries, Entry(seg.start, seg.end, 0))]
         /\ Narrow(x.at, seg.end).found =>
              SplitNext(x, seg) =
                [at |-> Narrow(x.at, seg.end).end, done |-> Narrow(x.at, seg.end).end = seg.end,
                 entries |-> Append(x.entries, Entry(x.at, Narrow(x.at, seg.end).end,
                                                     Narrow(x.at, seg.end).domain))]
  BY DEF SplitNext

\* A step keeps the types.
LEMMA SplitTyped ==
  ASSUME affinity \in Seq(Ranges), NEW x \in SplitType, NEW seg, seg.start \in Nat, seg.end \in Nat \ {0}
  PROVE  SplitNext(x, seg) \in SplitType
<1> DEFINE n == Narrow(x.at, seg.end)
           e == Entry(seg.start, seg.end, 0)
           f == Entry(x.at, n.end, n.domain)
<1>1. x.at \in Nat /\ x.done \in BOOLEAN /\ x.entries \in Seq(EntryType)
  BY DEF SplitType
<1>2. n.end \in Nat \ {0} /\ n.domain \in Nat /\ n.found \in BOOLEAN
  BY <1>1, Narrowed
<1>3. e \in EntryType /\ f \in EntryType
  BY <1>1, <1>2, EntryTyped
<1>4. /\ x.done => SplitNext(x, seg) = x
      /\ ~x.done /\ ~n.found => SplitNext(x, seg) = [at |-> x.at, done |-> TRUE, entries |-> Append(x.entries, e)]
      /\ ~x.done /\ n.found => SplitNext(x, seg) = [at |-> n.end, done |-> n.end = seg.end,
                                                     entries |-> Append(x.entries, f)]
  <2>1. x.done => SplitNext(x, seg) = x
    BY DEF SplitNext
  <2> QED BY <2>1, SplitCases
<1> HIDE DEF n, e, f
<1>5. Append(x.entries, e) \in Seq(EntryType) /\ Append(x.entries, f) \in Seq(EntryType)
  BY <1>1, <1>3
<1> DEFINE y == Append(x.entries, e)
           z == Append(x.entries, f)
<1>6. y \in Seq(EntryType) /\ z \in Seq(EntryType)
  BY <1>5
<1> HIDE DEF y, z
<1>7. /\ [at |-> x.at, done |-> TRUE, entries |-> y] \in SplitType
      /\ [at |-> n.end, done |-> n.end = seg.end, entries |-> z] \in SplitType
  BY <1>1, <1>2, <1>6 DEF SplitType
<1> QED BY <1>1, <1>2, <1>4, <1>7 DEF y, z

\* The steps follow each other.
LEMMA SplitRec ==
  ASSUME affinity \in Seq(Ranges), NEW seg, seg.start \in Nat, seg.end \in Nat \ {0}
  PROVE  \A k \in 0 .. (Len(affinity) * 2 + 1) :
           SplitSteps(seg)[k] = IF k = 0 THEN SplitStart(seg)
                                         ELSE SplitNext(SplitSteps(seg)[k - 1], seg)
<1> DEFINE n == Len(affinity) * 2 + 1
           Eq(at) == at = [k \in 0 .. n |-> IF k = 0 THEN SplitStart(seg) ELSE SplitNext(at[k - 1], seg)]
           f == [k \in 1 .. n |-> [t \in SplitType |-> SplitNext(t, seg)]]
<1>0. n \in Nat
  OBVIOUS
<1>1. SplitSteps(seg) = CHOOSE x : Eq(x)
  BY DEF SplitSteps, SplitNext, SplitStart
<1> HIDE DEF n
<1>2. PICK at \in [0 .. n -> SplitType] :
        \A k \in 0 .. n : at[k] = IF k = 0 THEN SplitStart(seg) ELSE f[k][at[k - 1]]
  <2>1. f \in Steps(n, SplitType)
    BY SplitTyped DEF Steps
  <2>2. SplitStart(seg) \in SplitType
    BY DEF SplitStart, SplitType
  <2> HIDE DEF f
  <2>3. Recurs(n, SplitType, SplitStart(seg), f)
    BY <1>0, <2>1, <2>2, Recursion
  <2> QED BY <2>3 DEF Recurs
<1>3. Eq(at)
  <2>1. \A k \in 1 .. n : at[k - 1] \in SplitType /\ f[k][at[k - 1]] = SplitNext(at[k - 1], seg)
    BY <1>0
  <2> HIDE DEF f
  <2> QED BY <1>0, <1>2, <2>1
<1>4. Eq(CHOOSE x : Eq(x))
  <2> HIDE DEF Eq
  <2> QED BY <1>3
<1>5. Eq(SplitSteps(seg))
  <2> HIDE DEF Eq
  <2> QED BY <1>1, <1>4
<1> QED BY <1>5 DEF n

\* The borders after a page.
Ahead(p) == {b \in Borders : p < b}

\* Every page of the segment is in a range of the table.
Covered(seg) ==
  \A p \in seg.start .. (seg.end - 1) :
    \E i \in DOMAIN affinity : affinity[i].start <= p /\ p < affinity[i].end

\* Up to the page that is reached the entries are the segment; with every step a border is passed.
SplitOpen(x, seg, k) ==
  /\ seg.start <= x.at /\ x.at < seg.end
  /\ PagesOf(x.entries) = seg.start .. (x.at - 1)
  /\ Apart(x.entries)
  /\ x.entries = << >> => x.at = seg.start
  /\ Cardinality(Ahead(x.at)) + k <= Len(affinity) * 2

SplitClosed(x, seg) ==
  /\ x.entries # << >>
  /\ PagesOf(x.entries) = seg.start .. (seg.end - 1)
  /\ Covered(seg) => Apart(x.entries)

SplitHeld(x, seg, k) ==
  /\ x \in SplitType /\ x.entries \in SoundMaps
  /\ x.entries # << >> => x.entries[1].base = seg.start
  /\ ~x.done => SplitOpen(x, seg, k)
  /\ x.done => SplitClosed(x, seg)

\* A run of pages inside another.
LEMMA WithinPart ==
  ASSUME NEW s, NEW end, NEW a \in Nat, Within(s, end, a), NEW t \in Nat, NEW u \in Nat,
         s <= t, t < u, u <= end
  PROVE  Within(t, u, a)
<1>1. s \in Nat /\ end \in Nat
  BY DEF Within
<1>2. t \in s .. (end - 1) /\ u - 1 \in s .. (end - 1)
  BY <1>1
<1>3. InPart(t, a) /\ InPart(u - 1, a)
  BY <1>2, WithinAll
<1> QED BY <1>3 DEF Within

\* One more entry.
LEMMA OneMore ==
  ASSUME NEW m \in SoundMaps, NEW e, Sound(e)
  PROVE  /\ Append(m, e) \in SoundMaps /\ Append(m, e) # << >>
         /\ PagesOf(Append(m, e)) = PagesOf(m) \cup Physical(e)
         /\ Apart(m) /\ PagesOf(m) \cap Physical(e) = {} => Apart(Append(m, e))
         /\ Append(m, e)[1] = IF m = << >> THEN e ELSE m[1]
<1>1. /\ <<e>> \in SoundMaps /\ PagesOf(<<e>>) = Physical(e) /\ Apart(<<e>>)
      /\ <<e>>[1] = e /\ <<e>> # << >> /\ Append(m, e) = m \o <<e>>
  BY OneEntry
<1>2. /\ m \o <<e>> \in SoundMaps
      /\ PagesOf(m \o <<e>>) = PagesOf(m) \cup PagesOf(<<e>>)
      /\ Apart(m) /\ Apart(<<e>>) /\ PagesOf(m) \cap PagesOf(<<e>>) = {} => Apart(m \o <<e>>)
      /\ m # << >> => m \o <<e>> # << >> /\ (m \o <<e>>)[1] = m[1]
  BY <1>1, Joined
<1>3. m = << >> => m \o <<e>> = <<e>>
  <2>1. e \in EntryType
    BY DEF Sound
  <2> QED BY <2>1
<1> QED BY <1>1, <1>2, <1>3

LEMMA SplitStep ==
  ASSUME affinity \in Seq(Ranges), NEW seg, NEW a \in Nat, Within(seg.start, seg.end, a),
         NEW k \in 1 .. (Len(affinity) * 2 + 1), NEW x, SplitHeld(x, seg, k - 1)
  PROVE  SplitHeld(SplitNext(x, seg), seg, k)
<1> DEFINE new == SplitNext(x, seg)
           n == Narrow(x.at, seg.end)
<1>0. /\ seg.start \in Nat /\ seg.end \in Nat \ {0} /\ seg.start < seg.end /\ k \in Nat /\ Len(affinity) \in Nat
      /\ x \in SplitType /\ x.at \in Nat /\ x.done \in BOOLEAN /\ x.entries \in SoundMaps
      /\ x.entries # << >> => x.entries[1].base = seg.start
  BY DEF Within, SplitHeld, SplitType
<1>1. new \in SplitType
  BY <1>0, SplitTyped
<1>2. CASE x.done
  <2>1. new = x
    BY <1>2 DEF SplitNext
  <2> QED BY <1>2, <2>1 DEF SplitHeld
<1>3. CASE ~x.done /\ ~n.found
  <2> DEFINE e == Entry(seg.start, seg.end, 0)
  <2>1. new = [at |-> x.at, done |-> TRUE, entries |-> Append(x.entries, e)]
    BY <1>3 DEF SplitNext
  <2>2. Sound(e) /\ Physical(e) = seg.start .. (seg.end - 1) /\ e.base = seg.start
    BY EntryRight
  <2> HIDE DEF e
  <2>3. SplitOpen(x, seg, k - 1)
    BY <1>3 DEF SplitHeld
  <2>4. PagesOf(x.entries) \subseteq seg.start .. (seg.end - 1)
    BY <1>0, <2>3 DEF SplitOpen
  <2>5. /\ Append(x.entries, e) \in SoundMaps /\ Append(x.entries, e) # << >>
        /\ PagesOf(Append(x.entries, e)) = PagesOf(x.entries) \cup Physical(e)
        /\ Append(x.entries, e)[1] = IF x.entries = << >> THEN e ELSE x.entries[1]
    BY <1>0, <2>2, OneMore
  <2>6. PagesOf(Append(x.entries, e)) = seg.start .. (seg.end - 1) /\ Append(x.entries, e)[1].base = seg.start
    BY <1>0, <2>2, <2>4, <2>5
  <2>7. ~ Covered(seg)
    <3>1. x.at \in seg.start .. (seg.end - 1)
      BY <1>0, <2>3 DEF SplitOpen
    <3>2. ~ \E i \in DOMAIN affinity : affinity[i].start <= x.at /\ x.at < affinity[i].end
      BY <1>0, <1>3, Narrowed
    <3> QED BY <3>1, <3>2 DEF Covered
  <2>8. SplitClosed(new, seg) /\ new.done /\ new.entries \in SoundMaps /\ new.entries[1].base = seg.start
    BY <2>1, <2>5, <2>6, <2>7 DEF SplitClosed
  <2> QED BY <1>1, <2>8 DEF SplitHeld
<1>4. CASE ~x.done /\ n.found
  <2>1. SplitOpen(x, seg, k - 1)
    BY <1>4 DEF SplitHeld
  <2>2. x.at < seg.end /\ seg.start <= x.at
    BY <2>1 DEF SplitOpen
  <2>3. /\ n.end \in Nat \ {0} /\ n.domain \in Nat /\ x.at < n.end /\ n.end <= seg.end
        /\ n.end = seg.end \/ n.end \in Borders
    BY <1>0, <1>4, <2>2, Narrowed
  <2> DEFINE e == Entry(x.at, n.end, n.domain)
             y == Append(x.entries, e)
  <2>4. new = [at |-> n.end, done |-> n.end = seg.end, entries |-> y]
    BY <1>4 DEF SplitNext
  <2>5. Within(x.at, n.end, a)
    BY <1>0, <2>2, <2>3, WithinPart
  <2>6. Sound(e) /\ Physical(e) = x.at .. (n.end - 1) /\ e.base = x.at
    BY <2>3, <2>5, EntryRight
  <2> HIDE DEF e
  <2>7. /\ y \in SoundMaps /\ y # << >>
        /\ PagesOf(y) = PagesOf(x.entries) \cup Physical(e)
        /\ Apart(x.entries) /\ PagesOf(x.entries) \cap Physical(e) = {} => Apart(y)
        /\ y[1] = IF x.entries = << >> THEN e ELSE x.entries[1]
    BY <1>0, <2>6, OneMore
  <2> HIDE DEF y, n
  <2>8. /\ PagesOf(x.entries) = seg.start .. (x.at - 1) /\ Apart(x.entries)
        /\ x.entries = << >> => x.at = seg.start
    BY <2>1 DEF SplitOpen
  <2>9. PagesOf(y) = seg.start .. (n.end - 1)
    BY <1>0, <2>2, <2>3, <2>6, <2>7, <2>8
  <2>10. Apart(y)
    <3>1. (seg.start .. (x.at - 1)) \cap (x.at .. (n.end - 1)) = {}
      BY <1>0, <2>2, <2>3
    <3> QED BY <2>6, <2>7, <2>8, <3>1
  <2>11. y[1].base = seg.start
    BY <1>0, <2>6, <2>7, <2>8
  <2>12. n.end = seg.end => SplitClosed(new, seg)
    BY <2>4, <2>7, <2>9, <2>10 DEF SplitClosed
  <2>13. n.end # seg.end => SplitOpen(new, seg, k)
    <3> SUFFICES ASSUME n.end # seg.end PROVE Cardinality(Ahead(n.end)) + k <= Len(affinity) * 2
      BY <1>0, <2>2, <2>3, <2>4, <2>7, <2>9, <2>10 DEF SplitOpen
    <3>1. Cardinality(Ahead(x.at)) + (k - 1) <= Len(affinity) * 2
      BY <2>1 DEF SplitOpen
    <3>2. IsFiniteSet(Ahead(x.at)) /\ Cardinality(Ahead(x.at)) \in Nat
      <4>1. Ahead(x.at) \subseteq Borders
        BY DEF Ahead
      <4> QED BY <4>1, BordersFew, FS_Subset, FS_CardinalityType
    <3>3. n.end \in Ahead(x.at)
      BY <2>3 DEF Ahead
    <3>4. Ahead(n.end) \subseteq Ahead(x.at) \ {n.end}
      <4>1. \A b \in Borders : b \in Nat
        <5>1. \A i \in DOMAIN affinity : affinity[i].start \in Nat /\ affinity[i].end \in Nat
          <6>1. \A i \in DOMAIN affinity : affinity[i] \in Ranges
            OBVIOUS
          <6> QED BY <6>1 DEF Ranges
        <5> QED BY <5>1 DEF Borders
      <4> QED BY <1>0, <2>3, <4>1 DEF Ahead
    <3>5. IsFiniteSet(Ahead(x.at) \ {n.end}) /\ Cardinality(Ahead(x.at) \ {n.end}) = Cardinality(Ahead(x.at)) - 1
      BY <3>2, <3>3, FS_RemoveElement
    <3>6. IsFiniteSet(Ahead(n.end)) /\ Cardinality(Ahead(n.end)) <= Cardinality(Ahead(x.at) \ {n.end})
      BY <3>4, <3>5, FS_Subset
    <3>7. Cardinality(Ahead(n.end)) \in Nat
      BY <3>6, FS_CardinalityType
    <3> QED BY <1>0, <3>1, <3>2, <3>5, <3>6, <3>7
  <2> HIDE DEF new
  <2>14. new.entries = y /\ (new.done <=> n.end = seg.end)
    BY <2>4, Zenon
  <2>15. new.entries \in SoundMaps /\ new.entries[1].base = seg.start
    BY <2>7, <2>11, <2>14
  <2>16. ~new.done => SplitOpen(new, seg, k)
    BY <2>13, <2>14, Zenon
  <2>17. new.done => SplitClosed(new, seg)
    BY <2>12, <2>14, Zenon
  <2>18. SplitHeld(new, seg, k)
    BY <1>1, <2>15, <2>16, <2>17 DEF SplitHeld
  <2> QED BY <2>18 DEF new
<1>5. n.found \/ ~n.found
  OBVIOUS
<1> QED BY <1>2, <1>3, <1>4, <1>5

\* A segment inside a window is split without a loss.
LEMMA SplitRight ==
  ASSUME affinity \in Seq(Ranges), NEW seg, NEW a \in Nat, Within(seg.start, seg.end, a)
  PROVE  /\ Split(seg) \in SoundMaps /\ Split(seg) # << >>
         /\ Split(seg)[1].base = seg.start
         /\ PagesOf(Split(seg)) = seg.start .. (seg.end - 1)
         /\ Covered(seg) => Apart(Split(seg))
<1> DEFINE n == Len(affinity) * 2 + 1
           S == {k \in 0 .. n : SplitHeld(SplitSteps(seg)[k], seg, k)}
<1>0. n \in Nat /\ Len(affinity) \in Nat /\ seg.start \in Nat /\ seg.end \in Nat \ {0} /\ seg.start < seg.end
  BY DEF Within
<1>1. \A k \in 0 .. n : SplitSteps(seg)[k] = IF k = 0 THEN SplitStart(seg)
                                             ELSE SplitNext(SplitSteps(seg)[k - 1], seg)
  BY <1>0, SplitRec
<1>2. 0 \in S
  <2> DEFINE x == SplitStart(seg)
  <2>1. x.at = seg.start /\ x.done = FALSE /\ x.entries = << >> /\ x \in SplitType
    BY <1>0 DEF SplitStart, SplitType
  <2> HIDE DEF x
  <2>2. Cardinality(Ahead(seg.start)) + 0 <= Len(affinity) * 2
    <3>1. Ahead(seg.start) \subseteq Borders
      BY DEF Ahead
    <3>2. IsFiniteSet(Ahead(seg.start)) /\ Cardinality(Ahead(seg.start)) <= Cardinality(Borders)
      BY <3>1, BordersFew, FS_Subset
    <3>3. Cardinality(Ahead(seg.start)) \in Nat
      BY <3>2, FS_CardinalityType
    <3> QED BY <1>0, <3>2, <3>3, BordersFew
  <2>3. seg.start .. (seg.start - 1) = {}
    BY <1>0
  <2>4. SplitOpen(x, seg, 0)
    <3>1. PagesOf(x.entries) = {} /\ Apart(x.entries)
      BY <2>1, NoEntries
    <3>2. seg.start .. (x.at - 1) = {}
      BY <2>1, <2>3
    <3>3. PagesOf(x.entries) = seg.start .. (x.at - 1)
      BY <3>1, <3>2
    <3>4. seg.start <= x.at /\ x.at < seg.end /\ x.at = seg.start
      BY <1>0, <2>1
    <3>5. Cardinality(Ahead(x.at)) + 0 <= Len(affinity) * 2
      BY <2>2, <3>4
    <3> QED BY <3>1, <3>3, <3>4, <3>5 DEF SplitOpen
  <2>5. SplitHeld(x, seg, 0)
    BY <2>1, <2>4, NoEntries DEF SplitHeld
  <2>6. 0 \in 0 .. n /\ SplitSteps(seg)[0] = x
    BY <1>0, <1>1 DEF x
  <2> QED BY <2>5, <2>6
<1>3. ASSUME NEW k \in 1 .. n, k - 1 \in S PROVE k \in S
  <2>1. k \in 0 .. n /\ k # 0 /\ SplitSteps(seg)[k] = SplitNext(SplitSteps(seg)[k - 1], seg)
    BY <1>0, <1>1
  <2>2. SplitHeld(SplitSteps(seg)[k - 1], seg, k - 1)
    BY <1>3
  <2> QED BY <2>1, <2>2, SplitStep
<1>4. n \in S
  <2> HIDE DEF S, n
  <2>1. n \in 0 .. n
    BY <1>0
  <2> QED BY <1>0, <1>2, <1>3, <2>1, UpTo
<1> DEFINE x == SplitSteps(seg)[n]
<1>5. SplitHeld(x, seg, n)
  BY <1>4
<1>6. Split(seg) = x.entries
  BY DEF Split
<1> HIDE DEF x
<1>7. x.done
  <2> SUFFICES ASSUME ~x.done PROVE FALSE
    OBVIOUS
  <2>1. x.at \in Nat /\ Cardinality(Ahead(x.at)) + n <= Len(affinity) * 2
    BY <1>5 DEF SplitHeld, SplitOpen, SplitType
  <2>2. Ahead(x.at) \subseteq Borders
    BY DEF Ahead
  <2>3. Cardinality(Ahead(x.at)) \in Nat
    BY <2>2, BordersFew, FS_Subset, FS_CardinalityType
  <2> QED BY <1>0, <2>1, <2>3
<1> QED BY <1>5, <1>6, <1>7 DEF SplitHeld, SplitClosed

-----------------------------------------------------------------------------
(***************************************************************************)
(* setup_vm_map: the memory inside the window and the limits, no page twice*)
(***************************************************************************)
\* The part of a segment inside a window.
LEMMA ClipRight ==
  ASSUME NEW start, NEW end, NEW a \in Nat, Within(start, end, a), NEW seg \in Segment
  PROVE  /\ Clip(seg, start, end).start \in Nat /\ Clip(seg, start, end).end \in Nat
         /\ Clip(seg, start, end).start < Clip(seg, start, end).end =>
              Within(Clip(seg, start, end).start, Clip(seg, start, end).end, a)
         /\ \A p \in Nat : p \in Clip(seg, start, end).start .. (Clip(seg, start, end).end - 1)
                           <=> /\ p \in start .. (end - 1)
                               /\ seg.start <= p /\ p < seg.end
<1> DEFINE s == IF seg.start <= start THEN start ELSE seg.start
           e == IF seg.end >= end THEN end ELSE seg.end
<1>1. Clip(seg, start, end).start = s /\ Clip(seg, start, end).end = e
  BY DEF Clip
<1>2. start \in Nat /\ end \in Nat /\ seg.start \in Nat /\ seg.end \in Nat
  BY DEF Within, Segment
<1>3. s \in Nat /\ e \in Nat /\ start <= s /\ e <= end
  BY <1>2
<1>4. \A p \in Nat : p \in s .. (e - 1) <=> p \in start .. (end - 1) /\ seg.start <= p /\ p < seg.end
  BY <1>2
<1> HIDE DEF s, e
<1>5. s < e => Within(s, e, a)
  BY <1>2, <1>3, WithinPart
<1> QED BY <1>1, <1>3, <1>4, <1>5

\* The entries for one more segment.
LEMMA Added ==
  ASSUME affinity \in Seq(Ranges), NEW m \in SoundMaps, NEW seg, NEW a \in Nat,
         Within(seg.start, seg.end, a)
  PROVE  /\ AddEntries(m, seg) \in SoundMaps /\ AddEntries(m, seg) # << >>
         /\ PagesOf(AddEntries(m, seg)) = PagesOf(m) \cup (seg.start .. (seg.end - 1))
         /\ Apart(m) /\ (affinity # << >> => Covered(seg)) /\ (\A p \in PagesOf(m) : p < seg.start)
              => Apart(AddEntries(m, seg))
         /\ m # << >> => AddEntries(m, seg)[1] = m[1]
         /\ m = << >> => AddEntries(m, seg)[1].base = seg.start
<1> DEFINE e == Entry(seg.start, seg.end, 0)
           add == IF affinity # << >> THEN Split(seg) ELSE <<e>>
<1>1. seg.start \in Nat /\ seg.end \in Nat /\ ~ (seg.start >= seg.end)
  BY DEF Within
<1>2. Sound(e) /\ Physical(e) = seg.start .. (seg.end - 1) /\ e.base = seg.start
  BY EntryRight
<1>3. AddEntries(m, seg) = m \o add
  <2>1. CASE affinity # << >>
    BY <1>1, <2>1 DEF AddEntries
  <2>2. CASE affinity = << >>
    <3>1. AddEntries(m, seg) = Append(m, e)
      BY <1>1, <2>2 DEF AddEntries
    <3> HIDE DEF e
    <3> QED BY <1>2, <2>2, <3>1, OneEntry
  <2> QED BY <2>1, <2>2
<1> HIDE DEF e
<1>4. /\ add \in SoundMaps /\ add # << >> /\ add[1].base = seg.start
      /\ PagesOf(add) = seg.start .. (seg.end - 1)
      /\ (affinity # << >> => Covered(seg)) => Apart(add)
  BY <1>2, OneEntry, SplitRight
<1> HIDE DEF add
<1>5. /\ m \o add \in SoundMaps
      /\ PagesOf(m \o add) = PagesOf(m) \cup PagesOf(add)
      /\ Apart(m) /\ Apart(add) /\ PagesOf(m) \cap PagesOf(add) = {} => Apart(m \o add)
      /\ m # << >> => m \o add # << >> /\ (m \o add)[1] = m[1]
  BY <1>4, Joined
<1>6. m = << >> => m \o add = add
  <2>1. add \in Seq(EntryType)
    BY <1>4 DEF SoundMaps
  <2> QED BY <2>1
<1>7. (\A p \in PagesOf(m) : p < seg.start) => PagesOf(m) \cap PagesOf(add) = {}
  BY <1>1, <1>4
<1> QED BY <1>3, <1>4, <1>5, <1>6, <1>7

\* The pages of the first k segments in the window.
Taken(start, end, k) ==
  {p \in start .. (end - 1) : \E i \in 1 .. k : pm_map[i].start <= p /\ p < pm_map[i].end}

\* All the memory of the window is in a range of the table.
AllCovered(start, end) ==
  affinity # << >> =>
    \A p \in start .. (end - 1) :
      (\E i \in DOMAIN pm_map : pm_map[i].start <= p /\ p < pm_map[i].end)
        => \E i \in DOMAIN affinity : affinity[i].start <= p /\ p < affinity[i].end

MapHeld(m, start, end, k) ==
  /\ m \in SoundMaps
  /\ PagesOf(m) = Taken(start, end, k)
  /\ AllCovered(start, end) => Apart(m)
  /\ m # << >> => m[1].base \in PagesOf(m) /\ \A p \in PagesOf(m) : m[1].base <= p

MapNext(m, start, end, k) == AddEntries(m, Clip(pm_map[k], start, end))

LEMMA MapStep ==
  ASSUME MemoryInv, affinity \in Seq(Ranges), NEW start, NEW end, NEW a \in Nat, Within(start, end, a),
         NEW k \in 1 .. Len(pm_map), NEW m, MapHeld(m, start, end, k - 1)
  PROVE  MapHeld(MapNext(m, start, end, k), start, end, k)
<1> DEFINE c == Clip(pm_map[k], start, end)
           new == MapNext(m, start, end, k)
<1>1. /\ pm_map[k] \in Segment /\ Len(pm_map) \in Nat /\ k \in Nat /\ DOMAIN pm_map = 1 .. Len(pm_map)
      /\ \A i \in DOMAIN pm_map : pm_map[i].start \in Nat /\ pm_map[i].end \in Nat
      /\ start \in Nat /\ end \in Nat /\ m \in SoundMaps
  BY MemoryTypes DEF MemoryInv, Within, MapHeld
<1>2. /\ c.start \in Nat /\ c.end \in Nat
      /\ c.start < c.end => Within(c.start, c.end, a)
      /\ \A p \in Nat : p \in c.start .. (c.end - 1)
           <=> p \in start .. (end - 1) /\ pm_map[k].start <= p /\ p < pm_map[k].end
  BY <1>1, ClipRight
<1>3. new = AddEntries(m, c)
  BY DEF MapNext
<1> HIDE DEF c, new
<1>4. Taken(start, end, k) = Taken(start, end, k - 1) \cup (c.start .. (c.end - 1))
  <2>1. \A i \in 1 .. k : i \in 1 .. (k - 1) \/ i = k
    BY <1>1
  <2>2. \A i \in 1 .. (k - 1) : i \in 1 .. k
    BY <1>1
  <2>3. k \in 1 .. k
    BY <1>1
  <2>4. \A p \in start .. (end - 1) : p \in Nat
    BY <1>1
  <2>5. \A p \in c.start .. (c.end - 1) : p \in Nat
    BY <1>2
  <2> QED BY <1>2, <2>1, <2>2, <2>3, <2>4, <2>5 DEF Taken
<1>5. CASE c.start >= c.end
  <2>1. new = m
    BY <1>3, <1>5 DEF AddEntries
  <2>2. c.start .. (c.end - 1) = {}
    BY <1>2, <1>5
  <2> QED BY <1>4, <2>1, <2>2 DEF MapHeld, new
<1>6. CASE c.start < c.end
  <2>1. Within(c.start, c.end, a)
    BY <1>2, <1>6
  <2>2. /\ new \in SoundMaps /\ new # << >>
        /\ PagesOf(new) = PagesOf(m) \cup (c.start .. (c.end - 1))
        /\ Apart(m) /\ (affinity # << >> => Covered(c)) /\ (\A p \in PagesOf(m) : p < c.start) => Apart(new)
        /\ m # << >> => new[1] = m[1]
        /\ m = << >> => new[1].base = c.start
    BY <1>1, <1>3, <2>1, Added
  <2>3. PagesOf(m) = Taken(start, end, k - 1)
    BY DEF MapHeld
  <2>4. \A p \in PagesOf(m) : p < c.start
    <3> SUFFICES ASSUME NEW p \in PagesOf(m) PROVE p < c.start
      OBVIOUS
    <3>1. PICK i \in 1 .. (k - 1) : p \in start .. (end - 1) /\ pm_map[i].start <= p /\ p < pm_map[i].end
      BY <2>3 DEF Taken
    <3>2. i \in DOMAIN pm_map /\ k \in DOMAIN pm_map /\ i < k /\ pm_map[i].end \in Nat
      BY <1>1
    <3>3. pm_map[i].end <= pm_map[k].start
      BY <3>2 DEF MemoryInv, Ascends, Reaches
    <3>4. c.start \in c.start .. (c.end - 1)
      BY <1>2, <1>6
    <3>5. pm_map[k].start <= c.start
      BY <1>2, <3>4
    <3> QED BY <1>1, <1>2, <3>1, <3>2, <3>3, <3>5
  <2>5. PagesOf(new) = Taken(start, end, k)
    BY <1>4, <2>2, <2>3
  <2>6. AllCovered(start, end) => Apart(new)
    <3> SUFFICES ASSUME AllCovered(start, end), affinity # << >> PROVE Covered(c)
      BY <2>2, <2>4 DEF MapHeld
    <3> SUFFICES ASSUME NEW p \in c.start .. (c.end - 1)
                 PROVE  \E i \in DOMAIN affinity : affinity[i].start <= p /\ p < affinity[i].end
      BY DEF Covered
    <3>1. p \in Nat
      BY <1>2
    <3>2. p \in start .. (end - 1) /\ pm_map[k].start <= p /\ p < pm_map[k].end /\ k \in DOMAIN pm_map
      BY <1>1, <1>2, <3>1
    <3> QED BY <3>2 DEF AllCovered
  <2>7. new[1].base \in PagesOf(new) /\ \A p \in PagesOf(new) : new[1].base <= p
    <3>1. CASE m = << >>
      <4>1. PagesOf(m) = {}
        BY <3>1, NoEntries
      <4> QED BY <1>2, <1>6, <2>2, <3>1, <4>1
    <3>2. CASE m # << >>
      <4>1. m[1].base \in PagesOf(m) /\ \A p \in PagesOf(m) : m[1].base <= p
        BY <3>2 DEF MapHeld
      <4>2. m[1].base \in Nat
        <5>1. PagesOf(m) \subseteq start .. (end - 1)
          BY <2>3 DEF Taken
        <5> QED BY <1>1, <4>1, <5>1
      <4>3. \A p \in c.start .. (c.end - 1) : m[1].base <= p
        BY <1>2, <2>4, <4>1, <4>2
      <4> QED BY <2>2, <3>2, <4>1, <4>3
    <3> QED BY <3>1, <3>2
  <2> QED BY <2>2, <2>5, <2>6, <2>7 DEF MapHeld, new
<1> QED BY <1>2, <1>5, <1>6

\* The steps follow each other.
LEMMA MapRec ==
  ASSUME MemoryInv, affinity \in Seq(Ranges), NEW start, NEW end, NEW a \in Nat, Within(start, end, a)
  PROVE  \A k \in 0 .. Len(pm_map) :
           MapSteps(start, end)[k] = IF k = 0 THEN << >>
                                     ELSE MapNext(MapSteps(start, end)[k - 1], start, end, k)
<1> DEFINE n == Len(pm_map)
           D == Seq(EntryType)
           Eq(at) == at = [k \in 0 .. n |-> IF k = 0 THEN << >> ELSE MapNext(at[k - 1], start, end, k)]
           f == [k \in 1 .. n |-> [m \in D |-> MapNext(m, start, end, k)]]
<1>0. n \in Nat /\ \A k \in 1 .. n : pm_map[k] \in Segment
  BY DEF MemoryInv
<1>1. MapSteps(start, end) = CHOOSE x : Eq(x)
  BY DEF MapSteps, MapNext
<1>2. ASSUME NEW k \in 1 .. n, NEW m \in D PROVE MapNext(m, start, end, k) \in D
  <2> DEFINE c == Clip(pm_map[k], start, end)
             e == Entry(c.start, c.end, 0)
  <2>1. c.start \in Nat /\ c.end \in Nat /\ (c.start < c.end => Within(c.start, c.end, a))
    BY <1>0, ClipRight
  <2>2. MapNext(m, start, end, k) = AddEntries(m, c)
    BY DEF MapNext
  <2> HIDE DEF c
  <2>3. CASE c.start >= c.end
    BY <2>2, <2>3 DEF AddEntries
  <2>4. CASE c.start < c.end
    <3>1. Split(c) \in D /\ e \in EntryType
      BY <2>1, <2>4, SplitRight, EntryTyped DEF SoundMaps
    <3>2. AddEntries(m, c) = IF affinity # << >> THEN m \o Split(c) ELSE Append(m, e)
      BY <2>1, <2>4 DEF AddEntries
    <3> HIDE DEF e
    <3> QED BY <2>2, <3>1, <3>2
  <2> QED BY <2>1, <2>3, <2>4
<1> HIDE DEF n, D
<1>3. PICK at \in [0 .. n -> D] :
        \A k \in 0 .. n : at[k] = IF k = 0 THEN << >> ELSE f[k][at[k - 1]]
  <2>1. f \in Steps(n, D)
    BY <1>2 DEF Steps
  <2>2. << >> \in D
    BY DEF D
  <2> HIDE DEF f
  <2>3. Recurs(n, D, << >>, f)
    BY <1>0, <2>1, <2>2, Recursion
  <2> QED BY <2>3 DEF Recurs
<1>4. Eq(at)
  <2>1. \A k \in 1 .. n : at[k - 1] \in D /\ f[k][at[k - 1]] = MapNext(at[k - 1], start, end, k)
    BY <1>0
  <2> HIDE DEF f
  <2> QED BY <1>0, <1>3, <2>1
<1>5. Eq(CHOOSE x : Eq(x))
  <2> HIDE DEF Eq
  <2> QED BY <1>4
<1>6. Eq(MapSteps(start, end))
  <2> HIDE DEF Eq
  <2> QED BY <1>1, <1>5
<1> QED BY <1>6 DEF n

\* All segments are in the map.
LEMMA MapAll ==
  ASSUME MemoryInv, affinity \in Seq(Ranges), NEW start, NEW end, NEW a \in Nat, Within(start, end, a)
  PROVE  MapHeld(MapSteps(start, end)[Len(pm_map)], start, end, Len(pm_map))
<1> DEFINE n == Len(pm_map)
           S == {k \in 0 .. n : MapHeld(MapSteps(start, end)[k], start, end, k)}
<1>0. n \in Nat /\ 0 \in 0 .. n /\ n \in 0 .. n
  BY MemoryTypes
<1>1. 0 \in S
  <2>1. MapSteps(start, end)[0] = << >>
    BY <1>0, MapRec
  <2>2. Taken(start, end, 0) = {}
    BY DEF Taken
  <2> QED BY <1>0, <2>1, <2>2, NoEntries DEF MapHeld
<1>2. ASSUME NEW k \in 1 .. n, k - 1 \in S PROVE k \in S
  <2>1. k \in 0 .. n /\ k # 0
    BY <1>0
  <2>2. MapSteps(start, end)[k] = MapNext(MapSteps(start, end)[k - 1], start, end, k)
    BY <2>1, MapRec
  <2>3. MapHeld(MapSteps(start, end)[k - 1], start, end, k - 1)
    BY <1>2
  <2> QED BY <2>1, <2>2, <2>3, MapStep
<1>3. \A k \in 0 .. n : k \in S
  <2> HIDE DEF S, n
  <2> QED BY <1>0, <1>1, <1>2, UpTo
<1> QED BY <1>0, <1>3

\* The pages of the segments that the limits leave of a window.
InSegments(p) == \E i \in DOMAIN pm_map : pm_map[i].start <= p /\ p < pm_map[i].end

Testable(ws, we) ==
  {p \in ws .. (we - 1) : pm_limit.lower <= p /\ p < pm_limit.upper /\ InSegments(p)}

LEMMA SetupRight ==
  ASSUME MemoryInv, affinity \in Seq(Ranges), pm_limit \in [lower : Nat, upper : Nat],
         NEW ws, NEW we, NEW a \in Nat, Within(ws, we, a)
  PROVE  /\ SetupVmMap(ws, we) \in SoundMaps
         /\ PagesOf(SetupVmMap(ws, we)) = Testable(ws, we)
         /\ AllCovered(ws, we) => Apart(SetupVmMap(ws, we))
         /\ SetupVmMap(ws, we) # << >> =>
              /\ SetupVmMap(ws, we)[1].base \in Testable(ws, we)
              /\ \A p \in Testable(ws, we) : SetupVmMap(ws, we)[1].base <= p
<1> DEFINE start == IF ws < pm_limit.lower THEN pm_limit.lower ELSE ws
           end == IF we > pm_limit.upper THEN pm_limit.upper ELSE we
           map == MapSteps(start, end)[Len(pm_map)]
<1>1. SetupVmMap(ws, we) = IF start >= end THEN << >> ELSE map
  BY DEF SetupVmMap
<1>2. /\ ws \in Nat /\ we \in Nat /\ pm_limit.lower \in Nat /\ pm_limit.upper \in Nat
      /\ DOMAIN pm_map = 1 .. Len(pm_map)
  BY MemoryTypes DEF Within
<1>3. start \in Nat /\ end \in Nat /\ ws <= start /\ end <= we
  BY <1>2
<1>4. \A p : p \in start .. (end - 1)
             <=> p \in ws .. (we - 1) /\ pm_limit.lower <= p /\ p < pm_limit.upper
  BY <1>2
<1> HIDE DEF start, end
<1>5. Testable(ws, we) = Taken(start, end, Len(pm_map))
  BY <1>2, <1>4 DEF Testable, Taken, InSegments
<1>6. AllCovered(ws, we) => AllCovered(start, end)
  BY <1>4 DEF AllCovered
<1>7. CASE start >= end
  <2>1. start .. (end - 1) = {}
    BY <1>3, <1>7
  <2>2. Testable(ws, we) = {}
    BY <1>5, <2>1 DEF Taken
  <2> QED BY <1>1, <1>7, <2>2, NoEntries
<1>8. CASE start < end
  <2>1. Within(start, end, a)
    BY <1>2, <1>3, <1>8, WithinPart
  <2>2. MapHeld(map, start, end, Len(pm_map))
    BY <2>1, MapAll
  <2>3. SetupVmMap(ws, we) = map
    BY <1>1, <1>3, <1>8
  <2> HIDE DEF map
  <2> QED BY <1>5, <1>6, <2>2, <2>3 DEF MapHeld
<1> QED BY <1>3, <1>7, <1>8

-----------------------------------------------------------------------------
(***************************************************************************)
(* The inductive invariant                                                 *)
(***************************************************************************)
StateTypes ==
  /\ affinity \in AffinityTables /\ phase \in {"init", "run", "swept", "reboot"}
  /\ low_load_addr \in Nat /\ high_load_addr \in Nat
  /\ pm_limit \in [lower : Nat, upper : Nat] /\ stages \in {1, 2}
  /\ window_num \in Nat /\ window_end \in Nat /\ mapped_window \in Nat
  /\ vm_map \in Seq(EntryType) /\ tested \subseteq Nat

\* A segment that begins below the low load limit has room for the program there.
LowHeld ==
  \A i \in DOMAIN pm_map :
    pm_map[i].start < LowLoadLimit => Most2(pm_map[i].start, LowestLoad) + ProgramSize <= LowLoadLimit

\* One copy of the program is below the low load limit, the other is not.
Loaded ==
  phase \in {"run", "swept"} =>
    low_load_addr + ProgramSize <= LowLoadLimit /\ high_load_addr >= LowLoadLimit

Fresh == phase \in {"init", "reboot"} => vm_map = << >> /\ window_num = 0 /\ window_end = 0 /\ tested = {}

\* How far the sweep is.
Position ==
  phase = "run" =>
    \/ window_num = 0 /\ window_end = 0
    \/ window_num = 1 /\ window_end = LowLoadLimit
    \/ window_num > 1 /\ window_end = (window_num - 1) * WindowSize

\* The window is in one part of the address space, the one that is mapped, and window 0 holds what
\* is below the low load limit, the others what is not.
InOnePart(a) ==
  /\ \A p \in UnderTest : p \in Nat /\ InPart(p, a)
  /\ CanMap(vm_map[1].base) /\ a * WindowSize >= PinnedSize => mapped_window = a

VmRight ==
  vm_map # << >> =>
    /\ \E a \in Nat : InOnePart(a)
    /\ \/ window_num = 1 /\ \A p \in UnderTest : p < LowLoadLimit
       \/ window_num > 1 /\ \A p \in UnderTest : p >= LowLoadLimit

\* A page that is tested, or that this sweep leaves out.
Finished(p) ==
  \/ p < pm_limit.lower \/ p >= pm_limit.upper
  \/ p < LowLoadLimit /\ stages > 1
  \/ ~CanMap(p)
  \/ p \in tested

Swept ==
  phase \in {"run", "swept"} =>
    \A p \in Memory : (phase = "run" => p < window_end) => Finished(p)

\* What is tested lies before the next window.
Behind == phase = "run" => \A p \in tested : p < window_end

WindowInv ==
  /\ StateTypes /\ MemoryInv /\ LowHeld /\ Loaded /\ Fresh /\ Position
  /\ VmRight /\ Swept /\ Behind

\* Every page of the map is memory.
LEMMA MappedMemory == ASSUME MemoryInv PROVE MappedPages \subseteq Memory
<1> SUFFICES ASSUME NEW i \in DOMAIN pm_map, NEW p \in Pages(pm_map[i]) PROVE p \in Memory
  BY DEF MappedPages
<1>1. pm_map[i].start \in Nat /\ pm_map[i].end \in Nat
  BY MemoryTypes
<1>2. p \in Nat /\ pm_map[i].start <= p /\ p < pm_map[i].end
  BY <1>1 DEF Pages
<1>3. Reaches(i, pm_map[i].end)
  BY DEF Reaches
<1> QED BY <1>1, <1>2, <1>3 DEF Memory

\* The invariant implies the property.
LEMMA InvImpliesRight == ASSUME WindowInv PROVE WindowsRight
<1> USE DEF WindowInv
<1>1. ProgramUntested
  <2> DEFINE running == IF window_num > 1 THEN low_load_addr ELSE high_load_addr
  <2> SUFFICES ASSUME phase \in {"run", "swept"}, vm_map # << >>, window_num > 0,
                      NEW p \in running .. (running + ProgramSize - 1), p \in UnderTest
               PROVE  FALSE
    BY DEF ProgramUntested
  <2>1. low_load_addr \in Nat /\ high_load_addr \in Nat /\ ProgramSize \in Nat /\ LowLoadLimit \in Nat
        /\ window_num \in Nat
    BY WindowAssumption DEF StateTypes
  <2>2. low_load_addr + ProgramSize <= LowLoadLimit /\ high_load_addr >= LowLoadLimit
    BY DEF Loaded
  <2>3. CASE window_num = 1 /\ p < LowLoadLimit
    BY <2>1, <2>2, <2>3
  <2>4. CASE window_num > 1 /\ p >= LowLoadLimit
    BY <2>1, <2>2, <2>4
  <2> QED BY <2>3, <2>4 DEF VmRight
<1>2. PageOfInverts
  <2> SUFFICES ASSUME window_num > 0, vm_map # << >>, CanMap(vm_map[1].base),
                      NEW i \in DOMAIN vm_map, NEW p \in Physical(vm_map[i])
               PROVE  PageOf(FirstWordMapping(p)) = p
    BY DEF PageOfInverts
  <2>1. PICK a \in Nat : InOnePart(a)
    BY DEF VmRight
  <2>2. p \in UnderTest
    BY DEF UnderTest
  <2>3. p \in Nat /\ InPart(p, a) /\ (a * WindowSize >= PinnedSize => mapped_window = a)
    BY <2>1, <2>2 DEF InOnePart
  <2> QED BY <2>3, PageOfMapping
<1>3. SweepComplete
  <2> SUFFICES ASSUME phase = "swept", NEW page \in MappedPages PROVE Finished(page)
    BY DEF SweepComplete, Finished
  <2>1. page \in Memory
    BY MappedMemory
  <2> QED BY <2>1 DEF Swept
<1> QED BY <1>1, <1>2, <1>3 DEF WindowsRight

\* The hypothesis holds for the map of the machine, and the invariant to begin with.
LEMMA StartInv ==
  ASSUME MapsRight, NEW map \in E820Maps, Start(map, "init")
  PROVE  WindowInv
<1>1. pm_map = PmemInit(map) /\ MapRight(pm_map) /\ HeapStateInit
  BY DEF Start, MapsRight
<1>2. /\ pm_map \in Maps /\ pm_map \in Seq(Segment) /\ Ordered(pm_map)
      /\ \A i, j \in DOMAIN pm_map : i < j => pm_map[i].end <= pm_map[j].end
  BY <1>1, MapsAssumption DEF MapRight
<1>3. HeapInv
  BY <1>1, <1>2, InitInv DEF HeapSpecInit
<1>4. marks = << >>
  BY <1>1 DEF HeapStateInit
<1>5. MemoryInv
  <2>1. \A i, e : ~ Marked(i, e)
    BY <1>4 DEF Marked
  <2> QED BY <1>2, <1>3, <2>1 DEF MemoryInv, Ascends, Reaches, Ordered
<1>6. StateTypes
  <2>1. pm_map # << >> => pm_map[Len(pm_map)] \in Segment
    BY <1>2
  <2>2. pm_limit \in [lower : Nat, upper : Nat]
    BY <2>1 DEF Start, Segment
  <2> QED BY <2>2, NoEntries DEF Start, StateTypes
<1>7. LowHeld
  BY <1>1 DEF MapRight, LowHeld
<1>8. phase = "init" /\ vm_map = << >> /\ window_num = 0 /\ window_end = 0 /\ tested = {}
  BY DEF Start
<1> QED BY <1>5, <1>6, <1>7, <1>8 DEF WindowInv, Loaded, Fresh, Position, VmRight, Swept, Behind

\* What is not mapped is above what is.
LEMMA CanMapBelow ==
  ASSUME NEW p \in Nat, NEW q \in Nat, p <= q, CanMap(q)
  PROVE  CanMap(p)
<1> DEFINE a == p \div WindowSize
           b == q \div WindowSize
           c == PinnedSize \div WindowSize
           w == WindowSize
<1>1. a \in Nat /\ b \in Nat /\ c \in Nat /\ w \in Nat \ {0} /\ PaePages \in Nat /\ NoPaeWindows \in Nat
  BY PartExists, PinnedParts, WindowAssumption
<1>2. a * w <= p /\ q < b * w + w
  BY PartExists DEF InPart
<1>3. CanMap(p) <=> a < c \/ (cpu_mode = "nopae" /\ a < NoPaeWindows) \/ (cpu_mode = "pae" /\ p < PaePages)
                    \/ cpu_mode = "lm"
  BY DEF CanMap
<1>4. b < c \/ (cpu_mode = "nopae" /\ b < NoPaeWindows) \/ (cpu_mode = "pae" /\ q < PaePages)
      \/ cpu_mode = "lm"
  BY DEF CanMap
<1> HIDE DEF a, b, c, w
<1>5. a <= b
  <2> SUFFICES ASSUME b + 1 <= a PROVE FALSE
    BY <1>1
  <2>1. (b + 1) * w <= a * w
    BY <1>1, TimesMonotonic
  <2>2. (b + 1) * w = b * w + w /\ b * w \in Nat /\ a * w \in Nat
    BY <1>1
  <2> QED BY <1>1, <1>2, <2>1, <2>2
<1> QED BY <1>1, <1>3, <1>4, <1>5

\* A step that leaves the segments, the heaps and the marks alone.
LEMMA MemorySame ==
  ASSUME MemoryInv, UNCHANGED heapVars
  PROVE  MemoryInv' /\ Memory' = Memory
<1>1. pm_map' = pm_map /\ heaps' = heaps /\ marks' = marks /\ blocks' = blocks /\ heap_ready' = heap_ready
  BY DEF heapVars
<1>2. HeapInv'
  BY <1>1 DEF MemoryInv, HeapInv, MapInv, HeapsInv, HeapOf, BlocksInv, BlockPlaced, MarksInv, ReadyInv, Ordered
<1>3. \A i, e : Reaches(i, e)' <=> Reaches(i, e)
  BY <1>1 DEF Reaches, Marked
<1> QED BY <1>1, <1>2, <1>3 DEF MemoryInv, Ascends, Memory

\* The heaps at work.
LEMMA HeapsKeep ==
  ASSUME WindowInv, ~Oversized, Heaps
  PROVE  WindowInv'
<1> USE DEF WindowInv
<1>1. KeepsMemory /\ MemoryInv' /\ Memory' \subseteq Memory
  BY HeapNextMemory DEF Heaps
<1>2. /\ UNCHANGED <<e820, affinity, cpu_mode, phase, low_load_addr, high_load_addr, pm_limit, stages>>
      /\ UNCHANGED <<window_num, window_end, mapped_window, vm_map, tested>>
  BY DEF Heaps, machineVars, loadVars, testVars, windowVars
<1>3. LowHeld'
  BY <1>1 DEF KeepsMemory, LowHeld
<1>4. StateTypes' /\ Loaded' /\ Fresh' /\ Position' /\ Behind'
  BY <1>2 DEF StateTypes, Loaded, Fresh, Position, Behind
<1>5. VmRight'
  BY <1>2 DEF VmRight, InOnePart, UnderTest, CanMap
<1>6. Swept'
  <2>1. \A p : Finished(p)' <=> Finished(p)
    BY <1>2 DEF Finished, CanMap
  <2> QED BY <1>1, <1>2, <2>1 DEF Swept
<1> QED BY <1>1, <1>3, <1>4, <1>5, <1>6

\* The places for the program.
LEMMA LoadKeeps ==
  ASSUME WindowInv, SetLoadAddr
  PROVE  WindowInv'
<1> USE DEF WindowInv
<1>1. /\ UNCHANGED <<heapVars, e820, affinity, cpu_mode, pm_limit, stages>>
      /\ UNCHANGED <<window_num, window_end, mapped_window, vm_map, tested>>
      /\ phase = "init"
  BY DEF SetLoadAddr, machineVars, testVars, windowVars
<1>2. MemoryInv' /\ Memory' = Memory /\ pm_map' = pm_map
  BY <1>1, MemorySame DEF heapVars
<1>3. vm_map = << >> /\ window_num = 0 /\ window_end = 0 /\ tested = {}
  BY <1>1 DEF Fresh
<1>4. \/ /\ phase' = "run"
         /\ low_load_addr' \in LoadAddr(LowestLoad, LowLoadLimit)
         /\ high_load_addr' \in LoadAddr(LowLoadLimit, HighLoadLimit)
      \/ phase' = "reboot" /\ UNCHANGED <<low_load_addr, high_load_addr>>
  BY DEF SetLoadAddr, loadVars
<1>5. /\ LowLoadLimit \in Nat /\ LowestLoad \in Nat /\ HighLoadLimit \in Nat /\ ProgramSize \in Nat
      /\ Program.start \in Nat
  BY WindowAssumption, HeapAssumption
<1>6. ASSUME NEW lower \in Nat, NEW upper \in Nat, NEW s \in LoadAddr(lower, upper)
      PROVE  /\ s \in Nat /\ s >= lower
             /\ \/ s + ProgramSize <= upper
                \/ \E i \in DOMAIN pm_map : s = Most2(pm_map[i].start, lower) /\ s < upper
  <2> DEFINE fitting == {i \in DOMAIN pm_map : Fits(i, lower, upper)}
  <2>1. CASE Program.start >= lower /\ Program.start + ProgramSize <= upper /\ s = Program.start
    BY <1>5, <2>1
  <2>2. CASE \E i \in fitting : s = TryLoad(i, lower)
    <3>1. PICK i \in DOMAIN pm_map : Fits(i, lower, upper) /\ s = TryLoad(i, lower)
      BY <2>2
    <3>2. pm_map[i].start \in Nat /\ pm_map[i].end \in Nat /\ i \in 1 .. i
      BY MemoryTypes
    <3>3. s = Most2(pm_map[i].start, lower) /\ s \in Nat /\ s >= lower
      BY <3>1, <3>2 DEF TryLoad, Most2
    <3>4. /\ TryLoad(i, lower) + ProgramSize <= pm_map[i].end
          /\ TryLoad(i, lower) + ProgramSize > pm_map[i].end \/ TryLoad(i, lower) < upper
      BY <3>1, <3>2, Zenon DEF Fits
    <3>5. s < upper
      BY <1>5, <3>1, <3>2, <3>3, <3>4
    <3> QED BY <3>3, <3>5
  <2> QED BY <2>1, <2>2 DEF LoadAddr
<1>7. CASE phase' = "run"
  <2>1. /\ low_load_addr' \in LoadAddr(LowestLoad, LowLoadLimit)
        /\ high_load_addr' \in LoadAddr(LowLoadLimit, HighLoadLimit)
    BY <1>4, <1>7
  <2>2. low_load_addr' \in Nat /\ low_load_addr' + ProgramSize <= LowLoadLimit
    <3>1. /\ low_load_addr' \in Nat
          /\ \/ low_load_addr' + ProgramSize <= LowLoadLimit
             \/ \E i \in DOMAIN pm_map : /\ low_load_addr' = Most2(pm_map[i].start, LowestLoad)
                                         /\ low_load_addr' < LowLoadLimit
      BY <1>5, <1>6, <2>1
    <3>2. ASSUME NEW i \in DOMAIN pm_map, low_load_addr' = Most2(pm_map[i].start, LowestLoad),
                 low_load_addr' < LowLoadLimit
          PROVE  low_load_addr' + ProgramSize <= LowLoadLimit
      <4>1. pm_map[i].start \in Nat
        BY MemoryTypes
      <4>2. pm_map[i].start < LowLoadLimit
        BY <1>5, <3>2, <4>1 DEF Most2
      <4> QED BY <3>2, <4>2 DEF LowHeld
    <3> QED BY <3>1, <3>2
  <2>3. high_load_addr' \in Nat /\ high_load_addr' >= LowLoadLimit
    BY <1>5, <1>6, <2>1
  <2>4. StateTypes' /\ Loaded'
    BY <1>1, <1>7, <2>2, <2>3 DEF StateTypes, Loaded
  <2>5. Memory' \subseteq Nat
    BY <1>2 DEF Memory
  <2>6. LowHeld' /\ Fresh' /\ Position' /\ VmRight' /\ Behind'
    BY <1>1, <1>2, <1>3, <1>7 DEF LowHeld, Fresh, Position, VmRight, Behind
  <2>7. Swept'
    BY <1>1, <1>3, <1>7, <2>5 DEF Swept
  <2> QED BY <1>2, <2>4, <2>6, <2>7
<1>8. CASE phase' = "reboot"
  <2>1. UNCHANGED <<low_load_addr, high_load_addr>>
    BY <1>4, <1>8
  <2>2. StateTypes' /\ Loaded'
    BY <1>1, <1>8, <2>1 DEF StateTypes, Loaded
  <2>3. LowHeld' /\ Fresh' /\ Position' /\ VmRight' /\ Behind' /\ Swept'
    BY <1>1, <1>2, <1>3, <1>8 DEF LowHeld, Fresh, Position, VmRight, Behind, Swept
  <2> QED BY <1>2, <2>2, <2>3
<1> QED BY <1>4, <1>7, <1>8

\* The next test begins at the first window.
LEMMA NextTestKeeps ==
  ASSUME WindowInv, NextTest
  PROVE  WindowInv'
<1> USE DEF WindowInv
<1>1. /\ UNCHANGED <<heapVars, affinity, cpu_mode, low_load_addr, high_load_addr, mapped_window>>
      /\ phase = "swept" /\ phase' = "run"
      /\ pm_limit' \in Limits \cup {pm_limit} /\ stages' \in {1, 2}
      /\ window_num' = 0 /\ window_end' = 0 /\ vm_map' = << >> /\ tested' = {}
  BY DEF NextTest, machineVars, loadVars
<1>2. MemoryInv' /\ Memory' = Memory /\ pm_map' = pm_map
  BY <1>1, MemorySame DEF heapVars
<1>3. pm_limit' \in [lower : Nat, upper : Nat]
  BY <1>1, WindowAssumption DEF StateTypes
<1>4. StateTypes'
  BY <1>1, <1>3, NoEntries DEF StateTypes
<1>5. Memory' \subseteq Nat
  BY <1>2 DEF Memory
<1>6. LowHeld' /\ Loaded' /\ Fresh' /\ Position' /\ VmRight' /\ Behind'
  BY <1>1, <1>2 DEF LowHeld, Loaded, Fresh, Position, VmRight, Behind
<1>7. Swept'
  BY <1>1, <1>5 DEF Swept
<1> QED BY <1>2, <1>4, <1>6, <1>7

\* The place of the next window.
LEMMA Places ==
  ASSUME StateTypes, Position, phase = "run"
  PROVE  /\ FirstWindow \in Nat /\ WindowStart(FirstWindow) \in Nat /\ WindowEnd(FirstWindow) \in Nat
         /\ window_end <= WindowStart(FirstWindow) /\ window_end <= WindowEnd(FirstWindow)
         /\ \E a \in Nat : /\ WindowStart(FirstWindow) < WindowEnd(FirstWindow)
                                => Within(WindowStart(FirstWindow), WindowEnd(FirstWindow), a)
                           /\ FirstWindow < 2 => a = 0
         /\ FirstWindow = 0 => WindowEnd(FirstWindow) = LowLoadLimit
         /\ FirstWindow > 0 => /\ WindowStart(FirstWindow) >= LowLoadLimit
                               /\ WindowEnd(FirstWindow) = FirstWindow * WindowSize
         /\ \A p \in Nat : window_end <= p /\ p < WindowStart(FirstWindow)
                             => p < pm_limit.lower \/ (p < LowLoadLimit /\ stages > 1)
<1> DEFINE w == FirstWindow
           ws == WindowStart(w)
           we == WindowEnd(w)
           n == WindowSize
<1>1. /\ n \in Nat \ {0} /\ LowLoadLimit \in 1 .. n /\ PageSize \in Nat \ {0}
      /\ window_num \in Nat /\ window_end \in Nat /\ pm_limit.lower \in Nat /\ stages \in {1, 2}
  BY WindowAssumption DEF StateTypes
<1>2. \/ w = window_num
      \/ w = 1 /\ window_num = 0 /\ (stages > 1 \/ pm_limit.lower >= LowLoadLimit * PageSize)
  BY DEF FirstWindow
<1>3. 0 * n = 0 /\ 1 * n = n
  BY <1>1
<1>4. CASE w = 0
  <2>1. ws = 0 /\ we = LowLoadLimit /\ window_num = 0 /\ window_end = 0
    BY <1>1, <1>2, <1>4 DEF WindowStart, WindowEnd, Position
  <2>2. Within(0, LowLoadLimit, 0)
    BY <1>1, <1>3 DEF Within, InPart
  <2> HIDE DEF w, ws, we
  <2> QED BY <1>1, <1>4, <2>1, <2>2 DEF w, ws, we
<1>5. CASE w = 1
  <2>1. ws = LowLoadLimit /\ we = n /\ window_end <= ws /\ window_end <= we
    BY <1>1, <1>2, <1>5 DEF WindowStart, WindowEnd, Position
  <2>2. ws < we => Within(ws, we, 0)
    BY <1>1, <1>3, <2>1 DEF Within, InPart
  <2>3. ASSUME NEW p \in Nat, window_end <= p, p < ws
        PROVE  p < pm_limit.lower \/ (p < LowLoadLimit /\ stages > 1)
    <3>1. window_num = 0 /\ (stages > 1 \/ pm_limit.lower >= LowLoadLimit * PageSize)
      BY <1>1, <1>2, <1>5, <2>1, <2>3 DEF Position
    <3>2. LowLoadLimit * PageSize >= LowLoadLimit
      <4>1. 1 * LowLoadLimit <= PageSize * LowLoadLimit
        BY <1>1, TimesMonotonic
      <4> QED BY <1>1, <4>1
    <3>3. LowLoadLimit * PageSize \in Nat
      BY <1>1
    <3> QED BY <1>1, <2>1, <2>3, <3>1, <3>2, <3>3
  <2> HIDE DEF w, ws, we
  <2> QED BY <1>1, <1>3, <1>5, <2>1, <2>2, <2>3 DEF w, ws, we, n
<1>6. CASE w # 0 /\ w # 1
  <2>1. w = window_num /\ w \in Nat /\ w > 1
    BY <1>1, <1>2, <1>6
  <2>2. ws = window_end /\ we = window_end + n /\ window_end = (w - 1) * n
    BY <1>1, <1>6, <2>1 DEF WindowStart, WindowEnd, Position
  <2> DEFINE a == w - 1
             x == a * n
  <2>3. a \in Nat /\ x \in Nat /\ a >= 1 /\ w * n = x + n
    BY <1>1, <2>1
  <2>4. x >= n
    <3>1. 1 * n <= a * n
      BY <1>1, <2>3, TimesMonotonic
    <3> QED BY <1>3, <3>1
  <2>5. Within(ws, we, a)
    <3>1. ws = x /\ we = x + n
      BY <2>2
    <3> HIDE DEF w, ws, we, x
    <3>2. ws \in Nat /\ we \in Nat /\ ws < we /\ x <= ws /\ ws < x + n /\ x <= we - 1 /\ we - 1 < x + n
      BY <1>1, <2>3, <3>1
    <3> QED BY <3>2 DEF Within, InPart, x
  <2> HIDE DEF w, ws, we, x
  <2>6. w \in Nat /\ ws \in Nat /\ we \in Nat /\ window_end <= ws /\ window_end <= we /\ ws >= LowLoadLimit /\ we = w * n
    BY <1>1, <2>1, <2>2, <2>3, <2>4 DEF x
  <2>7. ~ (w < 2) /\ w > 0 /\ w # 0
    BY <2>1
  <2>8. \A p \in Nat : ~ (window_end <= p /\ p < ws)
    BY <1>1, <2>2
  <2> HIDE DEF a
  <2> QED BY <2>3, <2>5, <2>6, <2>7, <2>8 DEF w, ws, we, n
<1> QED BY <1>4, <1>5, <1>6

\* A window may be empty.
LEMMA SetupAny ==
  ASSUME MemoryInv, affinity \in Seq(Ranges), pm_limit \in [lower : Nat, upper : Nat],
         NEW ws \in Nat, NEW we \in Nat, NEW a \in Nat, ws < we => Within(ws, we, a)
  PROVE  /\ SetupVmMap(ws, we) \in SoundMaps
         /\ PagesOf(SetupVmMap(ws, we)) = Testable(ws, we)
         /\ AllCovered(ws, we) => Apart(SetupVmMap(ws, we))
         /\ SetupVmMap(ws, we) # << >> =>
              /\ SetupVmMap(ws, we)[1].base \in Testable(ws, we)
              /\ \A p \in Testable(ws, we) : SetupVmMap(ws, we)[1].base <= p
         /\ \A p \in Testable(ws, we) : p \in Nat /\ InPart(p, a)
<1>1. CASE ws < we
  <2>1. \A p \in Testable(ws, we) : p \in ws .. (we - 1)
    BY DEF Testable
  <2> QED BY <1>1, <2>1, SetupRight, WithinAll
<1>2. CASE ~ (ws < we)
  <2> DEFINE start == IF ws < pm_limit.lower THEN pm_limit.lower ELSE ws
             end == IF we > pm_limit.upper THEN pm_limit.upper ELSE we
  <2>1. start >= end
    BY <1>2
  <2>2. SetupVmMap(ws, we) = << >>
    BY <2>1 DEF SetupVmMap
  <2>3. Testable(ws, we) = {}
    <3>1. ws .. (we - 1) = {}
      BY <1>2
    <3> QED BY <3>1 DEF Testable
  <2> QED BY <2>2, <2>3, NoEntries
<1> QED BY <1>1, <1>2

\* Without marks, the memory is what the segments hold.
LEMMA MemoryNow ==
  ASSUME MemoryInv, marks = << >>
  PROVE  /\ \A p \in Memory : p \in Nat /\ InSegments(p)
         /\ pm_map # << >> => \A p \in Memory : p < LastEnd
<1>1. \A i, e : ~ Marked(i, e)
  BY DEF Marked
<1>2. ASSUME NEW p \in Memory PROVE p \in Nat /\ InSegments(p) /\ (pm_map # << >> => p < LastEnd)
  <2>1. PICK i \in DOMAIN pm_map : p \in Nat /\ pm_map[i].start <= p /\ p < pm_map[i].end
    BY <1>1 DEF Memory, Reaches
  <2>2. /\ DOMAIN pm_map = 1 .. Len(pm_map) /\ Len(pm_map) \in Nat
        /\ pm_map[i].end \in Nat /\ pm_map[Len(pm_map)].end \in Nat
    <3>1. i \in 1 .. Len(pm_map) /\ Len(pm_map) \in Nat /\ DOMAIN pm_map = 1 .. Len(pm_map)
      BY MemoryTypes
    <3>2. Len(pm_map) \in DOMAIN pm_map
      BY <3>1
    <3> QED BY <3>1, <3>2, MemoryTypes
  <2>3. pm_map[i].end <= pm_map[Len(pm_map)].end
    <3>1. CASE i = Len(pm_map)
      BY <2>2, <3>1
    <3>2. CASE i # Len(pm_map)
      <4>1. i < Len(pm_map) /\ Len(pm_map) \in DOMAIN pm_map
        BY <2>2, <3>2
      <4> QED BY <2>2, <4>1 DEF MemoryInv, Ascends, Reaches
    <3> QED BY <3>1, <3>2
  <2> QED BY <2>1, <2>2, <2>3 DEF InSegments, LastEnd
<1> QED BY <1>2

\* What the next window holds.
LEMMA NextWindow ==
  ASSUME WindowInv, phase = "run", NEW ws, NEW we, NEW map, ws = WindowStart(FirstWindow),
         we = WindowEnd(FirstWindow), map = SetupVmMap(ws, we)
  PROVE  /\ ws \in Nat /\ we \in Nat /\ map \in SoundMaps /\ PagesOf(map) = Testable(ws, we)
         /\ AllCovered(ws, we) => Apart(map)
         /\ map # << >> => map[1].base \in Testable(ws, we)
         /\ map # << >> => \A p \in Testable(ws, we) : map[1].base <= p
         /\ \E a \in Nat : /\ \A p \in Testable(ws, we) : p \in Nat /\ InPart(p, a)
                           /\ FirstWindow < 2 => a = 0
<1>1. PICK a \in Nat : (ws < we => Within(ws, we, a)) /\ (FirstWindow < 2 => a = 0)
  BY Places DEF WindowInv
<1>2. ws \in Nat /\ we \in Nat /\ MemoryInv /\ pm_limit \in [lower : Nat, upper : Nat]
  BY Places DEF WindowInv, StateTypes
<1>3. affinity \in Seq(Ranges)
  BY WindowAssumption DEF WindowInv, StateTypes, Ranges
<1> QED BY <1>1, <1>2, <1>3, SetupAny

\* The pages run_test puts in front of the first segment of the first window.
PutInFront(map, w) == IF w = 0 /\ map # << >> THEN pm_limit.lower .. (map[1].base - 1) ELSE {}

\* What the test gets.
LEMMA Selected ==
  ASSUME WindowInv, phase = "run", NEW w, NEW ws, NEW we, NEW map, NEW sel, w = FirstWindow,
         ws = WindowStart(w), we = WindowEnd(w), map = SetupVmMap(ws, we), sel = SelectLower(map, w)
  PROVE  /\ sel \in Seq(EntryType) /\ (sel # << >> <=> map # << >>)
         /\ map # << >> => sel[1].base = map[1].base
         /\ PagesOf(sel) = Testable(ws, we) \cup PutInFront(map, w)
         /\ AllCovered(ws, we) => Apart(sel)
         /\ \A p \in PutInFront(map, w) : p \in Nat /\ p < LowLoadLimit
<1>1. /\ map \in SoundMaps /\ PagesOf(map) = Testable(ws, we) /\ (AllCovered(ws, we) => Apart(map))
      /\ map # << >> => map[1].base \in Testable(ws, we)
      /\ map # << >> => \A p \in Testable(ws, we) : map[1].base <= p
  BY NextWindow
<1>2. map \in Seq(EntryType) /\ \A i \in DOMAIN map : Sound(map[i])
  BY <1>1 DEF SoundMaps
<1>3. CASE ~ (w = 0 /\ map # << >>)
  BY <1>1, <1>2, <1>3 DEF SelectLower, PutInFront
<1>4. CASE w = 0 /\ map # << >>
  <2> DEFINE lower == pm_limit.lower
             base == map[1].base
             e == [map[1] EXCEPT !.start = FirstWordMapping(lower)]
  <2>1. /\ lower \in Nat /\ LowLoadLimit \in 1 .. WindowSize /\ WindowSize \in Nat
        /\ PinnedSize \in Nat /\ WindowSize <= PinnedSize
    BY WindowAssumption DEF WindowInv, StateTypes
  <2>2. 1 \in DOMAIN map /\ Sound(map[1]) /\ map[1] \in EntryType
    <3>1. 1 \in DOMAIN map
      BY <1>2, <1>4
    <3> QED BY <1>2, <3>1 DEF Sound
  <2>3. we = LowLoadLimit
    BY <1>4 DEF WindowEnd
  <2>4. ws = 0
    BY <1>4 DEF WindowStart
  <2>5. base \in Nat /\ lower <= base /\ base < LowLoadLimit
    <3>1. base \in 0 .. (LowLoadLimit - 1) /\ lower <= base
      BY <1>1, <1>4, <2>3, <2>4 DEF Testable
    <3> QED BY <2>1, <3>1
  <2>6. FirstWordMapping(lower) = lower /\ FirstWordMapping(base) = base
    BY <2>1, <2>5 DEF FirstWordMapping
  <2>7. sel = [map EXCEPT ![1] = e]
    BY <1>4 DEF SelectLower
  <2>8. /\ e \in EntryType /\ e.base = base /\ e.start = lower /\ e.end = map[1].end
        /\ map[1].start = base /\ base <= map[1].end /\ map[1].end \in Nat
    BY <2>1, <2>2, <2>6 DEF EntryType, Sound
  <2>9. /\ Physical(e) = lower .. map[1].end
        /\ Physical(map[1]) = base .. map[1].end
    <3>1. Physical(e) = (base + lower - base) .. (base + lower - base + map[1].end - lower)
      BY <2>6, <2>8 DEF Physical
    <3>2. Physical(map[1]) = (base + base - base) .. (base + base - base + map[1].end - base)
      BY <2>6, <2>8 DEF Physical
    <3> QED BY <2>1, <2>5, <2>8, <3>1, <3>2
  <2>10. PutInFront(map, w) = lower .. (base - 1)
    BY <1>4 DEF PutInFront
  <2>11. Physical(e) = Physical(map[1]) \cup PutInFront(map, w)
    BY <2>1, <2>5, <2>8, <2>9, <2>10
  <2>12. \A p \in PutInFront(map, w) : p \in Nat /\ p < base /\ p < LowLoadLimit
    BY <2>1, <2>5, <2>10
  <2> HIDE DEF e, base, lower
  <2>13. /\ sel \in Seq(EntryType) /\ DOMAIN sel = DOMAIN map /\ sel[1] = e
         /\ \A i \in DOMAIN map : i # 1 => sel[i] = map[i]
    BY <1>2, <2>2, <2>7, <2>8
  <2>14. sel # << >> /\ sel[1].base = map[1].base
    BY <2>2, <2>8, <2>13 DEF base
  <2>15. PagesOf(sel) = PagesOf(map) \cup PutInFront(map, w)
    <3>1. \A i \in DOMAIN map : Physical(sel[i]) = IF i = 1 THEN Physical(map[1]) \cup PutInFront(map, w)
                                                            ELSE Physical(map[i])
      BY <2>11, <2>13
    <3> HIDE DEF PutInFront
    <3> QED BY <2>2, <2>13, <3>1 DEF PagesOf
  <2>16. ASSUME Apart(map) PROVE Apart(sel)
    <3>1. \A i \in DOMAIN map : PutInFront(map, w) \cap Physical(map[i]) = {}
      <4> SUFFICES ASSUME NEW p \in PutInFront(map, w), NEW i \in DOMAIN map, p \in Physical(map[i])
                   PROVE  FALSE
        OBVIOUS
      <4>1. p \in Testable(ws, we)
        BY <1>1 DEF PagesOf
      <4>2. base <= p
        BY <1>1, <1>4, <4>1 DEF base
      <4> QED BY <2>5, <2>12, <4>2
    <3>2. \A i \in DOMAIN map : i # 1 => Physical(sel[i]) = Physical(map[i])
      BY <2>13
    <3>3. Physical(sel[1]) = Physical(map[1]) \cup PutInFront(map, w)
      BY <2>11, <2>13
    <3> SUFFICES ASSUME NEW i \in DOMAIN map, NEW j \in DOMAIN map, i # j
                 PROVE  Physical(sel[i]) \cap Physical(sel[j]) = {}
      BY <2>13 DEF Apart
    <3>4. Physical(map[i]) \cap Physical(map[j]) = {}
      BY <2>16 DEF Apart
    <3>5. CASE i # 1 /\ j # 1
      BY <3>2, <3>4, <3>5
    <3>6. CASE i = 1 /\ j # 1
      BY <3>1, <3>2, <3>3, <3>4, <3>6
    <3>7. CASE i # 1 /\ j = 1
      BY <3>1, <3>2, <3>3, <3>4, <3>7
    <3> QED BY <3>5, <3>6, <3>7
  <2> QED BY <1>1, <1>4, <2>12, <2>13, <2>14, <2>15, <2>16
<1> QED BY <1>3, <1>4

\* The part that is mapped is the one the window is in.
LEMMA PartMapped ==
  ASSUME NEW p \in Nat, NEW a \in Nat, InPart(p, a)
  PROVE  /\ a * WindowSize >= PinnedSize => MapWindow(p) = a
         /\ a = 0 => CanMap(p)
<1>1. p \div WindowSize = a
  BY PartOf
<1>2. a < PinnedSize \div WindowSize <=> a * WindowSize < PinnedSize
  BY PinnedOrNot
<1>3. a * WindowSize \in Nat /\ PinnedSize \in Nat
  BY WindowAssumption
<1>4. PinnedSize \div WindowSize \in Nat \ {0}
  BY PinnedParts
<1>5. a * WindowSize >= PinnedSize => MapWindow(p) = a
  BY <1>1, <1>2, <1>3 DEF MapWindow
<1>6. a = 0 => CanMap(p)
  BY <1>1, <1>4 DEF CanMap
<1> QED BY <1>5, <1>6

\* A window is set up, mapped and tested.
LEMMA WindowKeeps ==
  ASSUME WindowInv, Window
  PROVE  WindowInv'
<1> USE DEF WindowInv
<1> DEFINE w == FirstWindow
           ws == WindowStart(w)
           we == WindowEnd(w)
           map == SetupVmMap(ws, we)
           sel == SelectLower(map, w)
           mapped == map # << >> => CanMap(map[1].base)
<1>1. /\ phase = "run" /\ marks = << >> /\ vm_map' = sel /\ window_end' = we
      /\ window_num' = IF mapped THEN w + 1 ELSE w
      /\ mapped_window' = IF map # << >> /\ mapped THEN MapWindow(map[1].base) ELSE mapped_window
      /\ tested' = IF mapped THEN tested \cup PagesOf(sel) ELSE tested
      /\ phase' = IF mapped /\ we < LastEnd THEN "run" ELSE "swept"
      /\ UNCHANGED <<heapVars, affinity, cpu_mode, low_load_addr, high_load_addr, pm_limit, stages>>
  BY DEF Window, UnderTest, PagesOf, Physical, machineVars, loadVars, testVars
<1>2. MemoryInv' /\ Memory' = Memory /\ pm_map' = pm_map
  BY <1>1, MemorySame DEF heapVars
<1>3. /\ ws \in Nat /\ we \in Nat /\ map \in SoundMaps /\ PagesOf(map) = Testable(ws, we)
      /\ map # << >> => map[1].base \in Testable(ws, we)
      /\ map # << >> => \A p \in Testable(ws, we) : map[1].base <= p
      /\ \E a \in Nat : /\ \A p \in Testable(ws, we) : p \in Nat /\ InPart(p, a)
                        /\ w < 2 => a = 0
  BY <1>1, NextWindow
<1>4. PICK a \in Nat : /\ \A p \in Testable(ws, we) : p \in Nat /\ InPart(p, a)
                       /\ w < 2 => a = 0
  BY <1>3
<1>5. /\ w \in Nat /\ window_end <= ws
      /\ w = 0 => we = LowLoadLimit
      /\ w > 0 => ws >= LowLoadLimit /\ we = w * WindowSize
      /\ \A p \in Nat : window_end <= p /\ p < ws => p < pm_limit.lower \/ (p < LowLoadLimit /\ stages > 1)
  BY <1>1, Places
<1>6. /\ window_end \in Nat /\ LowLoadLimit \in Nat /\ WindowSize \in Nat \ {0} /\ tested \subseteq Nat
      /\ mapped_window \in Nat /\ pm_limit.lower \in Nat /\ pm_limit.upper \in Nat
  BY WindowAssumption DEF StateTypes
<1>7. /\ sel \in Seq(EntryType) /\ (sel # << >> <=> map # << >>)
      /\ map # << >> => sel[1].base = map[1].base
      /\ PagesOf(sel) = Testable(ws, we) \cup PutInFront(map, w)
      /\ \A p \in PutInFront(map, w) : p \in Nat /\ p < LowLoadLimit /\ w = 0
  <2>1. \A p \in PutInFront(map, w) : w = 0
    BY DEF PutInFront
  <2> QED BY <1>1, <2>1, Selected
<1> HIDE DEF w, ws, we, map, sel
<1>8. \A p \in Testable(ws, we) : p \in Nat /\ ws <= p /\ p < we
  BY <1>3 DEF Testable
<1>9. \A p \in Nat : CanMap(p)' <=> CanMap(p)
  BY <1>1 DEF CanMap
<1>10. ~mapped => map # << >> /\ w > 1
  <2> SUFFICES ASSUME ~mapped, w < 2 PROVE FALSE
    BY <1>5
  <2>1. map # << >> /\ ~CanMap(map[1].base) /\ a = 0
    BY <1>4
  <2>2. map[1].base \in Nat /\ InPart(map[1].base, a)
    BY <1>3, <1>4, <2>1
  <2> QED BY <2>1, <2>2, PartMapped
<1> HIDE DEF mapped
<1>11. StateTypes'
  <2>1. mapped_window' \in Nat
    <3>1. map # << >> => MapWindow(map[1].base) \in Nat
      <4> SUFFICES ASSUME map # << >> PROVE MapWindow(map[1].base) \in Nat
        OBVIOUS
      <4>1. map[1].base \in Nat
        BY <1>3, <1>8
      <4>2. map[1].base \div WindowSize \in Nat
        BY <4>1, PartExists
      <4> QED BY <1>6, <4>2 DEF MapWindow
    <3> QED BY <1>1, <1>6, <3>1
  <2>2. tested' \subseteq Nat
    BY <1>1, <1>6, <1>8, <1>7
  <2>3. window_num' \in Nat /\ window_end' \in Nat /\ vm_map' \in Seq(EntryType)
        /\ phase' \in {"run", "swept"}
    BY <1>1, <1>3, <1>5, <1>7
  <2> QED BY <1>1, <2>1, <2>2, <2>3 DEF StateTypes
<1>12. LowHeld' /\ Loaded' /\ Fresh'
  <2>1. phase' \in {"run", "swept"}
    BY <1>1
  <2> QED BY <1>1, <1>2, <2>1 DEF LowHeld, Loaded, Fresh
<1>13. Position'
  <2> SUFFICES ASSUME phase' = "run"
               PROVE  \/ window_num' = 1 /\ window_end' = LowLoadLimit
                      \/ window_num' > 1 /\ window_end' = (window_num' - 1) * WindowSize
    BY DEF Position
  <2>1. mapped /\ window_num' = w + 1 /\ window_end' = we
    BY <1>1
  <2>2. CASE w = 0
    BY <1>5, <2>1, <2>2
  <2>3. CASE w > 0
    <3>1. window_num' - 1 = w /\ window_num' > 1
      BY <1>5, <2>1, <2>3
    <3> QED BY <1>5, <2>1, <2>3, <3>1
  <2> QED BY <1>5, <2>2, <2>3
<1>14. UnderTest' = Testable(ws, we) \cup PutInFront(map, w)
  BY <1>1, <1>7 DEF UnderTest, PagesOf, Physical
<1>15. \A p \in PutInFront(map, w) : InPart(p, a)
  <2> SUFFICES ASSUME NEW p \in PutInFront(map, w) PROVE InPart(p, 0)
    BY <1>4, <1>7
  <2>1. p \in Nat /\ p < LowLoadLimit /\ LowLoadLimit <= WindowSize /\ 0 * WindowSize = 0
    BY <1>7, WindowAssumption
  <2> QED BY <1>6, <2>1 DEF InPart
<1>16. VmRight'
  <2> SUFFICES ASSUME map # << >>
               PROVE  /\ InOnePart(a)'
                      /\ \/ window_num' = 1 /\ \A p \in UnderTest' : p < LowLoadLimit
                         \/ window_num' > 1 /\ \A p \in UnderTest' : p >= LowLoadLimit
    BY <1>1, <1>7 DEF VmRight
  <2>1. map[1].base \in Nat /\ InPart(map[1].base, a)
    BY <1>3, <1>4
  <2>2. CanMap(vm_map[1].base)' /\ a * WindowSize >= PinnedSize => mapped_window' = a
    <3> SUFFICES ASSUME CanMap(vm_map[1].base)', a * WindowSize >= PinnedSize PROVE mapped_window' = a
      OBVIOUS
    <3>1. CanMap(map[1].base)
      BY <1>1, <1>7 DEF CanMap
    <3>2. mapped_window' = MapWindow(map[1].base)
      BY <1>1, <3>1 DEF mapped
    <3> QED BY <2>1, <3>2, PartMapped
  <2>3. InOnePart(a)'
    BY <1>4, <1>14, <1>7, <1>15, <2>2 DEF InOnePart, InPart
  <2>4. CASE w = 0
    <3>1. window_num' = 1
      BY <1>1, <1>10, <2>4
    <3> QED BY <1>5, <1>8, <1>14, <1>7, <2>3, <2>4, <3>1
  <2>5. CASE w > 0
    <3>1. window_num' > 1
      BY <1>1, <1>5, <1>10, <2>5
    <3> QED BY <1>3, <1>5, <1>6, <1>8, <1>14, <1>7, <2>3, <2>5, <3>1
  <2> QED BY <1>5, <2>4, <2>5
<1>17. Behind'
  <2> SUFFICES ASSUME phase' = "run", NEW p \in tested' PROVE p < window_end'
    BY DEF Behind
  <2>1. mapped /\ window_end' = we
    BY <1>1
  <2>2. CASE p \in tested
    <3>1. p < window_end /\ p \in Nat
      BY <1>1, <1>6, <2>2 DEF Behind
    <3>2. window_end <= we
      BY <1>1, Places DEF w, we
    <3> QED BY <1>3, <1>6, <2>1, <3>1, <3>2
  <2>3. CASE p \in Testable(ws, we)
    BY <1>8, <2>1, <2>3
  <2>4. CASE p \in PutInFront(map, w)
    BY <1>5, <1>7, <2>1, <2>4
  <2> QED BY <1>1, <1>7, <2>2, <2>3, <2>4
<1>18. Swept'
  <2> SUFFICES ASSUME NEW p \in Memory, phase' = "run" => p < window_end'
               PROVE  Finished(p)'
    BY <1>2 DEF Swept
  <2>1. p \in Nat /\ InSegments(p) /\ (pm_map # << >> => p < LastEnd)
    BY <1>1, MemoryNow
  <2>2. tested \subseteq tested'
    BY <1>1
  <2>3. CASE p < window_end
    <3>1. Finished(p)
      BY <1>1, <2>3 DEF Swept
    <3> QED BY <1>1, <1>9, <2>1, <2>2, <3>1 DEF Finished
  <2>4. CASE window_end <= p /\ p < ws
    <3>1. p < pm_limit.lower \/ (p < LowLoadLimit /\ stages > 1)
      BY <1>5, <2>1, <2>4
    <3> QED BY <1>1, <3>1 DEF Finished
  <2>5. CASE ws <= p /\ p < we
    <3>1. p \in Testable(ws, we) \/ p < pm_limit.lower \/ p >= pm_limit.upper
      BY <1>3, <1>6, <2>1, <2>5 DEF Testable
    <3>2. CASE p \in Testable(ws, we)
      <4>1. CASE mapped
        <5>1. p \in tested'
          BY <1>1, <1>7, <3>2, <4>1
        <5> QED BY <5>1 DEF Finished
      <4>2. CASE ~mapped
        <5>1. map # << >> /\ ~CanMap(map[1].base) /\ map[1].base \in Nat /\ map[1].base <= p
          BY <1>3, <1>8, <1>10, <3>2, <4>2 DEF mapped
        <5>2. ~CanMap(p)
          BY <2>1, <5>1, CanMapBelow
        <5> QED BY <1>9, <2>1, <5>2 DEF Finished
      <4> QED BY <4>1, <4>2
    <3> QED BY <1>1, <3>1, <3>2 DEF Finished
  <2>6. CASE p >= we
    <3>1. ~mapped
      <4> SUFFICES ASSUME mapped PROVE FALSE
        OBVIOUS
      <4>1. pm_map # << >>
        BY <2>1 DEF InSegments
      <4>2. LastEnd \in Nat
        <5>1. Len(pm_map) \in Nat /\ DOMAIN pm_map = 1 .. Len(pm_map) /\ pm_map \in Seq(Segment)
          BY MemoryTypes DEF MemoryInv
        <5>2. Len(pm_map) \in DOMAIN pm_map
          BY <4>1, <5>1
        <5> QED BY <5>2, MemoryTypes DEF LastEnd
      <4>3. we < LastEnd
        BY <1>3, <2>1, <2>6, <4>1, <4>2
      <4>4. phase' = "run" /\ window_end' = we
        BY <1>1, <4>3
      <4> QED BY <1>3, <2>1, <2>6, <4>4
    <3>2. map # << >> /\ ~CanMap(map[1].base) /\ map[1].base \in Nat /\ map[1].base <= p
      <4>1. map # << >> /\ ~CanMap(map[1].base)
        BY <1>10, <3>1 DEF mapped
      <4>2. map[1].base \in Nat /\ map[1].base < we
        BY <1>3, <1>8, <4>1
      <4> QED BY <1>3, <2>1, <2>6, <4>1, <4>2
    <3>3. ~CanMap(p)
      BY <2>1, <3>2, CanMapBelow
    <3> QED BY <1>9, <2>1, <3>3 DEF Finished
  <2> QED BY <1>3, <1>6, <2>1, <2>3, <2>4, <2>5, <2>6
<1> QED BY <1>2, <1>11, <1>12, <1>13, <1>16, <1>17, <1>18

\* A step of the whole.
LEMMA NextKeeps ==
  ASSUME WindowInv, ~Oversized, [Next]_vars
  PROVE  WindowInv'
<1>1. CASE SetLoadAddr
  BY <1>1, LoadKeeps
<1>2. CASE Window
  BY <1>2, WindowKeeps
<1>3. CASE NextTest
  BY <1>3, NextTestKeeps
<1>4. CASE Heaps
  BY <1>4, HeapsKeep
<1>5. CASE Reboot \/ UNCHANGED vars
  <2>1. /\ UNCHANGED <<heapVars, e820, affinity, cpu_mode, phase, low_load_addr, high_load_addr, pm_limit, stages>>
        /\ UNCHANGED <<window_num, window_end, mapped_window, vm_map, tested>>
    BY <1>5 DEF Reboot, vars, machineVars, loadVars, testVars, windowVars
  <2>2. MemoryInv' /\ Memory' = Memory /\ pm_map' = pm_map
    BY <2>1, MemorySame DEF heapVars, WindowInv
  <2>3. StateTypes' /\ LowHeld' /\ Loaded' /\ Fresh' /\ Position' /\ Behind'
    BY <2>1, <2>2 DEF WindowInv, StateTypes, LowHeld, Loaded, Fresh, Position, Behind
  <2>4. VmRight'
    BY <2>1 DEF WindowInv, VmRight, InOnePart, UnderTest, CanMap
  <2>5. Swept'
    <3>1. \A p : Finished(p)' <=> Finished(p)
      BY <2>1 DEF Finished, CanMap
    <3> QED BY <2>1, <2>2, <3>1 DEF WindowInv, Swept
  <2> QED BY <2>2, <2>3, <2>4, <2>5 DEF WindowInv
<1> QED BY <1>1, <1>2, <1>3, <1>4, <1>5 DEF Next

\* For every machine whose map pmem_init turns into segments in order, whatever the drivers
\* allocate and rewind between two windows and whatever limits the user sets: the program that runs
\* is never in the window under test, an error is reported at its physical page, and a test that
\* is over has had every page of the map that it can reach (test_all_windows, setup_vm_map,
\* map_window, set_load_addr).
THEOREM WindowsAreRight == ASSUME MapsRight, ~Oversized PROVE Spec => []WindowsRight
<1>1. Init => WindowInv
  BY StartInv DEF Init
<1>2. WindowInv /\ [Next]_vars => WindowInv'
  BY NextKeeps
<1>3. WindowInv => WindowsRight
  BY InvImpliesRight
<1> QED BY <1>1, <1>2, <1>3, PTL DEF Spec

-----------------------------------------------------------------------------
(***************************************************************************)
(* Windows apart                                                           *)
(***************************************************************************)
\* The NUMA table of a machine, if it has one, says of all its memory in which domain it is.
TablesCover ==
  \A t \in AffinityTables, m \in E820Maps :
    t # << >> =>
      \A i \in DOMAIN PmemInit(m) : \A p \in Pages(PmemInit(m)[i]) :
        \E k \in DOMAIN t : t[k].start <= p /\ p < t[k].end

CoverInv ==
  affinity # << >> =>
    \A p \in Memory : \E k \in DOMAIN affinity : affinity[k].start <= p /\ p < affinity[k].end

LEMMA StartCover ==
  ASSUME MapsRight, TablesCover, NEW map \in E820Maps, Start(map, "init")
  PROVE  CoverInv
<1>1. pm_map = PmemInit(map) /\ marks = << >> /\ affinity \in AffinityTables
  BY DEF Start, HeapStateInit
<1>2. MemoryInv
  BY StartInv DEF WindowInv
<1>3. ASSUME NEW p \in Memory PROVE \E i \in DOMAIN pm_map : p \in Pages(pm_map[i])
  <2>1. PICK i \in DOMAIN pm_map : p \in Nat /\ pm_map[i].start <= p /\ p < pm_map[i].end
    BY <1>1, <1>2, MemoryNow DEF InSegments
  <2>2. pm_map[i].start \in Nat /\ pm_map[i].end \in Nat
    BY <1>2, MemoryTypes
  <2> QED BY <2>1, <2>2 DEF Pages
<1> QED BY <1>1, <1>3 DEF TablesCover, CoverInv

LEMMA NextCover ==
  ASSUME WindowInv, CoverInv, ~Oversized, [Next]_vars
  PROVE  CoverInv'
<1>1. Memory' \subseteq Memory /\ affinity' = affinity
  <2>1. CASE Heaps
    <3>1. Memory' \subseteq Memory
      BY <2>1, HeapNextMemory DEF Heaps, WindowInv
    <3> QED BY <2>1, <3>1 DEF Heaps, machineVars
  <2>2. CASE UNCHANGED heapVars /\ UNCHANGED machineVars
    BY <2>2, MemorySame DEF WindowInv, machineVars
  <2>3. Heaps \/ (UNCHANGED heapVars /\ UNCHANGED machineVars)
    BY DEF Next, SetLoadAddr, Window, NextTest, Reboot, vars
  <2> QED BY <2>1, <2>2, <2>3
<1> QED BY <1>1 DEF CoverInv

\* A window that is set up.
WindowApart ==
  vm_map' # vm_map =>
    /\ UnderTest' \ InFront' \subseteq MappedPages
    /\ \A b \in blocks : Pages(b) \cap UnderTest' \subseteq InFront'
    /\ UnderTest' \cap tested = {}
    /\ \A i, j \in DOMAIN vm_map' :
         i # j => Physical(vm_map'[i]) \cap Physical(vm_map'[j]) = {}

LEMMA StepApart ==
  ASSUME WindowInv, CoverInv, [Next]_vars
  PROVE  WindowApart
<1> USE DEF WindowInv
<1>1. CASE Window
  <2> DEFINE w == FirstWindow
             ws == WindowStart(w)
             we == WindowEnd(w)
             map == SetupVmMap(ws, we)
             sel == SelectLower(map, w)
             mapped == map # << >> => CanMap(map[1].base)
  <2>1. /\ phase = "run" /\ vm_map' = sel /\ window_num' = IF mapped THEN w + 1 ELSE w
        /\ pm_limit' = pm_limit
    BY <1>1 DEF Window, testVars
  <2>2. /\ ws \in Nat /\ sel \in Seq(EntryType) /\ (sel # << >> <=> map # << >>)
        /\ map # << >> => sel[1].base = map[1].base
        /\ PagesOf(sel) = Testable(ws, we) \cup PutInFront(map, w)
        /\ AllCovered(ws, we) => Apart(sel)
    BY <2>1, NextWindow, Selected
  <2>3. UnderTest' = Testable(ws, we) \cup PutInFront(map, w)
    BY <2>1, <2>2 DEF UnderTest, PagesOf, Physical
  <2>4. ASSUME PutInFront(map, w) # {}
        PROVE  PutInFront(map, w) = InFront' /\ window_end = 0
    <3>1. w = 0 /\ map # << >>
      BY <2>4 DEF PutInFront
    <3>2. window_num = 0 /\ window_end = 0
      BY <2>1, <3>1 DEF FirstWindow, Position
    <3>3. mapped
      <4>1. /\ map[1].base \in Testable(ws, we)
            /\ \E a \in Nat : (\A p \in Testable(ws, we) : p \in Nat /\ InPart(p, a)) /\ a = 0
        BY <2>1, <3>1, NextWindow
      <4>2. map[1].base \in Nat /\ InPart(map[1].base, 0)
        BY <4>1
      <4> QED BY <4>2, PartMapped
    <3> HIDE DEF map
    <3>4. window_num' = 1
      BY <2>1, <3>1, <3>3
    <3> HIDE DEF sel
    <3>5. InFront' = pm_limit.lower .. (sel[1].base - 1)
      BY <2>1, <2>2, <3>1, <3>4 DEF InFront
    <3> QED BY <2>2, <3>1, <3>2, <3>5 DEF PutInFront
  <2>5. \A p \in Testable(ws, we) : p \in Nat /\ ws <= p /\ InSegments(p)
    BY <2>2, Places DEF Testable
  <2>6. window_end <= ws /\ window_end \in Nat
    BY <2>1, Places DEF StateTypes
  <2> HIDE DEF w, ws, we, map, sel, mapped
  <2>7. AllCovered(ws, we)
    <3> SUFFICES ASSUME affinity # << >>, NEW p \in ws .. (we - 1), NEW i \in DOMAIN pm_map,
                        pm_map[i].start <= p, p < pm_map[i].end
                 PROVE  \E k \in DOMAIN affinity : affinity[k].start <= p /\ p < affinity[k].end
      BY DEF AllCovered
    <3>1. p \in Nat /\ pm_map[i].end \in Nat
      BY <2>2, MemoryTypes
    <3>2. p \in Memory
      BY <3>1 DEF Memory, Reaches
    <3> QED BY <3>2 DEF CoverInv
  <2>8. \A b \in blocks : Pages(b) \cap Testable(ws, we) = {}
    <3> SUFFICES ASSUME NEW b \in blocks, NEW p \in Pages(b), p \in Testable(ws, we) PROVE FALSE
      OBVIOUS
    <3>1. PICK i \in DOMAIN pm_map : pm_map[i].start <= p /\ p < pm_map[i].end /\ p \in Nat
      BY <2>5 DEF InSegments
    <3>2. p \in Pages(pm_map[i])
      <4>1. pm_map[i].start \in Nat /\ pm_map[i].end \in Nat
        BY MemoryTypes
      <4> QED BY <3>1, <4>1 DEF Pages
    <3>3. BlocksApart
      BY InvImpliesApart DEF MemoryInv
    <3> QED BY <3>2, <3>3 DEF BlocksApart
  <2>9. UnderTest' \cap tested = {}
    <3>1. \A p \in tested : p < window_end /\ p \in Nat
      BY <2>1 DEF Behind, StateTypes
    <3>2. Testable(ws, we) \cap tested = {}
      BY <2>2, <2>5, <2>6, <3>1
    <3>3. PutInFront(map, w) \cap tested = {}
      BY <2>4, <3>1
    <3> QED BY <2>3, <3>2, <3>3
  <2>10. Testable(ws, we) \subseteq MappedPages
    <3> SUFFICES ASSUME NEW p \in Testable(ws, we) PROVE p \in MappedPages
      OBVIOUS
    <3>1. PICK i \in DOMAIN pm_map : pm_map[i].start <= p /\ p < pm_map[i].end /\ p \in Nat
      BY <2>5 DEF InSegments
    <3>2. pm_map[i].start \in Nat /\ pm_map[i].end \in Nat
      BY MemoryTypes
    <3>3. p \in Pages(pm_map[i])
      BY <3>1, <3>2 DEF Pages
    <3> QED BY <3>3 DEF MappedPages
  <2>11. /\ UnderTest' \ InFront' \subseteq MappedPages
         /\ \A b \in blocks : Pages(b) \cap UnderTest' \subseteq InFront'
    <3>1. CASE PutInFront(map, w) = {}
      BY <2>8, <2>3, <2>10, <3>1
    <3>2. CASE PutInFront(map, w) # {}
      <4>1. PutInFront(map, w) = InFront'
        BY <2>4, <3>2
      <4> QED BY <2>8, <2>3, <2>10, <4>1
    <3> QED BY <3>1, <3>2
  <2>12. \A i, j \in DOMAIN vm_map' : i # j => Physical(vm_map'[i]) \cap Physical(vm_map'[j]) = {}
    BY <2>1, <2>2, <2>7 DEF Apart
  <2> QED BY <2>9, <2>11, <2>12 DEF WindowApart
<1>2. CASE NextTest
  <2>1. vm_map' = << >>
    BY <1>2 DEF NextTest
  <2>2. DOMAIN vm_map' = {}
    BY <2>1
  <2>3. UnderTest' = {}
    BY <2>2 DEF UnderTest
  <2> QED BY <2>2, <2>3 DEF WindowApart
<1>3. CASE vm_map' = vm_map
  BY <1>3 DEF WindowApart
<1>4. Window \/ NextTest \/ vm_map' = vm_map
  BY DEF Next, SetLoadAddr, Heaps, Reboot, vars, windowVars
<1> QED BY <1>1, <1>2, <1>3, <1>4

\* A window holds only pages of the map and nothing a driver has allocated, except in front of the
\* first segment of the first window, where run_test does not ask; it holds no page twice and none
\* an earlier window of the same test had, when the NUMA table covers the memory (setup_vm_map,
\* heap_alloc, run_test).
THEOREM WindowsStayApart == ASSUME MapsRight, TablesCover, ~Oversized PROVE Spec => WindowsApart
<1>1. Init => WindowInv /\ CoverInv
  BY StartInv, StartCover DEF Init
<1>2. WindowInv /\ CoverInv /\ [Next]_vars => WindowInv' /\ CoverInv'
  BY NextKeeps, NextCover
<1>3. WindowInv /\ CoverInv /\ [Next]_vars => [WindowApart]_vars
  BY StepApart
<1>4. WindowsApart <=> [][WindowApart]_vars
  BY PTL DEF WindowsApart, WindowApart
<1> QED BY <1>1, <1>2, <1>3, <1>4, PTL DEF Spec
=============================================================================
