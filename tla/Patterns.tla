------------------------------ MODULE Patterns ------------------------------
(***************************************************************************)
(* The memory tests (tests/*.c) on a small memory that is sound, has a bit *)
(* that is stuck, or two address lines that are shorted.                   *)
(*                                                                         *)
(* A test is a sequence of sweeps over all segments of the window.  Every  *)
(* active core executes all sweeps, on its own chunk of each segment, and  *)
(* waits for the others after every block (do_tick) and between two sweeps *)
(* (flush_caches, flush_caches_all).  A step of a core is what it does     *)
(* between two waits.  Bail-outs are in module RunTest.                    *)
(*                                                                         *)
(* Words have Width bits, and an address is a number of words.  The shifts *)
(* of prsg and the mixing functions, whose constants are meant for 32 and  *)
(* 64 bits, are replaced by ones for Width bits.                           *)
(***************************************************************************)
EXTENDS Chunks, RowHammer, Bitwise

CONSTANTS
  Width,          \* TESTWORD_WIDTH
  Lanes,          \* VEC_LANES
  Setups          \* what is run: the test, the window, the cores, the fault

Modulus == 2 ^ Width
Value == 0 .. Modulus - 1
Flip(v) == Modulus - 1 - v
Nil == -1         \* no expectation, nothing written

ASSUME PatternAssumption == {Width, Lanes} \subseteq Nat \ {0}

VARIABLES
  setup,          \* the element of Setups; never changes
  mem,            \* the contents of the memory cells
  core,           \* per active core: its place in the test and its pattern state
  errors          \* the reported errors: the address and use_for_badram

vars == <<setup, mem, core, errors>>

test == setup.test
vm_map == setup.vm_map
CPUs == Cores(setup.domains)

-----------------------------------------------------------------------------
(***************************************************************************)
(* The memory (external).  A fault is a record: kind "none", "stuck" (bit  *)
(* of cell reads as level), "short" (address lines low and high are wired: *)
(* both are 1 only if both are driven so) or "weak" (bit of cell falls to  *)
(* level when the rows beside it are activated limit times).               *)
(***************************************************************************)
Bit(v, i) == (v \div 2 ^ i) % 2

Cell(a) ==
  LET f == setup.fault
  IN IF f.kind = "short" /\ Bit(a, f.low) # Bit(a, f.high)
     THEN a - 2 ^ (IF Bit(a, f.low) = 1 THEN f.low ELSE f.high)
     ELSE a

Stored(a, v) ==
  LET f == setup.fault
  IN IF f.kind = "stuck" /\ f.cell = a
     THEN v + (f.level - Bit(v, f.bit)) * 2 ^ f.bit
     ELSE v

\* read_word, write_word
ReadWord(m, a) == m[Cell(a)]
WriteWord(m, a, v) == IF v = Nil THEN m ELSE [m EXCEPT ![Cell(a)] = Stored(Cell(a), v)]

\* The memory after a sequence of reads, repeated; rows have f.stride words.
Disturbed(m, seq, reps) ==
  LET f == setup.fault
      beside == {a \in ToSet(seq) : (a \div f.stride) - (f.cell \div f.stride) \in {-1, 1}}
      flipped == m[f.cell] + (f.level - Bit(m[f.cell], f.bit)) * 2 ^ f.bit
  IN IF f.kind = "weak" /\ Activations(seq, reps, beside) >= f.limit
     THEN [m EXCEPT ![f.cell] = flipped] ELSE m

-----------------------------------------------------------------------------
(***************************************************************************)
(* Pattern generators.                                                     *)
(***************************************************************************)
Shl(v, k) == (v * 2 ^ k) % Modulus
Shr(v, k) == v \div 2 ^ k

\* Rotation by one bit.
RotL(v) == Shl(v, 1) + Shr(v, Width - 1)
RotR(v) == Shr(v, 1) + Shl(v, Width - 1)

\* prsg: three xorshift steps.
Prsg(v) == LET a == v ^^ Shl(v, 3)
               b == a ^^ Shr(a, 1)
           IN b ^^ Shl(b, 2)

\* prsg_undo_lshift, prsg_undo_rshift: repeated squaring.
Doublings(shift) == SelectSeq(<<shift, 2 * shift, 4 * shift>>, LAMBDA k : k < Width)
UndoShl(v, shift) == FoldLeft(LAMBDA y, k : y ^^ Shl(y, k), v, Doublings(shift))
UndoShr(v, shift) == FoldLeft(LAMBDA y, k : y ^^ Shr(y, k), v, Doublings(shift))

\* Mutant: the steps are undone in the order in which they are done.
PrsgInverseOrder(v) == UndoShl(UndoShr(UndoShl(v, 3), 1), 2)

\* prsg_inverse
PrsgInverse(v) == UndoShl(UndoShr(UndoShl(v, 2), 1), 3)

\* seed_lanes, with the salt 2 * l + 1
SeedLanes(seed, splat) ==
  LET salt(l) == 2 * l + 1
      nonzero(s, l) == IF s # 0 THEN s ELSE salt(l)
  IN [l \in 1 .. Lanes |-> Prsg(IF splat THEN nonzero(seed, 1)
                                ELSE nonzero(seed ^^ salt(l), l))]

Step(st, splat) == IF splat THEN st ELSE [l \in 1 .. Lanes |-> Prsg(st[l])]
StepBack(st, splat) == IF splat THEN st ELSE [l \in 1 .. Lanes |-> PrsgInverse(st[l])]

\* fade_mix and bus_mix
Mix(v) == (5 * v + 3) % Modulus

\* fade_seed and fade_addr_offset; the offset between the virtual and the
\* physical address is that of the window.
FadeSeed == Mix((1 + test.pass_num) * 3 % Modulus)
FadeWord(a) == Mix(((a + test.offset) % Modulus) ^^ FadeSeed)

\* bus_seed
BusSeed(iteration, segment, half) ==
  Mix(((1 + test.pass_num) * 3 + (1 + iteration) * 7 + (3 * segment + half + 1) * 11)
        % Modulus)

-----------------------------------------------------------------------------
(***************************************************************************)
(* Visits: what a sweep does with the word at address a.  st is the state  *)
(* of the core's pattern; the result is the value that is expected, the    *)
(* value that is written and the next state.                               *)
(***************************************************************************)
Visit(see, put, st) == [see |-> see, put |-> put, st |-> st]

\* test_mov_inv_fixed
FixedFill(a, st) == Visit(Nil, test.pattern1, st)
FixedUp(a, st) == Visit(test.pattern1, test.pattern2, st)
FixedDown(a, st) == Visit(test.pattern2, test.pattern1, st)

\* test_mov_inv_walk1
WalkFill(a, st) == Visit(Nil, st, RotL(st))
WalkUp(a, st) == Visit(st, Flip(st), RotL(st))

WalkDown(a, st) == Visit(RotR(st), Flip(RotR(st)), RotR(st))

\* test_mov_inv_random (which run_test does not call any more)
RandomFill(a, st) == Visit(Nil, Prsg(st), Prsg(st))
RandomUp(a, st) == Visit(Prsg(st), Flip(Prsg(st)), Prsg(st))
RandomUpInverted(a, st) == Visit(Flip(Prsg(st)), Prsg(st), Prsg(st))

\* own_addr.c: pattern_fill, pattern_check
OwnAddrFill(a, st) == Visit(Nil, (a + test.offset) % Modulus, st)
OwnAddrCheck(a, st) == Visit((a + test.offset) % Modulus, Nil, st)

\* bit_fade.c: the word of a round; pattern_fill, pattern_check.
FadePattern(a, round) ==
  LET v == IF round >= 2 THEN FadeWord(a) ELSE 0
  IN IF round % 2 = 1 THEN Flip(v) ELSE v

FadeFill(a, st) == Visit(Nil, FadePattern(a, st), st)

FadeCheck(a, st) == Visit(FadePattern(a, st), Nil, st)

\* vec_fill, vec_check_fwd and vec_check_rev, word by word: the lanes are
\* stepped behind the last lane of a block, or back before it.
Lane(a) == (a % Lanes) + 1
VecFill(a, st) ==
  Visit(Nil, st[Lane(a)], IF Lane(a) = Lanes THEN Step(st, test.splat) ELSE st)
VecCheckFwd(a, st) ==
  Visit(st[Lane(a)], Flip(st[Lane(a)]),
        IF Lane(a) = Lanes THEN Step(st, test.splat) ELSE st)
VecCheckRev(a, st) ==
  LET back == IF Lane(a) = Lanes THEN StepBack(st, test.splat) ELSE st
  IN Visit(Flip(back[Lane(a)]), back[Lane(a)], back)

\* The words at the unaligned edges of a chunk hold the first lane's seed.
EdgeFill(a, st) == Visit(Nil, st, st)
EdgeUp(a, st) == Visit(st, Flip(st), st)
EdgeDown(a, st) == Visit(Flip(st), st, st)

\* test_modulo_n: every n-th word, and the others.
NthFill(a, st) == Visit(Nil, test.pattern1, st)
NthCheck(a, st) == Visit(test.pattern1, Nil, st)
RestFill(a, st) ==
  Visit(Nil, IF st # test.n_offset THEN test.pattern2 ELSE Nil,
        IF st + 1 = test.n THEN 0 ELSE st + 1)

\* test_block_move: the groups of 16 words of the fill.
BlockFill(a, st) ==
  Visit(Nil, IF a % 16 \in {4, 5, 10, 11, 14, 15} THEN Flip(st) ELSE st,
        IF a % 16 = 15 THEN RotL(st) ELSE st)

Apply(op, a, st) ==
  CASE op = "FixedFill" -> FixedFill(a, st)
    [] op = "FixedUp" -> FixedUp(a, st)
    [] op = "FixedDown" -> FixedDown(a, st)
    [] op = "WalkFill" -> WalkFill(a, st)
    [] op = "WalkUp" -> WalkUp(a, st)
    [] op = "WalkDown" -> WalkDown(a, st)
    [] op = "RandomFill" -> RandomFill(a, st)
    [] op = "RandomUp" -> RandomUp(a, st)
    [] op = "RandomUpInverted" -> RandomUpInverted(a, st)
    [] op = "OwnAddrFill" -> OwnAddrFill(a, st)
    [] op = "OwnAddrCheck" -> OwnAddrCheck(a, st)
    [] op = "FadeFill" -> FadeFill(a, st)
    [] op = "FadeCheck" -> FadeCheck(a, st)
    [] op = "VecFill" -> VecFill(a, st)
    [] op = "VecCheckFwd" -> VecCheckFwd(a, st)
    [] op = "VecCheckRev" -> VecCheckRev(a, st)
    [] op = "EdgeFill" -> EdgeFill(a, st)
    [] op = "EdgeUp" -> EdgeUp(a, st)
    [] op = "EdgeDown" -> EdgeDown(a, st)
    [] op = "NthFill" -> NthFill(a, st)
    [] op = "NthCheck" -> NthCheck(a, st)
    [] op = "RestFill" -> RestFill(a, st)
    [] op = "BlockFill" -> BlockFill(a, st)

\* A run over memory: its contents, the pattern state, the errors found.
Run(m, st) == [m |-> m, st |-> st, e |-> {}]

\* The words of a sequence of addresses are visited one after the other; the
\* word is written whether or not it was as expected.
VisitAll(run, op, words) ==
  FoldLeft(LAMBDA r, a :
             LET v == Apply(op, a, r.st)
             IN [m |-> WriteWord(r.m, a, v.put), st |-> v.st,
                 e |-> IF v.see \notin {Nil, ReadWord(r.m, a)}
                       THEN r.e \cup {a} ELSE r.e],
           run, words)

Up(first, last) == [i \in 1 .. last - first + 1 |-> first + i - 1]
Down(last, first) == Reverse(Up(first, last))

\* p, p + n, p + 2n ... as long as the one before is not above pe - n: the
\* first is visited in any case.
Strided(p, pe, n) ==
  [i \in 1 .. IF p > pe - n THEN 1 ELSE (pe - n - p) \div n + 2 |-> p + (i - 1) * n]

-----------------------------------------------------------------------------
(***************************************************************************)
(* The sweeps of a test: the visit, whether the cores wait before it to    *)
(* flush the caches.                                                       *)
(***************************************************************************)
Sweep(op, flush) == [op |-> op, flush |-> flush]
Repeat(s, n) == FlattenSeq([i \in 1 .. n |-> s])

Sweeps ==
  CASE test.kind = "fixed" ->
         <<Sweep("FixedFill", FALSE)>>
           \o Repeat(<<Sweep("FixedUp", TRUE), Sweep("FixedDown", TRUE)>>, test.iterations)
    [] test.kind = "walk" ->
         <<Sweep("WalkFill", FALSE)>>
           \o Repeat(<<Sweep("WalkUp", TRUE), Sweep("WalkDown", TRUE)>>, test.iterations)
    [] test.kind = "random" ->
         <<Sweep("RandomFill", FALSE), Sweep("RandomUp", TRUE),
           Sweep("RandomUpInverted", TRUE)>>
    [] test.kind = "own_addr" ->
         <<Sweep("OwnAddrFill", FALSE), Sweep("OwnAddrCheck", TRUE)>>
    [] test.kind = "fade" ->
         Repeat(<<Sweep("FadeFill", FALSE), Sweep("FadeCheck", TRUE)>>, 4)
    [] test.kind = "rng" ->
         <<Sweep("VecFill", FALSE), Sweep("VecCheckFwd", TRUE), Sweep("VecCheckRev", TRUE)>>
    [] test.kind = "modulo" ->
         <<Sweep("NthFill", FALSE)>> \o Repeat(<<Sweep("RestFill", FALSE)>>, test.iterations)
           \o <<Sweep("NthCheck", TRUE)>>
    [] test.kind = "block" ->
         <<Sweep("BlockFill", FALSE), Sweep("BlockMove", TRUE), Sweep("BlockCheck", TRUE)>>
    [] test.kind = "bus" ->
         Repeat(<<Sweep("BusFirst", TRUE), Sweep("BusSecond", TRUE)>>, test.iterations)
    [] test.kind = "addr_walk1" ->
         <<Sweep("AddrWalk", FALSE), Sweep("AddrWalkInverted", FALSE)>>
    [] test.kind = "rowhammer" -> <<Sweep("Hammer", FALSE)>>

\* The pattern state with which a sweep begins.
SweepState(op, st) ==
  CASE op \in {"WalkFill", "WalkUp"} ->
         IF test.inverse THEN Flip(2 ^ test.bit) ELSE 2 ^ test.bit
    [] op = "WalkDown" -> Flip(st)
    [] op = "Hammer" -> ((1 + test.pass_num) * 3) % Modulus
    [] op \in {"RandomFill", "RandomUp", "RandomUpInverted"} -> test.seed
    [] op \in {"VecFill", "VecCheckFwd"} -> SeedLanes(test.seed, test.splat)
    [] OTHER -> st

\* The number of the sweep's round among those of the same kind.
Round(c) == (core[c].sweep - 1) \div 2

Op(c) == core[c].op
Descending(c) == Op(c) \in {"FixedDown", "WalkDown", "VecCheckRev"}
Vector(c) == test.kind = "rng"

\* The segment a core works on, and its chunk of it.
Segment(c) == IF Descending(c) THEN Len(vm_map) - core[c].seg ELSE core[c].seg + 1
Align == CASE test.kind \in {"rng", "bus"} -> Lanes
           [] test.kind = "block" -> 16
           [] OTHER -> 1
ChunkOf(c, j) == CalculateChunk(setup.domains, setup.numa, c, vm_map[j], Align)
Chunk(c) == ChunkOf(c, Segment(c))

\* The aligned body of a chunk, in whole vectors.
Body(ch) ==
  LET bstart == RoundUp(ch.start, Lanes)
      nwords == IF bstart <= ch.end THEN ch.end - bstart + 1 ELSE 0
  IN [start |-> bstart, end |-> bstart + RoundDown(nwords, Lanes) - 1]
HeadWords(ch) == Up(ch.start, IF Body(ch).start <= ch.end THEN Body(ch).start - 1 ELSE ch.end)
TailWords(ch) == Up(Body(ch).end + 1, ch.end)

\* The words an ordinary sweep walks over.  The strided ones stop n words
\* before the end.
SweepRange(c, ch) ==
  CASE Vector(c) -> Body(ch)
    [] Op(c) \in {"NthFill", "NthCheck"} -> [ch EXCEPT !.end = @ - test.n]
    [] OTHER -> ch

\* Whether a chunk is too small for the test.
TooSmall(ch) == ch.end - ch.start < CASE test.kind = "modulo" -> test.n - 1
                                      [] test.kind = "block" -> 15
                                      [] OTHER -> 0

-----------------------------------------------------------------------------
\* All active cores wait at the barrier as often as they tick or flush: a core
\* goes on when the others have come as far.
Finished(c) == core[c].op = "done"
Free(c) == /\ ~Finished(c)
           /\ \A d \in CPUs : core[d].waits >= core[c].waits
Walking(c) == Free(c) /\ core[c].seg < Len(vm_map)

Start == [sweep |-> 1, op |-> Sweeps[1].op, seg |-> 0, pe |-> Nil, p |-> Nil, iter |-> 0, waits |-> 0, st |-> 0]

Init == /\ setup \in Setups
        /\ mem = [a \in 0 .. Modulus - 1 |-> Stored(a, a)]
        /\ core = [c \in CPUs |-> [Start EXCEPT !.st = SweepState(Sweeps[1].op, 0)]]
        /\ errors = {}

\* do_tick, and then the next block or the next segment.
Tick(c, last, next) ==
  core' = [core EXCEPT ![c] =
             IF last THEN [next EXCEPT !.seg = @ + 1, !.pe = Nil, !.p = Nil, !.iter = 0,
                                       !.waits = @ + 1]
             ELSE [next EXCEPT !.waits = @ + 1]]

\* The words of the edges that are visited with the block.
Edges(c, ch, first, last) ==
  IF ~Vector(c) THEN <<>>
  ELSE IF Descending(c)
  THEN (IF first THEN TailWords(ch) ELSE <<>>) \o (IF last THEN HeadWords(ch) ELSE <<>>)
  ELSE IF first THEN HeadWords(ch) \o TailWords(ch) ELSE <<>>
EdgeOp(c) == CASE Op(c) = "VecFill" -> "EdgeFill"
               [] Op(c) = "VecCheckFwd" -> "EdgeUp"
               [] OTHER -> "EdgeDown"
EdgeRun(c, m, words) ==
  IF words = <<>> THEN Run(m, 0)
  ELSE VisitAll(Run(m, SeedLanes(test.seed, test.splat)[1]), EdgeOp(c), words)

\* Mutant: one tick, whatever the number of ticks of the others.
SkipRangeOnce(c, ch) ==
  /\ ~(Op(c) \in {"AddrWalk", "AddrWalkInverted", "Hammer"})
  /\ TooSmall(ch) \/ (Vector(c) /\ Empty(Body(ch)))
  /\ LET edge == EdgeRun(c, mem, IF Empty(ch) THEN <<>> ELSE Edges(c, ch, TRUE, TRUE))
     IN mem' = edge.m /\ errors' = errors \cup edge.e
  /\ Tick(c, TRUE, core[c])
  /\ UNCHANGED setup

\* The steps with the parameter ch are those of a core in its chunk of a segment.
\* SKIP_RANGE: nothing to do for this core in the segment but to tick as often
\* as the others do.
SkipRange(c, ch) ==
  /\ ~(Op(c) \in {"AddrWalk", "AddrWalkInverted", "Hammer"})
  /\ TooSmall(ch) \/ (Vector(c) /\ Empty(Body(ch)))
  /\ LET edge == EdgeRun(c, mem, IF Empty(ch) THEN <<>> ELSE Edges(c, ch, TRUE, TRUE))
     IN mem' = edge.m /\ errors' = errors \cup edge.e
  /\ LET n == IF Op(c) = "BlockMove" THEN test.iterations ELSE 1
         next == [core[c] EXCEPT !.iter = @ + 1]
     IN Tick(c, next.iter = n, next)
  /\ UNCHANGED setup

\* One block of an ordinary sweep.
Work(c, ch) ==
  /\ ~TooSmall(ch)
  /\ Vector(c) => ~Empty(Body(ch))
  /\ Op(c) \notin {"BlockMove", "BlockCheck", "BusFirst", "BusSecond", "AddrWalk",
                   "AddrWalkInverted", "Hammer"}
  /\ LET r == SweepRange(c, ch)
         k == core[c]
         first == k.pe = Nil
         from == IF ~first THEN k.pe ELSE IF Descending(c) THEN r.end ELSE r.start
         to == IF Descending(c) THEN BlockStart(from, r.start, setup.spin)
               ELSE BlockEnd(from, r.end, setup.spin)
         last == to = IF Descending(c) THEN r.start ELSE r.end
         n == IF test.kind = "block" THEN 16 ELSE IF test.kind = "modulo" THEN test.n ELSE 1
         p == IF ~first THEN k.p
              ELSE IF test.kind = "modulo" THEN r.start + test.n_offset ELSE r.start
         starts == Strided(p, to, n)
         words == CASE Op(c) \in {"NthFill", "NthCheck"} -> starts
                    [] Op(c) = "BlockFill" ->
                         FlattenSeq([i \in DOMAIN starts |-> Up(starts[i], starts[i] + 15)])
                    [] Descending(c) -> Down(from, to)
                    [] OTHER -> Up(from, to)
         st == CASE Op(c) = "BlockFill" -> 1
                 [] Op(c) = "RestFill" /\ first -> 0
                 [] Op(c) \in {"FadeFill", "FadeCheck"} -> Round(c)
                 [] OTHER -> k.st
         edge == EdgeRun(c, mem, Edges(c, ch, first, last))
         run == VisitAll(Run(edge.m, st), Op(c), words)
     IN /\ mem' = run.m
        /\ errors' = errors \cup edge.e \cup run.e
        /\ Tick(c, last, [k EXCEPT !.pe = IF Descending(c) THEN to - 1 ELSE to + 1,
                                   !.p = starts[Len(starts)],
                                   !.st = run.st])
  /\ UNCHANGED setup

-----------------------------------------------------------------------------
\* test_block_move: copying, and a block of the moves.
Copy(m, from, to, length) ==
  FoldLeft(LAMBDA r, i : WriteWord(r, to + i, ReadWord(r, from + i)), m, Up(0, length - 1))

\* The first half goes to the second; the second comes back to the first,
\* rotated by 8 words.
MoveBlock(m, p, half) ==
  Copy(Copy(Copy(m, p, p + half, half), p + half, p + 8, half - 8), p + 2 * half - 8, p, 8)

\* A block of the moves: p stays at the start of the chunk.
BlockMove(c, ch) ==
  /\ Op(c) = "BlockMove" /\ ~TooSmall(ch)
  /\ LET k == core[c]
         to == BlockEnd(IF k.pe = Nil THEN ch.start ELSE k.pe, ch.end, setup.spin)
         again == k.iter + 1 < test.iterations
     IN /\ mem' = MoveBlock(mem, ch.start, (to - ch.start + 1) \div 2)
        /\ Tick(c, ~again /\ to = ch.end,
                IF again THEN [k EXCEPT !.iter = @ + 1]
                ELSE [k EXCEPT !.iter = 0, !.pe = to + 1])
  /\ UNCHANGED <<setup, errors>>

\* The words of a pair are compared.
BlockCheck(c, ch) ==
  /\ Op(c) = "BlockCheck" /\ ~TooSmall(ch)
  /\ LET k == core[c]
         to == BlockEnd(IF k.pe = Nil THEN ch.start ELSE k.pe, ch.end, setup.spin)
         pairs == Strided(IF k.pe = Nil THEN ch.start ELSE k.p, to, 2)
     IN /\ errors' = errors \cup {a \in ToSet(pairs) : ReadWord(mem, a) # ReadWord(mem, a + 1)}
        /\ Tick(c, to = ch.end, [k EXCEPT !.pe = to + 1, !.p = pairs[Len(pairs)]])
  /\ UNCHANGED <<setup, mem>>

\* The iteration whose data the first sweep finds.
BusPrevious(iteration) == iteration - 1

\* do_sweep for one segment: the first sweep checks and rewrites the edges,
\* fills the first half of the body and checks the second half, which the
\* iteration before has written; the second sweep does the reverse with the
\* data of this iteration.  A check writes the complement behind itself.
BusSweep(c, ch) ==
  /\ Op(c) \in {"BusFirst", "BusSecond"} /\ ~Empty(ch)
  /\ LET i == Round(c)
         j == Segment(c) - 1
         b == Body(ch)
         mid == b.start + ((b.end - b.start + 1) \div (2 * Lanes)) * Lanes
         first == Op(c) = "BusFirst"
         edges == IF first THEN HeadWords(ch) \o TailWords(ch) ELSE <<>>
         stale == IF first /\ i > 0
                  THEN {a \in ToSet(edges) : ReadWord(mem, a) # BusSeed(BusPrevious(i), j, 2)}
                  ELSE {}
         edged == VisitAll(Run(mem, BusSeed(i, j, 2)), "EdgeFill", edges).m
         half1 == Up(b.start, mid - 1)
         half2 == Up(mid, b.end)
         lanes(k, h) == SeedLanes(BusSeed(k, j, h), FALSE)
         fill == IF first THEN VisitAll(Run(edged, lanes(i, 0)), "VecFill", half1)
                 ELSE VisitAll(Run(edged, lanes(i, 1)), "VecFill", half2)
         check == IF ~first THEN VisitAll(Run(fill.m, lanes(i, 0)), "VecCheckFwd", half1)
                  ELSE IF i > 0
                  THEN VisitAll(Run(fill.m, lanes(BusPrevious(i), 1)), "VecCheckFwd", half2)
                  ELSE fill
     IN /\ mem' = check.m
        /\ errors' = errors \cup stale \cup check.e
  /\ Tick(c, TRUE, core[c])
  /\ UNCHANGED setup

-----------------------------------------------------------------------------
\* test_addr_walk1: the addresses with one more address line set than the
\* start of the segment, up to the first beyond its end.
WalkAddresses(seg) ==
  LET p(k) == seg.start | (2 ^ k)
      n == CHOOSE k \in 0 .. Width : /\ k = Width \/ p(k) > seg.end
                                     /\ \A j \in 0 .. k - 1 : p(j) <= seg.end
  IN [k \in 1 .. n |-> p(k - 1)]

\* The second address is written, the first must not have changed.
AddrWalkPair(r, p1, p2, invert) ==
  LET m == WriteWord(r.m, p2, Flip(invert) ^^ p2)
  IN IF p2 = p1 THEN r
     ELSE IF ReadWord(m, p1) = invert ^^ p1 THEN [r EXCEPT !.m = m]
     ELSE [r EXCEPT !.m = WriteWord(m, p1, invert ^^ p1), !.e = @ \cup {p1}]

\* One first address and all second ones.  There is no tick before all
\* segments have been walked over.
AddrWalk(c) ==
  /\ Walking(c) /\ Op(c) \in {"AddrWalk", "AddrWalkInverted"}
  /\ LET invert == IF Op(c) = "AddrWalk" THEN 0 ELSE Flip(0)
         k == core[c]
         all == WalkAddresses(vm_map[Segment(c)])
         p1 == all[k.iter + 1]
         run == FoldLeft(LAMBDA r, p2 : AddrWalkPair(r, p1, p2, invert),
                         Run(WriteWord(mem, p1, invert ^^ p1), 0), all)
         last == k.iter + 1 = Len(all)
     IN /\ mem' = run.m /\ errors' = errors \cup run.e
        /\ core' = [core EXCEPT ![c] =
                      IF ~last THEN [k EXCEPT !.iter = @ + 1]
                      ELSE [k EXCEPT !.iter = 0, !.seg = @ + 1,
                                     !.waits = @ + IF Segment(c) = Len(vm_map) THEN 1 ELSE 0]]
  /\ UNCHANGED setup

\* test_rowhammer: the victim words, and one hammering of a site.  iterations of them
\* fit into the time of a site, the second half of the sites uses drawn patterns.
\* Mutant: bits fall in one direction only.
VictimWordsZero == <<0, 0, 0, 0>>
VictimWords == <<0, Flip(0), Flip(0) \div 3, Flip(Flip(0) \div 3)>>

\* rh_fuzz_pattern: 2 to most aggressors, 2 or 3 rows apart, each with four of the
\* numbers drawn.
Draws(state, n) ==
  FoldLeft(LAMBDA s, i : Append(s, Prsg(Last(s))), <<Prsg(state)>>, [i \in 1 .. n - 1 |-> i])

PatternOf(draw, n, period) ==
  LET drawn(i, j) == draw[4 * (i - 1) + 1 + j]
      each(F(_)) == [i \in 1 .. n |-> F(i)]
      freq(i) == 1 + (drawn(i, 2) % 4)
  IN [offset |-> each(LAMBDA i : 2 * i + Cardinality({j \in 1 .. i : drawn(j, 1) % 2 = 1})),
      freq |-> each(LAMBDA i : IF freq(i) > period THEN 1 ELSE freq(i)),
      phase |-> each(LAMBDA i : drawn(i, 3) % period),
      amp |-> each(LAMBDA i : 1 + (drawn(i, 4) % 2)),
      total_acts |-> 4 + (draw[4 * n + 2] % 8)]

FuzzPattern(draw, period, most) ==
  LET n == 2 + (draw[1] % (most - 1))
  IN [pat |-> PatternOf(draw, n, period), state |-> draw[4 * n + 2]]

\* What the timing of the first segment shows.
Stride == DiscoverStride(test.hammer.latency, vm_map[1])
Period == CalcPeriod(test.hammer.trefi, test.hammer.cost, 2 * Width)

\* The rows are filled, the aggressors hammered, the victims checked; nothing of it is
\* done if no row of the pattern lies in the segment.
Hammered(m, at, pat, stride, vword) ==
  LET h == test.hammer
      words(rows, n) == UNION {Region(at.seg, Row(at.base, stride, o), n) : o \in rows}
      fill(r, ws, v) == FoldLeft(LAMBDA q, a : WriteWord(q, a, v), r, SetToSeq(ws))
      victims == words(Victims(pat), h.victim)
      filled == fill(fill(m, words(Aggressors(pat), h.aggr), Flip(vword)), victims, vword)
      seq == Materialize(pat, at.base, stride, at.seg, Period)
      checked(after) == [m |-> after, e |-> {a \in victims : ReadWord(after, a) # vword}]
  IN IF seq = <<>> THEN [m |-> m, e |-> {}]
     ELSE checked(Disturbed(filled, seq, Reps(pat, seq)))

Hammer(c) ==
  /\ Walking(c) /\ Op(c) = "Hammer"
  /\ LET h == test.hammer
         k == core[c]
         i == IF k.p = Nil THEN 0 ELSE k.p
         drawn == FuzzPattern(Draws(k.st, 4 * h.most + 2), Period, h.most)
         fuzz == i >= h.sites \div 2
         trial == Hammered(mem, Site(vm_map, h.sites, h.line, i),
                           IF fuzz THEN drawn.pat ELSE h.patterns[(k.iter % Len(h.patterns)) + 1],
                           IF Stride # 0 THEN Stride ELSE h.blind[(k.iter % Len(h.blind)) + 1],
                           VictimWords[(k.iter % 4) + 1])
         done == k.iter + 1 = test.iterations
         last == done /\ i + 1 = h.sites
     IN /\ mem' = trial.m
        /\ errors' = errors \cup trial.e
        /\ core' = [core EXCEPT ![c] =
                      [k EXCEPT !.iter = IF done THEN 0 ELSE @ + 1,
                                !.p = IF done THEN i + 1 ELSE i,
                                !.st = IF fuzz THEN drawn.state ELSE @,
                                !.waits = IF done THEN @ + 1 ELSE @,
                                !.seg = IF last THEN Len(vm_map) ELSE @]]
  /\ UNCHANGED setup

\* The end of a sweep: the next one begins, after a wait if the caches are
\* flushed in between.
NextSweep(c) ==
  /\ Free(c) /\ core[c].seg = Len(vm_map)
  /\ LET k == core[c]
         s == k.sweep + 1
         more == s <= Len(Sweeps)
     IN core' = [core EXCEPT ![c] =
                   [Start EXCEPT !.sweep = s,
                                 !.op = IF more THEN Sweeps[s].op ELSE "done",
                                 !.waits = k.waits + IF more /\ Sweeps[s].flush THEN 1 ELSE 0,
                                 !.st = IF more THEN SweepState(Sweeps[s].op, k.st) ELSE 0]]
  /\ UNCHANGED <<setup, mem, errors>>

\* run_test returns on all cores.
AllDone == (\A c \in CPUs : Finished(c)) /\ UNCHANGED vars

CoreStep(c) == \/ NextSweep(c) \/ AddrWalk(c) \/ Hammer(c)
               \/ /\ Walking(c)
                  /\ \E ch \in {Chunk(c)} :
                       \/ SkipRange(c, ch) \/ Work(c, ch) \/ BlockMove(c, ch)
                       \/ BlockCheck(c, ch) \/ BusSweep(c, ch)

Next == AllDone \/ \E c \in CPUs : CoreStep(c)

Spec == Init /\ [][Next]_vars

-----------------------------------------------------------------------------
(***************************************************************************)
(* Properties                                                              *)
(***************************************************************************)
\* Every variable has its type.
TypeOK ==
  /\ setup \in Setups
  /\ mem \in [Value -> Value]
  /\ \A c \in CPUs : /\ core[c].sweep \in 1 .. Len(Sweeps) + 1
                     /\ core[c].seg \in 0 .. Len(vm_map)
                     /\ {core[c].waits, core[c].iter} \subseteq Nat
  /\ errors \in SUBSET Value

\* No test reports an error of a sound memory: what a sweep expects in a word
\* is what the sweep before has written there, across blocks, segments, chunk
\* edges and changes of direction, and no core writes in the chunk of another.
NoFalseAlarm == setup.fault.kind = "none" => errors = {}

\* A bit that is stuck or weak is blamed on its own word only.  The tests that report
\* errors for BadRAM rely on it: nothing that a wrong word leads to (a pattern
\* continued from what was read, a scan resumed at the wrong place) may be
\* taken for another error.
BlamesFaultyWord ==
  setup.fault.kind \in {"stuck", "weak"} /\ test.kind # "block" => errors \subseteq {setup.fault.cell}

\* What a test reports is a fault of the memory, at its word (the checks of all tests).
ErrorsReal == NoFalseAlarm /\ BlamesFaultyWord

\* The words that a test checks with a pattern and its complement.  In a chunk
\* of more than n words test_modulo_n leaves the last n words out.
Checked(ch) ==
  IF TooSmall(ch) THEN {}
  ELSE IF test.kind = "modulo"
  THEN {a \in Words(ch) : a - ch.start < test.n \/ a <= ch.end - test.n}
  ELSE Words(ch)
CheckedWords == UNION {Checked(ChunkOf(c, j)) : c \in CPUs, j \in DOMAIN vm_map}

AllFinished == \A c \in CPUs : Finished(c)

\* A bit that is stuck, at whichever level, in a word that is checked, is found
\* by one execution of a test that uses a pattern and its complement.
StuckBitFound ==
  /\ AllFinished
  /\ setup.fault.kind = "stuck" /\ setup.fault.cell \in CheckedWords
  /\ test.kind \in {"fixed", "walk", "random", "fade", "rng"}
  => errors # {}

\* Two addresses that reach the same cell are found: by the own address test
\* if both are tested words, by the walking address test if two address lines
\* that it walks over are shorted.
AliasFound ==
  /\ AllFinished
  /\ \/ /\ test.kind = "own_addr"
        /\ \E a, b \in CheckedWords : a # b /\ Cell(a) = Cell(b)
     \/ /\ test.kind = "addr_walk1" /\ setup.fault.kind = "short"
        /\ \E j \in DOMAIN vm_map :
             {vm_map[j].start | (2 ^ setup.fault.low), vm_map[j].start | (2 ^ setup.fault.high)}
               \subseteq ToSet(WalkAddresses(vm_map[j])) \ {vm_map[j].start}
  => errors # {}

\* A weak bit between two rows that are hammered is found, if the distance of the rows
\* was discovered and the limit is reached: with the double-sided pattern at one of the sites, the
\* time being long enough for all victim words.
WeakBitFound ==
  LET h == test.hammer
      f == setup.fault
      between(i) ==
        LET at == Site(vm_map, h.sites, h.line, i)
        IN /\ f.cell \in Region(at.seg, Row(at.base, Stride, 1), h.victim)
           /\ Inside(at.seg, Row(at.base, Stride, 2))
  IN /\ AllFinished /\ test.kind = "rowhammer" /\ f.kind = "weak"
     /\ Stride = f.stride /\ f.limit <= h.patterns[1].total_acts
     /\ test.iterations >= 4 * Len(h.patterns)
     /\ \E i \in 0 .. (h.sites \div 2) - 1 : between(i)
     => errors # {}

\* No core is left behind at the barrier: when a core has finished the test, no
\* other core waits more often than it did.
NobodyStranded ==
  \A c, d \in CPUs : Finished(c) => core[d].waits <= core[c].waits

\* One execution finds the fault the test is made for: stuck bits, aliases, weak bits,
\* wherever the chunks, blocks and segments have their edges.
FaultsFound == TypeOK /\ StuckBitFound /\ AliasFound /\ WeakBitFound

=============================================================================
