----------------------------- MODULE RowHammer -----------------------------
(***************************************************************************)
(* The layout of the rowhammer test (tests/rowhammer.c): where a site is,  *)
(* which rows a pattern activates and in which order, which rows are its   *)
(* victims.  The test itself is the action Hammer of module Patterns.      *)
(*                                                                         *)
(* Addresses are numbers of words; a segment is [start, end], its end      *)
(* included.  A pattern is [offset, freq, phase, amp, total_acts] with     *)
(* sequences of the same length.                                           *)
(***************************************************************************)
EXTENDS Integers, Sequences, SequencesExt, FiniteSetsExt

\* The site with number i: the middle of the i-th part of all words of the window,
\* at the start of a cache line.
Site(map, sites, line, i) ==
  LET size(s)   == s.end - s.start + 1
      before(j) == FoldLeft(LAMBDA n, s : n + size(s), 0, SubSeq(map, 1, j - 1))
      part   == before(Len(map) + 1) \div sites
      target == part * i + part \div 2
      home   == {j \in DOMAIN map : target < before(j) + size(map[j])}
      seg    == IF home = {} THEN map[1] ELSE map[Min(home)]
      site   == IF home = {} THEN seg.start ELSE seg.start + target - before(Min(home))
  IN [seg |-> seg, base |-> Max({seg.start, (site \div line) * line})]

\* rh_discover_stride: the distance at which two accesses take longest, if this stands out
\* from the fastest; latency is a function on the distances that are tried.
DiscoverStride(latency, seg) ==
  LET fits == {c \in DOMAIN latency : seg.start + c <= seg.end}
      slow == {c \in fits : \A d \in fits : latency[d] <= latency[c]}
      low  == Min({latency[c] : c \in fits})
  IN IF fits = {} THEN 0
     ELSE IF latency[Min(slow)] > low + (low \div 3) THEN Min(slow) ELSE 0

\* rh_calc_period: the activations that fit between two refreshes.
CalcPeriod(trefi, cost, most) == Min({Max({trefi \div Max({cost, 1}), 8}), most})

-----------------------------------------------------------------------------
Row(base, stride, offset) == base + offset * stride

Inside(seg, a) == a >= seg.start /\ a <= seg.end

\* The n words from address a that are in the segment.
Region(seg, a, n) == {w \in a .. a + n - 1 : Inside(seg, w)}

\* Aggressor a appears freq times in a period, each time in amp slots one after the other.
Claims(pat, period, a, s) ==
  LET f == IF pat.freq[a] = 0 THEN 1 ELSE pat.freq[a]
      m == IF pat.amp[a] = 0 THEN 1 ELSE pat.amp[a]
      step == IF period \div f = 0 THEN 1 ELSE period \div f
  IN \E k \in 0 .. f - 1, j \in 0 .. m - 1 : s = (((pat.phase[a] + k * step) % period) + j) % period

\* rh_materialize: a slot belongs to the first aggressor that claims it; what is not in the
\* segment is left out.
Materialize(pat, base, stride, seg, period) ==
  LET claiming(s) == {a \in DOMAIN pat.offset : Claims(pat, period, a, s)}
      taken == SelectSeq([s \in 1 .. period |-> s - 1], LAMBDA s : claiming(s) # {})
      addrs == [i \in DOMAIN taken |-> Row(base, stride, pat.offset[Min(claiming(taken[i]))])]
  IN SelectSeq(addrs, LAMBDA a : Inside(seg, a))

Aggressors(pat) == ToSet(pat.offset)

\* rh_victims: the rows beside an aggressor that are not aggressors.
Victims(pat) == ({o + d : o \in Aggressors(pat), d \in {-1, 1}} \cap Nat) \ Aggressors(pat)

\* How often the sequence is replayed.
Reps(pat, seq) == Max({1, pat.total_acts \div Len(seq)})

\* rh_hammer_seq reads and flushes every address of the sequence, reps times: the
\* activations of a set of addresses.
Activations(seq, reps, rows) == reps * Len(SelectSeq(seq, LAMBDA a : a \in rows))
=============================================================================
