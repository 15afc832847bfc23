----------------------------- MODULE MCPatterns -----------------------------
EXTENDS Patterns

None == [kind |-> "none"]
Stuck(cells) == [kind : {"stuck"}, cell : cells, bit : {0, 4}, level : {0, 1}]
Shorts == {f \in [kind : {"short"}, low : 0 .. 4, high : 1 .. 5] : f.low < f.high}

\* Two segments that divide unevenly, with edges that are not aligned.
Uneven == <<[start |-> 3, end |-> 11, domain |-> 0], [start |-> 14, end |-> 25, domain |-> 1]>>
\* Two segments of four groups of 16 words.
Groups == <<[start |-> 0, end |-> 31, domain |-> 0], [start |-> 32, end |-> 63, domain |-> 1]>>
\* A segment that is too small to be shared.
Tiny == <<[start |-> 8, end |-> 9, domain |-> 0], [start |-> 16, end |-> 28, domain |-> 1]>>

Base == [kind |-> "", iterations |-> 2, pattern1 |-> 21, pattern2 |-> 42, bit |-> 0,
         inverse |-> FALSE, seed |-> 5, splat |-> FALSE, offset |-> 0, pass_num |-> 0,
         n |-> 3, n_offset |-> 0, hammer |-> [sites |-> 0]]
Kind(k) == [Base EXCEPT !.kind = k]

ParallelTests ==
  {Kind("fixed"), Kind("random"), Kind("rng"), Kind("bus"), Kind("fade"),
   [Kind("rng") EXCEPT !.splat = TRUE], [Kind("walk") EXCEPT !.bit = 4],
   [Kind("walk") EXCEPT !.inverse = TRUE]}
   \cup {[Kind("modulo") EXCEPT !.n_offset = i] : i \in 0 .. 2}

\* Double-sided, and two of three aggressors with different frequencies.
HammerPatterns ==
  <<[offset |-> <<0, 2>>, freq |-> <<1, 1>>, phase |-> <<0, 0>>, amp |-> <<1, 1>>, total_acts |-> 8],
    [offset |-> <<0, 4, 2>>, freq |-> <<4, 4, 1>>, phase |-> <<0, 2, 5>>, amp |-> <<1, 1, 1>>, total_acts |-> 9],
    [offset |-> <<0, 2, 4>>, freq |-> <<4, 2, 4>>, phase |-> <<0, 1, 2>>, amp |-> <<2, 1, 2>>, total_acts |-> 10]>>
\* The times of two accesses 2, 4 or 8 words apart.
Flat == 2 :> 9 @@ 4 :> 12 @@ 8 :> 9
Peak == 2 :> 9 @@ 4 :> 13 @@ 8 :> 10
Hammering(latency) ==
  [Kind("rowhammer") EXCEPT !.iterations = 12,
     !.hammer = [sites |-> 4, line |-> 2, trefi |-> 20, cost |-> 2, most |-> 4, latency |-> latency, blind |-> <<4, 8, 6>>,
                 patterns |-> HammerPatterns, victim |-> 2, aggr |-> 1]]
Weak == [kind : {"weak"}, cell : {9, 10, 13, 16, 18, 28}, bit : {4}, level : {0, 1}, stride : {4, 8},
         limit : {4, 9}]

Setup(tests, maps, cores, numa, spin, faults) ==
  [test : tests, vm_map : maps, domains : cores, numa : {numa}, spin : {spin}, fault : faults]

Faults == {None} \cup Stuck({3, 7, 9, 11, 20, 25})

MCSetups ==
  \* two cores, several blocks per chunk
  Setup(ParallelTests, {Uneven}, {<<0, 1>>}, FALSE, 2, Faults)
  \* three cores in two proximity domains, one block per chunk
    \cup Setup(ParallelTests, {Uneven, Tiny}, {<<0, 1, 1>>}, TRUE, 64, {None} \cup Stuck({9, 16}))
  \* block moves: one or several blocks, one or two proximity domains
    \cup Setup({Kind("block")}, {SubSeq(Groups, 1, 1)}, {<<0, 1>>}, TRUE, 64, {None})
    \cup Setup({Kind("block")}, {Groups}, {<<0>>, <<0, 0>>}, FALSE, 16, {None} \cup Stuck({40}))
  \* hammering, with and without the distance of the rows
    \cup Setup({Hammering(Flat), Hammering(Peak)}, {Uneven, Groups}, {<<0>>}, FALSE, 4,
               {None} \cup Weak \cup Stuck({5, 9}))
  \* the tests for one core
    \cup Setup({Kind("own_addr"), [Kind("own_addr") EXCEPT !.offset = 17], Kind("addr_walk1")},
               {Uneven, Groups}, {<<0>>}, FALSE, 4, {None} \cup Shorts)
=============================================================================
