----------------------------- MODULE MCTestLoop -----------------------------
(* Two cores with a gap between them, two tests, five windows: a hole in memory at *)
(* the third and the last one beyond what can be mapped.                           *)
EXTENDS TestLoop

\* Two tests: one of two stages for a single core, one for all cores.
MCStages == [t \in Test |-> IF t = 0 THEN 2 ELSE 1]
MCTestMode == [t \in Test |-> IF t = 0 THEN "ONE" ELSE "PAR"]

\* test_sequence of the first run, and the one with the tests swapped.
Order == [t \in Test |-> t]
Swapped == [t \in Test |-> NumTests - 1 - t]

Choice(mode, enabled, above, order) ==
  [cpu_mode |-> mode, enabled |-> enabled, above |-> above, test_sequence |-> order]

\* All tests in all three sequencing modes; one test only, above the lower limit; and
\* the other order.
MCConfigs == {Choice(m, Test, FALSE, Order) : m \in CpuMode}
               \cup {Choice("PAR", {1}, TRUE, Order), Choice("SEQ", Test, FALSE, Swapped)}

\* What follows test_sequence in memory: nothing that is a test number, or (as
\* in the x86_64 build) max_pass_num and num_enabled_cpus.
MCBehind == {<<>>, <<1, 0>>}
=============================================================================
