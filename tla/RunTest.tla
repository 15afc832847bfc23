------------------------------- MODULE RunTest -------------------------------
(***************************************************************************)
(* The active cores inside run_test (tests/tests.c): each works on its own *)
(* chunk of the window, and they meet on run_barrier, in the BARRIER of    *)
(* run_test, in flush_caches and twice in each do_tick (app/display.c).    *)
(* The master polls the keyboard; a key may set the flag bail, which every *)
(* core reads by itself (macro BAILOUT) to leave the test early.           *)
(*                                                                         *)
(* All cores execute the same sequence of such points (SKIP_RANGE lets a   *)
(* core without a chunk take part in them); the loops of the tests are     *)
(* unrolled into Program.  run_barrier is taken as module AbstractBarrier  *)
(* describes it.                                                           *)
(***************************************************************************)
EXTENDS Integers, Sequences

CONSTANTS
  CPU,          \* the active cores
  Master,       \* master_cpu
  Program,      \* what a test consists of
  Pollers,      \* the cores that find errors and whose common_err then polls the
                \* keyboard: the master in address mode, any core in the BadRAM,
                \* memmap and pages modes, none in the other modes or when no
                \* error is found
  EccInput      \* whether the master's poll of the memory controller finds
                \* corrected errors (in address mode: common_err polls, too)

\* Op:  "barrier"  a wait on run_barrier
\*      "work"     writing and checking a block of memory
\*      "poll"     check_input and error_update in do_tick, by the master
\*      "update"   the end of do_tick: the master updates the display and asks
\*                 the memory controller for errors
\*      "bail"     BAILOUT
Op == {"barrier", "work", "poll", "update", "bail"}

\* What test programs are made of: do_tick with the BAILOUT that follows it,
\* flush_caches, a block of memory, a call of a test function by run_test (fill
\* the window, flush the caches, check the blocks).
DoTick == <<"barrier", "poll", "barrier", "update", "bail">>
FlushCaches == <<"barrier", "barrier">>
Block == <<"work">> \o DoTick
TestRound(checks) == <<"barrier">> \o Block \o FlushCaches \o checks \o <<"bail">>

ASSUME CpuAssumption == Master \in CPU
ASSUME ProgramAssumption == Program \in Seq(Op)
ASSUME InputAssumption == Pollers \subseteq CPU /\ EccInput \in BOOLEAN

\* In do_tick the master polls the keyboard between two waits.
ASSUME PollAssumption ==
  \A i \in 1 .. Len(Program) : Program[i] = "poll" =>
    /\ i > 1 /\ Program[i - 1] = "barrier"
    /\ i < Len(Program) /\ Program[i + 1] = "barrier"

VARIABLES
  pc,           \* the next point of Program for each core
  waiting,      \* whether it waits on run_barrier there
  bail

vars == <<pc, waiting, bail>>

\* The core has left run_test and waits in main.
Out == Len(Program) + 1
HasLeft(c) == pc[c] = Out

At(c, op) == ~HasLeft(c) /\ Program[pc[c]] = op /\ ~waiting[c]

Advance(c) == pc' = [pc EXCEPT ![c] = @ + 1]

Init == /\ pc = [c \in CPU |-> 1]
        /\ waiting = [c \in CPU |-> FALSE]
        /\ bail = FALSE

\* check_input: the user may skip the test or change the configuration.
Input == bail' \in {bail, TRUE}

-----------------------------------------------------------------------------
\* barrier_spin_wait(run_barrier) or barrier_halt_wait(run_barrier)
Arrive(c) == /\ At(c, "barrier")
             /\ waiting' = [waiting EXCEPT ![c] = TRUE]
             /\ UNCHANGED <<pc, bail>>

Open == /\ \A c \in CPU : waiting[c]
        /\ waiting' = [c \in CPU |-> FALSE]
        /\ pc' = [c \in CPU |-> pc[c] + 1]
        /\ UNCHANGED bail

\* Mutant: the master polls the keyboard while it tests.
WorkPolls(c) == /\ At(c, "work")
                /\ IF c = Master THEN Input ELSE UNCHANGED bail
                /\ Advance(c)
                /\ UNCHANGED waiting

\* A block of the test; the errors in it are displayed.
Work(c) == /\ At(c, "work")
           /\ IF c \in Pollers THEN Input ELSE UNCHANGED bail
           /\ Advance(c)
           /\ UNCHANGED waiting

\* do_tick between its two waits ...
Poll(c) == /\ At(c, "poll")
           /\ IF c = Master THEN Input ELSE UNCHANGED bail
           /\ Advance(c)
           /\ UNCHANGED waiting

\* ... and behind them: memctrl_poll_ecc may call ecc_error and so common_err.
Update(c) == /\ At(c, "update")
             /\ IF c = Master /\ EccInput THEN Input ELSE UNCHANGED bail
             /\ Advance(c)
             /\ UNCHANGED waiting

\* BAILOUT, in the test and then again in run_test.
Bailout(c) == /\ At(c, "bail")
              /\ IF bail THEN pc' = [pc EXCEPT ![c] = Out] ELSE Advance(c)
              /\ UNCHANGED <<waiting, bail>>

\* Mutant: bail is not reset for the next test.
NextTestBails == /\ \A c \in CPU : HasLeft(c)
                 /\ pc' = [c \in CPU |-> 1]
                 /\ UNCHANGED <<waiting, bail>>

\* Behind start_barrier the next test is started, and bail reset (module
\* TestLoop).
NextTest == /\ \A c \in CPU : HasLeft(c)
            /\ pc' = [c \in CPU |-> 1]
            /\ bail' = FALSE
            /\ UNCHANGED waiting

Step(c) == Arrive(c) \/ Work(c) \/ Poll(c) \/ Update(c) \/ Bailout(c)

Next == Open \/ NextTest \/ \E c \in CPU : Step(c)

Fairness == WF_vars(Open \/ NextTest) /\ \A c \in CPU : WF_vars(Step(c))

SafeSpec == Init /\ [][Next]_vars

Spec == SafeSpec /\ Fairness

-----------------------------------------------------------------------------
\* Every variable has its type.
TypeOK == /\ pc \in [CPU -> 1 .. Out]
          /\ waiting \in [CPU -> BOOLEAN]
          /\ bail \in BOOLEAN

\* No core waits on run_barrier for one that has left the test or waits at a
\* different point of it: all of them leave at the same BAILOUT, although each
\* reads bail on its own and the master may set it at any key.
LeaveTogether ==
  \A c, d \in CPU : waiting[c] => /\ ~HasLeft(d)
                                  /\ waiting[d] => pc[c] = pc[d]

-----------------------------------------------------------------------------
(***************************************************************************)
(* Why they do, when the keyboard is polled in do_tick only: the inductive *)
(* invariant.                                                              *)
(***************************************************************************)
NoBarrier(i, j) == \A k \in i .. j - 1 : Program[k] # "barrier"

\* All cores that are still in the test are between the same two barriers.
SameInterval ==
  \A c, d \in CPU : ~HasLeft(c) /\ ~HasLeft(d) => NoBarrier(pc[c], pc[d])

\* Once bail is set, no core has a BAILOUT behind it without a barrier since.
BailSeen ==
  bail => \A c \in CPU : ~HasLeft(c) =>
            \A k \in 1 .. pc[c] - 1 : Program[k] = "bail" =>
              \E j \in k + 1 .. pc[c] - 1 : Program[j] = "barrier"

\* When one core has left, the others come to no barrier before they leave too.
OthersLeave ==
  \A c, d \in CPU : HasLeft(d) /\ ~HasLeft(c) =>
    \/ NoBarrier(pc[c], Out)
    \/ bail /\ \E b \in pc[c] .. Len(Program) :
                 Program[b] = "bail" /\ NoBarrier(pc[c], b)

WaitsAtBarrier == \A c \in CPU : waiting[c] => ~HasLeft(c) /\ Program[pc[c]] = "barrier"

Inv == TypeOK /\ SameInterval /\ BailSeen /\ OthersLeave /\ WaitsAtBarrier

-----------------------------------------------------------------------------
\* README.md:354: the user can "skip to the next test (when running tests)":
\* once bail is set the cores leave the test and the next one is started.
SkipTakesEffect == bail ~> ~bail

\* Every test ends.
TestEnds == []<>(\A c \in CPU : HasLeft(c))

\* The test ends for all cores, and sooner when the user skips it: no core waits for
\* ever at run_barrier (BAILOUT, do_tick).
TestFinishes == TestEnds /\ SkipTakesEffect

=============================================================================
