------------------------------ MODULE TestLoop ------------------------------
(***************************************************************************)
(* The loop of main and test_all_windows (app/main.c) that every enabled   *)
(* core executes: passes, tests, stages, masters and memory windows, with  *)
(* the relocation of the program between its two load addresses.           *)
(*                                                                         *)
(* All waits of this loop use one barrier, start_barrier, which is taken   *)
(* here as module AbstractBarrier describes it: when all enabled cores     *)
(* wait, at whatever line, all go on.  What a core does between two waits  *)
(* is one step: in such an interval no core reads a variable that another  *)
(* one writes.                                                             *)
(*                                                                         *)
(* run_test is one step of each active core.  What it displays and measures*)
(* is left out, the errors it finds are a flag (that error_update may stop *)
(* the test at the first one is in module ErrorLog; here the user has      *)
(* chosen to go on).  Keys are polled by the master in run_test and by     *)
(* CPU 0 after each test.                                                  *)
(***************************************************************************)
EXTENDS Integers, Sequences, FiniteSets

CONSTANTS
  N,              \* num_available_cpus
  Enabled,        \* the cores that were selected and started: num_enabled_cpus of them
  MasterCores,    \* those whose cpu_state is still not disabled: all but excluded E-cores
  NumTests,       \* NUM_TEST_PATTERNS
  Stages,         \* test_list[].stages
  TestMode,       \* test_list[].cpu_mode
  NumWindows,     \* the windows up to the end of the last entry of pm_map
  Populated,      \* the windows that hold some memory
  MapLimit,       \* map_window fails from this window on
  MaxPass,        \* max_pass_num
  Behind,         \* what may lie behind the array test_sequence in memory
  BootImages,     \* where the boot loader may have put the program
  Configs,        \* the configurations the user can choose
  MaxInput        \* bound: keys the user presses

CPU == 0 .. N - 1
Test == 0 .. NumTests - 1
Window == 0 .. NumWindows - 1
Image == {"low", "high", "boot"}
CpuMode == {"PAR", "SEQ", "ONE"}

\* What the menus can change: the sequencing mode, the selected tests, whether
\* the lower limit is at or above LOW_LOAD_LIMIT, and the order of the tests.
Config == [cpu_mode : CpuMode,
           enabled : SUBSET Test \ {{}},
           above : BOOLEAN,
           test_sequence : {f \in [Test -> Test] :
                              \A i, j \in Test : f[i] = f[j] => i = j}]

ASSUME CpuAssumption == N \in Nat \ {0} /\ Enabled \in SUBSET CPU
                        /\ MasterCores \in SUBSET Enabled /\ 0 \in MasterCores
ASSUME TestAssumption == /\ NumTests \in Nat \ {0}
                         /\ Stages \in [Test -> Nat \ {0}]
                         /\ TestMode \in [Test -> CpuMode]
ASSUME WindowAssumption == /\ NumWindows \in Nat \ {0}
                           /\ Populated \in SUBSET Window
                           /\ MapLimit \in Nat
ASSUME PassAssumption == MaxPass \in Nat \ {0} /\ MaxInput \in Nat
ASSUME BehindAssumption == \A s \in Behind : s \in Seq(Test)
ASSUME BootAssumption == BootImages \in SUBSET Image
ASSUME ConfigAssumption == Configs \in SUBSET Config

VARIABLES
  \* per core
  at,             \* the barrier it waits at, or the code behind that barrier
  waiting,        \* whether it waits there
  image,          \* the copy of the program it executes
  i_am_master, i_am_active,
  \* shared
  start_run, start_pass, start_test, rerun_test, dummy_run,
  pass_num, test_num_index, test_num, test_stage,
  master_cpu, num_active_cpus,
  window_num, window_end, mapped,   \* window_end counts windows; mapped stands
                                    \* for num_mapped_pages > 0
  bail, restart,
  errors,         \* error_count > 0
  config,
  \* environment and history
  behind,         \* the values behind test_sequence
  inputs,         \* the keys pressed
  tested          \* <<core, stage, window>> run_test has been called for since
                  \* the start of the test

locals == <<i_am_master, i_am_active>>
flags == <<start_run, start_pass, start_test, rerun_test, dummy_run>>
position == <<pass_num, test_num_index, test_num, test_stage, master_cpu>>
windows == <<window_num, window_end, mapped>>
input == <<bail, restart, config, inputs>>
globals == <<flags, position, windows, bail, restart, config, errors,
             num_active_cpus>>
vars == <<at, waiting, image, locals, globals, behind, inputs, tested>>

\* at: "top", "ready", "done"   the three barriers of main
\*     "win", "adj", "map"      those of the loop of test_all_windows
\*     "to_low", "to_high"      the one of run_at
\*     "stopped"                the endless loop after the last pass
Label == {"top", "ready", "win", "adj", "to_low", "to_high", "map", "done",
          "stopped"}

\* test_sequence[i]: the array has NumTests elements; a read behind its end is
\* undefined and yields what the linker placed there, until a value ends it.
TestSequence(i) ==
  IF i < NumTests THEN config.test_sequence[i]
  ELSE IF i - NumTests < Len(behind) THEN behind[i - NumTests + 1]
  ELSE NumTests

Init == /\ at = [c \in Enabled |-> "top"]
        /\ waiting = [c \in Enabled |-> TRUE]
        /\ \E i \in BootImages : image = [c \in Enabled |-> i]
        /\ i_am_master = [c \in Enabled |-> FALSE]
        /\ i_am_active = [c \in Enabled |-> FALSE]
        /\ start_run = TRUE /\ dummy_run = TRUE
        /\ start_pass = FALSE /\ start_test = FALSE /\ rerun_test = FALSE
        /\ pass_num = 0 /\ test_num_index = 0 /\ test_stage = 0
        /\ master_cpu = 0 /\ num_active_cpus = 0
        /\ window_num = 0 /\ window_end = 0 /\ mapped = FALSE
        /\ bail = FALSE /\ restart = FALSE /\ errors = FALSE
        /\ config \in Configs
        /\ behind \in Behind
        /\ test_num = config.test_sequence[0]
        /\ inputs = << >>
        /\ tested = {}

-----------------------------------------------------------------------------
\* start_barrier: when all wait, all are released.
Open == /\ \A c \in Enabled : waiting[c]
        /\ waiting' = [c \in Enabled |-> FALSE]
        /\ UNCHANGED <<at, image, locals, globals, behind, inputs, tested>>

At(c, l) == at[c] = l /\ ~waiting[c]

\* The core goes on to the barrier before l and waits.
WaitAt(c, l) == /\ at' = [at EXCEPT ![c] = l]
                /\ waiting' = [waiting EXCEPT ![c] = TRUE]

NoInput == UNCHANGED <<input, start_pass, pass_num>>

\* The outcomes of check_input, as the values it leaves in the variables.
\* Nothing happens:
NoKey == [bail |-> bail, restart |-> restart, config |-> config,
          start_pass |-> start_pass, pass_num |-> pass_num, inputs |-> inputs]

Pressing(key) == [NoKey EXCEPT !.inputs = Append(@, key)]

\* The user skips the test.
SkipKey == [Pressing("skip") EXCEPT !.bail = TRUE]

\* The user changes the configuration; a new test order also sets start_pass,
\* a new number of passes resets pass_num.
ChangeKey(g, order, passes) ==
  [Pressing("change") EXCEPT !.bail = TRUE, !.restart = TRUE, !.config = g,
                             !.start_pass = @ \/ order, !.pass_num = IF passes THEN 0 ELSE @]

\* The user enters an invalid test order: it is rejected.
MistypeKey == [Pressing("mistype") EXCEPT !.start_pass = TRUE]

Keys ==
  {NoKey} \cup
  IF Len(inputs) = MaxInput THEN {}
  ELSE {SkipKey}
       \cup {ChangeKey(g, order, passes) : g \in Configs, order \in BOOLEAN,
                                           passes \in BOOLEAN}
       \cup {MistypeKey}

\* What check_input leaves to the code behind it.
Pressed(k) == bail' = k.bail /\ config' = k.config /\ inputs' = k.inputs

-----------------------------------------------------------------------------
(***************************************************************************)
(* main                                                                    *)
(***************************************************************************)
\* After the first barrier CPU 0 starts the run, pass, test or stage.
Top(c) ==
  /\ At(c, "top")
  /\ IF c = 0
     THEN LET pass == start_run \/ start_pass
              test == pass \/ start_test
              rerun == test \/ rerun_test
          IN /\ pass_num' = IF start_run THEN 0 ELSE pass_num
             /\ errors' = (errors /\ ~(start_run /\ ~dummy_run))
             /\ test_num_index' = IF pass THEN 0 ELSE test_num_index
             /\ test_num' = IF pass THEN TestSequence(0) ELSE test_num
             /\ test_stage' = IF test THEN 0 ELSE test_stage
             /\ bail' = (bail /\ ~test)
             /\ tested' = IF test THEN {} ELSE tested
             /\ window_num' = IF rerun THEN 0 ELSE window_num
             /\ window_end' = IF rerun THEN 0 ELSE window_end
             /\ start_run' = FALSE /\ start_pass' = FALSE
             /\ start_test' = FALSE /\ rerun_test' = FALSE
             /\ UNCHANGED <<dummy_run, master_cpu, mapped>>
     ELSE UNCHANGED <<flags, position, windows, bail, errors, tested>>
  /\ WaitAt(c, "ready")
  /\ UNCHANGED <<image, locals, num_active_cpus, restart, config, inputs, behind>>

\* Counted before the cores are started, when none is excluded yet.
num_enabled_cpus == Cardinality(Enabled)

\* After the second barrier an enabled test is run: test_all_windows up to its
\* first wait.
Ready(c) ==
  /\ At(c, "ready")
  /\ IF test_num \in config.enabled
     THEN LET parallel == /\ ~dummy_run
                          /\ config.cpu_mode = "PAR"
                          /\ TestMode[test_num] = "PAR"
          IN /\ i_am_master' = [i_am_master EXCEPT ![c] = c = master_cpu]
             /\ i_am_active' = [i_am_active EXCEPT ![c] = c = master_cpu \/ parallel]
             /\ num_active_cpus' = IF c # master_cpu THEN num_active_cpus
                                   ELSE IF parallel THEN num_enabled_cpus ELSE 1
             /\ WaitAt(c, "win")
     ELSE WaitAt(c, "done") /\ UNCHANGED <<locals, num_active_cpus>>
  /\ UNCHANGED <<image, flags, position, windows, input, errors, behind, tested>>

\* select_next_master
NextMaster ==
  LET next(k) == (master_cpu + k) % N
  IN next(CHOOSE k \in 1 .. N : /\ next(k) \in MasterCores
                                /\ \A j \in 1 .. k - 1 : next(j) \notin MasterCores)

\* Mutant: the last stage is left out.
StagesLeftButOne == test_num \in config.enabled /\ test_stage + 2 < Stages[test_num]

\* Whether the test is enabled and has stages left, whether another core then
\* becomes the master, and whether the test is run again with it.
StagesLeft == test_num \in config.enabled /\ test_stage + 1 < Stages[test_num]

Rotates == /\ test_num \in config.enabled
           /\ config.cpu_mode \in {"ONE", "SEQ"} \/ TestMode[test_num] = "SEQ"

MastersLeft == Rotates /\ config.cpu_mode # "ONE" /\ NextMaster # 0

TestsLeft == TestSequence(test_num_index + 1) < NumTests

\* After the third barrier all but CPU 0 go back to the first one.
Back(c) == /\ At(c, "done")
           /\ c # 0
           /\ WaitAt(c, "top")
           /\ UNCHANGED <<image, locals, globals, behind, inputs, tested>>

\* Mutant: the flag is cleared but no run is started.
RestartIgnored(k) ==
  /\ k.restart
  /\ restart' = FALSE
  /\ master_cpu' = 0
  /\ start_pass' = k.start_pass /\ pass_num' = k.pass_num
  /\ WaitAt(0, "top")
  /\ UNCHANGED <<start_run, dummy_run, start_test, rerun_test, test_num_index,
                 test_num, test_stage>>

\* CPU 0 decides how to go on.  The configuration has been changed:
Restart(k) ==
  /\ k.restart
  /\ restart' = FALSE
  /\ master_cpu' = 0
  /\ start_run' = TRUE /\ dummy_run' = TRUE
  /\ start_pass' = k.start_pass /\ pass_num' = k.pass_num
  /\ WaitAt(0, "top")
  /\ UNCHANGED <<start_test, rerun_test, test_num_index, test_num, test_stage>>

\* The next stage of the test, or its first stage with the next master.
Rerun(k) ==
  /\ ~k.restart
  /\ StagesLeft \/ MastersLeft
  /\ rerun_test' = TRUE
  /\ IF StagesLeft
     THEN test_stage' = test_stage + 1 /\ UNCHANGED master_cpu
     ELSE test_stage' = 0 /\ master_cpu' = NextMaster
  /\ start_pass' = k.start_pass
  /\ WaitAt(0, "top")
  /\ UNCHANGED <<start_run, start_test, dummy_run, pass_num, test_num_index,
                 test_num, restart>>

\* The test is over.
EndTest(k) ==
  /\ ~k.restart
  /\ ~StagesLeft /\ ~MastersLeft
  /\ test_stage' = IF test_num \in config.enabled THEN 0 ELSE test_stage
  /\ master_cpu' = IF Rotates THEN NextMaster ELSE master_cpu
  /\ start_test' = TRUE
  /\ test_num_index' = test_num_index + 1
  /\ test_num' = TestSequence(test_num_index + 1)
  /\ UNCHANGED <<rerun_test, restart>>

NextTest(k) ==
  /\ EndTest(k)
  /\ TestsLeft
  /\ start_pass' = k.start_pass
  /\ WaitAt(0, "top")
  /\ UNCHANGED <<start_run, dummy_run, pass_num>>

\* Mutant: passes are not counted.
EndPassUncounted(k) ==
  /\ EndTest(k)
  /\ ~TestsLeft
  /\ UNCHANGED pass_num

\* The pass is over: after NUM_PASS_TYPES dummy passes the real run begins.
EndPass(k) ==
  /\ EndTest(k)
  /\ ~TestsLeft
  /\ pass_num' = pass_num + 1

NumPassTypes == 2

NextPass(k) ==
  /\ EndPass(k)
  /\ IF dummy_run /\ pass_num + 1 = NumPassTypes
     THEN start_run' = TRUE /\ dummy_run' = FALSE /\ start_pass' = k.start_pass
     ELSE start_pass' = TRUE /\ UNCHANGED <<start_run, dummy_run>>
  /\ dummy_run \/ (~errors /\ pass_num + 1 < MaxPass)
  /\ WaitAt(0, "top")

\* The last pass, or the first one with errors: CPU 0 never leaves main's loop
\* with the verdict; the other cores wait for it for ever.
Stop(k) ==
  /\ EndPass(k)
  /\ ~dummy_run
  /\ errors \/ pass_num + 1 >= MaxPass
  /\ start_pass' = TRUE
  /\ at' = [at EXCEPT ![0] = "stopped"]
  /\ UNCHANGED <<waiting, start_run, dummy_run>>

Done == /\ At(0, "done")
        /\ \E k \in Keys :
             /\ Pressed(k)
             /\ Restart(k) \/ Rerun(k) \/ NextTest(k) \/ NextPass(k) \/ Stop(k)
        /\ UNCHANGED <<image, locals, windows, errors, num_active_cpus, behind,
                       tested>>

\* check_input in the endless loop.
Stopped == /\ At(0, "stopped")
           /\ \E k \in Keys : /\ Pressed(k)
                               /\ restart' = k.restart
                               /\ start_pass' = k.start_pass
                               /\ pass_num' = k.pass_num
           /\ UNCHANGED <<at, waiting, image, locals, start_run, start_test,
                          rerun_test, dummy_run, test_num_index, test_num,
                          test_stage, master_cpu, windows, errors,
                          num_active_cpus, behind, tested>>

-----------------------------------------------------------------------------
(***************************************************************************)
(* test_all_windows                                                        *)
(***************************************************************************)
\* The head of the loop: leave it after a bail-out; otherwise the master skips
\* the first window where it must not, or need not, be tested.
Win(c) ==
  /\ At(c, "win")
  /\ IF bail
     THEN WaitAt(c, "done") /\ UNCHANGED window_num
     ELSE /\ WaitAt(c, "adj")
          /\ window_num' = IF /\ i_am_master[c]
                              /\ window_num = 0
                              /\ Stages[test_num] > 1 \/ config.above
                           THEN 1 ELSE window_num
  /\ UNCHANGED <<image, locals, flags, position, window_end, mapped, input,
                 errors, num_active_cpus, behind, tested>>

\* Mutant: the program stays at the high address for one window more.
LoadAddrLate == IF window_num > 1 THEN "low" ELSE "high"

\* Where the program has to be while window_num is tested.
LoadAddr == IF window_num > 0 THEN "low" ELSE "high"

\* setup_vm_map(window_start, window_end) for the window below end: whether it
\* holds memory within the limits.
SetupVmMap(end) == end - 1 \in Populated /\ ~(config.above /\ end = 1)

\* Relocation: run_at up to its barrier (before which CPU 0 copies the
\* program); or the master determines the window.
Adj(c) ==
  /\ At(c, "adj")
  /\ IF ~dummy_run /\ image[c] # LoadAddr
     THEN /\ WaitAt(c, IF LoadAddr = "low" THEN "to_low" ELSE "to_high")
          /\ UNCHANGED <<window_end, mapped>>
     ELSE /\ WaitAt(c, "map")
          /\ IF i_am_master[c]
             THEN /\ window_end' = CASE window_num = 0 -> 1
                                     [] window_num = 1 -> 2
                                     [] OTHER -> window_end + 1
                  /\ mapped' = SetupVmMap(window_end')
             ELSE UNCHANGED <<window_end, mapped>>
  /\ UNCHANGED <<image, locals, flags, position, window_num, input, errors,
                 num_active_cpus, behind, tested>>

\* run_at behind its barrier: the jump to the copy, where main starts again.
Jump(c) ==
  /\ At(c, "to_low") \/ At(c, "to_high")
  /\ image' = [image EXCEPT ![c] = IF at[c] = "to_low" THEN "low" ELSE "high"]
  /\ WaitAt(c, "top")
  /\ test_num' = TestSequence(test_num_index)
  /\ UNCHANGED <<locals, flags, pass_num, test_num_index, test_stage, master_cpu,
                 windows, input, errors, num_active_cpus, behind, tested>>

\* The loop condition.
Again == IF window_end < NumWindows THEN "win" ELSE "done"

\* Mutant: a core with nothing to do leaves the loop.
SkipAll(c) ==
  /\ At(c, "map")
  /\ ~(i_am_active[c] /\ mapped)
  /\ window_num' = IF i_am_active[c] /\ i_am_master[c] THEN window_num + 1
                   ELSE window_num
  /\ WaitAt(c, "done")
  /\ UNCHANGED <<image, locals, flags, position, window_end, mapped, input,
                 errors, num_active_cpus, behind, tested>>

\* A core that has no part in the test, or nothing to test in this window.
Skip(c) ==
  /\ At(c, "map")
  /\ ~(i_am_active[c] /\ mapped)
  /\ window_num' = IF i_am_active[c] /\ i_am_master[c] THEN window_num + 1
                   ELSE window_num
  /\ WaitAt(c, Again)
  /\ UNCHANGED <<image, locals, flags, position, window_end, mapped, input,
                 errors, num_active_cpus, behind, tested>>

\* map_window fails: the active core leaves the loop.
Unmapped(c) ==
  /\ At(c, "map")
  /\ i_am_active[c] /\ mapped /\ ~dummy_run
  /\ window_end - 1 >= MapLimit
  /\ WaitAt(c, "done")
  /\ UNCHANGED <<image, locals, globals, inputs, behind, tested>>

\* run_test, in which the master polls the keyboard (not in a dummy run).
RunTest(c) ==
  /\ At(c, "map")
  /\ i_am_active[c] /\ mapped
  /\ dummy_run \/ window_end - 1 < MapLimit
  /\ window_num' = IF i_am_master[c] THEN window_num + 1 ELSE window_num
  /\ IF dummy_run
     THEN UNCHANGED <<errors, tested>>
     ELSE /\ errors' \in {errors, TRUE}
          /\ tested' = tested \cup {<<c, test_stage, window_end - 1>>}
  /\ IF i_am_master[c] /\ ~dummy_run
     THEN \E k \in Keys : /\ Pressed(k)
                          /\ restart' = k.restart
                          /\ start_pass' = k.start_pass
                          /\ pass_num' = k.pass_num
     ELSE NoInput
  /\ WaitAt(c, Again)
  /\ UNCHANGED <<image, locals, start_run, start_test, rerun_test, dummy_run,
                 test_num_index, test_num, test_stage, master_cpu, window_end,
                 mapped, num_active_cpus, behind>>

-----------------------------------------------------------------------------
Step(c) == \/ Top(c) \/ Ready(c) \/ Back(c) \/ Win(c) \/ Adj(c) \/ Jump(c)
           \/ Skip(c) \/ Unmapped(c) \/ RunTest(c)

Next == Open \/ Done \/ Stopped \/ \E c \in Enabled : Step(c)

\* Every core keeps executing, the barrier opens, tests end.
Fairness == WF_vars(Open) /\ WF_vars(Done) /\ \A c \in Enabled : WF_vars(Step(c))

SafeSpec == Init /\ [][Next]_vars

Spec == SafeSpec /\ Fairness

-----------------------------------------------------------------------------
(***************************************************************************)
(* Properties                                                              *)
(***************************************************************************)
\* Every variable has its type.
TypeOK ==
  /\ at \in [Enabled -> Label] /\ waiting \in [Enabled -> BOOLEAN]
  /\ image \in [Enabled -> Image]
  /\ i_am_master \in [Enabled -> BOOLEAN] /\ i_am_active \in [Enabled -> BOOLEAN]
  /\ {start_run, start_pass, start_test, rerun_test, dummy_run} \subseteq BOOLEAN
  /\ {mapped, bail, restart, errors} \subseteq BOOLEAN
  /\ {pass_num, test_num_index, test_num, test_stage} \subseteq Nat
  /\ {window_num, window_end} \subseteq 0 .. NumWindows + 1
  /\ master_cpu \in MasterCores
  /\ num_active_cpus \in 0 .. Cardinality(Enabled)
  /\ config \in Configs /\ behind \in Behind
  /\ inputs \in Seq({"skip", "change", "mistype"})
  /\ tested \in SUBSET (Enabled \X Nat \X Window)

\* The cores never wait for each other at different places, although all their
\* waits are on one barrier that cannot tell them apart.
BarrierAgreement ==
  \A c, d \in Enabled : waiting[c] /\ waiting[d] => at[c] = at[d]

\* Core c is about to call run_test for the window below window_end.
Testing(c) == /\ At(c, "map")
              /\ i_am_active[c] /\ mapped /\ ~dummy_run
              /\ window_end - 1 < MapLimit

\* While a window is tested the program is not in it, and that is so for every
\* core: also for those that take no part and only wait on their stacks.
ProgramOutsideWindow ==
  \A c \in Enabled : Testing(c) =>
    \A d \in Enabled : image[d] = IF window_end = 1 THEN "high" ELSE "low"

\* run_barrier is set up for as many cores as call run_test: with more they
\* would wait for ever, with fewer they would not wait for all.
RunBarrierFits ==
  (\E c \in Enabled : Testing(c)) =>
    num_active_cpus = Cardinality({c \in Enabled : i_am_active[c]})

\* Between the copy of the program and the jump of the last core into it no
\* core changes a variable, as the change would be lost with the old copy.
NoWriteDuringCopy ==
  [][(\E c \in Enabled : at[c] \in {"to_low", "to_high"}) => UNCHANGED globals]_vars

\* No core tests a window twice in one stage of a test.
NoWindowTwice ==
  [][\A c \in Enabled : Testing(c) /\ at'[c] # at[c] =>
       <<c, test_stage, window_end - 1>> \notin tested]_vars

\* The cores that have to run the test, and the windows they have to test.  An E-core that
\* is excluded takes its part where all cores test at the same time, but no turn of its own.
Testers == IF \/ config.cpu_mode = "ONE"
              \/ config.cpu_mode = "PAR" /\ TestMode[test_num] = "ONE"
           THEN {master_cpu}
           ELSE IF config.cpu_mode = "PAR" /\ TestMode[test_num] = "PAR" THEN Enabled
           ELSE MasterCores
TestWindows == {w \in Populated : /\ w < MapLimit
                                  /\ w = 0 => ~config.above /\ Stages[test_num] = 1}

\* A test comes to its end without having been skipped.
TestEnds == /\ ~dummy_run /\ test_num \in config.enabled /\ ~bail'
            /\ test_num_index' = test_num_index + 1

Mistyped == "mistype" \in {inputs[i] : i \in DOMAIN inputs}

\* A test that ends without having been skipped has been run at each of its
\* stages, in each window with memory to test (not the first one if it has
\* several stages), by all its cores and no other: whatever relocations there
\* were in between.  Not so after a rejected test order, which starts the pass again
\* with whatever core is the master.
TestComplete ==
  [][TestEnds /\ ~Mistyped =>
       tested = Testers \X (0 .. Stages[test_num] - 1) \X TestWindows]_vars

\* Once the user has skipped the test, no further window, stage or master of
\* it comes to be tested.
SkipEndsTest ==
  [][bail /\ bail' => \A c \in Enabled : Testing(c)' => Testing(c)]_vars

\* A change of the configuration is never lost: a new run begins.
ChangeStartsRun ==
  (restart /\ at[0] # "stopped") ~> (start_run /\ dummy_run /\ ~restart)

\* Testing comes to an end: the last pass, or the first one with errors.
RunEnds == <>(at[0] = "stopped")

\* The cores stay together: between two openings of the barrier they are at one wait
\* or on their way to it, whatever is skipped, restarted, relocated or beyond what
\* can be mapped, and run_barrier is set up for the cores that call run_test.
CoresMeet == TypeOK /\ BarrierAgreement /\ RunBarrierFits

\* The three that have to survive a relocation: nothing is written behind the copy,
\* no window is tested twice, and none is left out.
TestingInOrder == NoWriteDuringCopy /\ NoWindowTwice /\ TestComplete

\* A skip ends the test and a change starts a new run, at whichever poll the key is
\* taken and wherever the other cores are.
KeysTakeEffect == SkipEndsTest /\ ChangeStartsRun

-----------------------------------------------------------------------------
(***************************************************************************)
(* Why the properties hold: an invariant that every step preserves.        *)
(* Between two openings of the barrier all cores are in one phase, named   *)
(* by the wait they have left: they have not acted yet, or wait again.     *)
(***************************************************************************)
\* A window that holds memory but cannot be mapped is the last one.  Otherwise a core
\* that has no part in the test goes on to the next window while the active one has left
\* the loop.
OnlyLastUnmapped == \A w \in Populated : w >= MapLimit => w = NumWindows - 1

Phases == Label \ {"stopped"}
Moving == {"to_low", "to_high"}

\* The wait the cores leave phase l for.
Onward(l) ==
  CASE l = "top" -> "ready"
    [] l = "ready" -> IF test_num \in config.enabled THEN "win" ELSE "done"
    [] l = "win" -> IF bail THEN "done" ELSE "adj"
    [] l = "adj" -> IF ~dummy_run /\ image[0] # LoadAddr
                    THEN IF LoadAddr = "low" THEN "to_low" ELSE "to_high"
                    ELSE "map"
    [] l = "map" -> Again
    [] OTHER -> "top"

Together(l) ==
  \A c \in Enabled : \/ at[c] = l /\ ~waiting[c]
                     \/ at[c] = Onward(l) /\ waiting[c]
                     \/ l = "done" /\ c = 0 /\ at[c] = "stopped" /\ ~waiting[c]

\* All cores execute one copy of the program, outside the window that is set up,
\* except while they jump.
Images(l) ==
  /\ l \notin Moving => \A c, d \in Enabled : image[c] = image[d]
  /\ l \in Moving => \A c \in Enabled :
                       waiting[c] => image[c] = IF l = "to_low" THEN "low" ELSE "high"
  /\ l = "map" /\ ~dummy_run =>
       \A c \in Enabled : image[c] = IF window_end = 1 THEN "high" ELSE "low"

Parallel == ~dummy_run /\ config.cpu_mode = "PAR" /\ TestMode[test_num] = "PAR"

\* What test_all_windows has decided about the cores when it has passed its first wait.
Roles(l) ==
  /\ l = "ready" => \A c \in Enabled : at[c] = "win" =>
       /\ i_am_master[c] = (c = master_cpu)
       /\ i_am_active[c] = (c = master_cpu \/ Parallel)
       /\ c = master_cpu =>
            num_active_cpus = IF Parallel THEN Cardinality(Enabled) ELSE 1
  /\ l \in {"win", "adj", "map"} =>
       /\ \A c \in Enabled : i_am_master[c] = (c = master_cpu)
       /\ \/ num_active_cpus = Cardinality(Enabled) /\ \A c \in Enabled : i_am_active[c]
          \/ num_active_cpus = 1 /\ \A c \in Enabled : i_am_active[c] = (c = master_cpu)
       /\ ~restart => \A c \in Enabled : i_am_active[c] = (c = master_cpu \/ Parallel)

\* The next window is to be found, or has been.
Between == \/ window_num = window_end /\ window_end < NumWindows
           \/ window_num = 1 /\ window_end = 0
Found == window_num + 1 = window_end /\ window_end <= NumWindows + 1

StartFlag == start_run \/ start_pass \/ start_test

Windows(l) ==
  /\ l = "top" => StartFlag \/ rerun_test \/ Between
  /\ l \in {"ready", "win"} \cup Moving => Between
  /\ l = "adj" => IF at[master_cpu] = "map"
                  THEN Found /\ mapped = SetupVmMap(window_end) ELSE Between
  /\ l = "map" =>
       /\ IF ~waiting[master_cpu] THEN Found
          ELSE \/ window_num = window_end
               \/ window_num + 1 = window_end /\ window_end >= NumWindows
       /\ window_end \in 1 .. NumWindows + 1
       /\ mapped => window_end - 1 \in Populated
       /\ ~restart => mapped = SetupVmMap(window_end)
  /\ l = "done" /\ waiting[0] => start_run \/ start_test \/ rerun_test

\* When CPU 0 will start the test anew.
Anew(l) == StartFlag /\ l \in {"top", "done"}

\* What is known of the keys and of the decisions of CPU 0.
Decisions(l) ==
  /\ restart => bail /\ l \in {"map", "win", "done"} /\ (l = "done" => ~waiting[0])
  /\ l \in {"adj"} \cup Moving => ~bail
  /\ l = "top" /\ waiting[0] => ~StartFlag /\ ~rerun_test
  /\ start_run \/ start_test \/ rerun_test =>
       \/ l = "top" /\ ~waiting[0]
       \/ l = "done" /\ (waiting[0] \/ at[0] = "stopped")
  /\ start_pass => \/ Mistyped \/ restart
                   \/ l = "top" /\ ~waiting[0]
                   \/ l = "done" /\ (waiting[0] \/ at[0] = "stopped")
  /\ restart \/ start_run \/ test_num = TestSequence(test_num_index)
  /\ l \in {"win", "adj", "map"} \cup Moving => restart \/ test_num \in config.enabled
  /\ ~restart /\ test_num \in config.enabled /\ ~Anew(l) => test_stage < Stages[test_num]

\* The test is run by one core after the other.
InTurn == Rotates /\ config.cpu_mode # "ONE"

\* The first core is the master when a test is started.
Masters == ~Mistyped /\ ~restart =>
             \/ config.cpu_mode = "ONE" \/ master_cpu = 0
             \/ InTurn /\ ~StartFlag

\* The first window is passed over if, and only if, it is not to be tested.
FirstWindow(l) ==
  ~bail /\ test_num \in config.enabled =>
    /\ ~Anew(l) /\ ~rerun_test /\ l # "done" /\ window_num = 1 /\ window_end = 0
         => 0 \notin TestWindows
    /\ (l = "win" /\ at[master_cpu] = "adj") \/ l = "adj"
         => (window_num = 0 => Stages[test_num] = 1 /\ ~config.above)
    /\ l = "map" /\ window_end = 1 => Stages[test_num] = 1 /\ ~config.above

\* The windows core c has been through at this stage of the test.
Covered(l, c) ==
  CASE l = "top" -> IF rerun_test THEN 0 ELSE window_end
    [] l = "adj" -> IF at[master_cpu] = "map" THEN window_end - 1 ELSE window_end
    [] l = "map" -> IF waiting[c] THEN window_end ELSE window_end - 1
    [] l = "done" -> IF waiting[0] THEN 0 ELSE NumWindows
    [] OTHER -> window_end

\* What has to have been tested so far.
Due(l, c, s, w) ==
  /\ c \in Testers /\ s \in 0 .. Stages[test_num] - 1 /\ w \in TestWindows
  /\ \/ InTurn /\ c < master_cpu
     \/ /\ c = master_cpu \/ Parallel
        /\ s < test_stage \/ (s = test_stage /\ w < Covered(l, c))

\* That has been tested and nothing else; and while a window is tested, not that
\* window by the cores that are still to do it.
Progress(l) ==
  /\ ~bail /\ ~dummy_run /\ test_num \in config.enabled /\ ~Anew(l) /\ at[0] # "stopped" =>
       /\ \A t \in tested : Due(l, t[1], t[2], t[3])
       /\ ~Mistyped => \A c \in Enabled, s \in 0 .. Stages[test_num] - 1, w \in Window :
                         Due(l, c, s, w) => <<c, s, w>> \in tested
  /\ l = "map" /\ ~dummy_run =>
       \A t \in tested : i_am_active[t[1]] /\ ~waiting[t[1]] =>
                           t[2] # test_stage \/ t[3] < window_end - 1

InPhase(l) == /\ Together(l) /\ Images(l) /\ Roles(l) /\ Windows(l) /\ Decisions(l)
              /\ Masters /\ FirstWindow(l) /\ Progress(l)

LoopInv == TypeOK /\ \E l \in Phases : InPhase(l)

=============================================================================
