------------------------------ MODULE ErrorLog ------------------------------
(***************************************************************************)
(* Error reporting: common_err and error_update of app/error.c, with the   *)
(* error_mutex spinlock (lib/spinlock.h) and the verdict that main         *)
(* (app/main.c) gives at the end of a pass.  Every active core runs a      *)
(* memory test and calls common_err for each bad word it finds; the cores  *)
(* meet in do_tick (app/display.c), where the master core polls the        *)
(* keyboard and calls error_update while the others wait.                  *)
(*                                                                         *)
(* What is displayed is left out.  An error is of type "data" (addr_error  *)
(* and data_error: the counters treat them alike) or "cecc" (a corrected   *)
(* ECC error, found by the master when it polls the memory controller).    *)
(* Between tests it is CPU 0 that polls the keyboard and calls             *)
(* error_update; here it is called the master too, since nothing but who   *)
(* ends up in an endless loop depends on it.                               *)
(***************************************************************************)
EXTENDS Integers, FiniteSets

CONSTANTS
  CPU,              \* the active cores
  NoCpu,            \* no core: the mutex is free
  Master,           \* master_cpu
  ErrorLimit,       \* ERROR_LIMIT and INT_MAX, where the counters saturate
  CeccLimit,        \* 999999, the bound of error_count_cecc
  EccCounts,        \* the numbers of corrected errors one poll reports
  MaxFound,         \* bound: bad words found in one run
  MenuValues,       \* the values the user gives continue_on_error in the menu
  MayRestart,       \* whether the user changes the configuration
  Pollers           \* the cores whose common_err polls the keyboard: {Master} in
                    \* address mode, every core in the BadRAM, memmap and pages
                    \* modes (badram_display), none in the other modes

ASSUME MasterAssumption == Master \in CPU /\ NoCpu \notin CPU /\ IsFiniteSet(CPU)
ASSUME LimitAssumption == ErrorLimit \in Nat \ {0} /\ CeccLimit \in Nat
ASSUME EccAssumption == EccCounts \in SUBSET Nat
ASSUME FoundAssumption == MaxFound \in Nat
ASSUME MenuAssumption == MenuValues \in SUBSET BOOLEAN /\ MayRestart \in BOOLEAN
ASSUME PollersAssumption == Pollers \in SUBSET CPU

VARIABLES
  lock,                 \* *error_mutex (who holds it, or NoCpu)
  pc,                   \* where each core is
  type,                 \* the argument type of the core's call of common_err
  error_count, error_count_cecc,
  test_errors,          \* test_list[test_num].errors
  testpass,             \* 0 running, 1 pass, 2 fail
  continue_on_error,
  restart,
  halted,               \* the master is in a loop that never ends
  found,                \* (history) bad words found in this run
  dropped               \* (history) those of them common_err ignored

counters == <<error_count, error_count_cecc, test_errors>>
history == <<found, dropped>>
vars == <<lock, pc, type, error_count, error_count_cecc, test_errors, testpass,
          continue_on_error, restart, halted, found, dropped>>

\* pc: "run"     testing
\*     "check"   entering common_err
\*     "lock"    in spin_lock
\*     "count"   holding the mutex, counters not yet updated
\*     "show"    holding the mutex, displaying the error
\*     "after"   mutex released, the last test of common_err
\*     "update"  (master) in error_update, called by ecc_error
\*     "tick"    waiting in do_tick
\*     "end"     the test is over, or bailed out of: waiting in main
\*     "halt"    (master) in one of the loops that only poll the keyboard
PC == {"run", "check", "lock", "count", "show", "after", "update", "tick",
       "end", "halt"}

Init == /\ lock = NoCpu
        /\ pc = [c \in CPU |-> "run"]
        /\ type = [c \in CPU |-> "data"]
        /\ error_count = 0 /\ error_count_cecc = 0 /\ test_errors = 0
        /\ testpass = 0
        /\ continue_on_error \in BOOLEAN
        /\ restart = FALSE
        /\ halted = FALSE
        /\ found = 0 /\ dropped = 0

\* counter++ with a limit.
Saturate(n, limit) == IF n < limit THEN n + 1 ELSE n

\* error_count_cecc += ecc_status.count, unless the limit is reached by that.
AddBelow(n, more) == IF n + more < CeccLimit THEN n + more ELSE n

\* What a key can do to these variables (check_input, config_menu): the menu
\* toggles continue_on_error or changes the configuration.
Input == /\ continue_on_error' \in {continue_on_error} \cup MenuValues
         /\ restart' \in {restart, restart \/ MayRestart}

NoInput == UNCHANGED <<continue_on_error, restart>>

-----------------------------------------------------------------------------
(***************************************************************************)
(* common_err                                                              *)
(***************************************************************************)
\* A test finds a bad word (addr_error, data_error), or the master's poll of
\* the memory controller finds that ECC corrected one (ecc_error).
Find(c, t) ==
  /\ pc[c] = "run"
  /\ \/ t = "data" /\ found < MaxFound
     \/ t = "cecc" /\ c = Master
  /\ pc' = [pc EXCEPT ![c] = "check"]
  /\ type' = [type EXCEPT ![c] = t]
  /\ found' = IF t = "data" THEN found + 1 ELSE found
  /\ NoInput
  /\ UNCHANGED <<lock, counters, testpass, halted, dropped>>

\* Where common_err returns to: ecc_error goes on to error_update.
Return(c) == IF type[c] = "cecc" THEN "update" ELSE "run"

\* Mutant: errors are ignored whenever the test is to stop on one.
CheckModeOnly(c) ==
  /\ pc[c] = "check"
  /\ IF ~continue_on_error
     THEN /\ pc' = [pc EXCEPT ![c] = Return(c)]
          /\ dropped' = IF type[c] = "data" THEN dropped + 1 ELSE dropped
     ELSE /\ pc' = [pc EXCEPT ![c] = "lock"]
          /\ UNCHANGED dropped
  /\ NoInput
  /\ UNCHANGED <<lock, type, counters, testpass, halted, found>>

\* "Once the test has stopped on an error (default behaviour), ignore all
\* further errors": the test of testpass is made before the mutex is taken.
Check(c) ==
  /\ pc[c] = "check"
  /\ IF testpass = 2 /\ ~continue_on_error
     THEN /\ pc' = [pc EXCEPT ![c] = Return(c)]
          /\ dropped' = IF type[c] = "data" THEN dropped + 1 ELSE dropped
     ELSE /\ pc' = [pc EXCEPT ![c] = "lock"]
          /\ UNCHANGED dropped
  /\ NoInput
  /\ UNCHANGED <<lock, type, counters, testpass, halted, found>>

\* spin_lock(error_mutex)
Lock(c) ==
  /\ pc[c] = "lock"
  /\ lock = NoCpu
  /\ lock' = c
  /\ pc' = [pc EXCEPT ![c] = "count"]
  /\ NoInput
  /\ UNCHANGED <<type, counters, testpass, halted, history>>

\* Mutant: corrected errors are counted with the others.
CountCorrected(c) ==
  /\ pc[c] = "count"
  /\ error_count' = Saturate(error_count, ErrorLimit)
  /\ test_errors' = Saturate(test_errors, ErrorLimit)
  /\ pc' = [pc EXCEPT ![c] = "show"]
  /\ NoInput
  /\ UNCHANGED <<lock, type, error_count_cecc, testpass, halted, history>>

\* The counters, with their limits.
Count(c) ==
  /\ pc[c] = "count"
  /\ IF type[c] = "cecc"
     THEN /\ \E n \in EccCounts : error_count_cecc' = AddBelow(error_count_cecc, n)
          /\ UNCHANGED <<error_count, test_errors>>
     ELSE /\ error_count' = Saturate(error_count, ErrorLimit)
          /\ test_errors' = Saturate(test_errors, ErrorLimit)
          /\ UNCHANGED error_count_cecc
  /\ pc' = [pc EXCEPT ![c] = "show"]
  /\ NoInput
  /\ UNCHANGED <<lock, type, testpass, halted, history>>

\* The error is displayed, polling the keyboard (check_input in address mode and
\* in scroll, by the master; badram_display, by any core), then
\* spin_unlock(error_mutex).
Show(c) ==
  /\ pc[c] = "show"
  /\ IF c \in Pollers THEN Input ELSE NoInput
  /\ lock' = NoCpu
  /\ pc' = [pc EXCEPT ![c] = "after"]
  /\ UNCHANGED <<type, counters, testpass, halted, history>>

\* The end of common_err: the master stops the test.
After(c) ==
  /\ pc[c] = "after"
  /\ IF ~continue_on_error /\ error_count > 0 /\ c = Master
     THEN /\ testpass' = 2
          /\ halted' = TRUE
          /\ pc' = [pc EXCEPT ![c] = "halt"]
     ELSE /\ pc' = [pc EXCEPT ![c] = Return(c)]
          /\ UNCHANGED <<testpass, halted>>
  /\ NoInput
  /\ UNCHANGED <<lock, type, counters, history>>

-----------------------------------------------------------------------------
(***************************************************************************)
(* error_update, and the places it is called from                          *)
(***************************************************************************)
\* Mutant: the test stops when there is one error (see the comment "Don't rely
\* on (error_count == 1)" in error_update).
ErrorUpdateFirst(next) ==
  IF error_count = 1 /\ testpass # 2
  THEN /\ testpass' = 2
       /\ halted' = ~continue_on_error'
       /\ pc' = IF continue_on_error' THEN next ELSE [pc EXCEPT ![Master] = "halt"]
  ELSE /\ pc' = next
       /\ UNCHANGED <<testpass, halted>>

\* error_update(), after which the cores are at "next" unless it stops the
\* test.  (Its call of common_err for a new display mode ends the same way.)
ErrorUpdate(next) ==
  IF error_count > 0 /\ testpass # 2
  THEN /\ testpass' = 2
       /\ halted' = ~continue_on_error'
       /\ pc' = IF continue_on_error' THEN next ELSE [pc EXCEPT ![Master] = "halt"]
  ELSE /\ pc' = next
       /\ UNCHANGED <<testpass, halted>>

\* As called by ecc_error, while the other cores test.
EccUpdate ==
  /\ pc[Master] = "update"
  /\ NoInput
  /\ ErrorUpdate([pc EXCEPT ![Master] = "run"])
  /\ UNCHANGED <<lock, type, counters, history>>

\* A core has finished its block and calls do_tick.
Arrive(c) ==
  /\ pc[c] = "run"
  /\ pc' = [pc EXCEPT ![c] = "tick"]
  /\ NoInput
  /\ UNCHANGED <<lock, type, counters, testpass, halted, history>>

AllAt(where) == \A c \in CPU : pc[c] = where

\* All are in do_tick: check_input() and error_update() by the master, then
\* the test goes on, or is over, or is bailed out of.
Tick ==
  /\ AllAt("tick")
  /\ Input
  /\ \E where \in {"run", "end"} :
       /\ restart' => where = "end"
       /\ ErrorUpdate([c \in CPU |-> where])
  /\ UNCHANGED <<lock, type, counters, history>>

\* main after a test: check_input(); after a change of the configuration there is
\* a dummy run, in which error_update() still meets the errors of the old run,
\* and then a new run, with what error_init and display_start_run reset.
StartRun ==
  /\ AllAt("end")
  /\ restart \/ MayRestart
  /\ restart' = FALSE
  /\ continue_on_error' \in {continue_on_error} \cup MenuValues
  /\ ErrorUpdate([c \in CPU |-> "run"])
  /\ IF halted' THEN UNCHANGED <<error_count, history>>
     ELSE error_count' = 0 /\ found' = 0 /\ dropped' = 0
  /\ UNCHANGED <<lock, type, error_count_cecc, test_errors>>

\* Otherwise error_update(), and the next test or pass.
NextTest ==
  /\ AllAt("end")
  /\ ~restart
  /\ Input
  /\ restart' = FALSE
  /\ ErrorUpdate([c \in CPU |-> "run"])
  /\ UNCHANGED <<lock, type, counters, history>>

\* The end of the last pass: main gives its verdict and never returns.
Verdict ==
  /\ AllAt("end")
  /\ ~restart
  /\ Input
  /\ restart' = FALSE
  /\ testpass' = IF error_count = 0 THEN 1 ELSE 2
  /\ halted' = TRUE
  /\ pc' = [pc EXCEPT ![Master] = "halt"]
  /\ UNCHANGED <<lock, type, counters, history>>

\* The loops that never end: only check_input() is called.
HaltLoop ==
  /\ pc[Master] = "halt"
  /\ Input
  /\ UNCHANGED <<lock, pc, type, counters, testpass, halted, history>>

Step(c) == \/ Check(c) \/ Lock(c) \/ Count(c) \/ Show(c) \/ After(c) \/ Arrive(c)

Next == \/ \E c \in CPU : Step(c) \/ \E t \in {"data", "cecc"} : Find(c, t)
        \/ EccUpdate \/ Tick \/ StartRun \/ NextTest \/ Verdict \/ HaltLoop

\* Each core keeps executing, and tests come to an end.  error_mutex is not
\* fair: a core in spin_lock may be overtaken.
Fairness == /\ \A c \in CPU : WF_vars(Step(c))
            /\ WF_vars(EccUpdate) /\ WF_vars(Tick)
            /\ WF_vars(StartRun \/ NextTest \/ Verdict)

SafeSpec == Init /\ [][Next]_vars

Spec == SafeSpec /\ Fairness

-----------------------------------------------------------------------------
(***************************************************************************)
(* Properties                                                              *)
(***************************************************************************)
\* Every variable has its type, the counters within their limits.
TypeOK == /\ lock \in CPU \cup {NoCpu}
          /\ pc \in [CPU -> PC]
          /\ type \in [CPU -> {"data", "cecc"}]
          /\ error_count \in 0 .. ErrorLimit
          /\ test_errors \in 0 .. ErrorLimit
          /\ error_count_cecc \in 0 .. CeccLimit
          /\ testpass \in 0 .. 2
          /\ continue_on_error \in BOOLEAN
          /\ restart \in BOOLEAN
          /\ halted \in BOOLEAN
          /\ found \in 0 .. MaxFound
          /\ dropped \in Nat

Critical(c) == pc[c] \in {"count", "show"}

\* One core at a time updates the error statistics and the display, and the
\* mutex is free whenever none does (in particular when the master has
\* stopped: the others must not spin for ever on a mutex it took with it).
MutualExclusion ==
  /\ \A c \in CPU : Critical(c) <=> lock = c
  /\ lock = NoCpu \/ lock \in CPU

\* The bad words that were reported and are not counted yet.
InFlight == {c \in CPU : type[c] = "data" /\ pc[c] \in {"check", "lock", "count"}}

Least(m, n) == IF m < n THEN m ELSE n

\* No bad word is counted twice and none is forgotten: error_count is the
\* number found in this run, less the ignored ones and those on the way.
EveryErrorCounted ==
  error_count = Least(ErrorLimit, found - dropped - Cardinality(InFlight))

\* The inductive invariant behind these two: nothing is ignored or on its way
\* that was not found.
CountInv == found - dropped - Cardinality(InFlight) >= 0

Inv == TypeOK /\ MutualExclusion /\ EveryErrorCounted /\ CountInv

\* The inductive invariant behind the next property, if the user does not turn
\* continue_on_error off: the master has stopped if and only if it is in one of the
\* loops, it has stopped whenever errors are ignored, and after PASS no core tests.
VerdictInv ==
  /\ halted <=> pc[Master] = "halt"
  /\ testpass = 2 /\ ~continue_on_error => halted
  /\ dropped > 0 => halted
  /\ testpass = 1 => /\ found = 0 /\ halted
                     /\ \A c \in CPU \ {Master} : pc[c] = "end"

\* PASS is only announced for a run in which no bad word was found.
NoFalsePass == testpass = 1 => found = 0

\* An uncorrected error, on whatever core, stops the test in the end (unless
\* continue_on_error is set), or the user starts another run.
StopsOnError == error_count > 0 /\ ~continue_on_error
                   ~> halted \/ error_count = 0 \/ continue_on_error
=============================================================================
