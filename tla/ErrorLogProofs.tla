--------------------------- MODULE ErrorLogProofs ---------------------------
(***************************************************************************)
(* Proofs about modules ErrorLog and SerialLog, for any number of cores    *)
(* and any limits: the mutex protects the statistics, every bad word is    *)
(* counted once, and the log and the reports say what was found.           *)
(***************************************************************************)
EXTENDS SerialLog, FiniteSetTheorems, TLAPS

\* The errors on their way are a finite set.
LEMMA InFlightFinite == IsFiniteSet(InFlight) /\ Cardinality(InFlight) \in Nat
  BY MasterAssumption, FS_Subset, FS_CardinalityType DEF InFlight

\* Arithmetic of the counter: one more error moves it on, up to its limit.
LEMMA SaturateLeast ==
  ASSUME NEW L \in Nat, NEW x \in Nat
  PROVE  /\ Saturate(Least(L, x), L) = Least(L, x + 1)
         /\ Least(L, x) \in 0 .. L
  BY DEF Saturate, Least

\* The initial states satisfy the invariant.
LEMMA InitInv == Init => Inv
<1> SUFFICES ASSUME Init PROVE Inv
  OBVIOUS
<1>1. InFlight = {}
  BY DEF Init, InFlight
<1>2. Cardinality(InFlight) = 0
  BY <1>1, FS_EmptySet
<1>3. TypeOK
  <2>1. /\ error_count \in 0 .. ErrorLimit /\ test_errors \in 0 .. ErrorLimit
        /\ error_count_cecc \in 0 .. CeccLimit /\ testpass \in 0 .. 2
        /\ found \in 0 .. MaxFound /\ dropped \in Nat
    BY LimitAssumption, FoundAssumption DEF Init
  <2>2. continue_on_error \in BOOLEAN /\ restart \in BOOLEAN /\ halted \in BOOLEAN
    BY MenuAssumption DEF Init
  <2>3. /\ lock \in CPU \cup {NoCpu} /\ pc \in [CPU -> PC]
        /\ type \in [CPU -> {"data", "cecc"}]
    BY DEF Init, PC
  <2> QED BY <2>1, <2>2, <2>3 DEF TypeOK
<1>4. MutualExclusion
  BY MasterAssumption DEF Init, MutualExclusion, Critical
<1>5. EveryErrorCounted /\ CountInv
  BY <1>2, LimitAssumption DEF Init, EveryErrorCounted, CountInv, Least
<1> QED BY <1>3, <1>4, <1>5 DEF Inv

\* A step that leaves the errors on their way, and the counter, alone.
LEMMA SameCount ==
  ASSUME Inv, InFlight' = InFlight, UNCHANGED <<error_count, found, dropped>>
  PROVE  EveryErrorCounted' /\ CountInv'
  BY DEF Inv, EveryErrorCounted, CountInv, Least

\* How the cores move: one core from a point outside the critical section to
\* another, none of them on the way to the counter.
LEMMA MoveOutside ==
  ASSUME Inv, NEW c \in CPU, NEW where \in PC, UNCHANGED <<lock, type>>,
         pc[c] \notin {"check", "lock", "count", "show"},
         where \notin {"check", "lock", "count", "show"},
         pc' = [pc EXCEPT ![c] = where]
  PROVE  InFlight' = InFlight /\ MutualExclusion' /\ pc' \in [CPU -> PC]
<1>1. \A d \in CPU : pc'[d] = IF d = c THEN where ELSE pc[d]
  BY DEF Inv, TypeOK
<1>2. InFlight' = InFlight
  BY <1>1 DEF InFlight
<1>3. MutualExclusion'
  BY <1>1 DEF Inv, MutualExclusion, Critical
<1> QED BY <1>2, <1>3 DEF Inv, TypeOK

\* All cores move from one barrier to another place outside common_err.
LEMMA MoveAll ==
  ASSUME Inv, NEW from \in {"tick", "end"}, NEW to \in {"run", "end"},
         AllAt(from), UNCHANGED <<lock, type>>,
         \/ pc' = [c \in CPU |-> to]
         \/ pc' = [pc EXCEPT ![Master] = "halt"]
  PROVE  /\ InFlight = {} /\ InFlight' = {} /\ MutualExclusion'
         /\ pc' \in [CPU -> PC]
<1>1. \A d \in CPU : pc[d] = from /\ pc'[d] \in {from, to, "halt"}
  BY DEF Inv, TypeOK, AllAt
<1>2. InFlight = {} /\ InFlight' = {}
  BY <1>1 DEF InFlight
<1>3. MutualExclusion'
  BY <1>1 DEF Inv, MutualExclusion, Critical
<1>4. pc' \in [CPU -> PC]
  BY DEF Inv, TypeOK, PC
<1> QED BY <1>2, <1>3, <1>4

\* What a key does.
LEMMA InputType ==
  ASSUME Inv, Input \/ NoInput
  PROVE  continue_on_error' \in BOOLEAN /\ restart' \in BOOLEAN
<1>1. CASE NoInput
  BY <1>1 DEF NoInput, Inv, TypeOK
<1>2. CASE Input
  <2>1. continue_on_error' \in BOOLEAN
    BY <1>2, MenuAssumption DEF Input, Inv, TypeOK
  <2>2. restart' = restart \/ restart' = (restart \/ MayRestart)
    BY <1>2 DEF Input
  <2> QED BY <2>1, <2>2, MenuAssumption DEF Inv, TypeOK
<1> QED BY <1>1, <1>2

\* error_update keeps the types of what it writes.
LEMMA UpdateType ==
  ASSUME Inv, NEW next, ErrorUpdate(next), continue_on_error' \in BOOLEAN
  PROVE  /\ testpass' \in 0 .. 2 /\ halted' \in BOOLEAN
         /\ pc' = next \/ pc' = [pc EXCEPT ![Master] = "halt"]
<1>1. CASE error_count > 0 /\ testpass # 2
  <2>1. testpass' = 2 /\ halted' = ~continue_on_error'
    BY <1>1 DEF ErrorUpdate
  <2>2. pc' = next \/ pc' = [pc EXCEPT ![Master] = "halt"]
    BY <1>1 DEF ErrorUpdate
  <2> QED BY <2>1, <2>2
<1>2. CASE ~(error_count > 0 /\ testpass # 2)
  BY <1>2 DEF ErrorUpdate, Inv, TypeOK
<1> QED BY <1>1, <1>2

\* Every step preserves the invariant.
LEMMA InvStep == Inv /\ [Next]_vars => Inv'
<1> SUFFICES ASSUME Inv, [Next]_vars PROVE Inv'
  OBVIOUS
<1>0. /\ found \in Nat /\ dropped \in Nat /\ Cardinality(InFlight) \in Nat
      /\ found - dropped - Cardinality(InFlight) \in Nat
      /\ ErrorLimit \in Nat \ {0} /\ CeccLimit \in Nat
  BY InFlightFinite, LimitAssumption, FoundAssumption DEF Inv, TypeOK, CountInv
<1>1. CASE UNCHANGED vars
  BY <1>1 DEF vars, Inv, TypeOK, MutualExclusion, Critical, EveryErrorCounted,
              CountInv, InFlight, Least
<1>2. ASSUME NEW c \in CPU, NEW t \in {"data", "cecc"}, Find(c, t) PROVE Inv'
  <2>1. \A d \in CPU : /\ pc'[d] = IF d = c THEN "check" ELSE pc[d]
                       /\ type'[d] = IF d = c THEN t ELSE type[d]
    BY <1>2 DEF Find, Inv, TypeOK
  <2>2. MutualExclusion'
    BY <1>2, <2>1 DEF Find, Inv, MutualExclusion, Critical
  <2>3. CASE t = "data"
    <3>1. InFlight' = InFlight \cup {c} /\ c \notin InFlight
      BY <1>2, <2>1, <2>3 DEF Find, InFlight
    <3>2. Cardinality(InFlight)' = Cardinality(InFlight) + 1
      BY <3>1, InFlightFinite, FS_AddElement
    <3>3. found' = found + 1 /\ UNCHANGED <<dropped, error_count>> /\ found < MaxFound
      BY <1>2, <2>3 DEF Find, counters
    <3>4. found' - dropped' - Cardinality(InFlight)'
            = found - dropped - Cardinality(InFlight)
      BY <1>0, <3>2, <3>3
    <3>5. EveryErrorCounted' /\ CountInv'
      BY <3>3, <3>4 DEF Inv, EveryErrorCounted, CountInv, Least
    <3>6. TypeOK'
      BY <1>2, <3>3, FoundAssumption DEF Find, NoInput, counters, Inv, TypeOK, PC
    <3> QED BY <2>2, <3>5, <3>6 DEF Inv
  <2>4. CASE t = "cecc"
    <3>1. InFlight' = InFlight
      BY <1>2, <2>1, <2>4 DEF Find, InFlight
    <3>2. UNCHANGED <<error_count, found, dropped>>
      BY <1>2, <2>4 DEF Find, counters
    <3>3. EveryErrorCounted' /\ CountInv'
      BY <3>1, <3>2, SameCount
    <3>4. TypeOK'
      BY <1>2, <3>2 DEF Find, NoInput, counters, Inv, TypeOK, PC
    <3> QED BY <2>2, <3>3, <3>4 DEF Inv
  <2> QED BY <2>3, <2>4
<1>3. ASSUME NEW c \in CPU, Check(c) PROVE Inv'
  <2>1. CASE testpass = 2 /\ ~continue_on_error
    <3>0. pc' = [pc EXCEPT ![c] = Return(c)] /\ Return(c) \in {"update", "run"}
      BY <1>3, <2>1 DEF Check, Return
    <3>1. \A d \in CPU : /\ pc'[d] = IF d = c THEN Return(c) ELSE pc[d]
                         /\ type'[d] = type[d]
      BY <1>3, <3>0 DEF Check, Inv, TypeOK
    <3>2. MutualExclusion'
      BY <1>3, <3>0, <3>1 DEF Check, Inv, MutualExclusion, Critical
    <3>3. InFlight' = InFlight \ {c}
      BY <3>0, <3>1 DEF InFlight
    <3>4. CASE type[c] = "data"
      <4>1. c \in InFlight
        BY <1>3, <3>4 DEF Check, InFlight
      <4>2. Cardinality(InFlight)' = Cardinality(InFlight) - 1
        BY <3>3, <4>1, InFlightFinite, FS_RemoveElement
      <4>3. dropped' = dropped + 1 /\ UNCHANGED <<found, error_count>>
        BY <1>3, <2>1, <3>4 DEF Check, counters
      <4>4. found' - dropped' - Cardinality(InFlight)'
              = found - dropped - Cardinality(InFlight)
        BY <1>0, <4>2, <4>3
      <4>5. EveryErrorCounted' /\ CountInv'
        BY <4>3, <4>4 DEF Inv, EveryErrorCounted, CountInv, Least
      <4>6. TypeOK'
        BY <1>3, <3>0, <4>3 DEF Check, NoInput, counters, Inv, TypeOK, PC
      <4> QED BY <3>2, <4>5, <4>6 DEF Inv
    <3>5. CASE type[c] # "data"
      <4>1. InFlight' = InFlight
        BY <3>3, <3>5 DEF InFlight
      <4>2. UNCHANGED <<error_count, found, dropped>>
        BY <1>3, <2>1, <3>5 DEF Check, counters
      <4>3. EveryErrorCounted' /\ CountInv'
        BY <4>1, <4>2, SameCount
      <4>4. TypeOK'
        BY <1>3, <3>0, <4>2 DEF Check, NoInput, counters, Inv, TypeOK, PC
      <4> QED BY <3>2, <4>3, <4>4 DEF Inv
    <3> QED BY <3>4, <3>5
  <2>2. CASE ~(testpass = 2 /\ ~continue_on_error)
    <3>1. pc' = [pc EXCEPT ![c] = "lock"] /\ UNCHANGED <<lock, type, error_count, found, dropped>>
      BY <1>3, <2>2 DEF Check, counters
    <3>2. \A d \in CPU : pc'[d] = IF d = c THEN "lock" ELSE pc[d]
      BY <3>1 DEF Inv, TypeOK
    <3>3. InFlight' = InFlight /\ MutualExclusion'
      BY <1>3, <3>1, <3>2 DEF Check, InFlight, Inv, MutualExclusion, Critical
    <3>4. TypeOK'
      BY <1>3, <3>1 DEF Check, NoInput, counters, Inv, TypeOK, PC
    <3> QED BY <3>1, <3>3, <3>4, SameCount DEF Inv
  <2> QED BY <2>1, <2>2
<1>4. ASSUME NEW c \in CPU, Lock(c) PROVE Inv'
  <2>1. \A d \in CPU : pc'[d] = IF d = c THEN "count" ELSE pc[d]
    BY <1>4 DEF Lock, Inv, TypeOK
  <2>2. InFlight' = InFlight
    BY <1>4, <2>1 DEF Lock, InFlight
  <2>3. MutualExclusion'
    BY <1>4, <2>1, MasterAssumption DEF Lock, Inv, MutualExclusion, Critical
  <2>4. TypeOK'
    BY <1>4 DEF Lock, NoInput, counters, history, Inv, TypeOK, PC
  <2>5. EveryErrorCounted' /\ CountInv'
    BY <1>4, <2>2, SameCount DEF Lock, counters, history
  <2> QED BY <2>3, <2>4, <2>5 DEF Inv
<1>5. ASSUME NEW c \in CPU, Count(c) PROVE Inv'
  <2>1. /\ \A d \in CPU : pc'[d] = IF d = c THEN "show" ELSE pc[d]
        /\ UNCHANGED <<type, lock, found, dropped>>
    BY <1>5 DEF Count, history, Inv, TypeOK
  <2>2. MutualExclusion'
    BY <1>5, <2>1 DEF Count, Inv, MutualExclusion, Critical
  <2>3. CASE type[c] = "cecc"
    <3>1. InFlight' = InFlight /\ UNCHANGED <<error_count, test_errors>>
      BY <1>5, <2>1, <2>3 DEF Count, InFlight
    <3>2. error_count_cecc' \in 0 .. CeccLimit
      <4>1. PICK n \in EccCounts : error_count_cecc' = AddBelow(error_count_cecc, n)
        BY <1>5, <2>3 DEF Count
      <4> QED BY <1>0, <4>1, EccAssumption DEF AddBelow, Inv, TypeOK
    <3>3. TypeOK'
      BY <1>5, <3>1, <3>2 DEF Count, NoInput, history, Inv, TypeOK, PC
    <3> QED BY <2>1, <2>2, <3>1, <3>3, SameCount DEF Inv
  <2>4. CASE type[c] # "cecc"
    <3>1. type[c] = "data" /\ c \in InFlight /\ InFlight' = InFlight \ {c}
      BY <1>5, <2>1, <2>4 DEF Count, InFlight, Inv, TypeOK
    <3>2. Cardinality(InFlight)' = Cardinality(InFlight) - 1
      BY <3>1, InFlightFinite, FS_RemoveElement
    <3>3. /\ error_count' = Saturate(error_count, ErrorLimit)
          /\ test_errors' = Saturate(test_errors, ErrorLimit)
          /\ UNCHANGED error_count_cecc
      BY <1>5, <2>4 DEF Count
    <3>4. found' - dropped' - Cardinality(InFlight)'
            = (found - dropped - Cardinality(InFlight)) + 1
      BY <1>0, <2>1, <3>2
    <3>5. EveryErrorCounted' /\ CountInv'
      BY <1>0, <3>3, <3>4, SaturateLeast DEF Inv, EveryErrorCounted, CountInv
    <3>6. error_count' \in 0 .. ErrorLimit /\ test_errors' \in 0 .. ErrorLimit
      BY <1>0, <3>3 DEF Saturate, Inv, TypeOK
    <3>7. TypeOK'
      BY <1>5, <3>3, <3>6 DEF Count, NoInput, history, Inv, TypeOK, PC
    <3> QED BY <2>2, <3>5, <3>7 DEF Inv
  <2> QED BY <2>3, <2>4
<1>6. ASSUME NEW c \in CPU, Show(c) PROVE Inv'
  <2>1. \A d \in CPU : pc'[d] = IF d = c THEN "after" ELSE pc[d]
    BY <1>6 DEF Show, Inv, TypeOK
  <2>2. InFlight' = InFlight
    BY <1>6, <2>1 DEF Show, InFlight
  <2>3. MutualExclusion'
    BY <1>6, <2>1, MasterAssumption DEF Show, Inv, MutualExclusion, Critical
  <2>4. Input \/ NoInput
    BY <1>6 DEF Show
  <2>5. TypeOK'
    BY <1>6, <2>4, InputType DEF Show, counters, history, Inv, TypeOK, PC
  <2>6. EveryErrorCounted' /\ CountInv'
    BY <1>6, <2>2, SameCount DEF Show, counters, history
  <2> QED BY <2>3, <2>5, <2>6 DEF Inv
<1>7. ASSUME NEW c \in CPU, After(c) PROVE Inv'
  <2>1. PICK where \in {"halt", "update", "run"} : pc' = [pc EXCEPT ![c] = where]
    BY <1>7 DEF After, Return
  <2>2. UNCHANGED <<lock, type, error_count, found, dropped>> /\ pc[c] = "after"
    BY <1>7 DEF After, counters, history
  <2>3. InFlight' = InFlight /\ MutualExclusion' /\ pc' \in [CPU -> PC]
    BY <2>1, <2>2, MoveOutside DEF PC
  <2>4. testpass' \in 0 .. 2 /\ halted' \in BOOLEAN
    <3>1. testpass' = 2 \/ testpass' = testpass
      BY <1>7 DEF After
    <3>2. halted' = TRUE \/ halted' = halted
      BY <1>7 DEF After
    <3>3. testpass' \in 0 .. 2
      BY <3>1 DEF Inv, TypeOK
    <3>4. halted' \in BOOLEAN
      BY <3>2, Zenon DEF Inv, TypeOK
    <3> QED BY <3>3, <3>4
  <2>5. TypeOK'
    BY <1>7, <2>3, <2>4 DEF After, NoInput, counters, history, Inv, TypeOK
  <2> QED BY <2>2, <2>3, <2>5, SameCount DEF Inv
<1>8. ASSUME NEW c \in CPU, Arrive(c) PROVE Inv'
  <2>1. /\ pc' = [pc EXCEPT ![c] = "tick"] /\ pc[c] = "run"
        /\ UNCHANGED <<lock, type, error_count, found, dropped>>
    BY <1>8 DEF Arrive, counters, history
  <2>2. InFlight' = InFlight /\ MutualExclusion' /\ pc' \in [CPU -> PC]
    BY <2>1, MoveOutside DEF PC
  <2>3. TypeOK'
    BY <1>8, <2>2 DEF Arrive, NoInput, counters, history, Inv, TypeOK
  <2> QED BY <2>1, <2>2, <2>3, SameCount DEF Inv
<1>9. CASE EccUpdate
  <2>1. /\ pc[Master] = "update" /\ NoInput
        /\ UNCHANGED <<lock, type, error_count, error_count_cecc, test_errors, found, dropped>>
        /\ ErrorUpdate([pc EXCEPT ![Master] = "run"])
    BY <1>9 DEF EccUpdate, counters, history
  <2>2. continue_on_error' \in BOOLEAN /\ restart' \in BOOLEAN
    BY <2>1, InputType
  <2>3. /\ testpass' \in 0 .. 2 /\ halted' \in BOOLEAN
        /\ \E where \in {"run", "halt"} : pc' = [pc EXCEPT ![Master] = where]
    BY <2>1, <2>2, UpdateType
  <2>4. InFlight' = InFlight /\ MutualExclusion' /\ pc' \in [CPU -> PC]
    BY <2>1, <2>3, MoveOutside, MasterAssumption DEF PC
  <2>5. TypeOK'
    BY <2>1, <2>2, <2>3, <2>4 DEF Inv, TypeOK
  <2> QED BY <2>1, <2>4, <2>5, SameCount DEF Inv
<1>10. CASE Tick
  <2>1. /\ AllAt("tick") /\ Input
        /\ UNCHANGED <<lock, type, error_count, error_count_cecc, test_errors, found, dropped>>
    BY <1>10 DEF Tick, counters, history
  <2>2. PICK where \in {"run", "end"} : ErrorUpdate([c \in CPU |-> where])
    BY <1>10 DEF Tick
  <2>3. continue_on_error' \in BOOLEAN /\ restart' \in BOOLEAN
    BY <2>1, InputType
  <2>4. /\ testpass' \in 0 .. 2 /\ halted' \in BOOLEAN
        /\ pc' = [c \in CPU |-> where] \/ pc' = [pc EXCEPT ![Master] = "halt"]
    BY <2>2, <2>3, UpdateType
  <2>5. InFlight' = InFlight /\ MutualExclusion' /\ pc' \in [CPU -> PC]
    BY <2>1, <2>4, MoveAll
  <2>6. TypeOK'
    BY <2>1, <2>3, <2>4, <2>5 DEF Inv, TypeOK
  <2> QED BY <2>1, <2>5, <2>6, SameCount DEF Inv
<1>11. CASE StartRun
  <2>1. /\ AllAt("end")
        /\ UNCHANGED <<lock, type, error_count_cecc, test_errors>>
        /\ ErrorUpdate([c \in CPU |-> "run"])
    BY <1>11 DEF StartRun
  <2>2. continue_on_error' \in BOOLEAN /\ restart' \in BOOLEAN
    BY <1>11, MenuAssumption DEF StartRun, Inv, TypeOK
  <2>3. /\ testpass' \in 0 .. 2 /\ halted' \in BOOLEAN
        /\ pc' = [c \in CPU |-> "run"] \/ pc' = [pc EXCEPT ![Master] = "halt"]
    BY <2>1, <2>2, UpdateType
  <2>4. InFlight = {} /\ InFlight' = {} /\ MutualExclusion' /\ pc' \in [CPU -> PC]
    BY <2>1, <2>3, MoveAll
  <2>5. CASE halted'
    <3>1. UNCHANGED <<error_count, found, dropped>>
      BY <1>11, <2>5 DEF StartRun, history
    <3>2. EveryErrorCounted' /\ CountInv'
      BY <2>4, <3>1, SameCount
    <3>3. TypeOK'
      BY <2>1, <2>2, <2>3, <2>4, <3>1 DEF Inv, TypeOK
    <3> QED BY <2>4, <3>2, <3>3 DEF Inv
  <2>6. CASE ~halted'
    <3>1. error_count' = 0 /\ found' = 0 /\ dropped' = 0
      BY <1>11, <2>6 DEF StartRun
    <3>2. Cardinality(InFlight)' = 0
      BY <2>4, FS_EmptySet
    <3>3. EveryErrorCounted' /\ CountInv'
      BY <1>0, <3>1, <3>2 DEF EveryErrorCounted, CountInv, Least
    <3>4. error_count' \in 0 .. ErrorLimit /\ found' \in 0 .. MaxFound /\ dropped' \in Nat
      BY <1>0, <3>1, FoundAssumption
    <3>5. TypeOK'
      BY <2>1, <2>2, <2>3, <2>4, <3>4 DEF Inv, TypeOK
    <3> QED BY <2>4, <3>3, <3>5 DEF Inv
  <2> QED BY <2>5, <2>6
<1>12. CASE NextTest
  <2>1. /\ AllAt("end") /\ Input
        /\ UNCHANGED <<lock, type, error_count, error_count_cecc, test_errors, found, dropped>>
        /\ ErrorUpdate([c \in CPU |-> "run"])
    BY <1>12 DEF NextTest, counters, history
  <2>2. continue_on_error' \in BOOLEAN /\ restart' \in BOOLEAN
    BY <2>1, InputType
  <2>3. /\ testpass' \in 0 .. 2 /\ halted' \in BOOLEAN
        /\ pc' = [c \in CPU |-> "run"] \/ pc' = [pc EXCEPT ![Master] = "halt"]
    BY <2>1, <2>2, UpdateType
  <2>4. InFlight' = InFlight /\ MutualExclusion' /\ pc' \in [CPU -> PC]
    BY <2>1, <2>3, MoveAll
  <2>5. TypeOK'
    BY <2>1, <2>2, <2>3, <2>4 DEF Inv, TypeOK
  <2> QED BY <2>1, <2>4, <2>5, SameCount DEF Inv
<1>13. CASE Verdict
  <2>1. /\ AllAt("end") /\ Input
        /\ UNCHANGED <<lock, type, error_count, error_count_cecc, test_errors, found, dropped>>
        /\ pc' = [pc EXCEPT ![Master] = "halt"]
    BY <1>13 DEF Verdict, counters, history
  <2>2. continue_on_error' \in BOOLEAN /\ restart' \in BOOLEAN
    BY <2>1, InputType
  <2>3. InFlight' = InFlight /\ MutualExclusion' /\ pc' \in [CPU -> PC]
    BY <2>1, MoveAll
  <2>4. testpass' \in 0 .. 2 /\ halted' \in BOOLEAN
    BY <1>13 DEF Verdict
  <2>5. TypeOK'
    BY <2>1, <2>2, <2>3, <2>4 DEF Inv, TypeOK
  <2> QED BY <2>1, <2>3, <2>5, SameCount DEF Inv
<1>14. CASE HaltLoop
  <2>1. /\ Input
        /\ UNCHANGED <<lock, pc, type, error_count, error_count_cecc, test_errors,
                       testpass, halted, found, dropped>>
    BY <1>14 DEF HaltLoop, counters, history
  <2>2. continue_on_error' \in BOOLEAN /\ restart' \in BOOLEAN
    BY <2>1, InputType
  <2>3. InFlight' = InFlight /\ MutualExclusion'
    BY <2>1 DEF InFlight, Inv, MutualExclusion, Critical
  <2>4. TypeOK'
    BY <2>1, <2>2 DEF Inv, TypeOK
  <2> QED BY <2>1, <2>3, <2>4, SameCount DEF Inv
<1> QED BY <1>1, <1>2, <1>3, <1>4, <1>5, <1>6, <1>7, <1>8, <1>9, <1>10, <1>11,
           <1>12, <1>13, <1>14 DEF Next, Step

\* The inductive invariant holds in every behaviour.
THEOREM InvHolds == SafeSpec => []Inv
  BY InitInv, InvStep, PTL DEF SafeSpec

\* Type correctness; the saturating counters stay within their limits.
THEOREM TypeCorrect == SafeSpec => []TypeOK
<1>1. Inv => TypeOK
  BY DEF Inv
<1> QED BY <1>1, InvHolds, PTL

\* error_mutex protects the statistics and the display, and is free whenever
\* no core is in them.
THEOREM MutexCorrect == SafeSpec => []MutualExclusion
<1>1. Inv => MutualExclusion
  BY DEF Inv
<1> QED BY <1>1, InvHolds, PTL

\* common_err counts each bad word once, whatever the interleaving.
THEOREM CountCorrect == SafeSpec => []EveryErrorCounted
<1>1. Inv => EveryErrorCounted
  BY DEF Inv
<1> QED BY <1>1, InvHolds, PTL

-----------------------------------------------------------------------------
(***************************************************************************)
(* The verdict                                                             *)
(***************************************************************************)
\* error_update keeps the part of VerdictInv it is about, when the cores it
\* lets go on are not in the loops of the stopped program.
LEMMA UpdateVerdict ==
  ASSUME Inv, VerdictInv, NEW next \in [CPU -> PC], next[Master] # "halt", ~halted,
         ErrorUpdate(next), continue_on_error' \in BOOLEAN,
         continue_on_error => continue_on_error'
  PROVE  /\ halted' <=> pc'[Master] = "halt"
         /\ testpass' = 2 /\ ~continue_on_error' => halted'
         /\ testpass' # 1
         /\ dropped = 0
<1>1. Master \in CPU /\ pc \in [CPU -> PC] /\ dropped \in Nat /\ testpass # 1
  BY MasterAssumption DEF Inv, TypeOK, VerdictInv
<1>2. CASE error_count > 0 /\ testpass # 2
  <2>1. testpass' = 2 /\ (halted' <=> ~continue_on_error')
    BY <1>2 DEF ErrorUpdate
  <2>2. pc' = IF continue_on_error' THEN next ELSE [pc EXCEPT ![Master] = "halt"]
    BY <1>2 DEF ErrorUpdate
  <2> QED BY <1>1, <2>1, <2>2 DEF VerdictInv
<1>3. CASE ~(error_count > 0 /\ testpass # 2)
  <2>1. pc' = next /\ testpass' = testpass /\ halted' = halted
    BY <1>3 DEF ErrorUpdate
  <2> QED BY <1>1, <2>1 DEF VerdictInv
<1> QED BY <1>2, <1>3

\* A key never turns continue_on_error off.
LEMMA InputKeepsOn ==
  ASSUME Inv, FALSE \notin MenuValues,
         continue_on_error' \in {continue_on_error} \cup MenuValues
  PROVE  (continue_on_error => continue_on_error') /\ continue_on_error' \in BOOLEAN
  BY MenuAssumption DEF Inv, TypeOK

\* Every step preserves VerdictInv.
LEMMA VerdictStep ==
  ASSUME FALSE \notin MenuValues, Inv, VerdictInv, [Next]_vars
  PROVE  VerdictInv'
<1>0. Master \in CPU /\ pc \in [CPU -> PC] /\ dropped \in Nat /\ found \in Nat
  BY MasterAssumption, FoundAssumption DEF Inv, TypeOK
<1>1. CASE UNCHANGED vars
  BY <1>1 DEF vars, VerdictInv
<1>2. ASSUME NEW c \in CPU, NEW t \in {"data", "cecc"}, Find(c, t) PROVE VerdictInv'
  BY <1>0, <1>2 DEF Find, NoInput, VerdictInv
<1>3. ASSUME NEW c \in CPU, Check(c) PROVE VerdictInv'
  <2>1. Return(c) # "halt" /\ pc[c] = "check"
    BY <1>3 DEF Return, Check
  <2>2. testpass # 1
    BY <1>0, <2>1 DEF VerdictInv
  <2>3. /\ UNCHANGED <<testpass, halted, continue_on_error>>
        /\ pc' = [pc EXCEPT ![c] = Return(c)] \/ pc' = [pc EXCEPT ![c] = "lock"]
        /\ dropped' = dropped \/ (testpass = 2 /\ ~continue_on_error)
    BY <1>3 DEF Check, NoInput
  <2> QED BY <1>0, <2>1, <2>2, <2>3 DEF VerdictInv
<1>4. ASSUME NEW c \in CPU, Lock(c) PROVE VerdictInv'
  BY <1>0, <1>4 DEF Lock, NoInput, history, VerdictInv
<1>5. ASSUME NEW c \in CPU, Count(c) PROVE VerdictInv'
  BY <1>0, <1>5 DEF Count, NoInput, history, VerdictInv
<1>6. ASSUME NEW c \in CPU, Show(c) PROVE VerdictInv'
  <2>1. continue_on_error => continue_on_error'
    BY <1>6, InputKeepsOn DEF Show, Input, NoInput
  <2> QED BY <1>0, <1>6, <2>1 DEF Show, history, VerdictInv
<1>7. ASSUME NEW c \in CPU, After(c) PROVE VerdictInv'
  <2>1. testpass # 1 /\ pc[c] = "after" /\ Return(c) # "halt" /\ UNCHANGED <<continue_on_error, found, dropped>>
    BY <1>0, <1>7 DEF After, Return, NoInput, history, VerdictInv
  <2>2. CASE ~continue_on_error /\ error_count > 0 /\ c = Master
    BY <1>0, <1>7, <2>1, <2>2 DEF After, VerdictInv
  <2>3. CASE ~(~continue_on_error /\ error_count > 0 /\ c = Master)
    <3>1. pc' = [pc EXCEPT ![c] = Return(c)] /\ UNCHANGED <<testpass, halted>>
      BY <1>7, <2>3 DEF After
    <3> QED BY <1>0, <2>1, <3>1 DEF VerdictInv
  <2> QED BY <2>2, <2>3
<1>8. ASSUME NEW c \in CPU, Arrive(c) PROVE VerdictInv'
  BY <1>0, <1>8 DEF Arrive, NoInput, history, VerdictInv
<1>9. CASE EccUpdate
  <2>1. /\ ~halted /\ [pc EXCEPT ![Master] = "run"] \in [CPU -> PC]
        /\ UNCHANGED <<continue_on_error, found, dropped>>
        /\ ErrorUpdate([pc EXCEPT ![Master] = "run"])
    BY <1>0, <1>9 DEF EccUpdate, NoInput, history, VerdictInv, PC
  <2>2. continue_on_error' \in BOOLEAN
    BY <2>1 DEF Inv, TypeOK
  <2> QED BY <1>0, <2>1, <2>2, UpdateVerdict DEF VerdictInv
<1>10. CASE Tick
  <2>1. ~halted /\ UNCHANGED <<found, dropped>> /\ continue_on_error' \in {continue_on_error} \cup MenuValues
    BY <1>0, <1>10 DEF Tick, AllAt, Input, history, VerdictInv
  <2>2. PICK where \in {"run", "end"} : ErrorUpdate([c \in CPU |-> where])
    BY <1>10 DEF Tick
  <2>3. [c \in CPU |-> where] \in [CPU -> PC] /\ [c \in CPU |-> where][Master] # "halt"
    BY <1>0 DEF PC
  <2> QED BY <2>1, <2>2, <2>3, InputKeepsOn, UpdateVerdict DEF VerdictInv
<1>11. CASE StartRun
  <2>1. /\ ~halted /\ continue_on_error' \in {continue_on_error} \cup MenuValues
        /\ ErrorUpdate([c \in CPU |-> "run"])
        /\ dropped' = dropped \/ dropped' = 0
    BY <1>0, <1>11 DEF StartRun, AllAt, history, VerdictInv
  <2>2. [c \in CPU |-> "run"] \in [CPU -> PC] /\ [c \in CPU |-> "run"][Master] # "halt"
    BY <1>0 DEF PC
  <2> QED BY <2>1, <2>2, InputKeepsOn, UpdateVerdict DEF VerdictInv
<1>12. CASE NextTest
  <2>1. /\ ~halted /\ continue_on_error' \in {continue_on_error} \cup MenuValues
        /\ ErrorUpdate([c \in CPU |-> "run"])
        /\ UNCHANGED <<found, dropped>>
    BY <1>0, <1>12 DEF NextTest, Input, AllAt, history, VerdictInv
  <2>2. [c \in CPU |-> "run"] \in [CPU -> PC] /\ [c \in CPU |-> "run"][Master] # "halt"
    BY <1>0 DEF PC
  <2> QED BY <2>1, <2>2, InputKeepsOn, UpdateVerdict DEF VerdictInv
<1>13. CASE Verdict
  <2>1. /\ \A c \in CPU : pc[c] = "end"
        /\ pc' = [pc EXCEPT ![Master] = "halt"] /\ halted' = TRUE
        /\ testpass' = (IF error_count = 0 THEN 1 ELSE 2)
        /\ UNCHANGED <<found, dropped>>
    BY <1>13 DEF Verdict, AllAt, history
  <2>2. InFlight = {} /\ dropped = 0
    BY <1>0, <2>1 DEF InFlight, VerdictInv
  <2>3. Cardinality(InFlight) = 0
    BY <2>2, FS_EmptySet
  <2>4. error_count = 0 => found = 0
    BY <1>0, <2>2, <2>3, LimitAssumption DEF Inv, EveryErrorCounted, Least
  <2> QED BY <1>0, <2>1, <2>2, <2>4 DEF VerdictInv
<1>14. CASE HaltLoop
  <2>1. continue_on_error => continue_on_error'
    BY <1>14, InputKeepsOn DEF HaltLoop, Input
  <2> QED BY <1>0, <1>14, <2>1 DEF HaltLoop, history, VerdictInv
<1> QED BY <1>1, <1>2, <1>3, <1>4, <1>5, <1>6, <1>7, <1>8, <1>9, <1>10, <1>11,
           <1>12, <1>13, <1>14 DEF Next, Step

\* PASS is announced only for a run without a bad word, whatever the number of cores and
\* the order in which they report, unless the user turns continue_on_error off in the
\* menu: testpass is not reset for a new run, so that errors found after that would be
\* ignored.
THEOREM VerdictCorrect ==
  ASSUME FALSE \notin MenuValues
  PROVE  SafeSpec => []NoFalsePass
<1>1. Init => VerdictInv
  BY MasterAssumption DEF Init, VerdictInv
<1>2. Inv /\ VerdictInv /\ [Next]_vars => VerdictInv'
  BY VerdictStep
<1>3. VerdictInv => NoFalsePass
  BY DEF VerdictInv, NoFalsePass
<1> QED BY <1>1, <1>2, <1>3, InvHolds, PTL DEF SafeSpec

-----------------------------------------------------------------------------
(***************************************************************************)
(* The log and the reports                                                 *)
(***************************************************************************)
\* Whenever all cores wait in main, nothing is on its way to the counter and nothing
\* was ignored: the counter is zero just if no bad word was found.
LEMMA CountAtEnd ==
  ASSUME Inv, VerdictInv, AllAt("end")
  PROVE  ~halted /\ InFlight = {} /\ dropped = 0 /\ (error_count = 0 <=> found = 0)
<1>1. Master \in CPU /\ dropped \in Nat /\ found \in Nat
  BY MasterAssumption, FoundAssumption DEF Inv, TypeOK
<1>2. ~halted /\ InFlight = {} /\ dropped = 0
  BY <1>1 DEF AllAt, VerdictInv, InFlight
<1>3. Cardinality(InFlight) = 0
  BY <1>2, FS_EmptySet
<1> QED BY <1>1, <1>2, <1>3, LimitAssumption DEF Inv, EveryErrorCounted, Least

\* The reboot after the last pass does not touch the counters, and stops no test
\* that was not to be stopped.
LEMMA LastPassInv ==
  ASSUME FALSE \notin MenuValues, Inv, VerdictInv, LastPassLogged
  PROVE  Inv' /\ VerdictInv'
<1>1. /\ AllAt("end") /\ Input /\ ~Stops /\ restart' = FALSE
      /\ testpass' = IF error_count > 0 THEN 2 ELSE testpass
      /\ UNCHANGED <<lock, pc, type, error_count, error_count_cecc, test_errors, halted, found, dropped>>
  BY DEF LastPassLogged, counters, history
<1>2. continue_on_error' \in BOOLEAN /\ (continue_on_error => continue_on_error')
  BY <1>1, InputKeepsOn DEF Input
<1>3. testpass' \in 0 .. 2
  BY <1>1 DEF Inv, TypeOK
<1>4. InFlight' = InFlight /\ MutualExclusion'
  BY <1>1 DEF InFlight, Inv, MutualExclusion, Critical
<1>5. TypeOK'
  BY <1>1, <1>2, <1>3 DEF Inv, TypeOK
<1>6. EveryErrorCounted' /\ CountInv'
  BY <1>1, <1>4, SameCount
<1>7. VerdictInv'
  <2>1. ~halted /\ dropped = 0 /\ testpass # 1
    BY <1>1, CountAtEnd DEF VerdictInv
  <2>2. error_count > 0 /\ testpass # 2 => continue_on_error'
    BY <1>1 DEF Stops
  <2>3. testpass' = 2 => continue_on_error'
    BY <1>1, <1>2, <2>1, <2>2 DEF VerdictInv
  <2> QED BY <1>1, <2>1, <2>3 DEF VerdictInv
<1> QED BY <1>4, <1>5, <1>6, <1>7 DEF Inv

\* Every step of the joined specification is one of ErrorLog, or the reboot.
LEMMA LogNextIsNext ==
  ASSUME [LogNext]_allVars
  PROVE  [Next]_vars \/ LastPassLogged
  BY DEF LogNext, allVars, LogStep, CountLogged, SendLine, Unlogged, FindUnlogged,
         HaltLoopUnlogged, EccUpdateLogged, TickLogged, LoopLogged, StartRunLogged, SameTest, OtherTest,
         OtherPass, VerdictLogged, Next, Step

\* The errors are counted as before, and the verdict is as before.
LEMMA LogKeepsInv ==
  ASSUME FALSE \notin MenuValues, Inv, VerdictInv, [LogNext]_allVars
  PROVE  Inv' /\ VerdictInv'
  BY LogNextIsNext, LastPassInv, InvStep, VerdictStep

\* Only common_err's caller adds to the errors ignored or stops a test, and it does so
\* in a run that has counted one.
LEMMA StopsCounted ==
  ASSUME FALSE \notin MenuValues, Inv, VerdictInv, LogInv, [LogNext]_allVars
  PROVE  /\ halted' /\ testpass' = 2 => error_count' > 0
         /\ dropped' > 0 => error_count' > 0
<1>0. /\ error_count \in 0 .. ErrorLimit /\ dropped \in Nat /\ Master \in CPU /\ ErrorLimit \in Nat \ {0}
      /\ halted /\ testpass = 2 => error_count > 0
      /\ dropped > 0 => error_count > 0
  BY MasterAssumption, LimitAssumption DEF Inv, TypeOK, LogInv
<1>1. CASE LastPassLogged
  <2>1. ~halted' /\ dropped' = 0
    BY <1>1, CountAtEnd DEF LastPassLogged, history
  <2> QED BY <2>1
<1>2. CASE UNCHANGED vars
  BY <1>0, <1>2 DEF vars
<1>3. ASSUME NEW c \in CPU, NEW t \in {"data", "cecc"}, Find(c, t)
      PROVE  UNCHANGED <<error_count, dropped, halted, testpass>>
  BY <1>3 DEF Find, counters
<1>4. ASSUME NEW c \in CPU, Check(c)
      PROVE  /\ UNCHANGED <<error_count, halted, testpass>>
             /\ dropped' = dropped \/ (testpass = 2 /\ ~continue_on_error)
  BY <1>4 DEF Check, counters
<1>5. ASSUME NEW c \in CPU, Count(c)
      PROVE  error_count' >= error_count /\ UNCHANGED <<dropped, halted, testpass>>
  BY <1>0, <1>5 DEF Count, Saturate, history
<1>6. ASSUME NEW c \in CPU, After(c)
      PROVE  /\ UNCHANGED <<error_count, dropped>>
             /\ error_count > 0 \/ UNCHANGED <<halted, testpass>>
  BY <1>0, <1>6 DEF After, counters, history
<1>7. ASSUME NEW c \in CPU, Lock(c) \/ Show(c) \/ Arrive(c)
      PROVE  UNCHANGED <<error_count, dropped, halted, testpass>>
  BY <1>7 DEF Lock, Show, Arrive, counters, history
<1>8. ASSUME EccUpdate \/ Tick \/ NextTest
      PROVE  /\ UNCHANGED <<error_count, dropped>>
             /\ error_count > 0 \/ UNCHANGED <<halted, testpass>>
  BY <1>0, <1>8 DEF EccUpdate, Tick, NextTest, ErrorUpdate, counters, history
<1>9. CASE StartRun
  <2>1. AllAt("end") /\ ErrorUpdate([c \in CPU |-> "run"]) /\ ~halted
    BY <1>9, CountAtEnd DEF StartRun
  <2>2. halted' => error_count > 0 /\ error_count' = error_count /\ dropped' = dropped
    BY <1>0, <1>9, <2>1 DEF StartRun, ErrorUpdate, history
  <2>3. ~halted' => dropped' = 0
    BY <1>9 DEF StartRun
  <2> QED BY <1>0, <2>2, <2>3
<1>10. CASE Verdict
  BY <1>0, <1>10 DEF Verdict, counters, history
<1>11. CASE HaltLoop
  BY <1>0, <1>11 DEF HaltLoop, counters, history
<1>12. testpass = 2 /\ ~continue_on_error => error_count > 0
  BY <1>0 DEF VerdictInv
<1>13. ASSUME NEW c \in CPU, Step(c) PROVE error_count' \in Nat
  BY <1>13, LogKeepsInv, LimitAssumption DEF Inv, TypeOK
<1> QED
  <2>1. CASE \E c \in CPU : Step(c) \/ \E t \in {"data", "cecc"} : Find(c, t)
    BY <1>0, <1>3, <1>4, <1>5, <1>6, <1>7, <1>12, <1>13, <2>1 DEF Step
  <2>2. CASE EccUpdate \/ Tick \/ NextTest
    BY <1>0, <1>8, <2>2
  <2> QED BY <1>1, <1>2, <1>9, <1>10, <1>11, <2>1, <2>2, LogNextIsNext DEF Next

\* What a step that logs nothing, or at most a tick, keeps.
LEMMA QuietKeepsLog ==
  ASSUME LogInv, ErrorWriters' = ErrorWriters,
         UNCHANGED <<enable_tty_log, log_running, log_error_seen, in_test, error_lines, pass_num>>
  PROVE  /\ enable_tty_log' \in BOOLEAN /\ log_running' \in BOOLEAN
         /\ log_error_seen' \in BOOLEAN /\ in_test' \in BOOLEAN
         /\ error_lines' \in Nat /\ pass_num' \in Nat
         /\ log_running' => (log_error_seen' <=> in_test')
         /\ ErrorLogged'
  BY DEF LogInv, ErrorLogged

\* The lines a step may send if no other core has interfered with them.
NextTick == TickLine(Ticked(log_test_ticks, TicksPerTest), Ticked(log_pass_ticks, TicksPerPass))
QuietLines == {NextTick, TickLine(log_test_ticks, log_pass_ticks), Line("info"),
               Line("pass_start"), Line("test_start"), Line("test_end"), Line("error")}
EndLines == {[Line("pass_end") EXCEPT !.status = Status], [Line("done") EXCEPT !.status = Status]}

\* Their events.
LEMMA LineEvents ==
  /\ \A q \in QuietLines : q.ev \in {"tick", "info", "pass_start", "test_start", "test_end", "error"}
  /\ \A q \in EndLines : q.ev \in {"pass_end", "done"}
<1>1. \A e : Line(e).ev = e
  BY DEF Line
<1>2. NextTick.ev = "tick" /\ TickLine(log_test_ticks, log_pass_ticks).ev = "tick"
  <2>1. \A m, n : TickLine(m, n).ev = "tick"
    BY DEF TickLine, Line
  <2> QED BY <2>1 DEF NextTick
<1>3. /\ [Line("pass_end") EXCEPT !.status = Status].ev = "pass_end"
      /\ [Line("done") EXCEPT !.status = Status].ev = "done"
  BY DEF Line
<1>4. \A q \in QuietLines : q.ev \in {"tick", "info", "pass_start", "test_start", "test_end", "error"}
  BY <1>1, <1>2, Zenon DEF QuietLines
<1>5. \A q \in EndLines : q.ev \in {"pass_end", "done"}
  BY <1>3, Zenon DEF EndLines
<1> QED BY <1>4, <1>5

\* Of these only two make a claim about the run, and it is that of the counter.
LEMMA LoopLinesClaim ==
  ASSUME NEW ls \in Seq(QuietLines \cup EndLines), NEW i \in DOMAIN ls,
         ls[i].ev \in {"pass_end", "done"}
  PROVE  ls[i].status = Status
<1>1. ls[i] \in QuietLines \cup EndLines
  OBVIOUS
<1>2. \A q \in QuietLines : q.ev \in {"tick", "info", "pass_start", "test_start", "test_end", "error"}
  BY LineEvents
<1>3. \A q \in EndLines : q.status = Status
  <2>1. /\ [Line("pass_end") EXCEPT !.status = Status].status = Status
        /\ [Line("done") EXCEPT !.status = Status].status = Status
    BY DEF Line
  <2> QED BY <2>1, Zenon DEF EndLines
<1> QED BY <1>1, <1>2, <1>3

\* Lines that are sent in one step are put together from such lines.
LEMMA LinesTyped ==
  /\ << >> \in Seq(QuietLines \cup EndLines)
  /\ \A tick \in TickLines : tick \in Seq(QuietLines \cup EndLines)
  /\ PassEndLines \in Seq(QuietLines \cup EndLines)
  /\ Slog(<<Line("test_end"), Line("test_start")>>) \in Seq(QuietLines \cup EndLines)
  /\ Slog(<<Line("pass_start"), Line("test_start")>>) \in Seq(QuietLines \cup EndLines)
  /\ <<Line("error")>> \in Seq(QuietLines \cup EndLines)
  /\ <<TickLine(log_test_ticks, log_pass_ticks)>> \in Seq(QuietLines \cup EndLines)
  /\ <<Line("info"), Line("pass_start"), Line("test_start")>> \in Seq(QuietLines \cup EndLines)
<1> DEFINE L == QuietLines \cup EndLines
<1>1. /\ NextTick \in L /\ TickLine(log_test_ticks, log_pass_ticks) \in L /\ Line("info") \in L /\ Line("pass_start") \in L /\ Line("test_start") \in L
      /\ Line("test_end") \in L /\ [Line("pass_end") EXCEPT !.status = Status] \in L
      /\ [Line("done") EXCEPT !.status = Status] \in L /\ Line("error") \in L
  BY DEF QuietLines, EndLines
<1> HIDE DEF L
<1>2. \A tick \in TickLines : tick \in {<< >>, <<NextTick>>}
  BY DEF TickLines, Slog, NextTick
<1>3. PassEndLines \in Seq(L)
  <2>1. /\ <<Line("test_end"), [Line("pass_end") EXCEPT !.status = Status]>> \in Seq(L)
        /\ <<[Line("done") EXCEPT !.status = Status]>> \in Seq(L) /\ << >> \in Seq(L)
    BY <1>1
  <2> QED BY <2>1 DEF PassEndLines, Slog
<1>4. /\ << >> \in Seq(L) /\ <<Line("test_end"), Line("test_start")>> \in Seq(L)
      /\ <<Line("pass_start"), Line("test_start")>> \in Seq(L) /\ <<NextTick>> \in Seq(L)
      /\ <<Line("info"), Line("pass_start"), Line("test_start")>> \in Seq(L)
      /\ <<Line("error")>> \in Seq(L) /\ <<TickLine(log_test_ticks, log_pass_ticks)>> \in Seq(L)
  BY <1>1
<1> QED BY <1>2, <1>3, <1>4 DEF Slog, L

\* What any step sends.
LEMMA LinesOfStep ==
  ASSUME LogNext, spoiled = {}
  PROVE  lines' \in Seq(QuietLines \cup EndLines)
<1> DEFINE L == QuietLines \cup EndLines
<1>0. \A s, t \in Seq(L) : s \o t \in Seq(L)
  OBVIOUS
<1>1. NoLog => lines' \in Seq(L)
  BY LinesTyped DEF NoLog
<1>2. LogUpdate \/ LogEccUpdate => lines' \in Seq(L)
  BY <1>1, LinesTyped DEF LogUpdate, LogEccUpdate
<1>3. ASSUME NEW c \in CPU, CountLogged(c) \/ SendLine(c) PROVE lines' \in Seq(L)
  BY <1>3, LinesTyped DEF CountLogged, LogError, SendLine
<1>4. StartRunLogged => lines' \in Seq(L)
  BY <1>1, LinesTyped DEF StartRunLogged
<1>5. OtherTest => lines' \in Seq(L)
  BY <1>0, <1>1, LinesTyped DEF OtherTest
<1>6. OtherPass => lines' \in Seq(L)
  <2> SUFFICES ASSUME OtherPass PROVE lines' \in Seq(L)
    OBVIOUS
  <2>1. PICK tick \in TickLines :
          lines' = tick \o PassEndLines \o Slog(<<Line("pass_start"), Line("test_start")>>)
    BY DEF OtherPass
  <2> HIDE DEF L
  <2> QED BY <1>0, <2>1, LinesTyped DEF L
<1>7. LastPassLogged \/ VerdictLogged => lines' \in Seq(L)
  BY <1>0, <1>1, LinesTyped DEF LastPassLogged, VerdictLogged
<1> QED BY <1>1, <1>2, <1>3, <1>4, <1>5, <1>6, <1>7
        DEF LogNext, LogStep, Unlogged, FindUnlogged, HaltLoopUnlogged, EccUpdateLogged,
            TickLogged, LoopLogged, SameTest

\* So no line is garbled, as long as no other core has interfered.
LEMMA NoneGarbled ==
  ASSUME LogNext, spoiled = {}
  PROVE  \A i \in DOMAIN lines' : lines'[i].ev # "garbled"
<1>1. \A i \in DOMAIN lines' : lines'[i] \in QuietLines \cup EndLines
  BY LinesOfStep
<1>2. \A q \in QuietLines \cup EndLines : q.ev # "garbled"
  BY LineEvents
<1> QED BY <1>1, <1>2

\* Lines are sent with a verdict only while all cores wait in main.
LEMMA StatusStep ==
  ASSUME FALSE \notin MenuValues, Inv, VerdictInv, LogInv, [LogNext]_allVars
  PROVE  StatusRight'
<1>1. CASE UNCHANGED allVars
  BY <1>1 DEF allVars, vars, logVars, LogInv, StatusRight
<1>2. CASE LogNext
  <2>0. lines' \in Seq(QuietLines \cup EndLines)
    BY <1>2, LinesOfStep DEF LogInv, WriterInv
  <2>1. CASE AllAt("end") /\ found' = found
    <3>1. Status = "pass" <=> found' = 0
      BY <2>1, CountAtEnd DEF Status
    <3>2. ASSUME NEW i \in DOMAIN lines', lines'[i].ev \in {"pass_end", "done"}
          PROVE  lines'[i].status = "pass" <=> found' = 0
      BY <2>0, <3>1, <3>2, LoopLinesClaim
    <3> QED BY <3>2 DEF StatusRight
  <2>2. CASE ~(AllAt("end") /\ found' = found)
    <3>1. ASSUME lines' \in Seq(QuietLines) PROVE StatusRight'
      <4>1. \A q \in QuietLines : q.ev \notin {"pass_end", "done"}
        BY LineEvents
      <4>2. \A i \in DOMAIN lines' : lines'[i] \in QuietLines
        BY <3>1
      <4> QED BY <4>1, <4>2 DEF StatusRight
    <3> DEFINE Q == QuietLines
    <3>2. /\ << >> \in Seq(Q) /\ <<Line("error")>> \in Seq(Q)
          /\ <<TickLine(log_test_ticks, log_pass_ticks)>> \in Seq(Q)
          /\ \A tick \in TickLines : tick \in Seq(Q)
          /\ <<Line("info"), Line("pass_start"), Line("test_start")>> \in Seq(Q)
      <4>1. /\ NextTick \in Q /\ TickLine(log_test_ticks, log_pass_ticks) \in Q
            /\ Line("error") \in Q /\ Line("info") \in Q /\ Line("pass_start") \in Q /\ Line("test_start") \in Q
        BY DEF QuietLines
      <4> HIDE DEF Q
      <4>2. \A tick \in TickLines : tick \in {<< >>, <<NextTick>>}
        BY DEF TickLines, Slog, NextTick
      <4>3. /\ << >> \in Seq(Q) /\ <<NextTick>> \in Seq(Q)
            /\ <<TickLine(log_test_ticks, log_pass_ticks)>> \in Seq(Q) /\ <<Line("error")>> \in Seq(Q)
            /\ <<Line("info"), Line("pass_start"), Line("test_start")>> \in Seq(Q)
        BY <4>1
      <4> QED BY <4>2, <4>3 DEF Slog
    <3> HIDE DEF Q
    <3>3. ~OtherTest /\ ~OtherPass /\ ~LastPassLogged /\ ~VerdictLogged
      BY <2>2 DEF OtherTest, OtherPass, LastPassLogged, VerdictLogged, NextTest, Verdict, history
    <3>4. NoLog => lines' \in Seq(Q)
      BY <3>2 DEF NoLog
    <3>5. LogUpdate \/ LogEccUpdate => lines' \in Seq(Q)
      BY <3>2, <3>4 DEF LogUpdate, LogEccUpdate
    <3>6. ASSUME NEW c \in CPU, CountLogged(c) \/ SendLine(c) PROVE lines' \in Seq(Q)
      BY <3>2, <3>6 DEF CountLogged, LogError, SendLine, LogInv, WriterInv
    <3>7. StartRunLogged => lines' \in Seq(Q)
      BY <3>2, <3>4 DEF StartRunLogged
    <3> QED BY <1>2, <3>1, <3>3, <3>4, <3>5, <3>6, <3>7
            DEF Q, LogNext, LogStep, Unlogged, FindUnlogged, HaltLoopUnlogged, EccUpdateLogged,
                TickLogged, LoopLogged, SameTest
  <2> QED BY <2>1, <2>2
<1> QED BY <1>1, <1>2

\* While all cores wait none makes a line.
LEMMA NoneWrites ==
  ASSUME LogInv, AllAt("tick") \/ AllAt("end")
  PROVE  writers = {} /\ spoiled = {} /\ ErrorWriters = {}
<1>1. \A c \in writers : c \in CPU /\ pc[c] \in {"show", "run"}
  BY DEF LogInv, WriterInv
<1> QED BY <1>1 DEF LogInv, WriterInv, AllAt, ErrorWriters

\* Where error_update leaves the cores after it was called while all wait.
LEMMA WhereUpdateLeaves ==
  ASSUME Inv, AllAt("tick") \/ AllAt("end"), ~halted, NEW where \in {"run", "end"},
         ErrorUpdate([c \in CPU |-> where])
  PROVE  /\ pc'[Master] \in {"run", "end", "halt"}
         /\ halted' => \A c \in CPU \ {Master} : pc'[c] \in {"tick", "end"}
<1>1. pc \in [CPU -> PC] /\ Master \in CPU
  BY MasterAssumption DEF Inv, TypeOK
<1>2. CASE error_count > 0 /\ testpass # 2
  <2>1. /\ halted' = ~continue_on_error'
        /\ pc' = IF continue_on_error' THEN [c \in CPU |-> where] ELSE [pc EXCEPT ![Master] = "halt"]
    BY <1>2 DEF ErrorUpdate
  <2> QED BY <1>1, <2>1 DEF AllAt
<1>3. CASE ~(error_count > 0 /\ testpass # 2)
  BY <1>1, <1>3 DEF ErrorUpdate
<1> QED BY <1>2, <1>3

\* In the steps that are made while all wait, and in the loops of the stopped program,
\* nobody begins to make a line.
LEMMA WriterMain ==
  ASSUME FALSE \notin MenuValues, Inv, VerdictInv, LogInv, TickLogged \/ LoopLogged
  PROVE  /\ writers = {} /\ writers' = {} /\ WriterInv'
<1>0. Master \in CPU /\ pc \in [CPU -> PC]
  BY MasterAssumption DEF Inv, TypeOK
<1>1. AllAt("tick") \/ AllAt("end")
  BY DEF TickLogged, LoopLogged, Tick, StartRunLogged, SameTest, OtherTest, OtherPass, NextTest,
         LastPassLogged, VerdictLogged, Verdict, StartRun
<1>2. writers = {} /\ spoiled = {} /\ pc[Master] \in {"tick", "end"} /\ ~halted
  BY <1>0, <1>1, NoneWrites DEF AllAt, VerdictInv
<1>3. UNCHANGED <<writers, spoiled>>
  BY DEF TickLogged, LoopLogged, StartRunLogged, SameTest, OtherTest, OtherPass,
         LastPassLogged, VerdictLogged, LogUpdate, NoLog, wire
<1>4. /\ pc'[Master] \in {"run", "end", "halt"}
      /\ halted' => \A c \in CPU \ {Master} : pc'[c] \in {"tick", "end"}
  <2>1. CASE Tick \/ StartRun \/ NextTest
    <3>1. PICK where \in {"run", "end"} : ErrorUpdate([c \in CPU |-> where])
      BY <2>1 DEF Tick, StartRun, NextTest
    <3> QED BY <1>1, <1>2, <3>1, WhereUpdateLeaves
  <2>2. CASE LastPassLogged
    <3>1. UNCHANGED <<pc, halted>>
      BY <2>2 DEF LastPassLogged
    <3>2. AllAt("end")
      BY <2>2 DEF LastPassLogged
    <3> QED BY <1>0, <1>2, <3>1, <3>2 DEF AllAt
  <2>3. CASE Verdict
    BY <1>0, <2>3 DEF Verdict, AllAt
  <2> QED BY <2>1, <2>2, <2>3 DEF TickLogged, LoopLogged, StartRunLogged, SameTest, OtherTest,
             OtherPass, VerdictLogged
<1> QED BY <1>2, <1>3, <1>4 DEF WriterInv

\* A core that begins the line of an error is alone, and the master cannot have stopped.
LEMMA WriterCount ==
  ASSUME Inv, VerdictInv, LogInv, NEW c \in CPU, CountLogged(c)
  PROVE  /\ WriterInv' /\ (writers' # {} => ~halted') /\ \A d, e \in writers' : d = e
         /\ log_running /\ ~log_error_seen => ErrorWriters' = {c}
         /\ ~(log_running /\ ~log_error_seen) => ErrorWriters' = ErrorWriters
<1>0. Master \in CPU /\ pc \in [CPU -> PC] /\ log_running \in BOOLEAN /\ log_error_seen \in BOOLEAN
  BY MasterAssumption DEF Inv, TypeOK, LogInv
<1>1. /\ pc[c] = "count" /\ pc' = [pc EXCEPT ![c] = "show"] /\ UNCHANGED <<lock, halted, log_running>>
      /\ log_error_seen' = (log_error_seen \/ log_running)
      /\ lock = c
  BY DEF CountLogged, Count, LogError, logState, Inv, MutualExclusion, Critical
<1>2. CASE log_running /\ ~log_error_seen
  <2>1. writers = {} /\ spoiled = {} /\ pc[Master] \notin {"show", "after", "update"}
        /\ (halted => \A d \in CPU \ {Master} : pc[d] \in {"tick", "end"})
    BY <1>2 DEF LogInv, WriterInv
  <2>2. writers' = {c} /\ spoiled' = {}
    BY <1>2, <2>1 DEF CountLogged, LogError, SlogBegin
  <2>3. ~halted
    BY <1>1, <2>1 DEF VerdictInv
  <2>4. pc'[c] = "show" /\ lock' = c /\ (c # Master => pc'[Master] = pc[Master])
    BY <1>0, <1>1
  <2>5. WriterInv'
    BY <1>0, <1>1, <1>2, <2>1, <2>2, <2>3, <2>4 DEF WriterInv
  <2> QED BY <1>1, <1>2, <2>2, <2>3, <2>4, <2>5 DEF ErrorWriters
<1>3. CASE ~(log_running /\ ~log_error_seen)
  <2>1. UNCHANGED <<writers, spoiled>>
    BY <1>3 DEF CountLogged, LogError, wire
  <2>2. \A d \in writers : d # c /\ d = Master /\ pc[d] = "run" /\ pc'[d] = pc[d]
    BY <1>0, <1>1 DEF LogInv, WriterInv
  <2>3. ErrorWriters' = ErrorWriters
    BY <2>1, <2>2 DEF ErrorWriters
  <2>4. log_error_seen' <=> log_error_seen
    BY <1>0, <1>1, <1>3
  <2>5. WriterInv'
    BY <1>0, <1>1, <1>3, <2>1, <2>2, <2>4 DEF LogInv, WriterInv
  <2> QED BY <1>1, <1>3, <2>1, <2>3, <2>5 DEF LogInv, LinesWhole
<1> QED BY <1>2, <1>3

\* A step of a core that makes no line touches neither another core's line nor, by what it
\* may log later, one that is being made.
LEMMA WriterQuiet ==
  ASSUME Inv, VerdictInv, LogInv, NEW c \in CPU, Unlogged(c) \/ FindUnlogged(c)
  PROVE  /\ WriterInv' /\ (writers' # {} => ~halted') /\ \A d, e \in writers' : d = e
         /\ ErrorWriters' = ErrorWriters
<1>0. /\ Master \in CPU /\ NoCpu \notin CPU /\ pc \in [CPU -> PC]
      /\ c \notin writers /\ writers \subseteq CPU /\ spoiled = {}
      /\ UNCHANGED <<writers, spoiled, log_running, log_error_seen>>
  BY MasterAssumption DEF Inv, TypeOK, LogInv, WriterInv, Unlogged, FindUnlogged, NoLog, wire, logState, testLog
<1>1. ASSUME NEW where \in PC, pc' = [pc EXCEPT ![c] = where], pc[c] \notin {"tick", "end", "halt"},
             lock' = lock \/ lock = NoCpu \/ lock = c,
             c = Master /\ where \in {"show", "after", "update"} => pc[c] \in {"show", "after", "update"},
             halted' => halted \/ (c = Master /\ pc[c] = "after")
      PROVE  /\ WriterInv' /\ (writers' # {} => ~halted') /\ \A d, e \in writers' : d = e
             /\ ErrorWriters' = ErrorWriters
  <2>1. \A d \in writers : d # c /\ pc'[d] = pc[d] /\ (pc[d] = "show" => lock = d /\ lock' = d)
    BY <1>0, <1>1 DEF LogInv, WriterInv, Inv, MutualExclusion, Critical
  <2>2. \A d \in writers \ {Master} : pc'[Master] \notin {"show", "after", "update"}
    BY <1>0, <1>1 DEF LogInv, WriterInv
  <2>3. writers # {} => ~halted'
    <3>1. pc[Master] = "after" => writers = {}
      BY <1>0 DEF LogInv, WriterInv
    <3> QED BY <1>1, <3>1 DEF LogInv, LinesWhole
  <2>4. log_running /\ ~log_error_seen =>
          /\ pc'[Master] \notin {"show", "after", "update"}
          /\ halted' => \A d \in CPU \ {Master} : pc'[d] \in {"tick", "end"}
    <3> SUFFICES ASSUME log_running, ~log_error_seen
                 PROVE  /\ pc'[Master] \notin {"show", "after", "update"}
                        /\ halted' => \A d \in CPU \ {Master} : pc'[d] \in {"tick", "end"}
      OBVIOUS
    <3>1. /\ pc[Master] \notin {"show", "after", "update"}
          /\ halted => \A d \in CPU \ {Master} : pc[d] \in {"tick", "end"}
      BY DEF LogInv, WriterInv
    <3>2. pc'[Master] \notin {"show", "after", "update"}
      BY <1>0, <1>1, <3>1
    <3>3. ~halted'
      BY <1>0, <1>1, <3>1 DEF VerdictInv
    <3> QED BY <3>2, <3>3
  <2>5. ErrorWriters' = ErrorWriters
    BY <1>0, <2>1 DEF ErrorWriters
  <2>6. WriterInv'
    BY <1>0, <2>1, <2>2, <2>4 DEF LogInv, WriterInv
  <2> QED BY <1>0, <2>3, <2>5, <2>6 DEF LogInv, LinesWhole
<1>2. Return(c) \in {"run", "update"} /\ (Return(c) = "update" => Return(c) \in PC)
  BY DEF Return, PC
<1>3. CASE Check(c)
  <2>1. /\ pc[c] = "check" /\ UNCHANGED <<lock, halted>>
        /\ \/ pc' = [pc EXCEPT ![c] = "lock"]
           \/ testpass = 2 /\ ~continue_on_error /\ pc' = [pc EXCEPT ![c] = Return(c)]
    BY <1>3 DEF Check
  <2>2. testpass = 2 /\ ~continue_on_error => c # Master
    BY <2>1 DEF VerdictInv
  <2> QED BY <1>1, <1>2, <2>1, <2>2 DEF PC
<1>4. CASE Lock(c)
  BY <1>1, <1>4 DEF Lock, PC
<1>5. CASE Show(c)
  <2>1. /\ pc[c] = "show" /\ pc' = [pc EXCEPT ![c] = "after"] /\ UNCHANGED halted /\ lock = c
    BY <1>5 DEF Show, Inv, MutualExclusion, Critical
  <2> QED BY <1>1, <2>1 DEF PC
<1>6. CASE After(c)
  <2>1. /\ pc[c] = "after" /\ lock' = lock
        /\ \/ c = Master /\ pc' = [pc EXCEPT ![c] = "halt"]
           \/ halted' = halted /\ pc' = [pc EXCEPT ![c] = Return(c)]
    BY <1>6 DEF After
  <2> QED BY <1>1, <1>2, <2>1 DEF PC
<1>7. CASE Arrive(c)
  BY <1>1, <1>7 DEF Arrive, PC
<1>8. CASE \E t \in {"data", "cecc"} : Find(c, t)
  BY <1>1, <1>8 DEF Find, PC
<1> QED BY <1>3, <1>4, <1>5, <1>6, <1>7, <1>8 DEF Unlogged, FindUnlogged

\* When the master logs a tick without the mutex, an error was logged in the test and its
\* line is sent: no other core makes one.
LEMMA WriterEcc ==
  ASSUME Inv, VerdictInv, LogInv, EccUpdateLogged
  PROVE  /\ WriterInv' /\ (writers' # {} => ~halted') /\ \A d, e \in writers' : d = e
         /\ ErrorWriters = {} /\ ErrorWriters' = {}
<1>0. Master \in CPU /\ pc \in [CPU -> PC] /\ pc[Master] = "update" /\ ~halted
  BY MasterAssumption DEF Inv, TypeOK, EccUpdateLogged, EccUpdate, VerdictInv
<1>1. writers = {} /\ spoiled = {}
  BY <1>0 DEF LogInv, WriterInv
<1>2. log_running => log_error_seen
  BY <1>0 DEF LogInv, WriterInv
<1>3. UNCHANGED <<log_running, log_error_seen>>
  BY DEF EccUpdateLogged, LogEccUpdate, NoLog, logState, testLog
<1>4. ErrorUpdate([pc EXCEPT ![Master] = "run"])
  BY DEF EccUpdateLogged, EccUpdate
<1>5. pc'[Master] \in {"run", "halt"} /\ (~halted' => pc'[Master] = "run")
  <2>1. CASE error_count > 0 /\ testpass # 2
    <3>1. /\ halted' = ~continue_on_error'
          /\ pc' = IF continue_on_error' THEN [pc EXCEPT ![Master] = "run"]
                   ELSE [pc EXCEPT ![Master] = "halt"]
      BY <1>4, <2>1 DEF ErrorUpdate
    <3> QED BY <1>0, <3>1
  <2>2. CASE ~(error_count > 0 /\ testpass # 2)
    BY <1>0, <1>4, <2>2 DEF ErrorUpdate
  <2> QED BY <2>1, <2>2
<1>6. CASE UNCHANGED <<writers, spoiled>>
  BY <1>0, <1>1, <1>2, <1>3, <1>6 DEF WriterInv, ErrorWriters
<1>7. CASE ~halted' /\ log_running /\ SlogBegin(Master)
  <2>1. writers' = {Master} /\ spoiled' = {} /\ pc'[Master] = "run"
    BY <1>1, <1>5, <1>7 DEF SlogBegin
  <2> QED BY <1>0, <1>1, <1>2, <1>3, <1>7, <2>1 DEF WriterInv, ErrorWriters
<1> QED BY <1>6, <1>7 DEF EccUpdateLogged, LogEccUpdate, NoLog, wire

\* Who makes a line is alone, whatever the step.
LEMMA WriterStep ==
  ASSUME FALSE \notin MenuValues, Inv, VerdictInv, LogInv, [LogNext]_allVars
  PROVE  /\ WriterInv' /\ (writers' # {} => ~halted') /\ \A c, d \in writers' : c = d
         /\ \/ \E c \in CPU : CountLogged(c) \/ SendLine(c)
            \/ ErrorWriters' = ErrorWriters
<1>1. CASE UNCHANGED allVars
  BY <1>1 DEF allVars, vars, logVars, LogInv, LinesWhole, WriterInv, ErrorWriters
<1>2. ASSUME NEW c \in CPU, CountLogged(c)
      PROVE  WriterInv' /\ (writers' # {} => ~halted') /\ \A d, e \in writers' : d = e
  BY <1>2, WriterCount
<1>3. ASSUME NEW c \in CPU, SendLine(c)
      PROVE  WriterInv' /\ writers' = {}
  <2>1. /\ writers' = {} /\ spoiled' = {}
        /\ UNCHANGED <<pc, lock, halted, log_running, log_error_seen>>
    BY <1>3 DEF SendLine, vars, logState, LogInv, LinesWhole, WriterInv
  <2> QED BY <2>1 DEF LogInv, WriterInv
<1>4. ASSUME NEW c \in CPU, Unlogged(c) \/ FindUnlogged(c)
      PROVE  /\ WriterInv' /\ (writers' # {} => ~halted') /\ \A d, e \in writers' : d = e
             /\ ErrorWriters' = ErrorWriters
  BY <1>4, WriterQuiet
<1>5. CASE EccUpdateLogged
  BY <1>5, WriterEcc
<1>6. CASE TickLogged \/ LoopLogged
  BY <1>6, WriterMain DEF ErrorWriters
<1>7. CASE HaltLoopUnlogged
  BY <1>7 DEF HaltLoopUnlogged, HaltLoop, NoLog, wire, logState, testLog, LogInv, LinesWhole,
              WriterInv, ErrorWriters
<1> QED BY <1>1, <1>2, <1>3, <1>4, <1>5, <1>6, <1>7 DEF LogNext, LogStep

\* Lines come whole.
LEMMA WholeStep ==
  ASSUME FALSE \notin MenuValues, Inv, VerdictInv, LogInv, [LogNext]_allVars
  PROVE  LinesWhole'
<1>1. \A i \in DOMAIN lines' : lines'[i].ev # "garbled"
  <2>1. CASE UNCHANGED allVars
    BY <2>1 DEF allVars, logVars, LogInv, LinesWhole
  <2>2. CASE LogNext
    BY <2>2, NoneGarbled DEF LogInv, WriterInv
  <2> QED BY <2>1, <2>2
<1> QED BY <1>1, WriterStep DEF LinesWhole

\* Whatever core finds them, the first error of a test gets a line and the others none.
LEMMA ErrorLoggedStep ==
  ASSUME FALSE \notin MenuValues, Inv, VerdictInv, LogInv, [LogNext]_allVars
  PROVE  /\ enable_tty_log' \in BOOLEAN /\ log_running' \in BOOLEAN
         /\ log_error_seen' \in BOOLEAN /\ in_test' \in BOOLEAN
         /\ error_lines' \in Nat /\ pass_num' \in Nat
         /\ log_running' => (log_error_seen' <=> in_test')
         /\ ErrorLogged'
<1> DEFINE Goal == /\ enable_tty_log' \in BOOLEAN /\ log_running' \in BOOLEAN
                   /\ log_error_seen' \in BOOLEAN /\ in_test' \in BOOLEAN
                   /\ error_lines' \in Nat /\ pass_num' \in Nat
                   /\ log_running' => (log_error_seen' <=> in_test')
                   /\ ErrorLogged'
           Same == UNCHANGED <<enable_tty_log, log_running, log_error_seen, in_test, error_lines, pass_num>>
<1>1. /\ log_running \in BOOLEAN /\ log_error_seen \in BOOLEAN /\ in_test \in BOOLEAN
      /\ error_lines \in Nat /\ enable_tty_log \in BOOLEAN /\ pass_num \in Nat
  BY DEF LogInv
<1>2. ASSUME NEW c \in CPU, CountLogged(c) PROVE Goal
  <2>1. /\ log_error_seen' = (log_error_seen \/ log_running) /\ in_test' = TRUE
        /\ UNCHANGED <<enable_tty_log, log_running, error_lines, pass_num>>
    BY <1>2 DEF CountLogged, LogError, logState
  <2>2. CASE log_running /\ ~log_error_seen
    <3>1. ErrorWriters' = {c} /\ error_lines = 0
      BY <1>2, <2>2, WriterCount DEF LogInv, ErrorLogged
    <3> QED BY <1>1, <2>1, <2>2, <3>1 DEF ErrorLogged
  <2>3. CASE ~(log_running /\ ~log_error_seen)
    <3>1. ErrorWriters' = ErrorWriters
      BY <1>2, <2>3, WriterCount
    <3> QED BY <1>1, <2>1, <2>3, <3>1 DEF LogInv, ErrorLogged
  <2> QED BY <2>2, <2>3
<1>3. ASSUME NEW c \in CPU, SendLine(c) PROVE Goal
  <2>1. /\ UNCHANGED <<enable_tty_log, log_running, log_error_seen, in_test, pass_num, pc>>
        /\ writers = {c} /\ writers' = {} /\ spoiled = {} /\ log_running /\ log_error_seen
        /\ error_lines' = IF pc[c] = "show" /\ c \notin spoiled THEN error_lines + 1 ELSE error_lines
    BY <1>3 DEF SendLine, vars, logState, LogInv, LinesWhole, WriterInv
  <2>2. ErrorWriters' = {} /\ ErrorWriters = (IF pc[c] = "show" THEN {c} ELSE {}) /\ in_test
    BY <2>1 DEF ErrorWriters, LogInv
  <2>3. error_lines = IF pc[c] = "show" THEN 0 ELSE 1
    BY <2>1, <2>2 DEF LogInv, ErrorLogged
  <2> QED BY <1>1, <2>1, <2>2, <2>3 DEF ErrorLogged
<1>4. ASSUME NEW running \in BOOLEAN, LogTestStart(running), log_running' = running,
             enable_tty_log' \in BOOLEAN, pass_num' \in Nat
      PROVE  Goal
  <2>1. /\ log_error_seen' = (log_error_seen /\ ~running) /\ in_test' = FALSE /\ error_lines' = 0
    BY <1>4 DEF LogTestStart
  <2>2. log_error_seen' \in BOOLEAN /\ (running => log_error_seen' = FALSE)
    BY <1>1, <2>1
  <2> QED BY <1>4, <2>1, <2>2 DEF ErrorLogged
<1>5. CASE ~\E c \in CPU : CountLogged(c) \/ SendLine(c)
  <2>0. ErrorWriters' = ErrorWriters
    BY <1>5, WriterStep
  <2>1. Same => Goal
    BY <2>0, QuietKeepsLog
  <2>2. UNCHANGED allVars \/ NoLog => Same
    BY DEF NoLog, logState, testLog, allVars, logVars
  <2>3. LogUpdate \/ LogEccUpdate => Same
    BY <2>2 DEF LogUpdate, LogEccUpdate, logState, testLog
  <2>4. pass_num' = pass_num + 1 /\ UNCHANGED <<enable_tty_log, log_running, log_error_seen, in_test, error_lines>>
          => Goal
    BY <1>1, <2>0 DEF LogInv, ErrorLogged
  <2> HIDE DEF Goal, Same
  <2>5. StartRunLogged => Goal
    <3>1. (log_running \/ enable_tty_log) \in BOOLEAN
      BY <1>1
    <3> QED BY <1>1, <1>4, <2>1, <2>2, <3>1 DEF StartRunLogged
  <2>6. OtherTest => Goal
    BY <1>1, <1>4, <2>1, <2>2 DEF OtherTest, logState
  <2>7. OtherPass => Goal
    BY <1>1, <1>4 DEF OtherPass, logState
  <2>8. LastPassLogged => Same
    BY DEF LastPassLogged, testLog, Same
  <2>9. VerdictLogged => Goal
    <3> SUFFICES ASSUME VerdictLogged PROVE Goal
      OBVIOUS
    <3>1. CASE Stops
      BY <2>1, <2>2, <3>1 DEF VerdictLogged
    <3>2. CASE ~Stops
      BY <2>4, <3>2 DEF VerdictLogged, logState, testLog
    <3> QED BY <3>1, <3>2
  <2>10. \/ UNCHANGED allVars \/ NoLog \/ LogUpdate \/ LogEccUpdate
         \/ StartRunLogged \/ OtherTest \/ OtherPass \/ LastPassLogged \/ VerdictLogged
    BY <1>5 DEF LogNext, LogStep, Unlogged, FindUnlogged, HaltLoopUnlogged, EccUpdateLogged,
                TickLogged, LoopLogged, SameTest
  <2>11. Goal
    BY <2>1, <2>2, <2>3, <2>5, <2>6, <2>7, <2>8, <2>9, <2>10
  <2> QED BY <2>11 DEF Goal
<1> QED BY <1>2, <1>3, <1>5

\* The initial states satisfy the invariant.
LEMMA LogInitInv == LogInit => LogInv
<1> SUFFICES ASSUME LogInit PROVE LogInv
  OBVIOUS
<1>1. /\ enable_tty_log \in BOOLEAN /\ log_running = enable_tty_log /\ log_error_seen = FALSE
      /\ in_test = FALSE /\ error_lines = 0 /\ pass_num = 0 /\ lines = << >>
      /\ halted = FALSE /\ dropped = 0 /\ writers = {} /\ spoiled = {} /\ pc[Master] = "run"
  BY LogAssumption, MasterAssumption DEF LogInit, Init
<1>2. StatusRight /\ LinesWhole /\ WriterInv
  BY <1>1 DEF StatusRight, LinesWhole, WriterInv
<1>3. log_running \in BOOLEAN /\ log_error_seen \in BOOLEAN /\ in_test \in BOOLEAN
  BY <1>1
<1>4. error_lines \in Nat /\ pass_num \in Nat /\ ~(dropped > 0) /\ ErrorLogged
  BY <1>1 DEF ErrorLogged
<1> QED BY <1>1, <1>2, <1>3, <1>4 DEF LogInv

\* A step keeps it.
LEMMA LogInvStep ==
  ASSUME FALSE \notin MenuValues, Inv, VerdictInv, LogInv, [LogNext]_allVars
  PROVE  LogInv'
  BY ErrorLoggedStep, StatusStep, WriterStep, WholeStep, StopsCounted DEF LogInv

\* A report that says PASS is one of a run in which nothing was found: what was ignored or
\* is on its way had an error before it.
LEMMA ReportFromInv ==
  ASSUME Inv, LogInv
  PROVE  ReportRight
<1>1. found \in Nat /\ dropped \in Nat /\ error_count \in Nat
  BY FoundAssumption, LimitAssumption DEF Inv, TypeOK
<1>2. ASSUME error_count = 0, InFlight = {} PROVE found = 0
  <2>1. Cardinality(InFlight) = 0 /\ dropped = 0
    BY <1>1, <1>2, FS_EmptySet DEF LogInv
  <2> QED BY <1>1, <1>2, <2>1, LimitAssumption DEF Inv, EveryErrorCounted, Least
<1>3. \A head, tests : SavedResult(head, tests, pass_num, error_count) = "pass" => error_count = 0
  BY DEF SavedResult, Result
<1> QED BY <1>2, <1>3 DEF ReportRight

\* Reading the clock: the value comes back from the registers, in both encodings.
LEMMA BcdInverse == \A n \in 0 .. 99 : BcdToBin((n \div 10) * 16 + (n % 10)) = n
  BY DEF BcdToBin

LEMMA ClockIsRight == ClockRight
<1>1. \A binary \in BOOLEAN : \A n \in 0 .. 99 : RtcValue(Encoded(n, binary), binary) = n
  BY BcdInverse DEF RtcValue, Encoded
<1>2. ASSUME NEW binary \in BOOLEAN, NEW n \in 0 .. 99
      PROVE  /\ RtcYear(Encoded(20, binary), Encoded(n, binary), binary) = 2000 + n
             /\ RtcYear(0, Encoded(n, binary), binary) = 2000 + n
  <2>1. RtcValue(Encoded(20, binary), binary) = 20 /\ RtcValue(Encoded(n, binary), binary) = n
    BY <1>1
  <2>2. RtcValue(0, binary) = 0
    BY DEF RtcValue, BcdToBin
  <2> QED BY <2>1, <2>2 DEF RtcYear
<1>3. ASSUME NEW binary \in BOOLEAN, NEW n \in 0 .. 23
      PROVE  /\ Encoded(n, binary) \in 0 .. 127
             /\ Encoded(n, binary) % 128 = Encoded(n, binary)
             /\ (Encoded(n, binary) + 128) % 128 = Encoded(n, binary)
  BY DEF Encoded
<1>4. ASSUME NEW binary \in BOOLEAN, NEW hour \in 0 .. 23
      PROVE  RtcHour(HourRegister(hour, binary, TRUE), binary, TRUE) = hour
  BY <1>1, <1>3 DEF RtcHour, HourRegister
<1>5. ASSUME NEW binary \in BOOLEAN, NEW hour \in 0 .. 23
      PROVE  RtcHour(HourRegister(hour, binary, FALSE), binary, FALSE) = hour
  <2> DEFINE h == IF hour % 12 = 0 THEN 12 ELSE hour % 12
  <2>1. h \in 1 .. 12 /\ h % 12 = hour % 12
    OBVIOUS
  <2>2. hour = (hour % 12) + (IF hour >= 12 THEN 12 ELSE 0)
    OBVIOUS
  <2>3. HourRegister(hour, binary, FALSE) = Encoded(h, binary) + (IF hour >= 12 THEN 128 ELSE 0)
    BY DEF HourRegister
  <2> HIDE DEF h
  <2> DEFINE reg == HourRegister(hour, binary, FALSE)
  <2>4. reg % 128 = Encoded(h, binary) /\ (reg >= 128 <=> hour >= 12)
    <3>0. h \in 0 .. 23
      BY <2>1
    <3>1. reg = Encoded(h, binary) + (IF hour >= 12 THEN 128 ELSE 0)
      BY <2>3, Zenon
    <3>2. /\ Encoded(h, binary) \in 0 .. 127 /\ Encoded(h, binary) % 128 = Encoded(h, binary)
          /\ (Encoded(h, binary) + 128) % 128 = Encoded(h, binary)
      BY <1>3, <3>0
    <3> HIDE DEF reg
    <3>3. CASE hour >= 12
      BY <3>1, <3>2, <3>3
    <3>4. CASE ~(hour >= 12)
      BY <3>1, <3>2, <3>4
    <3> QED BY <3>3, <3>4
  <2>5. RtcValue(Encoded(h, binary), binary) = h
    BY <1>1, <2>1
  <2> HIDE DEF reg
  <2>6. RtcHour(reg, binary, FALSE) = (h % 12) + (IF reg >= 128 THEN 12 ELSE 0)
    BY <2>4, <2>5 DEF RtcHour
  <2>7. RtcHour(reg, binary, FALSE) = (hour % 12) + (IF hour >= 12 THEN 12 ELSE 0)
    BY <2>1, <2>4, <2>6
  <2>8. RtcHour(reg, binary, FALSE) = hour
    BY <2>2, <2>7
  <2> QED BY <2>8, Zenon DEF reg
<1>6. ASSUME NEW binary \in BOOLEAN, NEW h24 \in BOOLEAN, NEW hour \in 0 .. 23
      PROVE  RtcHour(HourRegister(hour, binary, h24), binary, h24) = hour
  <2>1. h24 = TRUE \/ h24 = FALSE
    OBVIOUS
  <2>2. CASE h24 = TRUE
    BY <1>4, <2>2, Zenon
  <2>3. CASE h24 = FALSE
    BY <1>5, <2>3, Zenon
  <2> QED BY <2>1, <2>2, <2>3
<1>7. ASSUME NEW binary \in BOOLEAN
      PROVE  \A n \in 0 .. 99 : /\ RtcYear(Encoded(20, binary), Encoded(n, binary), binary) = 2000 + n
                                 /\ RtcYear(0, Encoded(n, binary), binary) = 2000 + n
  BY <1>2
<1>8. ASSUME NEW binary \in BOOLEAN, NEW h24 \in BOOLEAN
      PROVE  \A hour \in 0 .. 23 : RtcHour(HourRegister(hour, binary, h24), binary, h24) = hour
  BY <1>6
<1> QED BY <1>1, <1>7, <1>8 DEF ClockRight

\* No text runs out of its buffer, whatever the sizes.
LEMMA BuffersAreRight == BuffersRight
<1>1. ASSUME NEW len \in 0 .. 2 * SlogSize
      PROVE  SlogBytes(len) <= SlogSize /\ SlogText(len) <= SlogBytes(len) - 3
  BY ReportAssumption DEF SlogBytes, SlogText, Stored, Bounded, SlogEnd
<1>2. ASSUME NEW head \in HeadLengths, NEW tests \in 0 .. 2
      PROVE  ReportLength(head, tests) + 1 <= ReportSize
  <2>1. StatusAt(head, tests) + StatusLength \in Nat /\ ReportSize \in Nat
    BY ReportAssumption DEF StatusAt
  <2> QED BY <2>1 DEF ReportLength, ReportEnd, Bounded
<1> QED BY <1>1, <1>2 DEF BuffersRight

\* What the serial line and the saved reports tell is right in every run, with the same
\* exception as for the verdict: one error line for each test with errors, whichever core
\* reports first; no line mixed with that of another core, although slog_buf has no lock of
\* its own and the tick of an ECC error is sent without error_mutex; "pass" at the end of a
\* pass, and in a report whenever it is saved, only if no bad word was found; the right
\* date; no text behind the end of its buffer.
THEOREM LogIsTruthful ==
  ASSUME FALSE \notin MenuValues
  PROVE  SafeLogSpec => []LogTruthful
<1>1. LogInit => Inv /\ VerdictInv /\ LogInv
  <2>1. LogInit => Init
    BY DEF LogInit
  <2>2. Init => VerdictInv
    BY MasterAssumption DEF Init, VerdictInv
  <2> QED BY <2>1, <2>2, InitInv, LogInitInv
<1>2. Inv /\ VerdictInv /\ LogInv /\ [LogNext]_allVars => (Inv /\ VerdictInv /\ LogInv)'
  BY LogKeepsInv, LogInvStep
<1>3. Inv /\ LogInv => LogTruthful
  BY ReportFromInv, ClockIsRight, BuffersAreRight DEF LogTruthful, LogInv
<1> QED BY <1>1, <1>2, <1>3, PTL DEF SafeLogSpec

\* The joined specification keeps what ErrorLog promises.
THEOREM LoggedVerdictCorrect ==
  ASSUME FALSE \notin MenuValues
  PROVE  SafeLogSpec => [](EveryErrorCounted /\ NoFalsePass)
<1>1. LogInit => Inv /\ VerdictInv
  <2>1. LogInit => Init
    BY DEF LogInit
  <2>2. Init => VerdictInv
    BY MasterAssumption DEF Init, VerdictInv
  <2> QED BY <2>1, <2>2, InitInv
<1>2. Inv /\ VerdictInv /\ [LogNext]_allVars => (Inv /\ VerdictInv)'
  BY LogKeepsInv
<1>3. Inv /\ VerdictInv => EveryErrorCounted /\ NoFalsePass
  BY DEF Inv, VerdictInv, NoFalsePass
<1> QED BY <1>1, <1>2, <1>3, PTL DEF SafeLogSpec
=============================================================================
