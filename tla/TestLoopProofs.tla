--------------------------- MODULE TestLoopProofs ---------------------------
(***************************************************************************)
(* Proofs about module TestLoop.                                           *)
(***************************************************************************)
EXTENDS TestLoop, FiniteSetTheorems, WellFoundedInduction, TLAPS

\* A set of positive numbers has a least element.
LEMMA LeastExists ==
  ASSUME NEW n \in Nat, NEW K, K \subseteq 1 .. n, K # {}
  PROVE  \E k \in K : \A j \in K : k <= j
<1> DEFINE T == {1 .. k : k \in K}
           R == StrictSubsetOrdering(1 .. n)
<1>1. IsWellFoundedOn(R, SUBSET (1 .. n))
  <2>1. IsFiniteSet(1 .. n)
    BY FS_Interval
  <2>2. FiniteSubsetsOf(1 .. n) = SUBSET (1 .. n)
    BY <2>1, FS_FiniteSubsetsOfFinite
  <2>. QED
    BY <2>2, FS_StrictSubsetOrderingWellFounded
<1>2. T \subseteq SUBSET (1 .. n)
  <2>1. \A k \in K : 1 .. k \subseteq 1 .. n
    OBVIOUS
  <2>. QED BY <2>1
<1>3. T # {}
  OBVIOUS
<1>4. PICK t \in T : \A u \in T : ~ (<<u, t>> \in R)
  <2> HIDE DEF T, R
  <2>. QED BY <1>1, <1>2, <1>3, WFMin
<1>5. PICK k \in K : t = 1 .. k
  OBVIOUS
<1>6. ASSUME NEW j \in K, j < k PROVE FALSE
  <2>1. 1 .. j \subseteq 1 .. k /\ 1 .. j # 1 .. k
    <3>1. k \in 1 .. k /\ k \notin 1 .. j
      BY <1>6
    <3>. QED BY <1>6, <3>1
  <2>2. <<1 .. j, t>> \in R
    BY <2>1, <1>5 DEF StrictSubsetOrdering
  <2>. QED BY <2>2, <1>4
<1>. QED
  <2>1. \A j \in K : ~(j < k)
    BY <1>6
  <2>. QED BY <2>1

\* The number of enabled cores.
LEMMA CoresCounted ==
  /\ IsFiniteSet(Enabled) /\ Cardinality(Enabled) \in Nat
  /\ Cardinality(Enabled) >= 1
  /\ Enabled \subseteq Nat /\ 0 \in Enabled
<1>1. IsFiniteSet(Enabled)
  <2>1. IsFiniteSet(0 .. N - 1)
    BY CpuAssumption, FS_Interval
  <2>. QED BY <2>1, FS_Subset, CpuAssumption DEF CPU
<1>2. Cardinality(Enabled) \in Nat
  BY <1>1, FS_CardinalityType
<1>3. Cardinality(Enabled) # 0
  BY <1>1, FS_EmptySet, CpuAssumption
<1>. QED
  BY <1>1, <1>2, <1>3, CpuAssumption DEF CPU

\* select_next_master finds a core that is not disabled: the next one, or the first after
\* the last.
LEMMA NextMasterFound ==
  ASSUME master_cpu \in MasterCores
  PROVE  /\ NextMaster \in MasterCores
         /\ NextMaster = 0 => \A c \in MasterCores : c <= master_cpu
         /\ NextMaster # 0 => /\ master_cpu < NextMaster
                              /\ \A c \in MasterCores : c < NextMaster => c <= master_cpu
<1> DEFINE next(k) == (master_cpu + k) % N
           K == {k \in 1 .. N : next(k) \in MasterCores}
           Least(k) == /\ next(k) \in MasterCores
                       /\ \A j \in 1 .. k - 1 : next(j) \notin MasterCores
<1>1. N \in Nat \ {0} /\ master_cpu \in 0 .. N - 1
  BY CpuAssumption DEF CPU
<1>2. \A k \in 1 .. N : next(k) = IF master_cpu + k < N THEN master_cpu + k
                                  ELSE master_cpu + k - N
  BY <1>1
<1>3. N \in K
  BY <1>1, <1>2
<1>4. PICK k \in K : \A j \in K : k <= j
  <2>1. K \subseteq 1 .. N /\ K # {} /\ N \in Nat
    BY <1>1, <1>3
  <2> HIDE DEF K
  <2>. QED BY <2>1, LeastExists
<1>5. k \in 1 .. N /\ Least(k)
  <2> HIDE DEF next
  <2>1. k \in 1 .. N /\ next(k) \in MasterCores
    BY <1>4
  <2>2. ASSUME NEW j \in 1 .. k - 1, next(j) \in MasterCores PROVE FALSE
    <3>1. j \in 1 .. N /\ j < k
      BY <2>1, <1>1
    <3>2. j \in K
      BY <3>1, <2>2
    <3>. QED BY <3>1, <3>2, <1>4, <2>1
  <2>. QED BY <2>1, <2>2
<1>6. PICK m \in 1 .. N : m = (CHOOSE i \in 1 .. N : Least(i)) /\ Least(m)
  <2> HIDE DEF Least
  <2>. QED BY <1>5
<1>7. NextMaster = next(m)
  BY <1>6 DEF NextMaster
<1>8. 0 \in MasterCores /\ MasterCores \subseteq 0 .. N - 1
  BY CpuAssumption DEF CPU
<1>9. m <= N - master_cpu
  <2>1. CASE master_cpu = 0
    BY <2>1, <1>1
  <2>2. CASE master_cpu # 0
    <3>1. next(N - master_cpu) = 0
      BY <1>1, <1>2, <2>2
    <3>2. ~(N - master_cpu \in 1 .. m - 1)
      BY <3>1, <1>6, <1>8
    <3>. QED BY <3>2, <1>1, <2>2
  <2>. QED BY <2>1, <2>2
<1>10. \A c \in MasterCores : master_cpu < c => master_cpu + m <= c
  <2> SUFFICES ASSUME NEW c \in MasterCores, master_cpu < c, c < master_cpu + m
               PROVE  FALSE
    BY <1>1, <1>8
  <2>1. c - master_cpu \in 1 .. m - 1 /\ c - master_cpu \in 1 .. N
    BY <1>1, <1>8
  <2>2. next(c - master_cpu) = c
    BY <1>1, <1>2, <1>8, <2>1
  <2>. QED BY <1>6, <2>1, <2>2
<1>11. CASE master_cpu + m = N
  <2>1. next(m) = 0
    BY <1>11, <1>2, <1>1
  <2>. QED BY <2>1, <1>7, <1>8, <1>10, <1>11, <1>1
<1>12. CASE master_cpu + m < N
  <2>1. next(m) = master_cpu + m
    BY <1>12, <1>2, <1>1
  <2>2. \A c \in MasterCores : c < master_cpu + m => c <= master_cpu
    BY <1>10, <1>8, <1>1
  <2>3. NextMaster \in MasterCores
    BY <1>6, <1>7
  <2>. QED BY <2>1, <2>2, <2>3, <1>7, <1>1
<1>. QED
  BY <1>9, <1>11, <1>12, <1>1

-----------------------------------------------------------------------------
\* What a configuration holds.
LEMMA ConfigHolds ==
  ASSUME NEW g \in Configs
  PROVE  /\ g.cpu_mode \in CpuMode /\ g.enabled \subseteq Test /\ g.above \in BOOLEAN
         /\ g.test_sequence \in [Test -> Test]
BY ConfigAssumption DEF Config

\* test_sequence yields numbers, and a test at index 0.
LEMMA SequenceType ==
  ASSUME config \in Configs, behind \in Behind, NEW i \in Nat
  PROVE  TestSequence(i) \in Nat
<1>1. config.test_sequence \in [Test -> Test] /\ behind \in Seq(Test)
  BY ConfigHolds, BehindAssumption
<1>2. Test \subseteq Nat /\ NumTests \in Nat
  BY TestAssumption DEF Test
<1>3. CASE i < NumTests
  BY <1>1, <1>2, <1>3 DEF TestSequence, Test
<1>4. CASE ~(i < NumTests) /\ i - NumTests < Len(behind)
  <2>1. i - NumTests + 1 \in 1 .. Len(behind)
    BY <1>1, <1>2, <1>4
  <2>2. behind[i - NumTests + 1] \in Test
    BY <2>1, <1>1
  <2>. QED BY <2>2, <1>4, <1>2 DEF TestSequence
<1>5. CASE ~(i < NumTests) /\ ~(i - NumTests < Len(behind))
  BY <1>5, <1>2 DEF TestSequence
<1>. QED BY <1>3, <1>4, <1>5

Key == {"skip", "change", "mistype"}
Holds(s) == "mistype" \in {s[i] : i \in DOMAIN s}

LEMMA AppendHolds ==
  ASSUME NEW s \in Seq(Key), NEW x \in Key
  PROVE  Append(s, x) \in Seq(Key) /\ (Holds(Append(s, x)) <=> Holds(s) \/ x = "mistype")
<1>1. Append(s, x) \in Seq(Key) /\ Len(Append(s, x)) = Len(s) + 1
  OBVIOUS
<1>2. DOMAIN s = 1 .. Len(s) /\ DOMAIN Append(s, x) = 1 .. (Len(s) + 1) /\ Len(s) \in Nat
  BY <1>1
<1>3. \A i \in 1 .. Len(s) : Append(s, x)[i] = s[i]
  OBVIOUS
<1>4. Append(s, x)[Len(s) + 1] = x
  OBVIOUS
<1>. QED
  <2>1. ASSUME Holds(s) PROVE Holds(Append(s, x))
    BY <2>1, <1>2, <1>3 DEF Holds
  <2>2. ASSUME x = "mistype" PROVE Holds(Append(s, x))
    BY <2>2, <1>2, <1>4 DEF Holds
  <2>3. ASSUME Holds(Append(s, x)), ~Holds(s) PROVE x = "mistype"
    <3>1. PICK i \in 1 .. (Len(s) + 1) : Append(s, x)[i] = "mistype"
      BY <2>3, <1>2 DEF Holds
    <3>2. i \notin 1 .. Len(s)
      BY <3>1, <1>2, <1>3, <2>3 DEF Holds
    <3>. QED BY <3>1, <3>2, <1>2, <1>4
  <2>. QED BY <1>1, <2>1, <2>2, <2>3

\* What check_input may leave behind.
LEMMA KeyEffects ==
  ASSUME TypeOK, NEW k \in Keys
  PROVE  /\ k.bail \in BOOLEAN /\ k.restart \in BOOLEAN /\ k.start_pass \in BOOLEAN
         /\ k.pass_num \in Nat /\ k.config \in Configs /\ k.inputs \in Seq(Key)
         /\ bail => k.bail
         /\ restart => k.restart
         /\ k.restart => restart \/ k.bail
         /\ ~k.restart => k.config = config
         /\ Mistyped => Holds(k.inputs)
         /\ k.start_pass /\ ~k.restart => start_pass \/ Holds(k.inputs)
         /\ start_pass => k.start_pass
<1>1. /\ bail \in BOOLEAN /\ restart \in BOOLEAN /\ start_pass \in BOOLEAN
      /\ pass_num \in Nat /\ config \in Configs /\ inputs \in Seq(Key)
  BY DEF TypeOK, Key
<1>2. Mistyped <=> Holds(inputs)
  BY DEF Mistyped, Holds
<1>3. \/ k = NoKey \/ k = SkipKey \/ k = MistypeKey
      \/ \E g \in Configs, s \in BOOLEAN, p \in BOOLEAN : k = ChangeKey(g, s, p)
  BY DEF Keys
<1>4. CASE k = NoKey
  BY <1>1, <1>2, <1>4 DEF NoKey
<1>5. CASE k = SkipKey
  <2>1. /\ k.bail = TRUE /\ k.restart = restart /\ k.start_pass = start_pass
        /\ k.pass_num = pass_num /\ k.config = config /\ k.inputs = Append(inputs, "skip")
    BY <1>5 DEF SkipKey, Pressing, NoKey
  <2>2. k.inputs \in Seq(Key) /\ (Holds(inputs) => Holds(k.inputs))
    BY <2>1, <1>1, AppendHolds DEF Key
  <2>. QED BY <2>1, <2>2, <1>1, <1>2
<1>6. CASE k = MistypeKey
  <2>1. /\ k.bail = bail /\ k.restart = restart /\ k.start_pass = TRUE
        /\ k.pass_num = pass_num /\ k.config = config /\ k.inputs = Append(inputs, "mistype")
    BY <1>6 DEF MistypeKey, Pressing, NoKey
  <2>2. k.inputs \in Seq(Key) /\ Holds(k.inputs)
    BY <2>1, <1>1, AppendHolds DEF Key
  <2>. QED BY <2>1, <2>2, <1>1, <1>2
<1>7. CASE \E g \in Configs, s \in BOOLEAN, p \in BOOLEAN : k = ChangeKey(g, s, p)
  <2>1. PICK g \in Configs, s \in BOOLEAN, p \in BOOLEAN : k = ChangeKey(g, s, p)
    BY <1>7
  <2>2. /\ k.bail = TRUE /\ k.restart = TRUE /\ k.start_pass = (start_pass \/ s)
        /\ k.pass_num = (IF p THEN 0 ELSE pass_num) /\ k.config = g /\ k.inputs = Append(inputs, "change")
    BY <2>1 DEF ChangeKey, Pressing, NoKey
  <2>3. k.inputs \in Seq(Key) /\ (Holds(inputs) => Holds(k.inputs))
    BY <2>2, <1>1, AppendHolds DEF Key
  <2>4. k.start_pass \in BOOLEAN
    BY <2>2
  <2>5. k.pass_num \in Nat
    BY <2>2, <1>1
  <2>. QED BY <2>1, <2>2, <2>3, <2>4, <2>5, <1>1, <1>2
<1>. QED BY <1>3, <1>4, <1>5, <1>6, <1>7

-----------------------------------------------------------------------------
\* The types of what the proofs below look at.
LEMMA Typed ==
  ASSUME TypeOK
  PROVE  /\ 0 \in Enabled /\ master_cpu \in Enabled /\ NumWindows \in Nat \ {0}
         /\ MasterCores \subseteq Enabled /\ 0 \in MasterCores /\ master_cpu \in MasterCores
         /\ window_num \in Nat /\ window_end \in Nat
         /\ test_stage \in Nat /\ test_num \in Nat /\ test_num_index \in Nat
BY CpuAssumption, WindowAssumption DEF TypeOK

\* The barrier opens: the phase is over.
LEMMA OpenKeeps ==
  ASSUME TypeOK, NEW l \in Phases, InPhase(l), Open
  PROVE  TypeOK' /\ \E m \in Phases : InPhase(m)'
<1>1. /\ waiting' = [c \in Enabled |-> FALSE]
      /\ \A c \in Enabled : waiting[c]
      /\ UNCHANGED <<at, image, i_am_master, i_am_active, start_run, start_pass, start_test,
                     rerun_test, dummy_run, pass_num, test_num_index, test_num, test_stage,
                     master_cpu, window_num, window_end, mapped, bail, restart, config, errors,
                     num_active_cpus, behind, inputs, tested>>
  BY DEF Open, locals, globals, flags, position, windows
<1>2. TypeOK'
  BY <1>1 DEF TypeOK
<1>3. /\ 0 \in Enabled /\ master_cpu \in Enabled /\ NumWindows \in Nat \ {0}
      /\ window_num \in Nat /\ window_end \in Nat
      /\ test_stage \in Nat /\ test_num \in Nat /\ test_num_index \in Nat
  BY Typed
<1>4. PICK m \in Phases : m = Onward(l)
  <2>1. Onward(l) \in Phases
    BY DEF Onward, Phases, Label, Again, LoadAddr
  <2>. QED BY <2>1
<1>5. \A c \in Enabled : at[c] = m /\ ~waiting'[c]
  BY <1>1, <1>3, <1>4 DEF InPhase, Together
<1>6. Together(m)'
  BY <1>1, <1>5 DEF Together
<1>7. Images(m)'
  <2>1. m \notin Moving => \A c, d \in Enabled : image[c] = image[d]
    <3>1. CASE l \in Moving
      BY <3>1, <1>1 DEF InPhase, Images
    <3>2. CASE l \notin Moving
      BY <3>2, <1>1 DEF InPhase, Images
    <3>. QED BY <3>1, <3>2
  <2>2. m = "map" => l = "adj" /\ (dummy_run \/ image[0] = LoadAddr) /\ at[master_cpu] = "map"
    BY <1>3, <1>4, <1>5 DEF Onward, Again, LoadAddr
  <2>3. m = "map" /\ ~dummy_run =>
          \A c \in Enabled : image[c] = IF window_end = 1 THEN "high" ELSE "low"
    <3> SUFFICES ASSUME m = "map", ~dummy_run, NEW c \in Enabled
                 PROVE  image[c] = IF window_end = 1 THEN "high" ELSE "low"
      OBVIOUS
    <3>1. image[c] = image[0]
      BY <2>2, <1>3 DEF InPhase, Images, Moving
    <3>2. window_num + 1 = window_end
      BY <2>2 DEF InPhase, Windows, Found
    <3>. QED BY <3>1, <3>2, <2>2, <1>3 DEF LoadAddr
  <2>. QED BY <2>1, <2>3, <1>1, <1>5 DEF Images
<1>8. Roles(m)'
  <2>1. CASE l = "ready"
    <3>1. m \in {"win", "done"}
      BY <2>1, <1>4 DEF Onward
    <3>2. CASE m = "done"
      BY <3>2 DEF Roles
    <3>3. CASE m = "win"
      <4>1. \A c \in Enabled : /\ i_am_master[c] = (c = master_cpu)
                               /\ i_am_active[c] = (c = master_cpu \/ Parallel)
        BY <3>3, <2>1, <1>5 DEF InPhase, Roles
      <4>2. num_active_cpus = IF Parallel THEN Cardinality(Enabled) ELSE 1
        BY <3>3, <2>1, <1>5, <1>3 DEF InPhase, Roles
      <4>3. Parallel' = Parallel /\ Parallel \in BOOLEAN
        BY <1>1 DEF Parallel
      <4>. QED BY <3>3, <4>1, <4>2, <4>3, <1>1 DEF Roles
    <3>. QED BY <3>1, <3>2, <3>3
  <2>2. CASE l \in {"win", "adj", "map"}
    <3>1. m \in {"win", "adj", "map", "done"} \cup Moving
      BY <2>2, <1>4 DEF Onward, Again, Moving, LoadAddr
    <3>2. Parallel' = Parallel /\ Parallel \in BOOLEAN
      BY <1>1 DEF Parallel
    <3>. QED BY <3>1, <3>2, <2>2, <1>1 DEF InPhase, Roles, Moving
  <2>3. CASE l \in {"top", "done"} \cup Moving
    BY <2>3, <1>1, <1>4, <1>5 DEF Onward, Moving, Roles
  <2>. QED BY <2>1, <2>2, <2>3 DEF Phases, Label, Moving
<1>9. Windows(m)'
  <2>1. CASE l = "top"
    BY <2>1, <1>1, <1>3, <1>4, <1>5 DEF InPhase, Windows, Decisions, Onward, Moving, StartFlag, Between
  <2>2. CASE l = "ready"
    BY <2>2, <1>1, <1>3, <1>4, <1>5 DEF InPhase, Windows, Onward, Moving, Between
  <2>3. CASE l = "win"
    BY <2>3, <1>1, <1>3, <1>4, <1>5 DEF InPhase, Windows, Onward, Moving, Between
  <2>4. CASE l = "adj"
    <3>1. CASE m = "map"
      <4>1. Found /\ mapped = SetupVmMap(window_end)
        BY <3>1, <2>4, <1>3, <1>5 DEF InPhase, Windows
      <4>2. window_num + 1 = window_end /\ window_end \in 1 .. NumWindows + 1
        BY <4>1, <1>3 DEF Found
      <4>3. SetupVmMap(window_end)' = SetupVmMap(window_end)
        BY <1>1 DEF SetupVmMap
      <4>4. mapped => window_end - 1 \in Populated
        BY <4>1 DEF SetupVmMap
      <4>. QED BY <3>1, <4>1, <4>2, <4>3, <4>4, <1>1, <1>3, <1>5 DEF Windows, Found, Moving
    <3>2. CASE m # "map"
      <4>1. Between
        BY <3>2, <2>4, <1>3, <1>5 DEF InPhase, Windows
      <4>2. m \in Moving
        BY <3>2, <2>4, <1>4 DEF Onward, Moving
      <4>. QED BY <4>1, <4>2, <1>1, <1>3, <1>5 DEF Windows, Moving, Between
    <3>. QED BY <3>1, <3>2
  <2>5. CASE l = "map"
    <3>1. \/ window_num = window_end
          \/ window_num + 1 = window_end /\ window_end >= NumWindows
      BY <2>5, <1>1, <1>3 DEF InPhase, Windows
    <3>. QED BY <3>1, <2>5, <1>1, <1>3, <1>4, <1>5 DEF Windows, Onward, Again, Moving, Between
  <2>6. CASE l \in Moving
    <3>1. Between /\ m = "top"
      BY <2>6, <1>4 DEF InPhase, Windows, Onward, Moving
    <3>. QED BY <3>1, <1>1 DEF Windows, Moving, Between
  <2>7. CASE l = "done"
    <3>1. m = "top" /\ (StartFlag \/ rerun_test)
      BY <2>7, <1>1, <1>3, <1>4 DEF InPhase, Windows, Onward, StartFlag
    <3>. QED BY <3>1, <1>1 DEF Windows, Moving, StartFlag
  <2>. QED BY <2>1, <2>2, <2>3, <2>4, <2>5, <2>6, <2>7 DEF Phases, Label, Moving
<1>10. Decisions(m)'
  <2>1. TestSequence(test_num_index)' = TestSequence(test_num_index)
    BY <1>1 DEF TestSequence
  <2>2. Mistyped' = Mistyped
    BY <1>1 DEF Mistyped
  <2>3. Anew(l) => Anew(m)'
    BY <1>1, <1>3, <1>4 DEF InPhase, Decisions, Anew, StartFlag, Onward
  <2>4. l \in {"top", "ready"} \cup Moving => ~restart
    BY DEF InPhase, Decisions, Moving
  <2>5. m \in {"adj"} \cup Moving => ~bail
    BY <1>4 DEF InPhase, Decisions, Onward, Moving, Again
  <2>6. restart => bail /\ m \in {"map", "win", "done"}
    BY <1>1, <1>3, <1>4 DEF InPhase, Decisions, Onward, Again
  <2>7. start_run \/ start_test \/ rerun_test => m = "top"
    BY <1>1, <1>3, <1>4, <1>5 DEF InPhase, Decisions, Onward, StartFlag, Phases
  <2>8. start_pass => Mistyped \/ restart \/ m = "top"
    BY <1>1, <1>3, <1>4, <1>5 DEF InPhase, Decisions, Onward, StartFlag, Phases
  <2>9. m \in {"win", "adj", "map"} \cup Moving => restart \/ test_num \in config.enabled
    <3>1. m = "win" => l \in {"ready", "map"}
      BY <1>4 DEF Onward, Again, LoadAddr
    <3>2. m \in {"adj", "map"} \cup Moving => l \in {"win", "adj"}
      BY <1>4 DEF Onward, Again, LoadAddr, Moving
    <3>3. l = "ready" /\ m = "win" => test_num \in config.enabled
      BY <1>4 DEF Onward
    <3>4. l \in {"win", "adj", "map"} => restart \/ test_num \in config.enabled
      BY DEF InPhase, Decisions
    <3>. QED BY <3>1, <3>2, <3>3, <3>4
  <2>10. restart \/ start_run \/ test_num = TestSequence(test_num_index)
    BY DEF InPhase, Decisions
  <2>11. ~restart /\ test_num \in config.enabled /\ ~Anew(l) => test_stage < Stages[test_num]
    BY DEF InPhase, Decisions
  <2>. QED
    BY <2>1, <2>2, <2>3, <2>5, <2>6, <2>7, <2>8, <2>9, <2>10, <2>11, <1>1, <1>3 DEF Decisions
<1>11. Anew(l) => Anew(m)'
  BY <1>1, <1>3, <1>4 DEF InPhase, Decisions, Anew, StartFlag, Onward
<1>12. Masters'
  BY <1>1 DEF InPhase, Masters, Mistyped, InTurn, Rotates, StartFlag
<1>13. FirstWindow(m)'
  <2>1. TestWindows' = TestWindows
    BY <1>1 DEF TestWindows
  <2>2. l = "done" => Anew(m)' \/ rerun_test
    BY <1>1, <1>3, <1>4 DEF InPhase, Windows, Anew, StartFlag, Onward
  <2>3. m = "adj" => l = "win" /\ at[master_cpu] = "adj"
    BY <1>3, <1>4, <1>5 DEF Onward, Again, LoadAddr
  <2>4. m = "map" => l = "adj" /\ window_num + 1 = window_end
    BY <1>3, <1>4, <1>5 DEF Onward, Again, LoadAddr, InPhase, Windows, Found
  <2>. QED
    BY <2>1, <2>2, <2>3, <2>4, <1>1, <1>3, <1>5, <1>11 DEF InPhase, FirstWindow
<1>14. Progress(m)'
  <2> DEFINE Gate(p) == /\ ~bail /\ ~dummy_run /\ test_num \in config.enabled
                        /\ ~Anew(p) /\ at[0] # "stopped"
  <2>1. ASSUME Gate(m)', NEW c \in Enabled, NEW w \in Window
        PROVE  (w < Covered(l, c)) <=> (w < Covered(m, c)')
    <3>1. w \in Nat /\ w < NumWindows
      BY <1>3 DEF Window
    <3>2. CASE l = "top"
      <4>1. m = "ready" /\ ~rerun_test
        BY <3>2, <1>1, <1>3, <1>4 DEF InPhase, Decisions, Onward
      <4>. QED BY <3>2, <4>1, <1>1 DEF Covered
    <3>3. CASE l = "ready"
      BY <2>1, <3>3, <1>1, <1>4 DEF Covered, Onward
    <3>4. CASE l = "win"
      BY <2>1, <3>4, <1>1, <1>3, <1>4, <1>5 DEF Covered, Onward
    <3>5. CASE l = "adj"
      BY <3>5, <1>1, <1>3, <1>4, <1>5 DEF Covered, Onward
    <3>6. CASE l = "map"
      BY <3>1, <3>6, <1>1, <1>3, <1>4, <1>5 DEF Covered, Onward, Again
    <3>7. CASE l \in Moving
      <4>1. m = "top" /\ ~rerun_test
        BY <3>7, <1>4 DEF InPhase, Decisions, Onward, Moving
      <4>. QED BY <3>7, <4>1, <1>1 DEF Covered, Moving
    <3>8. CASE l = "done"
      <4>1. m = "top" /\ rerun_test
        BY <2>1, <3>8, <1>1, <1>3, <1>4 DEF InPhase, Windows, Anew, StartFlag, Onward
      <4>. QED BY <3>8, <4>1, <1>1, <1>3 DEF Covered
    <3>. QED BY <3>2, <3>3, <3>4, <3>5, <3>6, <3>7, <3>8 DEF Phases, Label, Moving
  <2>2. ASSUME Gate(m)', NEW c \in Enabled, NEW s, NEW w \in Window
        PROVE  Due(l, c, s, w) <=> Due(m, c, s, w)'
    <3>1. /\ Testers' = Testers /\ TestWindows' = TestWindows
          /\ InTurn' = InTurn /\ Parallel' = Parallel
      BY <1>1 DEF Testers, TestWindows, InTurn, Rotates, Parallel
    <3>. QED BY <2>1, <2>2, <3>1, <1>1 DEF Due
  <2>3. Gate(m)' => Gate(l)
    BY <1>1, <1>11
  <2>4. tested \subseteq Enabled \X Nat \X Window /\ tested' = tested
    BY <1>1 DEF TypeOK
  <2>5. Mistyped' = Mistyped
    BY <1>1 DEF Mistyped
  <2>6. Gate(m)' => /\ \A t \in tested : Due(m, t[1], t[2], t[3])'
                    /\ ~Mistyped => \A c \in Enabled, s \in 0 .. Stages[test_num] - 1, w \in Window :
                                      Due(m, c, s, w)' => <<c, s, w>> \in tested
    <3> SUFFICES ASSUME Gate(m)'
                 PROVE  /\ \A t \in tested : Due(m, t[1], t[2], t[3])'
                        /\ ~Mistyped => \A c \in Enabled, s \in 0 .. Stages[test_num] - 1, w \in Window :
                                          Due(m, c, s, w)' => <<c, s, w>> \in tested
      OBVIOUS
    <3>1. \A t \in tested : Due(l, t[1], t[2], t[3])
      BY <2>3 DEF InPhase, Progress
    <3>2. ~Mistyped => \A c \in Enabled, s \in 0 .. Stages[test_num] - 1, w \in Window :
                         Due(l, c, s, w) => <<c, s, w>> \in tested
      BY <2>3 DEF InPhase, Progress
    <3>3. \A t \in tested : t[1] \in Enabled /\ t[3] \in Window
      BY <2>4
    <3>. QED BY <3>1, <3>2, <3>3, <2>2
  <2>7. ASSUME m = "map", ~dummy_run, NEW t \in tested, i_am_active[t[1]]
        PROVE  t[2] # test_stage \/ t[3] < window_end - 1
    <3>1. l = "adj" /\ at[master_cpu] = "map"
      BY <2>7, <1>3, <1>4, <1>5 DEF Onward, Again, LoadAddr
    <3>2. ~bail /\ ~restart /\ test_num \in config.enabled /\ ~Anew(l) /\ at[0] # "stopped"
      BY <3>1, <2>7, <1>3, <1>5 DEF InPhase, Decisions, Anew
    <3>3. Due(l, t[1], t[2], t[3])
      BY <3>2, <2>7 DEF InPhase, Progress
    <3>4. t[1] \in Enabled /\ t[1] \in Nat /\ t[2] \in Nat
      BY <2>4, CoresCounted
    <3>5. t[1] = master_cpu \/ Parallel
      BY <2>7, <3>1, <3>2, <3>4 DEF InPhase, Roles
    <3>6. ~(InTurn /\ t[1] < master_cpu)
      BY <3>4, <3>5, <1>3, CoresCounted DEF InTurn, Rotates, Parallel
    <3>. QED BY <3>1, <3>3, <3>4, <3>6, <1>3 DEF Due, Covered
  <2>8. Gate(m)' = (~bail /\ ~dummy_run /\ test_num \in config.enabled /\ ~Anew(m) /\ at[0] # "stopped")'
    OBVIOUS
  <2> HIDE DEF Gate
  <2>. QED BY <2>4, <2>5, <2>6, <2>7, <2>8, <1>1 DEF Progress
<1>. QED
  BY <1>2, <1>6, <1>7, <1>8, <1>9, <1>10, <1>12, <1>13, <1>14 DEF InPhase

\* A core that does not wait, and is not stopped, is in the phase of all.
LEMMA SamePhase ==
  ASSUME NEW l \in Phases, Together(l), NEW c \in Enabled, NEW p, At(c, p), p # "stopped"
  PROVE  l = p
BY DEF Together, At

\* A core goes on to the wait that ends the phase.
LEMMA GoesOn ==
  ASSUME TypeOK, NEW l \in Phases, Together(l), NEW c \in Enabled,
         WaitAt(c, Onward(l)), Onward(l)' = Onward(l), Onward(l) \in Label
  PROVE  /\ Together(l)' /\ at' \in [Enabled -> Label] /\ waiting' \in [Enabled -> BOOLEAN]
         /\ at'[c] = Onward(l) /\ waiting'[c]
         /\ \A d \in Enabled : d # c => at'[d] = at[d] /\ waiting'[d] = waiting[d]
BY DEF TypeOK, Together, WaitAt

\* All but CPU 0 return to the first wait.
LEMMA BackKeeps ==
  ASSUME TypeOK, NEW l \in Phases, InPhase(l), NEW c \in Enabled, Back(c)
  PROVE  TypeOK' /\ InPhase(l)'
<1>1. /\ c # 0 /\ WaitAt(c, "top")
      /\ UNCHANGED <<image, i_am_master, i_am_active, start_run, start_pass, start_test,
                     rerun_test, dummy_run, pass_num, test_num_index, test_num, test_stage,
                     master_cpu, window_num, window_end, mapped, bail, restart, config, errors,
                     num_active_cpus, behind, inputs, tested>>
  BY DEF Back, locals, globals, flags, position, windows
<1>2. l = "done"
  BY SamePhase DEF Back, InPhase
<1>3. Onward(l) = "top" /\ Onward(l)' = Onward(l)
  BY <1>2 DEF Onward
<1>4. /\ Together(l)' /\ at' \in [Enabled -> Label] /\ waiting' \in [Enabled -> BOOLEAN]
      /\ at'[c] = Onward(l) /\ waiting'[c]
      /\ \A d \in Enabled : d # c => at'[d] = at[d] /\ waiting'[d] = waiting[d]
  BY <1>1, <1>3, GoesOn DEF InPhase, Label
<1>5. at'[0] = at[0] /\ waiting'[0] = waiting[0]
  BY <1>1, <1>4, CpuAssumption
<1>6. TypeOK'
  BY <1>1, <1>4 DEF TypeOK
<1>7. Images(l)' /\ Roles(l)' /\ Windows(l)'
  BY <1>1, <1>2, <1>5 DEF InPhase, Images, Roles, Windows, Moving
<1>8. Decisions(l)' /\ Masters'
  BY <1>1, <1>2, <1>5 DEF InPhase, Decisions, Masters, Moving, Anew, StartFlag, Mistyped,
                         TestSequence, InTurn, Rotates
<1>9. FirstWindow(l)'
  BY <1>1, <1>2 DEF InPhase, FirstWindow
<1>10. Progress(l)'
  BY <1>1, <1>2, <1>5 DEF InPhase, Progress, Anew, StartFlag, Mistyped, Due, Covered, Testers,
                          TestWindows, InTurn, Rotates, Parallel
<1>. QED
  BY <1>4, <1>6, <1>7, <1>8, <1>9, <1>10 DEF InPhase

\* The code behind the first barrier of main.
LEMMA TopKeeps ==
  ASSUME TypeOK, NEW l \in Phases, InPhase(l), NEW c \in Enabled, Top(c)
  PROVE  TypeOK' /\ InPhase(l)'
<1>1. /\ WaitAt(c, "ready")
      /\ UNCHANGED <<image, i_am_master, i_am_active, dummy_run, master_cpu, mapped, restart,
                     config, num_active_cpus, behind, inputs>>
  BY DEF Top, locals, flags, position, windows
<1>2. l = "top" /\ ~waiting[c]
  BY SamePhase DEF Top, InPhase, At
<1>3. Onward(l) = "ready" /\ Onward(l)' = Onward(l)
  BY <1>2 DEF Onward
<1>4. /\ Together(l)' /\ at' \in [Enabled -> Label] /\ waiting' \in [Enabled -> BOOLEAN]
      /\ at'[c] = Onward(l) /\ waiting'[c]
      /\ \A d \in Enabled : d # c => at'[d] = at[d] /\ waiting'[d] = waiting[d]
  BY <1>1, <1>3, GoesOn DEF InPhase, Label
<1>5. Images(l)' /\ Roles(l)'
  BY <1>1, <1>2 DEF InPhase, Images, Roles, Moving
<1>6. /\ 0 \in Enabled /\ master_cpu \in Enabled /\ NumWindows \in Nat \ {0}
      /\ window_num \in Nat /\ window_end \in Nat
      /\ test_stage \in Nat /\ test_num \in Nat /\ test_num_index \in Nat
  BY Typed
<1>7. at[0] # "stopped" /\ at'[0] # "stopped"
  BY <1>2, <1>4, <1>6 DEF InPhase, Together, Onward
<1>8. Mistyped' = Mistyped /\ \A i \in Nat : TestSequence(i)' = TestSequence(i)
  BY <1>1 DEF Mistyped, TestSequence
<1>9. CASE c # 0
  <2>1. UNCHANGED <<start_run, start_pass, start_test, rerun_test, pass_num, test_num_index,
                    test_num, test_stage, window_num, window_end, bail, errors, tested>>
    BY <1>9 DEF Top, flags, position, windows
  <2>2. waiting'[0] = waiting[0]
    BY <1>4, <1>6, <1>9
  <2>3. TypeOK'
    BY <1>1, <1>4, <2>1 DEF TypeOK
  <2>4. Windows(l)' /\ Masters'
    BY <1>1, <1>2, <2>1 DEF InPhase, Windows, Moving, Between, Masters, StartFlag, InTurn, Rotates,
                            Mistyped
  <2>5. Decisions(l)'
    BY <1>1, <1>2, <1>8, <2>1, <2>2, <1>6 DEF InPhase, Decisions, Moving, Anew, StartFlag
  <2>6. FirstWindow(l)'
    BY <1>1, <1>2, <2>1 DEF InPhase, FirstWindow, Anew, StartFlag, TestWindows
  <2>7. Progress(l)'
    BY <1>1, <1>2, <1>7, <1>8, <2>1 DEF InPhase, Progress, Anew, StartFlag, Due, Covered, Testers,
                            TestWindows, InTurn, Rotates, Parallel
  <2>. QED
    BY <1>4, <1>5, <2>3, <2>4, <2>5, <2>6, <2>7 DEF InPhase
<1>10. CASE c = 0
  <2>1. /\ pass_num' = IF start_run THEN 0 ELSE pass_num
        /\ test_num_index' = IF start_run \/ start_pass THEN 0 ELSE test_num_index
        /\ test_num' = IF start_run \/ start_pass THEN TestSequence(0) ELSE test_num
        /\ test_stage' = IF StartFlag THEN 0 ELSE test_stage
        /\ bail' = (bail /\ ~StartFlag)
        /\ tested' = IF StartFlag THEN {} ELSE tested
        /\ window_num' = IF StartFlag \/ rerun_test THEN 0 ELSE window_num
        /\ window_end' = IF StartFlag \/ rerun_test THEN 0 ELSE window_end
    BY <1>10 DEF Top, StartFlag
  <2>2. /\ errors' = (errors /\ ~(start_run /\ ~dummy_run))
        /\ start_run' = FALSE /\ start_pass' = FALSE
        /\ start_test' = FALSE /\ rerun_test' = FALSE
    BY <1>10 DEF Top
  <2>3. ~waiting[0] /\ waiting'[0] /\ ~restart
    BY <1>2, <1>4, <1>10 DEF InPhase, Decisions
  <2>4. TypeOK'
    <3>1. TestSequence(0) \in Nat
      BY SequenceType DEF TypeOK
    <3>2. /\ pass_num' \in Nat /\ test_num_index' \in Nat /\ test_num' \in Nat /\ test_stage' \in Nat
          /\ window_num' \in 0 .. NumWindows + 1 /\ window_end' \in 0 .. NumWindows + 1
          /\ tested' \in SUBSET (Enabled \X Nat \X Window)
      BY <2>1, <3>1, <1>6 DEF TypeOK
    <3>3. bail' \in BOOLEAN /\ errors' \in BOOLEAN
      BY <2>1, <2>2
    <3>. QED BY <1>1, <1>4, <2>2, <3>2, <3>3 DEF TypeOK
  <2>5. ~StartFlag' /\ ~Anew(l)'
    BY <2>2 DEF StartFlag, Anew
  <2>6. Windows(l)'
    BY <1>2, <2>1, <1>6 DEF InPhase, Windows, Moving, Between
  <2>7. ~StartFlag => UNCHANGED <<test_num, test_num_index, test_stage, bail, tested, TestWindows,
                                  Testers, InTurn, Parallel>>
    BY <2>1, <1>1 DEF StartFlag, TestWindows, Testers, InTurn, Rotates, Parallel, TypeOK
  <2>8. Decisions(l)'
    <3>1. test_num' = TestSequence(test_num_index)'
      BY <1>1, <2>1, <2>3, <1>8, <1>6 DEF InPhase, Decisions, TestSequence
    <3>2. test_num' \in config.enabled => test_stage' < Stages[test_num']
      <4>1. test_num' \in config.enabled => Stages[test_num'] \in Nat \ {0}
        BY ConfigHolds, TestAssumption DEF TypeOK
      <4>2. CASE StartFlag
        BY <4>1, <4>2, <2>1
      <4>3. CASE ~StartFlag
        BY <4>3, <2>7, <2>3 DEF InPhase, Decisions, Anew
      <4>. QED BY <4>2, <4>3
    <3>. QED BY <1>1, <1>2, <2>2, <2>3, <2>5, <3>1, <3>2 DEF Decisions, Moving
  <2>9. StartFlag => Mistyped \/ config.cpu_mode = "ONE" \/ master_cpu = 0
    BY <2>3 DEF InPhase, Masters
  <2>10. Masters'
    BY <1>1, <1>8, <2>3, <2>5, <2>7, <2>9 DEF InPhase, Masters
  <2>11. FirstWindow(l)'
    <3>1. window_num' = 1 => ~StartFlag /\ ~rerun_test /\ window_num = 1 /\ window_end' = window_end
      BY <2>1
    <3>. QED
      BY <1>1, <1>2, <2>7, <3>1 DEF InPhase, FirstWindow, Anew
  <2>12. Progress(l)'
    <3>1. CASE StartFlag
      <4>1. tested' = {} /\ test_stage' = 0
        BY <3>1, <2>1
      <4>2. ASSUME ~Mistyped, NEW d \in Enabled, NEW s \in Nat, NEW w \in Nat
            PROVE  ~Due(l, d, s, w)'
        <5>1. ~(InTurn' /\ d < master_cpu')
          BY <4>2, <3>1, <2>9, <1>1, CoresCounted DEF InTurn, Rotates
        <5>2. Covered(l, d)' = 0
          BY <1>2, <2>1, <2>2, <3>1 DEF Covered
        <5>. QED BY <4>1, <4>2, <5>1, <5>2 DEF Due
      <4>3. \A d \in Enabled, s \in 0 .. Stages[test_num'] - 1, w \in Window :
              ~Mistyped => ~Due(l, d, s, w)'
        BY <4>2 DEF Window
      <4>. QED BY <4>1, <4>3, <1>1, <1>2, <1>8 DEF Progress
    <3>2. CASE ~StartFlag
      <4>1. \A d \in Enabled : Covered(l, d)' = Covered(l, d)
        BY <1>2, <2>1, <2>2, <3>2 DEF Covered
      <4>2. UNCHANGED <<test_num, test_num_index, test_stage, bail, tested, TestWindows,
                                  Testers, InTurn, Parallel>>
        BY <2>7, <3>2
      <4>3. \A d \in Enabled : \A s, w : Due(l, d, s, w)' = Due(l, d, s, w)
        BY <4>1, <4>2, <1>1 DEF Due
      <4>4. \A t \in tested : t[1] \in Enabled
        BY DEF TypeOK
      <4>. QED BY <3>2, <4>2, <4>3, <4>4, <1>1, <1>2, <1>7, <1>8 DEF InPhase, Progress, Anew
    <3>. QED BY <3>1, <3>2
  <2>. QED
    BY <1>4, <1>5, <2>4, <2>6, <2>8, <2>10, <2>11, <2>12 DEF InPhase
<1>. QED BY <1>9, <1>10

\* The code behind the second barrier of main.
LEMMA ReadyKeeps ==
  ASSUME TypeOK, NEW l \in Phases, InPhase(l), NEW c \in Enabled, Ready(c)
  PROVE  TypeOK' /\ InPhase(l)'
<1>1. UNCHANGED <<image, start_run, start_pass, start_test, rerun_test, dummy_run, pass_num,
                  test_num_index, test_num, test_stage, master_cpu, window_num, window_end,
                  mapped, bail, restart, config, errors, behind, inputs, tested>>
  BY DEF Ready, flags, position, windows, input
<1>2. l = "ready" /\ at[c] = "ready" /\ ~waiting[c]
  BY SamePhase DEF Ready, InPhase, At
<1>3. WaitAt(c, Onward(l)) /\ Onward(l)' = Onward(l) /\ Onward(l) \in Label
  BY <1>1, <1>2 DEF Ready, Onward, Label
<1>4. /\ Together(l)' /\ at' \in [Enabled -> Label] /\ waiting' \in [Enabled -> BOOLEAN]
      /\ at'[c] = Onward(l) /\ waiting'[c]
      /\ \A d \in Enabled : d # c => at'[d] = at[d] /\ waiting'[d] = waiting[d]
  BY <1>3, GoesOn DEF InPhase
<1>5. /\ 0 \in Enabled /\ master_cpu \in Enabled
      /\ Cardinality(Enabled) \in Nat /\ Cardinality(Enabled) >= 1
  BY Typed, CoresCounted
<1>6. Parallel \in BOOLEAN /\ Parallel' = Parallel
  BY <1>1 DEF Parallel
<1>7. TypeOK' /\ Roles(l)'
  <2>1. CASE test_num \in config.enabled
    <3>1. /\ i_am_master' = [i_am_master EXCEPT ![c] = (c = master_cpu)]
          /\ i_am_active' = [i_am_active EXCEPT ![c] = (c = master_cpu \/ Parallel)]
          /\ num_active_cpus' = IF c # master_cpu THEN num_active_cpus
                                ELSE IF Parallel THEN Cardinality(Enabled) ELSE 1
      BY <2>1 DEF Ready, Parallel, num_enabled_cpus
    <3>2. /\ i_am_master' \in [Enabled -> BOOLEAN] /\ i_am_active' \in [Enabled -> BOOLEAN]
          /\ num_active_cpus' \in 0 .. Cardinality(Enabled)
      BY <3>1, <1>5 DEF TypeOK
    <3>3. ASSUME NEW d \in Enabled, d # c, at'[d] = "win"
          PROVE  /\ i_am_master'[d] = (d = master_cpu)
                 /\ i_am_active'[d] = (d = master_cpu \/ Parallel)
                 /\ d = master_cpu => num_active_cpus' = IF Parallel THEN Cardinality(Enabled) ELSE 1
      BY <3>1, <3>3, <1>2, <1>4 DEF InPhase, Roles, TypeOK
    <3>4. /\ i_am_master'[c] = (c = master_cpu)
          /\ i_am_active'[c] = (c = master_cpu \/ Parallel)
          /\ c = master_cpu => num_active_cpus' = IF Parallel THEN Cardinality(Enabled) ELSE 1
      BY <3>1 DEF TypeOK
    <3>5. Roles(l)'
      BY <3>3, <3>4, <1>1, <1>2, <1>6 DEF Roles
    <3>. QED BY <3>2, <3>5, <1>1, <1>4 DEF TypeOK
  <2>2. CASE test_num \notin config.enabled
    <3>1. UNCHANGED <<i_am_master, i_am_active, num_active_cpus>>
      BY <2>2 DEF Ready, locals
    <3>2. at'[c] # "win"
      BY <1>2, <1>4, <2>2 DEF Onward
    <3>3. Roles(l)'
      BY <3>1, <3>2, <1>1, <1>2, <1>4, <1>6 DEF InPhase, Roles
    <3>. QED BY <3>1, <3>3, <1>1, <1>4 DEF TypeOK
  <2>. QED BY <2>1, <2>2
<1>8. Images(l)' /\ Windows(l)'
  BY <1>1, <1>2 DEF InPhase, Images, Windows, Moving, Between
<1>9. Decisions(l)' /\ Masters'
  BY <1>1, <1>2 DEF InPhase, Decisions, Masters, Moving, Anew, StartFlag, Mistyped, TestSequence,
                    InTurn, Rotates
<1>10. FirstWindow(l)'
  BY <1>1, <1>2 DEF InPhase, FirstWindow, Anew, TestWindows
<1>11. at[0] # "stopped"
  BY <1>2, <1>5 DEF InPhase, Together, Onward
<1>12. Progress(l)'
  BY <1>1, <1>2, <1>11 DEF InPhase, Progress, Anew, Mistyped, Due, Covered, Testers, TestWindows,
                           InTurn, Rotates, Parallel
<1>. QED
  BY <1>4, <1>7, <1>8, <1>9, <1>10, <1>12 DEF InPhase

\* The head of the loop of test_all_windows.
LEMMA WinKeeps ==
  ASSUME TypeOK, NEW l \in Phases, InPhase(l), NEW c \in Enabled, Win(c)
  PROVE  TypeOK' /\ InPhase(l)'
<1>1. UNCHANGED <<image, i_am_master, i_am_active, start_run, start_pass, start_test, rerun_test,
                  dummy_run, pass_num, test_num_index, test_num, test_stage, master_cpu,
                  window_end, mapped, bail, restart, config, errors, num_active_cpus, behind,
                  inputs, tested>>
  BY DEF Win, locals, flags, position, input
<1>2. l = "win" /\ at[c] = "win" /\ ~waiting[c]
  BY SamePhase DEF Win, InPhase, At
<1>3. WaitAt(c, Onward(l)) /\ Onward(l)' = Onward(l) /\ Onward(l) \in Label
  BY <1>1, <1>2 DEF Win, Onward, Label
<1>4. /\ Together(l)' /\ at' \in [Enabled -> Label] /\ waiting' \in [Enabled -> BOOLEAN]
      /\ at'[c] = Onward(l) /\ waiting'[c]
      /\ \A d \in Enabled : d # c => at'[d] = at[d] /\ waiting'[d] = waiting[d]
  BY <1>3, GoesOn DEF InPhase
<1>5. /\ 0 \in Enabled /\ master_cpu \in Enabled /\ NumWindows \in Nat \ {0}
      /\ window_num \in Nat /\ window_end \in Nat
  BY Typed
<1>6. Between /\ i_am_master[c] = (c = master_cpu)
  BY <1>2 DEF InPhase, Windows, Roles
<1>7. \/ window_num' = window_num
      \/ /\ ~bail /\ c = master_cpu /\ window_num = 0 /\ window_num' = 1
         /\ Stages[test_num] > 1 \/ config.above
  BY <1>6 DEF Win
<1>8. TypeOK'
  <2>1. window_num' \in 0 .. NumWindows + 1
    BY <1>5, <1>7 DEF TypeOK
  <2>. QED BY <2>1, <1>1, <1>4 DEF TypeOK
<1>9. Images(l)' /\ Roles(l)'
  BY <1>1, <1>2 DEF InPhase, Images, Roles, Moving, Parallel
<1>10. Windows(l)'
  BY <1>1, <1>2, <1>5, <1>6, <1>7 DEF Windows, Moving, Between
<1>11. Decisions(l)' /\ Masters'
  BY <1>1, <1>2 DEF InPhase, Decisions, Masters, Moving, Anew, StartFlag, Mistyped, TestSequence,
                    InTurn, Rotates
<1>12. FirstWindow(l)'
  <2> SUFFICES ASSUME ~bail, test_num \in config.enabled PROVE FirstWindow(l)'
    BY <1>1 DEF FirstWindow
  <2>1. Stages[test_num] \in Nat \ {0} /\ config.above \in BOOLEAN
    BY ConfigHolds, TestAssumption DEF TypeOK
  <2>2. ~Anew(l) /\ ~Anew(l)' /\ ~rerun_test /\ TestWindows' = TestWindows
    BY <1>1, <1>2 DEF Anew, InPhase, Decisions, TestWindows
  <2>3. window_num' = 1 /\ window_end = 0 => 0 \notin TestWindows
    BY <1>2, <1>7, <2>1, <2>2 DEF InPhase, FirstWindow, TestWindows
  <2>4. at'[master_cpu] = "adj" /\ window_num' = 0 => Stages[test_num] = 1 /\ ~config.above
    <3>1. CASE c = master_cpu
      <4>1. i_am_master[c]
        BY <3>1, <1>6
      <4>2. window_num' = IF window_num = 0 /\ (Stages[test_num] > 1 \/ config.above)
                          THEN 1 ELSE window_num
        BY <4>1 DEF Win
      <4>. QED BY <4>2, <2>1, <1>5
    <3>2. CASE c # master_cpu
      BY <3>2, <1>2, <1>4, <1>5, <1>7 DEF InPhase, FirstWindow
    <3>. QED BY <3>1, <3>2
  <2>. QED BY <2>2, <2>3, <2>4, <1>1, <1>2 DEF FirstWindow
<1>13. at[0] # "stopped"
  BY <1>2, <1>5 DEF InPhase, Together, Onward
<1>14. Progress(l)'
  BY <1>1, <1>2, <1>13 DEF InPhase, Progress, Anew, Mistyped, Due, Covered, Testers, TestWindows,
                           InTurn, Rotates, Parallel
<1>. QED
  BY <1>4, <1>8, <1>9, <1>10, <1>11, <1>12, <1>14 DEF InPhase

\* The relocation, or the next window.
LEMMA AdjKeeps ==
  ASSUME TypeOK, NEW l \in Phases, InPhase(l), NEW c \in Enabled, Adj(c)
  PROVE  TypeOK' /\ InPhase(l)'
<1>1. UNCHANGED <<image, i_am_master, i_am_active, start_run, start_pass, start_test, rerun_test,
                  dummy_run, pass_num, test_num_index, test_num, test_stage, master_cpu,
                  window_num, bail, restart, config, errors, num_active_cpus, behind,
                  inputs, tested>>
  BY DEF Adj, locals, flags, position, input
<1>2. l = "adj" /\ at[c] = "adj" /\ ~waiting[c]
  BY SamePhase DEF Adj, InPhase, At
<1>3. /\ 0 \in Enabled /\ master_cpu \in Enabled /\ NumWindows \in Nat \ {0}
      /\ window_num \in Nat /\ window_end \in Nat
  BY Typed
<1>4. image[c] = image[0]
  BY <1>2, <1>3 DEF InPhase, Images, Moving
<1>5. WaitAt(c, Onward(l)) /\ Onward(l)' = Onward(l) /\ Onward(l) \in Label
  BY <1>1, <1>2, <1>4 DEF Adj, Onward, Label, LoadAddr
<1>6. /\ Together(l)' /\ at' \in [Enabled -> Label] /\ waiting' \in [Enabled -> BOOLEAN]
      /\ at'[c] = Onward(l) /\ waiting'[c]
      /\ \A d \in Enabled : d # c => at'[d] = at[d] /\ waiting'[d] = waiting[d]
  BY <1>5, GoesOn DEF InPhase
<1>7. i_am_master[c] = (c = master_cpu)
  BY <1>2 DEF InPhase, Roles
<1>8. CASE c = master_cpu /\ Onward(l) = "map"
  <2>1. Between
    BY <1>2, <1>8 DEF InPhase, Windows
  <2>2. /\ window_end' = CASE window_num = 0 -> 1 [] window_num = 1 -> 2 [] OTHER -> window_end + 1
        /\ mapped' = SetupVmMap(window_end')
    <3>1. i_am_master[c] /\ (dummy_run \/ image[c] = LoadAddr)
      BY <1>2, <1>4, <1>7, <1>8 DEF Onward
    <3>. QED BY <3>1 DEF Adj
  <2>3. window_end' \in Nat /\ window_num + 1 = window_end' /\ window_end' <= NumWindows + 1
    BY <2>1, <2>2, <1>3 DEF Between
  <2>4. TypeOK'
    <3>1. mapped' \in BOOLEAN
      BY <2>2 DEF SetupVmMap
    <3>. QED BY <3>1, <2>3, <1>1, <1>6, <1>3 DEF TypeOK
  <2>5. at'[master_cpu] = "map" /\ at[master_cpu] = "adj"
    BY <1>2, <1>6, <1>8
  <2>6. Images(l)' /\ Roles(l)'
    BY <1>1, <1>2 DEF InPhase, Images, Roles, Moving, Parallel
  <2>7. Windows(l)'
    <3>1. SetupVmMap(window_end)' = SetupVmMap(window_end')
      BY <1>1 DEF SetupVmMap
    <3>. QED BY <3>1, <1>1, <1>2, <2>2, <2>3, <2>5 DEF Windows, Found, Moving
  <2>8. Decisions(l)' /\ Masters'
    BY <1>1, <1>2 DEF InPhase, Decisions, Masters, Moving, Anew, StartFlag, Mistyped, TestSequence,
                      InTurn, Rotates
  <2>9. FirstWindow(l)'
    BY <1>1, <1>2, <1>3, <2>3 DEF InPhase, FirstWindow
  <2>10. Progress(l)'
    <3>1. /\ Testers' = Testers /\ TestWindows' = TestWindows /\ InTurn' = InTurn
          /\ Parallel' = Parallel /\ Mistyped' = Mistyped
      BY <1>1 DEF Testers, TestWindows, InTurn, Rotates, Parallel, Mistyped
    <3>2. ASSUME ~bail, test_num \in config.enabled, NEW d \in Enabled, NEW w \in TestWindows
          PROVE  (w < Covered(l, d)) <=> (w < Covered(l, d)')
      <4>1. window_num = 1 /\ window_end = 0 => w # 0
        BY <1>2, <3>2 DEF InPhase, FirstWindow, Anew, Decisions, Moving
      <4>2. w \in Nat
        BY WindowAssumption DEF TestWindows, Window
      <4>3. Covered(l, d) = window_end /\ Covered(l, d)' = window_end' - 1
        BY <1>1, <1>2, <2>5 DEF Covered
      <4>4. w < window_end <=> w < window_num
        BY <4>1, <4>2, <2>1, <1>3 DEF Between
      <4>5. window_end' - 1 = window_num
        <5>1. \A a, b \in Nat : a + 1 = b => b - 1 = a
          OBVIOUS
        <5>. QED BY <5>1, <2>3, <1>3
      <4>. QED BY <4>3, <4>4, <4>5
    <3>3. ASSUME ~bail, test_num \in config.enabled, NEW d \in Enabled, NEW s, NEW w
          PROVE  Due(l, d, s, w) <=> Due(l, d, s, w)'
      BY <3>1, <3>2, <3>3, <1>1 DEF Due
    <3>4. \A t \in tested : t[1] \in Enabled
      BY DEF TypeOK
    <3>5. at[0] # "stopped" /\ ~Anew(l)
      BY <1>2, <1>3 DEF InPhase, Together, Onward, LoadAddr, Anew
    <3>. QED BY <3>1, <3>3, <3>4, <3>5, <1>1, <1>2 DEF InPhase, Progress
  <2>. QED
    BY <1>6, <2>4, <2>6, <2>7, <2>8, <2>9, <2>10 DEF InPhase
<1>9. CASE ~(c = master_cpu /\ Onward(l) = "map")
  <2>1. UNCHANGED <<window_end, mapped>>
    BY <1>2, <1>4, <1>7, <1>9 DEF Adj, Onward
  <2>2. (at'[master_cpu] = "map") = (at[master_cpu] = "map")
    BY <1>2, <1>3, <1>6, <1>9
  <2>3. TypeOK'
    BY <2>1, <1>1, <1>6 DEF TypeOK
  <2>4. Images(l)' /\ Roles(l)'
    BY <1>1, <1>2 DEF InPhase, Images, Roles, Moving, Parallel
  <2>5. Windows(l)'
    <3>1. SetupVmMap(window_end)' = SetupVmMap(window_end)
      BY <1>1, <2>1 DEF SetupVmMap
    <3>. QED BY <3>1, <1>1, <1>2, <2>1, <2>2 DEF InPhase, Windows, Found, Between, Moving
  <2>6. Decisions(l)' /\ Masters'
    BY <1>1, <1>2 DEF InPhase, Decisions, Masters, Moving, Anew, StartFlag, Mistyped, TestSequence,
                      InTurn, Rotates
  <2>7. FirstWindow(l)'
    BY <1>1, <1>2, <2>1 DEF InPhase, FirstWindow, Anew, StartFlag, TestWindows
  <2>8. at[0] # "stopped"
    BY <1>2, <1>3 DEF InPhase, Together, Onward, LoadAddr
  <2>9. Progress(l)'
    BY <1>1, <1>2, <2>1, <2>2, <2>8 DEF InPhase, Progress, Anew, Mistyped, Due, Covered, Testers,
                        TestWindows, InTurn, Rotates, Parallel
  <2>. QED
    BY <1>6, <2>3, <2>4, <2>5, <2>6, <2>7, <2>9 DEF InPhase
<1>. QED BY <1>8, <1>9

\* The jump into the copy of the program.
LEMMA JumpKeeps ==
  ASSUME TypeOK, NEW l \in Phases, InPhase(l), NEW c \in Enabled, Jump(c)
  PROVE  TypeOK' /\ InPhase(l)' /\ test_num' = test_num /\ l \in Moving
<1>1. UNCHANGED <<i_am_master, i_am_active, start_run, start_pass, start_test, rerun_test,
                  dummy_run, pass_num, test_num_index, test_stage, master_cpu,
                  window_num, window_end, mapped, bail, restart, config, errors, num_active_cpus,
                  behind, inputs, tested>>
  BY DEF Jump, locals, flags, windows, input
<1>2. l \in Moving /\ at[c] = l /\ ~waiting[c]
  BY SamePhase DEF Jump, InPhase, At, Moving
<1>3. test_num' = test_num
  BY <1>2 DEF Jump, InPhase, Decisions, Moving
<1>4. WaitAt(c, Onward(l)) /\ Onward(l)' = Onward(l) /\ Onward(l) \in Label
  BY <1>2 DEF Jump, Onward, Label, Moving
<1>5. /\ Together(l)' /\ at' \in [Enabled -> Label] /\ waiting' \in [Enabled -> BOOLEAN]
      /\ at'[c] = Onward(l) /\ waiting'[c]
      /\ \A d \in Enabled : d # c => at'[d] = at[d] /\ waiting'[d] = waiting[d]
  BY <1>4, GoesOn DEF InPhase
<1>6. image' = [image EXCEPT ![c] = IF l = "to_low" THEN "low" ELSE "high"]
  BY <1>2 DEF Jump
<1>7. TypeOK'
  <2>1. image' \in [Enabled -> Image]
    BY <1>6 DEF TypeOK, Image
  <2>. QED BY <2>1, <1>1, <1>3, <1>5 DEF TypeOK
<1>8. Images(l)'
  BY <1>1, <1>2, <1>5, <1>6 DEF InPhase, Images, TypeOK, Moving
<1>9. Roles(l)' /\ Windows(l)'
  BY <1>1, <1>2 DEF InPhase, Roles, Windows, Moving, Between
<1>10. Decisions(l)' /\ Masters'
  BY <1>1, <1>2, <1>3 DEF InPhase, Decisions, Masters, Moving, Anew, StartFlag, Mistyped,
                    TestSequence, InTurn, Rotates
<1>11. FirstWindow(l)'
  BY <1>1, <1>2, <1>3 DEF InPhase, FirstWindow, Anew, StartFlag, TestWindows, Moving
<1>12. at[0] # "stopped"
  BY <1>2, CpuAssumption DEF InPhase, Together, Onward, Moving
<1>13. Progress(l)'
  BY <1>1, <1>2, <1>3, <1>12 DEF InPhase, Progress, Anew, Mistyped, Due, Covered, Testers,
                        TestWindows, InTurn, Rotates, Parallel, Moving
<1>. QED
  BY <1>2, <1>3, <1>5, <1>7, <1>8, <1>9, <1>10, <1>11, <1>13 DEF InPhase

\* A core comes to the end of the loop's body: what it leaves alone.
LEMMA MapKeeps ==
  ASSUME TypeOK, NEW l \in Phases, InPhase(l), NEW c \in Enabled, At(c, "map"),
         WaitAt(c, Again),
         UNCHANGED <<image, i_am_master, i_am_active, start_run, start_test, rerun_test,
                     dummy_run, test_num_index, test_num, test_stage, master_cpu,
                     window_end, mapped, num_active_cpus, behind>>,
         \/ UNCHANGED <<bail, restart, config, start_pass, pass_num, inputs>>
         \/ \E k \in Keys : /\ Pressed(k) /\ restart' = k.restart
                            /\ start_pass' = k.start_pass /\ pass_num' = k.pass_num,
         window_num' = IF c = master_cpu /\ ~(mapped /\ ~dummy_run /\ window_end - 1 >= MapLimit)
                       THEN window_num + 1 ELSE window_num,
         c = master_cpu /\ mapped /\ ~dummy_run /\ window_end - 1 >= MapLimit
           => window_end >= NumWindows,
         errors' \in BOOLEAN, tested' \in SUBSET (Enabled \X Nat \X Window)
  PROVE  /\ TypeOK' /\ l = "map" /\ ~waiting[c] /\ waiting'[c]
         /\ \A d \in Enabled : d # c => waiting'[d] = waiting[d]
         /\ Together(l)' /\ Images(l)' /\ Roles(l)' /\ Windows(l)' /\ Decisions(l)' /\ Masters'
         /\ FirstWindow(l)'
         /\ bail => bail'
         /\ restart => restart'
         /\ ~restart' => config' = config
         /\ restart' => bail'
         /\ Mistyped => Mistyped'
<1>1. l = "map" /\ at[c] = "map" /\ ~waiting[c]
  BY SamePhase DEF InPhase, At
<1>2. /\ 0 \in Enabled /\ master_cpu \in Enabled /\ NumWindows \in Nat \ {0}
      /\ window_num \in Nat /\ window_end \in Nat
      /\ test_stage \in Nat /\ test_num \in Nat /\ test_num_index \in Nat
  BY Typed
<1>3. WaitAt(c, Onward(l)) /\ Onward(l)' = Onward(l) /\ Onward(l) \in Label
  BY <1>1 DEF Onward, Label, Again
<1>4. /\ Together(l)' /\ at' \in [Enabled -> Label] /\ waiting' \in [Enabled -> BOOLEAN]
      /\ at'[c] = Onward(l) /\ waiting'[c]
      /\ \A d \in Enabled : d # c => at'[d] = at[d] /\ waiting'[d] = waiting[d]
  BY <1>3, GoesOn DEF InPhase
<1>5. /\ bail' \in BOOLEAN /\ restart' \in BOOLEAN /\ config' \in Configs
      /\ start_pass' \in BOOLEAN /\ pass_num' \in Nat /\ inputs' \in Seq(Key)
      /\ bail => bail'
      /\ restart => restart'
      /\ ~restart' => config' = config
      /\ Mistyped => Mistyped'
      /\ start_pass' /\ ~restart' => start_pass \/ Mistyped'
      /\ restart' => restart \/ bail'
  <2>1. CASE UNCHANGED <<bail, restart, config, start_pass, pass_num, inputs>>
    BY <2>1 DEF TypeOK, Mistyped, Key
  <2>2. CASE \E k \in Keys : /\ Pressed(k) /\ restart' = k.restart
                             /\ start_pass' = k.start_pass /\ pass_num' = k.pass_num
    <3>1. PICK k \in Keys : /\ Pressed(k) /\ restart' = k.restart
                            /\ start_pass' = k.start_pass /\ pass_num' = k.pass_num
      BY <2>2
    <3>2. /\ bail' = k.bail /\ config' = k.config /\ inputs' = k.inputs
          /\ Mistyped' = Holds(k.inputs)
      BY <3>1 DEF Pressed, Mistyped, Holds
    <3>. QED BY <3>1, <3>2, KeyEffects
  <2>. QED BY <2>1, <2>2
<1>6. restart' => bail'
  BY <1>5 DEF InPhase, Decisions
<1>7. /\ window_end \in 1 .. NumWindows + 1
      /\ ~waiting[master_cpu] => window_num + 1 = window_end
      /\ waiting[master_cpu] => \/ window_num = window_end
                                \/ window_num + 1 = window_end /\ window_end >= NumWindows
      /\ mapped => window_end - 1 \in Populated
      /\ ~restart => mapped = SetupVmMap(window_end)
  BY <1>1 DEF InPhase, Windows, Found
<1>8. window_num' \in 0 .. NumWindows + 1
  BY <1>1, <1>2, <1>7 DEF TypeOK
<1>9. TypeOK'
  BY <1>8, <1>4, <1>5 DEF TypeOK, Key
<1>10. Images(l)'
  BY <1>1 DEF InPhase, Images, Moving
<1>11. Roles(l)'
  <2>1. ~restart' => Parallel' = Parallel
    BY <1>5 DEF Parallel
  <2>. QED BY <2>1, <1>1, <1>5 DEF InPhase, Roles
<1>12. Windows(l)'
  <2>1. IF ~waiting'[master_cpu] THEN window_num' + 1 = window_end
        ELSE \/ window_num' = window_end
             \/ window_num' + 1 = window_end /\ window_end >= NumWindows
    <3>1. CASE c = master_cpu
      BY <3>1, <1>1, <1>2, <1>4, <1>7
    <3>2. CASE c # master_cpu
      BY <3>2, <1>2, <1>4, <1>7
    <3>. QED BY <3>1, <3>2
  <2>2. ~restart' => mapped = SetupVmMap(window_end)'
    BY <1>5, <1>7 DEF SetupVmMap
  <2>. QED BY <2>1, <2>2, <1>1, <1>2, <1>7 DEF Windows, Found, Moving
<1>13. Decisions(l)'
  <2>1. ~restart' => test_num = TestSequence(test_num_index)'
    BY <1>1, <1>5 DEF InPhase, Decisions, TestSequence
  <2>2. start_pass' => Mistyped' \/ restart'
    BY <1>1, <1>5 DEF InPhase, Decisions
  <2>3. restart' \/ test_num \in config'.enabled
    BY <1>1, <1>5 DEF InPhase, Decisions
  <2>4. ~restart' => test_stage < Stages[test_num]
    BY <2>3, <1>1, <1>5 DEF InPhase, Decisions, Anew
  <2>5. ~start_run /\ ~start_test /\ ~rerun_test
    BY <1>1 DEF InPhase, Decisions
  <2>. QED BY <2>1, <2>2, <2>3, <2>4, <2>5, <1>1, <1>6 DEF Decisions, Moving
<1>14. Masters'
  <2> SUFFICES ASSUME ~Mistyped', ~restart'
               PROVE  \/ config.cpu_mode = "ONE" \/ master_cpu = 0
                      \/ InTurn /\ ~StartFlag'
    BY <1>5 DEF Masters, InTurn, Rotates
  <2>1. ~Mistyped /\ ~restart /\ (start_pass' => start_pass)
    BY <1>5
  <2>. QED BY <2>1 DEF InPhase, Masters, StartFlag
<1>15. FirstWindow(l)'
  <2>1. ~bail' => ~bail /\ ~restart' /\ config' = config
    BY <1>5, <1>6
  <2>. QED BY <2>1, <1>1, <1>7 DEF InPhase, FirstWindow
<1>. QED
  BY <1>1, <1>4, <1>5, <1>6, <1>9, <1>10, <1>11, <1>12, <1>13, <1>14, <1>15

\* A core that is done with the window without having tested it.
LEMMA PassedKeeps ==
  ASSUME TypeOK, InPhase("map"), NEW c \in Enabled, ~waiting[c], waiting'[c],
         \A d \in Enabled : d # c => waiting'[d] = waiting[d],
         at[0] # "stopped",
         UNCHANGED <<i_am_active, dummy_run, test_num, test_stage, master_cpu, window_end,
                     bail, config, inputs, tested>>,
         ~bail /\ ~dummy_run /\ (c = master_cpu \/ Parallel) => window_end - 1 \notin TestWindows
  PROVE  Progress("map")'
<1>1. /\ master_cpu \in Enabled /\ window_end \in Nat
      /\ test_stage \in Nat /\ test_num \in Nat
  BY Typed
<1>2. /\ Testers' = Testers /\ TestWindows' = TestWindows /\ InTurn' = InTurn
      /\ Parallel' = Parallel /\ Mistyped' = Mistyped
  BY DEF Testers, TestWindows, InTurn, Rotates, Parallel, Mistyped
<1>3. ASSUME ~bail, ~dummy_run, NEW d \in Enabled, NEW s, NEW w
      PROVE  Due("map", d, s, w) <=> Due("map", d, s, w)'
  <2>1. CASE d # c
    <3>1. Covered("map", d)' = Covered("map", d)
      BY <2>1 DEF Covered
    <3>. QED BY <3>1, <1>2 DEF Due
  <2>2. CASE d = c
    <3>1. Covered("map", d) = window_end - 1 /\ Covered("map", d)' = window_end
      BY <2>2 DEF Covered
    <3>2. d = master_cpu \/ Parallel =>
            \A x \in TestWindows : x < window_end - 1 <=> x < window_end
      <4> SUFFICES ASSUME d = master_cpu \/ Parallel, NEW x \in TestWindows
                   PROVE  x < window_end - 1 <=> x < window_end
        OBVIOUS
      <4>1. x # window_end - 1
        BY <1>3, <2>2
      <4>2. x \in Nat
        BY WindowAssumption DEF TestWindows, Window
      <4>. QED BY <4>1, <4>2, <1>1
    <3>. QED BY <3>1, <3>2, <1>2 DEF Due
  <2>. QED BY <2>1, <2>2
<1>4. \A t \in tested : t[1] \in Enabled
  BY DEF TypeOK
<1>5. ~Anew("map") /\ ~Anew("map")'
  BY DEF Anew
<1>6. ~bail /\ ~dummy_run /\ test_num \in config.enabled =>
        /\ \A t \in tested : Due("map", t[1], t[2], t[3])
        /\ ~Mistyped => \A d \in Enabled, s \in 0 .. Stages[test_num] - 1, w \in Window :
                         Due("map", d, s, w) => <<d, s, w>> \in tested
  BY <1>5 DEF InPhase, Progress
<1>7. ~bail /\ ~dummy_run /\ test_num \in config.enabled =>
        /\ \A t \in tested : Due("map", t[1], t[2], t[3])'
        /\ ~Mistyped => \A d \in Enabled, s \in 0 .. Stages[test_num] - 1, w \in Window :
                         Due("map", d, s, w)' => <<d, s, w>> \in tested
  BY <1>3, <1>4, <1>6
<1>8. ~dummy_run => \A t \in tested : i_am_active[t[1]] /\ ~waiting'[t[1]] =>
                                        t[2] # test_stage \/ t[3] < window_end - 1
  BY <1>4 DEF InPhase, Progress
<1>. QED BY <1>2, <1>7, <1>8 DEF Progress

\* A core that has no part in the test, or nothing to test.
LEMMA SkipKeeps ==
  ASSUME TypeOK, NEW l \in Phases, InPhase(l), NEW c \in Enabled, Skip(c)
  PROVE  TypeOK' /\ InPhase(l)'
<1>1. /\ At(c, "map") /\ WaitAt(c, Again)
      /\ UNCHANGED <<image, i_am_master, i_am_active, start_run, start_pass, start_test, rerun_test,
                     dummy_run, pass_num, test_num_index, test_num, test_stage, master_cpu,
                     window_end, mapped, bail, restart, config, errors, num_active_cpus, behind,
                     inputs, tested>>
  BY DEF Skip, locals, flags, position, input
<1>2. l = "map" /\ master_cpu \in Enabled /\ 0 \in Enabled
  BY <1>1, SamePhase, Typed DEF InPhase
<1>3. i_am_master[c] = (c = master_cpu) /\ (c = master_cpu => i_am_active[c])
  BY <1>2 DEF InPhase, Roles
<1>4. /\ c = master_cpu => ~mapped
      /\ window_num' = IF c = master_cpu THEN window_num + 1 ELSE window_num
  BY <1>3 DEF Skip
<1>5. errors' \in BOOLEAN /\ tested' \in SUBSET (Enabled \X Nat \X Window)
  BY <1>1 DEF TypeOK
<1>6. /\ TypeOK' /\ ~waiting[c] /\ waiting'[c]
      /\ \A d \in Enabled : d # c => waiting'[d] = waiting[d]
      /\ Together(l)' /\ Images(l)' /\ Roles(l)' /\ Windows(l)' /\ Decisions(l)' /\ Masters'
      /\ FirstWindow(l)'
  BY <1>1, <1>4, <1>5, MapKeeps
<1>7. at[0] # "stopped"
  BY <1>2 DEF InPhase, Together, Onward, Again
<1>8. ~bail /\ ~dummy_run /\ (c = master_cpu \/ Parallel) => window_end - 1 \notin TestWindows
  <2> SUFFICES ASSUME ~bail, c = master_cpu \/ Parallel PROVE window_end - 1 \notin TestWindows
    OBVIOUS
  <2>1. ~restart
    BY DEF InPhase, Decisions
  <2>2. i_am_active[c]
    BY <2>1, <1>2 DEF InPhase, Roles
  <2>3. ~SetupVmMap(window_end)
    BY <2>1, <2>2, <1>2 DEF InPhase, Windows, Skip
  <2>4. window_end \in Nat
    BY Typed
  <2>. QED BY <2>3, <2>4 DEF SetupVmMap, TestWindows
<1>9. Progress(l)'
  BY <1>1, <1>2, <1>6, <1>7, <1>8, PassedKeeps
<1>. QED BY <1>6, <1>9 DEF InPhase

\* map_window fails.
LEMMA UnmappedKeeps ==
  ASSUME OnlyLastUnmapped, TypeOK, NEW l \in Phases, InPhase(l), NEW c \in Enabled, Unmapped(c)
  PROVE  TypeOK' /\ InPhase(l)'
<1>1. /\ At(c, "map") /\ WaitAt(c, "done") /\ mapped /\ ~dummy_run /\ window_end - 1 >= MapLimit
      /\ UNCHANGED <<image, i_am_master, i_am_active, start_run, start_pass, start_test, rerun_test,
                     dummy_run, pass_num, test_num_index, test_num, test_stage, master_cpu,
                     window_num, window_end, mapped, bail, restart, config, errors,
                     num_active_cpus, behind, inputs, tested>>
  BY DEF Unmapped, locals, globals, flags, position, windows
<1>2. l = "map" /\ master_cpu \in Enabled /\ 0 \in Enabled /\ window_end \in Nat
      /\ NumWindows \in Nat
  BY <1>1, SamePhase, Typed DEF InPhase
<1>3. window_end = NumWindows
  <2>1. window_end - 1 \in Populated
    BY <1>1, <1>2 DEF InPhase, Windows
  <2>. QED BY <2>1, <1>1, <1>2 DEF OnlyLastUnmapped
<1>4. Again = "done"
  BY <1>2, <1>3 DEF Again
<1>5. errors' \in BOOLEAN /\ tested' \in SUBSET (Enabled \X Nat \X Window)
  BY <1>1 DEF TypeOK
<1>6. /\ TypeOK' /\ ~waiting[c] /\ waiting'[c]
      /\ \A d \in Enabled : d # c => waiting'[d] = waiting[d]
      /\ Together(l)' /\ Images(l)' /\ Roles(l)' /\ Windows(l)' /\ Decisions(l)' /\ Masters'
      /\ FirstWindow(l)'
  <2>1. NumWindows >= NumWindows
    BY <1>2
  <2>. QED BY <1>1, <1>3, <1>4, <1>5, <2>1, MapKeeps
<1>7. at[0] # "stopped"
  BY <1>2 DEF InPhase, Together, Onward, Again
<1>8. window_end - 1 \notin TestWindows
  BY <1>1, <1>2, WindowAssumption DEF TestWindows
<1>9. Progress(l)'
  BY <1>1, <1>2, <1>6, <1>7, <1>8, PassedKeeps
<1>. QED BY <1>6, <1>9 DEF InPhase

\* run_test.
LEMMA RunTestKeeps ==
  ASSUME TypeOK, NEW l \in Phases, InPhase(l), NEW c \in Enabled, RunTest(c)
  PROVE  TypeOK' /\ InPhase(l)'
<1>1. /\ At(c, "map") /\ WaitAt(c, Again) /\ i_am_active[c] /\ mapped
      /\ dummy_run \/ window_end - 1 < MapLimit
      /\ UNCHANGED <<image, i_am_master, i_am_active, start_run, start_test, rerun_test,
                     dummy_run, test_num_index, test_num, test_stage, master_cpu,
                     window_end, mapped, num_active_cpus, behind>>
  BY DEF RunTest, locals
<1>2. /\ l = "map" /\ master_cpu \in Enabled /\ 0 \in Enabled /\ window_end \in Nat
      /\ test_stage \in Nat /\ MapLimit \in Nat
  BY <1>1, SamePhase, Typed, WindowAssumption DEF InPhase
<1>3. i_am_master[c] = (c = master_cpu)
  BY <1>2 DEF InPhase, Roles
<1>4. window_end - 1 \in Populated /\ window_end - 1 \in Window
  BY <1>1, <1>2, WindowAssumption DEF InPhase, Windows
<1>5. \/ UNCHANGED <<bail, restart, config, start_pass, pass_num, inputs>>
      \/ \E k \in Keys : /\ Pressed(k) /\ restart' = k.restart
                         /\ start_pass' = k.start_pass /\ pass_num' = k.pass_num
  BY DEF RunTest, NoInput, input
<1>6. /\ window_num' = IF c = master_cpu /\ ~(mapped /\ ~dummy_run /\ window_end - 1 >= MapLimit)
                       THEN window_num + 1 ELSE window_num
      /\ tested' = IF dummy_run THEN tested ELSE tested \cup {<<c, test_stage, window_end - 1>>}
  <2>1. ~(mapped /\ ~dummy_run /\ window_end - 1 >= MapLimit)
    BY <1>1, <1>2
  <2>2. window_num' = IF c = master_cpu THEN window_num + 1 ELSE window_num
    BY <1>3 DEF RunTest
  <2>. QED BY <2>1, <2>2 DEF RunTest
<1>7. errors' \in BOOLEAN
  BY DEF RunTest, TypeOK
<1>8. tested' \in SUBSET (Enabled \X Nat \X Window)
  BY <1>2, <1>4, <1>6 DEF TypeOK
<1>9. /\ TypeOK' /\ ~waiting[c] /\ waiting'[c]
      /\ \A d \in Enabled : d # c => waiting'[d] = waiting[d]
      /\ Together(l)' /\ Images(l)' /\ Roles(l)' /\ Windows(l)' /\ Decisions(l)' /\ Masters'
      /\ FirstWindow(l)'
      /\ bail => bail'
      /\ restart => restart'
      /\ ~restart' => config' = config
      /\ restart' => bail'
      /\ Mistyped => Mistyped'
  <2>1. ~(c = master_cpu /\ mapped /\ ~dummy_run /\ window_end - 1 >= MapLimit)
    BY <1>1, <1>2
  <2>. QED BY <1>1, <1>5, <1>6, <1>7, <1>8, <2>1, MapKeeps
<1>10. at[0] # "stopped"
  BY <1>2 DEF InPhase, Together, Onward, Again
<1>11. Progress(l)'
  <2>1. CASE dummy_run
    BY <2>1, <1>1 DEF Progress
  <2>2. CASE ~dummy_run
    <3>1. tested' = tested \cup {<<c, test_stage, window_end - 1>>}
      BY <2>2, <1>6
    <3>2. \A t \in tested : t[1] \in Enabled
      BY DEF TypeOK
    <3>3. \A t \in tested' : i_am_active[t[1]] /\ ~waiting'[t[1]] =>
                               t[2] # test_stage \/ t[3] < window_end - 1
      BY <3>1, <3>2, <2>2, <1>2, <1>9 DEF InPhase, Progress
    <3>4. ASSUME ~bail', test_num \in config'.enabled
          PROVE  /\ \A t \in tested' : Due(l, t[1], t[2], t[3])'
                 /\ ~Mistyped' => \A d \in Enabled, s \in 0 .. Stages[test_num] - 1, w \in Window :
                                    Due(l, d, s, w)' => <<d, s, w>> \in tested'
      <4>1. ~bail /\ ~restart /\ config' = config /\ ~Anew(l)
        BY <3>4, <1>2, <1>9 DEF Anew
      <4>2. /\ Testers' = Testers /\ TestWindows' = TestWindows /\ InTurn' = InTurn
            /\ Parallel' = Parallel
        BY <4>1, <1>1 DEF Testers, TestWindows, InTurn, Rotates, Parallel
      <4>3. \A d \in Enabled : d # c => Covered(l, d)' = Covered(l, d)
        BY <1>1, <1>2, <1>9 DEF Covered
      <4>4. Covered(l, c) = window_end - 1 /\ Covered(l, c)' = window_end
        BY <1>1, <1>2, <1>9 DEF Covered
      <4>5. \A x \in TestWindows : x \in Nat
        BY WindowAssumption DEF TestWindows, Window
      <4>6. c = master_cpu \/ Parallel
        BY <4>1, <1>1, <1>2 DEF InPhase, Roles
      <4>7. Due(l, c, test_stage, window_end - 1)'
        <5>1. c \in Testers
          BY <4>6, Typed DEF Testers, Parallel
        <5>2. test_stage \in 0 .. Stages[test_num] - 1
          <6>1. test_stage < Stages[test_num]
            BY <3>4, <4>1 DEF InPhase, Decisions
          <6>2. Stages[test_num] \in Nat
            BY <3>4, <4>1, ConfigHolds, TestAssumption DEF TypeOK
          <6>. QED BY <6>1, <6>2, <1>2
        <5>3. window_end - 1 \in TestWindows
          <6>1. window_end - 1 = 0 => ~config.above /\ Stages[test_num] = 1
            BY <3>4, <4>1, <1>2 DEF InPhase, FirstWindow
          <6>. QED BY <6>1, <1>1, <1>4, <2>2 DEF TestWindows
        <5>4. window_end - 1 < window_end
          BY <1>2
        <5>. QED BY <5>1, <5>2, <5>3, <5>4, <4>2, <4>4, <4>6, <1>1 DEF Due
      <4>8. ASSUME NEW d \in Enabled, NEW s, NEW w, Due(l, d, s, w) PROVE Due(l, d, s, w)'
        <5>1. w < Covered(l, d) => w < Covered(l, d)'
          BY <4>3, <4>4, <4>5, <4>8, <1>2 DEF Due
        <5>. QED BY <5>1, <4>2, <4>8, <1>1 DEF Due
      <4>9. ASSUME NEW d \in Enabled, NEW s, NEW w, Due(l, d, s, w)'
            PROVE  Due(l, d, s, w) \/ (d = c /\ s = test_stage /\ w = window_end - 1)
        <5>1. w \in Nat
          BY <4>2, <4>5, <4>9 DEF Due
        <5>2. CASE d # c
          BY <5>2, <4>2, <4>3, <4>9, <1>1 DEF Due
        <5>3. CASE d = c
          <6>1. w < window_end => w < window_end - 1 \/ w = window_end - 1
            BY <5>1, <1>2
          <6>. QED BY <5>3, <6>1, <4>2, <4>4, <4>9, <1>1 DEF Due
        <5>. QED BY <5>2, <5>3
      <4>10. /\ \A t \in tested : Due(l, t[1], t[2], t[3])
             /\ ~Mistyped => \A d \in Enabled, s \in 0 .. Stages[test_num] - 1, w \in Window :
                               Due(l, d, s, w) => <<d, s, w>> \in tested
        BY <2>2, <3>4, <4>1, <1>10 DEF InPhase, Progress
      <4>11. \A t \in tested' : Due(l, t[1], t[2], t[3])'
        <5> SUFFICES ASSUME NEW t \in tested' PROVE Due(l, t[1], t[2], t[3])'
          OBVIOUS
        <5>1. CASE t \in tested
          BY <5>1, <3>2, <4>8, <4>10
        <5>2. CASE t = <<c, test_stage, window_end - 1>>
          <6>1. t[1] = c /\ t[2] = test_stage /\ t[3] = window_end - 1
            BY <5>2
          <6>. QED BY <6>1, <4>7, <1>1
        <5>. QED BY <5>1, <5>2, <3>1
      <4>. QED BY <3>1, <4>9, <4>10, <4>11, <1>9
    <3>. QED BY <3>3, <3>4, <1>1, <1>2 DEF Progress
  <2>. QED BY <2>1, <2>2
<1>. QED BY <1>9, <1>11 DEF InPhase

\* check_input after the last pass.
LEMMA StoppedKeeps ==
  ASSUME TypeOK, NEW l \in Phases, InPhase(l), Stopped
  PROVE  TypeOK' /\ InPhase(l)'
<1>1. /\ At(0, "stopped")
      /\ UNCHANGED <<at, waiting, image, i_am_master, i_am_active, start_run, start_test,
                     rerun_test, dummy_run, test_num_index, test_num, test_stage, master_cpu,
                     window_num, window_end, mapped, errors, num_active_cpus, behind, tested>>
  BY DEF Stopped, locals, windows
<1>2. PICK k \in Keys : /\ Pressed(k) /\ restart' = k.restart
                        /\ start_pass' = k.start_pass /\ pass_num' = k.pass_num
  BY DEF Stopped
<1>3. l = "done" /\ ~waiting[0] /\ at[0] = "stopped" /\ 0 \in Enabled
  BY <1>1, CpuAssumption DEF InPhase, Together, At, Phases, Onward, Again, LoadAddr
<1>4. /\ bail' \in BOOLEAN /\ restart' \in BOOLEAN /\ config' \in Configs
      /\ start_pass' \in BOOLEAN /\ pass_num' \in Nat /\ inputs' \in Seq(Key)
      /\ bail => bail'
      /\ restart => restart'
      /\ ~restart' => config' = config
      /\ Mistyped => Mistyped'
      /\ start_pass' /\ ~restart' => start_pass \/ Mistyped'
      /\ start_pass => start_pass'
      /\ restart' => restart \/ bail'
  <2>1. /\ bail' = k.bail /\ config' = k.config /\ inputs' = k.inputs
        /\ Mistyped' = Holds(k.inputs)
    BY <1>2 DEF Pressed, Mistyped, Holds
  <2>. QED BY <1>2, <2>1, KeyEffects
<1>5. TypeOK'
  BY <1>1, <1>4 DEF TypeOK, Key
<1>6. Together(l)' /\ Images(l)' /\ Roles(l)' /\ Windows(l)'
  BY <1>1, <1>3 DEF InPhase, Together, Images, Roles, Windows, Moving, Onward
<1>7. Decisions(l)'
  <2>1. restart' => bail'
    BY <1>4 DEF InPhase, Decisions
  <2>2. restart' \/ start_run \/ test_num = TestSequence(test_num_index)'
    BY <1>1, <1>4 DEF InPhase, Decisions, TestSequence
  <2>3. ~restart' /\ test_num \in config'.enabled /\ ~Anew(l)' => test_stage < Stages[test_num]
    BY <1>1, <1>3, <1>4 DEF InPhase, Decisions, Anew, StartFlag
  <2>. QED BY <2>1, <2>2, <2>3, <1>1, <1>3 DEF Decisions, Moving
<1>8. Masters'
  <2> SUFFICES ASSUME ~Mistyped', ~restart'
               PROVE  \/ config.cpu_mode = "ONE" \/ master_cpu = 0
                      \/ InTurn /\ ~StartFlag'
    BY <1>1, <1>4 DEF Masters, InTurn, Rotates
  <2>1. ~Mistyped /\ ~restart /\ (start_pass' => start_pass)
    BY <1>4
  <2>. QED BY <2>1, <1>1 DEF InPhase, Masters, StartFlag
<1>9. FirstWindow(l)' /\ Progress(l)'
  BY <1>1, <1>3 DEF FirstWindow, Progress
<1>. QED BY <1>5, <1>6, <1>7, <1>8, <1>9 DEF InPhase

\* What CPU 0 knows when it decides how to go on.
LEMMA Deciding ==
  ASSUME TypeOK, NEW l \in Phases, InPhase(l), At(0, "done"), NEW k \in Keys, Pressed(k)
  PROVE  /\ l = "done" /\ ~waiting[0] /\ at[0] = "done" /\ 0 \in Enabled
         /\ ~start_run /\ ~start_test /\ ~rerun_test
         /\ k.start_pass \in BOOLEAN /\ k.pass_num \in Nat
         /\ bail' \in BOOLEAN /\ config' \in Configs /\ inputs' \in Seq(Key)
         /\ bail => bail'
         /\ start_pass => k.start_pass
         /\ ~k.restart => /\ ~restart /\ config' = config
                          /\ ~Mistyped' => ~Mistyped /\ ~start_pass /\ ~k.start_pass
<1>1. l = "done" /\ ~waiting[0] /\ at[0] = "done" /\ 0 \in Enabled
  BY SamePhase, CpuAssumption DEF InPhase, At
<1>2. /\ bail' = k.bail /\ config' = k.config /\ inputs' = k.inputs
      /\ Mistyped' = Holds(k.inputs)
  BY DEF Pressed, Mistyped, Holds
<1>3. ~start_run /\ ~start_test /\ ~rerun_test /\ (start_pass => Mistyped \/ restart)
  BY <1>1 DEF InPhase, Decisions
<1>. QED BY <1>1, <1>2, <1>3, KeyEffects

\* The configuration has been changed.
LEMMA RestartKeeps ==
  ASSUME TypeOK, NEW l \in Phases, InPhase(l), At(0, "done"), NEW k \in Keys, Pressed(k), Restart(k),
         UNCHANGED <<image, i_am_master, i_am_active, window_num, window_end, mapped, errors,
                     num_active_cpus, behind, tested>>
  PROVE  TypeOK' /\ InPhase(l)'
<1>1. /\ l = "done" /\ ~waiting[0] /\ at[0] = "done" /\ 0 \in Enabled
      /\ k.start_pass \in BOOLEAN /\ k.pass_num \in Nat
      /\ bail' \in BOOLEAN /\ config' \in Configs /\ inputs' \in Seq(Key)
  BY Deciding
<1>2. /\ restart' = FALSE /\ master_cpu' = 0 /\ start_run' = TRUE /\ dummy_run' = TRUE
      /\ start_pass' = k.start_pass /\ pass_num' = k.pass_num /\ WaitAt(0, "top")
      /\ UNCHANGED <<start_test, rerun_test, test_num_index, test_num, test_stage>>
  BY DEF Restart
<1>3. Onward(l) = "top" /\ Onward(l)' = Onward(l)
  BY <1>1 DEF Onward
<1>4. /\ Together(l)' /\ at' \in [Enabled -> Label] /\ waiting' \in [Enabled -> BOOLEAN]
      /\ waiting'[0]
  BY <1>1, <1>2, <1>3, GoesOn DEF InPhase, Label
<1>5. TypeOK'
  BY <1>1, <1>2, <1>4, CpuAssumption DEF TypeOK, Key
<1>6. Images(l)' /\ Roles(l)' /\ Windows(l)'
  BY <1>1, <1>2 DEF InPhase, Images, Roles, Windows, Moving
<1>7. Anew(l)'
  BY <1>1, <1>2 DEF Anew, StartFlag
<1>8. Decisions(l)' /\ Masters'
  BY <1>1, <1>2, <1>4, <1>7 DEF Decisions, Masters, Moving
<1>9. FirstWindow(l)' /\ Progress(l)'
  BY <1>1, <1>7 DEF FirstWindow, Progress
<1>. QED BY <1>4, <1>5, <1>6, <1>8, <1>9 DEF InPhase

\* The test is over.
LEMMA EndTestKeeps ==
  ASSUME TypeOK, NEW l \in Phases, InPhase(l), At(0, "done"), NEW k \in Keys, Pressed(k), EndTest(k),
         UNCHANGED <<image, i_am_master, i_am_active, window_num, window_end, mapped, errors,
                     num_active_cpus, behind, tested>>,
         start_run' \in BOOLEAN, dummy_run' \in BOOLEAN, start_pass' \in BOOLEAN, pass_num' \in Nat,
         \/ WaitAt(0, "top")
         \/ at' = [at EXCEPT ![0] = "stopped"] /\ UNCHANGED waiting
  PROVE  TypeOK' /\ InPhase(l)'
<1>1. /\ l = "done" /\ ~waiting[0] /\ at[0] = "done" /\ 0 \in Enabled
      /\ ~start_run /\ ~start_test /\ ~rerun_test /\ ~restart /\ config' = config
      /\ bail' \in BOOLEAN /\ config' \in Configs /\ inputs' \in Seq(Key)
      /\ ~Mistyped' => ~Mistyped
  BY Deciding DEF EndTest
<1>2. /\ ~StagesLeft /\ ~MastersLeft
      /\ test_stage' = IF test_num \in config.enabled THEN 0 ELSE test_stage
      /\ master_cpu' = IF Rotates THEN NextMaster ELSE master_cpu
      /\ start_test' = TRUE
      /\ test_num_index' = test_num_index + 1
      /\ test_num' = TestSequence(test_num_index + 1)
      /\ UNCHANGED <<rerun_test, restart>>
  BY DEF EndTest
<1>3. Onward(l) = "top" /\ Onward(l)' = Onward(l)
  BY <1>1 DEF Onward
<1>4. /\ Together(l)' /\ at' \in [Enabled -> Label] /\ waiting' \in [Enabled -> BOOLEAN]
      /\ waiting'[0] \/ at'[0] = "stopped"
  <2>1. CASE WaitAt(0, "top")
    BY <2>1, <1>1, <1>3, GoesOn DEF InPhase, Label
  <2>2. CASE at' = [at EXCEPT ![0] = "stopped"] /\ UNCHANGED waiting
    BY <2>2, <1>1, <1>3 DEF InPhase, Together, Label, TypeOK
  <2>. QED BY <2>1, <2>2
<1>5. TypeOK'
  <2>1. test_num_index + 1 \in Nat /\ test_num' \in Nat /\ test_stage' \in Nat
    <3>1. test_num_index \in Nat /\ test_stage \in Nat /\ config \in Configs /\ behind \in Behind
      BY DEF TypeOK
    <3>2. TestSequence(test_num_index + 1) \in Nat
      BY <3>1, SequenceType
    <3>. QED BY <3>1, <3>2, <1>2
  <2>2. master_cpu' \in MasterCores
    BY <1>2, NextMasterFound DEF TypeOK
  <2>. QED BY <1>1, <1>2, <1>4, <2>1, <2>2 DEF TypeOK, Key
<1>6. Images(l)' /\ Roles(l)' /\ Windows(l)'
  BY <1>1, <1>2 DEF InPhase, Images, Roles, Windows, Moving
<1>7. Anew(l)'
  BY <1>1, <1>2 DEF Anew, StartFlag
<1>8. Decisions(l)'
  <2>1. test_num' = TestSequence(test_num_index)'
    BY <1>1, <1>2 DEF TestSequence
  <2>. QED BY <2>1, <1>1, <1>2, <1>4, <1>7 DEF Decisions, Moving
<1>9. Masters'
  BY <1>1, <1>2 DEF InPhase, Masters, InTurn, MastersLeft
<1>10. FirstWindow(l)' /\ Progress(l)'
  BY <1>1, <1>7 DEF FirstWindow, Progress
<1>. QED BY <1>4, <1>5, <1>6, <1>8, <1>9, <1>10 DEF InPhase

\* The next stage, or the next master.
LEMMA RerunKeeps ==
  ASSUME TypeOK, NEW l \in Phases, InPhase(l), At(0, "done"), NEW k \in Keys, Pressed(k), Rerun(k),
         UNCHANGED <<image, i_am_master, i_am_active, window_num, window_end, mapped, errors,
                     num_active_cpus, behind, tested>>
  PROVE  TypeOK' /\ InPhase(l)'
<1>1. /\ l = "done" /\ ~waiting[0] /\ at[0] = "done" /\ 0 \in Enabled
      /\ ~start_run /\ ~start_test /\ ~rerun_test /\ ~restart /\ config' = config
      /\ k.start_pass \in BOOLEAN
      /\ bail' \in BOOLEAN /\ config' \in Configs /\ inputs' \in Seq(Key)
      /\ bail => bail'
      /\ start_pass => k.start_pass
      /\ ~Mistyped' => ~Mistyped /\ ~start_pass /\ ~k.start_pass
  BY Deciding DEF Rerun
<1>2. /\ StagesLeft \/ MastersLeft
      /\ rerun_test' = TRUE
      /\ start_pass' = k.start_pass
      /\ WaitAt(0, "top")
      /\ UNCHANGED <<start_run, start_test, dummy_run, pass_num, test_num_index, test_num, restart>>
  BY DEF Rerun
<1>3. /\ StagesLeft => test_stage' = test_stage + 1 /\ master_cpu' = master_cpu
      /\ ~StagesLeft => test_stage' = 0 /\ master_cpu' = NextMaster
  BY DEF Rerun
<1>4. Onward(l) = "top" /\ Onward(l)' = Onward(l)
  BY <1>1 DEF Onward
<1>5. /\ Together(l)' /\ at' \in [Enabled -> Label] /\ waiting' \in [Enabled -> BOOLEAN]
      /\ waiting'[0] /\ at'[0] = "top"
  BY <1>1, <1>2, <1>4, GoesOn DEF InPhase, Label
<1>6. /\ master_cpu \in Enabled /\ test_stage \in Nat /\ NumWindows \in Nat \ {0}
      /\ Enabled \subseteq Nat /\ MasterCores \subseteq Enabled /\ master_cpu \in MasterCores
  BY Typed, CoresCounted
<1>7. TypeOK'
  <2>1. test_stage' \in Nat
    BY <1>3, <1>6
  <2>2. master_cpu' \in MasterCores
    BY <1>3, <1>6, NextMasterFound
  <2>. QED BY <1>1, <1>2, <1>5, <2>1, <2>2 DEF TypeOK, Key
<1>8. Images(l)' /\ Roles(l)' /\ Windows(l)'
  BY <1>1, <1>2 DEF InPhase, Images, Roles, Windows, Moving
<1>9. test_num \in config.enabled /\ Stages[test_num] \in Nat \ {0}
  <2>1. test_num \in config.enabled
    BY <1>2 DEF StagesLeft, MastersLeft, Rotates
  <2>. QED BY <2>1, ConfigHolds, TestAssumption DEF TypeOK
<1>10. Decisions(l)'
  <2>1. test_num' = TestSequence(test_num_index)'
    BY <1>1, <1>2 DEF TestSequence, InPhase, Decisions
  <2>2. test_stage' < Stages[test_num]
    BY <1>3, <1>9 DEF StagesLeft
  <2>. QED BY <2>1, <2>2, <1>1, <1>2, <1>5 DEF Decisions, Moving
<1>11. InTurn' = InTurn /\ Parallel' = Parallel /\ TestWindows' = TestWindows
  BY <1>1, <1>2 DEF InTurn, Rotates, Parallel, TestWindows
<1>12. Masters'
  <2> SUFFICES ASSUME ~Mistyped' PROVE Masters'
    BY DEF Masters
  <2>1. ~StartFlag' /\ ~Mistyped
    BY <1>1, <1>2 DEF StartFlag
  <2>2. CASE StagesLeft
    BY <2>1, <2>2, <1>1, <1>2, <1>3, <1>11 DEF InPhase, Masters
  <2>3. CASE ~StagesLeft
    <3>1. InTurn
      BY <2>3, <1>2 DEF MastersLeft, InTurn
    <3>. QED BY <3>1, <2>1, <1>11 DEF Masters
  <2>. QED BY <2>2, <2>3
<1>13. FirstWindow(l)'
  BY <1>1 DEF FirstWindow
<1>14. Progress(l)'
  <2> SUFFICES ASSUME ~bail', ~dummy_run, ~Anew(l)' PROVE Progress(l)'
    BY <1>1, <1>2 DEF Progress
  <2>1. ~bail /\ ~Anew(l) /\ at[0] # "stopped"
    BY <1>1, <1>2 DEF Anew, StartFlag
  <2>2. /\ \A t \in tested : Due(l, t[1], t[2], t[3])
        /\ ~Mistyped => \A d \in Enabled, s \in 0 .. Stages[test_num] - 1, w \in Window :
                          Due(l, d, s, w) => <<d, s, w>> \in tested
    BY <2>1, <1>9 DEF InPhase, Progress
  <2>3. \A w \in TestWindows : w \in Nat /\ w < NumWindows
    BY WindowAssumption DEF TestWindows, Window
  <2>4. \A d \in Enabled : Covered(l, d) = NumWindows /\ Covered(l, d)' = 0
    BY <1>1, <1>5 DEF Covered
  <2>5. ASSUME NEW d \in Enabled, NEW s, NEW w
        PROVE  Due(l, d, s, w) <=> Due(l, d, s, w)'
    <3>1. CASE StagesLeft
      <4>1. Testers' = Testers
        BY <3>1, <1>1, <1>2, <1>3 DEF Testers
      <4>2. ASSUME s \in 0 .. Stages[test_num] - 1, w \in TestWindows
            PROVE  (s < test_stage \/ (s = test_stage /\ w < NumWindows)) <=>
                   (s < test_stage + 1 \/ (s = test_stage + 1 /\ w < 0))
        BY <4>2, <2>3, <1>6, <1>9
      <4>. QED BY <4>1, <4>2, <3>1, <2>4, <1>2, <1>3, <1>11 DEF Due
    <3>2. CASE ~StagesLeft
      <4>1. InTurn /\ ~Parallel /\ NextMaster # 0
        BY <3>2, <1>2 DEF MastersLeft, InTurn, Rotates, Parallel
      <4>2. Testers = MasterCores /\ Testers' = MasterCores
        BY <4>1, <1>11 DEF Testers, InTurn, Rotates
      <4>3. /\ NextMaster \in MasterCores
            /\ d \in MasterCores => (d < NextMaster <=> d <= master_cpu)
        <5>1. /\ NextMaster \in MasterCores /\ master_cpu < NextMaster
              /\ d \in MasterCores /\ d < NextMaster => d <= master_cpu
          BY <4>1, <1>6, NextMasterFound
        <5>. QED BY <5>1, <1>6
      <4>4. ASSUME s \in 0 .. Stages[test_num] - 1, w \in TestWindows
            PROVE  s < test_stage \/ (s = test_stage /\ w < NumWindows)
        BY <4>4, <3>2, <2>3, <1>6, <1>9 DEF StagesLeft
      <4>5. ASSUME s \in 0 .. Stages[test_num] - 1, w \in TestWindows
            PROVE  ~(s < 0 \/ (s = 0 /\ w < 0))
        BY <4>5, <2>3, <1>9
      <4>6. d < master_cpu \/ d = master_cpu <=> d <= master_cpu
        BY <1>6
      <4>7. Due(l, d, s, w) <=> /\ s \in 0 .. Stages[test_num] - 1 /\ w \in TestWindows
                                /\ d \in MasterCores /\ d <= master_cpu
        BY <4>1, <4>2, <4>4, <4>6, <2>4 DEF Due
      <4>8. Due(l, d, s, w)' <=> /\ s \in 0 .. Stages[test_num] - 1 /\ w \in TestWindows
                                 /\ d \in MasterCores /\ d < NextMaster
        BY <4>1, <4>2, <4>5, <3>2, <2>4, <1>2, <1>3, <1>11 DEF Due
      <4>. QED BY <4>3, <4>7, <4>8
    <3>. QED BY <3>1, <3>2
  <2>6. \A t \in tested : t[1] \in Enabled
    BY DEF TypeOK
  <2>7. /\ \A t \in tested' : Due(l, t[1], t[2], t[3])'
        /\ ~Mistyped' => \A d \in Enabled, s \in 0 .. Stages[test_num] - 1, w \in Window :
                          Due(l, d, s, w)' => <<d, s, w>> \in tested'
    BY <2>2, <2>5, <2>6, <1>1
  <2>. QED BY <2>7, <1>1, <1>2 DEF Progress
<1>. QED BY <1>5, <1>7, <1>8, <1>10, <1>12, <1>13, <1>14 DEF InPhase

\* The decision of CPU 0.
LEMMA DoneKeeps ==
  ASSUME TypeOK, NEW l \in Phases, InPhase(l), Done
  PROVE  TypeOK' /\ InPhase(l)'
<1>1. /\ At(0, "done")
      /\ UNCHANGED <<image, i_am_master, i_am_active, window_num, window_end, mapped, errors,
                     num_active_cpus, behind, tested>>
  BY DEF Done, locals, windows
<1>2. PICK k \in Keys : /\ Pressed(k)
                        /\ Restart(k) \/ Rerun(k) \/ NextTest(k) \/ NextPass(k) \/ Stop(k)
  BY DEF Done
<1>3. /\ k.start_pass \in BOOLEAN /\ pass_num \in Nat /\ pass_num + 1 \in Nat
      /\ start_run \in BOOLEAN /\ dummy_run \in BOOLEAN
  BY KeyEffects DEF TypeOK
<1>4. CASE Restart(k)
  BY <1>1, <1>2, <1>4, RestartKeeps
<1>5. CASE Rerun(k)
  BY <1>1, <1>2, <1>5, RerunKeeps
<1>6. CASE NextTest(k)
  <2>1. /\ EndTest(k) /\ WaitAt(0, "top") /\ start_run' \in BOOLEAN /\ dummy_run' \in BOOLEAN
        /\ start_pass' \in BOOLEAN /\ pass_num' \in Nat
    BY <1>3, <1>6 DEF NextTest
  <2>. QED BY <2>1, <1>1, <1>2, EndTestKeeps
<1>7. CASE NextPass(k)
  <2>1. /\ EndTest(k) /\ WaitAt(0, "top") /\ start_run' \in BOOLEAN /\ dummy_run' \in BOOLEAN
        /\ start_pass' \in BOOLEAN /\ pass_num' \in Nat
    BY <1>3, <1>7 DEF NextPass, EndPass
  <2>. QED BY <2>1, <1>1, <1>2, EndTestKeeps
<1>8. CASE Stop(k)
  <2>1. /\ EndTest(k) /\ at' = [at EXCEPT ![0] = "stopped"] /\ UNCHANGED waiting
        /\ start_run' \in BOOLEAN /\ dummy_run' \in BOOLEAN
        /\ start_pass' \in BOOLEAN /\ pass_num' \in Nat
    BY <1>3, <1>8 DEF Stop, EndPass
  <2>. QED BY <2>1, <1>1, <1>2, EndTestKeeps
<1>. QED BY <1>2, <1>4, <1>5, <1>6, <1>7, <1>8

-----------------------------------------------------------------------------
LEMMA InitInv == Init => LoopInv
<1> SUFFICES ASSUME Init PROVE LoopInv
  OBVIOUS
<1>1. PICK i \in BootImages : image = [c \in Enabled |-> i]
  BY DEF Init
<1>2. /\ IsFiniteSet(Enabled) /\ Cardinality(Enabled) \in Nat /\ 0 \in Enabled
  BY CoresCounted
<1>3. TestSequence(0) = config.test_sequence[0] /\ TestSequence(0) \in Nat
  <2>1. config \in Configs /\ behind \in Behind /\ 0 < NumTests
    BY TestAssumption DEF Init
  <2>. QED BY <2>1, SequenceType DEF TestSequence
<1>4. TypeOK
  <2>1. image \in [Enabled -> Image]
    BY <1>1, BootAssumption
  <2>2. inputs \in Seq({"skip", "change", "mistype"})
    BY DEF Init
  <2>3. /\ at \in [Enabled -> Label] /\ waiting \in [Enabled -> BOOLEAN]
        /\ i_am_master \in [Enabled -> BOOLEAN] /\ i_am_active \in [Enabled -> BOOLEAN]
    BY DEF Init, Label
  <2>4. {window_num, window_end} \subseteq 0 .. NumWindows + 1
    BY WindowAssumption DEF Init
  <2>5. /\ {start_run, start_pass, start_test, rerun_test, dummy_run} \subseteq BOOLEAN
        /\ {mapped, bail, restart, errors} \subseteq BOOLEAN
    BY DEF Init
  <2>6. {pass_num, test_num_index, test_num, test_stage} \subseteq Nat
    BY <1>3 DEF Init
  <2>7. master_cpu \in MasterCores /\ num_active_cpus \in 0 .. Cardinality(Enabled)
    BY <1>2, CpuAssumption DEF Init
  <2>8. config \in Configs /\ behind \in Behind /\ tested \in SUBSET (Enabled \X Nat \X Window)
    BY DEF Init
  <2>. QED BY <2>1, <2>2, <2>3, <2>4, <2>5, <2>6, <2>7, <2>8 DEF TypeOK
<1>5. InPhase("done")
  <2>1. Together("done")
    BY DEF Init, Together, Onward
  <2>2. Images("done") /\ Roles("done")
    BY <1>1 DEF Images, Roles, Moving
  <2>3. Windows("done")
    BY DEF Init, Windows, Moving
  <2>4. Anew("done")
    BY DEF Init, Anew, StartFlag
  <2>5. Decisions("done") /\ Masters
    BY <1>2, <2>4 DEF Init, Decisions, Masters, Moving
  <2>6. FirstWindow("done") /\ Progress("done")
    BY <2>4 DEF FirstWindow, Progress
  <2>. QED BY <2>1, <2>2, <2>3, <2>5, <2>6 DEF InPhase
<1>. QED BY <1>4, <1>5 DEF LoopInv, Phases, Label

LEMMA StutterInv == LoopInv /\ UNCHANGED vars => LoopInv'
<1> SUFFICES ASSUME TypeOK, NEW l \in Phases, InPhase(l), UNCHANGED vars
             PROVE  TypeOK' /\ InPhase(l)'
  BY DEF LoopInv
<1>1. UNCHANGED <<at, waiting, image, i_am_master, i_am_active, start_run, start_pass, start_test,
                  rerun_test, dummy_run, pass_num, test_num_index, test_num, test_stage,
                  master_cpu, window_num, window_end, mapped, bail, restart, config, errors,
                  num_active_cpus, behind, inputs, tested>>
  BY DEF vars, locals, globals, flags, position, windows
<1>2. TypeOK'
  BY <1>1 DEF TypeOK
<1>3. Together(l)' /\ Images(l)'
  BY <1>1 DEF InPhase, Together, Images, Onward, LoadAddr, Again
<1>4. Roles(l)' /\ Windows(l)'
  BY <1>1 DEF InPhase, Roles, Windows, Parallel, StartFlag, Between, Found, SetupVmMap
<1>5. Decisions(l)' /\ Masters'
  BY <1>1 DEF InPhase, Decisions, Masters, Anew, StartFlag, Mistyped, TestSequence, InTurn, Rotates
<1>6. FirstWindow(l)'
  BY <1>1 DEF InPhase, FirstWindow, Anew, StartFlag, TestWindows
<1>7. Progress(l)'
  BY <1>1 DEF InPhase, Progress, Anew, StartFlag, Mistyped, Due, Covered, Testers,
              TestWindows, InTurn, Rotates, Parallel
<1>. QED BY <1>2, <1>3, <1>4, <1>5, <1>6, <1>7 DEF InPhase

\* Every step leaves the cores in one phase.
LEMMA NextInv ==
  ASSUME OnlyLastUnmapped, LoopInv, [Next]_vars
  PROVE  LoopInv'
<1>1. PICK l \in Phases : InPhase(l)
  BY DEF LoopInv
<1>2. TypeOK
  BY DEF LoopInv
<1>3. CASE UNCHANGED vars
  BY <1>3, StutterInv
<1>4. CASE Open
  BY <1>1, <1>2, <1>4, OpenKeeps DEF LoopInv
<1>5. CASE Done
  BY <1>1, <1>2, <1>5, DoneKeeps DEF LoopInv
<1>6. CASE Stopped
  BY <1>1, <1>2, <1>6, StoppedKeeps DEF LoopInv
<1>7. ASSUME NEW c \in Enabled, Step(c) PROVE LoopInv'
  <2>1. TypeOK' /\ InPhase(l)'
    <3>1. CASE Top(c)
      BY <3>1, <1>1, <1>2, TopKeeps
    <3>2. CASE Ready(c)
      BY <3>2, <1>1, <1>2, ReadyKeeps
    <3>3. CASE Back(c)
      BY <3>3, <1>1, <1>2, BackKeeps
    <3>4. CASE Win(c)
      BY <3>4, <1>1, <1>2, WinKeeps
    <3>5. CASE Adj(c)
      BY <3>5, <1>1, <1>2, AdjKeeps
    <3>6. CASE Jump(c)
      BY <3>6, <1>1, <1>2, JumpKeeps
    <3>7. CASE Skip(c)
      BY <3>7, <1>1, <1>2, SkipKeeps
    <3>8. CASE Unmapped(c)
      BY <3>8, <1>1, <1>2, UnmappedKeeps
    <3>9. CASE RunTest(c)
      BY <3>9, <1>1, <1>2, RunTestKeeps
    <3>. QED
      BY <1>7, <3>1, <3>2, <3>3, <3>4, <3>5, <3>6, <3>7, <3>8, <3>9 DEF Step
  <2>. QED BY <2>1, <1>1 DEF LoopInv
<1>. QED BY <1>3, <1>4, <1>5, <1>6, <1>7 DEF Next

\* What the invariant says about the barrier and about the window that is tested.
LEMMA InvCoresMeet == LoopInv => CoresMeet /\ ProgramOutsideWindow
<1> SUFFICES ASSUME TypeOK, NEW l \in Phases, InPhase(l)
             PROVE  CoresMeet /\ ProgramOutsideWindow
  BY DEF LoopInv
<1>1. BarrierAgreement
  BY DEF InPhase, Together, BarrierAgreement
<1>2. ASSUME NEW c \in Enabled, Testing(c)
      PROVE  l = "map" /\ ~dummy_run
  BY <1>2, SamePhase DEF InPhase, Testing
<1>3. ProgramOutsideWindow
  BY <1>2 DEF InPhase, Images, ProgramOutsideWindow
<1>4. RunBarrierFits
  <2> SUFFICES ASSUME NEW c \in Enabled, Testing(c)
               PROVE  num_active_cpus = Cardinality({d \in Enabled : i_am_active[d]})
    BY DEF RunBarrierFits
  <2>1. \/ num_active_cpus = Cardinality(Enabled) /\ \A d \in Enabled : i_am_active[d]
        \/ num_active_cpus = 1 /\ \A d \in Enabled : i_am_active[d] = (d = master_cpu)
    BY <1>2 DEF InPhase, Roles
  <2>2. CASE num_active_cpus = Cardinality(Enabled) /\ \A d \in Enabled : i_am_active[d]
    <3>1. {d \in Enabled : i_am_active[d]} = Enabled
      BY <2>2
    <3>. QED BY <2>2, <3>1
  <2>3. CASE num_active_cpus = 1 /\ \A d \in Enabled : i_am_active[d] = (d = master_cpu)
    <3>1. {d \in Enabled : i_am_active[d]} = {master_cpu}
      BY <2>3, Typed
    <3>. QED BY <2>3, <3>1, FS_Singleton
  <2>. QED BY <2>1, <2>2, <2>3
<1>. QED BY <1>1, <1>3, <1>4 DEF CoresMeet

\* A step while the program is being moved.
LEMMA CopyStep ==
  ASSUME LoopInv, [Next]_vars, NEW b \in Enabled, at[b] \in Moving
  PROVE  UNCHANGED globals
<1>1. PICK l \in Phases : InPhase(l)
  BY DEF LoopInv
<1>2. TypeOK /\ 0 \in Enabled
  BY CpuAssumption DEF LoopInv
<1>3. l \in Moving \/ (l = "adj" /\ Onward(l) # "map")
  BY <1>1 DEF InPhase, Together, Onward, Moving, Again
<1>4. CASE UNCHANGED vars \/ Open
  BY <1>4 DEF vars, Open
<1>5. ~Done
  BY <1>1, <1>2, <1>3, SamePhase DEF Done, InPhase, Moving
<1>6. ~Stopped
  BY <1>1, <1>2, <1>3 DEF Stopped, At, InPhase, Together, Phases, Onward, Moving, LoadAddr
<1>7. ASSUME NEW c \in Enabled, Step(c) PROVE UNCHANGED globals
  <2>1. \A p : At(c, p) /\ p # "stopped" => p = l
    BY <1>1, SamePhase DEF InPhase
  <2>2. Adj(c) \/ Jump(c)
    <3>1. ~At(c, "top") /\ ~At(c, "ready") /\ ~At(c, "done") /\ ~At(c, "win") /\ ~At(c, "map")
      BY <2>1, <1>3 DEF Moving
    <3>. QED BY <3>1, <1>7 DEF Step, Top, Ready, Back, Win, Skip, Unmapped, RunTest
  <2>3. CASE Adj(c)
    <3>1. l = "adj" /\ image[c] = image[0]
      BY <2>1, <2>3, <1>1, <1>2 DEF Adj, InPhase, Images, Moving
    <3>2. ~dummy_run /\ image[c] # LoadAddr
      BY <3>1, <1>3 DEF Onward, Moving
    <3>. QED BY <3>2, <2>3 DEF Adj, globals, flags, position, windows, input
  <2>4. CASE Jump(c)
    <3>1. test_num' = test_num
      BY <2>4, <1>1, <1>2, JumpKeeps
    <3>. QED BY <3>1, <2>4 DEF Jump, globals, flags, position, windows, input
  <2>. QED BY <2>2, <2>3, <2>4
<1>. QED BY <1>4, <1>5, <1>6, <1>7 DEF Next

\* A core that is about to test a window has not yet done so.
LEMMA NotTested ==
  ASSUME LoopInv, NEW c \in Enabled, Testing(c)
  PROVE  <<c, test_stage, window_end - 1>> \notin tested
<1>1. PICK l \in Phases : InPhase(l)
  BY DEF LoopInv
<1>2. l = "map" /\ i_am_active[c] /\ ~waiting[c] /\ ~dummy_run
  BY <1>1, SamePhase DEF InPhase, Testing, At
<1>3. \A t \in tested : i_am_active[t[1]] /\ ~waiting[t[1]] =>
                          t[2] # test_stage \/ t[3] < window_end - 1
  BY <1>1, <1>2 DEF InPhase, Progress
<1>4. window_end \in Nat
  BY Typed DEF LoopInv
<1> SUFFICES ASSUME <<c, test_stage, window_end - 1>> \in tested PROVE FALSE
  OBVIOUS
<1>5. test_stage # test_stage \/ window_end - 1 < window_end - 1
  BY <1>2, <1>3
<1>. QED BY <1>4, <1>5

\* What has been tested when a test comes to its end.
LEMMA EndStep ==
  ASSUME LoopInv, [Next]_vars, TestEnds, ~Mistyped
  PROVE  tested = Testers \X (0 .. Stages[test_num] - 1) \X TestWindows
<1>1. PICK l \in Phases : InPhase(l)
  BY DEF LoopInv
<1>2. /\ TypeOK /\ 0 \in Enabled /\ test_num_index \in Nat /\ test_stage \in Nat
      /\ master_cpu \in Enabled /\ Enabled \subseteq Nat
  BY CoresCounted, Typed DEF LoopInv
<1>3. ~dummy_run /\ test_num \in config.enabled /\ ~bail' /\ test_num_index' = test_num_index + 1
  BY DEF TestEnds
<1>4. Done
  <2>1. test_num_index' # test_num_index /\ test_num_index' # 0
    BY <1>2, <1>3
  <2>2. ~(\E c \in Enabled : Step(c))
    BY <2>1 DEF Step, Top, Ready, Back, Win, Adj, Jump, Skip, Unmapped, RunTest, globals, position
  <2>3. ~UNCHANGED vars /\ ~Open /\ ~Stopped
    BY <2>1 DEF vars, globals, position, Open, Stopped
  <2>. QED BY <2>2, <2>3 DEF Next
<1>5. PICK k \in Keys : /\ Pressed(k)
                        /\ Restart(k) \/ Rerun(k) \/ NextTest(k) \/ NextPass(k) \/ Stop(k)
  BY <1>4 DEF Done
<1>6. EndTest(k)
  <2>1. test_num_index' # test_num_index
    BY <1>2, <1>3
  <2>. QED BY <2>1, <1>5 DEF Restart, Rerun, NextTest, NextPass, Stop, EndPass
<1>7. /\ l = "done" /\ ~waiting[0] /\ at[0] = "done" /\ ~start_run /\ ~start_test /\ ~restart
      /\ ~bail /\ (start_pass => Mistyped)
  BY <1>1, <1>2, <1>3, <1>4, <1>5, <1>6, Deciding DEF Done, EndTest, InPhase, Decisions
<1>8. ~StagesLeft /\ ~MastersLeft
  BY <1>6 DEF EndTest
<1>9. /\ \A t \in tested : Due(l, t[1], t[2], t[3])
      /\ \A d \in Enabled, s \in 0 .. Stages[test_num] - 1, w \in Window :
           Due(l, d, s, w) => <<d, s, w>> \in tested
  BY <1>1, <1>3, <1>7 DEF InPhase, Progress, Anew, StartFlag
<1>10. Stages[test_num] \in Nat
  BY <1>2, <1>3, ConfigHolds, TestAssumption DEF TypeOK
<1>11. \A w \in TestWindows : w \in Window /\ w < NumWindows
  BY WindowAssumption DEF TestWindows, Window
<1>12. \A d \in Enabled : Covered(l, d) = NumWindows
  BY <1>7 DEF Covered
<1>13. ASSUME NEW d \in Testers, NEW s \in 0 .. Stages[test_num] - 1, NEW w \in TestWindows
       PROVE  <<d, s, w>> \in tested
  <2>1. d \in Enabled
    BY <1>2, Typed DEF Testers
  <2>2. s < test_stage \/ (s = test_stage /\ w < NumWindows)
    BY <1>2, <1>3, <1>8, <1>10, <1>11 DEF StagesLeft
  <2>3. (InTurn /\ d < master_cpu) \/ d = master_cpu \/ Parallel
    <3>1. CASE InTurn
      <4>1. d <= master_cpu
        <5>1. d = master_cpu \/ d \in MasterCores
          BY <3>1 DEF InTurn, Rotates, Testers
        <5>2. master_cpu \in MasterCores
          BY <1>2, Typed
        <5>. QED BY <3>1, <5>1, <5>2, <2>1, <1>2, <1>8, NextMasterFound DEF InTurn, MastersLeft
      <4>. QED BY <3>1, <4>1, <2>1, <1>2
    <3>2. CASE ~InTurn
      <4>1. /\ config.cpu_mode \in {"PAR", "SEQ", "ONE"}
            /\ TestMode[test_num] \in {"PAR", "SEQ", "ONE"}
        BY <1>2, <1>3, ConfigHolds, TestAssumption DEF TypeOK, CpuMode
      <4>. QED BY <3>2, <4>1, <1>3 DEF InTurn, Rotates, Testers, Parallel
    <3>. QED BY <3>1, <3>2
  <2>4. Due(l, d, s, w)
    BY <2>1, <2>2, <2>3, <1>12 DEF Due
  <2>. QED BY <2>1, <2>4, <1>9, <1>11
<1>14. ASSUME NEW t \in tested PROVE t \in Testers \X (0 .. Stages[test_num] - 1) \X TestWindows
  <2>1. t = <<t[1], t[2], t[3]>>
    BY <1>2 DEF TypeOK
  <2>2. t[1] \in Testers /\ t[2] \in 0 .. Stages[test_num] - 1 /\ t[3] \in TestWindows
    BY <1>9 DEF Due
  <2>. QED BY <2>1, <2>2
<1>. QED BY <1>13, <1>14

-----------------------------------------------------------------------------
\* For any set of enabled cores, any tests, windows and keys: the cores always are in one
\* phase of the loop, each waiting for all others at the same place or on its way there,
\* and run_barrier is set up for exactly the cores that call run_test.
THEOREM CoresStayTogether ==
  ASSUME OnlyLastUnmapped
  PROVE  SafeSpec => []CoresMeet
<1>1. LoopInv /\ [Next]_vars => LoopInv'
  BY NextInv
<1>. QED BY InitInv, <1>1, InvCoresMeet, PTL DEF SafeSpec

\* The window that is tested never holds the program a core executes, wherever the boot
\* loader has put it and however often it has moved.
THEOREM ProgramNeverTested ==
  ASSUME OnlyLastUnmapped
  PROVE  SafeSpec => []ProgramOutsideWindow
<1>1. LoopInv /\ [Next]_vars => LoopInv'
  BY NextInv
<1>. QED BY InitInv, <1>1, InvCoresMeet, PTL DEF SafeSpec

\* Nothing is written between the copy of the program and the last jump into it, no window
\* is tested twice at a stage of a test, and when a test ends nothing of it has been left out.
THEOREM TestsComplete ==
  ASSUME OnlyLastUnmapped
  PROVE  SafeSpec => TestingInOrder
<1>1. LoopInv /\ [Next]_vars => LoopInv'
  BY NextInv
<1>2. LoopInv /\ [Next]_vars =>
        [(\E c \in Enabled : at[c] \in {"to_low", "to_high"}) => UNCHANGED globals]_vars
  BY CopyStep DEF Moving
<1>3. LoopInv /\ [Next]_vars =>
        [\A c \in Enabled : Testing(c) /\ at'[c] # at[c] =>
           <<c, test_stage, window_end - 1>> \notin tested]_vars
  BY NotTested
<1>4. LoopInv /\ [Next]_vars =>
        [TestEnds /\ ~Mistyped =>
           tested = Testers \X (0 .. Stages[test_num] - 1) \X TestWindows]_vars
  BY EndStep
<1>5. SafeSpec => NoWriteDuringCopy
  BY InitInv, <1>1, <1>2, PTL DEF SafeSpec, NoWriteDuringCopy
<1>6. SafeSpec => NoWindowTwice
  BY InitInv, <1>1, <1>3, PTL DEF SafeSpec, NoWindowTwice
<1>7. SafeSpec => TestComplete
  BY InitInv, <1>1, <1>4, PTL DEF SafeSpec, TestComplete
<1>. QED BY <1>5, <1>6, <1>7 DEF TestingInOrder

\* A step after the user has skipped the test.
LEMMA SkipStep ==
  ASSUME LoopInv, [Next]_vars, bail, bail', NEW c \in Enabled, Testing(c)'
  PROVE  Testing(c)
<1>1. PICK l \in Phases : InPhase(l)
  BY DEF LoopInv
<1>2. TypeOK /\ 0 \in Enabled
  BY CpuAssumption DEF LoopInv
<1>3. at'[c] = "map" /\ ~waiting'[c]
  BY DEF Testing, At
<1>4. l # "adj"
  BY <1>1 DEF InPhase, Decisions
<1>5. at[c] = "map" => l = "map" /\ ~waiting[c]
  BY <1>1, <1>4 DEF InPhase, Together, Onward, Again, LoadAddr
<1>6. CASE UNCHANGED vars
  BY <1>6 DEF vars, globals, locals, windows, flags, Testing, At
<1>7. CASE Open
  BY <1>2, <1>3, <1>5, <1>7 DEF Open
<1>8. CASE Done \/ Stopped
  <2>1. l = "done"
    BY <1>1, <1>2, <1>8 DEF Done, Stopped, At, InPhase, Together, Phases, Onward, Again, LoadAddr
  <2>2. at'[c] = at[c] \/ at'[c] \in {"top", "stopped"}
    BY <1>2, <1>8 DEF Done, Stopped, Restart, Rerun, NextTest, NextPass, Stop, WaitAt, TypeOK
  <2>. QED BY <2>1, <2>2, <1>3, <1>5
<1>9. ASSUME NEW d \in Enabled, Step(d) PROVE Testing(c)
  <2>1. PICK m : WaitAt(d, m)
    BY <1>9 DEF Step, Top, Ready, Back, Win, Adj, Jump, Skip, Unmapped, RunTest
  <2>2. c # d /\ at[c] = "map" /\ l = "map" /\ ~waiting[c]
    BY <2>1, <1>2, <1>3, <1>5 DEF WaitAt, TypeOK
  <2>3. \A p : At(d, p) /\ p # "stopped" => p = "map"
    BY <2>2, <1>1, SamePhase DEF InPhase
  <2>4. UNCHANGED <<i_am_active, mapped, dummy_run, window_end>>
    <3>1. ~At(d, "top") /\ ~At(d, "ready") /\ ~At(d, "done") /\ ~At(d, "win") /\ ~At(d, "adj")
          /\ ~At(d, "to_low") /\ ~At(d, "to_high")
      BY <2>3
    <3>2. Skip(d) \/ Unmapped(d) \/ RunTest(d)
      BY <3>1, <1>9 DEF Step, Top, Ready, Back, Win, Adj, Jump
    <3>. QED BY <3>2 DEF Skip, Unmapped, RunTest, locals, globals, flags, windows
  <2>. QED BY <2>2, <2>4 DEF Testing, At
<1>. QED BY <1>6, <1>7, <1>8, <1>9 DEF Next

\* A skipped test is over for every core that is not yet in run_test: no further window,
\* stage or master of it comes to be tested.
THEOREM SkipEnds ==
  ASSUME OnlyLastUnmapped
  PROVE  SafeSpec => SkipEndsTest
<1>1. LoopInv /\ [Next]_vars => LoopInv'
  BY NextInv
<1>2. LoopInv /\ [Next]_vars =>
        [bail /\ bail' => \A c \in Enabled : Testing(c)' => Testing(c)]_vars
  BY SkipStep
<1>. QED BY InitInv, <1>1, <1>2, PTL DEF SafeSpec, SkipEndsTest
=============================================================================
