---------------------------- MODULE RunTestProofs ----------------------------
(***************************************************************************)
(* Proofs about the modules that MCRunTest runs.  RunTest: the cores leave *)
(* a test together, for any number of cores and any test program, when the *)
(* keyboard is polled in do_tick only.  Chunks: what calculate_chunk       *)
(* guarantees of the shares of the cores.  Startup: the program survives   *)
(* its own moves, for every number of cores, every set of load addresses   *)
(* and every image.                                                        *)
(***************************************************************************)
EXTENDS RunTest, Chunks, Startup, FiniteSetTheorems, TLAPS

\* The length of the test program.
LEMMA ProgramLength == Len(Program) \in Nat /\ Out = Len(Program) + 1
  BY ProgramAssumption DEF Out

\* The initial states satisfy the invariant.
LEMMA InitInv == Init => Inv
<1> SUFFICES ASSUME Init PROVE Inv
  OBVIOUS
<1>1. \A c \in CPU : pc[c] = 1 /\ ~waiting[c]
  BY DEF Init
<1>2. TypeOK
  <2>1. 1 \in 1 .. Out
    BY ProgramLength
  <2> QED BY <2>1 DEF Init, TypeOK
<1>3. SameInterval
  BY <1>1 DEF SameInterval, NoBarrier
<1>4. BailSeen /\ OthersLeave /\ WaitsAtBarrier
  BY <1>1 DEF Init, BailSeen, OthersLeave, WaitsAtBarrier, HasLeft
<1> QED BY <1>2, <1>3, <1>4 DEF Inv

\* The invariant implies the property.
LEMMA InvLeave == Inv => LeaveTogether
<1> SUFFICES ASSUME Inv, NEW c \in CPU, NEW d \in CPU, waiting[c]
             PROVE  ~HasLeft(d) /\ (waiting[d] => pc[c] = pc[d])
  BY DEF LeaveTogether
<1>1. ~HasLeft(c) /\ Program[pc[c]] = "barrier" /\ pc[c] \in 1 .. Len(Program)
  BY ProgramLength DEF Inv, TypeOK, WaitsAtBarrier, HasLeft
<1>2. ~HasLeft(d)
  BY <1>1, ProgramLength DEF Inv, OthersLeave, NoBarrier
<1>3. ASSUME waiting[d] PROVE pc[c] = pc[d]
  <2>1. Program[pc[d]] = "barrier" /\ pc[d] \in 1 .. Len(Program)
    BY <1>2, <1>3, ProgramLength DEF Inv, TypeOK, WaitsAtBarrier, HasLeft
  <2>2. NoBarrier(pc[c], pc[d]) /\ NoBarrier(pc[d], pc[c])
    BY <1>1, <1>2 DEF Inv, SameInterval
  <2> QED BY <1>1, <2>1, <2>2, ProgramLength DEF NoBarrier
<1> QED BY <1>2, <1>3

\* A core that is not at a barrier goes one point further, without a change of
\* bail: the invariant is preserved unless it passes a BAILOUT with bail set.
LEMMA AdvanceInv ==
  ASSUME Inv, NEW c \in CPU, ~HasLeft(c), ~waiting[c],
         Program[pc[c]] # "barrier",
         Program[pc[c]] = "bail" => ~bail,
         Advance(c), UNCHANGED <<waiting, bail>>
  PROVE  Inv'
<1> DEFINE p == pc[c]
<1>1. p \in 1 .. Len(Program) /\ p \in Nat /\ Out \in Nat
  BY ProgramLength DEF Inv, TypeOK, HasLeft
<1>2. pc' = [pc EXCEPT ![c] = p + 1] /\ pc'[c] = p + 1
  BY DEF Advance, Inv, TypeOK
<1>3. \A d \in CPU : d # c => pc'[d] = pc[d]
  BY <1>2 DEF Inv, TypeOK
<1>4. \A d \in CPU : pc[d] \in 1 .. Out /\ pc[d] \in Nat
  BY <1>1 DEF Inv, TypeOK
<1>5. TypeOK'
  BY <1>1, <1>2, ProgramLength DEF Inv, TypeOK, Out
<1>6. SameInterval'
  <2> SUFFICES ASSUME NEW a \in CPU, NEW b \in CPU, ~HasLeft(a)', ~HasLeft(b)',
                      NEW k \in pc'[a] .. pc'[b] - 1
               PROVE  Program[k] # "barrier"
    BY DEF SameInterval, NoBarrier
  <2>1. ~HasLeft(a) /\ ~HasLeft(b)
    BY <1>1, <1>3 DEF HasLeft, Out
  <2>2. k \in pc[a] .. pc[b] - 1 \/ k = p
    BY <1>1, <1>2, <1>3, <1>4
  <2> QED BY <2>1, <2>2 DEF Inv, SameInterval, NoBarrier
<1>7. BailSeen'
  <2> SUFFICES ASSUME bail, NEW a \in CPU, ~HasLeft(a)',
                      NEW k \in 1 .. pc'[a] - 1, Program[k] = "bail"
               PROVE  \E j \in k + 1 .. pc'[a] - 1 : Program[j] = "barrier"
    BY DEF BailSeen
  <2>1. ~HasLeft(a)
    BY <1>1, <1>3 DEF HasLeft, Out
  <2>2. k \in 1 .. pc[a] - 1
    BY <1>1, <1>2, <1>3, <1>4
  <2>3. PICK j \in k + 1 .. pc[a] - 1 : Program[j] = "barrier"
    BY <2>1, <2>2 DEF Inv, BailSeen
  <2>4. j \in k + 1 .. pc'[a] - 1
    BY <1>1, <1>2, <1>3, <1>4
  <2> QED BY <2>3, <2>4
<1>8. OthersLeave'
  <2> SUFFICES ASSUME NEW a \in CPU, NEW d \in CPU, HasLeft(d)', ~HasLeft(a)'
               PROVE  \/ NoBarrier(pc'[a], Out)
                      \/ bail /\ \E b \in pc'[a] .. Len(Program) :
                                   Program[b] = "bail" /\ NoBarrier(pc'[a], b)
    BY DEF OthersLeave, Out, NoBarrier
  <2>1. ~HasLeft(a)
    BY <1>1, <1>3 DEF HasLeft, Out
  <2>2. CASE HasLeft(d)
    <3>1. CASE NoBarrier(pc[a], Out)
      BY <3>1, <1>1, <1>2, <1>3, <1>4 DEF NoBarrier
    <3>2. CASE bail /\ \E b \in pc[a] .. Len(Program) :
                         Program[b] = "bail" /\ NoBarrier(pc[a], b)
      <4>1. PICK b \in pc[a] .. Len(Program) :
                   Program[b] = "bail" /\ NoBarrier(pc[a], b)
        BY <3>2
      <4>2. b \in pc'[a] .. Len(Program)
        <5>1. CASE a = c
          BY <5>1, <3>2, <4>1, <1>1, <1>2, ProgramLength
        <5>2. CASE a # c
          BY <5>2, <1>3
        <5> QED BY <5>1, <5>2
      <4>3. NoBarrier(pc'[a], b)
        BY <4>1, <1>1, <1>2, <1>3, <1>4, ProgramLength DEF NoBarrier
      <4> QED BY <3>2, <4>1, <4>2, <4>3
    <3> QED BY <2>1, <2>2, <3>1, <3>2 DEF Inv, OthersLeave
  <2>3. CASE ~HasLeft(d)
    <3>1. d = c /\ p = Len(Program) /\ a # c
      BY <2>3, <1>1, <1>2, <1>3, ProgramLength DEF HasLeft
    <3>2. NoBarrier(pc[a], p)
      BY <2>1, <3>1 DEF Inv, SameInterval
    <3>3. NoBarrier(pc'[a], Out)
      BY <3>1, <3>2, <1>1, <1>3, <1>4, ProgramLength DEF NoBarrier
    <3> QED BY <3>3
  <2> QED BY <2>2, <2>3
<1>9. WaitsAtBarrier'
  BY <1>3 DEF Inv, WaitsAtBarrier, HasLeft, Out
<1> QED BY <1>5, <1>6, <1>7, <1>8, <1>9 DEF Inv

\* Every step preserves the invariant.
LEMMA InvStep ==
  ASSUME Pollers = {}, ~EccInput, Inv, [Next]_vars
  PROVE  Inv'
<1>1. CASE UNCHANGED vars
  BY <1>1 DEF vars, Inv, TypeOK, SameInterval, BailSeen, OthersLeave,
              WaitsAtBarrier, HasLeft, NoBarrier, Out
<1>2. ASSUME NEW c \in CPU, Arrive(c) PROVE Inv'
  <2>1. TypeOK' /\ WaitsAtBarrier'
    BY <1>2 DEF Arrive, At, Inv, TypeOK, WaitsAtBarrier, HasLeft, Out
  <2>2. SameInterval' /\ BailSeen' /\ OthersLeave'
    BY <1>2 DEF Arrive, Inv, SameInterval, BailSeen, OthersLeave, HasLeft,
                NoBarrier, Out
  <2> QED BY <2>1, <2>2 DEF Inv
<1>3. CASE Open
  <2> USE <1>3
  <2>1. \A c \in CPU : /\ ~HasLeft(c) /\ Program[pc[c]] = "barrier"
                       /\ pc[c] \in 1 .. Len(Program) /\ pc[c] \in Nat
                       /\ pc'[c] = pc[c] + 1
    BY ProgramLength DEF Open, Inv, TypeOK, WaitsAtBarrier, HasLeft
  <2>2. \A c, d \in CPU : pc[c] = pc[d]
    BY InvLeave DEF LeaveTogether, Open
  <2>3. TypeOK'
    BY <2>1, ProgramLength DEF Open, Inv, TypeOK, Out
  <2>4. SameInterval' /\ OthersLeave'
    BY <2>1, <2>2 DEF SameInterval, OthersLeave, NoBarrier, HasLeft, Out
  <2>5. BailSeen'
    <3> SUFFICES ASSUME bail, NEW a \in CPU, NEW k \in 1 .. pc'[a] - 1,
                        Program[k] = "bail"
                 PROVE  \E j \in k + 1 .. pc'[a] - 1 : Program[j] = "barrier"
      BY DEF Open, BailSeen
    <3>1. pc[a] \in k + 1 .. pc'[a] - 1 /\ Program[pc[a]] = "barrier"
      BY <2>1
    <3> QED BY <3>1
  <2>6. WaitsAtBarrier'
    BY DEF Open, WaitsAtBarrier
  <2> QED BY <2>3, <2>4, <2>5, <2>6 DEF Inv
<1>4. CASE NextTest
  <2>1. \A c \in CPU : pc'[c] = 1 /\ ~waiting[c] /\ ~waiting'[c]
    BY <1>4 DEF NextTest, Inv, WaitsAtBarrier
  <2>2. TypeOK' /\ WaitsAtBarrier'
    <3>1. 1 \in 1 .. Out
      BY ProgramLength
    <3>2. pc' \in [CPU -> 1 .. Out] /\ bail' \in BOOLEAN /\ waiting' \in [CPU -> BOOLEAN]
      BY <1>4, <3>1 DEF NextTest, Inv, TypeOK
    <3> QED BY <2>1, <3>2 DEF TypeOK, WaitsAtBarrier, Out
  <2>3. SameInterval' /\ BailSeen' /\ OthersLeave'
    BY <1>4, <2>1 DEF NextTest, SameInterval, BailSeen, OthersLeave, NoBarrier,
                      HasLeft, Out
  <2> QED BY <2>2, <2>3 DEF Inv
<1>5. ASSUME NEW c \in CPU, Work(c) \/ Update(c) PROVE Inv'
  BY <1>5, InputAssumption, AdvanceInv DEF Work, Update, At
<1>6. ASSUME NEW c \in CPU, Poll(c) PROVE Inv'
  <2>1. ~HasLeft(c) /\ ~waiting[c] /\ Program[pc[c]] = "poll" /\ Advance(c)
        /\ UNCHANGED waiting
    BY <1>6 DEF Poll, At
  <2>2. CASE UNCHANGED bail
    BY <2>1, <2>2, AdvanceInv
  <2>3. CASE ~bail /\ bail' = TRUE
    <3> DEFINE p == pc[c]
    <3>1. /\ p \in 2 .. Len(Program) - 1 /\ p \in Nat
          /\ Program[p - 1] = "barrier" /\ Program[p + 1] = "barrier"
      BY <2>1, PollAssumption, ProgramLength DEF Inv, TypeOK, HasLeft
    <3>2. \A d \in CPU : pc[d] \in 1 .. Len(Program) + 1 /\ pc[d] \in Nat
      BY ProgramLength DEF Inv, TypeOK
    <3>3. \A d \in CPU : ~HasLeft(d)
      <4> SUFFICES ASSUME NEW d \in CPU, HasLeft(d) PROVE FALSE
        OBVIOUS
      <4>1. NoBarrier(p, Out)
        BY <2>1, <2>3 DEF Inv, OthersLeave
      <4> QED BY <4>1, <3>1, ProgramLength DEF NoBarrier
    <3>4. \A d \in CPU : pc[d] = p \/ pc[d] = p + 1
      <4> SUFFICES ASSUME NEW d \in CPU PROVE pc[d] = p \/ pc[d] = p + 1
        OBVIOUS
      <4>1. NoBarrier(p, pc[d]) /\ NoBarrier(pc[d], p)
        BY <2>1, <3>3 DEF Inv, SameInterval
      <4>2. p + 1 \notin p .. pc[d] - 1 /\ p - 1 \notin pc[d] .. p - 1
        BY <4>1, <3>1 DEF NoBarrier
      <4> QED BY <4>2, <3>1, <3>2, ProgramLength
    <3>5. /\ pc' \in [CPU -> 1 .. Out]
          /\ \A d \in CPU : pc'[d] = p \/ pc'[d] = p + 1
      BY <2>1, <3>1, <3>4, ProgramLength DEF Advance, Inv, TypeOK
    <3>6. \A d \in CPU : d # c => pc'[d] = pc[d]
      BY <2>1 DEF Advance, Inv, TypeOK
    <3>7. \A d \in CPU : ~HasLeft(d)'
      BY <3>1, <3>5, ProgramLength DEF HasLeft, Out
    <3>8. TypeOK'
      BY <2>1, <2>3, <3>5 DEF Inv, TypeOK, Out
    <3>9. SameInterval'
      <4> SUFFICES ASSUME NEW a \in CPU, NEW b \in CPU,
                          NEW k \in pc'[a] .. pc'[b] - 1
                   PROVE  Program[k] # "barrier"
        BY DEF SameInterval, NoBarrier
      <4>1. k = p
        BY <3>1, <3>5
      <4> QED BY <4>1, <2>1
    <3>10. BailSeen'
      <4> SUFFICES ASSUME NEW a \in CPU, NEW k \in 1 .. pc'[a] - 1,
                          Program[k] = "bail"
                   PROVE  \E j \in k + 1 .. pc'[a] - 1 : Program[j] = "barrier"
        BY DEF BailSeen
      <4>1. k # p /\ k # p - 1
        BY <2>1, <3>1
      <4>2. p - 1 \in k + 1 .. pc'[a] - 1
        BY <4>1, <3>1, <3>5
      <4> QED BY <4>2, <3>1
    <3>11. OthersLeave' /\ WaitsAtBarrier'
      BY <2>1, <3>6, <3>7 DEF OthersLeave, Inv, WaitsAtBarrier
    <3> QED BY <3>8, <3>9, <3>10, <3>11 DEF Inv
  <2>4. bail' = bail \/ bail' = TRUE
    BY <1>6 DEF Poll, Input
  <2> QED BY <2>2, <2>3, <2>4 DEF Inv, TypeOK
<1>7. ASSUME NEW c \in CPU, Bailout(c) PROVE Inv'
  <2>1. ~HasLeft(c) /\ ~waiting[c] /\ Program[pc[c]] = "bail"
        /\ UNCHANGED <<waiting, bail>>
    BY <1>7 DEF Bailout, At
  <2>2. CASE ~bail
    BY <1>7, <2>1, <2>2, AdvanceInv DEF Bailout
  <2>3. CASE bail
    <3> DEFINE p == pc[c]
    <3>1. p \in 1 .. Len(Program) /\ p \in Nat
      BY <2>1, ProgramLength DEF Inv, TypeOK, HasLeft
    <3>2. pc' = [pc EXCEPT ![c] = Out]
      BY <1>7, <2>3 DEF Bailout
    <3>3. /\ pc'[c] = Out
          /\ \A d \in CPU : d # c => pc'[d] = pc[d] /\ HasLeft(d)' = HasLeft(d)
          /\ \A d \in CPU : ~HasLeft(d)' => d # c
      BY <3>2 DEF Inv, TypeOK, HasLeft, Out
    <3>4. TypeOK'
      BY <2>1, <3>2, ProgramLength DEF Inv, TypeOK, Out
    <3>5. SameInterval' /\ BailSeen' /\ WaitsAtBarrier'
      BY <2>1, <3>3 DEF Inv, SameInterval, BailSeen, WaitsAtBarrier, NoBarrier
    <3>6. OthersLeave'
      <4> SUFFICES ASSUME NEW a \in CPU, NEW d \in CPU, HasLeft(d)', ~HasLeft(a)'
                   PROVE  \/ NoBarrier(pc[a], Out)
                          \/ \E b \in pc[a] .. Len(Program) :
                               Program[b] = "bail" /\ NoBarrier(pc[a], b)
        BY <2>1, <2>3, <3>3 DEF OthersLeave, Out, NoBarrier
      <4>1. a # c /\ ~HasLeft(a) /\ pc[a] \in 1 .. Len(Program) /\ pc[a] \in Nat
        BY <3>3, ProgramLength DEF Inv, TypeOK, HasLeft
      <4>2. CASE d # c
        BY <4>1, <4>2, <3>3 DEF Inv, OthersLeave
      <4>3. CASE d = c
        <5>1. NoBarrier(pc[a], p) /\ NoBarrier(p, pc[a])
          BY <2>1, <4>1 DEF Inv, SameInterval
        <5>2. pc[a] <= p
          <6> SUFFICES ASSUME p < pc[a] PROVE FALSE
            BY <3>1, <4>1
          <6>1. p \in 1 .. pc[a] - 1
            BY <3>1, <4>1
          <6>2. PICK j \in p + 1 .. pc[a] - 1 : Program[j] = "barrier"
            BY <6>1, <2>1, <2>3, <4>1 DEF Inv, BailSeen
          <6> QED BY <6>2, <5>1, <3>1, <4>1 DEF NoBarrier
        <5>3. p \in pc[a] .. Len(Program)
          BY <5>2, <3>1, <4>1
        <5> QED BY <5>1, <5>3, <2>1
      <4> QED BY <4>2, <4>3
    <3> QED BY <3>4, <3>5, <3>6 DEF Inv
  <2> QED BY <2>2, <2>3
<1> QED BY <1>1, <1>2, <1>3, <1>4, <1>5, <1>6, <1>7 DEF Next, Step

\* The inductive invariant holds in every behaviour.
THEOREM InvHolds ==
  ASSUME Pollers = {}, ~EccInput
  PROVE  SafeSpec => []Inv
<1>1. Inv /\ [Next]_vars => Inv'
  BY InvStep
<1> QED BY <1>1, InitInv, PTL DEF SafeSpec

\* Type correctness of the cores' positions in the test and of bail.
THEOREM TypeCorrect ==
  ASSUME Pollers = {}, ~EccInput
  PROVE  SafeSpec => []TypeOK
<1>1. Inv => TypeOK
  BY DEF Inv
<1> QED BY <1>1, InvHolds, PTL

\* BAILOUT (test_helper.h) never leaves a core waiting on run_barrier for one
\* that has left, when keys are only polled between the two waits of do_tick:
\* for any number of cores, segments, blocks and phases of the test.
THEOREM NoneLeftBehind ==
  ASSUME Pollers = {}, ~EccInput
  PROVE  SafeSpec => []LeaveTogether
<1> QED BY InvHolds, InvLeave, PTL

-----------------------------------------------------------------------------
(***************************************************************************)
(* What calculate_chunk guarantees for every segment, number of cores and  *)
(* alignment: the chunks lie in the segment, no word belongs to two cores, *)
(* and fewer than one alignment unit per core belong to nobody.            *)
(***************************************************************************)
\* Rounding down takes away less than the alignment (round_down).
LEMMA RoundDownBounds ==
  ASSUME NEW v \in Nat, NEW a \in Nat \ {0}
  PROVE  /\ RoundDown(v, a) \in Nat
         /\ RoundDown(v, a) <= v
         /\ v - RoundDown(v, a) < a
<1>1. v % a \in 0 .. (a - 1)
  OBVIOUS
<1>2. v % a <= v
  <2>1. CASE v < a
    BY <2>1
  <2>2. CASE v >= a
    BY <1>1, <2>2
  <2> QED BY <2>1, <2>2
<1> QED BY <1>1, <1>2 DEF RoundDown

\* Division by the number of cores loses less than one word per core.
LEMMA DivBounds ==
  ASSUME NEW v \in Nat, NEW n \in Nat \ {0}
  PROVE  /\ v \div n \in Nat
         /\ n * (v \div n) <= v
         /\ v - n * (v \div n) < n
<1>1. v \div n \in Nat /\ v % n \in 0 .. (n - 1)
  OBVIOUS
<1>2. v = n * (v \div n) + (v % n)
  OBVIOUS
<1>3. n * (v \div n) \in Nat
  BY <1>1
<1> DEFINE q == n * (v \div n)
           r == v % n
<1>4. q \in Nat /\ r \in 0 .. (n - 1) /\ v = q + r
  BY <1>1, <1>2, <1>3
<1> HIDE DEF q, r
<1>5. q <= v /\ v - q < n
  BY <1>4
<1> QED BY <1>1, <1>5 DEF q

\* Products of naturals keep the order.
LEMMA TimesMonotonic ==
  ASSUME NEW n \in Nat, NEW a \in Nat, NEW b \in Nat, a <= b
  PROVE  n * a <= n * b
<1>1. PICK d \in Nat : b = a + d
  <2> WITNESS b - a \in Nat
  <2> QED OBVIOUS
<1>2. n * b = n * a + n * d
  BY <1>1
<1>3. n * a \in Nat /\ n * d \in Nat
  OBVIOUS
<1> DEFINE x == n * a
           y == n * d
           z == n * b
<1>4. x \in Nat /\ y \in Nat /\ z = x + y
  BY <1>2, <1>3
<1> HIDE DEF x, y, z
<1>5. x <= z
  BY <1>4
<1> QED BY <1>5 DEF x, z

\* The size of a chunk, in words.
ShareSize(seg, n, align) == RoundDown((seg.end - seg.start + 1) \div n, align)

Length(seg) == seg.end - seg.start + 1

\* The chunks together are no longer than the segment and leave less than a unit per core.
LEMMA SizeBounds ==
  ASSUME NEW seg \in [start : Nat, end : Nat], seg.start <= seg.end,
         NEW n \in Nat \ {0}, NEW align \in Nat \ {0}
  PROVE  /\ ShareSize(seg, n, align) \in Nat
         /\ n * ShareSize(seg, n, align) <= Length(seg)
         /\ Length(seg) < n * ShareSize(seg, n, align) + n * align
<1> DEFINE len == seg.end - seg.start + 1
           q == len \div n
           s == RoundDown(q, align)
<1>1. len \in Nat
  OBVIOUS
<1>2. q \in Nat /\ n * q <= len /\ len - n * q < n
  BY <1>1, DivBounds
<1>3. s \in Nat /\ s <= q /\ q - s < align
  BY <1>2, RoundDownBounds
<1> HIDE DEF s, q, len
<1>4. n * s <= n * q
  BY <1>2, <1>3, TimesMonotonic
<1>5. q + 1 <= s + align
  BY <1>2, <1>3
<1>6. n * (q + 1) <= n * (s + align)
  <2>1. q + 1 \in Nat /\ s + align \in Nat
    BY <1>2, <1>3
  <2> QED BY <1>5, <2>1, TimesMonotonic
<1>7. n * (q + 1) = n * q + n /\ n * (s + align) = n * s + n * align
  BY <1>2, <1>3
<1>8. n * q \in Nat /\ n * s \in Nat /\ n * align \in Nat
  BY <1>2, <1>3
<1> DEFINE nq == n * q
           ns == n * s
           na == n * align
<1>9. nq \in Nat /\ ns \in Nat /\ na \in Nat /\ ns <= nq /\ nq <= len /\ len - nq < n
       /\ nq + n <= ns + na
  BY <1>2, <1>4, <1>6, <1>7, <1>8
<1> HIDE DEF nq, ns, na
<1>10. ns <= len /\ len < ns + na
  BY <1>1, <1>9
<1>11. s \in Nat /\ n * s <= len /\ len < n * s + n * align
  BY <1>3, <1>10 DEF ns, na
<1> QED BY <1>11 DEF s, q, len, ShareSize, Length

\* Chunk k of n begins k sizes after the start of the segment, has as many words as the
\* others and ends in the segment: the last comparison of calculate_chunk never cuts one.
LEMMA ShareBounds ==
  ASSUME NEW seg \in [start : Nat, end : Nat], seg.start <= seg.end,
         NEW n \in Nat \ {0}, NEW align \in Nat \ {0}, NEW k \in 0 .. (n - 1)
  PROVE  LET size == ShareSize(seg, n, align)
             chunk == Share(seg, n, k, align)
         IN /\ chunk.start = seg.start + size * k
            /\ chunk.end = seg.start + size * k + size - 1
            /\ chunk.start \in Nat /\ chunk.start >= seg.start
            /\ chunk.end \in Int /\ chunk.end <= seg.end
<1> DEFINE size == ShareSize(seg, n, align)
           chunk == Share(seg, n, k, align)
<1>1. size \in Nat /\ n * size <= Length(seg)
  BY SizeBounds
<1> HIDE DEF size
<1>2. (k + 1) * size <= n * size
  <2>1. size * (k + 1) <= size * n
    BY <1>1, TimesMonotonic
  <2> QED BY <1>1, <2>1
<1>3. (k + 1) * size = size * k + size /\ size * k \in Nat
  BY <1>1
<1> DEFINE sk == size * k
<1>4. sk \in Nat /\ sk + size <= Length(seg)
  <2>1. n * size \in Nat
    BY <1>1
  <2> QED BY <1>1, <1>2, <1>3, <2>1 DEF Length
<1>5. chunk = [start |-> seg.start + sk,
               end |-> IF seg.start + sk + size - 1 > seg.end THEN seg.end
                       ELSE seg.start + sk + size - 1]
  BY DEF Share, ShareSize, size
<1> HIDE DEF sk, chunk
<1>6. seg.start + sk + size - 1 <= seg.end
  BY <1>1, <1>4 DEF Length
<1>7. chunk = [start |-> seg.start + sk, end |-> seg.start + sk + size - 1]
  BY <1>1, <1>4, <1>5, <1>6
<1>8. /\ chunk.start = seg.start + sk
      /\ chunk.end = seg.start + sk + size - 1
      /\ chunk.start \in Nat /\ chunk.start >= seg.start
      /\ chunk.end \in Int /\ chunk.end <= seg.end
  BY <1>1, <1>4, <1>6, <1>7
<1> QED BY <1>8 DEF sk, chunk, size

\* No two cores test the same word, and none tests a word outside the segment, whatever the
\* segment, the number of cores and the alignment the test asks for (calculate_chunk).
THEOREM ChunksApart ==
  ASSUME NEW seg \in [start : Nat, end : Nat], seg.start <= seg.end,
         NEW n \in Nat \ {0}, NEW align \in Nat \ {0},
         NEW k \in 0 .. (n - 1), NEW l \in 0 .. (n - 1), k # l
  PROVE  /\ Words(Share(seg, n, k, align)) \subseteq seg.start .. seg.end
         /\ Words(Share(seg, n, k, align)) \cap Words(Share(seg, n, l, align)) = {}
<1> DEFINE size == ShareSize(seg, n, align)
           C(i) == Share(seg, n, i, align)
<1>1. \A i \in 0 .. (n - 1) : /\ C(i).start = seg.start + size * i
                              /\ C(i).end = seg.start + size * i + size - 1
                              /\ C(i).start \in Nat /\ C(i).start >= seg.start
                              /\ C(i).end \in Int /\ C(i).end <= seg.end
  BY ShareBounds
<1>2. size \in Nat
  BY SizeBounds
<1> HIDE DEF size, C
<1>3. \A i, j \in 0 .. (n - 1) : i < j => C(i).end < C(j).start
  <2> SUFFICES ASSUME NEW i \in 0 .. (n - 1), NEW j \in 0 .. (n - 1), i < j
               PROVE  C(i).end < C(j).start
    OBVIOUS
  <2>1. size * (i + 1) <= size * j
    BY <1>2, TimesMonotonic
  <2>2. size * (i + 1) = size * i + size /\ size * i \in Nat /\ size * j \in Nat
    BY <1>2
  <2> DEFINE si == size * i
             sj == size * j
  <2>3. si \in Nat /\ sj \in Nat /\ si + size <= sj
    BY <2>1, <2>2
  <2>4. C(i).end = seg.start + si + size - 1 /\ C(j).start = seg.start + sj
    BY <1>1
  <2> HIDE DEF si, sj
  <2> QED BY <1>2, <2>3, <2>4
<1>4. Words(C(k)) \subseteq seg.start .. seg.end
  BY <1>1 DEF Words
<1>5. C(k).end < C(l).start \/ C(l).end < C(k).start
  BY <1>3
<1>6. Words(C(k)) \cap Words(C(l)) = {}
  <2>1. /\ C(k).start \in Int /\ C(k).end \in Int
        /\ C(l).start \in Int /\ C(l).end \in Int
    BY <1>1
  <2> QED BY <1>5, <2>1 DEF Words
<1> QED BY <1>4, <1>6 DEF C

\* What the cores leave out is at the end of the segment and shorter than one alignment unit
\* per core: every other word belongs to some core (calculate_chunk).
THEOREM TailShort ==
  ASSUME NEW seg \in [start : Nat, end : Nat], seg.start <= seg.end,
         NEW n \in Nat \ {0}, NEW align \in Nat \ {0}
  PROVE  seg.end - Share(seg, n, n - 1, align).end < n * align
<1> DEFINE size == ShareSize(seg, n, align)
           last == Share(seg, n, n - 1, align)
<1>1. n - 1 \in 0 .. (n - 1)
  OBVIOUS
<1>2. last.end = seg.start + size * (n - 1) + size - 1
  BY <1>1, ShareBounds
<1>3. size \in Nat /\ Length(seg) < n * size + n * align
  BY SizeBounds
<1> HIDE DEF size, last
<1>4. size * (n - 1) + size = n * size /\ n * size \in Nat /\ n * align \in Nat
      /\ size * (n - 1) \in Nat
  BY <1>3
<1> DEFINE ns == n * size
           na == n * align
           sn == size * (n - 1)
<1>5. ns \in Nat /\ na \in Nat /\ sn \in Nat /\ sn + size = ns
      /\ last.end = seg.start + sn + size - 1 /\ Length(seg) < ns + na
  BY <1>2, <1>3, <1>4
<1> HIDE DEF ns, na, sn
<1>6. seg.end - last.end < na
  BY <1>3, <1>5 DEF Length
<1> QED BY <1>6 DEF na, last

\* Two chunks that follow each other leave no word between them (calculate_chunk).
THEOREM NoGap ==
  ASSUME NEW seg \in [start : Nat, end : Nat], seg.start <= seg.end,
         NEW n \in Nat \ {0}, NEW align \in Nat \ {0},
         NEW k \in 0 .. (n - 1), k + 1 \in 0 .. (n - 1)
  PROVE  Share(seg, n, k + 1, align).start = Share(seg, n, k, align).end + 1
<1> DEFINE size == ShareSize(seg, n, align)
<1>1. size \in Nat
  BY SizeBounds
<1>2. Share(seg, n, k + 1, align).start = seg.start + size * (k + 1)
  BY ShareBounds
<1>3. Share(seg, n, k, align).end = seg.start + size * k + size - 1
  BY ShareBounds
<1> HIDE DEF size
<1>4. size * (k + 1) = size * k + size /\ size * k \in Nat
  BY <1>1
<1> QED BY <1>1, <1>2, <1>3, <1>4

-----------------------------------------------------------------------------
(***************************************************************************)
(* Startup                                                                 *)
(***************************************************************************)

\* Any set of cores is finite.
LEMMA ProcSets ==
  ASSUME NEW S \in SUBSET Procs
  PROVE  IsFiniteSet(S) /\ Cardinality(S) \in 0 .. Num /\ Cardinality(Procs) = Num
<1>1. IsFiniteSet(Procs) /\ Cardinality(Procs) = Num
  BY ProcAssumption, FS_Interval DEF Procs
<1>2. IsFiniteSet(S) /\ Cardinality(S) \in Nat /\ Cardinality(S) <= Cardinality(Procs)
  BY <1>1, FS_Subset, FS_CardinalityType
<1> QED BY <1>1, <1>2, ProcAssumption

\* One core more: one more to count.
LEMMA OneMore ==
  ASSUME NEW S \in SUBSET Procs, NEW c \in Procs \ S
  PROVE  /\ Cardinality(S \cup {c}) = Cardinality(S) + 1
         /\ Cardinality(S) <= Num - 1
         /\ Num - Cardinality(S) <= 1 => S = Procs \ {c}
<1>1. IsFiniteSet(S) /\ Cardinality(S) \in 0 .. Num BY ProcSets
<1>2. Cardinality(S \cup {c}) = Cardinality(S) + 1 BY <1>1, FS_AddElement
<1>3. S \cup {c} \in SUBSET Procs OBVIOUS
<1>4. Cardinality(S \cup {c}) \in 0 .. Num /\ IsFiniteSet(Procs) /\ Cardinality(Procs) = Num
  BY <1>3, ProcSets
<1>5. ASSUME Num - Cardinality(S) <= 1 PROVE S = Procs \ {c}
  <2>1. Cardinality(S \cup {c}) = Cardinality(Procs)
    BY <1>1, <1>2, <1>4, <1>5, ProcAssumption
  <2>2. S \cup {c} = Procs BY <2>1, <1>3, <1>4, FS_Subset
  <2> QED BY <2>2
<1> QED BY <1>1, <1>2, <1>4, <1>5, ProcAssumption

\* The addresses are positive.
LEMMA AddrFacts ==
  /\ \A a \in LoadAddrs : a \in Nat /\ a # 0
  /\ Low \in LoadAddrs /\ High \in LoadAddrs /\ BootAddrs \subseteq LoadAddrs
  /\ 0 \in Procs /\ Num \in Nat /\ Num > 0
BY AddrAssumption, ProcAssumption DEF LoadAddrs, Procs

\* What is written into a copy keeps its form.
LEMMA ContentsKept ==
  ASSUME NEW r \in Contents
  PROVE  /\ \A m \in BOOLEAN : /\ [r EXCEPT !.startup_mutex = m] \in Contents
                               /\ [r EXCEPT !.boot_params = m] \in Contents
                               /\ [r EXCEPT !.init_complete = m] \in Contents
                               /\ [r EXCEPT !.init_complete = m, !.init_state = 2] \in Contents
         /\ ZeroBss(r) \in Contents
         /\ \A m \in Nat, x \in Int :
              GetDynamicInfo([r EXCEPT !.last_load_addr = m], x) \in Contents
         /\ \A p \in Pointers, x \in Int, w \in {0, 1} :
              /\ [r EXCEPT !.slot[p] = x] \in Contents
              /\ [r EXCEPT !.window_num = w, !.slot[p] = x] \in Contents
<1>1. \A m \in BOOLEAN : [r EXCEPT !.startup_mutex = m] \in Contents BY DEF Contents
<1>2. \A m \in BOOLEAN : [r EXCEPT !.boot_params = m] \in Contents BY DEF Contents
<1>3. \A m \in BOOLEAN : [r EXCEPT !.init_complete = m] \in Contents BY DEF Contents
<1>4. \A m \in BOOLEAN : [r EXCEPT !.init_complete = m, !.init_state = 2] \in Contents
  BY DEF Contents
<1>5. ZeroBss(r) \in Contents BY DEF Contents, ZeroBss
<1>6. ASSUME NEW m \in Nat, NEW x \in Int
      PROVE  GetDynamicInfo([r EXCEPT !.last_load_addr = m], x) \in Contents
  <2> DEFINE s == [r EXCEPT !.last_load_addr = m]
  <2>1. s \in Contents BY DEF Contents
  <2> HIDE DEF s
  <2>2. [s EXCEPT !.table = @ + x] \in Contents BY <2>1 DEF Contents
  <2> QED BY <2>2 DEF GetDynamicInfo, s
<1>7. \A p \in Pointers, x \in Int : [r EXCEPT !.slot[p] = x] \in Contents BY DEF Contents
<1>8. \A p \in Pointers, x \in Int, w \in {0, 1} :
        [r EXCEPT !.window_num = w, !.slot[p] = x] \in Contents
  BY DEF Contents
<1> QED BY <1>1, <1>2, <1>3, <1>4, <1>5, <1>6, <1>7, <1>8

\* A step that writes into one copy leaves the others alone.
LEMMA OneCopy ==
  ASSUME copy \in [LoadAddrs -> Contents], NEW a \in LoadAddrs, NEW r \in Contents,
         copy' = [copy EXCEPT ![a] = r]
  PROVE  /\ copy' \in [LoadAddrs -> Contents]
         /\ copy'[a] = r /\ \A b \in LoadAddrs \ {a} : copy'[b] = copy[b]
OBVIOUS

\* A core takes the lock of its copy.
LEMMA EnterType ==
  ASSUME StartupTypeOK, NEW c \in Procs, Enter(c)
  PROVE  /\ StartupTypeOK'
         /\ copy'[img[c]] = [copy[img[c]] EXCEPT !.startup_mutex = TRUE]
         /\ \A b \in LoadAddrs \ {img[c]} : copy'[b] = copy[b]
<1>1. copy[img[c]] \in Contents /\ img[c] \in LoadAddrs BY DEF StartupTypeOK
<1>2. copy' = [copy EXCEPT ![img[c]] = [copy[img[c]] EXCEPT !.startup_mutex = TRUE]]
  BY DEF Enter, StartupTypeOK
<1>3. [copy[img[c]] EXCEPT !.startup_mutex = TRUE] \in Contents BY <1>1, ContentsKept
<1>4. /\ copy' \in [LoadAddrs -> Contents]
      /\ copy'[img[c]] = [copy[img[c]] EXCEPT !.startup_mutex = TRUE]
      /\ \A b \in LoadAddrs \ {img[c]} : copy'[b] = copy[b]
  BY <1>1, <1>2, <1>3, OneCopy DEF StartupTypeOK
<1>5. (place \in [Procs -> Places] /\ stage \in [Procs -> {"run", "arrive", "count", "wait"}])'
  BY DEF StartupTypeOK, Enter, Goto, Places, InStartup
<1> QED BY <1>4, <1>5 DEF StartupTypeOK, Enter

\* Which places are in and behind the startup code.
LEMMA PlaceSets ==
  /\ {"loader", "entry", "off"} \cap (InStartup \cup Zeroed \cup Through) = {}
  /\ "stack" \notin Zeroed /\ "stack" \notin Through /\ "stack" \in InStartup
  /\ "reloc" \in InStartup /\ "reloc" \in Zeroed /\ "reloc" \notin Through
  /\ "fix" \in InStartup /\ "fix" \in Zeroed /\ "fix" \notin Through
  /\ "unlock" \in InStartup /\ "unlock" \in Zeroed /\ "unlock" \in Through
  /\ \A p \in InMain : p \notin InStartup /\ p \in Zeroed /\ p \in Through /\ p # "fix"
  /\ "top" \in InMain /\ "go" \in InMain /\ "jump" \in InMain /\ "init" \in InMain
  /\ "copy" \in InMain /\ "locals" \in InMain
BY DEF InStartup, Zeroed, Through, InMain, Waits

\* ... and is the only one that holds it.
LEMMA EnterSound ==
  ASSUME StartupTypeOK, NEW a \in LoadAddrs, Sound(a), NEW c \in Procs, img[c] = a, Enter(c)
  PROVE  Sound(a)'
<1>1. copy'[a] = [copy[a] EXCEPT !.startup_mutex = TRUE] /\ copy[a] \in Contents
  BY EnterType DEF StartupTypeOK
<1>2. /\ copy'[a].startup_mutex
      /\ copy'[a].intact <=> copy[a].intact
      /\ copy'[a].first_boot <=> copy[a].first_boot
      /\ copy'[a].last_load_addr = copy[a].last_load_addr
      /\ copy'[a].table = copy[a].table /\ copy'[a].slot = copy[a].slot
      /\ copy'[a].window_num = copy[a].window_num
  BY <1>1 DEF Contents
<1>3. ~copy[a].startup_mutex /\ place[c] = "entry" BY DEF Enter, Here
<1>4. /\ img' = img /\ meant' = meant /\ chosen' = chosen
      /\ \A d \in Procs : place'[d] = IF d = c THEN "stack" ELSE place[d]
  BY DEF Enter, Goto, StartupTypeOK
<1>5. \A d \in Procs : ~Stands(d, a, InStartup)
  BY <1>3 DEF Sound, LockRight
<1>6. \A d \in Procs : ~Stands(d, a, {"fix"}) /\ ~Stands(d, a, {"fix"})'
  BY <1>4, <1>5, PlaceSets DEF Stands
<1>7. LockRight(a)'
  BY <1>2, <1>4, <1>5, PlaceSets DEF LockRight, Stands
<1>8. \A d \in Procs : /\ Stands(d, a, Zeroed)' <=> Stands(d, a, Zeroed)
                       /\ Stands(d, a, Through)' <=> Stands(d, a, Through)
  BY <1>3, <1>4, PlaceSets DEF Stands
<1>9. RelocRight(a)'
  <2>1. PointersAt(a, Base(a))'
    BY <1>2, <1>4, <1>6 DEF Sound, RelocRight, PointersAt, Base
  <2> QED BY <1>2, <1>6, <1>8, <2>1 DEF Sound, RelocRight
<1>10. WindowKept(a)' BY <1>2, <1>4 DEF Sound, WindowKept
<1> QED BY <1>2, <1>7, <1>9, <1>10 DEF Sound

\* The BSS is zeroed at most once.
LEMMA PrepareEffect ==
  ASSUME StartupTypeOK, NEW c \in Procs, Prepare(c)
  PROVE  /\ StartupTypeOK'
         /\ copy'[img[c]] = IF copy[img[c]].first_boot THEN ZeroBss(copy[img[c]]) ELSE copy[img[c]]
         /\ \A b \in LoadAddrs \ {img[c]} : copy'[b] = copy[b]
<1> DEFINE r == IF copy[img[c]].first_boot THEN ZeroBss(copy[img[c]]) ELSE copy[img[c]]
<1>1. copy[img[c]] \in Contents /\ img[c] \in LoadAddrs BY DEF StartupTypeOK
<1>2. copy' = [copy EXCEPT ![img[c]] = r]
  BY DEF Prepare, Here, StartupTypeOK
<1>3. r \in Contents BY <1>1, ContentsKept
<1> HIDE DEF r
<1>4. /\ copy' \in [LoadAddrs -> Contents]
      /\ copy'[img[c]] = r
      /\ \A b \in LoadAddrs \ {img[c]} : copy'[b] = copy[b]
  BY <1>1, <1>2, <1>3, OneCopy DEF StartupTypeOK
<1>5. (/\ place \in [Procs -> Places] /\ stage \in [Procs -> {"run", "arrive", "count", "wait"}]
       /\ tables \in [Procs -> LoadAddrs])'
  BY <1>1 DEF StartupTypeOK, Prepare, Goto, Places, InStartup
<1> QED BY <1>4, <1>5 DEF StartupTypeOK, Prepare, r

\* The address of the relocation table is relocated by the first core.
LEMMA RelocEffect ==
  ASSUME StartupTypeOK, NEW c \in Procs, Reloc(c)
  PROVE  /\ StartupTypeOK'
         /\ \A b \in LoadAddrs \ {img[c]} : copy'[b] = copy[b]
         /\ copy[img[c]].last_load_addr # img[c] =>
              copy'[img[c]] = GetDynamicInfo([copy[img[c]] EXCEPT !.last_load_addr = img[c]],
                                             img[c] - copy[img[c]].last_load_addr)
<1> DEFINE a == img[c]
           r == GetDynamicInfo([copy[a] EXCEPT !.last_load_addr = a], a - copy[a].last_load_addr)
<1>1. copy[a] \in Contents /\ a \in LoadAddrs /\ a \in Nat BY AddrFacts DEF StartupTypeOK
<1>2. copy[a].last_load_addr \in Nat BY <1>1 DEF Contents
<1>3. r \in Contents
  <2>1. a - copy[a].last_load_addr \in Int BY <1>1, <1>2
  <2> QED BY <1>1, <2>1, ContentsKept
<1>5. (place \in [Procs -> Places] /\ stage \in [Procs -> {"run", "arrive", "count", "wait"}])'
  BY DEF StartupTypeOK, Reloc, Goto, Places, InStartup
<1>6. CASE copy[a].last_load_addr = a
  BY <1>5, <1>6 DEF StartupTypeOK, Reloc, Here
<1>7. CASE copy[a].last_load_addr # a
  <2>1. offs' = [offs EXCEPT ![c] = a - copy[a].last_load_addr]
    BY <1>7 DEF Reloc, Here
  <2>2. copy' = [copy EXCEPT ![a] = r]
    BY <1>7, <2>1 DEF Reloc, Here, StartupTypeOK
  <2>3. offs' \in [Procs -> Int] /\ todo' \in [Procs -> SUBSET Pointers]
    <3>1. a - copy[a].last_load_addr \in Int BY <1>1, <1>2
    <3>2. todo' = [todo EXCEPT ![c] = Pointers] BY <1>7 DEF Reloc, Here
    <3> QED BY <2>1, <3>1, <3>2 DEF StartupTypeOK
  <2> HIDE DEF r
  <2>4. /\ copy' \in [LoadAddrs -> Contents]
        /\ copy'[a] = r
        /\ \A b \in LoadAddrs \ {a} : copy'[b] = copy[b]
    BY <1>1, <2>2, <1>3, OneCopy DEF StartupTypeOK
  <2> QED BY <1>5, <2>3, <2>4, <1>7 DEF StartupTypeOK, Reloc, r
<1> QED BY <1>6, <1>7

\* One pointer is relocated.
LEMMA FixEffect ==
  ASSUME StartupTypeOK, NEW c \in Procs, Fix(c)
  PROVE  /\ StartupTypeOK'
         /\ \A b \in LoadAddrs \ {img[c]} : copy'[b] = copy[b]
         /\ \E p \in todo[c] :
              /\ todo' = [todo EXCEPT ![c] = @ \ {p}]
              /\ copy'[img[c]] = [copy[img[c]] EXCEPT !.slot[p] =
                   IF Rela THEN Relocated64(img[c], offs[c], p, copy[img[c]].slot[p])
                   ELSE Relocated32(offs[c], copy[img[c]].slot[p])]
<1> DEFINE a == img[c]
           x(p) == IF Rela THEN Relocated64(a, offs[c], p, copy[a].slot[p])
                   ELSE Relocated32(offs[c], copy[a].slot[p])
           r(p) == [copy[a] EXCEPT !.slot[p] = x(p)]
<1>1. /\ copy[a] \in Contents /\ a \in LoadAddrs /\ a \in Nat
      /\ offs[c] \in Int /\ todo[c] \subseteq Pointers
  BY AddrFacts DEF StartupTypeOK
<1>2. PICK p \in todo[c] :
        /\ copy' = [copy EXCEPT ![a].slot[p] =
                     IF Rela THEN Relocated64(a, offs[c], p, @) ELSE Relocated32(offs[c], @)]
        /\ todo' = [todo EXCEPT ![c] = @ \ {p}]
  BY DEF Fix
<1>3. copy' = [copy EXCEPT ![a] = r(p)]
  BY <1>2, <1>1 DEF StartupTypeOK, Contents
<1>4. copy[a].slot[p] \in Int /\ Addend[p] \in Int /\ p \in Pointers
  BY <1>1, AddrAssumption DEF Contents
<1>5. x(p) \in Int BY <1>1, <1>4 DEF Relocated64, Relocated32
<1>6. r(p) \in Contents BY <1>1, <1>4, <1>5, ContentsKept
<1> HIDE DEF r
<1>7. /\ copy' \in [LoadAddrs -> Contents]
      /\ copy'[a] = r(p)
      /\ \A b \in LoadAddrs \ {a} : copy'[b] = copy[b]
    BY <1>1, <1>3, <1>6, OneCopy DEF StartupTypeOK
<1>8. todo' \in [Procs -> SUBSET Pointers] BY <1>2 DEF StartupTypeOK
<1>9. StartupTypeOK' BY <1>7, <1>8 DEF StartupTypeOK, Fix
<1> QED BY <1>2, <1>7, <1>9 DEF r

\* The lock is released.
LEMMA UnlockEffect ==
  ASSUME StartupTypeOK, NEW c \in Procs, Unlock(c)
  PROVE  /\ StartupTypeOK'
         /\ copy'[img[c]] = [copy[img[c]] EXCEPT !.startup_mutex = FALSE]
         /\ \A b \in LoadAddrs \ {img[c]} : copy'[b] = copy[b]
<1>1. copy[img[c]] \in Contents /\ img[c] \in LoadAddrs BY DEF StartupTypeOK
<1>2. copy' = [copy EXCEPT ![img[c]] = [copy[img[c]] EXCEPT !.startup_mutex = FALSE]]
  BY DEF Unlock, StartupTypeOK
<1>3. [copy[img[c]] EXCEPT !.startup_mutex = FALSE] \in Contents BY <1>1, ContentsKept
<1>4. /\ copy' \in [LoadAddrs -> Contents]
      /\ copy'[img[c]] = [copy[img[c]] EXCEPT !.startup_mutex = FALSE]
      /\ \A b \in LoadAddrs \ {img[c]} : copy'[b] = copy[b]
  BY <1>1, <1>2, <1>3, OneCopy DEF StartupTypeOK
<1>5. (place \in [Procs -> Places] /\ stage \in [Procs -> {"run", "arrive", "count", "wait"}])'
  BY DEF StartupTypeOK, Unlock, Goto, WaitAt, Places, InMain, Waits
<1> QED BY <1>4, <1>5 DEF StartupTypeOK, Unlock

\* The boot parameters are saved.
LEMMA BootEntryEffect ==
  ASSUME StartupTypeOK, BootEntry
  PROVE  /\ StartupTypeOK'
         /\ copy'[img[0]] = [copy[img[0]] EXCEPT !.boot_params = TRUE]
         /\ \A b \in LoadAddrs \ {img[0]} : copy'[b] = copy[b]
<1>1. copy[img[0]] \in Contents /\ img[0] \in LoadAddrs BY AddrFacts DEF StartupTypeOK
<1>2. copy' = [copy EXCEPT ![img[0]] = [copy[img[0]] EXCEPT !.boot_params = TRUE]]
  BY DEF BootEntry, StartupTypeOK
<1>3. [copy[img[0]] EXCEPT !.boot_params = TRUE] \in Contents BY <1>1, ContentsKept
<1>4. /\ copy' \in [LoadAddrs -> Contents]
      /\ copy'[img[0]] = [copy[img[0]] EXCEPT !.boot_params = TRUE]
      /\ \A b \in LoadAddrs \ {img[0]} : copy'[b] = copy[b]
  BY <1>1, <1>2, <1>3, OneCopy DEF StartupTypeOK
<1>5. (place \in [Procs -> Places] /\ stage \in [Procs -> {"run", "arrive", "count", "wait"}])'
  BY DEF StartupTypeOK, BootEntry, Goto, Places
<1> QED BY <1>4, <1>5 DEF StartupTypeOK, BootEntry

\* The program is copied out of the unusable place, never over itself.
LEMMA RelocateToEffect ==
  ASSUME StartupTypeOK, RelocateTo, NEW a \in LoadAddrs, img[0] = a
  PROVE  \E to \in {Low, High} :
         /\ StartupTypeOK' /\ to # a
         /\ copy'[to] = [copy[a] EXCEPT !.init_complete = TRUE]
         /\ \A b \in LoadAddrs \ {to} : copy'[b] = copy[b]
         /\ img' = [img EXCEPT ![0] = to]
<1> DEFINE to == IF Overlap(Low, a) THEN High ELSE Low
           r == [copy[a] EXCEPT !.init_complete = TRUE]
<1>1. a \in Unusable /\ to # a BY AddrAssumption DEF RelocateTo
<1>2. /\ copy' = [copy EXCEPT ![to] = r]
      /\ flags' = [flags EXCEPT ![to] = [c \in Procs |-> FALSE]]
      /\ img' = [img EXCEPT ![0] = to]
  BY DEF RelocateTo, Here
<1>3. copy[a] \in Contents /\ to \in LoadAddrs /\ to \in {Low, High} BY AddrFacts DEF StartupTypeOK
<1>4. r \in Contents BY <1>3, ContentsKept
<1> HIDE DEF r, to
<1>5. /\ copy' \in [LoadAddrs -> Contents]
      /\ copy'[to] = r
      /\ \A b \in LoadAddrs \ {to} : copy'[b] = copy[b]
  BY <1>2, <1>3, <1>4, OneCopy DEF StartupTypeOK
<1>6. (/\ place \in [Procs -> Places] /\ stage \in [Procs -> {"run", "arrive", "count", "wait"}]
       /\ img \in [Procs -> LoadAddrs] /\ flags \in [LoadAddrs -> [Procs -> BOOLEAN]])'
  BY <1>2, <1>3, AddrFacts DEF StartupTypeOK, RelocateTo, Goto, Places
<1>7. StartupTypeOK' BY <1>5, <1>6 DEF StartupTypeOK, RelocateTo
<1> QED BY <1>1, <1>2, <1>3, <1>5, <1>7 DEF r

\* The other cores are started in the same copy.
LEMMA StartOthersEffect ==
  ASSUME StartupTypeOK, StartOthers
  PROVE  /\ StartupTypeOK'
         /\ copy'[img[0]] = [copy[img[0]] EXCEPT !.init_complete = TRUE, !.init_state = 2]
         /\ \A b \in LoadAddrs \ {img[0]} : copy'[b] = copy[b]
<1> DEFINE r == [copy[img[0]] EXCEPT !.init_complete = TRUE, !.init_state = 2]
<1>1. copy[img[0]] \in Contents /\ img[0] \in LoadAddrs BY AddrFacts DEF StartupTypeOK
<1>2. copy' = [copy EXCEPT ![img[0]] = r]
  BY DEF StartOthers, StartupTypeOK
<1>3. r \in Contents BY <1>1, ContentsKept
<1> HIDE DEF r
<1>4. /\ copy' \in [LoadAddrs -> Contents]
      /\ copy'[img[0]] = r
      /\ \A b \in LoadAddrs \ {img[0]} : copy'[b] = copy[b]
  BY <1>1, <1>2, <1>3, OneCopy DEF StartupTypeOK
<1>5. (/\ place \in [Procs -> Places] /\ stage \in [Procs -> {"run", "arrive", "count", "wait"}])'
  BY DEF StartOthers, StartupTypeOK, Places, InMain, Waits
<1>6. (/\ flags \in [LoadAddrs -> [Procs -> BOOLEAN]]
       /\ img \in [Procs -> LoadAddrs] /\ tables \in [Procs -> LoadAddrs])'
  BY <1>1 DEF StartupTypeOK, StartOthers
<1> QED BY <1>4, <1>5, <1>6 DEF StartupTypeOK, StartOthers, r

\* The master chooses a window and may move a pointer; the others change nothing.
LEMMA TopEffect ==
  ASSUME StartupTypeOK, NEW c \in Procs, Top(c), NEW a \in LoadAddrs, img[c] = a
  PROVE  /\ StartupTypeOK'
         /\ \A b \in LoadAddrs \ {a} : copy'[b] = copy[b]
         /\ \/ UNCHANGED <<copy, meant, chosen>>
            \/ \E w \in {0, 1}, p \in Pointers, q \in Pointers :
                 /\ chosen'.window = w
                 /\ meant' = [meant EXCEPT ![p] = Addend[q]]
                 /\ copy'[a] = [copy[a] EXCEPT !.window_num = w, !.slot[p] = a + Addend[q]]
<1> DEFINE r(w, p, q) == [copy[a] EXCEPT !.window_num = w, !.slot[p] = a + Addend[q]]
<1>1. copy[a] \in Contents /\ a \in LoadAddrs /\ a \in Nat BY AddrFacts DEF StartupTypeOK
<1>2. (place \in [Procs -> Places] /\ stage \in [Procs -> {"run", "arrive", "count", "wait"}])'
  BY DEF StartupTypeOK, Top, WaitAt, Places, InMain, Waits
<1>3. CASE c # Leader
  BY <1>2, <1>3 DEF StartupTypeOK, Top
<1>4. CASE c = Leader
  <2>1. PICK w \in {0, 1}, p \in Movable, q \in Pointers :
          /\ chosen.moves < MaxMoves
          /\ chosen' = [window |-> w, moves |-> chosen.moves + 1]
          /\ meant' = [meant EXCEPT ![p] = Addend[q]]
          /\ copy' = [copy EXCEPT ![a].window_num = w, ![a].slot[p] = a + Addend[q]]
    BY <1>4 DEF Top
  <2>2. p \in Pointers /\ Addend[q] \in Nat /\ a + Addend[q] \in Int
    BY <1>1, AddrAssumption
  <2>3. copy' = [copy EXCEPT ![a] = r(w, p, q)]
    BY <1>1, <2>1, <2>2 DEF StartupTypeOK, Contents
  <2>4. r(w, p, q) \in Contents BY <1>1, <2>2, ContentsKept
  <2> HIDE DEF r
  <2>5. /\ copy' \in [LoadAddrs -> Contents]
        /\ copy'[a] = r(w, p, q)
        /\ \A b \in LoadAddrs \ {a} : copy'[b] = copy[b]
    BY <1>1, <2>3, <2>4, OneCopy DEF StartupTypeOK
  <2>6. /\ meant' \in [Pointers -> Nat] /\ chosen' \in [window : {0, 1}, moves : Nat]
        /\ chosen'.window = w
    BY <2>1, <2>2 DEF StartupTypeOK
  <2>7. StartupTypeOK' BY <1>2, <2>5, <2>6 DEF StartupTypeOK, Top
  <2>8. /\ chosen'.window = w /\ meant' = [meant EXCEPT ![p] = Addend[q]]
        /\ copy'[a] = r(w, p, q)
    BY <2>1, <2>5, <2>6
  <2>9. \E w_1 \in {0, 1}, p_1 \in Pointers, q_1 \in Pointers :
                 /\ chosen'.window = w_1
                 /\ meant' = [meant EXCEPT ![p_1] = Addend[q_1]]
                 /\ copy'[a] = r(w_1, p_1, q_1)
    BY <2>2, <2>8
  <2> QED BY <2>5, <2>7, <2>9 DEF r
<1> QED BY <1>3, <1>4

\* A fresh copy and an overwritten one have the form of a copy.
LEMMA LoadedType == \A a \in LoadAddrs : Loaded(a) \in Contents /\ Junk(a) \in Contents
<1>1. \A a \in LoadAddrs : Loaded(a) \in Contents
  BY AddrFacts, AddrAssumption DEF Loaded, Contents
<1>2. ASSUME NEW r \in Contents
      PROVE  [r EXCEPT !.intact = FALSE, !.startup_mutex = TRUE, !.table = 0] \in Contents
  <2> DEFINE s == [r EXCEPT !.intact = FALSE, !.startup_mutex = TRUE]
  <2>1. s \in Contents BY DEF Contents
  <2> HIDE DEF s
  <2>2. [s EXCEPT !.table = 0] \in Contents BY <2>1 DEF Contents
  <2> QED BY <2>2 DEF s
<1> QED BY <1>1, <1>2 DEF Junk

\* A test leaves the copy that runs alone.
LEMMA TestWindowEffect ==
  ASSUME StartupTypeOK, NEW c \in Procs, TestWindow(c)
  PROVE  StartupTypeOK' /\ copy'[img[c]] = copy[img[c]] /\ flags'[img[c]] = flags[img[c]]
<1>2. copy' \in [LoadAddrs -> Contents] /\ copy'[img[c]] = copy[img[c]]
  BY LoadedType DEF StartupTypeOK, TestWindow
<1>3. flags' \in [LoadAddrs -> [Procs -> BOOLEAN]] /\ flags'[img[c]] = flags[img[c]]
  BY DEF StartupTypeOK, TestWindow
<1>4. (place \in [Procs -> Places] /\ stage \in [Procs -> {"run", "arrive", "count", "wait"}])'
  BY DEF StartupTypeOK, TestWindow, WaitAt, Places, InMain, Waits
<1> QED BY <1>2, <1>3, <1>4 DEF StartupTypeOK, TestWindow

\* The copy is made where the program has to go.
LEMMA CopyProgramEffect ==
  ASSUME StartupTypeOK, CopyProgram
  PROVE  /\ StartupTypeOK'
         /\ copy'[Target(img[0])] = copy[img[0]]
         /\ \A b \in LoadAddrs \ {Target(img[0])} : copy'[b] = copy[b]
<1>1. copy[img[0]] \in Contents /\ Dest(0) \in LoadAddrs /\ Dest(0) = Target(img[0])
   BY AddrFacts DEF StartupTypeOK, Dest, Target, Here
<1>2. copy' = [copy EXCEPT ![Dest(0)] = copy[img[0]]] BY DEF CopyProgram, Here
<1>3. /\ copy' \in [LoadAddrs -> Contents]
      /\ copy'[Dest(0)] = copy[img[0]]
      /\ \A b \in LoadAddrs \ {Dest(0)} : copy'[b] = copy[b]
  BY <1>1, <1>2, OneCopy DEF StartupTypeOK
<1>4. (place \in [Procs -> Places] /\ next \in 0 .. Num)'
  BY AddrFacts DEF StartupTypeOK, CopyProgram, Goto, Places, InMain
<1> QED BY <1>1, <1>3, <1>4 DEF StartupTypeOK, CopyProgram, Goto

\* The remaining steps keep the types.
LEMMA OtherTypes ==
  ASSUME StartupTypeOK, NEW c \in Procs
  PROVE  /\ Fixed(c) \/ SetFlag(c) \/ CountDown(c) \/ Resume(c) \/ RunAt(c) \/ Jump(c) => StartupTypeOK'
         /\ CopyLocals /\ next < Num => StartupTypeOK'
<1>1. CASE Fixed(c)
  BY <1>1 DEF Fixed, StartupTypeOK, Goto, Places, InStartup
<1>2. CASE SetFlag(c)
  BY <1>2 DEF SetFlag, StartupTypeOK
<1>3. CASE CountDown(c)
  <2>1. count' \in 1 .. Num
    <3>1. count \in 1 .. Num /\ Num \in 1 .. Num BY AddrFacts DEF StartupTypeOK
    <3>2. count' = IF count > 1 THEN count - 1 ELSE Num BY <1>3 DEF CountDown
    <3> QED BY <3>1, <3>2, AddrFacts
  <2>2. flags' \in [LoadAddrs -> [Procs -> BOOLEAN]]
    <3>1. flags' = flags \/ flags' = [flags EXCEPT ![img[c]] = [d \in Procs |-> FALSE]]
      BY <1>3 DEF CountDown
    <3>2. ASSUME NEW f \in [Procs -> BOOLEAN]
          PROVE  [flags EXCEPT ![img[c]] = f] \in [LoadAddrs -> [Procs -> BOOLEAN]]
      BY DEF StartupTypeOK
    <3>3. [d \in Procs |-> FALSE] \in [Procs -> BOOLEAN] OBVIOUS
    <3> QED BY <3>1, <3>2, <3>3 DEF StartupTypeOK
  <2>3. stage' \in [Procs -> {"run", "arrive", "count", "wait"}] BY <1>3 DEF CountDown, StartupTypeOK
  <2> QED BY <1>3, <2>1, <2>2, <2>3 DEF CountDown, StartupTypeOK
<1>4. CASE Resume(c)
  BY <1>4 DEF Resume, StartupTypeOK
<1>5. CASE RunAt(c)
  BY <1>5 DEF RunAt, StartupTypeOK, Goto, WaitAt, Places, InMain, Waits
<1>6. CASE Jump(c)
  BY <1>6, AddrFacts DEF Jump, StartupTypeOK, Goto, Places, Dest, Here
<1>7. ASSUME CopyLocals, next < Num PROVE StartupTypeOK'
  <2>1. next' \in 0 .. Num /\ next \in Procs
    BY <1>7, AddrFacts DEF CopyLocals, StartupTypeOK, Procs
  <2>2. flags' \in [LoadAddrs -> [Procs -> BOOLEAN]]
    BY <1>7, <2>1, AddrFacts DEF CopyLocals, StartupTypeOK, Dest
  <2>3. (place \in [Procs -> Places] /\ stage \in [Procs -> {"run", "arrive", "count", "wait"}])'
    BY <1>7 DEF CopyLocals, StartupTypeOK, WaitAt, Places, InMain, Waits
  <2> QED BY <1>7, <2>1, <2>2, <2>3 DEF CopyLocals, StartupTypeOK
<1> QED BY <1>1, <1>2, <1>3, <1>4, <1>5, <1>6, <1>7

\* A copy that nothing is written into stays sound when no core enters or leaves its code.
LEMMA SoundFrame ==
  ASSUME NEW a \in LoadAddrs, Sound(a), copy'[a] = copy[a], meant' = meant, chosen' = chosen,
         \A d \in Procs : /\ Stands(d, a, InStartup)' <=> Stands(d, a, InStartup)
                          /\ Stands(d, a, Zeroed)' => Stands(d, a, Zeroed)
                          /\ Stands(d, a, Through)' => Stands(d, a, Through)
                          /\ Stands(d, a, {"fix"})' <=> Stands(d, a, {"fix"})
                          /\ Stands(d, a, {"fix"}) => offs'[d] = offs[d] /\ todo'[d] = todo[d]
  PROVE  Sound(a)'
<1>1. LockRight(a)' BY DEF Sound, LockRight
<1>2. PointersAt(a, Base(a)) => PointersAt(a, Base(a))' BY DEF PointersAt, Base
<1>3. \A d \in Procs : Stands(d, a, {"fix"})' => HalfDone(d, a)'
  <2>1. \A d \in Procs : Stands(d, a, {"fix"}) => HalfDone(d, a) BY DEF Sound, RelocRight
  <2> QED BY <2>1 DEF HalfDone
<1>4. (\A d \in Procs : Stands(d, a, Zeroed) => ~copy[a].first_boot)' BY DEF Sound, RelocRight
<1>5. (\A c \in Procs : Stands(c, a, Through) =>
         copy[a].last_load_addr = a /\ \A d \in Procs : ~Stands(d, a, {"fix"}))'
  BY DEF Sound, RelocRight
<1>6. (\A d \in Procs : ~Stands(d, a, {"fix"}))' => PointersAt(a, Base(a))
  BY DEF Sound, RelocRight
<1>7. RelocRight(a)' BY <1>2, <1>3, <1>4, <1>5, <1>6 DEF RelocRight
<1>8. WindowKept(a)' BY DEF Sound, WindowKept
<1> QED BY <1>1, <1>7, <1>8 DEF Sound

\* Zeroing the BSS: the pointers are still as linked, and now marked so.
LEMMA PrepareSound ==
  ASSUME StartupTypeOK, NEW a \in LoadAddrs, Sound(a), NEW c \in Procs, img[c] = a, Prepare(c)
  PROVE  Sound(a)' /\ ~copy'[a].first_boot
<1>1. /\ copy'[a] = IF copy[a].first_boot THEN ZeroBss(copy[a]) ELSE copy[a]
      /\ copy[a] \in Contents
  BY PrepareEffect DEF StartupTypeOK
<1>2. /\ copy'[a].startup_mutex <=> copy[a].startup_mutex
      /\ copy'[a].intact <=> copy[a].intact
      /\ ~copy'[a].first_boot
      /\ copy'[a].last_load_addr = IF copy[a].first_boot THEN 0 ELSE copy[a].last_load_addr
      /\ copy'[a].table = copy[a].table /\ copy'[a].slot = copy[a].slot
      /\ copy'[a].window_num = IF copy[a].first_boot THEN 0 ELSE copy[a].window_num
  BY <1>1 DEF Contents, ZeroBss
<1>3. place[c] = "stack" /\ Stands(c, a, InStartup) BY PlaceSets DEF Prepare, Stands
<1>4. /\ img' = img /\ meant' = meant /\ chosen' = chosen
      /\ \A d \in Procs : place'[d] = IF d = c THEN "reloc" ELSE place[d]
  BY DEF Prepare, Goto, StartupTypeOK
<1>5. \A d \in Procs : Stands(d, a, InStartup) => d = c
  BY <1>3 DEF Sound, LockRight
<1>6. \A d \in Procs : ~Stands(d, a, {"fix"}) /\ ~Stands(d, a, {"fix"})'
  BY <1>3, <1>4, <1>5, PlaceSets DEF Stands
<1>7. LockRight(a)'
  <2>1. \A d \in Procs : Stands(d, a, InStartup)' <=> Stands(d, a, InStartup)
    BY <1>3, <1>4, PlaceSets DEF Stands
  <2> QED BY <1>2, <2>1 DEF Sound, LockRight
<1>8. \A d \in Procs : Stands(d, a, Through)' <=> Stands(d, a, Through)
  BY <1>3, <1>4, PlaceSets DEF Stands
<1>9. RelocRight(a)'
  <2>1. \A d \in Procs : Stands(d, a, Through)' => copy'[a].last_load_addr = a
    <3>1. \A d \in Procs : Stands(d, a, Through) => Stands(d, a, Zeroed)
      BY DEF Stands, Through, Zeroed
    <3> QED BY <1>2, <1>8, <3>1 DEF Sound, RelocRight
  <2>2. PointersAt(a, Base(a)) BY <1>6 DEF Sound, RelocRight
  <2>3. PointersAt(a, Base(a))' BY <1>2, <1>4, <2>2 DEF PointersAt, Base
  <2> QED BY <1>2, <1>6, <2>1, <2>3 DEF RelocRight
<1>10. WindowKept(a)' BY <1>2, <1>4 DEF Sound, WindowKept
<1> QED BY <1>2, <1>7, <1>9, <1>10 DEF Sound

\* Leaving the startup code: the copy is relocated behind the core.
LEMMA UnlockSound ==
  ASSUME StartupTypeOK, NEW a \in LoadAddrs, Sound(a), NEW c \in Procs, img[c] = a, Unlock(c)
  PROVE  Sound(a)'
<1>1. copy'[a] = [copy[a] EXCEPT !.startup_mutex = FALSE] /\ copy[a] \in Contents
  BY UnlockEffect DEF StartupTypeOK
<1>2. /\ ~copy'[a].startup_mutex
      /\ copy'[a].intact <=> copy[a].intact
      /\ copy'[a].first_boot <=> copy[a].first_boot
      /\ copy'[a].last_load_addr = copy[a].last_load_addr
      /\ copy'[a].table = copy[a].table /\ copy'[a].slot = copy[a].slot
      /\ copy'[a].window_num = copy[a].window_num
  BY <1>1 DEF Contents
<1>3. place[c] = "unlock" /\ Stands(c, a, InStartup) /\ Stands(c, a, Through) /\ Stands(c, a, Zeroed)
  BY PlaceSets DEF Unlock, Stands
<1>4. /\ img' = img /\ meant' = meant /\ chosen' = chosen /\ place'[c] \in InMain
      /\ \A d \in Procs \ {c} : place'[d] = place[d]
  BY PlaceSets DEF Unlock, Goto, WaitAt, StartupTypeOK
<1>5. \A d \in Procs : Stands(d, a, InStartup) => d = c
  BY <1>3 DEF Sound, LockRight
<1>6. \A d \in Procs : ~Stands(d, a, {"fix"}) /\ ~Stands(d, a, {"fix"})'
  BY <1>3, <1>4, <1>5, PlaceSets DEF Stands
<1>7. LockRight(a)'
  <2>1. \A d \in Procs : ~Stands(d, a, InStartup)'
    BY <1>4, <1>5, PlaceSets DEF Stands
  <2> QED BY <1>2, <2>1 DEF LockRight
<1>8. \A d \in Procs : /\ Stands(d, a, Zeroed)' <=> Stands(d, a, Zeroed)
                       /\ Stands(d, a, Through)' <=> Stands(d, a, Through)
  BY <1>3, <1>4, PlaceSets DEF Stands
<1>9. RelocRight(a)'
  <2>1. PointersAt(a, Base(a))'
    BY <1>2, <1>4, <1>6 DEF Sound, RelocRight, PointersAt, Base
  <2> QED BY <1>2, <1>6, <1>8, <2>1 DEF Sound, RelocRight
<1>10. WindowKept(a)' BY <1>2, <1>4 DEF Sound, WindowKept
<1> QED BY <1>2, <1>7, <1>9, <1>10 DEF Sound

\* When nothing is left to relocate, every pointer points into the copy.
LEMMA FixedSound ==
  ASSUME StartupTypeOK, NEW a \in LoadAddrs, Sound(a), NEW c \in Procs, img[c] = a, Fixed(c)
  PROVE  Sound(a)'
<1>1. a \in Nat /\ a # 0 BY AddrFacts
<1>2. copy' = copy /\ todo[c] = {} BY DEF Fixed
<1>3. /\ place[c] = "fix" /\ Stands(c, a, InStartup) /\ Stands(c, a, Zeroed) /\ Stands(c, a, {"fix"})
  BY PlaceSets DEF Fixed, Stands
<1>4. /\ img' = img /\ meant' = meant /\ chosen' = chosen
      /\ \A d \in Procs : place'[d] = IF d = c THEN "unlock" ELSE place[d]
  BY DEF Fixed, Goto, StartupTypeOK
<1>5. \A d \in Procs : Stands(d, a, InStartup) => d = c
  BY <1>3 DEF Sound, LockRight
<1>6. \A d \in Procs : ~Stands(d, a, {"fix"})'
  BY <1>3, <1>4, <1>5, PlaceSets DEF Stands
<1>7. LockRight(a)'
  <2>1. \A d \in Procs : Stands(d, a, InStartup)' <=> Stands(d, a, InStartup)
    BY <1>3, <1>4, PlaceSets DEF Stands
  <2> QED BY <1>2, <2>1 DEF Sound, LockRight
<1>8. ~copy[a].first_boot /\ HalfDone(c, a) BY <1>3 DEF Sound, RelocRight
<1>9. RelocRight(a)'
  <2>1. PointersAt(a, Base(a))'
    BY <1>1, <1>2, <1>4, <1>8 DEF HalfDone, PointersAt, Base
  <2>2. copy'[a].last_load_addr = a BY <1>2, <1>8 DEF HalfDone
  <2> QED BY <1>2, <1>6, <1>8, <2>1, <2>2 DEF RelocRight
<1>10. WindowKept(a)' BY <1>2, <1>4 DEF Sound, WindowKept
<1> QED BY <1>2, <1>7, <1>9, <1>10 DEF Sound

\* The first core begins the relocation, the others find it done.
LEMMA RelocSound ==
  ASSUME StartupTypeOK, NEW a \in LoadAddrs, Sound(a), NEW c \in Procs, img[c] = a, Reloc(c)
  PROVE  Sound(a)'
<1> DEFINE b == copy[a].last_load_addr
<1>1. a \in Nat /\ a # 0 /\ copy[a] \in Contents /\ b \in Nat /\ copy[a].slot \in [Pointers -> Int]
  BY AddrFacts DEF StartupTypeOK, Contents
<1>2. place[c] = "reloc" /\ Stands(c, a, InStartup) /\ Stands(c, a, Zeroed)
  BY PlaceSets DEF Reloc, Stands
<1>3. ~copy[a].first_boot BY <1>2 DEF Sound, RelocRight
<1>4. \A d \in Procs : Stands(d, a, InStartup) => d = c
  BY <1>2 DEF Sound, LockRight
<1>5. \A d \in Procs : ~Stands(d, a, {"fix"})
  BY <1>2, <1>4, PlaceSets DEF Stands
<1>6. PointersAt(a, b) BY <1>3, <1>5 DEF Sound, RelocRight, Base
<1>7. img' = img /\ meant' = meant /\ chosen' = chosen BY DEF Reloc
<1>8. CASE b = a
  <2>1. copy' = copy /\ \A d \in Procs : place'[d] = IF d = c THEN "unlock" ELSE place[d]
    BY <1>8 DEF Reloc, Here, Goto, StartupTypeOK
  <2>2. \A d \in Procs : ~Stands(d, a, {"fix"})' BY <1>7, <2>1, <1>5 DEF Stands
  <2>3. LockRight(a)'
    <3>1. \A d \in Procs : Stands(d, a, InStartup)' <=> Stands(d, a, InStartup)
      BY <1>2, <1>7, <2>1, PlaceSets DEF Stands
    <3> QED BY <2>1, <3>1 DEF Sound, LockRight
  <2>4. PointersAt(a, Base(a))' BY <1>3, <1>6, <1>7, <2>1 DEF PointersAt, Base
  <2>5. RelocRight(a)' BY <1>3, <1>8, <2>1, <2>2, <2>4 DEF RelocRight
  <2>6. WindowKept(a)' BY <1>7, <2>1 DEF Sound, WindowKept
  <2> QED BY <2>1, <2>3, <2>5, <2>6 DEF Sound
<1>9. CASE b # a
  <2>1. copy'[a] = GetDynamicInfo([copy[a] EXCEPT !.last_load_addr = a], a - b)
    BY <1>9, RelocEffect
  <2>2. /\ copy'[a].startup_mutex <=> copy[a].startup_mutex
        /\ copy'[a].intact <=> copy[a].intact
        /\ ~copy'[a].first_boot
        /\ copy'[a].last_load_addr = a
        /\ copy'[a].table = copy[a].table + (a - b) /\ copy'[a].slot = copy[a].slot
        /\ copy'[a].window_num = copy[a].window_num
    BY <1>1, <1>3, <2>1 DEF Contents, GetDynamicInfo
  <2>3. /\ offs'[c] = a - b /\ todo'[c] = Pointers
        /\ \A d \in Procs : place'[d] = IF d = c THEN "fix" ELSE place[d]
    BY <1>9 DEF Reloc, Here, Goto, StartupTypeOK
  <2>4. LockRight(a)'
    <3>1. \A d \in Procs : Stands(d, a, InStartup)' <=> Stands(d, a, InStartup)
      BY <1>2, <1>7, <2>3, PlaceSets DEF Stands
    <3> QED BY <2>2, <3>1 DEF Sound, LockRight
  <2>5. \A d \in Procs : Stands(d, a, {"fix"})' <=> d = c
    BY <1>5, <1>7, <2>3 DEF Stands
  <2>6. HalfDone(c, a)'
    <3>1. copy'[a].table = a + TableOffset
      BY <1>1, <1>6, <2>2, AddrAssumption DEF PointersAt
    <3>2. CASE b = 0
      <4>1. offs'[c] = a BY <1>1, <2>3, <3>2
      <4>2. meant' = Addend /\ (Rela \/ copy'[a].slot = Addend)
        BY <1>6, <1>7, <2>2, <3>2 DEF PointersAt
      <4> QED BY <2>2, <2>3, <3>1, <4>1, <4>2 DEF HalfDone
    <3>3. CASE b # 0
      <4>1. offs'[c] # a /\ a - offs'[c] = b BY <1>1, <2>3, <3>3
      <4>2. \A p \in Pointers : copy'[a].slot[p] = b + meant'[p]
        BY <1>6, <1>7, <2>2, <3>3 DEF PointersAt
      <4> QED BY <2>2, <2>3, <3>1, <4>1, <4>2 DEF HalfDone
    <3> QED BY <3>2, <3>3
  <2>7. \A d \in Procs : ~Stands(d, a, Through)'
    <3>1. \A d \in Procs : ~Stands(d, a, Through) BY <1>9 DEF Sound, RelocRight
    <3> QED BY <1>7, <2>3, <3>1, PlaceSets DEF Stands
  <2>8. RelocRight(a)' BY <2>2, <2>5, <2>6, <2>7 DEF RelocRight
  <2>9. WindowKept(a)' BY <1>3, <1>7, <2>2 DEF Sound, WindowKept
  <2> QED BY <2>2, <2>4, <2>8, <2>9 DEF Sound
<1> QED BY <1>8, <1>9

\* Each relocation is done once, from whichever address the copy came.
LEMMA FixSound ==
  ASSUME StartupTypeOK, NEW a \in LoadAddrs, Sound(a), NEW c \in Procs, img[c] = a, Fix(c)
  PROVE  Sound(a)'
<1>1. /\ a \in Nat /\ copy[a] \in Contents /\ copy[a].slot \in [Pointers -> Int]
      /\ offs[c] \in Int /\ todo[c] \subseteq Pointers /\ meant \in [Pointers -> Nat]
  BY AddrFacts DEF StartupTypeOK, Contents
<1>2. place[c] = "fix" /\ Stands(c, a, InStartup) /\ Stands(c, a, Zeroed) /\ Stands(c, a, {"fix"})
  BY PlaceSets DEF Fix, Stands
<1>3. ~copy[a].first_boot /\ HalfDone(c, a) BY <1>2 DEF Sound, RelocRight
<1>4. \A d \in Procs : Stands(d, a, {"fix"}) <=> d = c
  <2>1. \A d \in Procs : Stands(d, a, {"fix"}) => Stands(d, a, InStartup) BY PlaceSets DEF Stands
  <2> QED BY <1>2, <2>1 DEF Sound, LockRight
<1>5. /\ place' = place /\ img' = img /\ meant' = meant /\ chosen' = chosen /\ offs' = offs
  BY DEF Fix
<1> DEFINE new(p) == IF Rela THEN Relocated64(a, offs[c], p, copy[a].slot[p])
                     ELSE Relocated32(offs[c], copy[a].slot[p])
<1>6. PICK p \in todo[c] : /\ todo' = [todo EXCEPT ![c] = @ \ {p}]
                           /\ copy'[a] = [copy[a] EXCEPT !.slot[p] = new(p)]
  BY FixEffect
<1>7. new(p) = a + meant[p]
  <2>1. p \in Pointers /\ Addend[p] \in Nat /\ meant[p] \in Nat /\ copy[a].slot[p] \in Int
    BY <1>1, AddrAssumption
  <2>2. CASE offs[c] = a
    BY <1>1, <1>3, <2>1, <2>2 DEF HalfDone, Relocated64, Relocated32
  <2>3. CASE offs[c] # a
    BY <1>1, <1>3, <2>1, <2>3 DEF HalfDone, Relocated64, Relocated32
  <2> QED BY <2>2, <2>3
<1> HIDE DEF new
<1>8. /\ copy'[a].startup_mutex <=> copy[a].startup_mutex
      /\ copy'[a].intact <=> copy[a].intact
      /\ ~copy'[a].first_boot
      /\ copy'[a].last_load_addr = copy[a].last_load_addr
      /\ copy'[a].table = copy[a].table
      /\ copy'[a].slot = [copy[a].slot EXCEPT ![p] = new(p)]
      /\ copy'[a].window_num = copy[a].window_num
  BY <1>1, <1>3, <1>6 DEF Contents
<1>9. /\ copy'[a].slot[p] = a + meant'[p]
      /\ \A q \in Pointers \ {p} : copy'[a].slot[q] = copy[a].slot[q]
  BY <1>1, <1>5, <1>6, <1>7, <1>8
<1>10. todo'[c] = todo[c] \ {p} BY <1>6 DEF StartupTypeOK
<1>11. HalfDone(c, a)'
  <2>1. \A q \in Pointers \ todo'[c] : copy'[a].slot[q] = a + meant'[q]
    BY <1>3, <1>5, <1>9, <1>10 DEF HalfDone
  <2>2. IF offs'[c] = a THEN meant' = Addend /\ \A q \in todo'[c] : Rela \/ copy'[a].slot[q] = Addend[q]
        ELSE \A q \in todo'[c] : copy'[a].slot[q] = a - offs'[c] + meant'[q]
    BY <1>1, <1>3, <1>5, <1>9, <1>10 DEF HalfDone
  <2> QED BY <1>3, <1>8, <2>1, <2>2 DEF HalfDone
<1>12. LockRight(a)' BY <1>5, <1>8 DEF Sound, LockRight, Stands
<1>13. \A d \in Procs : ~Stands(d, a, Through)'
  <2>1. \A d \in Procs : ~Stands(d, a, Through) BY <1>2 DEF Sound, RelocRight
  <2> QED BY <1>5, <2>1 DEF Stands
<1>14. \A d \in Procs : Stands(d, a, {"fix"})' <=> d = c BY <1>4, <1>5 DEF Stands
<1>15. RelocRight(a)' BY <1>8, <1>11, <1>13, <1>14 DEF RelocRight
<1>16. WindowKept(a)' BY <1>3, <1>5, <1>8 DEF Sound, WindowKept
<1> QED BY <1>8, <1>12, <1>15, <1>16 DEF Sound

\* What any step of the startup code does to the copy and the core.
LEMMA CodeStep ==
  ASSUME StartupTypeOK, NEW a \in LoadAddrs, Sound(a), NEW c \in Procs, img[c] = a,
         Enter(c) \/ Prepare(c) \/ Reloc(c) \/ Fix(c) \/ Fixed(c) \/ Unlock(c)
  PROVE  /\ StartupTypeOK' /\ Sound(a)' /\ \A b \in LoadAddrs \ {a} : copy'[b] = copy[b]
         /\ copy'[a].boot_params <=> copy[a].boot_params
         /\ IF copy[a].first_boot THEN copy'[a].first_boot \/ copy'[a].init_state = 0
            ELSE ~copy'[a].first_boot /\ copy'[a].init_state = copy[a].init_state
         /\ img' = img /\ count' = count /\ flags' = flags /\ next' = next
         /\ \A d \in Procs \ {c} : place'[d] = place[d] /\ stage'[d] = stage[d] /\ tables'[d] = tables[d]
         /\ \/ place[c] = "entry" /\ place'[c] = "stack" /\ stage'[c] = stage[c] /\ tables'[c] = tables[c]
            \/ place[c] = "stack" /\ place'[c] = "reloc" /\ stage'[c] = stage[c] /\ tables'[c] = a
            \/ /\ place[c] \in {"reloc", "fix"} /\ place'[c] \in {"fix", "unlock"}
               /\ stage'[c] = stage[c] /\ tables'[c] = tables[c]
            \/ /\ place[c] = "unlock" /\ tables'[c] = tables[c]
               /\ IF copy[a].init_state = 0 THEN place'[c] = "init" /\ stage'[c] = stage[c]
                  ELSE place'[c] = "top" /\ stage'[c] = "arrive"
<1>1. copy[a] \in Contents BY DEF StartupTypeOK
<1>2. CASE Enter(c)
  <2>1. copy'[a] = [copy[a] EXCEPT !.startup_mutex = TRUE] BY <1>2, EnterType
  <2>2. /\ copy'[a].boot_params <=> copy[a].boot_params
        /\ copy'[a].first_boot <=> copy[a].first_boot
        /\ copy'[a].init_state = copy[a].init_state
    BY <1>1, <2>1 DEF Contents
  <2>3. /\ img' = img /\ count' = count /\ flags' = flags /\ next' = next /\ tables' = tables
        /\ stage' = stage /\ place[c] = "entry" /\ place'[c] = "stack"
        /\ \A d \in Procs \ {c} : place'[d] = place[d]
    BY <1>2 DEF Enter, Goto, StartupTypeOK
  <2> QED BY <1>2, <2>2, <2>3, EnterType, EnterSound
<1>3. CASE Prepare(c)
  <2>1. copy'[a] = IF copy[a].first_boot THEN ZeroBss(copy[a]) ELSE copy[a] BY <1>3, PrepareEffect
  <2>2. /\ copy'[a].boot_params <=> copy[a].boot_params
        /\ copy[a].first_boot => copy'[a].init_state = 0
        /\ ~copy[a].first_boot => copy'[a] = copy[a]
    BY <1>1, <2>1 DEF Contents, ZeroBss
  <2>3. /\ img' = img /\ count' = count /\ flags' = flags /\ next' = next
        /\ stage' = stage /\ place[c] = "stack" /\ place'[c] = "reloc" /\ tables'[c] = a
        /\ \A d \in Procs \ {c} : place'[d] = place[d] /\ tables'[d] = tables[d]
    BY <1>3 DEF Prepare, Goto, StartupTypeOK
  <2> QED BY <1>3, <2>2, <2>3, PrepareEffect, PrepareSound
<1>4. CASE Reloc(c)
  <2>1. /\ copy'[a].boot_params <=> copy[a].boot_params
        /\ copy'[a].first_boot <=> copy[a].first_boot
        /\ copy'[a].init_state = copy[a].init_state
    <3>1. CASE copy[a].last_load_addr = a BY <1>4, <3>1 DEF Reloc, Here
    <3>2. CASE copy[a].last_load_addr # a
      BY <1>1, <1>4, <3>2, RelocEffect DEF Contents, GetDynamicInfo
    <3> QED BY <3>1, <3>2
  <2>2. /\ img' = img /\ count' = count /\ flags' = flags /\ next' = next /\ tables' = tables
        /\ stage' = stage /\ place[c] = "reloc" /\ place'[c] \in {"fix", "unlock"}
        /\ \A d \in Procs \ {c} : place'[d] = place[d]
    BY <1>4 DEF Reloc, Goto, StartupTypeOK
  <2>3. copy[a].first_boot => copy'[a].first_boot BY <2>1
  <2> QED BY <1>4, <2>1, <2>2, <2>3, RelocEffect, RelocSound
<1>5. CASE Fix(c)
  <2>1. /\ copy'[a].boot_params <=> copy[a].boot_params
        /\ copy'[a].first_boot <=> copy[a].first_boot
        /\ copy'[a].init_state = copy[a].init_state
    <3>1. PICK p \in todo[c] : copy'[a] = [copy[a] EXCEPT !.slot[p] =
                   IF Rela THEN Relocated64(a, offs[c], p, copy[a].slot[p])
                   ELSE Relocated32(offs[c], copy[a].slot[p])]
      BY <1>5, FixEffect
    <3> QED BY <1>1, <3>1 DEF Contents
  <2>2. /\ img' = img /\ count' = count /\ flags' = flags /\ next' = next /\ tables' = tables
        /\ stage' = stage /\ place[c] = "fix" /\ place' = place
    BY <1>5 DEF Fix
  <2> QED BY <1>5, <2>1, <2>2, FixEffect, FixSound
<1>6. CASE Fixed(c)
  <2>1. /\ img' = img /\ count' = count /\ flags' = flags /\ next' = next /\ tables' = tables
        /\ stage' = stage /\ place[c] = "fix" /\ place'[c] = "unlock" /\ copy' = copy
        /\ \A d \in Procs \ {c} : place'[d] = place[d]
    BY <1>6 DEF Fixed, Goto, StartupTypeOK
  <2> QED BY <1>6, <2>1, OtherTypes, FixedSound
<1>7. CASE Unlock(c)
  <2>1. copy'[a] = [copy[a] EXCEPT !.startup_mutex = FALSE] BY <1>7, UnlockEffect
  <2>2. /\ copy'[a].boot_params <=> copy[a].boot_params
        /\ copy'[a].first_boot <=> copy[a].first_boot
        /\ copy'[a].init_state = copy[a].init_state
    BY <1>1, <2>1 DEF Contents
  <2>3. /\ img' = img /\ count' = count /\ flags' = flags /\ next' = next /\ tables' = tables
        /\ \A d \in Procs \ {c} : place'[d] = place[d] /\ stage'[d] = stage[d]
        /\ place[c] = "unlock"
        /\ IF copy[a].init_state = 0 THEN place'[c] = "init" /\ stage'[c] = stage[c]
           ELSE place'[c] = "top" /\ stage'[c] = "arrive"
    BY <1>7 DEF Unlock, Here, Goto, WaitAt, StartupTypeOK
  <2> QED BY <1>7, <2>2, <2>3, UnlockEffect, UnlockSound
<1> QED BY <1>2, <1>3, <1>4, <1>5, <1>6, <1>7

\* The count is right as long as the same cores are blocked.
LEMMA SameBlocked ==
  ASSUME count = Num - Cardinality(BlockedSet), count' = count,
         \A d \in Procs : Blocked(d)' <=> Blocked(d)
  PROVE  count' = Num - Cardinality(BlockedSet')
BY DEF BlockedSet

\* Core 0 alone, from the boot loader to the start of the others.
LEMMA BootingKeeps ==
  ASSUME StartupTypeOK, Counted, NEW a \in LoadAddrs, Booting(a), StartupNext
  PROVE  StartupTypeOK' /\ Counted' /\ Phase'
<1>1. 0 \in Procs /\ Low \in LoadAddrs /\ High \in LoadAddrs BY AddrFacts
<1>2. \A d \in Procs : ~Blocked(d) BY DEF Booting, Blocked
<1>3. ASSUME count' = count, \A d \in Procs : ~Blocked(d)' PROVE Counted'
  BY <1>2, <1>3, SameBlocked DEF Counted
<1>4. CASE BootEntry
  <2>1. /\ StartupTypeOK' /\ copy'[a] = [copy[a] EXCEPT !.boot_params = TRUE]
        /\ \A b \in LoadAddrs \ {a} : copy'[b] = copy[b]
    BY <1>4, BootEntryEffect DEF Booting
  <2>2. /\ copy'[a].boot_params
        /\ copy'[a].startup_mutex <=> copy[a].startup_mutex
        /\ copy'[a].intact <=> copy[a].intact
        /\ copy'[a].first_boot <=> copy[a].first_boot
        /\ copy'[a].last_load_addr = copy[a].last_load_addr
        /\ copy'[a].table = copy[a].table /\ copy'[a].slot = copy[a].slot
        /\ copy'[a].window_num = copy[a].window_num
        /\ copy'[a].init_state = copy[a].init_state
    BY <2>1 DEF Contents, StartupTypeOK
  <2>3. /\ img' = img /\ meant' = meant /\ chosen' = chosen /\ tables' = tables /\ stage' = stage
        /\ place[0] = "loader" /\ count' = count /\ flags' = flags
        /\ \A d \in Procs : place'[d] = IF d = 0 THEN "entry" ELSE place[d]
    BY <1>1, <1>4 DEF BootEntry, Goto, StartupTypeOK
  <2>4. \A d \in Procs : /\ ~Stands(d, a, InStartup) /\ ~Stands(d, a, InStartup)'
                         /\ ~Stands(d, a, Zeroed)' /\ ~Stands(d, a, Through)'
                         /\ ~Stands(d, a, {"fix"}) /\ ~Stands(d, a, {"fix"})'
    BY <2>3, PlaceSets DEF Booting, Stands
  <2>5. LockRight(a)' BY <2>2, <2>4 DEF Booting, Sound, LockRight
  <2>6. RelocRight(a)'
    <3>1. PointersAt(a, Base(a))' BY <2>2, <2>3, <2>4 DEF Booting, Sound, RelocRight, PointersAt, Base
    <3> QED BY <2>4, <3>1 DEF RelocRight
  <2>7. WindowKept(a)' BY <2>2, <2>3 DEF Booting, Sound, WindowKept
  <2>8. Sound(a)' BY <2>2, <2>5, <2>6, <2>7 DEF Booting, Sound
  <2>9. copy'[tables'[0]].intact
    BY <1>1, <2>1, <2>2, <2>3 DEF Booting, StartupTypeOK
  <2>10. Booting(a)'
    BY <1>1, <2>2, <2>3, <2>8, <2>9 DEF Booting
  <2>11. Counted' BY <1>3, <2>3 DEF Booting, Blocked
  <2> QED BY <2>1, <2>10, <2>11 DEF Phase
<1>5. CASE RelocateTo
  <2>1. PICK to \in {Low, High} :
         /\ StartupTypeOK' /\ to # a
         /\ copy'[to] = [copy[a] EXCEPT !.init_complete = TRUE]
         /\ \A b \in LoadAddrs \ {to} : copy'[b] = copy[b]
         /\ img' = [img EXCEPT ![0] = to]
    BY <1>5, RelocateToEffect DEF Booting
  <2>2. /\ copy'[to].boot_params <=> copy[a].boot_params
        /\ copy'[to].startup_mutex <=> copy[a].startup_mutex
        /\ copy'[to].intact <=> copy[a].intact
        /\ copy'[to].first_boot <=> copy[a].first_boot
        /\ copy'[to].last_load_addr = copy[a].last_load_addr
        /\ copy'[to].table = copy[a].table /\ copy'[to].slot = copy[a].slot
        /\ copy'[to].window_num = copy[a].window_num
        /\ copy'[to].init_state = copy[a].init_state
    BY <2>1 DEF Contents, StartupTypeOK
  <2>3. /\ meant' = meant /\ chosen' = chosen /\ tables' = tables /\ stage' = stage
        /\ place[0] = "init" /\ count' = count
        /\ \A d \in Procs : place'[d] = IF d = 0 THEN "entry" ELSE place[d]
    BY <1>1, <1>5 DEF RelocateTo, Goto, StartupTypeOK
  <2>4. \A d \in Procs : /\ ~Stands(d, a, InStartup) /\ ~Stands(d, a, {"fix"})
                         /\ ~Stands(d, to, InStartup)' /\ ~Stands(d, to, {"fix"})'
                         /\ ~Stands(d, to, Zeroed)' /\ ~Stands(d, to, Through)'
    BY <2>3, PlaceSets DEF Booting, Stands
  <2>5. Stands(0, a, Zeroed) BY <2>3, PlaceSets DEF Booting, Stands
  <2>6. ~copy[a].first_boot BY <1>1, <2>5 DEF Booting, Sound, RelocRight
  <2>7. LockRight(to)' BY <2>2, <2>4 DEF Booting, Sound, LockRight
  <2>8. RelocRight(to)'
    <3>1. PointersAt(to, Base(to))' BY <2>2, <2>3, <2>4 DEF Booting, Sound, RelocRight, PointersAt, Base
    <3> QED BY <2>4, <3>1 DEF RelocRight
  <2>9. WindowKept(to)' BY <2>2, <2>3 DEF Booting, Sound, WindowKept
  <2>10. Sound(to)' BY <2>2, <2>7, <2>8, <2>9 DEF Booting, Sound
  <2>11. copy'[tables'[0]].intact
    BY <1>1, <2>1, <2>2, <2>3 DEF Booting, StartupTypeOK, Sound
  <2>12. img'[0] = to /\ to \in LoadAddrs BY <1>1, <2>1 DEF StartupTypeOK
  <2>13. Booting(to)'
    BY <1>1, <2>2, <2>3, <2>6, <2>10, <2>11, <2>12 DEF Booting
  <2>14. Counted' BY <1>3, <2>3 DEF Booting, Blocked
  <2> QED BY <2>1, <2>12, <2>13, <2>14 DEF Phase
<1>6. CASE StartOthers
  <2>1. /\ StartupTypeOK' /\ copy'[a] = [copy[a] EXCEPT !.init_complete = TRUE, !.init_state = 2]
    BY <1>6, StartOthersEffect DEF Booting
  <2>2. /\ copy'[a].boot_params <=> copy[a].boot_params
        /\ copy'[a].startup_mutex <=> copy[a].startup_mutex
        /\ copy'[a].intact <=> copy[a].intact
        /\ copy'[a].first_boot <=> copy[a].first_boot
        /\ copy'[a].last_load_addr = copy[a].last_load_addr
        /\ copy'[a].table = copy[a].table /\ copy'[a].slot = copy[a].slot
        /\ copy'[a].window_num = copy[a].window_num
        /\ copy'[a].init_state = 2
    BY <2>1 DEF Contents, StartupTypeOK
  <2>3. /\ meant' = meant /\ chosen' = chosen
        /\ place[0] = "init" /\ count' = count
        /\ \A d \in Procs : /\ place'[d] = IF d = 0 THEN "top" ELSE "entry"
                            /\ stage'[d] = IF d = 0 THEN "arrive" ELSE stage[d]
                            /\ img'[d] = a
                            /\ tables'[d] = a
    BY <1>1, <1>6 DEF StartOthers, StartupTypeOK, Booting
  <2>4. /\ \A d \in Procs : /\ ~Stands(d, a, InStartup) /\ ~Stands(d, a, {"fix"})
                            /\ ~Stands(d, a, InStartup)' /\ ~Stands(d, a, {"fix"})'
        /\ Stands(0, a, Zeroed) /\ Stands(0, a, Through)
    BY <2>3, PlaceSets DEF Booting, Stands
  <2>5. ~copy[a].first_boot /\ copy[a].last_load_addr = a
    BY <1>1, <2>4 DEF Booting, Sound, RelocRight
  <2>6. LockRight(a)' BY <2>2, <2>4 DEF Booting, Sound, LockRight
  <2>7. RelocRight(a)'
    <3>1. PointersAt(a, Base(a))' BY <2>2, <2>3, <2>4 DEF Booting, Sound, RelocRight, PointersAt, Base
    <3> QED BY <2>2, <2>4, <2>5, <3>1 DEF RelocRight
  <2>8. WindowKept(a)' BY <2>2, <2>3 DEF Booting, Sound, WindowKept
  <2>9. Sound(a)' BY <2>2, <2>6, <2>7, <2>8 DEF Booting, Sound
  <2>10. Starting(a, a)'
    BY <1>1, <2>2, <2>3, <2>5, <2>9 DEF Booting, Starting, Sound, Gathering, Stands
  <2>11. Counted' BY <1>3, <2>3 DEF Booting, Blocked
  <2> QED BY <2>1, <2>10, <2>11 DEF Phase
<1>7. ASSUME Enter(0) \/ Prepare(0) \/ Reloc(0) \/ Fix(0) \/ Fixed(0) \/ Unlock(0)
      PROVE  StartupTypeOK' /\ Counted' /\ Phase'
  <2>1. Sound(a) /\ img[0] = a BY DEF Booting
  <2>2. /\ StartupTypeOK' /\ Sound(a)' /\ \A b \in LoadAddrs \ {a} : copy'[b] = copy[b]
        /\ copy'[a].boot_params <=> copy[a].boot_params
        /\ IF copy[a].first_boot THEN copy'[a].first_boot \/ copy'[a].init_state = 0
           ELSE ~copy'[a].first_boot /\ copy'[a].init_state = copy[a].init_state
        /\ img' = img /\ count' = count /\ flags' = flags
        /\ \A d \in Procs \ {0} : place'[d] = place[d] /\ stage'[d] = stage[d] /\ tables'[d] = tables[d]
    BY <1>1, <1>7, <2>1, CodeStep
  <2>3. /\ \/ place[0] = "entry" /\ place'[0] = "stack" /\ stage'[0] = stage[0] /\ tables'[0] = tables[0]
           \/ place[0] = "stack" /\ place'[0] = "reloc" /\ stage'[0] = stage[0] /\ tables'[0] = a
           \/ /\ place[0] \in {"reloc", "fix"} /\ place'[0] \in {"fix", "unlock"}
              /\ stage'[0] = stage[0] /\ tables'[0] = tables[0]
           \/ /\ place[0] = "unlock" /\ tables'[0] = tables[0]
              /\ IF copy[a].init_state = 0 THEN place'[0] = "init" /\ stage'[0] = stage[0]
                 ELSE place'[0] = "top" /\ stage'[0] = "arrive"
    BY <1>1, <1>7, <2>1, CodeStep
  <2>4. place[0] = "unlock" => copy[a].init_state = 0
    <3>1. place[0] = "unlock" => Stands(0, a, Zeroed) BY <2>1, PlaceSets DEF Stands
    <3> QED BY <1>1, <2>1, <3>1 DEF Booting, Sound, RelocRight
  <2>5. copy'[tables'[0]].intact
    <3>1. tables'[0] = tables[0] \/ tables'[0] = a BY <2>3
    <3> QED BY <1>1, <2>2, <3>1 DEF Sound, Booting, StartupTypeOK
  <2>6. /\ stage'[0] = "run" /\ place'[0] \in {"init"} \cup InStartup /\ place'[0] # "loader"
        /\ place'[0] \in {"reloc", "fix", "unlock", "init"} => tables'[0] = a
    BY <2>3, <2>4 DEF Booting, InStartup
  <2>7. copy'[a].boot_params /\ (copy'[a].first_boot \/ copy'[a].init_state = 0)
    BY <2>2, <2>3 DEF Booting
  <2>8. Booting(a)' BY <2>2, <2>1, <2>5, <2>6, <2>7 DEF Booting
  <2>9. Counted' BY <1>3, <2>2, <2>8 DEF Booting, Blocked
  <2> QED BY <2>2, <2>8, <2>9 DEF Phase
<1>8. ~CopyProgram /\ ~CopyLocals
  BY DEF Booting, CopyProgram, CopyLocals, InStartup
<1>9. ASSUME NEW c \in Procs, CoreStep(c)
      PROVE  c = 0 /\ (Enter(0) \/ Prepare(0) \/ Reloc(0) \/ Fix(0) \/ Fixed(0) \/ Unlock(0))
  <2>1. ~(SetFlag(c) \/ CountDown(c) \/ Resume(c))
    BY DEF Booting, SetFlag, CountDown, Resume
  <2>2. ~(Top(c) \/ TestWindow(c) \/ RunAt(c) \/ Jump(c))
    BY DEF Booting, Top, TestWindow, RunAt, Jump, Behind, InStartup
  <2>3. Enter(c) \/ Prepare(c) \/ Reloc(c) \/ Fix(c) \/ Fixed(c) \/ Unlock(c)
    BY <1>9, <2>1, <2>2 DEF CoreStep
  <2>4. place[c] # "off" BY <2>3 DEF Enter, Prepare, Reloc, Fix, Fixed, Unlock
  <2> QED BY <2>3, <2>4 DEF Booting
<1> QED BY <1>4, <1>5, <1>6, <1>7, <1>8, <1>9 DEF StartupNext, BootStep

\* Nothing but the barrier and the stages is changed.
OnlyWait == UNCHANGED <<copy, place, img, tables, offs, todo, next, meant, chosen>>

\* The steps of a wait that let nobody go.
LEMMA FlagStep ==
  ASSUME StartupTypeOK, Counted, NEW c \in Procs, SetFlag(c) \/ Resume(c)
  PROVE  /\ StartupTypeOK' /\ Counted' /\ OnlyWait
         /\ \A d \in Procs, a \in LoadAddrs, w \in Places :
              /\ Released(d, a, w) => Released(d, a, w)'
              /\ Gathering(d, a, w) => Gathering(d, a, w)'
         /\ \A d \in Procs : stage[d] = "run" => stage'[d] = "run"
<1>1. img[c] \in LoadAddrs BY DEF StartupTypeOK
<1>2. CASE SetFlag(c)
  <2>1. /\ stage[c] = "arrive" /\ stage'[c] = "count" /\ flags'[img[c]][c]
        /\ \A d \in Procs \ {c} : stage'[d] = stage[d] /\ \A a \in LoadAddrs : flags'[a][d] = flags[a][d]
        /\ count' = count /\ OnlyWait
    BY <1>1, <1>2 DEF SetFlag, StartupTypeOK, OnlyWait
  <2>2. StartupTypeOK' BY <1>2, OtherTypes
  <2>3. \A d \in Procs : Blocked(d)' <=> Blocked(d)
    BY <2>1 DEF Blocked, OnlyWait, StartupTypeOK
  <2>4. Counted' BY <2>1, <2>3, SameBlocked DEF Counted
  <2>5. ASSUME NEW d \in Procs, NEW a \in LoadAddrs, NEW w \in Places
        PROVE  /\ Released(d, a, w) => Released(d, a, w)'
               /\ Gathering(d, a, w) => Gathering(d, a, w)'
    BY <2>1 DEF Released, Gathering, OnlyWait
  <2> QED BY <2>1, <2>2, <2>4, <2>5
<1>3. CASE Resume(c)
  <2>1. /\ stage[c] = "wait" /\ stage'[c] = "run" /\ ~flags[img[c]][c]
        /\ \A d \in Procs \ {c} : stage'[d] = stage[d]
        /\ count' = count /\ flags' = flags /\ OnlyWait
    BY <1>3 DEF Resume, StartupTypeOK, OnlyWait
  <2>2. StartupTypeOK' BY <1>3, OtherTypes
  <2>3. \A d \in Procs : Blocked(d)' <=> Blocked(d)
    BY <2>1 DEF Blocked, OnlyWait
  <2>4. Counted' BY <2>1, <2>3, SameBlocked DEF Counted
  <2>5. ASSUME NEW d \in Procs, NEW a \in LoadAddrs, NEW w \in Places
        PROVE  /\ Released(d, a, w) => Released(d, a, w)'
               /\ Gathering(d, a, w) => Gathering(d, a, w)'
    BY <2>1 DEF Released, Gathering, OnlyWait
  <2> QED BY <2>1, <2>2, <2>4, <2>5
<1> QED BY <1>2, <1>3

\* A core counts down: it waits too, or all the others do and are let go with it.
LEMMA CountStep ==
  ASSUME StartupTypeOK, Counted, NEW c \in Procs, CountDown(c), NEW a \in LoadAddrs,
         img[c] = a, flags[a][c], \A d \in Procs : Blocked(d) => img[d] = a
  PROVE  /\ StartupTypeOK' /\ Counted' /\ OnlyWait
         /\ \/ /\ \A d \in Procs, b \in LoadAddrs, w \in Places :
                    /\ Released(d, b, w) => Released(d, b, w)'
                    /\ Gathering(d, b, w) => Gathering(d, b, w)'
               /\ \A d \in Procs : stage[d] = "run" => stage'[d] = "run"
            \/ /\ \A d \in Procs \ {c} : Blocked(d)
               /\ stage'[c] = "run"
               /\ \A d \in Procs \ {c} : stage'[d] = "wait" /\ ~flags'[a][d]
<1>1. StartupTypeOK' BY OtherTypes
<1>2. /\ stage[c] = "count" /\ OnlyWait BY DEF CountDown, OnlyWait
<1>3. BlockedSet \in SUBSET Procs /\ c \in Procs \ BlockedSet BY <1>2 DEF BlockedSet, Blocked
<1>4. /\ Cardinality(BlockedSet) \in 0 .. Num
      /\ Cardinality(BlockedSet \cup {c}) = Cardinality(BlockedSet) + 1
  BY <1>3, ProcSets, OneMore
<1>5. count \in Nat /\ Num \in Nat BY AddrFacts DEF StartupTypeOK
<1>6. CASE count > 1
  <2>1. /\ count' = count - 1 /\ flags' = flags /\ stage'[c] = "wait"
        /\ \A d \in Procs \ {c} : stage'[d] = stage[d]
    BY <1>6 DEF CountDown, StartupTypeOK
  <2>2. \A d \in Procs : Blocked(d)' <=> d = c \/ Blocked(d)
    BY <1>2, <2>1 DEF Blocked, OnlyWait
  <2>3. BlockedSet' = BlockedSet \cup {c} BY <2>2 DEF BlockedSet
  <2>4. Counted' BY <1>4, <1>5, <2>1, <2>3 DEF Counted
  <2>5. ASSUME NEW d \in Procs, NEW b \in LoadAddrs, NEW w \in Places
        PROVE  /\ Released(d, b, w) => Released(d, b, w)'
               /\ Gathering(d, b, w) => Gathering(d, b, w)'
    BY <1>2, <2>1 DEF Released, Gathering, OnlyWait
  <2>6. \A d \in Procs : stage[d] = "run" => stage'[d] = "run" BY <1>2, <2>1
  <2> QED BY <1>1, <1>2, <2>4, <2>5, <2>6
<1>7. CASE ~(count > 1)
  <2>1. /\ count' = Num /\ stage'[c] = "run" /\ flags'[a] = [d \in Procs |-> FALSE]
        /\ \A d \in Procs \ {c} : stage'[d] = stage[d]
    <3>1. /\ count' = Num /\ stage' = [stage EXCEPT ![c] = "run"]
          /\ flags' = [flags EXCEPT ![a] = [d \in Procs |-> FALSE]]
      BY <1>7 DEF CountDown
    <3>2. flags'[a] = [d \in Procs |-> FALSE] BY <3>1 DEF StartupTypeOK
    <3> QED BY <3>1, <3>2 DEF StartupTypeOK
  <2>2. BlockedSet = Procs \ {c}
    <3>1. Num - Cardinality(BlockedSet) <= 1 BY <1>5, <1>7 DEF Counted
    <3> QED BY <1>3, <3>1, OneMore
  <2>3. \A d \in Procs \ {c} : Blocked(d) /\ stage[d] = "wait" /\ img[d] = a
    BY <2>2 DEF BlockedSet, Blocked
  <2>4. \A d \in Procs : ~Blocked(d)' BY <1>2, <2>1, <2>3 DEF Blocked, OnlyWait
  <2>5. BlockedSet' = {} BY <2>4 DEF BlockedSet
  <2>6. Counted' BY <1>5, <2>1, <2>5, FS_EmptySet DEF Counted
  <2> QED BY <1>1, <1>2, <2>1, <2>3, <2>6
<1> QED BY <1>6, <1>7

\* The steps of a wait change no copy.
LEMMA OnlyWaitKeeps ==
  ASSUME OnlyWait, NEW a \in LoadAddrs
  PROVE  /\ Sound(a) => Sound(a)'
         /\ Settled(a) => Settled(a)'
         /\ Target(a)' = Target(a)
<1>1. ASSUME Sound(a) PROVE Sound(a)'
  <2>1. \A d \in Procs : \A P : Stands(d, a, P)' <=> Stands(d, a, P) BY DEF Stands, OnlyWait
  <2> QED BY <1>1, <2>1, SoundFrame DEF OnlyWait
<1>2. Settled(a) => Settled(a)' BY DEF Settled, PointersAt, OnlyWait
<1> QED BY <1>1, <1>2 DEF Target, OnlyWait

\* The cores at the barrier are at one place, and those about to count have set their flags.
LEMMA Meeting ==
  ASSUME StartupTypeOK, NEW j \in LoadAddrs,
         Booting(j) \/ (\E i \in LoadAddrs : Starting(i, j)) \/ Choosing(j) \/ Acting(j)
  PROVE  \E w \in Waits : \A c \in Procs :
           /\ Blocked(c) \/ stage[c] = "count" => Gathering(c, j, w)
           /\ stage[c] = "count" => flags[j][c]
<1>1. CASE Booting(j) BY <1>1 DEF Booting, Blocked, Waits
<1>2. ASSUME NEW i \in LoadAddrs, Starting(i, j)
      PROVE  \A c \in Procs : /\ Blocked(c) \/ stage[c] = "count" => Gathering(c, j, "top")
                              /\ stage[c] = "count" => flags[j][c]
  BY <1>2 DEF Starting, Released, Gathering, Blocked
<1>3. ASSUME Choosing(j)
      PROVE  \A c \in Procs : /\ Blocked(c) \/ stage[c] = "count" => Gathering(c, j, "go")
                              /\ stage[c] = "count" => flags[j][c]
  BY <1>3 DEF Choosing, Released, Gathering, Blocked
<1>4. ASSUME Acting(j)
      PROVE  LET w == IF Target(j) = j THEN "top" ELSE "jump"
             IN \A c \in Procs : /\ Blocked(c) \/ stage[c] = "count" => Gathering(c, j, w)
                                 /\ stage[c] = "count" => flags[j][c]
  BY <1>4 DEF Acting, Released, Gathering, Blocked
<1> QED BY <1>1, <1>2, <1>3, <1>4 DEF Waits

\* A step of a wait in any phase.
LEMMA WaitKeeps ==
  ASSUME StartupTypeOK, Counted, NEW i \in LoadAddrs, NEW j \in LoadAddrs,
         Starting(i, j) \/ Choosing(j) \/ Acting(j),
         NEW c \in Procs, SetFlag(c) \/ Resume(c) \/ CountDown(c)
  PROVE  StartupTypeOK' /\ Counted' /\ Phase'
<1> DEFINE Quiet == /\ \A d \in Procs, b \in LoadAddrs, w \in Places :
                         /\ Released(d, b, w) => Released(d, b, w)'
                         /\ Gathering(d, b, w) => Gathering(d, b, w)'
                    /\ \A d \in Procs : stage[d] = "run" => stage'[d] = "run"
<1>1. {"top", "go", "jump"} \subseteq Places /\ 0 \in Procs /\ Low \in LoadAddrs /\ High \in LoadAddrs
  BY AddrFacts DEF Places, InMain, Waits
<1>2. ASSUME OnlyWait, Quiet PROVE Phase'
  <2>1. CASE Starting(i, j)
    <3>1. \A d \in Procs :
            \/ Released(d, i, "jump")' /\ i # j /\ Target(i)' = j /\ Settled(i)'
            \/ Stands(d, j, {"entry", "stack"})' /\ stage'[d] = "run" /\ tables'[d] \in {i, j}
            \/ Stands(d, j, {"reloc", "fix", "unlock"})' /\ stage'[d] = "run" /\ tables'[d] = j
            \/ Gathering(d, j, "top")'
      <4> SUFFICES ASSUME NEW d \in Procs
                   PROVE  \/ Released(d, i, "jump")' /\ i # j /\ Target(i)' = j /\ Settled(i)'
                          \/ Stands(d, j, {"entry", "stack"})' /\ stage'[d] = "run" /\ tables'[d] \in {i, j}
                          \/ Stands(d, j, {"reloc", "fix", "unlock"})' /\ stage'[d] = "run" /\ tables'[d] = j
                          \/ Gathering(d, j, "top")'
        OBVIOUS
      <4>1. tables' = tables /\ \A P : Stands(d, j, P)' <=> Stands(d, j, P) BY <1>2 DEF OnlyWait, Stands
      <4> QED BY <1>1, <1>2, <2>1, <4>1, OnlyWaitKeeps DEF Starting
    <3>2. copy' = copy /\ Sound(j)' BY <1>2, <2>1, OnlyWaitKeeps DEF Starting, OnlyWait
    <3>3. Starting(i, j)' BY <2>1, <3>1, <3>2 DEF Starting
    <3> QED BY <3>3 DEF Phase
  <2>2. CASE Choosing(j)
    <3>1. Choosing(j)' BY <1>1, <1>2, <2>2, OnlyWaitKeeps DEF Choosing
    <3> QED BY <3>1 DEF Phase
  <2>3. CASE Acting(j)
    <3>1. /\ Settled(j)' /\ Target(j)' = Target(j) /\ copy' = copy /\ place' = place /\ next' = next
          /\ img' = img /\ tables' = tables
      BY <1>2, <2>3, OnlyWaitKeeps DEF Acting, OnlyWait
    <3>2. Acting(j)' BY <1>1, <1>2, <2>3, <3>1 DEF Acting
    <3> QED BY <3>2 DEF Phase
  <2> QED BY <2>1, <2>2, <2>3
<1>3. CASE SetFlag(c) \/ Resume(c)
  BY <1>2, <1>3, FlagStep
<1>4. CASE CountDown(c)
  <2>1. PICK w \in Waits : \A d \in Procs :
          /\ Blocked(d) \/ stage[d] = "count" => Gathering(d, j, w)
          /\ stage[d] = "count" => flags[j][d]
    BY Meeting
  <2>2. stage[c] = "count" BY <1>4 DEF CountDown
  <2>3. img[c] = j /\ flags[j][c] /\ \A d \in Procs : Blocked(d) => img[d] = j
    BY <2>1, <2>2 DEF Gathering
  <2> DEFINE Last == /\ \A d \in Procs \ {c} : Blocked(d)
                     /\ stage'[c] = "run"
                     /\ \A d \in Procs \ {c} : stage'[d] = "wait" /\ ~flags'[j][d]
  <2>4. StartupTypeOK' /\ Counted' /\ OnlyWait /\ (Quiet \/ Last)
    BY <1>4, <2>3, CountStep
  <2>5. ASSUME Last PROVE Phase'
    <3>1. \A d \in Procs : Gathering(d, j, w) BY <2>1, <2>2, <2>5
    <3>2. \A d \in Procs : Released(d, j, w)'
      BY <2>4, <2>5, <3>1 DEF Gathering, Released, OnlyWait
    <3>3. \A d \in Procs : place[d] = w /\ img[d] = j /\ stage[d] # "run" BY <3>1 DEF Gathering
    <3>4. CASE Starting(i, j)
      <4>1. w = "top"
        BY <1>1, <2>5, <3>1, <3>3, <3>4 DEF Starting, Released, Gathering, Stands, Blocked
      <4>2. \A d \in Procs : ~Stands(d, j, InStartup) /\ ~Stands(d, j, {"fix"}) /\ Stands(d, j, Through)
        BY <3>3, <4>1, PlaceSets DEF Stands
      <4>3. Settled(j)
        BY <1>1, <3>4, <4>2 DEF Starting, Sound, LockRight, RelocRight, WindowKept, Settled, Base
      <4>4. Choosing(j)' BY <2>4, <3>2, <4>1, <4>3, OnlyWaitKeeps DEF Choosing
      <4> QED BY <4>4 DEF Phase
    <3>5. CASE Choosing(j)
      <4>1. w = "go" BY <1>1, <3>1, <3>3, <2>2, <3>5 DEF Choosing, Released, Gathering
      <4>2. place'[0] = "go" BY <1>1, <2>4, <3>3, <4>1 DEF OnlyWait
      <4>3. Acting(j)' BY <2>4, <3>2, <3>5, <4>1, <4>2, OnlyWaitKeeps DEF Choosing, Acting
      <4> QED BY <4>3 DEF Phase
    <3>6. CASE Acting(j)
      <4>1. CASE Target(j) = j
        <5>1. w = "top" BY <2>2, <3>1, <3>3, <3>6, <4>1 DEF Acting, Released, Gathering
        <5>2. Choosing(j)' BY <2>4, <3>2, <3>6, <5>1, OnlyWaitKeeps DEF Choosing, Acting
        <5> QED BY <5>2 DEF Phase
      <4>2. CASE Target(j) # j
        <5>1. PICK t \in LoadAddrs : t = Target(j) BY <1>1 DEF Target
        <5>2. w = "jump" BY <2>2, <3>1, <3>3, <3>6, <4>2 DEF Acting, Released, Gathering
        <5>3. copy[t] = copy[j] BY <1>1, <3>3, <3>6, <5>1, <5>2 DEF Acting
        <5>4. Settled(j) BY <3>6 DEF Acting
        <5>5. \A d \in Procs : \A P : ~Stands(d, t, P) BY <3>3, <4>2, <5>1 DEF Stands
        <5>6. j \in Nat /\ j # 0 BY AddrFacts
        <5>7. Sound(t)
          <6>1. LockRight(t) BY <5>3, <5>4, <5>5 DEF Settled, LockRight
          <6>2. PointersAt(t, Base(t)) BY <5>3, <5>4 DEF Settled, PointersAt, Base
          <6>3. RelocRight(t) BY <5>5, <6>2 DEF RelocRight
          <6>4. WindowKept(t) BY <5>3, <5>4 DEF Settled, WindowKept
          <6> QED BY <5>3, <5>4, <6>1, <6>3, <6>4 DEF Settled, Sound
        <5>8. Sound(t)' /\ Settled(j)' /\ copy' = copy /\ Target(j)' = t
          BY <2>4, <5>1, <5>4, <5>7, OnlyWaitKeeps DEF OnlyWait
        <5>9. Starting(j, t)'
          BY <3>2, <4>2, <5>1, <5>2, <5>3, <5>4, <5>8 DEF Starting, Settled
        <5> QED BY <5>1, <5>9 DEF Phase
      <4> QED BY <4>1, <4>2
    <3> QED BY <3>4, <3>5, <3>6
  <2> QED BY <1>2, <2>4, <2>5
<1> QED BY <1>3, <1>4

\* The cores come into copy j, in any order.
LEMMA StartingKeeps ==
  ASSUME StartupTypeOK, Counted, NEW i \in LoadAddrs, NEW j \in LoadAddrs, Starting(i, j), StartupNext
  PROVE  StartupTypeOK' /\ Counted' /\ Phase'
<1> DEFINE Kind(d) == \/ Released(d, i, "jump") /\ i # j /\ Target(i) = j /\ Settled(i)
                      \/ Stands(d, j, {"entry", "stack"}) /\ stage[d] = "run" /\ tables[d] \in {i, j}
                      \/ Stands(d, j, {"reloc", "fix", "unlock"}) /\ stage[d] = "run" /\ tables[d] = j
                      \/ Gathering(d, j, "top")
<1>1. 0 \in Procs /\ \A d \in Procs : Kind(d) BY AddrFacts DEF Starting
<1>2. ~BootStep
  <2>1. Kind(0) BY <1>1
  <2>2. place[0] \in {"jump", "entry", "stack", "reloc", "fix", "unlock", "top"}
    BY <2>1 DEF Released, Gathering, Stands
  <2> QED BY <2>2 DEF BootStep, BootEntry, RelocateTo, StartOthers, CopyProgram, CopyLocals
<1>3. ASSUME NEW c \in Procs, Enter(c) \/ Prepare(c) \/ Reloc(c) \/ Fix(c) \/ Fixed(c) \/ Unlock(c)
      PROVE  StartupTypeOK' /\ Counted' /\ Phase'
  <2>1. /\ place[c] \in {"entry", "stack", "reloc", "fix", "unlock"}
    BY <1>3 DEF Enter, Prepare, Reloc, Fix, Fixed, Unlock
  <2>2. img[c] = j /\ stage[c] = "run" /\ tables[c] \in {i, j}
        /\ (place[c] \in {"reloc", "fix", "unlock"} => tables[c] = j)
    <3>1. Kind(c) BY <1>1
    <3> QED BY <2>1, <3>1 DEF Released, Gathering, Stands
  <2>3. Sound(j) /\ ~copy[j].first_boot /\ copy[j].boot_params /\ copy[j].init_state = 2 /\ copy[i].intact
    BY DEF Starting
  <2>4. /\ StartupTypeOK' /\ Sound(j)' /\ \A b \in LoadAddrs \ {j} : copy'[b] = copy[b]
        /\ copy'[j].boot_params /\ ~copy'[j].first_boot /\ copy'[j].init_state = 2
        /\ img' = img /\ count' = count /\ flags' = flags
        /\ \A d \in Procs \ {c} : place'[d] = place[d] /\ stage'[d] = stage[d] /\ tables'[d] = tables[d]
    BY <1>3, <2>2, <2>3, CodeStep
  <2>5. /\ \/ place[c] = "entry" /\ place'[c] = "stack" /\ stage'[c] = stage[c] /\ tables'[c] = tables[c]
           \/ place[c] = "stack" /\ place'[c] = "reloc" /\ stage'[c] = stage[c] /\ tables'[c] = j
           \/ /\ place[c] \in {"reloc", "fix"} /\ place'[c] \in {"fix", "unlock"}
              /\ stage'[c] = stage[c] /\ tables'[c] = tables[c]
           \/ /\ place[c] = "unlock" /\ tables'[c] = tables[c]
              /\ place'[c] = "top" /\ stage'[c] = "arrive"
    BY <1>3, <2>2, <2>3, CodeStep
  <2>6. Kind(c)'
    BY <2>2, <2>4, <2>5 DEF Stands, Gathering
  <2>7. ASSUME NEW d \in Procs \ {c} PROVE Kind(d)'
    <3>1. ASSUME i # j PROVE (Settled(i) => Settled(i)') /\ Target(i)' = Target(i)
      <4>1. copy'[i] = copy[i] BY <2>4, <3>1
      <4>2. meant' = meant /\ chosen' = chosen BY <1>3 DEF Enter, Prepare, Reloc, Fix, Fixed, Unlock
      <4> QED BY <4>1, <4>2 DEF Settled, PointersAt, Target
    <3>2. Kind(d) BY <1>1
    <3>3. /\ Released(d, i, "jump") => Released(d, i, "jump")'
          /\ Gathering(d, j, "top") => Gathering(d, j, "top")'
          /\ Stands(d, j, {"entry", "stack"}) => Stands(d, j, {"entry", "stack"})'
          /\ Stands(d, j, {"reloc", "fix", "unlock"}) => Stands(d, j, {"reloc", "fix", "unlock"})'
          /\ stage'[d] = stage[d] /\ tables'[d] = tables[d]
      BY <2>4 DEF Released, Gathering, Stands
    <3> QED BY <3>1, <3>2, <3>3
  <2>8. copy'[i].intact BY <2>3, <2>4 DEF Sound
  <2> HIDE DEF Kind
  <2>9. \A d \in Procs : Kind(d)' BY <2>6, <2>7
  <2>10. Starting(i, j)' BY <2>4, <2>8, <2>9 DEF Starting, Kind
  <2>11. \A d \in Procs : Blocked(d)' <=> Blocked(d)
    BY <2>2, <2>4, <2>5 DEF Blocked
  <2>12. Counted' BY <2>4, <2>11, SameBlocked DEF Counted
  <2> QED BY <2>4, <2>10, <2>12 DEF Phase
<1>4. ASSUME NEW c \in Procs, Jump(c)
      PROVE  StartupTypeOK' /\ Counted' /\ Phase'
  <2>1. place[c] = "jump" /\ stage[c] = "run" BY <1>4 DEF Jump, Behind
  <2>2. Released(c, i, "jump") /\ i # j /\ Target(i) = j /\ Settled(i)
    <3>1. Kind(c) BY <1>1
    <3> QED BY <2>1, <3>1 DEF Gathering, Stands
  <2>3. Dest(c) = j BY <2>2 DEF Dest, Target, Here, Released
  <2>4. /\ UNCHANGED <<copy, flags, count, tables, offs, todo, meant, chosen, stage>>
        /\ place'[c] = "entry" /\ img'[c] = j
        /\ \A d \in Procs \ {c} : place'[d] = place[d] /\ img'[d] = img[d]
    BY <1>4, <2>3 DEF Jump, Goto, StartupTypeOK
  <2>5. StartupTypeOK' BY <1>4, OtherTypes
  <2>6. Sound(j)'
    <3>1. \A d \in Procs : /\ Stands(d, j, InStartup)' <=> Stands(d, j, InStartup)
                           /\ Stands(d, j, Zeroed)' <=> Stands(d, j, Zeroed)
                           /\ Stands(d, j, Through)' <=> Stands(d, j, Through)
                           /\ Stands(d, j, {"fix"})' <=> Stands(d, j, {"fix"})
      BY <2>1, <2>2, <2>4, PlaceSets DEF Stands, Released
    <3> QED BY <2>4, <3>1, SoundFrame DEF Starting
  <2>7. Settled(i)' /\ Target(i)' = j BY <2>2, <2>4 DEF Settled, PointersAt, Target
  <2>8. Kind(c)' BY <2>1, <2>2, <2>4 DEF Stands, Released
  <2>9. ASSUME NEW d \in Procs \ {c} PROVE Kind(d)'
    <3>1. Kind(d) BY <1>1
    <3>2. /\ Released(d, i, "jump") => Released(d, i, "jump")'
          /\ Gathering(d, j, "top") => Gathering(d, j, "top")'
          /\ Stands(d, j, {"entry", "stack"}) => Stands(d, j, {"entry", "stack"})'
          /\ Stands(d, j, {"reloc", "fix", "unlock"}) => Stands(d, j, {"reloc", "fix", "unlock"})'
          /\ stage'[d] = stage[d] /\ tables'[d] = tables[d]
      BY <2>4 DEF Released, Gathering, Stands
    <3> QED BY <2>2, <2>7, <3>1, <3>2
  <2> HIDE DEF Kind
  <2>10. \A d \in Procs : Kind(d)' BY <2>8, <2>9
  <2>11. Starting(i, j)' BY <2>4, <2>6, <2>10 DEF Starting, Kind
  <2>12. \A d \in Procs : Blocked(d)' <=> Blocked(d)
    BY <2>1, <2>4 DEF Blocked
  <2>13. Counted' BY <2>4, <2>12, SameBlocked DEF Counted
  <2> QED BY <2>5, <2>11, <2>13 DEF Phase
<1>5. \A c \in Procs : ~Top(c) /\ ~TestWindow(c) /\ ~RunAt(c)
  <2> SUFFICES ASSUME NEW c \in Procs PROVE ~Top(c) /\ ~TestWindow(c) /\ ~RunAt(c) OBVIOUS
  <2>1. Kind(c) BY <1>1
  <2> QED BY <2>1 DEF Top, TestWindow, RunAt, Behind, Released, Gathering, Stands
<1>6. ASSUME NEW c \in Procs, SetFlag(c) \/ Resume(c) \/ CountDown(c)
      PROVE  StartupTypeOK' /\ Counted' /\ Phase'
  BY <1>6, WaitKeeps
<1> QED BY <1>2, <1>3, <1>4, <1>5, <1>6 DEF StartupNext, CoreStep

\* All cores are in copy j, and the master chooses the next window.
LEMMA ChoosingKeeps ==
  ASSUME StartupTypeOK, Counted, NEW j \in LoadAddrs, Choosing(j), StartupNext
  PROVE  StartupTypeOK' /\ Counted' /\ Phase'
<1>1. 0 \in Procs /\ \A d \in Procs : Released(d, j, "top") \/ Gathering(d, j, "go")
  BY AddrFacts DEF Choosing
<1>2. \A d \in Procs : place[d] \in {"top", "go"} BY <1>1 DEF Released, Gathering
<1>3. ~BootStep
  BY <1>1, <1>2 DEF BootStep, BootEntry, RelocateTo, StartOthers, CopyProgram, CopyLocals
<1>4. ASSUME NEW c \in Procs, SetFlag(c) \/ Resume(c) \/ CountDown(c)
      PROVE  StartupTypeOK' /\ Counted' /\ Phase'
  BY <1>4, WaitKeeps
<1>5. \A c \in Procs : ~(Enter(c) \/ Prepare(c) \/ Reloc(c) \/ Fix(c) \/ Fixed(c) \/ Unlock(c) \/ Jump(c))
  BY <1>2 DEF Enter, Prepare, Reloc, Fix, Fixed, Unlock, Jump, Behind
<1>6. \A c \in Procs : ~(TestWindow(c) \/ RunAt(c))
  BY <1>1 DEF TestWindow, RunAt, Behind, Released, Gathering
<1>7. ASSUME NEW c \in Procs, Top(c) PROVE StartupTypeOK' /\ Counted' /\ Phase'
  <2>1. place[c] = "top" /\ stage[c] = "run" BY <1>7 DEF Top, Behind
  <2>2. img[c] = j /\ tables[c] = j BY <1>1 DEF Released, Gathering
  <2>3. StartupTypeOK' BY <1>7, <2>2, TopEffect
  <2>4. /\ UNCHANGED <<flags, count, img, tables>>
        /\ place'[c] = "go" /\ stage'[c] = "arrive"
        /\ \A d \in Procs \ {c} : place'[d] = place[d] /\ stage'[d] = stage[d]
    BY <1>7 DEF Top, WaitAt, StartupTypeOK
  <2>5. Settled(j) BY DEF Choosing
  <2>6. Settled(j)'
    <3>1. CASE UNCHANGED <<copy, meant, chosen>>
      BY <2>5, <3>1 DEF Settled, PointersAt
    <3>2. ASSUME NEW w \in {0, 1}, NEW p \in Pointers, NEW q \in Pointers,
                 chosen'.window = w, meant' = [meant EXCEPT ![p] = Addend[q]],
                 copy'[j] = [copy[j] EXCEPT !.window_num = w, !.slot[p] = j + Addend[q]]
          PROVE  Settled(j)'
      <4>1. j \in Nat /\ j # 0 /\ copy[j] \in Contents /\ meant \in [Pointers -> Nat]
        BY AddrFacts DEF StartupTypeOK
      <4>2. /\ copy'[j].intact /\ copy'[j].boot_params /\ copy'[j].init_state = 2
            /\ ~copy'[j].startup_mutex /\ ~copy'[j].first_boot
            /\ copy'[j].last_load_addr = j
            /\ copy'[j].window_num = w
        BY <2>5, <3>2, <4>1 DEF Contents, Settled
      <4>3. copy'[j].table = copy[j].table /\ copy'[j].slot = [copy[j].slot EXCEPT ![p] = j + Addend[q]]
        BY <3>2, <4>1 DEF Contents
      <4>4. \A r \in Pointers : copy'[j].slot[r] = j + meant'[r]
        <5>1. copy[j].slot \in [Pointers -> Int] BY <4>1 DEF Contents
        <5>2. \A r \in Pointers : copy[j].slot[r] = j + meant[r] BY <2>5, <4>1 DEF Settled, PointersAt
        <5>3. copy'[j].slot[p] = j + Addend[q] /\ meant'[p] = Addend[q] BY <3>2, <4>1, <4>3, <5>1
        <5>4. \A r \in Pointers \ {p} : copy'[j].slot[r] = copy[j].slot[r] /\ meant'[r] = meant[r]
          BY <3>2, <4>1, <4>3, <5>1
        <5> QED BY <5>2, <5>3, <5>4
      <4>5. PointersAt(j, j)' BY <2>5, <4>1, <4>3, <4>4 DEF PointersAt, Settled
      <4> QED BY <3>2, <4>2, <4>5 DEF Settled
    <3>3. \/ UNCHANGED <<copy, meant, chosen>>
          \/ \E w \in {0, 1}, p \in Pointers, q \in Pointers :
               /\ chosen'.window = w
               /\ meant' = [meant EXCEPT ![p] = Addend[q]]
               /\ copy'[j] = [copy[j] EXCEPT !.window_num = w, !.slot[p] = j + Addend[q]]
      BY <1>7, <2>2, TopEffect
    <3> QED BY <3>1, <3>2, <3>3
  <2>7. \A d \in Procs : Released(d, j, "top")' \/ Gathering(d, j, "go")'
    BY <1>1, <2>2, <2>4 DEF Released, Gathering
  <2>8. Choosing(j)' BY <2>6, <2>7 DEF Choosing
  <2>9. \A d \in Procs : Blocked(d)' <=> Blocked(d) BY <2>1, <2>4 DEF Blocked
  <2>10. Counted' BY <2>4, <2>9, SameBlocked DEF Counted
  <2> QED BY <2>3, <2>8, <2>10 DEF Phase
<1> QED BY <1>3, <1>4, <1>5, <1>6, <1>7 DEF StartupNext, CoreStep

\* All cores are in copy j, and test a window there or wait for the next copy.
LEMMA ActingKeeps ==
  ASSUME StartupTypeOK, Counted, NEW j \in LoadAddrs, Acting(j), StartupNext
  PROVE  StartupTypeOK' /\ Counted' /\ Phase'
<1> DEFINE Kind(d) == \/ Released(d, j, "go")
                      \/ Target(j) = j /\ Gathering(d, j, "top")
                      \/ Target(j) # j /\ Gathering(d, j, "jump")
                      \/ /\ Target(j) # j /\ d = 0 /\ img[d] = j /\ tables[d] = j
                         /\ stage[d] = "run" /\ place[d] \in {"copy", "locals"}
<1>1. 0 \in Procs /\ Settled(j) /\ \A d \in Procs : Kind(d) BY AddrFacts DEF Acting
<1>2. PICK t \in LoadAddrs : t = Target(j) BY AddrFacts DEF Target
<1>3. \A d \in Procs : img[d] = j /\ tables[d] = j /\ place[d] \in {"go", "top", "jump", "copy", "locals"}
  BY <1>1 DEF Released, Gathering
<1>4. \A d \in Procs : Dest(d) = t BY <1>2, <1>3 DEF Dest, Target, Here
<1>5. ASSUME NEW c \in Procs, SetFlag(c) \/ Resume(c) \/ CountDown(c)
      PROVE  StartupTypeOK' /\ Counted' /\ Phase'
  BY <1>5, WaitKeeps
<1>6. ~BootEntry /\ ~RelocateTo /\ ~StartOthers
  BY <1>1, <1>3 DEF BootEntry, RelocateTo, StartOthers
<1>7. \A c \in Procs : ~(Enter(c) \/ Prepare(c) \/ Reloc(c) \/ Fix(c) \/ Fixed(c) \/ Unlock(c))
  BY <1>3 DEF Enter, Prepare, Reloc, Fix, Fixed, Unlock
<1>8. \A c \in Procs : ~(Top(c) \/ Jump(c))
  <2> SUFFICES ASSUME NEW c \in Procs PROVE ~Top(c) /\ ~Jump(c) OBVIOUS
  <2>1. Kind(c) BY <1>1
  <2> QED BY <2>1 DEF Top, Jump, Behind, Released, Gathering
<1>9. ASSUME NEW c \in Procs, TestWindow(c) PROVE StartupTypeOK' /\ Counted' /\ Phase'
  <2>1. t = j BY <1>3, <1>4, <1>9 DEF TestWindow
  <2>2. place[c] = "go" /\ stage[c] = "run" BY <1>9 DEF TestWindow, Behind
  <2>3. StartupTypeOK' /\ copy'[j] = copy[j] /\ flags'[j] = flags[j]
    BY <1>3, <1>9, TestWindowEffect
  <2>4. /\ UNCHANGED <<count, img, tables, meant, chosen>>
        /\ place'[c] = "top" /\ stage'[c] = "arrive"
        /\ \A d \in Procs \ {c} : place'[d] = place[d] /\ stage'[d] = stage[d]
    BY <1>9 DEF TestWindow, WaitAt, StartupTypeOK
  <2>5. Settled(j)' /\ Target(j)' = j BY <1>1, <1>2, <2>1, <2>3, <2>4 DEF Settled, PointersAt, Target
  <2>6. ASSUME NEW d \in Procs PROVE Released(d, j, "go")' \/ Gathering(d, j, "top")'
    <3>1. Kind(d) BY <1>1
    <3> QED BY <1>2, <1>3, <2>1, <2>3, <2>4, <3>1 DEF Released, Gathering
  <2>7. place'[0] \in {"go", "top"} BY <1>1, <2>6 DEF Released, Gathering
  <2>8. Acting(j)' BY <2>5, <2>6, <2>7 DEF Acting
  <2>9. \A d \in Procs : Blocked(d)' <=> Blocked(d) BY <1>3, <2>2, <2>3, <2>4 DEF Blocked
  <2>10. Counted' BY <2>4, <2>9, SameBlocked DEF Counted
  <2> QED BY <2>3, <2>8, <2>10 DEF Phase
<1>10. ASSUME NEW c \in Procs, RunAt(c) PROVE StartupTypeOK' /\ Counted' /\ Phase'
  <2>1. t # j BY <1>3, <1>4, <1>10 DEF RunAt
  <2>2. place[c] = "go" /\ stage[c] = "run" BY <1>10 DEF RunAt, Behind
  <2>3. StartupTypeOK' BY <1>10, OtherTypes
  <2>4. /\ UNCHANGED <<copy, flags, count, img, tables, next, meant, chosen>>
        /\ IF c = 0 THEN place'[c] = "copy" /\ stage'[c] = "run"
           ELSE place'[c] = "jump" /\ stage'[c] = "arrive"
        /\ \A d \in Procs \ {c} : place'[d] = place[d] /\ stage'[d] = stage[d]
    BY <1>10, <2>2 DEF RunAt, WaitAt, Goto, StartupTypeOK
  <2>5. Settled(j)' /\ Target(j)' = t BY <1>1, <1>2, <2>4 DEF Settled, PointersAt, Target
  <2>6. ASSUME NEW d \in Procs PROVE Kind(d)'
    <3>1. Kind(d) BY <1>1
    <3> QED BY <1>2, <1>3, <2>1, <2>4, <2>5, <3>1 DEF Released, Gathering
  <2>7. /\ place'[0] \in {"locals", "jump"} => place[0] \in {"locals", "jump"}
        /\ place'[0] = "locals" => place[0] = "locals"
    BY <1>1, <2>4
  <2>8. place'[0] \in {"locals", "jump"} => copy'[Target(j)'] = copy'[j]
    BY <1>2, <2>4, <2>5, <2>7 DEF Acting
  <2> HIDE DEF Kind
  <2>9. \A d \in Procs : Kind(d)' BY <2>6
  <2>10. Acting(j)' BY <2>4, <2>5, <2>7, <2>8, <2>9 DEF Acting, Kind
  <2>11. \A d \in Procs : Blocked(d)' <=> Blocked(d) BY <2>2, <2>4 DEF Blocked
  <2>12. Counted' BY <2>4, <2>11, SameBlocked DEF Counted
  <2> QED BY <2>3, <2>10, <2>12 DEF Phase
<1>11. CASE CopyProgram
  <2>1. place[0] = "copy" BY <1>11 DEF CopyProgram
  <2>2. Kind(0) BY <1>1
  <2>3. t # j /\ stage[0] = "run" BY <1>2, <2>1, <2>2 DEF Released, Gathering
  <2>4. StartupTypeOK' /\ copy'[t] = copy[j] /\ \A b \in LoadAddrs \ {t} : copy'[b] = copy[b]
    BY <1>1, <1>2, <1>3, <1>11, CopyProgramEffect
  <2>5. /\ UNCHANGED <<flags, count, img, tables, meant, chosen, stage>>
        /\ place'[0] = "locals" /\ next' = 0
        /\ \A d \in Procs \ {0} : place'[d] = place[d]
    BY <1>1, <1>11 DEF CopyProgram, Goto, StartupTypeOK
  <2>6. copy'[j] = copy[j] BY <2>3, <2>4
  <2>7. Settled(j)' /\ Target(j)' = t BY <1>1, <1>2, <2>5, <2>6 DEF Settled, PointersAt, Target
  <2>8. ASSUME NEW d \in Procs PROVE Kind(d)'
    <3>1. Kind(d) BY <1>1
    <3> QED BY <1>2, <1>3, <2>3, <2>5, <2>7, <3>1 DEF Released, Gathering
  <2> HIDE DEF Kind
  <2>9. \A d \in Procs : Kind(d)' BY <2>8
  <2>10. Acting(j)' BY <2>4, <2>5, <2>6, <2>7, <2>9, AddrFacts DEF Acting, Kind
  <2>11. \A d \in Procs : Blocked(d)' <=> Blocked(d) BY <2>5 DEF Blocked
  <2>12. Counted' BY <2>5, <2>11, SameBlocked DEF Counted
  <2> QED BY <2>4, <2>10, <2>12 DEF Phase
<1>12. CASE CopyLocals
  <2>1. place[0] = "locals" BY <1>12 DEF CopyLocals
  <2>2. Kind(0) BY <1>1
  <2>3. t # j /\ stage[0] = "run" BY <1>2, <2>1, <2>2 DEF Released, Gathering
  <2>4. next < Num /\ copy[t] = copy[j] BY <1>2, <2>1 DEF Acting
  <2>5. StartupTypeOK' BY <1>12, <2>4, <1>1, OtherTypes
  <2>6. /\ UNCHANGED <<copy, count, img, tables, meant, chosen>>
        /\ next' = next + 1
        /\ IF next + 1 < Num THEN place'[0] = "locals" /\ stage'[0] = "run"
           ELSE place'[0] = "jump" /\ stage'[0] = "arrive"
        /\ \A d \in Procs \ {0} : place'[d] = place[d] /\ stage'[d] = stage[d]
    BY <1>1, <1>12, <2>1, <2>3 DEF CopyLocals, WaitAt, StartupTypeOK
  <2>7. flags'[j] = flags[j]
    <3>1. flags' = [flags EXCEPT ![t][next] = flags[j][next]] BY <1>1, <1>3, <1>4, <1>12 DEF CopyLocals
    <3> QED BY <2>3, <3>1 DEF StartupTypeOK
  <2>8. Settled(j)' /\ Target(j)' = t BY <1>1, <1>2, <2>6 DEF Settled, PointersAt, Target
  <2>9. ASSUME NEW d \in Procs PROVE Kind(d)'
    <3>1. Kind(d) BY <1>1
    <3> QED BY <1>2, <1>3, <2>3, <2>6, <2>7, <2>8, <3>1 DEF Released, Gathering
  <2> HIDE DEF Kind
  <2>10. \A d \in Procs : Kind(d)' BY <2>9
  <2>11. Acting(j)' BY <2>4, <2>6, <2>8, <2>10 DEF Acting, Kind
  <2>12. \A d \in Procs : Blocked(d)' <=> Blocked(d) BY <1>1, <1>3, <2>3, <2>6, <2>7 DEF Blocked
  <2>13. Counted' BY <2>6, <2>12, SameBlocked DEF Counted
  <2> QED BY <2>5, <2>11, <2>13 DEF Phase
<1> QED BY <1>5, <1>6, <1>7, <1>8, <1>9, <1>10, <1>11, <1>12 DEF StartupNext, BootStep, CoreStep

\* The invariant holds when the boot loader has loaded the program ...
LEMMA InitHolds == StartupInit => StartupInv
<1> SUFFICES ASSUME StartupInit PROVE StartupInv OBVIOUS
<1>1. PICK a \in BootAddrs :
        /\ copy = [b \in LoadAddrs |-> IF b = a THEN Loaded(b) ELSE Junk(b)]
        /\ img = [c \in Procs |-> a] /\ tables = [c \in Procs |-> a]
  BY DEF StartupInit
<1>2. a \in LoadAddrs /\ 0 \in Procs /\ Num \in Nat /\ Num > 0 BY AddrFacts
<1>3. \A b \in LoadAddrs : Loaded(b) \in Contents /\ Junk(b) \in Contents BY LoadedType
<1>5. copy \in [LoadAddrs -> Contents] /\ copy[a] = Loaded(a) BY <1>1, <1>2, <1>3
<1>6. meant = Addend /\ Addend \in [Pointers -> Nat] /\ chosen = [window |-> 0, moves |-> 0]
  BY AddrAssumption DEF StartupInit
<1>7. StartupTypeOK
  BY <1>1, <1>2, <1>5, <1>6 DEF StartupInit, StartupTypeOK, Places
<1>8. \A c \in Procs : ~Blocked(c) BY DEF StartupInit, Blocked
<1>9. Counted
  <2>1. BlockedSet = {} BY <1>8 DEF BlockedSet
  <2> QED BY <1>2, <2>1, FS_EmptySet DEF Counted, StartupInit
<1>10. /\ copy[a].intact /\ ~copy[a].startup_mutex /\ copy[a].first_boot /\ copy[a].table = TableOffset
       /\ (Rela \/ copy[a].slot = Addend)
  <2>1. Addend = [p \in Pointers |-> Addend[p]] BY <1>6
  <2> QED BY <1>5, <2>1 DEF Loaded
<1>11. \A c \in Procs : /\ ~Stands(c, a, InStartup) /\ ~Stands(c, a, {"fix"})
                          /\ ~Stands(c, a, Zeroed) /\ ~Stands(c, a, Through)
  BY PlaceSets DEF StartupInit, Stands
<1>12. PointersAt(a, Base(a)) BY <1>6, <1>10, AddrAssumption DEF PointersAt, Base
<1>13. Sound(a)
  BY <1>6, <1>10, <1>11, <1>12 DEF Sound, LockRight, RelocRight, WindowKept
<1>14. Booting(a)
  BY <1>1, <1>2, <1>10, <1>13 DEF StartupInit, Booting
<1> QED BY <1>2, <1>7, <1>9, <1>14 DEF StartupInv, Phase

\* ... and every step keeps it.
LEMMA StepHolds == StartupInv /\ [StartupNext]_startupVars => StartupInv'
<1> SUFFICES ASSUME StartupInv, [StartupNext]_startupVars PROVE StartupInv' OBVIOUS
<1>1. StartupTypeOK /\ Counted /\ Phase BY DEF StartupInv
<1>2. CASE StartupNext
  <2>1. StartupTypeOK' /\ Counted' /\ Phase'
    BY <1>1, <1>2, BootingKeeps, StartingKeeps, ChoosingKeeps, ActingKeeps DEF Phase
  <2> QED BY <2>1 DEF StartupInv
<1>3. CASE UNCHANGED startupVars
  <2>1. OnlyWait /\ flags' = flags /\ count' = count /\ stage' = stage
    BY <1>3 DEF startupVars, OnlyWait
  <2>2. StartupTypeOK' BY <1>1, <2>1 DEF StartupTypeOK, OnlyWait
  <2>3. \A d \in Procs : Blocked(d)' <=> Blocked(d) BY <2>1 DEF Blocked, OnlyWait
  <2>4. Counted' BY <1>1, <2>1, <2>3, SameBlocked DEF Counted
  <2>5. \A a \in LoadAddrs  :
          (Sound(a) => Sound(a)') /\ (Settled(a) => Settled(a)') /\ Target(a)' = Target(a)
    BY <2>1, OnlyWaitKeeps
  <2>6. \A d \in Procs, a \in LoadAddrs, w \in Places :
          /\ Released(d, a, w) => Released(d, a, w)'
          /\ Gathering(d, a, w) => Gathering(d, a, w)'
    BY <2>1 DEF Released, Gathering, OnlyWait
  <2>7. \A d \in Procs : \A a, P : Stands(d, a, P)' <=> Stands(d, a, P) BY <2>1 DEF Stands, OnlyWait
  <2>8. {"top", "go", "jump"} \subseteq Places BY DEF Places, InMain, Waits
  <2>9. Phase'
    <3>1. PICK i, j \in LoadAddrs : Booting(j) \/ Starting(i, j) \/ Choosing(j) \/ Acting(j)
      BY <1>1 DEF Phase
    <3>2. Booting(j) => Booting(j)' BY <2>1, <2>5 DEF Booting, OnlyWait
    <3>3. Choosing(j) => Choosing(j)' BY <2>5, <2>6, <2>8 DEF Choosing
    <3>4. Acting(j) => Acting(j)' BY <2>1, <2>5, <2>6, <2>8 DEF Acting, OnlyWait
    <3>5. Starting(i, j) => Starting(i, j)'
      BY <2>1, <2>5, <2>6, <2>7, <2>8 DEF Starting, OnlyWait
    <3> QED BY <3>1, <3>2, <3>3, <3>4, <3>5 DEF Phase
  <2> QED BY <2>2, <2>4, <2>9 DEF StartupInv
<1> QED BY <1>2, <1>3

\* It implies what has to hold at every restart.
LEMMA InvRestart == StartupInv => RestartRight
<1> SUFFICES ASSUME StartupInv PROVE RestartRight OBVIOUS
<1>1. StartupTypeOK /\ Counted BY DEF StartupInv
<1>2. PICK i, j \in LoadAddrs : Booting(j) \/ Starting(i, j) \/ Choosing(j) \/ Acting(j)
  BY DEF StartupInv, Phase
<1>3. WaitTogether
  <2>1. PICK w \in Waits : \A c \in Procs : Blocked(c) => Gathering(c, j, w)
    BY <1>1, <1>2, Meeting
  <2> QED BY <1>1, <2>1 DEF WaitTogether, Counted, Gathering
<1>4. j \in Nat /\ j # 0 /\ 0 \in Procs BY AddrFacts
<1> DEFINE Good(c) == /\ copy[img[c]].table = img[c] + TableOffset
                      /\ \A p \in Pointers : copy[img[c]].slot[p] = img[c] + meant[p]
                      /\ copy[img[c]].boot_params /\ copy[img[c]].window_num = chosen.window
                      /\ place[c] # "init" => copy[img[c]].init_state = 2
<1>5. \A a \in LoadAddrs : Settled(a) => \A c \in Procs : img[c] = a => Good(c)
  BY AddrFacts DEF Settled, PointersAt
<1>6. ASSUME Sound(j), NEW c \in Procs, img[c] = j, place[c] \in InMain, copy[j].boot_params,
             place[c] # "init" => copy[j].init_state = 2
      PROVE  Good(c)
  <2>1. Stands(c, j, Zeroed) /\ Stands(c, j, Through) BY <1>6, PlaceSets DEF Stands
  <2>2. ~copy[j].first_boot /\ copy[j].last_load_addr = j /\ PointersAt(j, j)
    BY <1>6, <2>1 DEF Sound, RelocRight, Base
  <2> QED BY <1>4, <1>6, <2>2 DEF Sound, WindowKept, PointersAt
<1>7. (\A c \in Procs : place[c] \in InMain => Good(c)) /\ OneInStartup /\ NothingPulledAway
  <2>1. CASE Booting(j)
    <3>1. \A c \in Procs : place[c] \in InMain => c = 0 /\ place[c] = "init"
      BY <2>1 DEF Booting, InMain, Waits, InStartup
    <3>2. \A c \in Procs : place[c] \in InStartup => c = 0
      BY <2>1 DEF Booting, InStartup
    <3>3. \A c \in Procs : place[c] \in InMain => Good(c)
      BY <1>4, <1>6, <2>1, <3>1 DEF Booting
    <3>4. NothingPulledAway BY <1>4, <2>1 DEF Booting, NothingPulledAway, Here, Sound
    <3> QED BY <3>2, <3>3, <3>4 DEF OneInStartup
  <2>2. CASE Starting(i, j)
    <3>1. \A c \in Procs :
            /\ img[c] = j \/ (img[c] = i /\ place[c] = "jump" /\ Settled(i))
            /\ tables[c] \in {i, j}
            /\ place[c] # "init"
      BY <2>2 DEF Starting, Released, Gathering, Stands
    <3>2. OneInStartup
      BY <2>2, <3>1, PlaceSets DEF OneInStartup, Starting, Sound, LockRight, Stands
    <3>3. NothingPulledAway BY <2>2, <3>1 DEF NothingPulledAway, Here, Starting, Sound
    <3>4. \A c \in Procs : place[c] \in InMain => Good(c)
      <4> SUFFICES ASSUME NEW c \in Procs, place[c] \in InMain PROVE Good(c) OBVIOUS
      <4> HIDE DEF Good
      <4>1. CASE img[c] = j BY <1>6, <2>2, <3>1, <4>1 DEF Starting
      <4>2. CASE img[c] # j BY <1>5, <3>1, <4>2
      <4> QED BY <4>1, <4>2
    <3> QED BY <3>2, <3>3, <3>4
  <2>3. CASE Choosing(j) \/ Acting(j)
    <3>1. \A c \in Procs : /\ img[c] = j /\ tables[c] = j
                           /\ place[c] \in {"go", "top", "jump", "copy", "locals"}
      BY <2>3 DEF Choosing, Acting, Released, Gathering
    <3>2. Settled(j) BY <2>3 DEF Choosing, Acting
    <3>3. OneInStartup BY <3>1, PlaceSets DEF OneInStartup
    <3>4. NothingPulledAway BY <3>1, <3>2 DEF NothingPulledAway, Here, Settled
    <3> HIDE DEF Good
    <3> QED BY <1>5, <3>1, <3>2, <3>3, <3>4
  <2> QED BY <1>2, <2>1, <2>2, <2>3
<1>8. PointersRight /\ StateKept BY <1>7 DEF PointersRight, StateKept, Here
<1> QED BY <1>1, <1>3, <1>7, <1>8 DEF RestartRight

\* Whichever core is first or last in a copy, whatever address it came from and however
\* many cores there are: the startup code runs under its lock, main finds every pointer
\* in place and everything it has written, no test touches a copy in use, and the cores
\* that wait for each other wait at one place (startup64.S, reloc64.c, run_at in main.c).
THEOREM RestartCorrect == SafeStartup => []RestartRight
<1>1. SafeStartup => []StartupInv
  BY InitHolds, StepHolds, PTL DEF SafeStartup
<1> QED BY <1>1, InvRestart, PTL
=============================================================================
