---------------------------- MODULE BarrierProofs ----------------------------
(***************************************************************************)
(* Proofs about Barrier, for every number of cores: the inductive          *)
(* invariant, and that the code implements the abstract barrier.           *)
(***************************************************************************)
EXTENDS Barrier, FiniteSetTheorems, TLAPS

\* Any set of cores is finite, so that its size is a natural number.
LEMMA CpuSetsFinite ==
  ASSUME NEW S \in SUBSET CPU
  PROVE  IsFiniteSet(S) /\ Cardinality(S) \in Nat
<1>1. IsFiniteSet(CPU)
  BY NAssumption, FS_Interval DEF CPU
<1> QED BY <1>1, FS_Subset, FS_CardinalityType

\* One more core has arrived: one less to wait for; and when only one was
\* missing, it is that core.
LEMMA OneMore ==
  ASSUME NEW S \in SUBSET CPU, NEW c \in S
  PROVE  /\ Cardinality(S \ {c}) = Cardinality(S) - 1
         /\ Cardinality(S) = 1 => S = {c}
         /\ Cardinality(S) >= 1
<1>1. IsFiniteSet(S) /\ Cardinality(S) \in Nat  BY CpuSetsFinite
<1>2. Cardinality(S \ {c}) = Cardinality(S) - 1  BY <1>1, FS_RemoveElement
<1>3. IsFiniteSet(S \ {c}) /\ Cardinality(S \ {c}) \in Nat
  BY CpuSetsFinite
<1>4. ASSUME Cardinality(S) = 1 PROVE S = {c}
  <2>1. Cardinality(S \ {c}) = 0 BY <1>2, <1>4
  <2>2. S \ {c} = {} BY <2>1, <1>3, FS_EmptySet
  <2> QED BY <2>2
<1> QED BY <1>1, <1>2, <1>3, <1>4

\* A part of the threads is no larger than all of them.
LEMMA PartOfThreads ==
  ASSUME NEW S \in SUBSET CPU, NEW T \in SUBSET S
  PROVE  Cardinality(T) \in 0 .. Cardinality(S)
<1>1. IsFiniteSet(S) /\ Cardinality(S) \in Nat  BY CpuSetsFinite
<1>2. T \in SUBSET CPU OBVIOUS
<1>3. Cardinality(T) \in Nat BY <1>2, CpuSetsFinite
<1> QED BY <1>1, <1>3, FS_Subset

\* The inductive invariant holds initially.
LEMMA InitInv == Init => Inv
<1> SUFFICES ASSUME Init PROVE Inv  OBVIOUS
<1> USE DEF Init
<1>1. count = Cardinality(threads \ Arrived)
  <2>1. threads \ Arrived = threads BY DEF Arrived
  <2> QED BY <2>1
<1>2. TypeOK
  BY NAssumption, CpuSetsFinite DEF TypeOK, num_threads, PC, Kind
<1>3. CountMatches BY <1>1 DEF CountMatches
<1>4. NmiFindsWaiter /\ KindInv /\ GatherInv /\ OneWaker /\ HeldInv /\ SendInv
  BY DEF NmiFindsWaiter, KindInv, GatherInv, OneWaker, HeldInv, SendInv,
         Waking, Waiting
<1> QED BY <1>2, <1>3, <1>4 DEF Inv

\* Every step preserves the inductive invariant.
LEMMA InvStep == Inv /\ [Next]_vars => Inv'
<1> SUFFICES ASSUME Inv, [Next]_vars PROVE Inv'  OBVIOUS
<1>a. TypeOK /\ CountMatches /\ NmiFindsWaiter /\ KindInv
      /\ GatherInv /\ OneWaker /\ HeldInv /\ SendInv
  BY DEF Inv
<1> DEFINE Rest == NmiFindsWaiter /\ KindInv /\ GatherInv /\ OneWaker
                   /\ HeldInv /\ SendInv
<1>b. N \in Nat /\ N > 0 /\ CPU \subseteq Nat /\ \A c \in CPU : c < N
  BY NAssumption DEF CPU
<1>c. ASSUME (threads \in SUBSET CPU /\ flag \in [CPU -> BOOLEAN]
              /\ pc \in [CPU -> PC] /\ kind \in [CPU -> Kind]
              /\ idx \in [CPU -> 0 .. N] /\ nmi \in SUBSET CPU
              /\ gather \in SUBSET threads /\ gkind \in Kind)',
             CountMatches'
      PROVE  TypeOK'
  <2>1. Cardinality(threads' \ Arrived') \in 0 .. Cardinality(threads')
    BY <1>c, PartOfThreads
  <2>2. 0 \in 0 .. Cardinality(threads')  BY <1>c, CpuSetsFinite
  <2> QED BY <1>c, <2>1, <2>2 DEF TypeOK, CountMatches, num_threads
<1>1. ASSUME NEW c \in CPU, NEW k \in Kind, Enter(c, k) PROVE Inv'
  <2>1. (threads \in SUBSET CPU /\ flag \in [CPU -> BOOLEAN] /\ pc \in [CPU -> PC]
        /\ kind \in [CPU -> Kind] /\ idx \in [CPU -> 0 .. N]
        /\ nmi \in SUBSET CPU /\ gather \in SUBSET threads /\ gkind \in Kind)'
    BY <1>1, <1>a, <1>b DEF Enter, TypeOK, PC, Kind
  <2>2. Rest'
    BY <1>1, <1>a, <1>b DEF Enter, TypeOK, NmiFindsWaiter, KindInv, GatherInv,
       OneWaker, HeldInv, SendInv, Waking, Waiting, Ahead, Kind
  <2>3. CountMatches'
    BY <1>1, <1>a, <1>b DEF Enter, TypeOK, CountMatches, KindInv, GatherInv,
       OneWaker, HeldInv, Waking, Waiting, Ahead, Arrived, num_threads
  <2> QED BY <2>1, <2>2, <2>3, <1>c DEF Inv
<1>2. ASSUME NEW c \in CPU, SpinExit(c) PROVE Inv'
  <2>1. (threads \in SUBSET CPU /\ flag \in [CPU -> BOOLEAN] /\ pc \in [CPU -> PC]
        /\ kind \in [CPU -> Kind] /\ idx \in [CPU -> 0 .. N]
        /\ nmi \in SUBSET CPU /\ gather \in SUBSET threads /\ gkind \in Kind)'
    BY <1>2, <1>a, <1>b DEF SpinExit, TypeOK, PC, Kind
  <2>2. Rest'
    BY <1>2, <1>a, <1>b DEF SpinExit, TypeOK, NmiFindsWaiter, KindInv, GatherInv,
       OneWaker, HeldInv, SendInv, Waking, Waiting, Ahead, Kind
  <2>3. CountMatches'
    <3>1. gather' = gather /\ \A d \in CPU : /\ pc'[d] = "armed" <=> pc[d] = "armed"
                                             /\ pc'[d] = "last" <=> pc[d] = "last"
      BY <1>2, <1>a DEF SpinExit, TypeOK, NmiFindsWaiter
    <3>2. Arrived' = Arrived /\ threads' = threads /\ count' = count
      BY <1>2, <3>1, <1>a DEF SpinExit, Arrived, TypeOK
    <3> QED BY <1>a, <3>1, <3>2 DEF CountMatches
  <2> QED BY <2>1, <2>2, <2>3, <1>c DEF Inv
<1>3. ASSUME NEW c \in CPU, Halt(c) PROVE Inv'
  <2>1. (threads \in SUBSET CPU /\ flag \in [CPU -> BOOLEAN] /\ pc \in [CPU -> PC]
        /\ kind \in [CPU -> Kind] /\ idx \in [CPU -> 0 .. N]
        /\ nmi \in SUBSET CPU /\ gather \in SUBSET threads /\ gkind \in Kind)'
    BY <1>3, <1>a, <1>b DEF Halt, TypeOK, PC, Kind
  <2>2. Rest'
    BY <1>3, <1>a, <1>b DEF Halt, TypeOK, NmiFindsWaiter, KindInv, GatherInv,
       OneWaker, HeldInv, SendInv, Waking, Waiting, Ahead, Kind
  <2>3. CountMatches'
    <3>1. gather' = gather /\ \A d \in CPU : /\ pc'[d] = "armed" <=> pc[d] = "armed"
                                             /\ pc'[d] = "last" <=> pc[d] = "last"
      BY <1>3, <1>a DEF Halt, TypeOK, NmiFindsWaiter
    <3>2. Arrived' = Arrived /\ threads' = threads /\ count' = count
      BY <1>3, <3>1, <1>a DEF Halt, Arrived, TypeOK
    <3> QED BY <1>a, <3>1, <3>2 DEF CountMatches
  <2> QED BY <2>1, <2>2, <2>3, <1>c DEF Inv
<1>4. ASSUME NEW c \in CPU, TakeNmi(c) PROVE Inv'
  <2>1. (threads \in SUBSET CPU /\ flag \in [CPU -> BOOLEAN] /\ pc \in [CPU -> PC]
        /\ kind \in [CPU -> Kind] /\ idx \in [CPU -> 0 .. N]
        /\ nmi \in SUBSET CPU /\ gather \in SUBSET threads /\ gkind \in Kind)'
    BY <1>4, <1>a, <1>b DEF TakeNmi, TypeOK, PC, Kind
  <2>2. Rest'
    BY <1>4, <1>a, <1>b DEF TakeNmi, TypeOK, NmiFindsWaiter, KindInv, GatherInv,
       OneWaker, HeldInv, SendInv, Waking, Waiting, Ahead, Kind
  <2>3. CountMatches'
    <3>1. gather' = gather /\ \A d \in CPU : /\ pc'[d] = "armed" <=> pc[d] = "armed"
                                             /\ pc'[d] = "last" <=> pc[d] = "last"
      BY <1>4, <1>a DEF TakeNmi, TypeOK, NmiFindsWaiter
    <3>2. Arrived' = Arrived /\ threads' = threads /\ count' = count
      BY <1>4, <3>1, <1>a DEF TakeNmi, Arrived, TypeOK
    <3> QED BY <1>a, <3>1, <3>2 DEF CountMatches
  <2> QED BY <2>1, <2>2, <2>3, <1>c DEF Inv
<1>5. ASSUME NEW c \in CPU, ResetCount(c) PROVE Inv'
  <2>1. (threads \in SUBSET CPU /\ flag \in [CPU -> BOOLEAN] /\ pc \in [CPU -> PC]
        /\ kind \in [CPU -> Kind] /\ idx \in [CPU -> 0 .. N]
        /\ nmi \in SUBSET CPU /\ gather \in SUBSET threads /\ gkind \in Kind)'
    BY <1>5, <1>a, <1>b DEF ResetCount, TypeOK, PC, Kind
  <2>2. Rest'
    BY <1>5, <1>a, <1>b DEF ResetCount, TypeOK, NmiFindsWaiter, KindInv, GatherInv,
       OneWaker, HeldInv, SendInv, Waking, Waiting, Ahead, Kind
  <2>3. CountMatches'
    <3>1. gather = {}
      BY <1>5, <1>a DEF ResetCount, TypeOK, OneWaker, HeldInv, Waking, Ahead
    <3>2. threads' \ Arrived' = threads /\ count' = Cardinality(threads)
      BY <1>5, <3>1 DEF ResetCount, Arrived, num_threads
    <3>3. \A d \in CPU : pc'[d] # "last"
      BY <1>5, <1>a DEF ResetCount, TypeOK, OneWaker, Waking
    <3> QED BY <3>2, <3>3 DEF CountMatches
  <2> QED BY <2>1, <2>2, <2>3, <1>c DEF Inv
<1>6. ASSUME NEW c \in CPU, ClearOwn(c) PROVE Inv'
  <2>1. (threads \in SUBSET CPU /\ flag \in [CPU -> BOOLEAN] /\ pc \in [CPU -> PC]
        /\ kind \in [CPU -> Kind] /\ idx \in [CPU -> 0 .. N]
        /\ nmi \in SUBSET CPU /\ gather \in SUBSET threads /\ gkind \in Kind)'
    BY <1>6, <1>a, <1>b DEF ClearOwn, TypeOK, PC, Kind
  <2>2. Rest'
    BY <1>6, <1>a, <1>b DEF ClearOwn, TypeOK, NmiFindsWaiter, KindInv, GatherInv,
       OneWaker, HeldInv, SendInv, Waking, Waiting, Ahead, Kind
  <2>3. CountMatches'
    <3>1. gather' = gather /\ \A d \in CPU : /\ pc'[d] = "armed" <=> pc[d] = "armed"
                                             /\ pc'[d] = "last" <=> pc[d] = "last"
      BY <1>6, <1>a DEF ClearOwn, TypeOK, NmiFindsWaiter
    <3>2. Arrived' = Arrived /\ threads' = threads /\ count' = count
      BY <1>6, <3>1, <1>a DEF ClearOwn, Arrived, TypeOK
    <3> QED BY <1>a, <3>1, <3>2 DEF CountMatches
  <2> QED BY <2>1, <2>2, <2>3, <1>c DEF Inv
<1>7. ASSUME NEW c \in CPU, ClearFlag(c) PROVE Inv'
  <2>0. idx[c] \in CPU /\ idx[c] + 1 \in 0 .. N
    BY <1>7, <1>a, <1>b DEF ClearFlag, TypeOK, CPU
  <2>1. (threads \in SUBSET CPU /\ flag \in [CPU -> BOOLEAN] /\ pc \in [CPU -> PC]
        /\ kind \in [CPU -> Kind] /\ idx \in [CPU -> 0 .. N]
        /\ nmi \in SUBSET CPU /\ gather \in SUBSET threads /\ gkind \in Kind)'
    BY <1>7, <1>a, <2>0 DEF ClearFlag, TypeOK, PC, Kind
  <2>2. Rest'
    BY <1>7, <1>a, <1>b, <2>0 DEF ClearFlag, TypeOK, NmiFindsWaiter, KindInv, GatherInv,
       OneWaker, HeldInv, SendInv, Waking, Waiting, Ahead, Kind
  <2>3. CountMatches'
    <3>1. gather' = gather /\ \A d \in CPU : /\ pc'[d] = "armed" <=> pc[d] = "armed"
                                             /\ pc'[d] = "last" <=> pc[d] = "last"
      BY <1>7, <1>a DEF ClearFlag, TypeOK, NmiFindsWaiter
    <3>2. Arrived' = Arrived /\ threads' = threads /\ count' = count
      BY <1>7, <3>1, <1>a DEF ClearFlag, Arrived, TypeOK
    <3> QED BY <1>a, <3>1, <3>2 DEF CountMatches
  <2> QED BY <2>1, <2>2, <2>3, <1>c DEF Inv
<1>8. ASSUME NEW c \in CPU, TestFlag(c) PROVE Inv'
  <2>0. idx[c] \in CPU /\ idx[c] + 1 \in 0 .. N
    BY <1>8, <1>a, <1>b DEF TestFlag, TypeOK, CPU
  <2>1. (threads \in SUBSET CPU /\ flag \in [CPU -> BOOLEAN] /\ pc \in [CPU -> PC]
        /\ kind \in [CPU -> Kind] /\ idx \in [CPU -> 0 .. N]
        /\ nmi \in SUBSET CPU /\ gather \in SUBSET threads /\ gkind \in Kind)'
    BY <1>8, <1>a, <2>0 DEF TestFlag, TypeOK, PC, Kind
  <2>2. Rest'
    <3>1. CASE flag[idx[c]]
      <4>1. idx[c] \in threads \ {c} /\ idx[c] \notin gather /\ Waiting(idx[c])
        BY <1>8, <1>a, <2>0, <3>1 DEF TestFlag, TypeOK, KindInv, HeldInv,
           Waking, Ahead
      <4>2. (NmiFindsWaiter /\ KindInv /\ GatherInv /\ OneWaker /\ SendInv)'
        BY <1>8, <1>a, <2>0, <3>1, <4>1 DEF TestFlag, TypeOK, NmiFindsWaiter,
           KindInv, GatherInv, OneWaker, SendInv, Waking, Waiting
      <4>3. HeldInv'
        BY <1>8, <1>a, <1>b, <2>0, <3>1, <4>1 DEF TestFlag, TypeOK, OneWaker,
           HeldInv, Waking, Waiting, Ahead
      <4> QED BY <4>2, <4>3
    <3>2. CASE ~flag[idx[c]]
      <4>1. (NmiFindsWaiter /\ KindInv /\ GatherInv /\ OneWaker /\ SendInv)'
        BY <1>8, <1>a, <2>0, <3>2 DEF TestFlag, TypeOK, NmiFindsWaiter,
           KindInv, GatherInv, OneWaker, SendInv, Waking, Waiting
      <4>2. HeldInv'
        BY <1>8, <1>a, <1>b, <2>0, <3>2 DEF TestFlag, TypeOK, OneWaker,
           HeldInv, Waking, Waiting, Ahead
      <4> QED BY <4>1, <4>2
    <3> QED BY <3>1, <3>2
  <2>3. CountMatches'
    <3>1. gather' = gather /\ \A d \in CPU : /\ pc'[d] = "armed" <=> pc[d] = "armed"
                                             /\ pc'[d] = "last" <=> pc[d] = "last"
      BY <1>8, <1>a DEF TestFlag, TypeOK, NmiFindsWaiter
    <3>2. Arrived' = Arrived /\ threads' = threads /\ count' = count
      BY <1>8, <3>1, <1>a DEF TestFlag, Arrived, TypeOK
    <3> QED BY <1>a, <3>1, <3>2 DEF CountMatches
  <2> QED BY <2>1, <2>2, <2>3, <1>c DEF Inv
<1>9. ASSUME NEW c \in CPU, SendNmi(c) PROVE Inv'
  <2>0. idx[c] \in CPU /\ idx[c] + 1 \in 0 .. N
    BY <1>9, <1>a, <1>b DEF SendNmi, TypeOK, SendInv
  <2>1. (threads \in SUBSET CPU /\ flag \in [CPU -> BOOLEAN] /\ pc \in [CPU -> PC]
        /\ kind \in [CPU -> Kind] /\ idx \in [CPU -> 0 .. N]
        /\ nmi \in SUBSET CPU /\ gather \in SUBSET threads /\ gkind \in Kind)'
    BY <1>9, <1>a, <2>0 DEF SendNmi, TypeOK, PC, Kind
  <2>2. Rest'
    BY <1>9, <1>a, <1>b DEF SendNmi, TypeOK, NmiFindsWaiter, KindInv, GatherInv,
       OneWaker, HeldInv, SendInv, Waking, Waiting, Ahead, Kind
  <2>3. CountMatches'
    <3>1. gather' = gather /\ \A d \in CPU : /\ pc'[d] = "armed" <=> pc[d] = "armed"
                                             /\ pc'[d] = "last" <=> pc[d] = "last"
      BY <1>9, <1>a DEF SendNmi, TypeOK, NmiFindsWaiter
    <3>2. Arrived' = Arrived /\ threads' = threads /\ count' = count
      BY <1>9, <3>1, <1>a DEF SendNmi, Arrived, TypeOK
    <3> QED BY <1>a, <3>1, <3>2 DEF CountMatches
  <2> QED BY <2>1, <2>2, <2>3, <1>c DEF Inv
<1>10. ASSUME NEW c \in CPU, WakeExit(c) PROVE Inv'
  <2>1. (threads \in SUBSET CPU /\ flag \in [CPU -> BOOLEAN] /\ pc \in [CPU -> PC]
        /\ kind \in [CPU -> Kind] /\ idx \in [CPU -> 0 .. N]
        /\ nmi \in SUBSET CPU /\ gather \in SUBSET threads /\ gkind \in Kind)'
    BY <1>10, <1>a, <1>b DEF WakeExit, TypeOK, PC, Kind
  <2>2. Rest'
    BY <1>10, <1>a, <1>b DEF WakeExit, TypeOK, NmiFindsWaiter, KindInv, GatherInv,
       OneWaker, HeldInv, SendInv, Waking, Waiting, Ahead, Kind
  <2>3. CountMatches'
    <3>1. gather' = gather /\ \A d \in CPU : /\ pc'[d] = "armed" <=> pc[d] = "armed"
                                             /\ pc'[d] = "last" <=> pc[d] = "last"
      BY <1>10, <1>a DEF WakeExit, TypeOK, NmiFindsWaiter
    <3>2. Arrived' = Arrived /\ threads' = threads /\ count' = count
      BY <1>10, <3>1, <1>a DEF WakeExit, Arrived, TypeOK
    <3> QED BY <1>a, <3>1, <3>2 DEF CountMatches
  <2> QED BY <2>1, <2>2, <2>3, <1>c DEF Inv
<1>11. ASSUME NEW c \in CPU, Decrement(c) PROVE Inv'
  <2>0. /\ c \in threads /\ c \in gather /\ c \notin Arrived
        /\ \A r \in CPU : pc[r] # "last"
    BY <1>11, <1>a, <1>b DEF Decrement, TypeOK, KindInv, OneWaker, HeldInv,
       Waking, Waiting, Ahead, Arrived
  <2> DEFINE S == threads \ Arrived
  <2>a. S \in SUBSET CPU /\ c \in S  BY <2>0, <1>a DEF TypeOK
  <2>b. count = Cardinality(S)  BY <2>0, <1>a DEF CountMatches
  <2>c. /\ Cardinality(S \ {c}) = Cardinality(S) - 1
        /\ Cardinality(S) = 1 => S = {c}
    BY <2>a, OneMore
  <2> HIDE DEF S
  <2>1. (threads \in SUBSET CPU /\ flag \in [CPU -> BOOLEAN] /\ pc \in [CPU -> PC]
        /\ kind \in [CPU -> Kind] /\ idx \in [CPU -> 0 .. N]
        /\ nmi \in SUBSET CPU /\ gather \in SUBSET threads /\ gkind \in Kind)'
    BY <1>11, <1>a DEF Decrement, TypeOK, PC, Kind
  <2>2. CASE count - 1 # 0
    <3>0. /\ pc' = [pc EXCEPT ![c] = IF kind[c] = "spin" THEN "spin" ELSE "je"]
          /\ UNCHANGED <<threads, flag, kind, idx, nmi, gather, gkind>>
      BY <1>11, <2>2 DEF Decrement
    <3>1. Rest'
      <4>1. (NmiFindsWaiter /\ KindInv /\ GatherInv /\ OneWaker /\ SendInv)'
        BY <1>11, <1>a, <2>0, <3>0 DEF Decrement, TypeOK, NmiFindsWaiter,
           KindInv, GatherInv, OneWaker, SendInv, Waking, Waiting, Kind
      <4>2. \A r \in CPU : Waking(r) => ~Ahead(r, c)
        BY <1>11, <1>a, <2>0 DEF Decrement, HeldInv, Waking, Waiting, TypeOK
      <4>3. HeldInv'
        BY <1>11, <1>a, <1>b, <3>0, <4>2 DEF Decrement, TypeOK, HeldInv, Waking,
           Waiting, Ahead
      <4> QED BY <4>1, <4>3
    <3>2. threads' \ Arrived' = S \ {c}
      BY <1>11, <1>a, <2>0, <2>2 DEF Decrement, Arrived, S, TypeOK, GatherInv
    <3>3. count' = Cardinality(threads' \ Arrived')
      BY <3>2, <2>b, <2>c, <1>11 DEF Decrement
    <3>4. \A r \in CPU : pc'[r] # "last"
      BY <1>11, <1>a, <2>0, <2>2 DEF Decrement, TypeOK
    <3>5. CountMatches'  BY <3>3, <3>4 DEF CountMatches
    <3> QED BY <2>1, <3>1, <3>5, <1>c DEF Inv
  <2>3. CASE count - 1 = 0
    <3>1. S = {c}
      <4>1. Cardinality(S) \in Nat  BY <2>a, CpuSetsFinite
      <4> QED BY <4>1, <2>b, <2>c, <2>3
    <3>2. \A d \in threads \ {c} : d \in gather /\ pc[d] # "armed"
      BY <3>1, <1>a DEF S, Arrived, TypeOK
    <3>3. \A r \in CPU : ~Waking(r)
      BY <3>2, <1>11, <1>a DEF KindInv, OneWaker, Waking, Decrement, TypeOK
    <3>4. /\ pc' = [pc EXCEPT ![c] = "last"] /\ gather' = {} /\ count' = 0
          /\ UNCHANGED <<threads, flag, kind, idx, nmi, gkind>>
      BY <1>11, <2>3 DEF Decrement
    <3>5. Rest'
      BY <3>2, <3>3, <3>4, <1>a, <1>b, <2>0 DEF TypeOK, NmiFindsWaiter,
         KindInv, GatherInv, OneWaker, HeldInv, SendInv, Waking, Waiting, Ahead
    <3>6. CountMatches'
      BY <3>4, <1>a DEF CountMatches, TypeOK
    <3> QED BY <2>1, <3>5, <3>6, <1>c DEF Inv
  <2> QED BY <2>2, <2>3
<1>12. ASSUME NEW T \in SUBSET CPU, Reset(T) PROVE Inv'
  <2>1. (threads \in SUBSET CPU /\ flag \in [CPU -> BOOLEAN] /\ pc \in [CPU -> PC]
        /\ kind \in [CPU -> Kind] /\ idx \in [CPU -> 0 .. N]
        /\ nmi \in SUBSET CPU /\ gather \in SUBSET threads /\ gkind \in Kind)'
    BY <1>12, <1>a DEF Reset, TypeOK, GatherInv, Waiting
  <2>2. Rest' /\ gather' = {}
    BY <1>12, <1>a, <1>b DEF Reset, TypeOK, NmiFindsWaiter, KindInv, GatherInv,
       OneWaker, HeldInv, SendInv, Waking, Waiting, Ahead
  <2>3. CountMatches'
    <3>1. threads' \ Arrived' = threads'  BY <2>2 DEF Arrived
    <3> QED BY <3>1, <1>12, <1>a DEF Reset, CountMatches, TypeOK
  <2> QED BY <2>1, <2>2, <2>3, <1>c DEF Inv
<1>13. CASE UNCHANGED vars
  BY <1>13, <1>a DEF vars, Inv, TypeOK, CountMatches, NmiFindsWaiter, KindInv,
     GatherInv, OneWaker, HeldInv, SendInv, Waking, Waiting, Ahead, Arrived,
     num_threads
<1> QED
  BY <1>1, <1>2, <1>3, <1>4, <1>5, <1>6, <1>7, <1>8, <1>9, <1>10, <1>11,
     <1>12, <1>13 DEF Next, Inside

\* The invariant of the barrier holds in every reachable state, for every
\* number of cores and every set of threads.
THEOREM InvHolds == SafeSpec => []Inv
<1>1. Init => Inv  BY InitInv
<1>2. Inv /\ [Next]_vars => Inv'  BY InvStep
<1> QED BY <1>1, <1>2, PTL DEF SafeSpec

\* barrier->count stays in range (barrier.c:45,69,98,136).
THEOREM TypeCorrect == SafeSpec => []TypeOK
<1>1. Inv => TypeOK  BY DEF Inv
<1> QED BY <1>1, InvHolds, PTL

\* barrier->count is the number of threads still to arrive (barrier.c:45,69).
THEOREM CounterCorrect == SafeSpec => []CountMatches
<1>1. Inv => CountMatches  BY DEF Inv
<1> QED BY <1>1, InvHolds, PTL

\* No wake-up NMI is taken for a parity error (interrupt.c:151-180).
THEOREM NmiCorrect == SafeSpec => []NmiFindsWaiter
<1>1. Inv => NmiFindsWaiter  BY DEF Inv
<1> QED BY <1>1, InvHolds, PTL

\* Every step of the code is a step of the abstract barrier, or invisible in it.
LEMMA AbsStep == Inv /\ Inv' /\ [Next]_vars => [Abs!Next]_(Abs!vars)
<1> SUFFICES ASSUME Inv, Inv', [Next]_vars PROVE [Abs!Next]_(Abs!vars)
  OBVIOUS
<1>a. TypeOK /\ CountMatches /\ NmiFindsWaiter /\ KindInv /\ GatherInv
      /\ OneWaker /\ HeldInv /\ TypeOK'
  BY DEF Inv
<1>b. N \in Nat /\ N > 0 /\ CPU \subseteq Nat
  BY NAssumption DEF CPU
<1>1. ASSUME NEW T \in SUBSET CPU, Reset(T) PROVE Abs!Reset(T)
  BY <1>1, <1>a DEF Reset, Abs!Reset, st, TypeOK
<1>2. ASSUME NEW c \in CPU, NEW k \in Kind, Enter(c, k) PROVE Abs!Arrive(c)
  <2>1. st[c] = "out" /\ c \in threads  BY <1>2, <1>a DEF Enter, st
  <2>2. c \notin gather  BY <1>2, <1>a DEF Enter, GatherInv, Waiting
  <2>3. st' = [st EXCEPT ![c] = "waiting"]
    BY <1>2, <1>a, <2>2 DEF Enter, st, TypeOK
  <2> QED BY <1>2, <2>1, <2>3 DEF Enter, Abs!Arrive
<1>3. ASSUME NEW c \in CPU, pc[c] # "idle", c \notin gather,
             pc' = [pc EXCEPT ![c] = "idle"], threads' = threads,
             gather' = gather
      PROVE  Abs!Leave(c)
  BY <1>3, <1>a DEF Abs!Leave, st, TypeOK
<1>4. ASSUME threads' = threads, gather' = gather,
             \A c \in CPU : pc'[c] = "idle" <=> pc[c] = "idle"
      PROVE  UNCHANGED <<threads, st>>
  BY <1>4, <1>a DEF st, TypeOK
<1>5. ASSUME NEW c \in CPU, SpinExit(c) PROVE Abs!Leave(c)
  BY <1>5, <1>3, <1>a DEF SpinExit, GatherInv
<1>6. ASSUME NEW c \in CPU, TakeNmi(c) PROVE Abs!Leave(c)
  BY <1>6, <1>3, <1>a DEF TakeNmi, GatherInv, NmiFindsWaiter, TypeOK
<1>7. ASSUME NEW c \in CPU, WakeExit(c) PROVE Abs!Leave(c)
  BY <1>7, <1>3, <1>a DEF WakeExit, OneWaker, Waking
<1>8. ASSUME NEW c \in CPU,
             Halt(c) \/ ResetCount(c) \/ ClearOwn(c) \/ ClearFlag(c)
             \/ TestFlag(c) \/ SendNmi(c)
      PROVE  UNCHANGED <<threads, st>>
  <2>1. /\ threads' = threads /\ gather' = gather
        /\ \A d \in CPU : pc'[d] = "idle" <=> pc[d] = "idle"
    BY <1>8, <1>a DEF Halt, ResetCount, ClearOwn, ClearFlag, TestFlag, SendNmi,
       TypeOK
  <2> QED BY <2>1, <1>4
<1>9. ASSUME NEW c \in CPU, Decrement(c)
      PROVE  Abs!Open \/ UNCHANGED <<threads, st>>
  <2>1. CASE count - 1 # 0
    <3>1. /\ threads' = threads /\ gather' = gather
          /\ \A d \in CPU : pc'[d] = "idle" <=> pc[d] = "idle"
      BY <1>9, <1>a, <2>1 DEF Decrement, TypeOK
    <3> QED BY <3>1, <1>4
  <2>2. CASE count - 1 = 0
    <3> DEFINE S == threads \ Arrived
    <3>1. /\ c \in threads /\ c \in gather /\ c \notin Arrived
          /\ \A r \in CPU : pc[r] # "last"
      BY <1>9, <1>a, <1>b DEF Decrement, TypeOK, KindInv, OneWaker, HeldInv,
         Waking, Waiting, Ahead, Arrived
    <3>2. S \in SUBSET CPU /\ c \in S /\ count = Cardinality(S)
      BY <3>1, <1>a DEF TypeOK, CountMatches
    <3> HIDE DEF S
    <3>3. S = {c}
      <4>1. Cardinality(S) \in Nat  BY <3>2, CpuSetsFinite
      <4>2. Cardinality(S) = 1 => S = {c}  BY <3>2, OneMore
      <4> QED BY <4>1, <4>2, <3>2, <2>2
    <3>4. \A d \in threads : d \in gather /\ pc[d] # "idle"
      BY <3>3, <3>1, <1>9, <1>a DEF S, Arrived, GatherInv, Waiting, Decrement
    <3>5. pc' = [pc EXCEPT ![c] = "last"] /\ gather' = {} /\ threads' = threads
      BY <1>9, <2>2 DEF Decrement
    <3>6. \A d \in CPU \ threads : pc[d] = "idle"
      BY <1>a DEF KindInv
    <3>7. st' = [d \in CPU |-> IF d \in threads THEN "released" ELSE st[d]]
      BY <3>1, <3>4, <3>5, <3>6, <1>a DEF st, TypeOK
    <3>8. \A d \in threads : st[d] = "waiting"
      BY <3>4, <1>a DEF st, TypeOK
    <3> QED BY <3>1, <3>5, <3>7, <3>8 DEF Abs!Open
  <2> QED BY <2>1, <2>2, <1>a, <1>9
<1>10. CASE UNCHANGED vars
  <2>1. UNCHANGED <<threads, st>>  BY <1>10, <1>4 DEF vars
  <2> QED BY <2>1 DEF Abs!vars
<1> QED
  <2>1. UNCHANGED <<threads, st>> => UNCHANGED Abs!vars  BY DEF Abs!vars
  <2> QED
    BY <2>1, <1>1, <1>2, <1>5, <1>6, <1>7, <1>8, <1>9, <1>10
       DEF Next, Inside, Abs!Next

\* The barrier of lib/barrier.c implements the abstract barrier: no call of
\* barrier_spin_wait or barrier_halt_wait returns before every thread has made
\* its call for the same round.
THEOREM SafeRefinement == SafeSpec => SafeBarrier
<1>1. Init => Abs!Init
  BY DEF Init, Abs!Init, st
<1>2. Inv /\ Inv' /\ [Next]_vars => [Abs!Next]_(Abs!vars)
  BY AbsStep
<1> QED BY <1>1, <1>2, InvHolds, PTL DEF SafeSpec, SafeBarrier, Abs!SafeSpec
=============================================================================
