------------------------------- MODULE Barrier -------------------------------
(***************************************************************************)
(* The barrier of lib/barrier.c as the x86 build runs it: a counter that   *)
(* the arriving cores decrement, one waiting flag per core, and two ways   *)
(* to wait.  barrier_spin_wait polls the core's flag; barrier_halt_wait    *)
(* executes HLT and is woken by an NMI, whose handler                      *)
(* (app/x86/interrupt.c) steps over the HLT when the NMI comes between the *)
(* decrement and the HLT.                                                  *)
(*                                                                         *)
(* Which of the two is called is the same for all cores of one round:      *)
(* SHORT_BARRIER and LONG_BARRIER (app/main.c) choose it from power_save,  *)
(* which is only written before the cores are started.                     *)
(***************************************************************************)
EXTENDS Integers, FiniteSets

CONSTANT N              \* num_available_cpus

ASSUME NAssumption == N \in Nat \ {0}

CPU == 0 .. N - 1

Kind == {"spin", "halt"}

VARIABLES
  threads,      \* the cores taking part; barrier->num_threads is their number
  count,        \* barrier->count
  flag,         \* waiting_flags[cpu].flag
  pc,           \* where each core is in the barrier code
  kind,         \* which of the two wait functions the core is in
  idx,          \* cpu_num, the index of the loop that wakes the others
  nmi,          \* the cores with an NMI sent and not yet taken
  gather,       \* (history) the cores that have called wait in this round
  gkind         \* (history) the wait function this round uses

vars == <<threads, count, flag, pc, kind, idx, nmi, gather, gkind>>

\* pc: "idle"   outside the barrier
\*     "armed"  own flag set, count not yet decremented
\*     "spin"   in while (*i_am_blocked)
\*     "je"     count decremented, HLT not yet reached
\*     "hlt"    halted
\*     "last"   count is zero, not yet reset
\*     "own"    (halt) count reset, own flag still set
\*     "wake"   in the loop over the cores
\*     "send"   (halt) flag of core idx cleared, NMI not yet sent
PC == {"idle", "armed", "spin", "je", "hlt", "last", "own", "wake", "send"}

num_threads == Cardinality(threads)

Init == /\ threads \in SUBSET CPU
        /\ count = Cardinality(threads)
        /\ flag = [c \in CPU |-> FALSE]
        /\ pc = [c \in CPU |-> "idle"]
        /\ kind = [c \in CPU |-> "spin"]
        /\ idx = [c \in CPU |-> 0]
        /\ nmi = {}
        /\ gather = {}
        /\ gkind = "spin"

-----------------------------------------------------------------------------
\* barrier_reset: called by one core while no core is in the barrier (for
\* run_barrier: the other cores wait on start_barrier).
Reset(T) ==
  /\ \A c \in CPU : pc[c] = "idle"
  /\ threads' = T
  /\ count' = Cardinality(T)
  /\ flag' = [c \in CPU |-> FALSE]
  /\ UNCHANGED <<pc, kind, idx, nmi, gather, gkind>>

\* The call: nothing happens for fewer than two threads, otherwise the core
\* sets its own flag.
Enter(c, k) ==
  /\ pc[c] = "idle"
  /\ c \in threads
  /\ num_threads >= 2
  /\ gather # {} => k = gkind
  /\ flag' = [flag EXCEPT ![c] = TRUE]
  /\ pc' = [pc EXCEPT ![c] = "armed"]
  /\ kind' = [kind EXCEPT ![c] = k]
  /\ gather' = gather \cup {c}
  /\ gkind' = k
  /\ UNCHANGED <<threads, count, idx, nmi>>

\* __sync_sub_and_fetch(&barrier->count, 1), or "lock decl" with its JE.
Decrement(c) ==
  /\ pc[c] = "armed"
  /\ count' = count - 1
  /\ IF count - 1 # 0
     THEN /\ pc' = [pc EXCEPT ![c] = IF kind[c] = "spin" THEN "spin" ELSE "je"]
          /\ UNCHANGED gather
     ELSE /\ pc' = [pc EXCEPT ![c] = "last"]
          /\ gather' = {}
  /\ UNCHANGED <<threads, flag, kind, idx, nmi, gkind>>

\* Mutant: a core does not wait for its flag.
SpinExitEarly(c) ==
  /\ pc[c] = "spin"
  /\ pc' = [pc EXCEPT ![c] = "idle"]
  /\ UNCHANGED <<threads, count, flag, kind, idx, nmi, gather, gkind>>

\* while (*i_am_blocked) ends and the call returns.
SpinExit(c) ==
  /\ pc[c] = "spin"
  /\ ~flag[c]
  /\ pc' = [pc EXCEPT ![c] = "idle"]
  /\ UNCHANGED <<threads, count, flag, kind, idx, nmi, gather, gkind>>

Halt(c) ==
  /\ pc[c] = "je"
  /\ pc' = [pc EXCEPT ![c] = "hlt"]
  /\ UNCHANGED <<threads, count, flag, kind, idx, nmi, gather, gkind>>

\* The NMI handler: after HLT it simply returns, on the JE or on the HLT it
\* moves the return address behind the HLT.  Anywhere else the interrupted
\* code goes on as it was (and the NMI is reported as a parity error).
TakeNmi(c) ==
  /\ c \in nmi
  /\ nmi' = nmi \ {c}
  /\ pc' = [pc EXCEPT ![c] = IF pc[c] \in {"je", "hlt"} THEN "idle" ELSE pc[c]]
  /\ UNCHANGED <<threads, count, flag, kind, idx, gather, gkind>>

\* barrier->count = barrier->num_threads, by the last one to arrive.
ResetCount(c) ==
  /\ pc[c] = "last"
  /\ count' = num_threads
  /\ idx' = [idx EXCEPT ![c] = 0]
  /\ pc' = [pc EXCEPT ![c] = IF kind[c] = "spin" THEN "wake" ELSE "own"]
  /\ UNCHANGED <<threads, flag, kind, nmi, gather, gkind>>

\* Mutant: the last one to arrive leaves its own flag set.
ClearOwnForgotten(c) ==
  /\ pc[c] = "own"
  /\ pc' = [pc EXCEPT ![c] = "wake"]
  /\ UNCHANGED <<threads, count, flag, kind, idx, nmi, gather, gkind>>

\* waiting_flags[my_cpu].flag = false in barrier_halt_wait.
ClearOwn(c) ==
  /\ pc[c] = "own"
  /\ flag' = [flag EXCEPT ![c] = FALSE]
  /\ pc' = [pc EXCEPT ![c] = "wake"]
  /\ UNCHANGED <<threads, count, kind, idx, nmi, gather, gkind>>

\* One round of the loop of barrier_spin_wait.
ClearFlag(c) ==
  /\ pc[c] = "wake"
  /\ kind[c] = "spin"
  /\ idx[c] < N
  /\ flag' = [flag EXCEPT ![idx[c]] = FALSE]
  /\ idx' = [idx EXCEPT ![c] = @ + 1]
  /\ UNCHANGED <<threads, count, pc, kind, nmi, gather, gkind>>

\* The loop of barrier_halt_wait: a core whose flag is set has it cleared ...
TestFlag(c) ==
  /\ pc[c] = "wake"
  /\ kind[c] = "halt"
  /\ idx[c] < N
  /\ IF flag[idx[c]]
     THEN /\ flag' = [flag EXCEPT ![idx[c]] = FALSE]
          /\ pc' = [pc EXCEPT ![c] = "send"]
          /\ UNCHANGED idx
     ELSE /\ idx' = [idx EXCEPT ![c] = @ + 1]
          /\ UNCHANGED <<flag, pc>>
  /\ UNCHANGED <<threads, count, kind, nmi, gather, gkind>>

\* ... and is then sent an NMI.
SendNmi(c) ==
  /\ pc[c] = "send"
  /\ nmi' = nmi \cup {idx[c]}
  /\ idx' = [idx EXCEPT ![c] = @ + 1]
  /\ pc' = [pc EXCEPT ![c] = "wake"]
  /\ UNCHANGED <<threads, count, flag, kind, gather, gkind>>

\* The end of the loop: the call of the last one to arrive returns.
WakeExit(c) ==
  /\ pc[c] = "wake"
  /\ idx[c] = N
  /\ pc' = [pc EXCEPT ![c] = "idle"]
  /\ UNCHANGED <<threads, count, flag, kind, idx, nmi, gather, gkind>>

\* The steps of a core that is inside the barrier.
Inside(c) == \/ Decrement(c) \/ SpinExit(c) \/ Halt(c) \/ TakeNmi(c)
             \/ ResetCount(c) \/ ClearOwn(c) \/ ClearFlag(c)
             \/ TestFlag(c) \/ SendNmi(c) \/ WakeExit(c)

Next == \/ \E T \in SUBSET CPU : Reset(T)
        \/ \E c \in CPU, k \in Kind : Enter(c, k)
        \/ \E c \in CPU : Inside(c)

\* A core inside the barrier keeps executing; a halted one takes its NMI.
Fairness == \A c \in CPU : WF_vars(Inside(c))

SafeSpec == Init /\ [][Next]_vars

Spec == SafeSpec /\ Fairness

-----------------------------------------------------------------------------
\* Every variable has its type; the counter stays between zero and the number
\* of threads, although it is decremented without a check (barrier.c:45,98).
TypeOK == /\ threads \in SUBSET CPU
          /\ count \in 0 .. num_threads
          /\ flag \in [CPU -> BOOLEAN]
          /\ pc \in [CPU -> PC]
          /\ kind \in [CPU -> Kind]
          /\ idx \in [CPU -> 0 .. N]
          /\ nmi \in SUBSET CPU
          /\ gather \in SUBSET threads
          /\ gkind \in Kind

Waiting(c) == pc[c] \in {"spin", "je", "hlt"}

Waking(c) == pc[c] \in {"last", "own", "wake", "send"}

\* The cores that have decremented the counter in this round.
Arrived == {c \in gather : pc[c] # "armed"}

\* The counter is the number of threads that have still to arrive, except
\* while the last one to arrive has not yet reset it: then it is zero.  A core
\* that is released and re-enters at once counts for the next round, also
\* while the last one is still waking the others.
CountMatches ==
  count = IF \E c \in CPU : pc[c] = "last"
          THEN 0 ELSE Cardinality(threads \ Arrived)

\* A wake-up NMI finds its core on the JE, on the HLT or halted, never in any
\* other code: the NMI handler takes any other NMI for a memory parity error.
NmiFindsWaiter == \A c \in nmi : pc[c] \in {"je", "hlt"}

-----------------------------------------------------------------------------
(***************************************************************************)
(* The inductive invariant behind these properties.                        *)
(***************************************************************************)
\* Where a core can be, given what kind of wait it is in.
KindInv == \A c \in CPU :
  /\ pc[c] # "idle" => c \in threads
  /\ pc[c] = "armed" => c \in gather
  /\ pc[c] = "spin" => kind[c] = "spin"
  /\ pc[c] \in {"je", "hlt", "own", "send"} => kind[c] = "halt"
  /\ flag[c] => c \in threads
  /\ pc[c] \in {"wake", "send"} /\ kind[c] = "halt" => ~flag[c]

\* A core of the gathering round is on its way to the counter or waits, with
\* its flag set and no NMI on its way.
GatherInv == \A c \in gather : /\ pc[c] = "armed" \/ Waiting(c)
                              /\ flag[c]
                              /\ kind[c] = gkind
                              /\ c \notin nmi

\* Only the last one to arrive wakes the others, one round at a time.
OneWaker == \A c \in CPU : Waking(c) => /\ c \notin gather
                                       /\ \A d \in CPU : Waking(d) => d = c

\* The waking core r has not yet dealt with core c.
Ahead(r, c) == \/ pc[r] \in {"last", "own"}
               \/ idx[r] < c
               \/ idx[r] = c

\* A core that is still to be woken waits: it cannot have left the barrier,
\* nor entered the next round, before the loop reaches it.
HeldInv == \A r \in CPU : Waking(r) =>
             \A c \in threads \ {r} : Ahead(r, c) =>
               /\ Waiting(c)
               /\ c \notin gather
               /\ c \notin nmi
               /\ kind[c] = kind[r]
               /\ flag[c] \/ (pc[r] = "send" /\ idx[r] = c)

\* The core whose flag was just cleared is one of the others.
SendInv == \A r \in CPU : pc[r] = "send" => idx[r] \in threads \ {r}

Inv == /\ TypeOK /\ CountMatches /\ NmiFindsWaiter /\ KindInv
       /\ GatherInv /\ OneWaker /\ HeldInv /\ SendInv

-----------------------------------------------------------------------------
\* The abstract barrier: a core waits while its round is gathering, and is
\* released once the last one has decremented the counter to zero.
st == [c \in CPU |-> IF pc[c] = "idle" THEN "out"
                     ELSE IF c \in gather THEN "waiting" ELSE "released"]

Abs == INSTANCE AbstractBarrier WITH CPU <- CPU, threads <- threads, st <- st

\* The code implements the abstract barrier: no core's call returns before all
\* threads have called, and once they all have, every call returns.
ImplementsBarrier == Abs!Spec

\* The same without liveness (the part that is proved for every N).
SafeBarrier == Abs!SafeSpec
=============================================================================
