--------------------------- MODULE AbstractBarrier ---------------------------
(***************************************************************************)
(* What lib/barrier.h promises: "Waits for all threads to arrive at the    *)
(* barrier."  The caller sees three situations: it is outside the barrier, *)
(* it waits, or the barrier has opened for it and its call is about to     *)
(* return.  The barrier opens in one step, for all its threads, and can be *)
(* reused at once: a thread may wait for the next opening while others     *)
(* have not yet returned from the last one.                                *)
(***************************************************************************)
CONSTANT CPU            \* the CPU cores that may use the barrier

VARIABLES threads,      \* the cores the barrier is set up to block
          st            \* what each core sees: "out", "waiting", "released"

vars == <<threads, st>>

Init == /\ threads \in SUBSET CPU
        /\ st = [c \in CPU |-> "out"]

\* A new set of threads, while nobody uses the barrier.
Reset(T) == /\ \A c \in CPU : st[c] = "out"
            /\ threads' = T
            /\ UNCHANGED st

Arrive(c) == /\ c \in threads
             /\ st[c] = "out"
             /\ st' = [st EXCEPT ![c] = "waiting"]
             /\ UNCHANGED threads

Open == /\ threads # {}
        /\ \A c \in threads : st[c] = "waiting"
        /\ st' = [c \in CPU |-> IF c \in threads THEN "released" ELSE st[c]]
        /\ UNCHANGED threads

Leave(c) == /\ st[c] = "released"
            /\ st' = [st EXCEPT ![c] = "out"]
            /\ UNCHANGED threads

Next == \/ \E T \in SUBSET CPU : Reset(T)
        \/ \E c \in CPU : Arrive(c) \/ Leave(c)
        \/ Open

Fairness == WF_vars(Open) /\ \A c \in CPU : WF_vars(Leave(c))

SafeSpec == Init /\ [][Next]_vars

Spec == SafeSpec /\ Fairness
=============================================================================
