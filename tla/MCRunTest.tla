------------------------------ MODULE MCRunTest ------------------------------
(***************************************************************************)
(* The cores inside a test (RunTest), and between two tests, when all have *)
(* left the one and the program moves itself before the next (Startup).    *)
(***************************************************************************)
EXTENDS RunTest, Startup, TLC

CONSTANTS p1, p2

VARIABLE between        \* the cores are between two tests

allVars == <<vars, startupVars, between>>

\* Two rounds of a test, with two blocks to check in each (two segments of the
\* window, or two parts of a large one).
MCProgram == TestRound(Block \o Block) \o TestRound(Block \o Block)

MCAddend == p1 :> 1 @@ p2 :> 3

MCInit == \/ between = FALSE /\ Init /\ StartupInit /\ img[0] = Low
          \/ /\ between = TRUE /\ StartupInit
             /\ pc = [c \in CPU |-> Out] /\ waiting = [c \in CPU |-> FALSE] /\ bail = FALSE

InTest(A) == ~between /\ A /\ UNCHANGED <<startupVars, between>>
Between(A) == between /\ A /\ UNCHANGED <<vars, between>>

\* The cores are in a test for a while, the last one when the bound is reached.
Elsewhere == Between(UNCHANGED startupVars)

MCNext == InTest(Next) \/ Between(StartupNext) \/ Elsewhere

MCSpec == /\ MCInit /\ [][MCNext]_allVars
          /\ WF_allVars(InTest(Open \/ NextTest)) /\ \A c \in CPU : WF_allVars(InTest(Step(c)))
          /\ WF_allVars(Between(BootStep)) /\ \A c \in Procs : WF_allVars(Between(CoreStep(c)))
=============================================================================
