------------------------------ MODULE MCBadRam ------------------------------
EXTENDS BadRam, FiniteSetsExt

MCVal(a) == SumSet({2^b : b \in a})
=============================================================================
