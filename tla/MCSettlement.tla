---------------------------- MODULE MCSettlement ----------------------------
EXTENDS Settlement, TLC

\* The commission takes 1 of every cost.
MCNet == [c \in Costs |-> c - 1]

MCSymmetry == Permutations(Incidents) \cup Permutations(Threads)
=============================================================================
