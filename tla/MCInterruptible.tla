-------------------------- MODULE MCInterruptible --------------------------
EXTENDS InterruptibleSleep, TLC

Symmetry == Permutations(Tasks)
=============================================================================
