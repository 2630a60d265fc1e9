------------------------------ MODULE MCMemory ------------------------------
EXTENDS Memory

OneEach == [a \in Addrs |-> a]
=============================================================================
