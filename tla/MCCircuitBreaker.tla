------------------------- MODULE MCCircuitBreaker -------------------------
EXTENDS CircuitBreaker, TLC

CONSTANTS p1, p2, p3

MCThreads2 == {p1, p2}
MCThreads3 == {p1, p2, p3}
MCSymmetry == Permutations({p1, p2, p3})
=============================================================================
