----------------------------- MODULE MCHoldings -----------------------------
EXTENDS Holdings, TLC

Symmetry == Permutations(Callers) \cup Permutations(Ports) \cup Permutations(Names)
=============================================================================
