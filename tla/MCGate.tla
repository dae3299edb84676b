------------------------------- MODULE MCGate -------------------------------
EXTENDS IngestGate, TLC

CONSTANTS h1, h2

\* A plan with a quota, scaled down, and the plan without one.
GateQuotas == {2, -1}

Symmetry == Permutations(Handlers)
=============================================================================
