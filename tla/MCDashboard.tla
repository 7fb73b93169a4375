---------------------------- MODULE MCDashboard ----------------------------
EXTENDS Dashboard, TLC

CONSTANTS d1, d2, c1, c2, OneDay

\* Calls are interchangeable.
CallSymmetry == Permutations(Calls)
=============================================================================
