--------------------------- MODULE MCControlPlane ---------------------------
EXTENDS ControlPlane, TLC

Symmetry == Permutations(Servers) \cup Permutations(Users) \cup Permutations(Tokens) \cup Permutations(Requests)
=============================================================================
