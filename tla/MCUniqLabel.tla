---------------------------- MODULE MCUniqLabel ----------------------------
EXTENDS UniqLabel, TLC

CONSTANTS a1, a2, m1, m2

AgentSymmetry == Permutations(Agents)
MasterSymmetry == Permutations(Masters)
Symmetry == AgentSymmetry \cup MasterSymmetry
=============================================================================
