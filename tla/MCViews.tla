------------------------------- MODULE MCViews -------------------------------
EXTENDS Views, TLC

CONSTANTS s1, s2

MCServers == {s1, s2}

\* Servers are only compared with each other.
Symmetry == Permutations(MCServers)
=============================================================================
