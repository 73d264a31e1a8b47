------------------------------ MODULE MCRegistry ------------------------------
EXTENDS Registry, TLC

CONSTANTS a1, a2, c1, c2, c3

MCAddrs == {a1, a2}
MCConns == {c1, c2, c3}
MCDefaultConn == c1

\* Addresses are only compared with each other, and so are the connections the
\* user adds.
Symmetry == Permutations(MCAddrs) \cup Permutations({c2, c3})
=============================================================================
