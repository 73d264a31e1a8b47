--------------------------- MODULE MCGameConnection ---------------------------
EXTENDS GameConnection

CONSTANTS s1, s2

MCServers == {s1, s2}
=============================================================================
