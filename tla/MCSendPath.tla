------------------------------ MODULE MCSendPath ------------------------------
\* Two threads that send to two clients, one packet to both or to one of them.
EXTENDS SendPath, TLC

CONSTANTS t1, t2, s1, s2, c1, c2, c3
Alike == Permutations({t1, t2}) \cup Permutations({c1, c2, c3})
=============================================================================
