----------------------------- MODULE MCZoneView -----------------------------
\* Two players and a monster on a map wider than what one of them sees.
EXTENDS ZoneView, TLC

CONSTANTS p1, p2, m1

Map == (0..3) \X (0..2)
Spawn == <<0, 0>>
Home == [m \in Monsters |-> <<3, 2>>]

\* p1 and p2 differ in nothing.
Characters == Permutations({p1, p2})
=============================================================================
