---------------------------- MODULE MCZoneCombat ----------------------------
\* Two monsters that live at the two ends of a short map around 0, so that cells with
\* negative coordinates are used.
EXTENDS ZoneCombat

CONSTANTS p1, p2, m1, m2

Line == -1..0
Homes == [m \in Monsters |-> IF m = m1 THEN -3 ELSE 1]
Swords == {[targetType |-> "SelfArea", damage |-> 2, range |-> 0, radius |-> 2, hpCost |-> 1],
           [targetType |-> "TargetArea", damage |-> 1, range |-> 1, radius |-> 1, hpCost |-> 0]}
=============================================================================
