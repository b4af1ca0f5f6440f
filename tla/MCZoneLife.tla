---------------------------- MODULE MCZoneLife ----------------------------
\* Characters with sessions of their owners one after the other: a session can
\* drop while a load or a portal save of the character is in flight.
EXTENDS ZoneLife

CONSTANTS p1, p2, s1, s2, s3

\* s1 and s2 are two logins of the owner of p1, s3 a login of the owner of p2.
Owners == [s \in Sessions |-> IF s = s3 THEN p2 ELSE p1]
AllOfSlice == [p \in Players |-> 0]
=============================================================================
