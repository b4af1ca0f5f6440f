-------------------------- MODULE MCGatewaySessions --------------------------
\* Two clients of one account and a zone server that connects again, with one zone
\* more, after its connection broke.
EXTENDS GatewaySessions, TLC

CONSTANTS u1, s1, s2, c1, c2

Owners == [s \in Sessions |-> u1]
OneZone == {<<1, 1>>}
TwoZones == {<<1, 1>>, <<2, 1>>}
Start == <<1, 1>>
HostsAll == [c \in Conns |-> Instances]
\* The zone server comes back with one zone more than before.
HostsMore == [c \in Conns |-> IF c = c1 THEN {<<1, 1>>} ELSE {<<1, 1>>, <<2, 1>>}]
\* s1 and s2 are clients of one account and differ in nothing.
Clients == Permutations({s1, s2})
=============================================================================
