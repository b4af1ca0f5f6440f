----------------------------- MODULE ZoneScene -----------------------------
(***************************************************************************)
(* Who is where in a zone, by the characters and monsters themselves and   *)
(* by the two grids (Zone.cpp, AoiGrid.h), and what the client of each     *)
(* player was told; what of that must agree.  ZoneView has the handlers.   *)
(***************************************************************************)
EXTENDS Integers

CONSTANTS Players, Monsters,
          Cells,  \* the cells of the map, pairs of integers
          NotHere \* the position of a player who is not in the zone

Objects == Players \cup Monsters

VARIABLES
  players,     \* players_: the cell of each player
  playerGrid,  \* playerGrid_
  monsterAt,   \* the cell of each monster
  alive,       \* ~Monster::IsDead
  monsterGrid, \* monsterGrid_
  view         \* SPAWNs minus DESPAWNs of each object a client was sent since
               \* its character entered

Here(p) == players[p] # NotHere

IsNear(a, b) == a[1] - b[1] \in -1..1 /\ a[2] - b[2] \in -1..1

\* A cell of a grid holds the players who are in it, or the living monsters, and
\* nobody else, although positions and grids are written in different places.
GridsAreExact ==
  /\ \A c \in Cells : playerGrid[c] = {p \in Players : players[p] = c}
  /\ \A c \in Cells : monsterGrid[c] = {m \in Monsters : alive[m] /\ monsterAt[m] = c}

\* The objects the client of p should show.
IsVisible(p, o) ==
  /\ Here(p)
  /\ o # p
  /\ \/ o \in Players  /\ Here(o) /\ IsNear(players[o], players[p])
     \/ o \in Monsters /\ alive[o] /\ IsNear(monsterAt[o], players[p])

\* What a client has been told of is exactly what is near: never a SPAWN of what it
\* shows already or a DESPAWN of what it does not, nobody left behind on its
\* screen and nobody invisible, however moves, deaths, revivals, portals,
\* respawns and departures of others follow one another.
ViewIsExact ==
  \A p \in Players, o \in Objects : view[p][o] = IF IsVisible(p, o) THEN 1 ELSE 0
=============================================================================
