------------------------------ MODULE ZoneView ------------------------------
(***************************************************************************)
(* Who sees whom in a zone (Zone.cpp, AoiGrid.h).  A client is told of the *)
(* players and monsters in the 3x3 cells around its character: by SPAWN    *)
(* when they come into view and by DESPAWN when they go, sent from the     *)
(* handlers that enter, leave, move, kill, revive and respawn.  Two grids  *)
(* answer which objects a cell holds.                                      *)
(*                                                                         *)
(* All of it runs in the zone's jobs, one at a time, so a handler is one   *)
(* step.  A position is the cell it lies in (AoiGrid::ToCell).             *)
(***************************************************************************)
EXTENDS ZoneScene

CONSTANTS ReviveCell, \* the cell of the zone's spawn position
          HomeOf      \* the cell of each monster's spawn position

ZoneViewConstants ==
  /\ Cells \subseteq Int \X Int
  /\ ReviveCell \in Cells
  /\ HomeOf \in [Monsters -> Cells]
  /\ NotHere \notin Cells
  /\ Players \cap Monsters = {}

ASSUME ZoneViewAssumption == ZoneViewConstants

VARIABLES
  dead,         \* Player::IsDead
  portalPending \* portalPending_

playerVars  == <<players, dead, portalPending, playerGrid>>
monsterVars == <<monsterAt, alive, monsterGrid>>
vars == <<playerVars, monsterVars, view>>

-----------------------------------------------------------------------------
\* AoiGrid.

NearCells(c) == {d \in Cells : IsNear(d, c)}

\* DiffNear.
EnteredCells(from, to) == {c \in NearCells(to) : ~IsNear(c, from)}
LeftCells(from, to)    == {c \in NearCells(from) : ~IsNear(c, to)}

Add(grid, id, c)    == [grid EXCEPT ![c] = @ \cup {id}]
Remove(grid, id, c) == [grid EXCEPT ![c] = @ \ {id}]

\* AoiGrid::Move.
Moved(grid, id, from, to) ==
  IF from = to THEN grid ELSE Add(Remove(grid, id, from), id, to)

-----------------------------------------------------------------------------
\* Helpers of Zone.

\* CollectPlayers and CollectMonsters.
InCells(grid, cells) == UNION {grid[c] : c \in cells}

\* The views after SPAWN was sent for the pairs <<to, of>> in spawned and DESPAWN
\* for those in despawned.
Sent(spawned, despawned) ==
  [p \in Players |-> [o \in Objects |->
     view[p][o] + (IF <<p, o>> \in spawned THEN 1 ELSE 0)
                - (IF <<p, o>> \in despawned THEN 1 ELSE 0)]]

EmptyView == [o \in Objects |-> 0]

\* Both ways: p is told of objects, and the players among them of p.
BothWays(p, others, monsters) ==
  ({p} \X (others \cup monsters)) \cup (others \X {p})

\* OnPlayerCellChanged.
OnPlayerCellChanged(p, from, to) ==
  LET grid    == Moved(playerGrid, p, from, to)
      entered == EnteredCells(from, to)
      left    == LeftCells(from, to)
  IN
    /\ playerGrid' = grid
    /\ view' = Sent(BothWays(p, InCells(grid, entered) \ {p}, InCells(monsterGrid, entered)),
                    BothWays(p, InCells(grid, left) \ {p}, InCells(monsterGrid, left)))

-----------------------------------------------------------------------------
\* Players.

\* Enter, with the position and hit points of the row; never while a portal save is
\* awaited (module ZoneLife, NoEntryDuringPortalSave).
Enter(p) ==
  /\ ~Here(p)
  /\ p \notin portalPending
  /\ \E c \in Cells, isDead \in BOOLEAN :
       LET near == NearCells(c) IN
         /\ view' = Sent(BothWays(p, InCells(playerGrid, near), InCells(monsterGrid, near)), {})
         /\ players' = [players EXCEPT ![p] = c]
         /\ dead' = [dead EXCEPT ![p] = isDead]
         /\ playerGrid' = Add(playerGrid, p, c)
  /\ UNCHANGED <<portalPending, monsterVars>>

\* Leave: those who are left and near are told; the client drops its scene.
Leave(p) ==
  LET c    == players[p]
      grid == Remove(playerGrid, p, c)
  IN
    /\ playerGrid' = grid
    /\ players' = [players EXCEPT ![p] = NotHere]
    /\ view' = [Sent({}, InCells(grid, NearCells(c)) \X {p}) EXCEPT ![p] = EmptyView]

\* HandleDisconnect, whatever portal save is under way.
HandleDisconnect(p) ==
  /\ Here(p)
  /\ Leave(p)
  /\ UNCHANGED <<dead, portalPending, monsterVars>>

\* SaveAllAndClear: nobody is told, all sessions are gone.
SaveAllAndClear ==
  /\ players' = [p \in Players |-> NotHere]
  /\ playerGrid' = [c \in Cells |-> {}]
  /\ view' = [p \in Players |-> EmptyView]
  /\ UNCHANGED <<dead, portalPending, monsterVars>>

\* HandleMove that TryMove accepts: its budget, MAX_MOVE_SPEED for one second, is
\* less than a cell.
HandleMove(p, to) ==
  /\ p \notin portalPending
  /\ Here(p)
  /\ ~dead[p]
  /\ IsNear(to, players[p])
  /\ players' = [players EXCEPT ![p] = to]
  /\ OnPlayerCellChanged(p, players[p], to)
  /\ UNCHANGED <<dead, portalPending, monsterVars>>

\* HandlePortalRequest and HandlePortal.
HandlePortal(p) ==
  /\ Here(p)
  /\ ~dead[p]
  /\ p \notin portalPending
  /\ portalPending' = portalPending \cup {p}
  /\ UNCHANGED <<players, dead, playerGrid, monsterVars, view>>

\* The job of the portal save: the player leaves, unless the save failed or the
\* player is gone.
PortalSaved(p) ==
  /\ p \in portalPending
  /\ portalPending' = portalPending \ {p}
  /\ \/ /\ Here(p)
        /\ Leave(p)
     \/ UNCHANGED <<players, playerGrid, view>>
  /\ UNCHANGED <<dead, monsterVars>>

\* Bug: teleports without OnPlayerCellChanged.
HandleReviveUnseen(p) ==
  /\ Here(p)
  /\ dead[p]
  /\ dead' = [dead EXCEPT ![p] = FALSE]
  /\ players' = [players EXCEPT ![p] = ReviveCell]
  /\ UNCHANGED <<portalPending, playerGrid, view, monsterVars>>

\* HandleRevive: to the spawn position, even while a portal save is awaited.
HandleRevive(p) ==
  /\ Here(p)
  /\ dead[p]
  /\ dead' = [dead EXCEPT ![p] = FALSE]
  /\ players' = [players EXCEPT ![p] = ReviveCell]
  /\ OnPlayerCellChanged(p, players[p], ReviveCell)
  /\ UNCHANGED <<portalPending, monsterVars>>

-----------------------------------------------------------------------------
\* Monsters.

Init ==
  /\ players = [p \in Players |-> NotHere]
  /\ dead = [p \in Players |-> FALSE]
  /\ portalPending = {}
  /\ playerGrid = [c \in Cells |-> {}]
  /\ monsterAt = HomeOf
  /\ alive = [m \in Monsters |-> TRUE]
  /\ monsterGrid = [c \in Cells |-> {m \in Monsters : HomeOf[m] = c}]
  /\ view = [p \in Players |-> EmptyView]

\* MonsterAttack takes the last hit points of a player in reach.
MonsterKills(m, p) ==
  /\ alive[m]
  /\ Here(p)
  /\ ~dead[p]
  /\ IsNear(monsterAt[m], players[p])
  /\ dead' = [dead EXCEPT ![p] = TRUE]
  /\ UNCHANGED <<players, portalPending, playerGrid, monsterVars, view>>

\* MoveMonsterToward and OnMonsterCellChanged: a tick's step is less than a cell.
MonsterMoves(m, to) ==
  LET from == monsterAt[m] IN
    /\ alive[m]
    /\ IsNear(to, from)
    /\ monsterAt' = [monsterAt EXCEPT ![m] = to]
    /\ monsterGrid' = Moved(monsterGrid, m, from, to)
    /\ view' = Sent(InCells(playerGrid, EnteredCells(from, to)) \X {m},
                    InCells(playerGrid, LeftCells(from, to)) \X {m})
    /\ UNCHANGED <<playerVars, alive>>

\* HandleAttack or HandleSkillCast and OnMonsterDead.
OnMonsterDead(m) ==
  LET c == monsterAt[m] IN
    /\ alive[m]
    /\ \E p \in Players : /\ Here(p)
                          /\ ~dead[p]
                          /\ p \notin portalPending
                          /\ IsNear(c, players[p])
    /\ alive' = [alive EXCEPT ![m] = FALSE]
    /\ view' = Sent({}, InCells(playerGrid, NearCells(c)) \X {m})
    /\ monsterGrid' = Remove(monsterGrid, m, c)
    /\ UNCHANGED <<playerVars, monsterAt>>

\* Bug: comes back where it died.
RespawnMonsterInPlace(m) ==
  /\ ~alive[m]
  /\ alive' = [alive EXCEPT ![m] = TRUE]
  /\ monsterAt' = [monsterAt EXCEPT ![m] = HomeOf[m]]
  /\ monsterGrid' = Add(monsterGrid, m, HomeOf[m])
  /\ view' = Sent(InCells(playerGrid, NearCells(monsterAt[m])) \X {m}, {})
  /\ UNCHANGED playerVars

\* RespawnMonster, at its spawn position.
RespawnMonster(m) ==
  LET c == HomeOf[m] IN
    /\ ~alive[m]
    /\ alive' = [alive EXCEPT ![m] = TRUE]
    /\ monsterAt' = [monsterAt EXCEPT ![m] = c]
    /\ monsterGrid' = Add(monsterGrid, m, c)
    /\ view' = Sent(InCells(playerGrid, NearCells(c)) \X {m}, {})
    /\ UNCHANGED playerVars

-----------------------------------------------------------------------------
PlayerJob(p) == \/ Enter(p)
                \/ HandleDisconnect(p)
                \/ \E to \in Cells : HandleMove(p, to)
                \/ HandlePortal(p)
                \/ PortalSaved(p)
                \/ HandleRevive(p)

MonsterJob(m) == \/ \E p \in Players : MonsterKills(m, p)
                 \/ \E to \in Cells : MonsterMoves(m, to)
                 \/ OnMonsterDead(m)
                 \/ RespawnMonster(m)

Next == \/ \E p \in Players : PlayerJob(p)
        \/ \E m \in Monsters : MonsterJob(m)
        \/ SaveAllAndClear

Spec == Init /\ [][Next]_vars

-----------------------------------------------------------------------------
\* The types of the variables.
TypeOK ==
  /\ players \in [Players -> Cells \cup {NotHere}]
  /\ dead \in [Players -> BOOLEAN]
  /\ portalPending \subseteq Players
  /\ playerGrid \in [Cells -> SUBSET Players]
  /\ monsterAt \in [Monsters -> Cells]
  /\ alive \in [Monsters -> BOOLEAN]
  /\ monsterGrid \in [Cells -> SUBSET Monsters]
  /\ view \in [Players -> [Objects -> Int]]
=============================================================================
