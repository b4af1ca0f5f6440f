----------------------------- MODULE ZoneCombat -----------------------------
(***************************************************************************)
(* Monsters and players of a zone fight (Zone.cpp, Monster.h, Player.cpp,  *)
(* AoiGrid.h): monsters find, chase and hit players, give up and go home,  *)
(* die, reward and come back; players attack, cast and are revived.        *)
(*                                                                         *)
(* The jobs of a zone run one at a time.  A packet's handler is one step;  *)
(* a tick, the job that updates the monsters one after the other, is a     *)
(* step per monster, between which no other job runs.                      *)
(*                                                                         *)
(* The map is a line of integer positions.  Time passes in no model value: *)
(* a cooldown, a respawn time or the regeneration interval may or may not  *)
(* be over.  Mp is left out: a cast may always be refused for lack of it.  *)
(***************************************************************************)
EXTENDS Integers, FiniteSets

CONSTANTS Players, Monsters,
          Pos,         \* where players can be
          SpawnPos,    \* ZoneData spawn position
          HomeOf,      \* spawn position of each monster
          CellSize,    \* AOI_CELL_SIZE
          MaxHp,       \* MonsterData::maxHp
          Damage,      \* MonsterData::attack
          AggroRange,  \* MonsterData::aggroRange
          AttackRange, \* MonsterData::attackRange
          StopDist,    \* 0.9 * attackRange, rounded down
          MaxStep,     \* moveSpeed * MAX_TICK_DT
          Leash,       \* MONSTER_LEASH_RANGE
          PlayerRange, \* PLAYER_ATTACK_RANGE + ATTACK_RANGE_TOLERANCE
          PlayerDamage,\* PLAYER_ATTACK_DAMAGE
          PlayerMaxHp, \* Player::maxHp_
          HpRegen,     \* PLAYER_HP_REGEN
          MaxRowHp,    \* bound: hp a character is loaded with
          Skills,      \* rows of SkillTemplate
          MaxTargets,  \* SKILL_MAX_TARGETS
          NotHere,     \* the position of a player who is not in the zone
          NoPlayer     \* targetPlayerID_ = 0

MonsterState == {"Idle", "Chase", "Return", "Dead"}

\* A skill costs hp, or nothing that is modelled.
Skill == [targetType : {"Single", "SelfArea", "TargetArea"}, damage : Nat, range : Nat,
          radius : Nat, hpCost : Nat]

ASSUME ZoneCombatAssumption ==
  /\ Pos \subseteq Int
  /\ SpawnPos \in Pos
  /\ HomeOf \in [Monsters -> Int]
  /\ IsFiniteSet(Monsters)
  /\ CellSize \in Nat \ {0}
  /\ {MaxHp, PlayerMaxHp, MaxStep} \subseteq Nat \ {0}
  /\ {Damage, PlayerDamage, AggroRange, AttackRange, StopDist, Leash, PlayerRange, HpRegen,
      MaxTargets} \subseteq Nat
  /\ StopDist <= AttackRange
  /\ MaxRowHp \in Nat /\ PlayerMaxHp <= MaxRowHp
  /\ Skills \subseteq Skill
  /\ NotHere \notin Int
  /\ NoPlayer \notin Players

VARIABLES
  pos,       \* where each player is
  hp,        \* Player::hp_
  leaving,   \* portalPending_
  at,        \* where each monster is
  mhp,       \* Monster::hp_
  state,     \* Monster::state_
  target,    \* targetPlayerID_
  rewarded,  \* rewards given for the monster since it spawned
  ticking,   \* is a tick being run?
  todo       \* monsters the tick has still to update

playerVars  == <<pos, hp, leaving>>
monsterVars == <<at, mhp, state, target, rewarded>>
tickVars    == <<ticking, todo>>
vars == <<playerVars, monsterVars, tickVars>>

Init ==
  /\ pos = [p \in Players |-> NotHere]
  /\ hp = [p \in Players |-> 0]
  /\ leaving = {}
  /\ at = HomeOf
  /\ mhp = [m \in Monsters |-> MaxHp]
  /\ state = [m \in Monsters |-> "Idle"]
  /\ target = [m \in Monsters |-> NoPlayer]
  /\ rewarded = [m \in Monsters |-> 0]
  /\ ticking = FALSE
  /\ todo = {}

-----------------------------------------------------------------------------
\* Geometry.

Dist(a, b) == IF a <= b THEN b - a ELSE a - b
Least(a, b) == IF a <= b THEN a ELSE b

\* TakeDamage of monsters and players: what is left of h.
TakeDamage(h, damage) == h - Least(damage, h)

\* AoiGrid::ToCell.
ToCell(x) == x \div CellSize

\* Bug: the last cell is left out.
InCellsOfRangeButLast(x, range, y) == ToCell(y) \in ToCell(x - range)..(ToCell(x + range) - 1)

\* AoiGrid::ForEachInRange: is position y in one of the cells that the range around
\* x touches?
InCellsOfRange(x, range, y) == ToCell(y) \in ToCell(x - range)..ToCell(x + range)

\* Monster::MoveToward: up to step towards t, no nearer than stop.
MoveToward(x, t, step, stop) ==
  LET remain == Dist(x, t) - stop
      move == Least(step, remain)
  IN  IF remain <= 0 THEN x ELSE IF x <= t THEN x + move ELSE x - move

Here(p) == pos[p] # NotHere
Alive(p) == Here(p) /\ hp[p] > 0

\* FindNearestPlayer: those it may return, none when there is nobody.
NearestPlayers(m, range) ==
  LET found == {p \in Players : /\ Alive(p)
                                /\ p \notin leaving
                                /\ InCellsOfRange(at[m], range, pos[p])
                                /\ Dist(at[m], pos[p]) <= range}
  IN  {p \in found : \A q \in found : Dist(at[m], pos[p]) <= Dist(at[m], pos[q])}

-----------------------------------------------------------------------------
\* A tick: monsters.

Chosen(m, s, t) ==
  /\ state' = [state EXCEPT ![m] = s]
  /\ target' = [target EXCEPT ![m] = t]

StartTick ==
  /\ ~ticking
  /\ ticking' = TRUE
  /\ todo' = Monsters
  /\ UNCHANGED <<playerVars, monsterVars>>

\* The tick comes to monster m, which is in state s.
Turn(m, s) ==
  /\ m \in todo
  /\ todo' = todo \ {m}
  /\ state[m] = s
  /\ UNCHANGED <<pos, leaving, ticking>>

\* The time to respawn has not come.
StaysDead(m) ==
  /\ Turn(m, "Dead")
  /\ UNCHANGED <<hp, monsterVars>>

RespawnMonster(m) ==
  /\ Turn(m, "Dead")
  /\ at' = [at EXCEPT ![m] = HomeOf[m]]
  /\ mhp' = [mhp EXCEPT ![m] = MaxHp]
  /\ Chosen(m, "Idle", NoPlayer)
  /\ rewarded' = [rewarded EXCEPT ![m] = 0]
  /\ UNCHANGED hp

\* Idle: a player in aggro range is chased from the next tick on.
LooksOut(m) ==
  /\ Turn(m, "Idle")
  /\ \/ \E p \in NearestPlayers(m, AggroRange) : Chosen(m, "Chase", p)
     \/ NearestPlayers(m, AggroRange) = {} /\ UNCHANGED <<state, target>>
  /\ UNCHANGED <<hp, at, mhp, rewarded>>

\* Whom a chasing monster turns to: its target, and when that is gone or dead, for
\* this tick, the nearest player.
Victims(m) == IF target[m] # NoPlayer /\ Alive(target[m]) THEN {target[m]}
              ELSE NearestPlayers(m, AggroRange)

\* Bug: the leash is looked at one step late.
TooFarLate(m) == Dist(at[m], HomeOf[m]) > Leash + MaxStep

TooFar(m) == Dist(at[m], HomeOf[m]) > Leash

\* Chase: too far from home, or nobody to chase.
GivesUp(m) ==
  /\ Turn(m, "Chase")
  /\ TooFar(m) \/ Victims(m) = {}
  /\ Chosen(m, "Return", NoPlayer)
  /\ UNCHANGED <<hp, at, mhp, rewarded>>

\* Chase: nearer, and a hit when the victim is in range and the cooldown is over.
Chases(m) ==
  /\ Turn(m, "Chase")
  /\ ~TooFar(m)
  /\ \E p \in Victims(m), step \in 1..MaxStep :
       LET x == MoveToward(at[m], pos[p], step, StopDist) IN
         /\ at' = [at EXCEPT ![m] = x]
         /\ \/ UNCHANGED hp
            \/ /\ Dist(x, pos[p]) <= AttackRange
               /\ hp' = [hp EXCEPT ![p] = TakeDamage(@, Damage)]
  /\ UNCHANGED <<mhp, state, target, rewarded>>

\* Bug: idle at home, but not healed.
GoesHomeUnhealed(m) ==
  /\ Turn(m, "Return")
  /\ \E step \in 1..MaxStep :
       LET x == MoveToward(at[m], HomeOf[m], step, 0) IN
         /\ at' = [at EXCEPT ![m] = x]
         /\ \/ x = HomeOf[m] /\ Chosen(m, "Idle", NoPlayer)
            \/ x # HomeOf[m] /\ UNCHANGED <<state, target>>
  /\ UNCHANGED <<hp, mhp, rewarded>>

\* Return: nearer to home, and there idle and healed.
GoesHome(m) ==
  /\ Turn(m, "Return")
  /\ \E step \in 1..MaxStep :
       LET x == MoveToward(at[m], HomeOf[m], step, 0) IN
         /\ at' = [at EXCEPT ![m] = x]
         /\ \/ /\ x = HomeOf[m]
               /\ Chosen(m, "Idle", NoPlayer)
               /\ mhp' = [mhp EXCEPT ![m] = MaxHp]
            \/ /\ x # HomeOf[m]
               /\ UNCHANGED <<state, target, mhp>>
  /\ UNCHANGED <<hp, rewarded>>

UpdateMonster(m) == \/ StaysDead(m) \/ RespawnMonster(m)
                    \/ LooksOut(m)
                    \/ GivesUp(m) \/ Chases(m)
                    \/ GoesHome(m)

\* Player::Regen.
Regen(p) == IF Alive(p) /\ p \notin leaving THEN Least(hp[p] + HpRegen, PlayerMaxHp) ELSE hp[p]

\* The end of the tick, with RegenPlayers when its second has passed.
EndTick ==
  /\ ticking
  /\ todo = {}
  /\ ticking' = FALSE
  /\ \/ UNCHANGED hp
     \/ hp' = [p \in Players |-> Regen(p)]
  /\ UNCHANGED <<pos, leaving, monsterVars, todo>>

-----------------------------------------------------------------------------
\* Players come, move and go.

\* Enter, with the position and hp of the row; never while a portal save of the zone
\* is awaited (NoEntryDuringPortalSave of ZoneLife).
Enter(p) ==
  /\ ~ticking
  /\ ~Here(p)
  /\ p \notin leaving
  /\ \E x \in Pos, h \in 0..MaxRowHp :
       /\ pos' = [pos EXCEPT ![p] = x]
       /\ hp' = [hp EXCEPT ![p] = h]
  /\ UNCHANGED <<leaving, monsterVars, tickVars>>

Gone(S) ==
  /\ pos' = [p \in Players |-> IF p \in S THEN NotHere ELSE pos[p]]
  /\ hp' = [p \in Players |-> IF p \in S THEN 0 ELSE hp[p]]

\* A disconnect; SaveAllAndClear is the same for everybody.
HandleDisconnect(p) ==
  /\ ~ticking
  /\ Here(p)
  /\ Gone({p})
  /\ UNCHANGED <<leaving, monsterVars, tickVars>>

SaveAllAndClear ==
  /\ ~ticking
  /\ \E p \in Players : Here(p)
  /\ Gone(Players)
  /\ UNCHANGED <<leaving, monsterVars, tickVars>>

\* HandlePortal, and the job of its save.
HandlePortal(p) ==
  /\ ~ticking
  /\ Alive(p)
  /\ p \notin leaving
  /\ leaving' = leaving \cup {p}
  /\ UNCHANGED <<pos, hp, monsterVars, tickVars>>

PortalSaved(p) ==
  /\ ~ticking
  /\ p \in leaving
  /\ leaving' = leaving \ {p}
  /\ \/ Here(p) /\ Gone({p})
     \/ UNCHANGED <<pos, hp>>
  /\ UNCHANGED <<monsterVars, tickVars>>

\* HandleMove, within the budget or refused.
HandleMove(p, x) ==
  /\ ~ticking
  /\ Alive(p)
  /\ p \notin leaving
  /\ pos' = [pos EXCEPT ![p] = x]
  /\ UNCHANGED <<hp, leaving, monsterVars, tickVars>>

HandleRevive(p) ==
  /\ ~ticking
  /\ Here(p)
  /\ ~Alive(p)
  /\ pos' = [pos EXCEPT ![p] = SpawnPos]
  /\ hp' = [hp EXCEPT ![p] = PlayerMaxHp]
  /\ UNCHANGED <<leaving, monsterVars, tickVars>>

-----------------------------------------------------------------------------
\* Players fight.

CanFight(p) == ~ticking /\ Alive(p) /\ p \notin leaving

\* Bug: the dead may be hit.
IsTargetEvenDead(m) == state[m] # "Return"

\* May m be hit?
IsTarget(m) == state[m] \notin {"Dead", "Return"}

\* Every monster of S loses damage; an idle one turns on p; those without hp die
\* and are rewarded (OnMonsterDead).
Hit(p, S, damage) ==
  LET left(m) == TakeDamage(mhp[m], damage)
      killed == {m \in S : left(m) <= 0}
  IN  /\ mhp' = [m \in Monsters |-> IF m \in S THEN left(m) ELSE mhp[m]]
      /\ state' = [m \in Monsters |-> IF m \in killed THEN "Dead"
                                      ELSE IF m \in S /\ state[m] = "Idle" THEN "Chase"
                                      ELSE state[m]]
      /\ target' = [m \in Monsters |-> IF m \in killed THEN NoPlayer
                                       ELSE IF m \in S /\ state[m] = "Idle" THEN p
                                       ELSE target[m]]
      /\ rewarded' = [m \in Monsters |-> IF m \in killed THEN rewarded[m] + 1 ELSE rewarded[m]]

\* HandleAttack, when the cooldown is over.
HandleAttack(p, m) ==
  /\ CanFight(p)
  /\ IsTarget(m)
  /\ Dist(at[m], pos[p]) <= PlayerRange
  /\ Hit(p, {m}, PlayerDamage)
  /\ UNCHANGED <<playerVars, at, tickVars>>

\* CollectMonstersInRadius: the sets it may return, the nearest MaxTargets.
MonstersInRadius(x, radius) ==
  LET found == {m \in Monsters : /\ IsTarget(m)
                                 /\ InCellsOfRange(x, radius, at[m])
                                 /\ Dist(at[m], x) <= radius}
  IN  {S \in SUBSET found : /\ Cardinality(S) = Least(Cardinality(found), MaxTargets)
                            /\ \A m \in S, n \in found \ S : Dist(at[m], x) <= Dist(at[n], x)}

\* The target of a skill, in its range.
FindTarget(p, skill, m) == IsTarget(m) /\ Dist(at[m], pos[p]) <= skill.range

\* The sets of monsters a cast may hit: none when it is refused.
TargetSets(p, skill) ==
  CASE skill.targetType = "Single" -> {{m} : m \in {n \in Monsters : FindTarget(p, skill, n)}}
    [] skill.targetType = "SelfArea" -> MonstersInRadius(pos[p], skill.radius)
    [] skill.targetType = "TargetArea" ->
         UNION {MonstersInRadius(at[m], skill.radius) :
                  m \in {n \in Monsters : FindTarget(p, skill, n)}}

\* Bug: the last hp may be spent.
CheckSkillCostAll(p, skill) == skill.hpCost = 0 \/ hp[p] >= skill.hpCost

\* Player::CheckSKillCost.
CheckSkillCost(p, skill) == skill.hpCost = 0 \/ hp[p] > skill.hpCost

\* HandleSkillCast, when the skill is ready and not refused.
HandleSkillCast(p, skill) ==
  /\ CanFight(p)
  /\ CheckSkillCost(p, skill)
  /\ \E S \in TargetSets(p, skill) : Hit(p, S, skill.damage)
  /\ hp' = [hp EXCEPT ![p] = @ - skill.hpCost]
  /\ UNCHANGED <<pos, leaving, at, tickVars>>

-----------------------------------------------------------------------------
PlayerJob(p) == \/ Enter(p)
                \/ HandleDisconnect(p)
                \/ HandlePortal(p)
                \/ PortalSaved(p)
                \/ \E x \in Pos : HandleMove(p, x)
                \/ HandleRevive(p)
                \/ \E m \in Monsters : HandleAttack(p, m)
                \/ \E skill \in Skills : HandleSkillCast(p, skill)

Next == \/ StartTick
        \/ \E m \in Monsters : UpdateMonster(m)
        \/ EndTick
        \/ \E p \in Players : PlayerJob(p)
        \/ SaveAllAndClear

\* The timer asks for ticks and the pool runs them; a monster that stays dead is
\* asked again until its time has come.
Fairness == /\ WF_vars(StartTick)
            /\ WF_vars(EndTick)
            /\ \A m \in Monsters : WF_vars(UpdateMonster(m)) /\ SF_vars(RespawnMonster(m))

Spec == Init /\ [][Next]_vars /\ Fairness

-----------------------------------------------------------------------------
\* The types of the variables.
TypeOK ==
  /\ pos \in [Players -> Pos \cup {NotHere}]
  /\ hp \in [Players -> 0..MaxRowHp]
  /\ leaving \subseteq Players
  /\ at \in [Monsters -> Int]
  /\ mhp \in [Monsters -> 0..MaxHp]
  /\ state \in [Monsters -> MonsterState]
  /\ target \in [Monsters -> Players \cup {NoPlayer}]
  /\ rewarded \in [Monsters -> Nat]
  /\ ticking \in BOOLEAN
  /\ todo \subseteq Monsters

\* A monster that has lost its last hp is dead, and is rewarded once and not again
\* before it has respawned, however attacks, area skills and ticks follow one
\* another.
KilledOnce ==
  \A m \in Monsters :
    /\ state[m] = "Dead" <=> mhp[m] = 0
    /\ rewarded[m] = IF state[m] = "Dead" THEN 1 ELSE 0

\* A monster cannot be lured away or worn down bit by bit: it is never farther from
\* home than one step beyond the leash, and it is idle only at home, healed.
KeepsItsGround ==
  \A m \in Monsters :
    /\ Dist(at[m], HomeOf[m]) <= Leash + MaxStep
    /\ state[m] = "Idle" => at[m] = HomeOf[m] /\ mhp[m] = MaxHp

\* An idle monster that had its turn chases the nearest of all living players
\* in range who are not leaving, if there is one: the search of a few cells of the
\* grid misses nobody.
InAggroRange(m) ==
  {p \in Players : /\ pos[p] # NotHere /\ hp[p] > 0 /\ p \notin leaving
                   /\ Dist(pos[p], at[m]) <= AggroRange}

NearestIsChased ==
  [][\A m \in Monsters :
       state[m] = "Idle" /\ m \in todo \ todo' /\ InAggroRange(m) # {} =>
         /\ state'[m] = "Chase"
         /\ target'[m] \in InAggroRange(m)
         /\ \A p \in InAggroRange(m) : Dist(pos[target'[m]], at[m]) <= Dist(pos[p], at[m])]_vars

\* Players die by monsters only: no skill costs a caster its last hp, and no
\* regeneration.
DieByMonsters ==
  [][\A p \in Players : Alive(p) /\ pos'[p] # NotHere /\ hp'[p] = 0 =>
       ticking /\ todo' # todo]_vars

\* When everybody has left for good, every monster comes back to its place in the
\* end, alive and healed.
CalmsDown ==
  <>[](\A p \in Players : ~Here(p)) =>
    <>[](\A m \in Monsters : state[m] = "Idle" /\ mhp[m] = MaxHp)
=============================================================================
