-------------------------- MODULE ZoneCombatProofs --------------------------
(***************************************************************************)
(* Proofs about ZoneCombat, for a map of any size and any number of        *)
(* players, monsters and skills.  The invariant is TypeOK, KilledOnce and  *)
(* KeepsItsGround together: a monster that may be hit is not dead, hence   *)
(* not rewarded yet, and one that chases was within its leash before its   *)
(* last step.  The action properties follow from the types.                *)
(***************************************************************************)
EXTENDS ZoneCombat, WellFoundedInduction, TLAPS

IInv == TypeOK /\ KilledOnce /\ KeepsItsGround

-----------------------------------------------------------------------------
\* Geometry.

\* Distances are naturals.
LEMMA DistNat ==
  ASSUME NEW a \in Int, NEW b \in Int
  PROVE  Dist(a, b) \in Nat /\ Dist(a, b) = Dist(b, a)
BY DEF Dist

\* One step changes the distance from any place by the step at most.
LEMMA MoveBound ==
  ASSUME NEW x \in Int, NEW t \in Int, NEW step \in Nat, NEW stop \in Nat, NEW home \in Int
  PROVE  /\ MoveToward(x, t, step, stop) \in Int
         /\ Dist(MoveToward(x, t, step, stop), home) <= Dist(x, home) + step
BY DEF MoveToward, Dist, Least

\* A step towards a place never leads away from it.
LEMMA MoveHome ==
  ASSUME NEW x \in Int, NEW home \in Int, NEW step \in Nat
  PROVE  Dist(MoveToward(x, home, step, 0), home) <= Dist(x, home)
BY DEF MoveToward, Dist, Least

\* What is left after damage.
LEMMA DamageLeft ==
  ASSUME NEW h \in Nat, NEW damage \in Nat
  PROVE  TakeDamage(h, damage) \in 0..h
BY DEF TakeDamage, Least

\* Larger coordinates lie in larger cells.
LEMMA CellsAscend ==
  ASSUME NEW a \in Int, NEW b \in Int, a <= b
  PROVE  ToCell(a) <= ToCell(b) /\ ToCell(a) \in Int /\ ToCell(b) \in Int
<1> DEFINE x == a \div CellSize
<1> DEFINE y == b \div CellSize
<1> DEFINE r == a % CellSize
<1> DEFINE s == b % CellSize
<1>1. CellSize \in Nat \ {0}
  BY ZoneCombatAssumption
<1>2. /\ x \in Int /\ r \in 0..(CellSize - 1) /\ a = CellSize * x + r
      /\ y \in Int /\ s \in 0..(CellSize - 1) /\ b = CellSize * y + s
  BY <1>1
<1> HIDE DEF x, y, r, s
<1>3. ASSUME y < x
      PROVE  FALSE
  <2>1. CellSize * (y + 1) <= CellSize * x
    BY <1>1, <1>2, <1>3
  <2>2. CellSize * (y + 1) = CellSize * y + CellSize
    BY <1>1, <1>2
  <2>3. QED
    BY <1>1, <1>2, <2>1, <2>2
<1>4. x <= y
  BY <1>2, <1>3
<1>5. QED
  BY <1>2, <1>4 DEF ToCell, x, y

\* Whatever is in range lies in a cell the range touches.
LEMMA RangeIsCovered ==
  ASSUME NEW x \in Int, NEW range \in Nat, NEW y \in Int, Dist(x, y) <= range
  PROVE  InCellsOfRange(x, range, y)
<1>1. x - range <= y /\ y <= x + range /\ x - range \in Int /\ x + range \in Int
  BY DEF Dist
<1>2. ToCell(x - range) <= ToCell(y) /\ ToCell(y) <= ToCell(x + range)
  BY <1>1, CellsAscend
<1>3. ToCell(x - range) \in Int /\ ToCell(y) \in Int /\ ToCell(x + range) \in Int
  BY <1>1, CellsAscend
<1>4. QED
  BY <1>2, <1>3 DEF InCellsOfRange

\* A nonempty set of naturals has a least element.
LEMMA LeastNat ==
  ASSUME NEW S \in SUBSET Nat, S # {}
  PROVE  \E n \in S : \A m \in S : n <= m
<1> DEFINE R == {ss \in Nat \X Nat : ss[1] < ss[2]}
<1>1. IsWellFoundedOn(R, Nat)
  BY NatLessThanWellFounded DEF OpToRel
<1>2. \E n \in S : \A m \in S : ~ (<<m, n>> \in R)
  <2> HIDE DEF R
  <2> QED BY <1>1, WFMin
<1>3. \A m, n \in Nat : <<m, n>> \in R <=> m < n
  OBVIOUS
<1> HIDE DEF R
<1>4. PICK n \in S : \A m \in S : ~ (<<m, n>> \in R)
  BY <1>2
<1>5. \A m \in S : ~ (m < n)
  BY <1>3, <1>4
<1>6. \A m \in S : n <= m
  BY <1>5
<1>7. QED
  BY <1>6

-----------------------------------------------------------------------------
\* Hits.

\* What Hit does to one monster, when only monsters that may be hit are in S.
LEMMA HitEffect ==
  ASSUME IInv, NEW p \in Players, NEW S \in SUBSET Monsters, NEW damage \in Nat,
         \A m \in S : IsTarget(m), Hit(p, S, damage)
  PROVE  /\ mhp' \in [Monsters -> 0..MaxHp]
         /\ state' \in [Monsters -> MonsterState]
         /\ target' \in [Monsters -> Players \cup {NoPlayer}]
         /\ rewarded' \in [Monsters -> Nat]
         /\ \A m \in Monsters :
              /\ state'[m] = "Dead" <=> mhp'[m] = 0
              /\ rewarded'[m] = IF state'[m] = "Dead" THEN 1 ELSE 0
              /\ state'[m] = "Idle" => state[m] = "Idle" /\ mhp'[m] = mhp[m]
<1> DEFINE left(m) == TakeDamage(mhp[m], damage)
<1> DEFINE killed == {m \in S : left(m) <= 0}
<1>0. TypeOK /\ KilledOnce /\ MaxHp \in Nat \ {0}
  BY ZoneCombatAssumption DEF IInv
<1>1. \A m \in Monsters : left(m) \in 0..mhp[m] /\ left(m) \in 0..MaxHp
  BY <1>0, DamageLeft DEF TypeOK
<1>2. /\ mhp' = [m \in Monsters |-> IF m \in S THEN left(m) ELSE mhp[m]]
      /\ state' = [m \in Monsters |-> IF m \in killed THEN "Dead"
                                      ELSE IF m \in S /\ state[m] = "Idle" THEN "Chase"
                                      ELSE state[m]]
      /\ target' = [m \in Monsters |-> IF m \in killed THEN NoPlayer
                                       ELSE IF m \in S /\ state[m] = "Idle" THEN p
                                       ELSE target[m]]
      /\ rewarded' = [m \in Monsters |-> IF m \in killed THEN rewarded[m] + 1 ELSE rewarded[m]]
  BY DEF Hit
<1>3. \A m \in Monsters : m \in killed <=> m \in S /\ left(m) = 0
  BY <1>1
<1> HIDE DEF left, killed
<1>4. \A m \in S : state[m] # "Dead" /\ rewarded[m] = 0
  BY <1>0 DEF IsTarget, KilledOnce
<1>5. /\ mhp' \in [Monsters -> 0..MaxHp]
      /\ state' \in [Monsters -> MonsterState]
      /\ target' \in [Monsters -> Players \cup {NoPlayer}]
      /\ rewarded' \in [Monsters -> Nat]
  BY <1>0, <1>1, <1>2 DEF TypeOK, MonsterState
<1>6. ASSUME NEW m \in Monsters
      PROVE  /\ state'[m] = "Dead" <=> mhp'[m] = 0
             /\ rewarded'[m] = IF state'[m] = "Dead" THEN 1 ELSE 0
             /\ state'[m] = "Idle" => state[m] = "Idle" /\ mhp'[m] = mhp[m]
  <2>1. CASE m \in killed
    BY <1>2, <1>3, <1>4, <2>1
  <2>2. CASE m \in S /\ m \notin killed
    BY <1>0, <1>1, <1>2, <1>3, <1>4, <2>2 DEF KilledOnce
  <2>3. CASE m \notin S
    BY <1>0, <1>2, <1>3, <2>3 DEF KilledOnce
  <2>4. QED
    BY <2>1, <2>2, <2>3
<1>7. QED
  BY <1>5, <1>6

\* A cast hits only monsters that may be hit.
LEMMA CastTargets ==
  ASSUME NEW p \in Players, NEW skill \in Skills, NEW S \in TargetSets(p, skill)
  PROVE  S \in SUBSET Monsters /\ \A m \in S : IsTarget(m)
<1>1. \A x, radius : \A T \in MonstersInRadius(x, radius) :
        T \in SUBSET Monsters /\ \A m \in T : IsTarget(m)
  BY DEF MonstersInRadius
<1>2. skill.targetType \in {"Single", "SelfArea", "TargetArea"}
  BY ZoneCombatAssumption DEF Skill
<1>3. CASE skill.targetType = "Single"
  BY <1>3 DEF TargetSets, FindTarget
<1>4. CASE skill.targetType = "SelfArea"
  <2>1. S \in MonstersInRadius(pos[p], skill.radius)
    BY <1>4 DEF TargetSets
  <2>2. QED
    BY <1>1, <2>1
<1>5. CASE skill.targetType = "TargetArea"
  <2>1. \E m \in Monsters : S \in MonstersInRadius(at[m], skill.radius)
    BY <1>5 DEF TargetSets
  <2>2. QED
    BY <1>1, <2>1
<1>6. QED
  BY <1>2, <1>3, <1>4, <1>5

-----------------------------------------------------------------------------
\* Every step keeps the invariant.

\* A step that leaves the monsters alone needs only the types of the rest.
LEMMA MonstersAlone ==
  ASSUME IInv, UNCHANGED monsterVars
  PROVE  KilledOnce' /\ KeepsItsGround'
BY DEF IInv, KilledOnce, KeepsItsGround, monsterVars

\* The players a monster may find or turn to.
LEMMA FoundArePlayers ==
  ASSUME NEW m \in Monsters, NEW range, TypeOK
  PROVE  /\ NearestPlayers(m, range) \subseteq Players
         /\ Victims(m) \subseteq Players
         /\ \A p \in Victims(m) : pos[p] \in Int /\ Alive(p)
<1>1. \A r : \A p \in NearestPlayers(m, r) : p \in Players /\ Alive(p)
  BY DEF NearestPlayers
<1>2. Victims(m) \subseteq Players /\ \A p \in Victims(m) : Alive(p)
  BY <1>1 DEF Victims, TypeOK
<1>3. \A p \in Players : Alive(p) => pos[p] \in Int
  BY ZoneCombatAssumption DEF Alive, Here, TypeOK
<1>4. QED
  BY <1>1, <1>2, <1>3

\* The turn of a monster.
LEMMA TurnKeeps ==
  ASSUME IInv, NEW m \in Monsters, UpdateMonster(m)
  PROVE  IInv'
<1>0. /\ TypeOK /\ KilledOnce /\ KeepsItsGround
      /\ MaxHp \in Nat \ {0} /\ MaxStep \in Nat \ {0} /\ StopDist \in Nat /\ Leash \in Nat
      /\ Damage \in Nat /\ HomeOf[m] \in Int /\ at[m] \in Int
  BY ZoneCombatAssumption DEF IInv, TypeOK
<1>1. todo' \subseteq Monsters /\ ticking' = ticking /\ pos' = pos /\ leaving' = leaving
  BY <1>0 DEF UpdateMonster, StaysDead, RespawnMonster, LooksOut, GivesUp, Chases, GoesHome, Turn,
              TypeOK
<1>2. CASE StaysDead(m)
  <2>1. TypeOK'
    BY <1>0, <1>1, <1>2 DEF StaysDead, monsterVars, TypeOK
  <2>2. QED
    BY <1>2, <2>1, MonstersAlone DEF StaysDead, IInv
<1>3. CASE RespawnMonster(m)
  <2>1. TypeOK'
    BY <1>0, <1>1, <1>3 DEF RespawnMonster, Chosen, TypeOK, MonsterState
  <2>2. KilledOnce'
    BY <1>0, <1>3 DEF RespawnMonster, Chosen, KilledOnce, TypeOK
  <2>3. Dist(HomeOf[m], HomeOf[m]) = 0
    BY <1>0 DEF Dist
  <2>4. KeepsItsGround'
    BY <1>0, <1>3, <2>3 DEF RespawnMonster, Chosen, KeepsItsGround, TypeOK
  <2>5. QED
    BY <2>1, <2>2, <2>4 DEF IInv
<1>4. CASE LooksOut(m) \/ GivesUp(m)
  <2>1. UNCHANGED <<hp, at, mhp, rewarded>>
    BY <1>4 DEF LooksOut, GivesUp
  <2>2. state[m] # "Dead"
    BY <1>4 DEF LooksOut, GivesUp, Turn
  <2>3. \/ UNCHANGED <<state, target>>
        \/ \E p \in Players \cup {NoPlayer}, s \in {"Chase", "Return"} : Chosen(m, s, p)
    BY <1>0, <1>4, FoundArePlayers DEF LooksOut, GivesUp
  <2>4. TypeOK'
    BY <1>0, <1>1, <2>1, <2>3 DEF Chosen, TypeOK, MonsterState
  <2>5. \A n \in Monsters : state'[n] = state[n] \/ (n = m /\ state'[n] \in {"Chase", "Return"})
    BY <1>0, <2>3 DEF Chosen, TypeOK
  <2>6. KilledOnce' /\ KeepsItsGround'
    BY <1>0, <2>1, <2>2, <2>5 DEF KilledOnce, KeepsItsGround
  <2>7. QED
    BY <2>4, <2>6 DEF IInv
<1>5. CASE Chases(m)
  <2>1. PICK p \in Victims(m), step \in 1..MaxStep :
          LET x == MoveToward(at[m], pos[p], step, StopDist) IN
            /\ at' = [at EXCEPT ![m] = x]
            /\ \/ UNCHANGED hp
               \/ hp' = [hp EXCEPT ![p] = TakeDamage(@, Damage)]
    BY <1>5 DEF Chases
  <2> DEFINE x == MoveToward(at[m], pos[p], step, StopDist)
  <2>2. p \in Players /\ pos[p] \in Int
    BY <1>0, FoundArePlayers
  <2>a. step \in Nat /\ step <= MaxStep
    BY <1>0
  <2>3. x \in Int /\ Dist(x, HomeOf[m]) <= Dist(at[m], HomeOf[m]) + step
    BY <1>0, <2>2, <2>a, MoveBound
  <2>b. Dist(x, HomeOf[m]) \in Nat /\ Dist(at[m], HomeOf[m]) \in Nat
    BY <1>0, <2>3, DistNat
  <2>c. state[m] = "Chase" /\ ~(Dist(at[m], HomeOf[m]) > Leash)
    BY <1>5 DEF Chases, TooFar, Turn
  <2>4. Dist(at[m], HomeOf[m]) <= Leash /\ state[m] = "Chase"
    BY <1>0, <2>b, <2>c
  <2>5. Dist(x, HomeOf[m]) <= Leash + MaxStep
    BY <1>0, <2>3, <2>4, <2>a, <2>b
  <2>6. at' = [at EXCEPT ![m] = x]
    BY <2>1
  <2> HIDE DEF x
  <2>7. hp' \in [Players -> 0..MaxRowHp]
    <3>1. hp \in [Players -> 0..MaxRowHp] /\ hp[p] \in 0..MaxRowHp /\ MaxRowHp \in Nat
      BY <1>0, <2>2, ZoneCombatAssumption DEF TypeOK
    <3>a. hp[p] \in Nat
      BY <3>1
    <3>2. TakeDamage(hp[p], Damage) \in 0..hp[p]
      BY <1>0, <3>a, DamageLeft
    <3>3. TakeDamage(hp[p], Damage) \in 0..MaxRowHp
      BY <3>1, <3>2
    <3>4. hp' = hp \/ hp' = [hp EXCEPT ![p] = TakeDamage(hp[p], Damage)]
      BY <2>1
    <3>5. QED
      BY <3>1, <3>3, <3>4
  <2>8. UNCHANGED <<mhp, state, target, rewarded>>
    BY <1>5 DEF Chases
  <2>9. TypeOK'
    BY <1>0, <1>1, <2>3, <2>6, <2>7, <2>8 DEF TypeOK
  <2>10. KilledOnce' /\ KeepsItsGround'
    BY <1>0, <2>4, <2>5, <2>6, <2>8 DEF KilledOnce, KeepsItsGround, TypeOK
  <2>11. QED
    BY <2>9, <2>10 DEF IInv
<1>6. CASE GoesHome(m)
  <2>1. PICK step \in 1..MaxStep :
          LET x == MoveToward(at[m], HomeOf[m], step, 0) IN
            /\ at' = [at EXCEPT ![m] = x]
            /\ \/ /\ x = HomeOf[m]
                  /\ Chosen(m, "Idle", NoPlayer)
                  /\ mhp' = [mhp EXCEPT ![m] = MaxHp]
               \/ UNCHANGED <<state, target, mhp>>
    BY <1>6 DEF GoesHome
  <2> DEFINE x == MoveToward(at[m], HomeOf[m], step, 0)
  <2>2. x \in Int /\ Dist(x, HomeOf[m]) <= Dist(at[m], HomeOf[m])
    <3>1. step \in Nat /\ 0 \in Nat
      BY <1>0
    <3>2. QED
      BY <1>0, <3>1, MoveBound, MoveHome
  <2>3. Dist(at[m], HomeOf[m]) <= Leash + MaxStep
    BY <1>0 DEF KeepsItsGround
  <2>a. Dist(x, HomeOf[m]) \in Nat /\ Dist(at[m], HomeOf[m]) \in Nat
    BY <1>0, <2>2, DistNat
  <2>4. Dist(x, HomeOf[m]) <= Leash + MaxStep
    BY <1>0, <2>2, <2>3, <2>a
  <2>5. /\ at' = [at EXCEPT ![m] = x]
        /\ \/ /\ x = HomeOf[m]
              /\ Chosen(m, "Idle", NoPlayer)
              /\ mhp' = [mhp EXCEPT ![m] = MaxHp]
           \/ UNCHANGED <<state, target, mhp>>
    BY <2>1
  <2> HIDE DEF x
  <2>6. UNCHANGED <<hp, rewarded>> /\ state[m] = "Return"
    BY <1>6 DEF GoesHome, Turn
  <2>7. TypeOK'
    BY <1>0, <1>1, <2>2, <2>5, <2>6 DEF TypeOK, Chosen, MonsterState
  <2>8. KilledOnce'
    BY <1>0, <2>5, <2>6 DEF KilledOnce, Chosen, TypeOK
  <2>9. KeepsItsGround'
    BY <1>0, <2>4, <2>5, <2>6 DEF KeepsItsGround, Chosen, TypeOK
  <2>10. QED
    BY <2>7, <2>8, <2>9 DEF IInv
<1>7. QED
  BY <1>2, <1>3, <1>4, <1>5, <1>6 DEF UpdateMonster

\* A job of a player, and the save of everybody.
LEMMA PlayerKeeps ==
  ASSUME IInv, NEW p \in Players, PlayerJob(p) \/ SaveAllAndClear
  PROVE  IInv'
<1>0. /\ TypeOK /\ KilledOnce /\ KeepsItsGround
      /\ SpawnPos \in Pos /\ MaxRowHp \in Nat /\ PlayerMaxHp \in 0..MaxRowHp
      /\ PlayerDamage \in Nat
  BY ZoneCombatAssumption DEF IInv
<1>1. \A S \in SUBSET Players :
        Gone(S) => pos' \in [Players -> Pos \cup {NotHere}] /\ hp' \in [Players -> 0..MaxRowHp]
  BY <1>0 DEF Gone, TypeOK
<1>2. CASE \/ Enter(p) \/ HandleDisconnect(p) \/ SaveAllAndClear \/ HandlePortal(p)
           \/ PortalSaved(p) \/ HandleRevive(p) \/ \E x \in Pos : HandleMove(p, x)
  <2>1. UNCHANGED <<monsterVars, tickVars>> /\ leaving' \subseteq Players
    BY <1>0, <1>2 DEF Enter, HandleDisconnect, SaveAllAndClear, HandlePortal, PortalSaved,
                      HandleRevive, HandleMove, TypeOK
  <2>2. pos' \in [Players -> Pos \cup {NotHere}] /\ hp' \in [Players -> 0..MaxRowHp]
    <3>1. CASE HandleDisconnect(p) \/ SaveAllAndClear
      <4>1. Gone({p}) \/ Gone(Players)
        BY <3>1 DEF HandleDisconnect, SaveAllAndClear
      <4>2. QED
        BY <1>1, <4>1
    <3>2. CASE PortalSaved(p)
      <4>1. Gone({p}) \/ UNCHANGED <<pos, hp>>
        BY <3>2 DEF PortalSaved
      <4>2. QED
        BY <1>0, <1>1, <4>1 DEF TypeOK
    <3>3. CASE Enter(p)
      BY <1>0, <3>3 DEF Enter, TypeOK
    <3>4. CASE HandlePortal(p) \/ HandleRevive(p) \/ \E x \in Pos : HandleMove(p, x)
      BY <1>0, <3>4 DEF HandlePortal, HandleRevive, HandleMove, TypeOK
    <3>5. QED
      BY <1>2, <3>1, <3>2, <3>3, <3>4
  <2>3. TypeOK'
    BY <1>0, <2>1, <2>2 DEF monsterVars, tickVars, TypeOK
  <2>4. QED
    BY <2>1, <2>3, MonstersAlone DEF IInv
<1>3. ASSUME NEW S \in SUBSET Monsters, NEW damage \in Nat, \A m \in S : IsTarget(m),
             Hit(p, S, damage), UNCHANGED <<pos, leaving, at, tickVars>>,
             hp' \in [Players -> 0..MaxRowHp]
      PROVE  IInv'
  <2>1. TypeOK'
    BY <1>0, <1>3, HitEffect DEF TypeOK, tickVars
  <2>2. KilledOnce'
    BY <1>3, HitEffect DEF KilledOnce
  <2>3. \A m \in Monsters : state'[m] = "Idle" => state[m] = "Idle" /\ mhp'[m] = mhp[m]
    BY <1>3, HitEffect
  <2>4. KeepsItsGround'
    BY <1>0, <1>3, <2>3 DEF KeepsItsGround
  <2>5. QED
    BY <2>1, <2>2, <2>4 DEF IInv
<1>4. CASE \E m \in Monsters : HandleAttack(p, m)
  <2>1. PICK m \in Monsters : HandleAttack(p, m)
    BY <1>4
  <2>2. /\ \A n \in {m} : IsTarget(n)
        /\ Hit(p, {m}, PlayerDamage)
        /\ UNCHANGED <<pos, leaving, at, tickVars>> /\ hp' = hp
    BY <2>1 DEF HandleAttack, playerVars
  <2>3. QED
    BY <1>0, <1>3, <2>2 DEF TypeOK
<1>5. CASE \E skill \in Skills : HandleSkillCast(p, skill)
  <2>1. PICK skill \in Skills : HandleSkillCast(p, skill)
    BY <1>5
  <2>2. PICK S \in TargetSets(p, skill) : Hit(p, S, skill.damage)
    BY <2>1 DEF HandleSkillCast
  <2>3. skill.damage \in Nat /\ skill.hpCost \in Nat
    BY ZoneCombatAssumption DEF Skill
  <2>4. S \in SUBSET Monsters /\ \A m \in S : IsTarget(m)
    BY CastTargets
  <2>5. UNCHANGED <<pos, leaving, at, tickVars>> /\ CheckSkillCost(p, skill)
    BY <2>1 DEF HandleSkillCast
  <2>6. hp' = [hp EXCEPT ![p] = hp[p] - skill.hpCost]
    BY <2>1 DEF HandleSkillCast
  <2>7. hp \in [Players -> 0..MaxRowHp] /\ hp[p] \in 0..MaxRowHp
    BY <1>0 DEF TypeOK
  <2>8. hp[p] - skill.hpCost \in 0..MaxRowHp
    BY <1>0, <2>3, <2>5, <2>7 DEF CheckSkillCost
  <2>9. hp' \in [Players -> 0..MaxRowHp]
    BY <2>6, <2>7, <2>8
  <2>10. QED
    BY <1>3, <2>2, <2>3, <2>4, <2>5, <2>9
<1>6. QED
  BY <1>2, <1>4, <1>5 DEF PlayerJob

\* The beginning and the end of a tick.
LEMMA TickKeeps ==
  ASSUME IInv, StartTick \/ EndTick
  PROVE  IInv'
<1>0. TypeOK /\ MaxRowHp \in Nat /\ PlayerMaxHp \in 0..MaxRowHp /\ HpRegen \in Nat
  BY ZoneCombatAssumption DEF IInv
<1>1. \A p \in Players : Regen(p) \in 0..MaxRowHp
  <2>1. SUFFICES ASSUME NEW p \in Players
                 PROVE  Regen(p) \in 0..MaxRowHp
    OBVIOUS
  <2>2. hp[p] \in 0..MaxRowHp
    BY <1>0 DEF TypeOK
  <2>3. Least(hp[p] + HpRegen, PlayerMaxHp) \in 0..MaxRowHp
    BY <1>0, <2>2 DEF Least
  <2>4. QED
    BY <2>2, <2>3 DEF Regen
<1>2. hp' \in [Players -> 0..MaxRowHp]
  <2>1. hp' = hp \/ hp' = [p \in Players |-> Regen(p)]
    BY DEF StartTick, EndTick, playerVars
  <2>2. QED
    BY <1>0, <1>1, <2>1 DEF TypeOK
<1>3. /\ UNCHANGED <<pos, leaving, monsterVars>>
      /\ ticking' \in BOOLEAN /\ todo' \subseteq Monsters
  BY <1>0 DEF StartTick, EndTick, playerVars, TypeOK
<1>4. TypeOK'
  BY <1>0, <1>2, <1>3 DEF monsterVars, TypeOK
<1>5. QED
  BY <1>3, <1>4, MonstersAlone DEF IInv

\* It holds at the start.
LEMMA InitIInv == Init => IInv
<1>1. SUFFICES ASSUME Init
               PROVE  IInv
  OBVIOUS
<1>2. \A m \in Monsters : HomeOf[m] \in Int /\ Dist(HomeOf[m], HomeOf[m]) = 0
  BY ZoneCombatAssumption DEF Dist
<1>3. MaxHp \in Nat \ {0} /\ MaxRowHp \in Nat /\ Leash + MaxStep \in Nat
  BY ZoneCombatAssumption
<1>4. TypeOK
  <2>1. /\ pos \in [Players -> Pos \cup {NotHere}] /\ hp \in [Players -> 0..MaxRowHp]
        /\ leaving \subseteq Players /\ todo \subseteq Monsters
    BY <1>1, <1>3 DEF Init
  <2>a. ticking \in BOOLEAN
    BY <1>1 DEF Init
  <2>2. /\ at \in [Monsters -> Int] /\ mhp \in [Monsters -> 0..MaxHp]
        /\ target \in [Monsters -> Players \cup {NoPlayer}] /\ rewarded \in [Monsters -> Nat]
    BY <1>1, <1>3, ZoneCombatAssumption DEF Init
  <2>3. state \in [Monsters -> MonsterState]
    BY <1>1 DEF Init, MonsterState
  <2>4. QED
    BY <2>1, <2>2, <2>3, <2>a DEF TypeOK
<1>5. KilledOnce
  BY <1>1, <1>3 DEF Init, KilledOnce
<1>6. KeepsItsGround
  BY <1>1, <1>2, <1>3 DEF Init, KeepsItsGround
<1>7. QED
  BY <1>4, <1>5, <1>6 DEF IInv

\* The inductive invariant holds always.
THEOREM Invariance == Spec => []IInv
<1>1. Init => IInv
  BY InitIInv
<1>2. IInv /\ [Next]_vars => IInv'
  <2>1. SUFFICES ASSUME IInv, [Next]_vars
                 PROVE  IInv'
    OBVIOUS
  <2>2. CASE Next
    <3>1. CASE StartTick \/ EndTick
      BY <2>1, <3>1, TickKeeps
    <3>2. CASE \E m \in Monsters : UpdateMonster(m)
      BY <2>1, <3>2, TurnKeeps
    <3>3. CASE \E p \in Players : PlayerJob(p)
      BY <2>1, <3>3, PlayerKeeps
    <3>4. CASE SaveAllAndClear
      <4>1. PICK p \in Players : Here(p)
        BY <3>4 DEF SaveAllAndClear
      <4>2. QED
        BY <2>1, <3>4, <4>1, PlayerKeeps
    <3>5. QED
      BY <2>2, <3>1, <3>2, <3>3, <3>4 DEF Next
  <2>3. CASE UNCHANGED vars
    <3>1. TypeOK'
      BY <2>1, <2>3 DEF IInv, TypeOK, vars, playerVars, monsterVars, tickVars
    <3>2. QED
      BY <2>1, <2>3, <3>1, MonstersAlone DEF IInv, vars
  <2>4. QED
    BY <2>1, <2>2, <2>3
<1>3. QED
  BY <1>1, <1>2, PTL DEF Spec

\* The variables keep their types.
THEOREM TypeCorrect == Spec => []TypeOK
BY Invariance, PTL DEF IInv

\* A monster without hp is dead and was rewarded once, the others not at all.
THEOREM OneReward == Spec => []KilledOnce
BY Invariance, PTL DEF IInv

\* No monster leaves its ground, and an idle one is at home and healed.
THEOREM GroundKept == Spec => []KeepsItsGround
BY Invariance, PTL DEF IInv

-----------------------------------------------------------------------------
\* Whom a monster turns on, and what players die of.

\* The players that FindNearestPlayer may return are the nearest of all in range,
\* and there is one when anybody is in range.
LEMMA NearestFound ==
  ASSUME TypeOK, NEW m \in Monsters
  PROVE  /\ NearestPlayers(m, AggroRange) \subseteq InAggroRange(m)
         /\ \A p \in NearestPlayers(m, AggroRange), q \in InAggroRange(m) :
              Dist(pos[p], at[m]) <= Dist(pos[q], at[m])
         /\ InAggroRange(m) # {} => NearestPlayers(m, AggroRange) # {}
<1> DEFINE found == {p \in Players : /\ Alive(p)
                                     /\ p \notin leaving
                                     /\ InCellsOfRange(at[m], AggroRange, pos[p])
                                     /\ Dist(at[m], pos[p]) <= AggroRange}
<1>0. at[m] \in Int /\ AggroRange \in Nat
  BY ZoneCombatAssumption DEF TypeOK
<1>1. \A p \in Players : Alive(p) => pos[p] \in Int
  BY ZoneCombatAssumption DEF Alive, Here, TypeOK
<1>2. \A p \in Players : Alive(p) => /\ Dist(at[m], pos[p]) = Dist(pos[p], at[m])
                                     /\ Dist(at[m], pos[p]) \in Nat
  BY <1>0, <1>1, DistNat
<1>3. \A p \in Players : Alive(p) /\ Dist(at[m], pos[p]) <= AggroRange
                           => InCellsOfRange(at[m], AggroRange, pos[p])
  BY <1>0, <1>1, RangeIsCovered
<1>4. InAggroRange(m) = {p \in Players : /\ Alive(p)
                                         /\ p \notin leaving
                                         /\ Dist(pos[p], at[m]) <= AggroRange}
  BY DEF InAggroRange, Alive, Here
<1>5. found = InAggroRange(m)
  BY <1>2, <1>3, <1>4
<1>6. \A p \in found : p \in Players /\ Alive(p)
  OBVIOUS
<1>7. NearestPlayers(m, AggroRange)
        = {p \in found : \A q \in found : Dist(at[m], pos[p]) <= Dist(at[m], pos[q])}
  BY DEF NearestPlayers
<1> HIDE DEF found
<1>8. ASSUME found # {}
      PROVE  NearestPlayers(m, AggroRange) # {}
  <2> DEFINE D == {Dist(at[m], pos[p]) : p \in found}
  <2>1. D \in SUBSET Nat /\ D # {}
    BY <1>2, <1>6, <1>8
  <2>2. \A q \in found : Dist(at[m], pos[q]) \in D
    OBVIOUS
  <2>3. \A n \in D : \E p \in found : n = Dist(at[m], pos[p])
    OBVIOUS
  <2> HIDE DEF D
  <2>4. PICK n \in D : \A k \in D : n <= k
    BY <2>1, LeastNat
  <2>5. PICK p \in found : n = Dist(at[m], pos[p])
    BY <2>3
  <2>6. \A q \in found : Dist(at[m], pos[p]) <= Dist(at[m], pos[q])
    BY <2>2, <2>4, <2>5
  <2>7. QED
    BY <1>7, <2>6
<1>9. \A p \in NearestPlayers(m, AggroRange), q \in found :
        Dist(pos[p], at[m]) <= Dist(pos[q], at[m])
  BY <1>2, <1>6, <1>7
<1>10. QED
  BY <1>5, <1>7, <1>8, <1>9

\* An idle monster turns on the nearest living player in range.
THEOREM NearestChased == Spec => NearestIsChased
<1> DEFINE Right(m) ==
      state[m] = "Idle" /\ m \in todo \ todo' /\ InAggroRange(m) # {} =>
        /\ state'[m] = "Chase"
        /\ target'[m] \in InAggroRange(m)
        /\ \A p \in InAggroRange(m) : Dist(pos[target'[m]], at[m]) <= Dist(pos[p], at[m])
<1>1. ASSUME TypeOK, [Next]_vars, NEW m \in Monsters, state[m] = "Idle",
             m \in todo \ todo', InAggroRange(m) # {}
      PROVE  /\ state'[m] = "Chase"
             /\ target'[m] \in InAggroRange(m)
             /\ \A p \in InAggroRange(m) : Dist(pos[target'[m]], at[m]) <= Dist(pos[p], at[m])
  <2>1. UpdateMonster(m)
    <3>1. CASE StartTick \/ EndTick \/ SaveAllAndClear \/ UNCHANGED vars
      BY <1>1, <3>1 DEF StartTick, EndTick, SaveAllAndClear, vars, tickVars, TypeOK
    <3>2. CASE \E p \in Players : PlayerJob(p)
      BY <1>1, <3>2 DEF PlayerJob, Enter, HandleDisconnect, HandlePortal, PortalSaved, HandleMove,
                        HandleRevive, HandleAttack, HandleSkillCast, tickVars
    <3>3. ASSUME NEW n \in Monsters, UpdateMonster(n)
          PROVE  n = m
      BY <1>1, <3>3 DEF UpdateMonster, StaysDead, RespawnMonster, LooksOut, GivesUp, Chases,
                        GoesHome, Turn
    <3>4. QED
      BY <1>1, <3>1, <3>2, <3>3 DEF Next
  <2>2. LooksOut(m)
    BY <1>1, <2>1 DEF UpdateMonster, StaysDead, RespawnMonster, GivesUp, Chases, GoesHome, Turn
  <2>3. NearestPlayers(m, AggroRange) # {}
    BY <1>1, NearestFound
  <2>4. PICK p \in NearestPlayers(m, AggroRange) : Chosen(m, "Chase", p)
    BY <2>2, <2>3 DEF LooksOut
  <2>5. state'[m] = "Chase" /\ target'[m] = p
    BY <1>1, <2>4 DEF Chosen, TypeOK
  <2>6. QED
    BY <1>1, <2>4, <2>5, NearestFound
<1>2. TypeOK /\ [Next]_vars => \A m \in Monsters : Right(m)
  BY <1>1
<1>3. TypeOK /\ [Next]_vars => [\A m \in Monsters : Right(m)]_vars
  BY <1>2
<1>4. QED
  BY <1>3, TypeCorrect, PTL DEF Spec, NearestIsChased

\* Monsters have turns only while a tick is run.
TurnsInTicks == todo # {} => ticking

\* The jobs of a zone run one at a time, the tick among them.
LEMMA TurnsInTicksOnly == Spec => []TurnsInTicks
<1>1. Init => TurnsInTicks
  BY DEF Init, TurnsInTicks
<1>2. TurnsInTicks /\ [Next]_vars => TurnsInTicks'
  <2>1. SUFFICES ASSUME TurnsInTicks, [Next]_vars
                 PROVE  TurnsInTicks'
    OBVIOUS
  <2>2. CASE StartTick \/ EndTick \/ SaveAllAndClear \/ UNCHANGED vars
    BY <2>1, <2>2 DEF StartTick, EndTick, SaveAllAndClear, vars, tickVars, TurnsInTicks
  <2>3. CASE \E p \in Players : PlayerJob(p)
    <3>1. UNCHANGED <<ticking, todo>>
      BY <2>3 DEF PlayerJob, Enter, HandleDisconnect, HandlePortal, PortalSaved, HandleMove,
                  HandleRevive, HandleAttack, HandleSkillCast, tickVars
    <3>2. QED
      BY <2>1, <3>1 DEF TurnsInTicks
  <2>4. CASE \E m \in Monsters : UpdateMonster(m)
    <3>1. PICK m \in Monsters : m \in todo /\ ticking' = ticking
      BY <2>4 DEF UpdateMonster, StaysDead, RespawnMonster, LooksOut, GivesUp, Chases, GoesHome,
                  Turn
    <3>2. QED
      BY <2>1, <3>1 DEF TurnsInTicks
  <2>5. QED
    BY <2>1, <2>2, <2>3, <2>4 DEF Next
<1>3. QED
  BY <1>1, <1>2, PTL DEF Spec

\* Players lose their last hp to monsters only.
THEOREM MonstersKill == Spec => DieByMonsters
<1> DEFINE Right(p) == Alive(p) /\ pos'[p] # NotHere /\ hp'[p] = 0 => ticking /\ todo' # todo
<1>1. ASSUME TypeOK, TurnsInTicks, [Next]_vars, NEW p \in Players,
             Alive(p), pos'[p] # NotHere, hp'[p] = 0
      PROVE  ticking /\ todo' # todo
  <2>0. /\ PlayerMaxHp \in Nat \ {0} /\ HpRegen \in Nat
        /\ hp \in [Players -> 0..MaxRowHp] /\ hp[p] \in Nat \ {0} /\ Here(p)
        /\ pos \in [Players -> Pos \cup {NotHere}]
    BY <1>1, ZoneCombatAssumption DEF TypeOK, Alive
  <2>1. hp'[p] # hp[p]
    BY <1>1, <2>0
  <2>2. CASE \E m \in Monsters : UpdateMonster(m)
    BY <1>1, <2>2 DEF UpdateMonster, StaysDead, RespawnMonster, LooksOut, GivesUp, Chases,
                      GoesHome, Turn, TurnsInTicks
  <2>3. CASE EndTick
    <3>1. hp' = [q \in Players |-> Regen(q)]
      BY <2>1, <2>3 DEF EndTick
    <3>2. Regen(p) \in Nat \ {0}
      BY <2>0 DEF Regen, Least
    <3>3. QED
      BY <1>1, <3>1, <3>2
  <2>4. ASSUME NEW S \in SUBSET Players, Gone(S)
        PROVE  hp'[p] = hp[p]
    BY <1>1, <2>0, <2>4 DEF Gone
  <2>5. CASE StartTick \/ SaveAllAndClear \/ UNCHANGED vars
    BY <2>1, <2>4, <2>5 DEF StartTick, SaveAllAndClear, vars, playerVars
  <2>6. ASSUME NEW q \in Players, PlayerJob(q)
        PROVE  FALSE
    <3>1. CASE HandleDisconnect(q) \/ PortalSaved(q)
      BY <2>1, <2>4, <3>1 DEF HandleDisconnect, PortalSaved
    <3>2. CASE HandlePortal(q) \/ \E x \in Pos : HandleMove(q, x)
      BY <2>1, <3>2 DEF HandlePortal, HandleMove
    <3>3. CASE \E m \in Monsters : HandleAttack(q, m)
      BY <2>1, <3>3 DEF HandleAttack, playerVars
    <3>4. CASE Enter(q)
      <4>1. q # p
        BY <2>0, <3>4 DEF Enter
      <4>2. QED
        BY <2>0, <2>1, <3>4, <4>1 DEF Enter
    <3>5. CASE HandleRevive(q)
      <4>1. q # p
        BY <1>1, <3>5 DEF HandleRevive
      <4>2. QED
        BY <2>0, <2>1, <3>5, <4>1 DEF HandleRevive
    <3>6. CASE \E skill \in Skills : HandleSkillCast(q, skill)
      <4>1. PICK skill \in Skills : HandleSkillCast(q, skill)
        BY <3>6
      <4>2. skill.hpCost \in Nat
        BY ZoneCombatAssumption DEF Skill
      <4>3. hp' = [hp EXCEPT ![q] = hp[q] - skill.hpCost] /\ CheckSkillCost(q, skill)
        BY <4>1 DEF HandleSkillCast
      <4>4. q = p
        BY <2>0, <2>1, <4>3
      <4>5. hp'[p] = hp[p] - skill.hpCost
        BY <2>0, <4>3, <4>4
      <4>6. QED
        BY <1>1, <2>0, <2>1, <4>2, <4>3, <4>4, <4>5 DEF CheckSkillCost
    <3>7. QED
      BY <2>6, <3>1, <3>2, <3>3, <3>4, <3>5, <3>6 DEF PlayerJob
  <2>7. QED
    BY <1>1, <2>2, <2>3, <2>5, <2>6, <2>1 DEF Next
<1>2. TypeOK /\ TurnsInTicks /\ [Next]_vars => [\A p \in Players : Right(p)]_vars
  BY <1>1
<1>3. QED
  BY <1>2, TypeCorrect, TurnsInTicksOnly, PTL DEF Spec, DieByMonsters
=============================================================================
