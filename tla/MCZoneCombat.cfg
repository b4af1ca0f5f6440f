SPECIFICATION Spec
CONSTANTS
  p1 = p1
  p2 = p2
  m1 = m1
  m2 = m2
  Players = {p1, p2}
  Monsters = {m1, m2}
  Pos <- Line
  SpawnPos = 0
  HomeOf <- Homes
  CellSize = 2
  MaxHp = 2
  Damage = 1
  AggroRange = 2
  AttackRange = 1
  StopDist = 0
  MaxStep = 1
  Leash = 1
  PlayerRange = 1
  PlayerDamage = 1
  PlayerMaxHp = 1
  HpRegen = 1
  MaxRowHp = 2
  Skills <- Swords
  MaxTargets = 2
  NotHere = NotHere
  NoPlayer = NoPlayer
INVARIANTS
  KilledOnce
  KeepsItsGround
PROPERTIES
  NearestIsChased
  DieByMonsters
  CalmsDown
