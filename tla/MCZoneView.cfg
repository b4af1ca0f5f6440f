SPECIFICATION Spec
CONSTANTS
  p1 = p1
  p2 = p2
  m1 = m1
  Players = {p1, p2}
  Monsters = {m1}
  Cells <- Map
  ReviveCell <- Spawn
  HomeOf <- Home
  NotHere = NotHere
SYMMETRY Characters
INVARIANTS
  GridsAreExact
  ViewIsExact
