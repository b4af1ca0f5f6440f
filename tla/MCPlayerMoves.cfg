SPECIFICATION Spec
CONSTANTS
  MAX_MOVE_SPEED = 1
  Second = 2
  Step = 1
  Places <- Line
  Spawn = 0
  NotFinite = NotFinite
  REVIVE_INTERVAL = 2
  MaxDelay = 1
  MaxDown = 2
  MaxUp = 1
INVARIANTS
  SpeedBounded
  HonestIsBelieved
  AgreeWhenQuiet
PROPERTIES
  Revives
