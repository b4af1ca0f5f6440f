SPECIFICATION Safety
CONSTANTS
  p1 = p1
  p2 = p2
  s1 = s1
  s2 = s2
  s3 = s3
  Zones = {a, b}
  HomeZone = a
  Players = {p1}
  Sessions = {s1, s2}
  PlayerOf <- Owners
  Slices = {0}
  SliceOf <- AllOfSlice
  MaxExp = 1
  MaxTasks = 2
  MaxNet = 3
  MaxReady = 1
  FailKinds = {"load"}
  SelectWhileLeaving = TRUE
  NoPlayer = NoPlayer
  NoSession = NoSession
  NoZone = NoZone
  NotHere = NotHere
INVARIANTS
  BindingReleasedAfterSave
CHECK_DEADLOCK FALSE
