SPECIFICATION Spec
CONSTANTS
  p1 = p1
  p2 = p2
  s1 = s1
  s2 = s2
  s3 = s3
  Zones = {a}
  HomeZone = a
  Players = {p1}
  Sessions = {s1, s2}
  PlayerOf <- Owners
  Slices = {0}
  SliceOf <- AllOfSlice
  MaxExp = 0
  MaxTasks = 2
  MaxNet = 2
  MaxReady = 2
  FailKinds = {"load", "portal"}
  SelectWhileLeaving = TRUE
  NoPlayer = NoPlayer
  NoSession = NoSession
  NoZone = NoZone
  NotHere = NotHere
PROPERTIES
  NoEntryDuringPortalSave
  EverythingAnswered
  ShutdownCompletes
CHECK_DEADLOCK FALSE
