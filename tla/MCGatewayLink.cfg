SPECIFICATION Spec
CONSTANTS
  MaxGen = 3
  MaxSessions = 2
  MaxFaults = 2
  MaxQueue = 2
  SendersFinish = TRUE
  LoadsFinish = TRUE
  Nothing = Nothing
INVARIANTS
  TypeOK
  LinkIsDriven
  
  
PROPERTIES
  Registers
CHECK_DEADLOCK FALSE
