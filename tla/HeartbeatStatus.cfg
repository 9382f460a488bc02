SPECIFICATION FairSpec
CONSTANTS
  None = None
  Second = 2
  Int64 = 8
  DefaultInterval = 2
  MaxWork = 1
  AgeCap = 7
  Configs <- UsableConfigs
INVARIANTS
  TypeOK
  RestartNotSilent
  NoFalseOffline
  OnlineMeansAlive
  StatusOfLastCycle
PROPERTIES
  StopCarriedOut
  StaysOnline
