SPECIFICATION FairSpec
CONSTANTS
  a1 = a1
  a2 = a2
  b = b
  inventory = inventory
  software = software
  svc = svc
  cmd = cmd
  None = None
  Inventory = inventory
  Values = {a1, a2, b}
  Fingerprint <- Hash
  TimelineCap = 2
  Scenarios <- AllScenarios
INVARIANTS
  TypeOK
  SkipIsIdenticalUndisturbed
  RecordsWereReported
  DiffAgainstPrevious
  TimelineMatchesHistory
  
PROPERTIES
  PortalConverges
