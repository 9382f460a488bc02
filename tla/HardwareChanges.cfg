SPECIFICATION Spec
CONSTANTS
  None = None
  Hostname = "PC1"
  Machines <- Notebook
  Failures <- SomeFail
  Readings <- Kept
INVARIANTS
  TypeOK
  SkipHidesNothing
  VolatileNotReported
  ChangeExplained
  AdapterOnce
  WorseNeverBetter
