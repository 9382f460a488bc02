SPECIFICATION Spec
CONSTANTS
  svc = svc
  cli = cli
  system = system
  admin = admin
  None = None
  Service = svc
  Procs = {svc}
  May <- OnlyRegisters
  Accounts = {system, admin}
  Account <- SystemOnly
  Retries = 0
  MaxDelay = 5
  MaxIssued = 1
  MaxRev = 1
INVARIANTS
  HeartbeatAfterRegistration
