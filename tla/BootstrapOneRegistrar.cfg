SPECIFICATION FairSpec
CONSTANTS
  svc = svc
  cli = cli
  system = system
  admin = admin
  None = None
  Service = svc
  Procs = {svc, cli}
  May <- ServiceAndReload
  Accounts = {system, admin}
  Account <- SameAccount
  Retries = 1
  MaxDelay = 3
  MaxIssued = 2
  MaxRev = 1
INVARIANTS
  TypeOK
  CredentialsMatch
PROPERTIES
  UuidStable
  KeySpentAfterSave
  BootstrapCompletes
