SPECIFICATION Spec
CONSTANTS
  svc = svc
  cli = cli
  system = system
  admin = admin
  None = None
  Service = svc
  Procs = {cli}
  May <- Commands
  Accounts = {system, admin}
  Account <- AdminOnly
  Retries = 1
  MaxDelay = 5
  MaxIssued = 2
  MaxRev = 3
INVARIANTS
  VersionNotAhead
