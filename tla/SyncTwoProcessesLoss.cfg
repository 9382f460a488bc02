SPECIFICATION Spec
CONSTANTS
  svc = svc
  cli = cli
  hb = hb
  inv = inv
  sw = sw
  cmd = cmd
  None = None
  Service = svc
  Heartbeat = hb
  Procs = {svc, cli}
  Threads = {hb, cmd}
  ProcOf <- TwoProcs
  Retries = 0
  FlushLimit = 2
  MaxQueued = 2
  Refused = {}
INVARIANTS
  AcceptedNotLost
