SPECIFICATION FairSpec
CONSTANTS
  svc = svc
  cli = cli
  hb = hb
  inv = inv
  sw = sw
  cmd = cmd
  None = None
  Service = svc
  Heartbeat = hb
  Procs = {svc}
  Threads = {hb, inv, sw}
  ProcOf <- OneProc
  Retries = 3
  FlushLimit = 2
  MaxQueued = 5
  Refused = {4}
INVARIANTS
  TypeOK
  AcceptedNotLost
  DuplicateOnlyAtHead
  PassIsQueuePrefix
PROPERTIES
  FlushFIFO
  ImplementsDelivery
  QueueDrains
