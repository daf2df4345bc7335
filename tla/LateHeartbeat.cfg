SPECIFICATION SignedInSpec
CONSTANTS
  board = board  changed = changed
  b1 = b1  b2 = b2  r1 = r1  r2 = r2  r3 = r3
  MaxJobs = 3
  Uploads = {r1, r2, r3}
  Requests = {r1, r2, r3}
  Contents = {board, changed}
  MaxAttempts = 2
  Backends = {b1, b2}
  Scenarios <- All
  i1 = i1  i2 = i2  t1 = t1  t2 = t2
  IdleTimeout = 3
  WarningTime = 1
  JobExtension = 1
  JobGrace = 2
  UserBeat = 1
  JobBeat = 1
  LastTime = 5
  Instances = {i1, i2}
  Tabs = {t1, t2}
  SessionScenarios <- SessionScenes
INVARIANTS
  NeverRevived
CHECK_DEADLOCK FALSE
