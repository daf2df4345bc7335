SPECIFICATION ElectronicsSpec
CONSTANTS
  board = board  changed = changed
  b1 = b1  b2 = b2  r1 = r1  r2 = r2  r3 = r3
  MaxJobs = 3
  Uploads = {r1, r2, r3}
  Requests = {r1, r2, r3}
  Contents = {board, changed}
  MaxAttempts = 2
  Backends = {b1, b2}
  Scenarios <- StuckReading
INVARIANTS
  NeverStuck
CHECK_DEADLOCK FALSE
