SPECIFICATION Spec
CONSTANTS
  u1 = u1  u2 = u2  s1 = s1  s2 = s2  p1 = p1  p2 = p2
  w1 = w1  w2 = w2  b1 = b1  b2 = b2  r1 = r1  r2 = r2  r3 = r3
  Uploads = {u1}
  Sources = {s1}
  SourceOf <- OwnSource
  Parts = {p1, p2}
  Lines <- TwoLines
  Items <- FiveItems
  MaxAttempts = 2
  Faults = {"error", "short", "unsaved", "crash"}
  Runners = {w1, w2}
  Backends = {b1, b2}
  RustCore = TRUE
  Requests = {r1, r2, r3}
SYMMETRY Symmetric
INVARIANTS
  ItemsAccounted
  SourceKept
  OneAttempt
  AttemptsBounded
  AnalysedHasParts
PROPERTIES
  DoneTreeWhole
  NeverInterrupted
  KeepsLifecycle
\* requests are made once each, so the system comes to rest
CHECK_DEADLOCK FALSE
