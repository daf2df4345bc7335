SPECIFICATION CastingFair
CONSTANTS
  bracket = bracket  cover = cover  f1 = f1  f2 = f2  f3 = f3
  step = step  other = other  c1 = c1  c2 = c2
  b1 = b1  b2 = b2  r1 = r1  r2 = r2  r3 = r3
  Items = {bracket, cover}
  Paths = {f1, f2, f3}
  ContentsOf <- Bytes
  FirstFile <- Files
  LaterFiles <- Replacements
  Ids = {c1, c2}
  MaxAttempts = 3
  Scenarios <- All
  Backends = {b1, b2}
  Requests = {r1, r2, r3}
INVARIANTS
  CastingTypeOK
  ResultKeptByPass
  CastingAttemptsBounded
  FreshStarts
PROPERTIES
  ResultFinal
  AnalysisEnds
\* every request is made once, so the system comes to rest
CHECK_DEADLOCK FALSE
