SPECIFICATION InProcessSpec
CONSTANTS
  ann = ann  bob = bob  acme = acme  bolt = bolt
  q1 = q1  q2 = q2  q3 = q3  q4 = q4
  AiRequests = {q1, q2, q3, q4}
  Users = {ann, bob}
  Orgs = {acme, bolt}
  Deployment = everyone
  UserOf <- Payer
  OrgOf <- Company
  Limit <- Limits
  MaxConcurrent = 2
  MaxCalls = 2
  MaxTokens = 1
  EngineCalls = {1, 2, 3}
  Threshold = 2
  e1 = e1  e2 = e2
  Engineers = {e1, e2}
  Scenarios = {"steel", "nylon"}
  Molded = {"nylon"}
  MaxRevision = 2
  ApplyStagings <- Stagings
  h1 = h1  h2 = h2  h3 = h3  z1 = z1  z2 = z2
  i1 = i1  i2 = i2  a1 = a1  a2 = a2
  Parses = {h1, h2, h3}
  Unpacks = {z1, z2}
  Tenants = {acme, bolt}
  TenantOf <- Sender
  MaxParses = 2
  MaxShare = 1
  Processes = {i1, i2}
  Arrivals = {a1, a2}
  HomeOf <- Home
INVARIANTS
  WorkersInBudget
CHECK_DEADLOCK FALSE
