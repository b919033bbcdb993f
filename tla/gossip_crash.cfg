SPECIFICATION FairSpec
CONSTANTS
  n1 = n1  n2 = n2  n3 = n3  x = x  y = y  gx = gx  gy = gy  g = g  skill = skill  tool = tool
  Node = {n1, n2}
  Name = {x}
  Kind = {skill}
  Gaid = {gx, g}
  NoGaid = NoGaid
  NoRow = NoRow
  DefaultGaid <- OneName
  Request = {1}
  Seed <- SeedOne
  Reseed <- Mixed
  InitPeers <- FullMesh
  Outsider = Outsider
  Crashable = {n1, n2}
  Lossy = TRUE
  Posted <- Foreign
  Joins = {}
  Declared = {g}
  Observed = {"healthy", "unreachable"}
INVARIANTS StoredBeforeGossip NotifiedPeersBlock
PROPERTIES NameStaysDown ImplementsLedger DeleteAnswered
