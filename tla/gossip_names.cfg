SPECIFICATION Spec
CONSTANTS
  n1 = n1  n2 = n2  n3 = n3  x = x  y = y  gx = gx  gy = gy  g = g  skill = skill  tool = tool
  Node = {n1}
  Name = {x, y}
  Kind = {skill, tool}
  Gaid = {gx, gy, g}
  NoGaid = NoGaid
  NoRow = NoRow
  DefaultGaid <- TwoNames
  Request = {1}
  Seed <- SeedDeclared
  Reseed <- Anew
  InitPeers <- FullMesh
  Outsider = Outsider
  Crashable = {n1}
  Lossy = TRUE
  Posted <- Foreign
  Joins <- SelfJoin
  Declared = {NoGaid, g}
  Observed = {"healthy"}
PROPERTIES GaidReturnsOnlyByUpdate DeletedMeansRevoked
