SPECIFICATION Spec
CONSTANTS
  n1 = n1  n2 = n2  n3 = n3  x = x  y = y  gx = gx  gy = gy  g = g  skill = skill  tool = tool
  Node = {n1, n2}
  Name = {x}
  Kind = {skill}
  Gaid = {gx, g}
  NoGaid = NoGaid
  NoRow = NoRow
  DefaultGaid <- OneName
  Request = {1}
  Seed <- SeedOne
  Reseed <- Never
  InitPeers <- FullMesh
  Outsider = Outsider
  Crashable = {n1, n2}
  Lossy = TRUE
  Posted = {}
  Joins = {}
  Declared = {NoGaid, g}
  Observed = {"healthy", "unreachable"}
PROPERTIES RevokedIsNotReRegistered
