SPECIFICATION FairSpec
CONSTANTS
  n1 = n1  n2 = n2  n3 = n3  x = x  y = y  gx = gx  gy = gy  g = g  skill = skill  tool = tool
  Node = {n1, n2, n3}
  Name = {x}
  Kind = {skill}
  Gaid = {gx}
  NoGaid = NoGaid
  NoRow = NoRow
  DefaultGaid <- OneName
  Request = {}
  Seed <- SeedTwo
  Reseed <- Never
  InitPeers <- FullMesh
  Outsider = Outsider
  Crashable = {}
  Lossy = FALSE
  Posted <- Apt
  Joins = {}
  Declared = {NoGaid}
  Observed = {"healthy"}
PROPERTIES EveryPeerBlocks
