SPECIFICATION FairSpec
CONSTANTS
  a = a  b = b  c = c  x = x  y = y  z = z  shared = shared  bx = bx  by = by  bz = bz
  Node = {a, b, c}
  PeerList <- PairAndRing
  Name = {x, y, z}
  Gaid = {shared, bx, by, bz}
  Looked = {shared}
  Bare <- BareNames
  First <- FirstX
  Final <- FinalY
  NoGaid = NoGaid
  Seed <- SeedFar
  Origin = {a}
  Watched = {a}
  Deleting = {c}
  Offered <- OneAtB
  NoRequest = NoRequest
  MaxHops = 4
CHECK_DEADLOCK FALSE
INVARIANTS TypeOK AnswersAreTrue NotFoundMeansNotHosted RevokedGaidReported
PROPERTIES RequestsAnswered
