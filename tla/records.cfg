SPECIFICATION Spec
CONSTANTS
  skill = skill  tool = tool  x = x  y = y  g = g  speed = speed  quality = quality
  m = m  unknown = unknown
  Kind = {skill, tool}
  Name = {x, y}
  Gaid = {g}
  Dimension = {speed, quality}
  Score <- Thousandths
  Scale = 1000
  SeedFile <- OneInFile
  Given <- TwoRatings
  Model = {m, unknown}
  NoModel = NoModel
  Unknown = unknown
  Token = {1}
  Limit = 1
  NoRow = NoRow
  SeedResources <- TwoSeeded
  SeedFeedback <- OneRating
  SeedUsage <- OneUsage
  SeedAttestations <- OneStatement
  SeedAudit <- OneEvent
  MaxRows = 2
  MaxCuts = 2
  MaxAudit = 2
  MaxIds = 3
  NoReader = NoReader
INVARIANTS TypeOK AuditTellsState PagedReadComplete ReputationInRange AnalyticsAddUp
