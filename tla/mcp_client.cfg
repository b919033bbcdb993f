SPECIFICATION FairSpec
CONSTANTS
  k1 = k1  k2 = k2  c1 = c1  c2 = c2  s1 = s1  s2 = s2  i1 = i1  i2 = i2
  Client = {k1, k2}
  Call = {c1, c2}
  Exposed <- TwoManifests
  MaxVersion = 2
  NoCall = NoCall
  Stream = {s1, s2}
  Id = {i1}
  Mcp = k1
  Direct <- Fallbacks
  Called <- OfEverySort
  None = None
CHECK_DEADLOCK FALSE
INVARIANTS OwnDiscoveryIsFresh ToolsReachRoutes SessionsTrackStreams
PROPERTIES CallsEnd
