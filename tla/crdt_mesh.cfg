SPECIFICATION FairSpec
CONSTANTS
  n1 = n1  n2 = n2  agent = agent  skill = skill  x = x  y = y  b1 = b1  b2 = b2
  Node = {n1, n2}
  Kind = {agent, skill}
  DefaultKind = agent
  Name = {x, y}
  Unknown = Unknown
  Absent = Absent
  Body = {b1, b2}
  NoRow = NoRow
  NoEntry = NoEntry
  Hash <- Collide
  Sent <- Bodies
  Crashable = {n2}
  Lossy = {n1}
  MaxWrites = 2
INVARIANTS SameMessagesSameListing
PROPERTIES StoredStaysResolvable GossipArrives ImplementsListing
