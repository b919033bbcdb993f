SPECIFICATION FairSpec
CONSTANTS
  p1 = p1  p2 = p2  a = a  b1 = b1  b2 = b2  c = c
  Peer = {p1, p2}
  PeerList <- TwoPeers
  Slow = {p1}
  Round = {1, 2}
  Query = {1}
  Resource = {a, b1, b2, c}
  Key = {a, b1, c}
  KeyOf <- Names
  Local <- LocalPage
  Hits <- SomeHits
INVARIANTS MergedOnce
PROPERTIES StatusFollowsPeer QueryAnswered
