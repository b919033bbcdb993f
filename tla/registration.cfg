SPECIFICATION FairSpec
CONSTANTS
  a = a  b = b  r = r
  Node = {a, b, r}
  EnvPeers <- Compose
  MaxHops = 2
  NoRow = NoRow
  NoHop = NoHop
  NotANumber = NotANumber
  Post <- Introductions
  Crashable = {a, r}
  Lossy = FALSE
INVARIANTS HopsBounded
PROPERTIES OwnPeerOnlyByName EnvPeersListed PeerListsBack
