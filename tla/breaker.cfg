SPECIFICATION FairBreakerSpec
CONSTANTS
  Url = {u1, u2}
  MaxFailures = 3
  ResetTimeout = 2
  MaxInFlight = 3
  NoState = NoState
INVARIANTS OpenMeansTripped OverrunBounded
PROPERTIES StaysOpen Reopens
