SPECIFICATION Spec
CONSTANTS
  Confidence = {0, 1, 49, 50, 89, 90}
  NoRow = NoRow
INVARIANTS StoredTierIsEarned AnswerTellsStored
PROPERTIES TierNeverRaised
\* the handler ends with its answer
CHECK_DEADLOCK FALSE
