SPECIFICATION ReadingSpec
CONSTANTS
  Fields = {"schedule"}
  Values <- MCValues
  NeverAutoApply = {}
  NoValue = NoValue
  Removals <- MCRemovals
  Canonical <- MCCanonical
  Telephony = {"completed"}
  EventSets <- MCEventSets
  RecordValue <- MCRecord
  Utterances <- MCSaidMore
  Accounts <- MCAccounts
  MaxTurns = 5
INVARIANT ReadBackSaysNothingElse
CHECK_DEADLOCK FALSE
