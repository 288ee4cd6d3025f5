SPECIFICATION ReadingSpec
CONSTANTS
  Fields = {"schedule"}
  Values <- MCValues
  NeverAutoApply = {}
  NoValue = NoValue
  Removals <- MCRemovals
  Canonical <- MCCanonical
  Telephony = {"completed"}
  EventSets <- MCEventSets
  RecordValue <- MCRecord
  Utterances <- MCUtterances
  Accounts <- MCAccounts
  MaxTurns = 5
INVARIANTS
  ScheduleTypeOK
  ReadBackWasAgreed
  UnattendedWasAgreed
  ProposesOneSession
PROPERTIES
  OnlyTheProviderSettles
  AccountOnlyRemoves
  ReadsAsAssumed
CHECK_DEADLOCK FALSE
