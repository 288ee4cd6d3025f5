SPECIFICATION RulesSpec
CONSTANTS
  said = said
  other = other
  ownLine = ownLine
  Fields = {"schedule", "status"}
  Values = {said, other}
  NeverAutoApply = {"status"}
  NoValue = NoValue
  Removals <- MCRemovals
  Canonical <- MCCanonical
  Telephony = {"completed", "voicemail"}
  EventSets <- MCEventSets
  Phrasings <- MCPhrasings
  Numbers = {ownLine}
  Allowlist = {ownLine}
  MinimumIntervalDays = 2
  OfferedTerms <- MCOfferedTerms
  Number = ownLine
  LastHour = 215
INVARIANTS
  AppliesOnlyEstablished
  NothingIsForgotten
  OfferedToTheWorkflow
  PermittedAsAgreed
PROPERTIES
  SafetyNeverSoftens
  ChargesTheSoonestToExpire
CHECK_DEADLOCK FALSE
