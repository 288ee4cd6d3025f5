SPECIFICATION FairSpec
CONSTANTS
  pantry = pantry
  shelter = shelter
  partner = partner
  other = other
  w1 = w1
  w2 = w2
  ownLine = ownLine
  newLine = newLine
  hours = hours
  Fields = {"schedule"}
  Values = {hours}
  NeverAutoApply = {}
  NoValue = NoValue
  Removals = {}
  Canonical <- MCCanonical
  Telephony = {"completed", "no_answer"}
  EventSets <- MCEventSets
  Services <- MCServices
  Organizations = {partner}
  RunBy <- MCRunBy
  Reasons = {}
  FieldsFor <- MCFieldsFor
  RequestSets <- MCRequestSets
  RoutineFields = {"schedule"}
  AgedFields = {}
  MaxTasks = 1
  Numbers = {ownLine, newLine}
  Allowlist = {ownLine, newLine}
  MinimumIntervalDays = 1
  ConsentTerms <- MCConsentTerms
  DirectoryNumber <- MCDirectoryNumber
  MaxConsents = 1
  MaxCalls = 1
  Rows <- MCRows
  PhoneField = "phone"
  ImportFiles = {}
  ImportFields = {"schedule"}
  NumberOf <- MCNumberOf
  Workers <- MCWorkers
  Moments <- MCMoments
  WorkflowHours = 3
  MayCrash = TRUE
PROPERTIES
  StartedCallsAreRead
CHECK_DEADLOCK FALSE
