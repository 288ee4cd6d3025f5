SPECIFICATION Spec
CONSTANTS
  pantry = pantry
  shelter = shelter
  partner = partner
  other = other
  w1 = w1
  w2 = w2
  ownLine = ownLine
  newLine = newLine
  hours = hours
  Fields = {"schedule"}
  Values = {hours}
  NeverAutoApply = {}
  NoValue = NoValue
  Removals = {}
  Canonical <- MCCanonical
  Telephony = {"completed", "no_answer"}
  EventSets <- MCEventSets
  Services <- MCServices
  Organizations = {partner, other}
  RunBy <- MCTwoRunBy
  Reasons = {}
  FieldsFor <- MCFieldsFor
  RequestSets <- MCRequestSets
  RoutineFields = {"schedule"}
  AgedFields = {}
  MaxTasks = 1
  Numbers = {ownLine, newLine}
  Allowlist = {ownLine, newLine}
  MinimumIntervalDays = 1
  ConsentTerms <- MCConsentTerms
  DirectoryNumber <- MCTwoNumbers
  MaxConsents = 2
  MaxCalls = 2
  Rows <- MCRows
  PhoneField = "phone"
  ImportFiles <- MCImportFiles
  ImportFields = {"schedule"}
  NumberOf <- MCNumberOf
  Workers = {w1}
  Moments <- MCMoments
  WorkflowHours = 3
  MayCrash = FALSE
PROPERTIES
  StoppedServicesGetNoCall
CHECK_DEADLOCK FALSE
