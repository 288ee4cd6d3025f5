SPECIFICATION Spec
CONSTANTS
  pantry = pantry
  partner = partner
  worker = worker
  listed = listed
  old = old
  new = new
  Fields = {"schedule", "status"}
  Values = {old, new}
  NeverAutoApply = {"status"}
  NoValue = NoValue
  Removals <- MCRemovals
  Canonical <- MCCanonical
  Telephony = {"completed", "voicemail"}
  EventSets <- MCEventSets
  Services <- MCServices
  Organizations = {partner}
  RunBy <- MCRunBy
  Reasons = {"closed", "wrong_hours"}
  FieldsFor <- MCFieldsFor
  RequestSets <- MCRequestSets
  RoutineFields = {"schedule"}
  AgedFields = {"status"}
  MaxTasks = 2
  Numbers = {listed}
  Allowlist = {listed}
  MinimumIntervalDays = 1
  ConsentTerms <- MCConsentTerms
  DirectoryNumber <- MCDirectoryNumber
  MaxConsents = 1
  MaxCalls = 2
  Rows <- MCRows
  PhoneField = "phone"
  ImportFiles <- MCImportFiles
  ImportFields = {"schedule"}
  NumberOf <- MCNumberOf
  Workers = {worker}
  Moments <- MCMoments
  WorkflowHours = 3
  MayCrash = FALSE
INVARIANTS
  OneOpenTaskPerService
  NoStrandedReview
PROPERTIES
  RecordMovesOnlyByEvidence
  AssuranceNeedsCoverage
CHECK_DEADLOCK FALSE
