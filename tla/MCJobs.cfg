SPECIFICATION JobsFairSpec
CONSTANTS
  pantry = pantry
  shelter = shelter
  partner = partner
  curator = curator
  answer = answer
  Fields = {"schedule"}
  Values = {answer}
  NeverAutoApply = {}
  NoValue = NoValue
  Removals <- MCRemovals
  Canonical <- MCCanonical
  Telephony = {"completed", "voicemail"}
  EventSets <- MCEventSets
  Services = {pantry, shelter}
  Organizations = {partner}
  RunBy <- MCRunBy
  Reasons = {}
  FieldsFor <- MCFieldsFor
  RequestSets <- MCRequestSets
  RoutineFields = {"schedule"}
  AgedFields = {}
  MaxTasks = 1
  Curators = {curator}
  JobsKept = 1
  DailyLimit = 1
  LiveCalling = FALSE
  JobHours = 3
  Moments <- MCMoments
  MaxJobs = 2
INVARIANTS
  JobsTypeOK
  OneCallPerTask
  BudgetHolds
  RunningIsListed
  LockedTasksAreHeld
PROPERTIES
  JobsEnd
CHECK_DEADLOCK FALSE
