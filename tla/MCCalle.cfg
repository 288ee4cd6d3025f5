SPECIFICATION MCSpec
CONSTANTS
  curator = curator
  editor = editor
  operator = operator
  first = first
  second = second
  Curators = {curator, editor}
  Terminals = {operator}
  Sessions = {first, second}
  Lifetimes = {120, 160}
  FirstPoll = 30
  PollInterval = 30
  MaxWait = 120
  Late = 10
  Elapses = {40}
  Horizon = 640
INVARIANTS
  InTime
  OverInTimeIsRead
  TokenLastsToThePlan
  ForgottenOnlyWhenLoggedIn
PROPERTIES
  VerifyEnds
  ImplementsOneCall
CHECK_DEADLOCK FALSE
