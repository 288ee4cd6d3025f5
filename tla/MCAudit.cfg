SPECIFICATION AuditSpec
CONSTANTS
  server = server
  shell = shell
  Processes = {server, shell}
  Events = {"change", "decision"}
  MaxEvents = 4
  MaxRewrites = 2
INVARIANTS
  IntactLedgerVerifies
  PastIsFixed
  BreakIsNamed
CHECK_DEADLOCK FALSE
