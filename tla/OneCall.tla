-------------------------------- MODULE OneCall --------------------------------
(***************************************************************************)
(* calling/base.py, VerificationCaller.verify as the workflow sees it: one *)
(* contract in, at most one ring, and evidence only of a call that is      *)
(* over.  The stages and actions have the names VerificationWorkflow gives *)
(* its worker's stages between a reservation and a record.                 *)
(***************************************************************************)
VARIABLES
  stage,  \* how far the execution is
  line    \* the telephone of the one call

vars == <<stage, line>>

Init == stage = "reserved" /\ line = "idle"

\* Nothing was started, and nothing will be.
PlanFails == stage = "reserved" /\ stage' = "failing" /\ UNCHANGED line

RunCall == stage = "reserved" /\ stage' = "started" /\ line' = "ringing"

NoRunId == stage = "started" /\ stage' = "failing" /\ UNCHANGED line

\* The run's id is persisted, and only then is the run observed.
Attach == stage = "started" /\ stage' = "observing" /\ UNCHANGED line

HangUp == line = "ringing" /\ line' = "over" /\ UNCHANGED stage

ReadCall == stage = "observing" /\ line = "over" /\ stage' = "closed" /\ UNCHANGED line

ObserveFails == stage = "observing" /\ stage' = "failing" /\ UNCHANGED line

Next == PlanFails \/ RunCall \/ NoRunId \/ Attach \/ HangUp \/ ReadCall \/ ObserveFails

Spec == Init /\ [][Next]_vars
=============================================================================
