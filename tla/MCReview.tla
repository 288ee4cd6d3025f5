------------------------------- MODULE MCReview -------------------------------
(***************************************************************************)
(* One service with two fields, one worker and the people around it: what  *)
(* may move the record, its assurance date and its open reports.           *)
(***************************************************************************)
EXTENDS WorkflowProperties

CONSTANTS pantry, partner, worker, listed, old, new

MCServices == {pantry}
MCRunBy == [s \in MCServices |-> partner]
MCDirectoryNumber == [o \in {partner} |-> listed]
MCFieldsFor == [r \in {"closed", "wrong_hours"} |->
                  IF r = "closed" THEN {"status", "schedule"} ELSE {"schedule"}]
MCNumberOf == [v \in {old, new} |-> listed]
MCRows == {pantry} \X {"schedule", "status"}
\* `new` is an answer for the hours and a closure for the status.
MCRemovals == {<<"status", new>>}
MCCanonical == {"schedule", "status"} \X {old, new}
MCRequestSets == {{"schedule"}}
MCEventSets == {{}, {"no_disclosure"}, {"stop_requested"}}
MCConsentTerms ==
  {[phone |-> listed, weekdays |-> 0 .. 6, earliest |-> 0, latest |-> 23,
    validFrom |-> 0, validUntil |-> 9, maxCalls |-> 2]}
MCImportFiles ==
  {[s \in {pantry} |->
      [org |-> partner, phone |-> {}, values |-> [f \in {"schedule"} |-> new]]]}
\* Two days in a row, so that one retry falls due.
MCMoments == {10, 34}
=============================================================================
