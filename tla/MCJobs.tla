-------------------------------- MODULE MCJobs --------------------------------
(***************************************************************************)
(* Two services, one curator, visitors and a registry that keeps one job,  *)
(* over a midnight and the day after it.                                   *)
(***************************************************************************)
EXTENDS VerificationJobs

CONSTANTS pantry, shelter, partner, curator, answer

MCRunBy == [s \in {pantry, shelter} |-> partner]
MCFieldsFor == [r \in {} |-> {}]
MCRequestSets == {{"schedule"}}
MCEventSets == {{}}
MCCanonical == {<<"schedule", answer>>}
MCRemovals == {}
\* The last hour of one day and of the next, at which the first retry falls due.
MCMoments == {23, 47}
=============================================================================
