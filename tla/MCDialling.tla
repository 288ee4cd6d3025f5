------------------------------ MODULE MCDialling ------------------------------
(***************************************************************************)
(* Two workers and two services of one organization, over two days: who    *)
(* may ring whom, and when.  In some runs a file may move one of the       *)
(* services to another organization.                                       *)
(***************************************************************************)
EXTENDS WorkflowProperties, TLC

CONSTANTS pantry, shelter, partner, other, w1, w2, ownLine, newLine, hours

MCServices == {pantry, shelter}
MCWorkers == {w1, w2}
MCRunBy == [s \in MCServices |-> partner]
MCTwoRunBy == [s \in MCServices |-> IF s = pantry THEN partner ELSE other]
MCDirectoryNumber == [o \in {partner} |-> ownLine]
MCTwoNumbers == [o \in {partner, other} |-> ownLine]
MCFieldsFor == [r \in {} |-> {}]
MCNumberOf == [v \in {hours} |-> newLine]
\* An applied value has no row to go to on the shelter's record.
MCRows == {<<pantry, "schedule">>}
MCCanonical == {<<"schedule", hours>>}
MCImportFiles ==
  {[s \in {pantry} |-> [org |-> other, phone |-> {newLine}, values |-> [f \in {} |-> hours]]]}
MCRequestSets == {{"schedule"}}
MCEventSets == {{}, {"stop_requested"}}

\* Monday to Wednesday, nine to five; once, or twice.
Agreed(number, allowance) ==
  [phone |-> number, weekdays |-> 0 .. 2, earliest |-> 9, latest |-> 17,
   validFrom |-> 0, validUntil |-> 2, maxCalls |-> allowance]
MCConsentTerms == {Agreed(ownLine, 1), Agreed(newLine, 2)}

\* Monday ten o'clock; Tuesday nine and ten, on both sides of the interval and
\* within one workflow of each other.
MCMoments == {10, 33, 34}

WorkerSymmetry == Permutations(MCWorkers)
=============================================================================
