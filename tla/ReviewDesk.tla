------------------------------ MODULE ReviewDesk ------------------------------
(***************************************************************************)
(* store.py: the directory record and what may move it: verification_runs, *)
(* proposed_changes, safety_flags, and a curator's decisions about them.   *)
(*                                                                         *)
(* A run is named by the call it records: the workflow records a call at   *)
(* most once.  A proposal is named by its run and field, which is unique   *)
(* (one claim per field), and a flag by its run and cause.                 *)
(***************************************************************************)
EXTENDS CallLedger, CallEvidence

CONSTANTS
  Rows,        \* the <<service, field>> pairs _apply_change has a row to write
  PhoneField,  \* the field that holds a service's own number
  NumberOf     \* value -> normalise_number of it

ASSUME DeskAssumption ==
  /\ Rows \subseteq Services \X Fields
  /\ NumberOf \in [Values -> Numbers]

VARIABLES
  record,     \* record[s][f]: what the directory publishes
  assured,    \* services.assured_date, as a day
  runs,       \* verification_runs
  proposals,  \* proposed_changes
  flags       \* flags[c]: the causes of the open safety flags of run c

deskVars == <<record, assured, runs, proposals, flags>>

Run == [status: {"needs_review", "completed"}, outcome: Outcomes, tier: Authority,
        asked: SUBSET Fields, covered: SUBSET Fields]

ProposalStatuses == {"applied", "pending", "approved", "rejected", "edited"}
Proposal == [status: ProposalStatuses, value: Values]
NoProposal == [status |-> "none"]

Causes == EventKinds \cup {"suppress", "missing", "nothing"}

DeskTypeOK ==
  /\ record \in [Services -> [Fields -> Values]]
  /\ assured \in [Services -> Nat]
  /\ runs \in [CallIds -> Run \cup {NoRow}]
  /\ proposals \in [CallIds -> [Fields -> Proposal \cup {NoProposal}]]
  /\ flags \in [CallIds -> SUBSET Causes]

DeskInit ==
  /\ \E v \in Values : record = [s \in Services |-> [f \in Fields |-> v]]
  /\ assured = [s \in Services |-> 0]
  /\ runs = [c \in CallIds |-> NoRow]
  /\ proposals = [c \in CallIds |-> [f \in Fields |-> NoProposal]]
  /\ flags = [c \in CallIds |-> {}]

-----------------------------------------------------------------------------

\* contract_for: the number on the service's own record if it has one, else that
\* of the organization that runs it now.  Which consent covers the call does not
\* depend on either.
Destination(s) ==
  IF <<s, PhoneField>> \in Rows
  THEN NumberOf[record[s][PhoneField]]
  ELSE publicPhone[organizationOf[s]]

ServiceOfCall(c) == ServiceOf(calls[c].task)
HasRun(c) == runs[c].status # "unused"
Pending(c) == {f \in Fields : proposals[c][f].status = "pending"}
Undecided(c) == Pending(c) # {} \/ flags[c] # {}

\* _apply_change writes a value only into a row that exists, and only in
\* canonical form: the one path into the record.
Writable(s, field, value) == <<s, field>> \in Rows /\ <<field, value>> \in Canonical

\* record_verification applies a claim only if nothing in the call is pending.
VerdictOn(c, decisions) ==
  (CHOOSE d \in decisions : OnClaim(d) /\ d.field = c.field).authority

Decided(e, decisions) ==
  {c \in e.claims : \E d \in decisions : OnClaim(d) /\ d.field = c.field}

\* Fault: a claim is applied beside another that is pending.
AppliedClaimByClaim(e, decisions) ==
  {c \in Decided(e, decisions) : VerdictOn(c, decisions) = APPLY}

Applied(e, decisions) ==
  IF NeedsAPerson(decisions) THEN {}
  ELSE {c \in Decided(e, decisions) : VerdictOn(c, decisions) = APPLY}

WritesAllApplied(s, e, decisions) ==
  \A c \in Applied(e, decisions) : Writable(s, c.field, c.value)

ProposalsOf(e, decisions) ==
  [f \in Fields |->
     IF \E c \in Decided(e, decisions) : c.field = f
     THEN LET c == CHOOSE c \in Decided(e, decisions) : c.field = f
          IN  [status |-> IF c \in Applied(e, decisions) THEN "applied" ELSE "pending",
               value |-> c.value]
     ELSE NoProposal]

\* Fault: only a STOP verdict leaves a flag.
FlagsOfStops(decisions) ==
  {d.cause : d \in {x \in decisions : ~OnClaim(x) /\ x.authority > REVIEW}}

FlagsOf(decisions) ==
  {d.cause : d \in {x \in decisions : ~OnClaim(x) /\ x.authority >= REVIEW}}

\* The directory's half of record_verification, for the call c about s.
WriteRun(c, s, asked, e, decisions) ==
  LET pending == NeedsAPerson(decisions)
      applied == Applied(e, decisions)
  IN  /\ runs' = [runs EXCEPT ![c] =
           [status |-> IF pending THEN "needs_review" ELSE "completed",
            outcome |-> e.outcome, tier |-> Overall(decisions),
            asked |-> asked, covered |-> Covered(e)]]
      /\ proposals' = [proposals EXCEPT ![c] = ProposalsOf(e, decisions)]
      /\ flags' = [flags EXCEPT ![c] = FlagsOf(decisions)]
      /\ record' = [record EXCEPT ![s] =
           [f \in Fields |-> IF \E a \in applied : a.field = f
                             THEN (CHOOSE a \in applied : a.field = f).value
                             ELSE @[f]]]
      /\ assured' = IF ReachedSomeone(e) /\ (e.confirmed # {} \/ applied # {}) /\ ~pending
                    THEN [assured EXCEPT ![s] = Day(now)]
                    ELSE assured

-----------------------------------------------------------------------------

\* Fault: the questions left open are not looked at.
EarnsAssuranceUnlessRejected(c, required, rejected) ==
  /\ runs[c].outcome = "completed"
  /\ runs[c].tier < STOP
  /\ ~rejected

\* The condition under which a reviewed run moves the assurance date.
EarnsAssurance(c, required, rejected) ==
  /\ runs[c].outcome = "completed"
  /\ runs[c].tier < STOP
  /\ ~rejected
  /\ required \subseteq runs[c].covered

\* _complete_reviewed_run, after the decision that leaves `proposal` and `open`
\* as the run's proposals and open flags.
FinishReview(c, proposal, open) ==
  LET t == calls[c].task
      s == ServiceOf(t)
      undecided == open # {} \/ \E f \in Fields : proposal[f].status = "pending"
      rejected == \E f \in Fields : proposal[f].status = "rejected"
      earned == EarnsAssurance(c, tasks[t].fields, rejected)
  IN  IF undecided
      THEN UNCHANGED <<runs, assured, queueVars>>
      ELSE /\ runs' = [runs EXCEPT ![c].status = "completed"]
           /\ CompleteTask(t) /\ UNCHANGED organizationOf
           /\ IF earned
              THEN assured' = [assured EXCEPT ![s] = Day(now)] /\ ResolveReports(s)
              ELSE UNCHANGED <<assured, reports>>

Decide(c, field, status, value) ==
  LET proposal == [proposals[c] EXCEPT ![field] = [status |-> status, value |-> value]]
  IN  /\ proposals' = [proposals EXCEPT ![c] = proposal]
      /\ FinishReview(c, proposal, flags[c])
      /\ UNCHANGED <<flags, ledgerVars>>

Publish(c, field, value) ==
  /\ Writable(ServiceOfCall(c), field, value)
  /\ record' = [record EXCEPT ![ServiceOfCall(c)][field] = value]

\* resolve_decision: approve, edit, reject or acknowledge.
Approve(c, field) ==
  /\ field \in Pending(c)
  /\ Publish(c, field, proposals[c][field].value)
  /\ Decide(c, field, "approved", proposals[c][field].value)

Edit(c, field, value) ==
  /\ field \in Pending(c)
  /\ Publish(c, field, value)
  /\ Decide(c, field, "edited", value)

Reject(c, field) ==
  /\ field \in Pending(c)
  /\ Decide(c, field, "rejected", proposals[c][field].value)
  /\ UNCHANGED record

Acknowledge(c, cause) ==
  /\ cause \in flags[c]
  /\ flags' = [flags EXCEPT ![c] = @ \ {cause}]
  /\ FinishReview(c, proposals[c], flags[c] \ {cause})
  /\ UNCHANGED <<record, proposals, ledgerVars>>

\* correct_applied_change: the run and its task are left as they are.
CorrectApplied(c, field, value) ==
  /\ proposals[c][field].status = "applied"
  /\ Publish(c, field, value)
  /\ proposals' = [proposals EXCEPT ![c][field] = [status |-> "edited", value |-> value]]
  /\ UNCHANGED <<assured, runs, flags, queueVars, ledgerVars>>
=============================================================================
