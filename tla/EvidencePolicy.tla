---------------------------- MODULE EvidencePolicy ----------------------------
(***************************************************************************)
(* policy/evidence_policy.py: what the evidence of one call permits.       *)
(*                                                                         *)
(* Evidence is what build_evidence (evidence/reconcile.py) hands over:     *)
(*   [outcome, events, claims, confirmed]                                  *)
(* with at most one claim per field and no field both claimed and          *)
(* confirmed (CallEvidence.one_claim_per_field).  A claim is               *)
(*   [field, value, grade]                                                 *)
(* where the grade records what the transcript reader established about    *)
(* it.  Wording, quotes and turn ids are abstracted away: a turn-id list   *)
(* is read by the policy only for being empty or not.                      *)
(***************************************************************************)
EXTENDS Contracts

CONSTANTS
  NoValue,         \* a claim that proposes no value: proposed_value is None
  Removals,        \* the <<field, value>> pairs that take the service away
  Canonical        \* the <<field, value>> pairs in canonical form

ASSUME PolicyAssumption ==
  /\ NoValue \notin Values
  /\ Removals \subseteq Fields \X Values
  /\ Canonical \subseteq Fields \X Values

REFRESH == 0
APPLY   == 1
REVIEW  == 2
STOP    == 3
Authority == REFRESH .. STOP

EventKinds == {"stop_requested", "reached_client", "distress", "hostile",
               "wrong_party", "no_disclosure"}
StopEvents == EventKinds \ {"wrong_party"}

NoContactOutcomes == {"no_answer", "voicemail", "busy", "declined", "canceled",
                      "expired", "failed"}
ContactOutcomes == {"completed", "ambiguous", "wrong_party", "reached_client",
                    "stop_requested", "distress", "hostile"}
Outcomes == NoContactOutcomes \cup ContactOutcomes

Grade == [ambiguous: BOOLEAN, explicit: BOOLEAN, readBack: BOOLEAN,
          agreed: BOOLEAN, confident: BOOLEAN]

\* The strongest claim _build_claim can make, and the one it makes of a value
\* that the caller's own account reports and no provider turn states.
Corroborated ==
  [ambiguous |-> FALSE, explicit |-> TRUE, readBack |-> TRUE, agreed |-> TRUE,
   confident |-> TRUE]
HintOnly ==
  [ambiguous |-> TRUE, explicit |-> FALSE, readBack |-> FALSE, agreed |-> FALSE,
   confident |-> FALSE]

Claim == [field: Fields, value: Values \cup {NoValue}, grade: Grade]
Evidence == [outcome: Outcomes, events: SUBSET EventKinds,
             claims: SUBSET Claim, confirmed: SUBSET Fields]

ReachedSomeone(e) == e.outcome \in ContactOutcomes
Covered(e) == {c.field : c \in e.claims} \cup e.confirmed

-----------------------------------------------------------------------------
RemovesService(c) == c.value = NoValue \/ <<c.field, c.value>> \in Removals

\* Fault: a hedged or unsure answer is not held back.
ClassifyClaimLenient(c) ==
  IF \/ RemovesService(c)
     \/ ~MayAutoApply(c.field)
     \/ ~c.grade.explicit
     \/ ~c.grade.readBack
     \/ ~c.grade.agreed
     \/ <<c.field, c.value>> \notin Canonical
  THEN REVIEW ELSE APPLY

\* classify_claim: the cascade of refusals, in which the order decides only the
\* reason given.  allow_deletion is false in every contract the program builds.
ClassifyClaim(c) ==
  IF \/ RemovesService(c)
     \/ ~MayAutoApply(c.field)
     \/ c.grade.ambiguous
     \/ ~c.grade.explicit
     \/ ~c.grade.readBack
     \/ ~c.grade.agreed
     \/ ~c.grade.confident
     \/ <<c.field, c.value>> \notin Canonical
  THEN REVIEW ELSE APPLY

\* A decision about a claim names its field; one about the call as a whole
\* names its cause.
About(cause, authority) == [authority |-> authority, cause |-> cause, field |-> "none"]
OnField(cause, authority, field) ==
  [authority |-> authority, cause |-> cause, field |-> field]
OnClaim(d) == d.cause = "claim"

SafetyDecisions(e) ==
  {About(kind, IF kind \in StopEvents THEN STOP ELSE REVIEW) : kind \in e.events}

StopDecision(e) ==
  IF e.outcome = "stop_requested" THEN {About("suppress", STOP)} ELSE {}

ClaimDecisions(e) ==
  {OnField("claim", ClassifyClaim(c), c.field) : c \in e.claims}

ConfirmationDecisions(e) == {OnField("confirmed", REFRESH, f) : f \in e.confirmed}

\* Fault: a question left unanswered is not put to anyone.
MissingDecisionAny(e, asked) == {}

\* What was asked and not answered, in a call that was free to ask it.
MissingDecision(e, asked) ==
  IF /\ asked \ Covered(e) # {}
     /\ \A c \in e.claims : ~RemovesService(c)
     /\ e.outcome = "completed"
  THEN {About("missing", REVIEW)} ELSE {}

\* "Never empty."
OrElse(decisions, default) == IF decisions = {} THEN {default} ELSE decisions

\* Fault: the first match wins, not the most severe.
ClassifyFirstMatch(e, asked) ==
  IF ReachedSomeone(e) /\ e.claims # {}
  THEN ClaimDecisions(e)
  ELSE OrElse(SafetyDecisions(e) \cup MissingDecision(e, asked),
              About("no_contact", REFRESH))

\* classify: every verdict one call produced.
Classify(e, asked) ==
  IF ~ReachedSomeone(e)
  THEN OrElse(SafetyDecisions(e), About("no_contact", REFRESH))
  ELSE OrElse(SafetyDecisions(e) \cup StopDecision(e) \cup ClaimDecisions(e)
                \cup ConfirmationDecisions(e) \cup MissingDecision(e, asked),
              About("nothing", REVIEW))

\* overall: the most severe verdict any part of the call reached.
Overall(decisions) ==
  CHOOSE a \in Authority : /\ \E d \in decisions : d.authority = a
                           /\ \A d \in decisions : d.authority <= a

\* record_verification's `pending`: something in this call needs a person.
NeedsAPerson(decisions) == \E d \in decisions : d.authority \in {REVIEW, STOP}
=============================================================================
