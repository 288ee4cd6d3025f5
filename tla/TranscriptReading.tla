--------------------------- MODULE TranscriptReading ---------------------------
(***************************************************************************)
(* evidence/reconcile.py and policy/evidence_policy.py together: what is   *)
(* made of one call as its transcript grows.  In each state, the evidence  *)
(* is what build_evidence returns for the transcript so far, and the       *)
(* verdicts are what classify returns for that evidence.                   *)
(***************************************************************************)
EXTENDS CallEvidence

CONSTANT Phrasings  \* the sets of safety phrases one turn may contain

ASSUME PhrasingsAssumption == {} \in Phrasings /\ Phrasings \subseteq SUBSET SpokenKinds

VARIABLES
  asked,      \* contract.fields_to_verify
  telephony,  \* the outcome the terminal status of the call maps to
  events,     \* the safety events: what scan_safety finds, and the disclosure check
  claims,     \* the claims built
  confirmed   \* the fields the provider agreed are right

vars == <<asked, telephony, events, claims, confirmed>>

evidence == [outcome |-> ResolvedOutcome(telephony, events), events |-> events,
             claims |-> claims, confirmed |-> confirmed]
decisions == Classify(evidence, asked)
verdict == Overall(decisions)

\* What record_verification applies unattended.
applied == IF NeedsAPerson(decisions) THEN {}
           ELSE {c \in claims : OnField("claim", APPLY, c.field) \in decisions}

Init ==
  /\ asked \in (SUBSET Fields) \ {{}}
  /\ telephony \in Telephony
  /\ events = {} /\ claims = {} /\ confirmed = {}

\* What a turn says stays said.  Whether the assistant has disclosed itself is asked
\* again of every transcript: among the first turns, either answer may follow the other.
HearPhrases(phrases) ==
  \E undisclosed \in SUBSET {"no_disclosure"} :
    events' = (events \ {"no_disclosure"}) \cup phrases \cup undisclosed

\* Fault: what was confirmed before stays confirmed beside the claim.
HearClaimBesideConfirmation(c) ==
  /\ c.field \in asked \/ <<c.field, c.value>> \in Removals
  /\ claims' = {d \in claims : d.field # c.field} \cup {c}
  /\ UNCHANGED confirmed

\* _build_claim: one claim per field, about a field asked for or a closure; a
\* claim takes the place of a confirmation, and of a weaker claim.
HearClaim(c) ==
  /\ c.field \in asked \/ <<c.field, c.value>> \in Removals
  /\ claims' = {d \in claims : d.field # c.field} \cup {c}
  /\ confirmed' = confirmed \ {c.field}

\* _confirmation, for a field without a claim.
HearConfirmation(f) ==
  /\ f \in asked
  /\ \A c \in claims : c.field # f
  /\ confirmed' = confirmed \cup {f}
  /\ UNCHANGED claims

\* What one turn more, or the caller's account, makes of the fields.
HearAnswer ==
  \/ \E f \in Fields, g \in ReadGrades, v \in Values :
       HearClaim([field |-> f, value |-> v, grade |-> g])
  \/ \E f \in Fields : HearConfirmation(f)
  \/ UNCHANGED <<claims, confirmed>>

\* The same turn may end the call and answer a question.
Next ==
  /\ \E phrases \in Phrasings : HearPhrases(phrases)
  /\ HearAnswer
  /\ UNCHANGED <<asked, telephony>>

Spec == Init /\ [][Next]_vars

-----------------------------------------------------------------------------

\* What is applied with nobody looking was stated, read back in full and agreed
\* to, in a call that reached somebody, left no question open and gave no cause
\* for concern (classify_claim, record_verification's `pending`).
AppliesOnlyEstablished ==
  applied # {} =>
    /\ events = {} /\ telephony = "completed"
    /\ asked \subseteq Covered(evidence)
    /\ \A c \in claims :
         /\ c.grade = Corroborated
         /\ c.field \notin NeverAutoApply
         /\ c.value # NoValue /\ <<c.field, c.value>> \in Canonical \ Removals

\* A question that was asked and not answered is put to a person, unless the
\* call never got to ask it (classify's `missing`).
NothingIsForgotten ==
  telephony = "completed" /\ ~NeedsAPerson(decisions) => asked \subseteq Covered(evidence)

\* The workflow ranges over less evidence than a transcript can give, and loses
\* nothing by it: whatever was heard, there is evidence that ReadEvidence offers with
\* the same outcome, the same proposals and confirmations if anybody was reached, and
\* the same verdicts (build_evidence, classify).
Offered == [questions \in SUBSET Fields |-> ReadEvidence(questions)]
Proposals(found) == {<<c.field, c.value>> : c \in found}
OfferedToTheWorkflow ==
  events \in EventSets =>
    \E e \in Offered[asked] :
      /\ e.outcome = evidence.outcome /\ e.events = events
      /\ ReachedSomeone(e) => e.confirmed = confirmed /\ Proposals(e.claims) = Proposals(claims)
      /\ Classify(e, asked) = decisions

\* Hearing something that ends a call never makes its verdict milder, whatever had
\* been established before and whatever else the same turn settles, unless that turn
\* is the disclosure that was missing; and the call then applies nothing.
SafetyNeverSoftens ==
  [][events' \ events # {} =>
       /\ events \subseteq events' => verdict' >= verdict
       /\ verdict' >= REVIEW
       /\ events' \cap StopEvents # {} => verdict' = STOP
       /\ applied' = {}]_vars
=============================================================================
