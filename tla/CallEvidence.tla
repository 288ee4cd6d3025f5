----------------------------- MODULE CallEvidence -----------------------------
(***************************************************************************)
(* evidence/reconcile.py: what one finished call can be read as.           *)
(*                                                                         *)
(* The transcript is abstracted to what the reader finds in it: the        *)
(* safety events, and for each field asked about a claim, a confirmation   *)
(* or nothing.  Which of these a transcript contains is the environment's  *)
(* choice; which evidence follows from them is the code's.                 *)
(***************************************************************************)
EXTENDS EvidencePolicy

CONSTANTS
  Telephony,   \* outcomes CALL-E's terminal statuses map to (STATUS_OUTCOMES)
  EventSets    \* the combinations of safety events the calls of a run contain

ASSUME EvidenceAssumption ==
  /\ Telephony \subseteq NoContactOutcomes \cup {"completed"}
  /\ EventSets \subseteq SUBSET (EventKinds \ {"hostile"})

\* What scan_safety listens for in the provider's turns; that the assistant did not
\* disclose itself is found by its silence instead.
SpokenKinds == {"stop_requested", "distress", "wrong_party", "reached_client"}

\* _safety_outcome over the kinds scan_safety can find, in its order of
\* severity, else the telephony status.
ResolvedOutcome(telephony, events) ==
  IF "distress" \in events THEN "distress"
  ELSE IF "stop_requested" \in events THEN "stop_requested"
  ELSE IF "reached_client" \in events THEN "reached_client"
  ELSE IF "wrong_party" \in events THEN "wrong_party"
  ELSE telephony

\* The grades _build_claim gives: what only the caller's account reports, or a
\* value some provider turn states, hedged or not, read back and agreed to or
\* not; and one more for a closure mentioned in passing, stated and no more.
Stated(ambiguous, corroborated) ==
  [ambiguous |-> ambiguous, explicit |-> TRUE, readBack |-> corroborated,
   agreed |-> corroborated, confident |-> corroborated /\ ~ambiguous]
ReadGrades == {HintOnly} \cup {Stated(a, b) : a, b \in BOOLEAN}

\* _build_claim: a value the transcript corroborates, or one that it does not.
\* A field that is never applied unattended needs only the weaker grade: the
\* policy gives both the same verdict.
ClaimsOn(field) ==
  [field: {field}, value: Values,
   grade: IF MayAutoApply(field) THEN {Corroborated, HintOnly} ELSE {HintOnly}]

\* A closure mentioned on a call about something else is a claim all the same.
ClosureClaims(asked) ==
  {[field |-> r[1], value |-> r[2], grade |-> Stated(FALSE, FALSE)]
     : r \in {p \in Removals : p[1] \notin asked}}

OfferedClaims(asked) == (UNION {ClaimsOn(f) : f \in asked}) \cup ClosureClaims(asked)

OneClaimPerField(claims) == \A c, d \in claims : c.field = d.field => c = d

Answers(asked) ==
  {a \in [claims: {cs \in SUBSET OfferedClaims(asked) : OneClaimPerField(cs)},
          confirmed: SUBSET asked] :
     \A c \in a.claims : c.field \notin a.confirmed}

NoAnswers == [claims |-> {}, confirmed |-> {}]

\* build_evidence.  What a voicemail greeting or a busy line may seem to say
\* about a field is left out: the policy returns before it looks at claims.
ReadEvidence(asked) ==
  UNION {LET outcome == ResolvedOutcome(call[1], call[2])
         IN  {[outcome |-> outcome, events |-> call[2],
               claims |-> a.claims, confirmed |-> a.confirmed] :
                 a \in IF outcome \in ContactOutcomes THEN Answers(asked) ELSE {NoAnswers}}
           : call \in Telephony \X EventSets}
=============================================================================
