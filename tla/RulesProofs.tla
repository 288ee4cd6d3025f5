----------------------------- MODULE RulesProofs ------------------------------
(***************************************************************************)
(* The two rule books of policy/, for any contract, any transcript and any *)
(* terms: what is applied with nobody looking was established, what was    *)
(* heard is never talked down, and a call is placed exactly when somebody  *)
(* agreed to it and charged to the agreement that lapses first.            *)
(***************************************************************************)
EXTENDS TranscriptReading, CallingHours, CommonProofs, FiniteSetTheorems

-----------------------------------------------------------------------------
\* Transcript reading

\* The evidence made of what was heard (build_evidence), for any transcript.
Heard(status, kinds, cs, agreed) ==
  [outcome |-> ResolvedOutcome(status, kinds), events |-> kinds,
   claims |-> cs, confirmed |-> agreed]

\* The terminal status of the call is one STATUS_OUTCOMES knows, the events are of
\* the kinds the scan finds, and every claim has a grade the reader gives.
ReadingInv ==
  /\ telephony \in Telephony
  /\ events \subseteq EventKinds
  /\ \A c \in claims : c.grade \in ReadGrades

LEMMA Reading_Inv ==
  /\ Init => ReadingInv
  /\ ReadingInv /\ [Next]_vars => ReadingInv'
<1>1. Init => ReadingInv
  BY DEF Init, ReadingInv
<1>2. ASSUME ReadingInv, [Next]_vars PROVE ReadingInv'
  <2>1. CASE UNCHANGED vars
    BY <1>2, <2>1 DEF vars, ReadingInv
  <2>2. CASE Next
    <3>1. telephony' \in Telephony
      BY <1>2, <2>2 DEF ReadingInv, Next
    <3>2. events' \subseteq EventKinds
      BY <1>2, <2>2, PhrasingsAssumption
      DEF ReadingInv, Next, HearPhrases, SpokenKinds, EventKinds
    <3>3. ASSUME NEW f \in Fields, NEW g \in ReadGrades, NEW v \in Values,
                 HearClaim([field |-> f, value |-> v, grade |-> g])
          PROVE  \A c \in claims' : c.grade \in ReadGrades
      BY <1>2, <3>3 DEF ReadingInv, HearClaim
    <3>4. ASSUME claims' = claims PROVE \A c \in claims' : c.grade \in ReadGrades
      BY <1>2, <3>4 DEF ReadingInv
    <3>5. \A c \in claims' : c.grade \in ReadGrades
      BY <2>2, <3>3, <3>4 DEF Next, HearAnswer, HearConfirmation
    <3>. QED
      BY <3>1, <3>2, <3>5 DEF ReadingInv
  <2>. QED
    BY <1>2, <2>1, <2>2
<1>. QED
  BY <1>1, <1>2

\* A claim that may be applied has the strongest grade, names a canonical value and
\* takes nothing away (classify_claim).
LEMMA AppliedClaim ==
  ASSUME NEW c, c.grade \in ReadGrades, ClassifyClaim(c) = APPLY
  PROVE  /\ c.grade = Corroborated
         /\ c.field \notin NeverAutoApply
         /\ c.value # NoValue /\ <<c.field, c.value>> \in Canonical \ Removals
<1>1. /\ ~RemovesService(c) /\ MayAutoApply(c.field)
      /\ ~c.grade.ambiguous /\ c.grade.explicit /\ c.grade.readBack
      /\ <<c.field, c.value>> \in Canonical
  BY DEF ClassifyClaim, APPLY, REVIEW
<1>2. c.grade = Corroborated
  <2>1. c.grade # HintOnly
    BY <1>1 DEF HintOnly
  <2>2. PICK a \in BOOLEAN, b \in BOOLEAN : c.grade = Stated(a, b)
    BY <2>1 DEF ReadGrades
  <2>3. c.grade.ambiguous = a /\ c.grade.readBack = b
    BY <2>2 DEF Stated
  <2>4. a = FALSE /\ b = TRUE
    BY <1>1, <2>3
  <2>. QED
    BY <2>2, <2>4 DEF Stated, Corroborated
<1>. QED
  BY <1>1, <1>2 DEF RemovesService, MayAutoApply

LEMMA EvidenceHeard ==
  /\ evidence = Heard(telephony, events, claims, confirmed)
  /\ ReadingInv => Resolved(evidence)
BY DEF evidence, Heard, Resolved, ReadingInv

\* A completed call in which nothing was heard that ends or qualifies it reached
\* somebody.
LEMMA CompletedReached ==
  ASSUME telephony = "completed", events = {}
  PROVE  ReachedSomeone(evidence)
BY DEF evidence, ResolvedOutcome, ReachedSomeone, ContactOutcomes

\* A claim is applied only in a call that reached somebody.
LEMMA AppliedReached ==
  ASSUME applied # {}
  PROVE  ~NeedsAPerson(decisions) /\ ReachedSomeone(evidence)
<1>1. ~NeedsAPerson(decisions)
  BY DEF applied
<1>2. PICK f : OnField("claim", APPLY, f) \in decisions
  BY DEF applied
<1>3. SUFFICES ASSUME ~ReachedSomeone(evidence) PROVE FALSE
  BY <1>1
<1>4. SafetyDecisions(evidence) = {}
  <2>1. evidence.events = {}
    BY <1>1, HeardNeedsAPerson DEF decisions
  <2>. QED
    BY <2>1 DEF SafetyDecisions
<1>5. decisions = {About("no_contact", REFRESH)}
  BY <1>3, <1>4 DEF decisions, Classify, OrElse
<1>. QED
  BY <1>2, <1>5 DEF About, OnField, APPLY, REFRESH

\* What record_verification applies with nobody looking was stated, read back in
\* full and agreed to, in a call that left no question open, whatever the transcript.
THEOREM OnlyEstablished == Spec => []AppliesOnlyEstablished
<1>1. ASSUME ReadingInv PROVE AppliesOnlyEstablished
  <2>1. SUFFICES ASSUME applied # {}
                 PROVE  /\ events = {} /\ telephony = "completed"
                        /\ asked \subseteq Covered(evidence)
                        /\ \A c \in claims :
                             /\ c.grade = Corroborated
                             /\ c.field \notin NeverAutoApply
                             /\ c.value # NoValue /\ <<c.field, c.value>> \in Canonical \ Removals
    BY DEF AppliesOnlyEstablished
  <2>2. ~NeedsAPerson(decisions) /\ ReachedSomeone(evidence)
    BY <2>1, AppliedReached
  <2>3. /\ evidence.events = {} /\ evidence.outcome = "completed"
        /\ \A c \in evidence.claims : ClassifyClaim(c) = APPLY
        /\ asked \subseteq Covered(evidence)
    BY <1>1, <2>2, Unattended, EvidenceHeard DEF decisions
  <2>4. events = {} /\ telephony = "completed" /\ \A c \in claims : ClassifyClaim(c) = APPLY
    BY <2>3 DEF evidence, ResolvedOutcome
  <2>5. \A c \in claims : c.grade \in ReadGrades
    BY <1>1 DEF ReadingInv
  <2>. QED
    BY <2>3, <2>4, <2>5, AppliedClaim
<1>. QED
  BY <1>1, Reading_Inv, PTL DEF Spec

\* A question asked in a completed call and not answered is put to a person, also
\* when nothing else in the call needs one (classify's `missing`).
THEOREM NothingForgotten == Spec => []NothingIsForgotten
<1>1. ASSUME ReadingInv, telephony = "completed", ~NeedsAPerson(decisions)
      PROVE  asked \subseteq Covered(evidence)
  <2>1. events = {}
    BY <1>1, HeardNeedsAPerson DEF decisions, evidence
  <2>2. Resolved(evidence) /\ ReachedSomeone(evidence)
    BY <1>1, <2>1, EvidenceHeard, CompletedReached
  <2>. QED
    BY <1>1, <2>2, Unattended DEF decisions
<1>2. ReadingInv => NothingIsForgotten
  BY <1>1 DEF NothingIsForgotten
<1>. QED
  BY <1>2, Reading_Inv, PTL DEF Spec

\* A verdict of STOP comes from an event of the transcript and from nothing else.
LEMMA StopWasHeard ==
  ASSUME NEW status \in Telephony, NEW kinds \in SUBSET EventKinds, NEW cs, NEW agreed,
         NEW questions, NEW d \in Classify(Heard(status, kinds, cs, agreed), questions),
         d.authority = STOP
  PROVE  kinds \cap StopEvents # {}
<1>. DEFINE e == Heard(status, kinds, cs, agreed)
<1>1. e.events = kinds /\ e.outcome = ResolvedOutcome(status, kinds)
  BY DEF Heard
<1>. HIDE DEF e
<1>2. d \in Classify(e, questions)
  BY DEF e
<1>3. CASE d \in SafetyDecisions(e)
  BY <1>1, <1>3 DEF SafetyDecisions, About, STOP, REVIEW
<1>4. CASE d \in StopDecision(e)
  <2>1. e.outcome = "stop_requested"
    BY <1>4 DEF StopDecision
  <2>2. status # "stop_requested"
    BY EvidenceAssumption DEF NoContactOutcomes
  <2>3. "stop_requested" \in kinds
    BY <1>1, <2>1, <2>2 DEF ResolvedOutcome
  <2>. QED
    BY <2>3 DEF StopEvents, EventKinds
<1>5. CASE d \in ClaimDecisions(e)
  <2>1. d.authority \in {APPLY, REVIEW}
    BY <1>5, ClaimVerdicts DEF ClaimDecisions, OnField
  <2>. QED
    BY <2>1 DEF APPLY, REVIEW, STOP
<1>6. CASE d \in ConfirmationDecisions(e) \cup MissingDecision(e, questions)
             \cup {About("no_contact", REFRESH), About("nothing", REVIEW)}
  BY <1>6 DEF ConfirmationDecisions, MissingDecision, About, OnField, REFRESH, REVIEW, STOP
<1>. QED
  BY <1>2, <1>3, <1>4, <1>5, <1>6, Verdicts

LEMMA HearingHardens ==
  ASSUME ReadingInv, ReadingInv', telephony' = telephony, NEW kind \in events' \ events
  PROVE  /\ events \subseteq events' => verdict' >= verdict
         /\ verdict' >= REVIEW
         /\ (events' \cap StopEvents # {} => verdict' = STOP)
         /\ applied' = {}
<1>. DEFINE D == Classify(evidence, asked)
            after == Heard(telephony', events', claims', confirmed')
            A == Classify(after, asked')
<1>1. /\ decisions = D /\ verdict = Overall(D)
      /\ evidence' = after /\ decisions' = A /\ verdict' = Overall(A)
  BY DEF decisions, verdict, evidence, Heard
<1>2. after.events = events' /\ telephony' = telephony
  BY DEF Heard
<1>3. D # {} /\ \A d \in D : d.authority \in Authority
  BY ClassifyType
<1>4. A # {} /\ \A d \in A : d.authority \in Authority
  BY ClassifyType
<1>5. \A k \in events' : /\ NeedsAPerson(A)
                         /\ \E d \in A : d.authority = IF k \in StopEvents THEN STOP ELSE REVIEW
  BY <1>2, HeardNeedsAPerson
<1>6. ASSUME NEW d \in D, d.authority = STOP PROVE events \cap StopEvents # {}
  BY <1>6, StopWasHeard, EvidenceHeard DEF ReadingInv
<1>. HIDE DEF D, after, A
<1>7. /\ Overall(D) \in Authority /\ \E d \in D : d.authority = Overall(D)
  BY <1>3, WorstVerdict
<1>8. Overall(A) \in Authority /\ \A d \in A : d.authority <= Overall(A)
  BY <1>4, WorstVerdict
<1>9. kind \in events'
  OBVIOUS
<1>10. Overall(A) >= REVIEW
  BY <1>5, <1>8, <1>9 DEF Authority, REFRESH, REVIEW, STOP
<1>11. events' \cap StopEvents # {} => Overall(A) = STOP
  BY <1>5, <1>8 DEF Authority, REFRESH, REVIEW, STOP
<1>12. ASSUME events \subseteq events' PROVE Overall(A) >= Overall(D)
  <2>1. CASE Overall(D) = STOP
    BY <1>6, <1>7, <1>11, <1>12, <2>1 DEF STOP
  <2>2. CASE Overall(D) # STOP
    BY <1>7, <1>8, <1>10, <2>2 DEF Authority, REFRESH, REVIEW, STOP
  <2>. QED
    BY <2>1, <2>2
<1>13. applied' = {}
  BY <1>1, <1>5, <1>9 DEF applied
<1>. QED
  BY <1>1, <1>10, <1>11, <1>12, <1>13

\* However much was established before it, hearing something that ends or qualifies a
\* call never makes the verdict milder unless the missing disclosure comes with it, and
\* such a call applies nothing unattended.
THEOREM SafetyHardens == Spec => SafetyNeverSoftens
<1>1. ReadingInv /\ ReadingInv' /\ [Next]_vars =>
        [events' \ events # {} =>
           /\ events \subseteq events' => verdict' >= verdict
           /\ verdict' >= REVIEW
           /\ events' \cap StopEvents # {} => verdict' = STOP
           /\ applied' = {}]_vars
  <2>1. SUFFICES ASSUME ReadingInv, ReadingInv', [Next]_vars, events' \ events # {}
                 PROVE  /\ events \subseteq events' => verdict' >= verdict
                        /\ verdict' >= REVIEW
                        /\ events' \cap StopEvents # {} => verdict' = STOP
                        /\ applied' = {}
    OBVIOUS
  <2>2. telephony' = telephony
    BY <2>1 DEF Next, vars
  <2>3. PICK kind : kind \in events' \ events
    BY <2>1
  <2>. QED
    BY <2>1, <2>2, <2>3, HearingHardens
<1>. QED
  BY <1>1, Reading_Inv, PTL DEF Spec, SafetyNeverSoftens

\* What was heard is about the questions asked or a closure, one claim per field, and a
\* field is not claimed and confirmed at once.
HeardInv ==
  /\ ReadingInv
  /\ asked \subseteq Fields /\ confirmed \subseteq asked
  /\ OneClaimPerField(claims)
  /\ \A c \in claims :
       /\ c.field \in Fields /\ c.value \in Values
       /\ c.field \in asked \/ <<c.field, c.value>> \in Removals
       /\ c.field \notin confirmed

LEMMA Heard_Inv ==
  /\ Init => HeardInv
  /\ HeardInv /\ [Next]_vars => HeardInv'
<1>1. Init => HeardInv
  BY Reading_Inv DEF Init, HeardInv, OneClaimPerField
<1>2. ASSUME HeardInv, [Next]_vars PROVE HeardInv'
  <2>1. ReadingInv'
    BY <1>2, Reading_Inv DEF HeardInv
  <2>2. CASE UNCHANGED vars
    BY <1>2, <2>1, <2>2 DEF vars, HeardInv
  <2>3. ASSUME NEW f \in Fields, NEW g \in ReadGrades, NEW v \in Values, asked' = asked,
               HearClaim([field |-> f, value |-> v, grade |-> g])
        PROVE  HeardInv'
    <3>. DEFINE new == [field |-> f, value |-> v, grade |-> g]
    <3>1. /\ claims' = {d \in claims : d.field # f} \cup {new}
          /\ confirmed' = confirmed \ {f} /\ asked' = asked
          /\ f \in asked \/ <<f, v>> \in Removals
      BY <2>3 DEF HearClaim
    <3>2. new.field = f /\ new.value = v
      OBVIOUS
    <3>. HIDE DEF new
    <3>3. OneClaimPerField(claims')
      BY <1>2, <3>1, <3>2 DEF HeardInv, OneClaimPerField
    <3>. QED
      BY <1>2, <2>1, <3>1, <3>2, <3>3 DEF HeardInv
  <2>4. ASSUME NEW f \in Fields, asked' = asked, HearConfirmation(f) PROVE HeardInv'
    BY <1>2, <2>1, <2>4 DEF HeardInv, HearConfirmation
  <2>5. ASSUME asked' = asked, UNCHANGED <<claims, confirmed>> PROVE HeardInv'
    BY <1>2, <2>1, <2>5 DEF HeardInv
  <2>. QED
    BY <1>2, <2>2, <2>3, <2>4, <2>5 DEF Next, HearAnswer
<1>. QED
  BY <1>1, <1>2

\* The claim that ReadEvidence offers in place of one that was heard.
Weakened(c) ==
  [field |-> c.field, value |-> c.value,
   grade |-> IF c.field \notin asked THEN Stated(FALSE, FALSE)
             ELSE IF ClassifyClaim(c) = APPLY THEN Corroborated ELSE HintOnly]

\* It is offered, and the policy gives it the same verdict.
LEMMA WeakenedIsOffered ==
  ASSUME HeardInv, NEW c \in claims
  PROVE  /\ Weakened(c) \in OfferedClaims(asked)
         /\ ClassifyClaim(Weakened(c)) = ClassifyClaim(c)
         /\ RemovesService(Weakened(c)) <=> RemovesService(c)
<1>. DEFINE w == Weakened(c)
<1>1. /\ w.field = c.field /\ w.value = c.value
      /\ c.field \in Fields /\ c.value \in Values
      /\ c.field \in asked \/ <<c.field, c.value>> \in Removals
  BY DEF Weakened, HeardInv
<1>2. RemovesService(w) <=> RemovesService(c)
  BY <1>1 DEF RemovesService
<1>3. CASE c.field \in asked
  <2>1. CASE ClassifyClaim(c) = APPLY
    <3>1. w = [field |-> c.field, value |-> c.value, grade |-> Corroborated]
      BY <1>3, <2>1 DEF Weakened
    <3>2. MayAutoApply(c.field) /\ ~RemovesService(c) /\ <<c.field, c.value>> \in Canonical
      BY <2>1 DEF ClassifyClaim, APPLY, REVIEW
    <3>3. w \in ClaimsOn(c.field)
      BY <1>1, <3>1, <3>2 DEF ClaimsOn
    <3>4. ClassifyClaim(w) = APPLY
      BY <1>1, <1>2, <3>1, <3>2 DEF ClassifyClaim, Corroborated
    <3>. QED
      BY <1>2, <1>3, <2>1, <3>3, <3>4 DEF OfferedClaims
  <2>2. CASE ClassifyClaim(c) # APPLY
    <3>1. w = [field |-> c.field, value |-> c.value, grade |-> HintOnly]
      BY <1>3, <2>2 DEF Weakened
    <3>2. w \in ClaimsOn(c.field)
      BY <1>1, <3>1 DEF ClaimsOn
    <3>3. ClassifyClaim(w) = REVIEW
      BY <3>1 DEF ClassifyClaim, HintOnly
    <3>. QED
      BY <1>2, <1>3, <2>2, <3>2, <3>3, ClaimVerdicts DEF OfferedClaims
  <2>. QED
    BY <2>1, <2>2
<1>4. CASE c.field \notin asked
  <2>1. w = [field |-> c.field, value |-> c.value, grade |-> Stated(FALSE, FALSE)]
    BY <1>4 DEF Weakened
  <2>2. w \in ClosureClaims(asked)
    <3>. DEFINE r == <<c.field, c.value>>
    <3>1. r \in {p \in Removals : p[1] \notin asked} /\ r[1] = c.field /\ r[2] = c.value
      BY <1>1, <1>4
    <3>. HIDE DEF r
    <3>. QED
      BY <2>1, <3>1 DEF ClosureClaims
  <2>3. RemovesService(c)
    BY <1>1, <1>4 DEF RemovesService
  <2>. QED
    BY <1>2, <2>2, <2>3 DEF OfferedClaims, ClassifyClaim
<1>. QED
  BY <1>3, <1>4

\* The policy reads of the claims their fields, their verdicts and whether one of them
\* takes the service away.
LEMMA ClassifyReads ==
  ASSUME NEW e, NEW f, NEW questions,
         e.outcome = f.outcome, e.events = f.events, e.confirmed = f.confirmed,
         ClaimDecisions(e) = ClaimDecisions(f),
         {c.field : c \in e.claims} = {c.field : c \in f.claims},
         (\A c \in e.claims : ~RemovesService(c)) <=> (\A c \in f.claims : ~RemovesService(c))
  PROVE  Classify(e, questions) = Classify(f, questions)
<1>1. /\ SafetyDecisions(e) = SafetyDecisions(f) /\ StopDecision(e) = StopDecision(f)
      /\ ConfirmationDecisions(e) = ConfirmationDecisions(f)
      /\ ReachedSomeone(e) <=> ReachedSomeone(f)
  BY DEF SafetyDecisions, StopDecision, ConfirmationDecisions, ReachedSomeone
<1>2. Covered(e) = Covered(f)
  BY DEF Covered
<1>3. MissingDecision(e, questions) = MissingDecision(f, questions)
  BY <1>2 DEF MissingDecision
<1>. QED
  BY <1>1, <1>3 DEF Classify

\* Whatever a call was heard to contain, ReadEvidence offers the workflow evidence with
\* the same outcome, the same proposals and the same verdicts.
THEOREM NothingUnoffered == Spec => []OfferedToTheWorkflow
<1>1. ASSUME HeardInv, events \in EventSets
      PROVE  \E e \in Offered[asked] :
               /\ e.outcome = evidence.outcome /\ e.events = events
               /\ ReachedSomeone(e) =>
                    e.confirmed = confirmed /\ Proposals(e.claims) = Proposals(claims)
               /\ Classify(e, asked) = decisions
  <2>. DEFINE outcome == ResolvedOutcome(telephony, events)
              made(a) == [outcome |-> outcome, events |-> events,
                          claims |-> a.claims, confirmed |-> a.confirmed]
  <2>1. /\ evidence.outcome = outcome /\ evidence.events = events
        /\ evidence.claims = claims /\ evidence.confirmed = confirmed
    BY DEF evidence
  <2>2. ASSUME NEW a \in IF outcome \in ContactOutcomes THEN Answers(asked) ELSE {NoAnswers}
        PROVE  made(a) \in Offered[asked]
    <3>. DEFINE call == <<telephony, events>>
    <3>1. call \in Telephony \X EventSets /\ call[1] = telephony /\ call[2] = events
      BY <1>1 DEF HeardInv, ReadingInv
    <3>. HIDE DEF call
    <3>2. made(a) \in ReadEvidence(asked)
      BY <2>2, <3>1 DEF ReadEvidence
    <3>. QED
      BY <1>1, <3>2 DEF Offered, HeardInv
  <2>3. \A a : /\ made(a).outcome = outcome /\ made(a).events = events
                /\ made(a).claims = a.claims /\ made(a).confirmed = a.confirmed
    OBVIOUS
  <2>. HIDE DEF outcome, made
  <2>4. CASE outcome \in ContactOutcomes
    <3>. DEFINE weak == {Weakened(c) : c \in claims}
                a == [claims |-> weak, confirmed |-> confirmed]
    <3>1. \A c \in claims : Weakened(c).field = c.field /\ Weakened(c).value = c.value
      BY DEF Weakened
    <3>2. OneClaimPerField(weak)
      BY <1>1, <3>1 DEF HeardInv, OneClaimPerField
    <3>3. weak \in SUBSET OfferedClaims(asked)
      BY <1>1, WeakenedIsOffered
    <3>4. \A c \in weak : c.field \notin confirmed
      BY <1>1, <3>1 DEF HeardInv
    <3>5. a \in Answers(asked)
      BY <1>1, <3>2, <3>3, <3>4 DEF Answers, HeardInv
    <3>6. /\ {OnField("claim", ClassifyClaim(c), c.field) : c \in weak}
                = {OnField("claim", ClassifyClaim(c), c.field) : c \in claims}
          /\ {c.field : c \in weak} = {c.field : c \in claims}
          /\ Proposals(weak) = Proposals(claims)
          /\ (\A c \in weak : ~RemovesService(c)) <=> (\A c \in claims : ~RemovesService(c))
      <4>1. \A c \in claims : /\ ClassifyClaim(Weakened(c)) = ClassifyClaim(c)
                              /\ RemovesService(Weakened(c)) <=> RemovesService(c)
        BY <1>1, WeakenedIsOffered
      <4>. QED
        BY <3>1, <4>1 DEF Proposals
    <3>7. a.claims = weak /\ a.confirmed = confirmed
      OBVIOUS
    <3>. HIDE DEF a, weak
    <3>8. Classify(made(a), asked) = decisions
      <4>. DEFINE e == made(a)
      <4>1. /\ e.outcome = evidence.outcome /\ e.events = evidence.events
            /\ e.confirmed = evidence.confirmed /\ e.claims = weak
        BY <2>1, <2>3, <3>7
      <4>. HIDE DEF e
      <4>2. ClaimDecisions(e) = ClaimDecisions(evidence)
        BY <2>1, <3>6, <4>1 DEF ClaimDecisions
      <4>3. Classify(e, asked) = Classify(evidence, asked)
        BY <2>1, <3>6, <4>1, <4>2, ClassifyReads
      <4>. QED
        BY <4>3 DEF decisions, e
    <3>. QED
      BY <2>1, <2>2, <2>3, <2>4, <3>5, <3>6, <3>7, <3>8
  <2>5. CASE outcome \notin ContactOutcomes
    <3>1. made(NoAnswers) \in Offered[asked]
      BY <2>2, <2>5
    <3>2. ~ReachedSomeone(made(NoAnswers)) /\ ~ReachedSomeone(evidence)
      BY <2>1, <2>3, <2>5 DEF ReachedSomeone
    <3>3. SafetyDecisions(made(NoAnswers)) = SafetyDecisions(evidence)
      BY <2>1, <2>3 DEF SafetyDecisions
    <3>4. Classify(made(NoAnswers), asked) = decisions
      BY <3>2, <3>3 DEF Classify, decisions
    <3>. QED
      BY <2>1, <2>3, <3>1, <3>2, <3>4
  <2>. QED
    BY <2>4, <2>5
<1>2. HeardInv => OfferedToTheWorkflow
  BY <1>1 DEF OfferedToTheWorkflow
<1>. QED
  BY <1>2, Heard_Inv, PTL DEF Spec

-----------------------------------------------------------------------------
\* Calling hours

\* The hours that a walk from the first hour of a window to its last passes are the
\* hours between them, over midnight too (consent_permits).
LEMMA WindowIsWalked ==
  ASSUME NEW terms, terms.earliest \in Hours, terms.latest \in Hours, NEW h \in Hours
  PROVE  InWindow(terms, h) <=> h \in WindowHours(terms)
<1>. DEFINE e == terms.earliest
            l == terms.latest
            length == (l + 24 - e) % 24
<1>1. e \in 0 .. 23 /\ l \in 0 .. 23 /\ h \in 0 .. 23
  BY DEF Hours, HoursPerDay
<1>2. WindowHours(terms) = {(e + i) % 24 : i \in 0 .. length}
  BY DEF WindowHours, HoursPerDay
<1>3. InWindow(terms, h) <=> IF e <= l THEN e <= h /\ h <= l ELSE h >= e \/ h <= l
  BY DEF InWindow
<1>. HIDE DEF e, l
<1>4. length = IF e <= l THEN l - e ELSE l + 24 - e
  BY <1>1
<1>. HIDE DEF length
<1>5. length \in Nat /\ e + length <= 47
  BY <1>1, <1>4
<1>6. ASSUME NEW i \in 0 .. length
      PROVE  (e + i) % 24 = IF e + i < 24 THEN e + i ELSE e + i - 24
  <2>1. e \in Int /\ i \in Int /\ e + i \in 0 .. 47
    BY <1>1, <1>5
  <2>. QED
    BY <2>1
<1>7. ASSUME InWindow(terms, h) PROVE \E i \in 0 .. length : h = (e + i) % 24
  <2>1. CASE e <= h
    <3>1. h - e \in 0 .. length /\ e + (h - e) = h
      BY <1>1, <1>3, <1>4, <1>7, <2>1
    <3>. QED
      BY <1>1, <1>6, <3>1
  <2>2. CASE ~(e <= h)
    <3>1. h + 24 - e \in 0 .. length /\ e + (h + 24 - e) = h + 24
      BY <1>1, <1>3, <1>4, <1>7, <2>2
    <3>. QED
      BY <1>1, <1>6, <3>1
  <2>. QED
    BY <2>1, <2>2
<1>8. ASSUME NEW i \in 0 .. length, h = (e + i) % 24 PROVE InWindow(terms, h)
  <2>1. h = IF e + i < 24 THEN e + i ELSE e + i - 24
    BY <1>6, <1>8
  <2>. QED
    BY <1>1, <1>3, <1>4, <2>1
<1>. QED
  BY <1>2, <1>7, <1>8

\* The consents are open, their counters agree with the log, and the log is of the
\* past.
HoursInv ==
  /\ hour \in Nat
  /\ consents \in [1 .. 2 -> [status: {"active"}, terms: OfferedTerms, placed: Nat]]
  /\ IsFiniteSet(log)
  /\ \A c \in log : c.at \in Nat /\ c.at <= hour
  /\ \A k \in 1 .. 2 : consents[k].placed = Cardinality(ChargedTo(k))

\* The calls newer than the cutoff are out of the way exactly when none is within the
\* interval (spacing_permits).
LEMMA SpacingByLog ==
  ASSUME HoursInv
  PROVE  SpacingPermits(Recent, hour) <=> \A c \in log : hour - c.at >= MinimumInterval
<1>1. MinimumInterval \in Nat
  BY EligibilityAssumption DEF MinimumInterval, HoursPerDay
<1>. HIDE DEF MinimumInterval
<1>2. \A c \in log : c.at \in Nat /\ hour \in Nat
  BY DEF HoursInv
<1>3. ASSUME SpacingPermits(Recent, hour), NEW c \in log PROVE hour - c.at >= MinimumInterval
  <2>1. CASE c.at + MinimumInterval > hour
    <3>1. c.at \in Recent
      BY <1>3, <2>1 DEF Recent
    <3>2. c.at + MinimumInterval <= hour
      BY <1>3, <3>1 DEF SpacingPermits
    <3>. QED
      BY <1>1, <1>2, <1>3, <3>2
  <2>2. CASE ~(c.at + MinimumInterval > hour)
    BY <1>1, <1>2, <1>3, <2>2
  <2>. QED
    BY <2>1, <2>2
<1>4. ASSUME \A c \in log : hour - c.at >= MinimumInterval PROVE SpacingPermits(Recent, hour)
  <2>1. ASSUME NEW c \in log PROVE c.at + MinimumInterval <= hour
    BY <1>1, <1>2, <1>4, <2>1
  <2>. QED
    BY <2>1 DEF SpacingPermits, Recent
<1>. QED
  BY <1>3, <1>4

\* A consent permits a call exactly when its terms agree to the hour and the log has
\* charged it with fewer calls than it allows.
LEMMA PermitsByLog ==
  ASSUME HoursInv, NEW k \in 1 .. 2
  PROVE  ConsentPermits(consents[k], hour) <=>
           /\ AgreedTo(consents[k].terms, hour)
           /\ Cardinality(ChargedTo(k)) < consents[k].terms.maxCalls
<1>. DEFINE terms == consents[k].terms
<1>1. consents[k].status = "active" /\ consents[k].placed = Cardinality(ChargedTo(k))
  BY DEF HoursInv
<1>2. /\ terms.earliest \in Hours /\ terms.latest \in Hours
      /\ terms.validFrom \in Nat /\ terms.validUntil \in Nat
  BY HoursAssumption DEF HoursInv, Terms
<1>3. Hour(hour) \in Hours /\ Day(hour) \in Nat
  BY DEF HoursInv, Hour, Hours, Day, HoursPerDay
<1>. HIDE DEF terms
<1>4. InWindow(terms, Hour(hour)) <=> Hour(hour) \in WindowHours(terms)
  BY <1>2, <1>3, WindowIsWalked
<1>5. terms.validFrom <= Day(hour) /\ Day(hour) <= terms.validUntil
        <=> Day(hour) \in terms.validFrom .. terms.validUntil
  BY <1>2, <1>3
<1>. QED
  BY <1>1, <1>4, <1>5 DEF ConsentPermits, AgreedTo, terms

LEMMA Hours_Inv ==
  /\ HoursInit => HoursInv
  /\ HoursInv /\ [HoursNext]_hoursVars => HoursInv'
<1>1. ASSUME HoursInit PROVE HoursInv
  <2>1. \A k \in 1 .. 2 : ChargedTo(k) = {} /\ consents[k].placed = 0
    BY <1>1 DEF HoursInit, ChargedTo
  <2>2. IsFiniteSet({}) /\ Cardinality({}) = 0
    BY FS_EmptySet
  <2>. QED
    BY <1>1, <2>1, <2>2 DEF HoursInit, HoursInv
<1>2. ASSUME HoursInv, UNCHANGED hoursVars PROVE HoursInv'
  BY <1>2 DEF HoursInv, hoursVars, ChargedTo
<1>3. ASSUME HoursInv, Wait PROVE HoursInv'
  <2>1. \A c \in log : c.at <= hour'
    BY <1>3 DEF HoursInv, Wait
  <2>. QED
    BY <1>3, <2>1 DEF HoursInv, Wait, ChargedTo
<1>4. ASSUME HoursInv, PlaceCall PROVE HoursInv'
  <2>1. PICK k \in 1 .. 2 :
          /\ consents' = [consents EXCEPT ![k].placed = @ + 1]
          /\ log' = log \cup {[at |-> hour, consent |-> k]}
    BY <1>4 DEF PlaceCall, HoursInv
  <2>. DEFINE call == [at |-> hour, consent |-> k]
  <2>2. hour' = hour /\ hour \in Nat
    BY <1>4 DEF PlaceCall, HoursInv
  <2>3. call \notin log
    <3>1. \A c \in log : hour - c.at >= MinimumInterval
      BY <1>4, SpacingByLog DEF PlaceCall, Permitted, Eligible
    <3>2. MinimumInterval \in Nat /\ MinimumInterval > 0
      BY EligibilityAssumption DEF MinimumInterval, HoursPerDay
    <3>3. ~(hour - hour >= MinimumInterval)
      BY <2>2, <3>2
    <3>. QED
      BY <3>1, <3>3
  <2>4. call.at = hour /\ call.consent = k /\ log' = log \cup {call}
    BY <2>1
  <2>. HIDE DEF call
  <2>5. IsFiniteSet(log') /\ \A c \in log' : c.at \in Nat /\ c.at <= hour'
    BY <1>4, <2>2, <2>4, FS_AddElement DEF HoursInv
  <2>6. consents' \in [1 .. 2 -> [status: {"active"}, terms: OfferedTerms, placed: Nat]]
    BY <1>4, <2>1 DEF HoursInv
  <2>7. /\ consents'[k].placed = consents[k].placed + 1
        /\ \A j \in 1 .. 2 : j # k => consents'[j] = consents[j]
    BY <1>4, <2>1 DEF HoursInv
  <2>8. /\ ChargedTo(k)' = ChargedTo(k) \cup {call} /\ call \notin ChargedTo(k)
        /\ \A j \in 1 .. 2 : j # k => ChargedTo(j)' = ChargedTo(j)
    BY <2>3, <2>4 DEF ChargedTo
  <2>9. Cardinality(ChargedTo(k)') = Cardinality(ChargedTo(k)) + 1
    <3>1. IsFiniteSet(ChargedTo(k))
      BY <1>4, FS_Subset DEF HoursInv, ChargedTo
    <3>. QED
      BY <2>8, <3>1, FS_AddElement
  <2>10. \A j \in 1 .. 2 : consents'[j].placed = Cardinality(ChargedTo(j)')
    BY <1>4, <2>7, <2>8, <2>9 DEF HoursInv
  <2>. QED
    BY <2>2, <2>5, <2>6, <2>10 DEF HoursInv
<1>. QED
  BY <1>1, <1>2, <1>3, <1>4 DEF HoursNext

\* A call is permitted exactly when this deployment may ring the number, a consent
\* agreed to the hour and has a call left by the log, and the log has no call within
\* the interval, for any terms, any interval and any instant.
THEOREM PermittedByAgreement == HoursSpec => []PermittedAsAgreed
<1>1. ASSUME HoursInv PROVE PermittedAsAgreed
  <2>1. DOMAIN consents = 1 .. 2
    BY <1>1 DEF HoursInv
  <2>. QED
    BY <1>1, <2>1, SpacingByLog, PermitsByLog
       DEF PermittedAsAgreed, Permitted, Eligible, AllowlistPermits
<1>. QED
  BY <1>1, Hours_Inv, PTL DEF HoursSpec

\* A call is charged to the agreement that expires first of those it could have been
\* charged to, whatever the terms of the two are.
THEOREM SoonestIsCharged == HoursSpec => ChargesTheSoonestToExpire
<1>1. HoursInv /\ [HoursNext]_hoursVars =>
        [\A c \in log' \ log : \A k \in DOMAIN consents :
           AgreedTo(consents[k].terms, hour)
             /\ Cardinality(ChargedTo(k)) < consents[k].terms.maxCalls
             => consents[c.consent].terms.validUntil <= consents[k].terms.validUntil]_hoursVars
  <2>1. SUFFICES ASSUME HoursInv, HoursNext, NEW c \in log' \ log, NEW k \in DOMAIN consents,
                        AgreedTo(consents[k].terms, hour),
                        Cardinality(ChargedTo(k)) < consents[k].terms.maxCalls
                 PROVE  consents[c.consent].terms.validUntil <= consents[k].terms.validUntil
    BY DEF hoursVars
  <2>2. PlaceCall
    BY <2>1 DEF HoursNext, Wait
  <2>3. PICK j \in DOMAIN consents :
          /\ IsFirstPermitting(consents, j, hour)
          /\ log' = log \cup {[at |-> hour, consent |-> j]}
    BY <2>2 DEF PlaceCall
  <2>4. c.consent = j
    BY <2>1, <2>3
  <2>5. ConsentPermits(consents[k], hour)
    BY <2>1, PermitsByLog DEF HoursInv
  <2>. QED
    BY <2>3, <2>4, <2>5 DEF IsFirstPermitting, ComesBefore
<1>. QED
  BY <1>1, Hours_Inv, PTL DEF HoursSpec, ChargesTheSoonestToExpire
=============================================================================
