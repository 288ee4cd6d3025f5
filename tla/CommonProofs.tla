------------------------------ MODULE CommonProofs ----------------------------
(***************************************************************************)
(* What the proofs about the workflow, the jobs and the rule books share:  *)
(* the queue's operators keep the type of its rows, and what the policy    *)
(* makes of the evidence of one call.                                      *)
(***************************************************************************)
EXTENDS TaskQueue, CallEvidence, TLAPS

-----------------------------------------------------------------------------
\* Tasks: each operator of TaskQueue keeps the type of the table.

\* A task row as it is inserted, and one whose fields are replaced.
LEMMA TaskRows ==
  ASSUME NEW fields \in SUBSET Fields
  PROVE  /\ NewTask(fields) \in Task
         /\ \A task \in Task : [task EXCEPT !.fields = fields] \in Task
         /\ \A task \in Task : [task EXCEPT !.fields = @ \cup fields] \in Task
  BY DEF NewTask, UnusedTask, Task, TaskStatuses, OpenStatuses

\* Opening or raising a task (create_verification_task, report_failure).
LEMMA RequestTaskType ==
  ASSUME tasks \in [TaskIds -> Task], NEW s \in Services, NEW fields \in SUBSET Fields,
         RequestTask(s, fields)
  PROVE  tasks' \in [TaskIds -> Task]
<1>1. \A t \in TaskIds : tasks[t] \in Task
  OBVIOUS
<1>. QED
  BY <1>1, TaskRows DEF RequestTask

\* Recomputing the queue (refresh_queue).
LEMMA RefreshQueueType ==
  ASSUME tasks \in [TaskIds -> Task], NEW active, NEW aged, NEW stale,
         RefreshQueue(active, aged, stale)
  PROVE  tasks' \in [TaskIds -> Task]
<1>1. \A fields \in {RoutineFields, RoutineFields \cup AgedFields} : fields \in SUBSET Fields
  BY QueueAssumption
<1>2. \A t \in TaskIds : tasks[t] \in Task
  OBVIOUS
<1>. QED
  BY <1>1, <1>2, TaskRows DEF RefreshQueue

\* The delay before a retry is a number of days (record_verification).
LEMMA RetryDelayType ==
  ASSUME NEW attempt \in Nat, attempt > 0
  PROVE  RetryDelay(attempt) \in Nat
  BY DEF RetryDelay, RetryDelays

\* The moves of one task: claimed, released, requeued, settled, completed.
LEMMA MoveTaskType ==
  ASSUME tasks \in [TaskIds -> Task], now \in Nat, NEW t \in TaskIds, NEW pending \in BOOLEAN,
         \/ ClaimTask(t) \/ ReleaseTask(t) \/ RequeueTask(t) \/ SettleTask(t, pending)
         \/ CompleteTask(t)
  PROVE  tasks' \in [TaskIds -> Task]
<1>1. tasks[t].attempts \in Nat
  BY DEF Task
<1>2. RetryDelay(tasks[t].attempts + 1) \in Nat
  BY <1>1, RetryDelayType
<1>3. CASE RequeueTask(t)
  <2>1. now + 24 * RetryDelay(tasks[t].attempts + 1) \in Nat
    BY <1>2
  <2>. QED
    BY <1>1, <1>3, <2>1 DEF RequeueTask, Task, TaskStatuses, OpenStatuses
<1>. QED
  BY <1>1, <1>3
     DEF ClaimTask, ReleaseTask, SettleTask, CompleteTask, Task, TaskStatuses, OpenStatuses

-----------------------------------------------------------------------------
\* Evidence and verdicts.

ReadableEvidence ==
  {e \in [outcome: Outcomes, events: SUBSET EventKinds, claims: SUBSET Claim,
          confirmed: SUBSET Fields] : \A c \in e.claims : c.value \in Values}

\* What build_evidence returns about a contract is evidence the policy can read,
\* and each of its claims proposes a value.
LEMMA ReadEvidenceType ==
  ASSUME NEW asked \in SUBSET Fields, NEW e \in ReadEvidence(asked)
  PROVE  e \in ReadableEvidence
<1>1. PICK call \in Telephony \X EventSets :
        \E a \in IF ResolvedOutcome(call[1], call[2]) \in ContactOutcomes
                THEN Answers(asked) ELSE {NoAnswers} :
          e = [outcome |-> ResolvedOutcome(call[1], call[2]), events |-> call[2],
               claims |-> a.claims, confirmed |-> a.confirmed]
  BY DEF ReadEvidence
<1>2. PICK a \in Answers(asked) \cup {NoAnswers} :
          e = [outcome |-> ResolvedOutcome(call[1], call[2]), events |-> call[2],
               claims |-> a.claims, confirmed |-> a.confirmed]
  BY <1>1
<1>3. call[1] \in Outcomes /\ call[2] \in SUBSET EventKinds
  BY EvidenceAssumption DEF Outcomes, ContactOutcomes
<1>4. ResolvedOutcome(call[1], call[2]) \in Outcomes
  BY <1>3 DEF ResolvedOutcome, Outcomes, ContactOutcomes
<1>5. \A c \in OfferedClaims(asked) : c \in Claim /\ c.value \in Values
  <2>1. Corroborated \in Grade /\ HintOnly \in Grade /\ Stated(FALSE, FALSE) \in Grade
    BY DEF Grade, Corroborated, HintOnly, Stated
  <2>2. ASSUME NEW f \in asked, NEW c \in ClaimsOn(f)
        PROVE  c \in Claim /\ c.value \in Values
    <3>1. c \in [field: {f}, value: Values, grade: {Corroborated, HintOnly}]
      BY DEF ClaimsOn
    <3>. QED
      BY <2>1, <3>1 DEF Claim
  <2>3. ASSUME NEW c \in ClosureClaims(asked)
        PROVE  c \in Claim /\ c.value \in Values
    <3>1. PICK r \in Fields \X Values :
            c = [field |-> r[1], value |-> r[2], grade |-> Stated(FALSE, FALSE)]
      BY PolicyAssumption DEF ClosureClaims
    <3>. QED
      BY <2>1, <3>1 DEF Claim
  <2>4. ASSUME NEW c \in OfferedClaims(asked)
        PROVE  (\E f \in asked : c \in ClaimsOn(f)) \/ c \in ClosureClaims(asked)
    BY DEF OfferedClaims
  <2>. QED
    BY <2>2, <2>3, <2>4
<1>6. a.claims \in SUBSET OfferedClaims(asked) /\ a.confirmed \in SUBSET Fields
  BY DEF Answers, NoAnswers
<1>. QED
  BY <1>2, <1>3, <1>4, <1>5, <1>6 DEF ReadableEvidence

\* overall: the verdict of a call is the verdict of one of its parts, and no part
\* has a more severe one.
LEMMA WorstVerdict ==
  ASSUME NEW D, D # {}, \A d \in D : d.authority \in Authority
  PROVE  /\ Overall(D) \in Authority
         /\ \E d \in D : d.authority = Overall(D)
         /\ \A d \in D : d.authority <= Overall(D)
<1>1. \E a \in Authority : /\ \E d \in D : d.authority = a
                           /\ \A d \in D : d.authority <= a
  <2>. DEFINE Reached(a) == \E d \in D : d.authority = a
  <2>1. Reached(0) \/ Reached(1) \/ Reached(2) \/ Reached(3)
    BY DEF Authority, REFRESH, STOP
  <2>2. CASE Reached(3)
    BY <2>2 DEF Authority, REFRESH, STOP
  <2>3. CASE ~Reached(3) /\ Reached(2)
    BY <2>3 DEF Authority, REFRESH, STOP
  <2>4. CASE ~Reached(3) /\ ~Reached(2) /\ Reached(1)
    BY <2>4 DEF Authority, REFRESH, STOP
  <2>5. CASE ~Reached(3) /\ ~Reached(2) /\ ~Reached(1) /\ Reached(0)
    BY <2>5 DEF Authority, REFRESH, STOP
  <2>. QED
    BY <2>1, <2>2, <2>3, <2>4, <2>5
<1>. QED
  BY <1>1 DEF Overall

\* What classify says of a call is one of the five kinds of verdict, or the one it
\* falls back on; what was heard is in it whatever the outcome.
LEMMA Verdicts ==
  ASSUME NEW e, NEW questions
  PROVE  /\ Classify(e, questions) # {}
         /\ SafetyDecisions(e) \subseteq Classify(e, questions)
         /\ Classify(e, questions) \subseteq
              SafetyDecisions(e) \cup StopDecision(e) \cup ClaimDecisions(e)
                \cup ConfirmationDecisions(e) \cup MissingDecision(e, questions)
                \cup {About("no_contact", REFRESH), About("nothing", REVIEW)}
<1>. DEFINE S == SafetyDecisions(e)
            R == S \cup StopDecision(e) \cup ClaimDecisions(e)
                   \cup ConfirmationDecisions(e) \cup MissingDecision(e, questions)
<1>1. Classify(e, questions) = IF ~ReachedSomeone(e) THEN OrElse(S, About("no_contact", REFRESH))
                                                     ELSE OrElse(R, About("nothing", REVIEW))
  BY DEF Classify
<1>2. \A D, default : /\ OrElse(D, default) # {} /\ D \subseteq OrElse(D, default)
                      /\ OrElse(D, default) \subseteq D \cup {default}
  BY DEF OrElse
<1>3. S \subseteq R
  OBVIOUS
<1>4. CASE ~ReachedSomeone(e)
  <2>1. Classify(e, questions) = OrElse(S, About("no_contact", REFRESH))
    BY <1>1, <1>4
  <2>. HIDE DEF S
  <2>2. /\ Classify(e, questions) # {} /\ S \subseteq Classify(e, questions)
        /\ Classify(e, questions) \subseteq S \cup {About("no_contact", REFRESH)}
    BY <1>2, <2>1
  <2>. QED
    BY <2>2 DEF S
<1>5. CASE ReachedSomeone(e)
  <2>1. Classify(e, questions) = OrElse(R, About("nothing", REVIEW))
    BY <1>1, <1>5
  <2>. HIDE DEF R, S
  <2>2. /\ Classify(e, questions) # {} /\ S \subseteq Classify(e, questions)
        /\ Classify(e, questions) \subseteq R \cup {About("nothing", REVIEW)}
    BY <1>2, <1>3, <2>1
  <2>. QED
    BY <2>2 DEF R, S
<1>. QED
  BY <1>4, <1>5

\* A claim is put to a person or applied, nothing else.
LEMMA ClaimVerdicts ==
  ASSUME NEW c PROVE ClassifyClaim(c) \in {APPLY, REVIEW}
BY DEF ClassifyClaim

\* Every verdict is one of the four, and there is always one (classify: "Never
\* empty").
LEMMA ClassifyType ==
  ASSUME NEW e, NEW questions
  PROVE  /\ Classify(e, questions) # {}
         /\ \A d \in Classify(e, questions) : d.authority \in Authority
<1>. SUFFICES ASSUME NEW d \in Classify(e, questions) PROVE d.authority \in Authority
  BY Verdicts
<1>1. {REFRESH, APPLY, REVIEW, STOP} \subseteq Authority
  BY DEF REFRESH, APPLY, REVIEW, STOP, Authority
<1>2. CASE d \in SafetyDecisions(e)
  BY <1>1, <1>2 DEF SafetyDecisions, About
<1>3. CASE d \in StopDecision(e) \cup ConfirmationDecisions(e) \cup MissingDecision(e, questions)
  BY <1>1, <1>3 DEF StopDecision, ConfirmationDecisions, MissingDecision, About, OnField
<1>4. CASE d \in ClaimDecisions(e)
  BY <1>1, <1>4, ClaimVerdicts DEF ClaimDecisions, OnField
<1>5. CASE d \in {About("no_contact", REFRESH), About("nothing", REVIEW)}
  BY <1>1, <1>5 DEF About
<1>. QED
  BY <1>2, <1>3, <1>4, <1>5, Verdicts

\* Anything heard that ends or qualifies a call is put to a person (safety).
LEMMA HeardNeedsAPerson ==
  ASSUME NEW e, NEW questions, NEW kind \in e.events
  PROVE  /\ NeedsAPerson(Classify(e, questions))
         /\ \E d \in Classify(e, questions) :
              d.authority = IF kind \in StopEvents THEN STOP ELSE REVIEW
<1>. DEFINE d == About(kind, IF kind \in StopEvents THEN STOP ELSE REVIEW)
<1>1. d \in Classify(e, questions)
  BY Verdicts DEF SafetyDecisions
<1>2. d.authority = IF kind \in StopEvents THEN STOP ELSE REVIEW
  BY DEF About
<1>. QED
  BY <1>1, <1>2 DEF NeedsAPerson

\* The outcome of a call is the one its status is mapped to, unless an event of it
\* says otherwise (build_evidence).
Resolved(e) == \E status \in Telephony : e.outcome = ResolvedOutcome(status, e.events)

\* What build_evidence returns has such an outcome, and one claim per field at most.
LEMMA ReadEvidenceResolved ==
  ASSUME NEW asked, NEW e \in ReadEvidence(asked)
  PROVE  Resolved(e) /\ OneClaimPerField(e.claims)
<1>1. PICK call \in Telephony \X EventSets, a \in Answers(asked) \cup {NoAnswers} :
          e = [outcome |-> ResolvedOutcome(call[1], call[2]), events |-> call[2],
               claims |-> a.claims, confirmed |-> a.confirmed]
  BY DEF ReadEvidence
<1>2. OneClaimPerField(a.claims)
  BY DEF Answers, NoAnswers, OneClaimPerField
<1>3. call[1] \in Telephony /\ e.outcome = ResolvedOutcome(call[1], e.events) /\ e.claims = a.claims
  BY <1>1
<1>. QED
  BY <1>2, <1>3 DEF Resolved

\* A call that reached somebody and needs nobody was completed and free of events,
\* each of its claims is to be applied and no question of it is open.
LEMMA Unattended ==
  ASSUME NEW e, Resolved(e), ReachedSomeone(e), NEW questions,
         ~NeedsAPerson(Classify(e, questions))
  PROVE  /\ e.events = {} /\ e.outcome = "completed"
         /\ \A c \in e.claims : ClassifyClaim(c) = APPLY
         /\ questions \subseteq Covered(e)
<1>1. e.events = {}
  BY HeardNeedsAPerson
<1>2. e.outcome = "completed"
  <2>1. PICK status \in Telephony : e.outcome = ResolvedOutcome(status, e.events)
    BY DEF Resolved
  <2>2. e.outcome \in Telephony /\ e.outcome \in ContactOutcomes
    BY <1>1, <2>1 DEF ResolvedOutcome, ReachedSomeone
  <2>3. NoContactOutcomes \cap ContactOutcomes = {}
    BY DEF NoContactOutcomes, ContactOutcomes
  <2>. QED
    BY <2>2, <2>3, EvidenceAssumption
<1>3. ClaimDecisions(e) \cup MissingDecision(e, questions) \subseteq Classify(e, questions)
  BY DEF Classify, OrElse
<1>4. ASSUME NEW c \in e.claims PROVE ClassifyClaim(c) = APPLY
  <2>1. SUFFICES ASSUME ClassifyClaim(c) = REVIEW PROVE FALSE
    BY ClaimVerdicts
  <2>2. OnField("claim", REVIEW, c.field) \in Classify(e, questions)
    BY <1>3, <2>1 DEF ClaimDecisions
  <2>. QED
    BY <2>2 DEF NeedsAPerson, OnField
<1>5. ASSUME NEW c \in e.claims PROVE ~RemovesService(c)
  <2>1. ClassifyClaim(c) = APPLY
    BY <1>4
  <2>. QED
    BY <2>1 DEF ClassifyClaim, APPLY, REVIEW
<1>6. MissingDecision(e, questions) = {}
  <2>1. About("missing", REVIEW) \notin Classify(e, questions)
    BY DEF NeedsAPerson, About
  <2>. QED
    BY <1>3, <2>1 DEF MissingDecision
<1>7. questions \subseteq Covered(e)
  BY <1>2, <1>5, <1>6 DEF MissingDecision
<1>. QED
  BY <1>1, <1>2, <1>4, <1>7
=============================================================================
