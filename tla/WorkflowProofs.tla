---------------------------- MODULE WorkflowProofs ----------------------------
(***************************************************************************)
(* Proofs about the verification workflow, for any number of services,     *)
(* organizations, workers, consents and calls, and any evidence: its       *)
(* types, which tasks are open, who may be working on what and for how     *)
(* long, and what a recorded call leaves to be decided.                    *)
(***************************************************************************)
EXTENDS WorkflowProperties, CommonProofs

-----------------------------------------------------------------------------
\* Consents and calls.

\* Recording a consent (create_consent).
LEMMA CreateConsentType ==
  ASSUME LedgerTypeOK, NEW k \in ConsentIds, NEW org \in Organizations,
         NEW terms \in ConsentTerms, CreateConsent(k, org, terms)
  PROVE  LedgerTypeOK'
<1>1. terms \in Terms /\ terms.phone \in Numbers
  BY LedgerAssumption DEF Terms
<1>2. [status |-> "active", org |-> org, terms |-> terms, placed |-> 0] \in Consent
  BY <1>1 DEF Consent
<1>3. \A j \in ConsentIds : Recorded(j) => [consents[j] EXCEPT !.status = "withdrawn"] \in Consent
  BY DEF LedgerTypeOK, Recorded, Consent, NoRow
<1>4. consents' \in [ConsentIds -> Consent \cup {NoRow}]
  BY <1>2, <1>3 DEF LedgerTypeOK, CreateConsent
<1>5. publicPhone' \in [Organizations -> Numbers]
  BY <1>1 DEF LedgerTypeOK, CreateConsent
<1>. QED
  BY <1>4, <1>5 DEF LedgerTypeOK, CreateConsent, Call

\* Charging a consent and writing the call (reserve_call).
LEMMA ReserveCallType ==
  ASSUME LedgerTypeOK, now \in Nat, NEW c \in CallIds, NEW t \in TaskIds, NEW number \in Numbers,
         ReserveCall(c, t, number)
  PROVE  LedgerTypeOK'
<1>1. PICK k \in DOMAIN ConsentsOf(OrgOfTask(t)) :
        /\ consents' = [consents EXCEPT ![k].placed = @ + 1]
        /\ calls' = [calls EXCEPT ![c] =
             [status |-> "reserved", task |-> t, consent |-> k, at |-> now,
              destination |-> number, attached |-> FALSE]]
        /\ UNCHANGED <<publicPhone, doNotCall>>
  BY DEF ReserveCall
<1>2. k \in ConsentIds /\ consents[k] \in Consent
  BY DEF ConsentsOf, LedgerTypeOK, Recorded, NoRow
<1>3. [consents[k] EXCEPT !.placed = @ + 1] \in Consent
  BY <1>2 DEF Consent
<1>4. consents' \in [ConsentIds -> Consent \cup {NoRow}]
  BY <1>1, <1>2, <1>3 DEF LedgerTypeOK
<1>5. [status |-> "reserved", task |-> t, consent |-> k, at |-> now,
       destination |-> number, attached |-> FALSE] \in Call
  BY <1>2 DEF Call, CallStatuses
<1>. QED
  BY <1>1, <1>4, <1>5 DEF LedgerTypeOK

\* The moves of one call (attach_calle_run, update_call_run).
LEMMA MoveCallType ==
  ASSUME LedgerTypeOK, NEW c \in CallIds, Placed(c),
         AttachRun(c) \/ \E status \in {"completed", "failed"} : UpdateCall(c, status)
  PROVE  LedgerTypeOK' /\ \A d \in CallIds : Placed(d)' <=> Placed(d)
<1>1. calls[c] \in Call
  BY DEF LedgerTypeOK, Placed, NoRow
<1>2. /\ [calls[c] EXCEPT !.status = "dialing", !.attached = TRUE] \in Call
      /\ \A status \in {"completed", "failed"} : [calls[c] EXCEPT !.status = status] \in Call
  BY <1>1 DEF Call, CallStatuses
<1>3. calls' \in [CallIds -> Call \cup {NoRow}]
  BY <1>2 DEF LedgerTypeOK, AttachRun, UpdateCall
<1>4. calls'[c].status # "unused"
  BY <1>1, <1>2 DEF LedgerTypeOK, AttachRun, UpdateCall, Call, CallStatuses
<1>5. \A d \in CallIds : d # c => calls'[d] = calls[d]
  BY DEF LedgerTypeOK, AttachRun, UpdateCall
<1>. QED
  BY <1>3, <1>4, <1>5 DEF LedgerTypeOK, AttachRun, UpdateCall, Placed

-----------------------------------------------------------------------------
\* Verdicts.

\* A verdict that needs a person and is about no claim says why (safety_flags).
LEMMA ClassifyCauses ==
  ASSUME NEW e \in ReadableEvidence, NEW asked, NEW d \in Classify(e, asked),
         ~OnClaim(d), d.authority >= REVIEW
  PROVE  d.cause \in Causes
<1>1. e.events \subseteq EventKinds
  BY DEF ReadableEvidence
<1>2. \A x \in SafetyDecisions(e) : x.cause \in Causes
  BY <1>1 DEF SafetyDecisions, About, Causes
<1>3. \A x \in StopDecision(e) \cup MissingDecision(e, asked) : x.cause \in Causes
  BY DEF StopDecision, MissingDecision, About, Causes
<1>4. \A x \in ClaimDecisions(e) : OnClaim(x)
  BY DEF ClaimDecisions, OnField, OnClaim
<1>5. \A x \in ConfirmationDecisions(e) : ~(x.authority >= REVIEW)
  BY DEF ConfirmationDecisions, OnField, REFRESH, REVIEW
<1>6. d # About("no_contact", REFRESH)
  BY DEF About, REFRESH, REVIEW
<1>7. About("nothing", REVIEW).cause \in Causes
  BY DEF About, Causes
<1>8. CASE ~ReachedSomeone(e)
  BY <1>2, <1>6, <1>8 DEF Classify, OrElse
<1>9. CASE ReachedSomeone(e)
  <2>1. \/ d \in SafetyDecisions(e)
        \/ d \in StopDecision(e) \cup MissingDecision(e, asked)
        \/ d \in ClaimDecisions(e)
        \/ d \in ConfirmationDecisions(e)
        \/ d = About("nothing", REVIEW)
    BY <1>9 DEF Classify, OrElse
  <2>. QED
    BY <1>2, <1>3, <1>4, <1>5, <1>7, <2>1
<1>. QED
  BY <1>8, <1>9

-----------------------------------------------------------------------------
\* The record and the desk.

\* An assurance date is a day.
LEMMA DayType ==
  ASSUME NEW at \in Nat
  PROVE  Day(at) \in Nat
  BY DEF Day, HoursPerDay

\* Writing a run (record_verification).
LEMMA WriteRunType ==
  ASSUME DeskTypeOK, now \in Nat, NEW c \in CallIds, NEW s \in Services,
         NEW asked \in SUBSET Fields, NEW e \in ReadableEvidence,
         WriteRun(c, s, asked, e, Classify(e, asked))
  PROVE  DeskTypeOK'
<1>. DEFINE ds == Classify(e, asked)
            applied == Applied(e, ds)
<1>1. /\ ds # {} /\ \A d \in ds : d.authority \in Authority
      /\ Overall(ds) \in Authority
  BY ClassifyType, WorstVerdict
<1>2. \A a \in e.claims : a.field \in Fields /\ a.value \in Values
  BY DEF ReadableEvidence, Claim
<1>3. Decided(e, ds) \subseteq e.claims /\ applied \subseteq e.claims
  BY DEF Decided, Applied
<1>4. Covered(e) \in SUBSET Fields /\ e.outcome \in Outcomes
  BY <1>2 DEF Covered, ReadableEvidence
<1>5. runs' \in [CallIds -> Run \cup {NoRow}]
  <2>1. [status |-> IF NeedsAPerson(ds) THEN "needs_review" ELSE "completed",
         outcome |-> e.outcome, tier |-> Overall(ds),
         asked |-> asked, covered |-> Covered(e)] \in Run
    BY <1>1, <1>4 DEF Run
  <2>. QED
    BY <2>1 DEF DeskTypeOK, WriteRun
<1>6. ProposalsOf(e, ds) \in [Fields -> Proposal \cup {NoProposal}]
  <2>1. ASSUME NEW f \in Fields, \E x \in Decided(e, ds) : x.field = f
        PROVE  LET x == CHOOSE x \in Decided(e, ds) : x.field = f
               IN  [status |-> IF x \in applied THEN "applied" ELSE "pending",
                    value |-> x.value] \in Proposal
    <3>. DEFINE x == CHOOSE x \in Decided(e, ds) : x.field = f
    <3>1. x \in Decided(e, ds)
      BY <2>1
    <3>2. x.value \in Values
      BY <1>2, <1>3, <3>1
    <3>. QED
      BY <3>2 DEF Proposal, ProposalStatuses
  <2>. QED
    BY <2>1 DEF ProposalsOf
<1>7. proposals' \in [CallIds -> [Fields -> Proposal \cup {NoProposal}]]
  BY <1>6 DEF DeskTypeOK, WriteRun
<1>8. FlagsOf(ds) \subseteq Causes
  BY ClassifyCauses DEF FlagsOf
<1>9. flags' \in [CallIds -> SUBSET Causes]
  BY <1>8 DEF DeskTypeOK, WriteRun
<1>10. record' \in [Services -> [Fields -> Values]]
  <2>1. \A f \in Fields : (\E a \in applied : a.field = f)
          => (CHOOSE a \in applied : a.field = f).value \in Values
    BY <1>2, <1>3
  <2>2. [f \in Fields |-> IF \E a \in applied : a.field = f
                          THEN (CHOOSE a \in applied : a.field = f).value
                          ELSE record[s][f]] \in [Fields -> Values]
    BY <2>1 DEF DeskTypeOK
  <2>. QED
    BY <2>2 DEF DeskTypeOK, WriteRun
<1>11. assured' \in [Services -> Nat]
  BY DayType DEF DeskTypeOK, WriteRun
<1>. QED
  BY <1>5, <1>7, <1>9, <1>10, <1>11 DEF DeskTypeOK

\* Closing a run after a decision (_complete_reviewed_run); the run and its call
\* exist, or there would be nothing to decide.
LEMMA FinishReviewType ==
  ASSUME DeskTypeOK, QueueTypeOK, now \in Nat, NEW c \in CallIds, HasRun(c),
         calls[c].task \in TaskIds, NEW proposal, NEW open, FinishReview(c, proposal, open)
  PROVE  /\ runs' \in [CallIds -> Run \cup {NoRow}]
         /\ assured' \in [Services -> Nat]
         /\ QueueTypeOK'
<1>1. runs[c] \in Run
  BY DEF DeskTypeOK, HasRun, NoRow
<1>2. [runs[c] EXCEPT !.status = "completed"] \in Run
  BY <1>1 DEF Run
<1>3. runs' \in [CallIds -> Run \cup {NoRow}]
  BY <1>2 DEF FinishReview, DeskTypeOK
<1>4. assured' \in [Services -> Nat]
  BY DayType DEF FinishReview, DeskTypeOK
<1>5. tasks' \in [TaskIds -> Task]
  BY MoveTaskType DEF FinishReview, QueueTypeOK, queueVars
<1>6. reports' \in [Services -> SUBSET Reasons]
  BY DEF FinishReview, QueueTypeOK, queueVars, ResolveReports
<1>7. UNCHANGED organizationOf
  BY DEF FinishReview, queueVars
<1>. QED
  BY <1>3, <1>4, <1>5, <1>6, <1>7 DEF QueueTypeOK

\* A run is written only for a call that was placed, and only a run has anything
\* to decide: the part of the invariant that types a curator's decision.
RunsHaveCalls ==
  \A c \in CallIds :
    /\ HasRun(c) => Placed(c)
    /\ ~HasRun(c) => flags[c] = {} /\ \A f \in Fields : proposals[c][f] = NoProposal

\* A curator's decision about a run (resolve_decision, correct_applied_change).
LEMMA ReviewType ==
  ASSUME WorkflowTypeOK, RunsHaveCalls, Review
  PROVE  DeskTypeOK' /\ QueueTypeOK' /\ RunsHaveCalls'
<1>1. PICK c \in CallIds :
       \/ \E f \in Fields : Approve(c, f) \/ Reject(c, f)
       \/ \E f \in Fields, v \in Values : Edit(c, f, v) \/ CorrectApplied(c, f, v)
       \/ \E cause \in Causes : Acknowledge(c, cause)
  BY DEF Review
<1>2. HasRun(c)
  BY <1>1 DEF RunsHaveCalls, Approve, Reject, Edit, CorrectApplied, Acknowledge, Pending, NoProposal
<1>3. calls[c] \in Call /\ calls[c].task \in TaskIds
  BY <1>2 DEF RunsHaveCalls, Placed, WorkflowTypeOK, LedgerTypeOK, NoRow, Call
<1>4. ServiceOfCall(c) \in Services
  BY <1>3 DEF ServiceOfCall, ServiceOf, TaskIds
<1>. USE DEF WorkflowTypeOK
<1>5. ASSUME NEW f \in Fields, NEW v \in Values, Publish(c, f, v)
      PROVE  record' \in [Services -> [Fields -> Values]]
  BY <1>4, <1>5 DEF Publish, DeskTypeOK
<1>6. ASSUME NEW f \in Fields, NEW v \in Values,
             NEW status \in {"approved", "rejected", "edited"}, Decide(c, f, status, v)
      PROVE  /\ runs' \in [CallIds -> Run \cup {NoRow}]
             /\ assured' \in [Services -> Nat] /\ QueueTypeOK'
             /\ proposals' \in [CallIds -> [Fields -> Proposal \cup {NoProposal}]]
             /\ UNCHANGED flags
  <2>1. [status |-> status, value |-> v] \in Proposal
    BY DEF Proposal, ProposalStatuses
  <2>2. proposals' \in [CallIds -> [Fields -> Proposal \cup {NoProposal}]]
    BY <1>6, <2>1 DEF Decide, DeskTypeOK
  <2>3. UNCHANGED flags
    BY <1>6 DEF Decide
  <2>4. PICK proposal : FinishReview(c, proposal, flags[c])
    BY <1>6 DEF Decide
  <2>. QED
    BY <1>2, <1>3, <2>2, <2>3, <2>4, FinishReviewType
<1>7. ASSUME NEW f \in Fields, f \in Pending(c)
      PROVE  proposals[c][f].value \in Values
  BY <1>7 DEF Pending, DeskTypeOK, Proposal, NoProposal
<1>8. DeskTypeOK' /\ QueueTypeOK'
  <2>1. CASE \E f \in Fields : Approve(c, f) \/ Reject(c, f)
    <3>1. PICK f \in Fields : Approve(c, f) \/ Reject(c, f)
      BY <2>1
    <3>2. proposals[c][f].value \in Values
      BY <1>7, <3>1 DEF Approve, Reject
    <3>3. record' \in [Services -> [Fields -> Values]]
      BY <1>5, <3>1, <3>2 DEF Approve, Reject, DeskTypeOK
    <3>4. \E status \in {"approved", "rejected", "edited"} :
             Decide(c, f, status, proposals[c][f].value)
      BY <3>1 DEF Approve, Reject
    <3>. QED
      BY <1>6, <3>2, <3>3, <3>4 DEF DeskTypeOK
  <2>2. CASE \E f \in Fields, v \in Values : Edit(c, f, v)
    <3>1. PICK f \in Fields, v \in Values : Publish(c, f, v) /\ Decide(c, f, "edited", v)
      BY <2>2 DEF Edit
    <3>. QED
      BY <1>5, <1>6, <3>1 DEF DeskTypeOK
  <2>3. CASE \E f \in Fields, v \in Values : CorrectApplied(c, f, v)
    <3>1. PICK f \in Fields, v \in Values : CorrectApplied(c, f, v)
      BY <2>3
    <3>2. record' \in [Services -> [Fields -> Values]]
      BY <1>5, <3>1 DEF CorrectApplied
    <3>3. [status |-> "edited", value |-> v] \in Proposal
      BY DEF Proposal, ProposalStatuses
    <3>. QED
      BY <3>1, <3>2, <3>3 DEF CorrectApplied, DeskTypeOK, QueueTypeOK, queueVars
  <2>4. CASE \E cause \in Causes : Acknowledge(c, cause)
    <3>1. PICK cause \in Causes : Acknowledge(c, cause)
      BY <2>4
    <3>2. flags' \in [CallIds -> SUBSET Causes]
      BY <3>1 DEF Acknowledge, DeskTypeOK
    <3>3. FinishReview(c, proposals[c], flags[c] \ {cause})
      BY <3>1 DEF Acknowledge
    <3>4. /\ runs' \in [CallIds -> Run \cup {NoRow}]
          /\ assured' \in [Services -> Nat] /\ QueueTypeOK'
      BY <1>2, <1>3, <3>3, FinishReviewType
    <3>. QED
      BY <3>1, <3>2, <3>4 DEF Acknowledge, DeskTypeOK
  <2>. QED
    BY <1>1, <2>1, <2>2, <2>3, <2>4
<1>9. /\ UNCHANGED calls
      /\ \A d \in CallIds \ {c} : proposals'[d] = proposals[d] /\ flags'[d] = flags[d]
  BY <1>1 DEF Approve, Reject, Edit, CorrectApplied, Acknowledge, Decide, ledgerVars, DeskTypeOK
<1>10. \/ UNCHANGED runs
       \/ runs' = [runs EXCEPT ![c].status = "completed"]
  BY <1>1 DEF Approve, Reject, Edit, CorrectApplied, Acknowledge, Decide, FinishReview
<1>11. \A d \in CallIds : HasRun(d)' <=> HasRun(d)
  <2>1. runs[c] \in Run
    BY <1>2 DEF DeskTypeOK, HasRun, NoRow
  <2>. QED
    BY <1>2, <1>10, <2>1 DEF DeskTypeOK, HasRun, Run
<1>12. RunsHaveCalls'
  BY <1>2, <1>9, <1>11 DEF RunsHaveCalls, Placed
<1>. QED
  BY <1>8, <1>12

-----------------------------------------------------------------------------
\* Type correctness.

\* A worker past the reservation holds a call that was placed.
WorkersHoldCalls ==
  \A w \in Workers : IsBusy(w) =>
    \/ CallOf(w) = NoCall /\ workers[w].pc \in {"claimed", "failing", "releasing"}
    \/ CallOf(w) \in CallIds /\ Placed(CallOf(w))

TypeInv == WorkflowTypeOK /\ RunsHaveCalls /\ WorkersHoldCalls

\* The initial states satisfy the invariant.
LEMMA TypeInit == Init => TypeInv
<1>. SUFFICES ASSUME Init PROVE TypeInv
  OBVIOUS
<1>1. now \in Nat
  BY WorkflowAssumption DEF Init
<1>2. QueueTypeOK
  BY QueueAssumption DEF Init, QueueInit, QueueTypeOK, UnusedTask, Task, TaskStatuses, OpenStatuses
<1>3. LedgerTypeOK
  BY LedgerAssumption DEF Init, LedgerInit, LedgerTypeOK
<1>4. DeskTypeOK
  BY DEF Init, DeskInit, DeskTypeOK
<1>5. workers \in [Workers -> Busy \cup {Idle}] /\ line \in [CallIds -> LinePhases]
  BY DEF Init, LinePhases
<1>6. RunsHaveCalls
  BY DEF Init, DeskInit, RunsHaveCalls, HasRun, NoRow
<1>7. WorkersHoldCalls
  BY DEF Init, WorkersHoldCalls, IsBusy, Idle
<1>. QED
  BY <1>1, <1>2, <1>3, <1>4, <1>5, <1>6, <1>7 DEF TypeInv, WorkflowTypeOK

\* A worker that moves on to another stage keeps what it holds.
LEMMA GoToType ==
  ASSUME TypeInv, NEW w \in Workers, IsBusy(w), NEW stage \in Stages, GoTo(w, stage)
  PROVE  /\ workers[w] \in Busy
         /\ workers' \in [Workers -> Busy \cup {Idle}]
         /\ \A v \in Workers : v # w => workers'[v] = workers[v]
         /\ workers'[w].pc = stage /\ workers'[w].call = CallOf(w)
<1>1. workers[w] \in Busy
  BY DEF TypeInv, WorkflowTypeOK, IsBusy, Idle
<1>2. [workers[w] EXCEPT !.pc = stage] \in Busy
  BY <1>1 DEF Busy
<1>. QED
  BY <1>1, <1>2 DEF GoTo, TypeInv, WorkflowTypeOK, CallOf, Busy

\* A worker that stops holds nothing.
LEMMA BecomeIdleType ==
  ASSUME TypeInv, NEW w \in Workers, BecomeIdle(w)
  PROVE  /\ workers' \in [Workers -> Busy \cup {Idle}]
         /\ \A v \in Workers : v # w => workers'[v] = workers[v]
         /\ ~IsBusy(w)'
  BY DEF BecomeIdle, TypeInv, WorkflowTypeOK, IsBusy, Idle

\* WorkersHoldCalls when one worker moves and no call is taken away.
LEMMA OthersHoldCalls ==
  ASSUME TypeInv, NEW w \in Workers,
         \A v \in Workers : v # w => workers'[v] = workers[v],
         \A c \in CallIds : Placed(c) => Placed(c)',
         \/ ~IsBusy(w)'
         \/ workers'[w].call = NoCall /\ workers'[w].pc \in {"claimed", "failing", "releasing"}
         \/ \E c \in CallIds : workers'[w].call = c /\ Placed(c)'
  PROVE  WorkersHoldCalls'
<1>1. ASSUME NEW v \in Workers, v # w, IsBusy(v)'
      PROVE  \/ CallOf(v)' = NoCall /\ workers'[v].pc \in {"claimed", "failing", "releasing"}
             \/ CallOf(v)' \in CallIds /\ Placed(CallOf(v))'
  <2>1. workers'[v] = workers[v] /\ IsBusy(v)
    BY <1>1 DEF IsBusy
  <2>. QED
    BY <2>1 DEF TypeInv, WorkersHoldCalls, CallOf, Placed
<1>2. ASSUME IsBusy(w)'
      PROVE  \/ CallOf(w)' = NoCall /\ workers'[w].pc \in {"claimed", "failing", "releasing"}
             \/ CallOf(w)' \in CallIds /\ Placed(CallOf(w))'
  BY <1>2 DEF CallOf, Placed
<1>. QED
  BY <1>1, <1>2 DEF WorkersHoldCalls

\* The stages at which a worker does not yet, or may not, hold a call.
LEMMA HeldCall ==
  ASSUME TypeInv, NEW w \in Workers,
         workers[w].pc \in {"reserved", "started", "observing", "closed"}
  PROVE  CallOf(w) \in CallIds /\ Placed(CallOf(w))
  BY DEF TypeInv, WorkersHoldCalls, IsBusy

\* What a busy worker holds is typed.
LEMMA BusyType ==
  ASSUME TypeInv, NEW w \in Workers, IsBusy(w)
  PROVE  /\ workers[w] \in Busy /\ TaskOf(w) \in TaskIds
         /\ workers[w].asked \in SUBSET Fields /\ workers[w].number \in Numbers
         /\ CallOf(w) \in CallIds \cup {NoCall}
         /\ ServiceOf(TaskOf(w)) \in Services
  BY DEF TypeInv, WorkflowTypeOK, IsBusy, Idle, Busy, TaskOf, CallOf, ServiceOf, TaskIds

\* Claiming a task (claim_task).
LEMMA TakeTaskType ==
  ASSUME TypeInv, NEW w \in Workers, NEW t \in TaskIds, TakeTask(w, t)
  PROVE  TypeInv'
<1>. USE DEF TypeInv, WorkflowTypeOK
<1>1. tasks' \in [TaskIds -> Task]
  BY MoveTaskType DEF TakeTask, QueueTypeOK
<1>2. ServiceOf(t) \in Services /\ tasks[t].fields \in SUBSET Fields
  BY DEF ServiceOf, TaskIds, QueueTypeOK, Task
<1>3. Destination(ServiceOf(t)) \in Numbers
  BY <1>2, DeskAssumption DEF Destination, DeskTypeOK, LedgerTypeOK, QueueTypeOK
<1>. DEFINE taken == [pc |-> "claimed", task |-> t, call |-> NoCall, asked |-> tasks[t].fields,
                      number |-> Destination(ServiceOf(t)),
                      suppressed |-> OrgOfTask(t) \in doNotCall, since |-> now]
<1>4. taken \in Busy
  BY <1>2, <1>3 DEF Busy, Stages
<1>5. workers' = [workers EXCEPT ![w] = taken]
  BY DEF TakeTask
<1>. HIDE DEF taken
<1>6. workers' \in [Workers -> Busy \cup {Idle}]
  BY <1>4, <1>5
<1>7. /\ \A v \in Workers : v # w => workers'[v] = workers[v]
      /\ workers'[w].call = NoCall /\ workers'[w].pc = "claimed"
  BY <1>5 DEF taken
<1>8. WorkersHoldCalls'
  BY <1>7, OthersHoldCalls DEF TakeTask, ledgerVars, Placed
<1>. QED
  BY <1>1, <1>6, <1>8
     DEF TakeTask, QueueTypeOK, LedgerTypeOK, DeskTypeOK, ledgerVars, deskVars, RunsHaveCalls,
         HasRun, Placed

\* Reserving a call (reserve_call).
LEMMA ReserveType ==
  ASSUME TypeInv, NEW w \in Workers, Reserve(w)
  PROVE  TypeInv'
<1>. USE DEF TypeInv, WorkflowTypeOK
<1>1. IsBusy(w)
  BY DEF Reserve, At, IsBusy
<1>2. PICK c \in CallIds :
        /\ IsNextCall(c)
        /\ ReserveCall(c, TaskOf(w), workers[w].number)
        /\ workers' = [workers EXCEPT ![w].pc = "reserved", ![w].call = c]
  BY Zenon DEF Reserve
<1>3. LedgerTypeOK'
  BY <1>1, <1>2, BusyType, ReserveCallType
<1>4. [workers[w] EXCEPT !.pc = "reserved", !.call = c] \in Busy
  BY <1>1, BusyType DEF Busy, Stages
<1>5. /\ workers' \in [Workers -> Busy \cup {Idle}]
      /\ \A v \in Workers : v # w => workers'[v] = workers[v]
      /\ workers'[w].call = c
  BY <1>1, <1>2, <1>4, BusyType DEF Busy
<1>6. \A d \in CallIds : Placed(d)' <=> (Placed(d) \/ d = c)
  BY <1>2 DEF ReserveCall, Placed, LedgerTypeOK
<1>7. WorkersHoldCalls'
  BY <1>5, <1>6, OthersHoldCalls
<1>8. UNCHANGED <<now, queueVars, deskVars, line>>
  BY DEF Reserve
<1>9. RunsHaveCalls'
  BY <1>6, <1>8 DEF deskVars, RunsHaveCalls, HasRun
<1>. QED
  BY <1>3, <1>5, <1>7, <1>8, <1>9 DEF QueueTypeOK, DeskTypeOK, queueVars, deskVars

\* Steps of a worker that change at most its stage, its call's row and its line.
LEMMA StageType ==
  ASSUME TypeInv, NEW w \in Workers,
         \/ Refuse(w) \/ PlanFails(w) \/ RunCall(w) \/ NoRunId(w) \/ Attach(w) \/ ReadCall(w)
         \/ ObserveFails(w) \/ RecordFails(w) \/ MarkFailed(w)
  PROVE  TypeInv'
<1>. USE DEF TypeInv, WorkflowTypeOK
<1>1. IsBusy(w)
  BY DEF Refuse, PlanFails, RunCall, NoRunId, Attach, ReadCall, ObserveFails, RecordFails,
         MarkFailed, At, IsBusy
<1>2. PICK stage \in Stages : GoTo(w, stage) /\ (CallOf(w) = NoCall => stage \in {"failing", "releasing"})
  <2>1. CallOf(w) = NoCall => workers[w].pc \in {"claimed", "failing", "releasing"}
    BY <1>1 DEF WorkersHoldCalls, CallIds, NoCall
  <2>. QED
    BY <2>1 DEF Refuse, PlanFails, RunCall, NoRunId, Attach, ReadCall, ObserveFails, RecordFails,
         MarkFailed, Fail, At, Stages
<1>3. /\ workers' \in [Workers -> Busy \cup {Idle}]
      /\ \A v \in Workers : v # w => workers'[v] = workers[v]
      /\ workers'[w].pc = stage /\ workers'[w].call = CallOf(w)
  BY <1>1, <1>2, GoToType
<1>4. line' \in [CallIds -> LinePhases]
  BY DEF Refuse, PlanFails, RunCall, NoRunId, Attach, ReadCall, ObserveFails, RecordFails,
         MarkFailed, LinePhases
<1>5. LedgerTypeOK' /\ \A c \in CallIds : Placed(c)' <=> Placed(c)
  <2>1. CASE UNCHANGED ledgerVars
    BY <2>1 DEF ledgerVars, LedgerTypeOK, Placed
  <2>2. ASSUME CallOf(w) \in CallIds, Placed(CallOf(w)),
               AttachRun(CallOf(w))
                 \/ \E status \in {"completed", "failed"} : UpdateCall(CallOf(w), status)
        PROVE  LedgerTypeOK' /\ \A c \in CallIds : Placed(c)' <=> Placed(c)
    BY <2>2, MoveCallType
  <2>3. CASE Attach(w)
    <3>1. CallOf(w) \in CallIds /\ Placed(CallOf(w))
      BY <2>3, HeldCall DEF Attach, At
    <3>. QED
      BY <2>2, <2>3, <3>1 DEF Attach
  <2>4. CASE ReadCall(w)
    <3>1. CallOf(w) \in CallIds /\ Placed(CallOf(w))
      BY <2>4, HeldCall DEF ReadCall, At
    <3>. QED
      BY <2>2, <2>4, <3>1 DEF ReadCall
  <2>5. CASE MarkFailed(w) /\ CallOf(w) # NoCall
    <3>1. CallOf(w) \in CallIds /\ Placed(CallOf(w))
      BY <1>1, <2>5 DEF WorkersHoldCalls
    <3>2. UpdateCall(CallOf(w), "failed")
      BY <2>5 DEF MarkFailed
    <3>. QED
      BY <2>2, <3>1, <3>2
  <2>6. CASE ~Attach(w) /\ ~ReadCall(w) /\ ~(MarkFailed(w) /\ CallOf(w) # NoCall)
    <3>1. UNCHANGED ledgerVars
      BY <2>6 DEF Refuse, PlanFails, RunCall, NoRunId, ObserveFails, RecordFails, MarkFailed
    <3>. QED
      BY <2>1, <3>1
  <2>. QED
    BY <2>1, <2>3, <2>4, <2>5, <2>6
<1>6. UNCHANGED <<now, queueVars, deskVars>>
  BY DEF Refuse, PlanFails, RunCall, NoRunId, Attach, ReadCall, ObserveFails, RecordFails, MarkFailed
<1>7. WorkersHoldCalls'
  <2>1. CallOf(w) = NoCall \/ (CallOf(w) \in CallIds /\ Placed(CallOf(w)))
    BY <1>1 DEF WorkersHoldCalls
  <2>. QED
    BY <1>2, <1>3, <1>5, <2>1, OthersHoldCalls
<1>8. QueueTypeOK' /\ DeskTypeOK' /\ RunsHaveCalls' /\ (now \in Nat)'
  BY <1>5, <1>6 DEF QueueTypeOK, DeskTypeOK, queueVars, deskVars, RunsHaveCalls, HasRun
<1>. QED
  BY <1>3, <1>4, <1>5, <1>7, <1>8

\* Steps that give up the worker: recorded, released, or dead.
LEMMA ReleaseType ==
  ASSUME TypeInv, NEW w \in Workers, IsBusy(w), BecomeIdle(w),
         ReleaseTask(TaskOf(w)) \/ UNCHANGED tasks,
         UNCHANGED <<now, reports, organizationOf, ledgerVars, deskVars, line>>
  PROVE  TypeInv'
<1>. USE DEF TypeInv, WorkflowTypeOK
<1>1. tasks' \in [TaskIds -> Task]
  BY BusyType, MoveTaskType DEF QueueTypeOK
<1>2. /\ workers' \in [Workers -> Busy \cup {Idle}]
      /\ \A v \in Workers : v # w => workers'[v] = workers[v]
      /\ ~IsBusy(w)'
  BY BecomeIdleType
<1>3. \A c \in CallIds : Placed(c)' <=> Placed(c)
  BY DEF ledgerVars, Placed
<1>4. WorkersHoldCalls'
  BY <1>2, <1>3, OthersHoldCalls
<1>5. QueueTypeOK' /\ LedgerTypeOK' /\ DeskTypeOK' /\ RunsHaveCalls'
  BY <1>1, <1>3 DEF QueueTypeOK, LedgerTypeOK, DeskTypeOK, ledgerVars, deskVars, RunsHaveCalls,
                    HasRun
<1>. QED
  BY <1>2, <1>4, <1>5

\* Recording a call (record_verification).
LEMMA RecordType ==
  ASSUME TypeInv, NEW w \in Workers, Record(w)
  PROVE  TypeInv'
<1>. USE DEF TypeInv, WorkflowTypeOK
<1>1. /\ IsBusy(w) /\ BecomeIdle(w)
      /\ workers[w].pc = "closed"
  BY DEF Record, At, IsBusy
<1>2. PICK e \in ReadEvidence(workers[w].asked) : RecordCall(w, e)
  BY DEF Record
<1>. DEFINE t == TaskOf(w)
            c == CallOf(w)
            asked == workers[w].asked
<1>3. /\ t \in TaskIds /\ ServiceOf(t) \in Services
      /\ asked \in SUBSET Fields
      /\ c \in CallIds /\ Placed(c)
  BY <1>1, BusyType, HeldCall
<1>4. e \in ReadableEvidence
  BY <1>2, <1>3, ReadEvidenceType
<1>5. /\ WriteRun(c, ServiceOf(t), asked, e, Classify(e, asked))
      /\ \/ \E pending \in BOOLEAN : SettleTask(t, pending)
         \/ RequeueTask(t)
      /\ UNCHANGED doNotCall \/ Suppress(OrgOfTask(t))
      /\ UNCHANGED reports \/ ResolveReports(ServiceOf(t))
      /\ UNCHANGED <<organizationOf, consents, publicPhone, calls>>
  <2>1. NeedsAPerson(Classify(e, asked)) \in BOOLEAN
    BY DEF NeedsAPerson
  <2>. QED
    BY <1>2, <2>1 DEF RecordCall
<1>. HIDE DEF t, c, asked
<1>6. DeskTypeOK'
  BY <1>3, <1>4, <1>5, WriteRunType
<1>7. QueueTypeOK'
  <2>1. tasks' \in [TaskIds -> Task]
    BY <1>3, <1>5, MoveTaskType DEF QueueTypeOK
  <2>2. reports' \in [Services -> SUBSET Reasons]
    BY <1>5 DEF ResolveReports, QueueTypeOK
  <2>. QED
    BY <1>5, <2>1, <2>2 DEF QueueTypeOK
<1>8. LedgerTypeOK'
  <2>1. OrgOfTask(t) \in Organizations
    BY <1>3 DEF OrgOfTask, TaskIds
  <2>. QED
    BY <1>5, <2>1 DEF Suppress, LedgerTypeOK
<1>9. /\ workers' \in [Workers -> Busy \cup {Idle}]
      /\ \A v \in Workers : v # w => workers'[v] = workers[v]
      /\ ~IsBusy(w)'
  BY <1>1, BecomeIdleType
<1>10. \A d \in CallIds : Placed(d)' <=> Placed(d)
  BY <1>5 DEF Placed
<1>11. WorkersHoldCalls'
  BY <1>9, <1>10, OthersHoldCalls
<1>12. RunsHaveCalls'
  <2>1. \A d \in CallIds : d # c => /\ HasRun(d)' <=> HasRun(d)
                                    /\ flags'[d] = flags[d] /\ proposals'[d] = proposals[d]
    BY <1>5 DEF WriteRun, HasRun, DeskTypeOK
  <2>2. Placed(c) /\ runs'[c].status # "unused"
    BY <1>3, <1>5 DEF WriteRun, DeskTypeOK
  <2>. QED
    BY <1>10, <2>1, <2>2 DEF RunsHaveCalls, HasRun
<1>13. now' = now /\ line' = line
  BY DEF Record
<1>. QED
  BY <1>6, <1>7, <1>8, <1>9, <1>11, <1>12, <1>13

\* A step of people or of the clock moves no worker.
LEMMA OutsideType ==
  ASSUME TypeInv, UNCHANGED workers, (now \in Nat)', QueueTypeOK', LedgerTypeOK', DeskTypeOK',
         RunsHaveCalls', line' \in [CallIds -> LinePhases],
         \A c \in CallIds : Placed(c)' <=> Placed(c)
  PROVE  TypeInv'
<1>1. WorkersHoldCalls'
  BY DEF TypeInv, WorkersHoldCalls, IsBusy, CallOf, Placed
<1>. QED
  BY <1>1 DEF TypeInv, WorkflowTypeOK

\* A request, a failure report or a refresh of the queue.
LEMMA QueueStepType ==
  ASSUME TypeInv, RequestVerification \/ Report \/ Refresh
  PROVE  TypeInv'
<1>. USE DEF TypeInv, WorkflowTypeOK
<1>1. QueueTypeOK'
  <2>1. CASE RequestVerification
    <3>1. PICK s \in Services, fields \in RequestSets : CreateVerificationTask(s, fields)
      BY <2>1 DEF RequestVerification
    <3>2. fields \in SUBSET Fields
      BY QueueAssumption
    <3>. QED
      BY <3>1, <3>2, RequestTaskType DEF CreateVerificationTask, QueueTypeOK
  <2>2. CASE Report
    <3>1. PICK s \in Services, reason \in Reasons : ReportFailure(s, reason)
      BY <2>2 DEF Report
    <3>2. FieldsFor[reason] \in SUBSET Fields
      BY QueueAssumption
    <3>. QED
      BY <3>1, <3>2, RequestTaskType DEF ReportFailure, QueueTypeOK
  <2>3. CASE Refresh
    <3>1. PICK aged, stale \in SUBSET ActiveServices : RefreshQueue(ActiveServices, aged, stale)
      BY <2>3 DEF Refresh
    <3>2. tasks' \in [TaskIds -> Task]
      BY <3>1, RefreshQueueType DEF QueueTypeOK
    <3>. QED
      BY <3>1, <3>2 DEF RefreshQueue, QueueTypeOK
  <2>. QED
    BY <2>1, <2>2, <2>3
<1>2. UNCHANGED <<now, ledgerVars, deskVars, workerVars>>
  BY DEF RequestVerification, Report, Refresh
<1>. QED
  BY <1>1, <1>2, OutsideType
     DEF LedgerTypeOK, DeskTypeOK, ledgerVars, deskVars, workerVars, RunsHaveCalls, HasRun, Placed

\* A consent is recorded.
LEMMA RecordConsentType ==
  ASSUME TypeInv, RecordConsent
  PROVE  TypeInv'
<1>. USE DEF TypeInv, WorkflowTypeOK
<1>1. PICK k \in ConsentIds, org \in Organizations, terms \in ConsentTerms :
        CreateConsent(k, org, terms)
  BY DEF RecordConsent
<1>2. LedgerTypeOK'
  BY <1>1, CreateConsentType
<1>3. UNCHANGED calls
  BY <1>1 DEF CreateConsent
<1>4. UNCHANGED <<now, queueVars, deskVars, workerVars>>
  BY DEF RecordConsent
<1>. QED
  BY <1>2, <1>3, <1>4, OutsideType
     DEF QueueTypeOK, DeskTypeOK, queueVars, deskVars, workerVars, RunsHaveCalls, HasRun, Placed

\* A file is imported (import_hsds_services).
LEMMA ImportType ==
  ASSUME TypeInv, Import
  PROVE  TypeInv'
<1>. USE DEF TypeInv, WorkflowTypeOK
<1>1. PICK file \in ImportFiles : ImportServices(file)
  BY DEF Import
<1>2. /\ \A s \in DOMAIN file : file[s].org \in Organizations
      /\ \A s \in DOMAIN file : \A f \in DOMAIN file[s].values : file[s].values[f] \in Values
  BY ImportAssumption
<1>3. organizationOf' \in [Services -> Organizations]
  BY <1>1, <1>2 DEF ImportServices, ImportedOrganizations, QueueTypeOK
<1>4. record' \in [Services -> [Fields -> Values]]
  BY <1>1, <1>2 DEF ImportServices, ImportedRecord, DeskTypeOK
<1>5. tasks' \in [TaskIds -> Task]
  <2>1. NewTask(ImportFields) \in Task
    BY ImportAssumption, TaskRows
  <2>2. \A t \in TaskIds : tasks[t] \in Task
    BY DEF QueueTypeOK
  <2>. QED
    BY <1>1, <2>1, <2>2 DEF ImportServices, ImportTasks
<1>6. publicPhone' \in [Organizations -> Numbers]
  BY <1>1 DEF ImportServices
<1>7. UNCHANGED <<reports, consents, doNotCall, calls, assured, runs, proposals, flags>>
  BY <1>1 DEF ImportServices
<1>8. UNCHANGED <<now, workerVars>>
  BY DEF Import
<1>. QED
  BY <1>3, <1>4, <1>5, <1>6, <1>7, <1>8, OutsideType
     DEF QueueTypeOK, LedgerTypeOK, DeskTypeOK, workerVars, RunsHaveCalls, HasRun, Placed

\* The invariant survives every step.
LEMMA TypeNext == TypeInv /\ [Next]_vars => TypeInv'
<1>. SUFFICES ASSUME TypeInv, [Next]_vars PROVE TypeInv'
  OBVIOUS
<1>1. ASSUME NEW w \in Workers, WorkerStep(w)
      PROVE  TypeInv'
  <2>1. CASE Reserve(w)
    BY <2>1, ReserveType
  <2>2. CASE Record(w)
    BY <2>2, RecordType
  <2>3. CASE Release(w)
    BY <2>3, ReleaseType DEF Release, At, IsBusy
  <2>. QED
    BY <1>1, <2>1, <2>2, <2>3, StageType DEF WorkerStep
<1>2. ASSUME NEW w \in Workers, Crash(w)
      PROVE  TypeInv'
  BY <1>2, ReleaseType DEF Crash, queueVars
<1>3. ASSUME NEW w \in Workers, NEW t \in TaskIds, TakeTask(w, t)
      PROVE  TypeInv'
  BY <1>3, TakeTaskType
<1>4. ASSUME NEW c \in CallIds, HangUp(c)
      PROVE  TypeInv'
  <2>1. line' \in [CallIds -> LinePhases]
    BY <1>4 DEF HangUp, TypeInv, WorkflowTypeOK, LinePhases
  <2>2. UNCHANGED <<now, queueVars, ledgerVars, deskVars, workers>>
    BY <1>4 DEF HangUp
  <2>. QED
    BY <2>1, <2>2, OutsideType
       DEF TypeInv, WorkflowTypeOK, QueueTypeOK, LedgerTypeOK, DeskTypeOK, queueVars, ledgerVars,
           deskVars, RunsHaveCalls, HasRun, Placed
<1>5. CASE RequestVerification \/ Report \/ Refresh
  BY <1>5, QueueStepType
<1>6. CASE RecordConsent
  BY <1>6, RecordConsentType
<1>10. CASE Import
  BY <1>10, ImportType
<1>7. CASE Review
  <2>1. UNCHANGED <<now, workerVars>> /\ UNCHANGED ledgerVars
    BY <1>7 DEF Review, Approve, Reject, Edit, CorrectApplied, Acknowledge, Decide
  <2>. QED
    BY <1>7, <2>1, ReviewType, OutsideType
       DEF TypeInv, WorkflowTypeOK, LedgerTypeOK, ledgerVars, workerVars, Placed
<1>8. CASE Tick
  <2>1. now' \in Nat
    BY <1>8, WorkflowAssumption DEF Tick
  <2>2. UNCHANGED <<queueVars, ledgerVars, deskVars, workerVars>>
    BY <1>8 DEF Tick
  <2>. QED
    BY <2>1, <2>2, OutsideType
       DEF TypeInv, WorkflowTypeOK, QueueTypeOK, LedgerTypeOK, DeskTypeOK, queueVars, ledgerVars,
           deskVars, workerVars, RunsHaveCalls, HasRun, Placed
<1>9. CASE UNCHANGED vars
  <2>1. UNCHANGED <<now, queueVars, ledgerVars, deskVars, workerVars>>
    BY <1>9 DEF vars
  <2>. QED
    BY <2>1, OutsideType
       DEF TypeInv, WorkflowTypeOK, QueueTypeOK, LedgerTypeOK, DeskTypeOK, queueVars, ledgerVars,
           deskVars, workerVars, RunsHaveCalls, HasRun, Placed
<1>. QED
  BY <1>1, <1>2, <1>3, <1>4, <1>5, <1>6, <1>7, <1>8, <1>9, <1>10 DEF Next

\* Every reachable state is well typed: in particular every verdict of the policy
\* is one of the four tiers, every proposal and every published value is a value
\* of its field, every flag has one of the causes the dashboard can show, and
\* every run, call and consent a worker or a curator names exists.
THEOREM TypeCorrect == Spec => []WorkflowTypeOK
<1>1. TypeInv => WorkflowTypeOK
  BY DEF TypeInv
<1>. QED
  BY <1>1, TypeInit, TypeNext, PTL DEF Spec

-----------------------------------------------------------------------------
\* How one step may move the calls and the workers.

\* The calls that were placed stay where they are, and no other one is placed.
CallsKept ==
  \A c \in CallIds : /\ Placed(c)' <=> Placed(c)
                     /\ calls'[c].at = calls[c].at /\ calls'[c].task = calls[c].task
                     /\ calls'[c].consent = calls[c].consent

\* The worker goes on with what it does, and does not reach a reservation.
GoesOn(w) ==
  /\ IsBusy(w)
  /\ workers'[w].task = TaskOf(w) /\ workers'[w].call = CallOf(w)
  /\ workers'[w].since = workers[w].since /\ workers'[w].asked = workers[w].asked
  /\ workers'[w].pc = "reserved" => At(w, "reserved")

OthersKept(w) == \A v \in Workers : v # w => workers'[v] = workers[v]

QuietStep == CallsKept /\ now' = now /\ \A w \in Workers : IsBusy(w)' => GoesOn(w)

\* A worker that is left alone goes on.
LEMMA StillGoesOn ==
  ASSUME NEW w \in Workers, workers'[w] = workers[w], IsBusy(w)'
  PROVE  GoesOn(w)
  BY DEF GoesOn, IsBusy, TaskOf, CallOf, At

\* Attaching a run and closing a call change neither its task nor its instant.
LEMMA CallUpdatesKeep ==
  ASSUME TypeInv, NEW c \in CallIds, Placed(c),
         \/ UNCHANGED calls
         \/ AttachRun(c)
         \/ \E status \in {"completed", "failed"} : UpdateCall(c, status)
  PROVE  CallsKept
<1>1. calls[c] \in Call
  BY DEF TypeInv, WorkflowTypeOK, LedgerTypeOK, Placed, NoRow
<1>2. CASE UNCHANGED calls
  BY <1>2 DEF CallsKept, Placed
<1>3. CASE AttachRun(c) \/ \E status \in {"completed", "failed"} : UpdateCall(c, status)
  <2>1. \A d \in CallIds : d # c => calls'[d] = calls[d]
    BY <1>3 DEF AttachRun, UpdateCall, TypeInv, WorkflowTypeOK, LedgerTypeOK
  <2>2. /\ calls'[c].at = calls[c].at /\ calls'[c].task = calls[c].task
        /\ calls'[c].consent = calls[c].consent /\ calls'[c].status # "unused"
    BY <1>1, <1>3 DEF AttachRun, UpdateCall, TypeInv, WorkflowTypeOK, LedgerTypeOK, Call
  <2>. QED
    BY <2>1, <2>2 DEF CallsKept, Placed
<1>. QED
  BY <1>2, <1>3

\* A worker's steps other than a reservation are quiet.
LEMMA WorkerQuiet ==
  ASSUME TypeInv, NEW w \in Workers, WorkerStep(w) \/ Crash(w), ~Reserve(w)
  PROVE  QuietStep /\ IsBusy(w) /\ OthersKept(w)
<1>1. IsBusy(w)
  BY DEF WorkerStep, Crash, Refuse, PlanFails, RunCall, NoRunId, Attach, ReadCall, ObserveFails,
         Record, RecordFails, MarkFailed, Release, At, IsBusy
<1>2. now' = now
  BY DEF WorkerStep, Crash, Refuse, PlanFails, RunCall, NoRunId, Attach, ReadCall, ObserveFails,
         Record, RecordFails, MarkFailed, Release
<1>3. BecomeIdle(w) \/ \E stage \in Stages \ {"reserved"} : GoTo(w, stage)
  BY DEF WorkerStep, Crash, Refuse, PlanFails, RunCall, NoRunId, Attach, ReadCall, ObserveFails,
         Record, RecordFails, MarkFailed, Release, Fail, Stages
<1>4. OthersKept(w) /\ (IsBusy(w)' => GoesOn(w))
  <2>1. CASE BecomeIdle(w)
    BY <2>1, BecomeIdleType DEF OthersKept
  <2>2. ASSUME NEW stage \in Stages, stage # "reserved", GoTo(w, stage)
        PROVE  OthersKept(w) /\ (IsBusy(w)' => GoesOn(w))
    <3>1. workers[w] \in Busy
      BY <1>1, BusyType
    <3>2. workers' = [workers EXCEPT ![w].pc = stage]
      BY <2>2 DEF GoTo
    <3>. QED
      BY <1>1, <2>2, <3>1, <3>2
         DEF OthersKept, GoesOn, TaskOf, CallOf, TypeInv, WorkflowTypeOK, Busy
  <2>. QED
    BY <1>3, <2>1, <2>2
<1>5. CallsKept
  <2>1. CASE UNCHANGED calls
    BY <2>1 DEF CallsKept, Placed
  <2>2. ASSUME CallOf(w) # NoCall,
               \/ AttachRun(CallOf(w))
               \/ \E status \in {"completed", "failed"} : UpdateCall(CallOf(w), status)
        PROVE  CallsKept
    <3>1. CallOf(w) \in CallIds /\ Placed(CallOf(w))
      BY <1>1, <2>2 DEF TypeInv, WorkersHoldCalls
    <3>. QED
      BY <2>2, <3>1, CallUpdatesKeep
  <2>3. CASE Attach(w) \/ ReadCall(w) \/ (MarkFailed(w) /\ CallOf(w) # NoCall)
    <3>1. CallOf(w) # NoCall
      BY <2>3, HeldCall DEF Attach, ReadCall, At, CallIds, NoCall
    <3>. QED
      BY <2>2, <2>3, <3>1 DEF Attach, ReadCall, MarkFailed
  <2>4. CASE ~(Attach(w) \/ ReadCall(w) \/ (MarkFailed(w) /\ CallOf(w) # NoCall))
    <3>1. UNCHANGED calls
      BY <2>4 DEF WorkerStep, Crash, Refuse, PlanFails, RunCall, NoRunId, ObserveFails,
                  Record, RecordCall, RecordFails, MarkFailed, Release, ledgerVars
    <3>. QED
      BY <2>1, <3>1
  <2>. QED
    BY <2>3, <2>4
<1>. QED
  BY <1>1, <1>2, <1>4, <1>5, StillGoesOn DEF QuietStep, OthersKept

\* So are the steps of people and of the telephone.
LEMMA OutsideQuiet ==
  ASSUME TypeInv,
         \/ \E c \in CallIds : HangUp(c)
         \/ RequestVerification \/ Report \/ Refresh \/ RecordConsent \/ Import \/ Review
         \/ UNCHANGED vars
  PROVE  QuietStep /\ UNCHANGED <<workers, calls, doNotCall>>
<1>1. UNCHANGED <<now, workers, calls, doNotCall>>
  BY DEF HangUp, RequestVerification, Report, Refresh, RecordConsent, CreateConsent, Import,
         ImportServices, Review, Approve, Reject, Edit, CorrectApplied, Acknowledge, Decide,
         vars, workerVars, ledgerVars
<1>. QED
  BY <1>1, StillGoesOn DEF QuietStep, CallsKept, Placed

\* What a reservation does: one call is placed, now, for the worker's task, by
\* leave of every gate.
LEMMA ReserveEffect ==
  ASSUME TypeInv, NEW w \in Workers, Reserve(w)
  PROVE  /\ At(w, "claimed") /\ now' = now
         /\ MayCall(TaskOf(w), workers[w].number)
         /\ UNCHANGED <<tasks, doNotCall, line>>
         /\ OthersKept(w)
         /\ \E c \in CallIds :
              /\ ~Placed(c) /\ Placed(c)'
              /\ calls'[c].at = now /\ calls'[c].task = TaskOf(w)
              /\ \A d \in CallIds : d # c => calls'[d] = calls[d]
              /\ workers'[w].pc = "reserved" /\ workers'[w].call = c
              /\ workers'[w].task = TaskOf(w) /\ workers'[w].since = workers[w].since
              /\ workers'[w].asked = workers[w].asked
<1>1. IsBusy(w)
  BY DEF Reserve, At, IsBusy
<1>2. PICK c \in CallIds :
        /\ IsNextCall(c)
        /\ ReserveCall(c, TaskOf(w), workers[w].number)
        /\ workers' = [workers EXCEPT ![w].pc = "reserved", ![w].call = c]
  BY DEF Reserve
<1>3. PICK k : calls' = [calls EXCEPT ![c] =
        [status |-> "reserved", task |-> TaskOf(w), consent |-> k, at |-> now,
         destination |-> workers[w].number, attached |-> FALSE]]
  BY <1>2 DEF ReserveCall
<1>4. /\ ~Placed(c) /\ Placed(c)'
      /\ calls'[c].at = now /\ calls'[c].task = TaskOf(w)
      /\ \A d \in CallIds : d # c => calls'[d] = calls[d]
  BY <1>2, <1>3 DEF IsNextCall, Placed, TypeInv, WorkflowTypeOK, LedgerTypeOK
<1>5. workers[w] \in Busy
  BY <1>1, BusyType
<1>6. /\ OthersKept(w)
      /\ workers'[w].pc = "reserved" /\ workers'[w].call = c
      /\ workers'[w].task = TaskOf(w) /\ workers'[w].since = workers[w].since
      /\ workers'[w].asked = workers[w].asked
  BY <1>2, <1>5 DEF OthersKept, TypeInv, WorkflowTypeOK, TaskOf, Busy
<1>7. UNCHANGED <<tasks, doNotCall>>
  BY <1>2 DEF Reserve, ReserveCall, queueVars
<1>. QED
  BY <1>4, <1>6, <1>7 DEF Reserve

\* What claiming a task does.
LEMMA TakeTaskEffect ==
  ASSUME TypeInv, NEW w \in Workers, NEW t \in TaskIds, TakeTask(w, t)
  PROVE  /\ ~IsBusy(w) /\ now' = now /\ UNCHANGED <<calls, doNotCall, line>>
         /\ Claimable(t) /\ tasks' = [tasks EXCEPT ![t].status = "in_progress"]
         /\ OthersKept(w)
         /\ workers'[w].pc = "claimed" /\ workers'[w].task = t
         /\ workers'[w].call = NoCall /\ workers'[w].since = now
         /\ workers'[w].asked = tasks[t].fields
<1>. DEFINE taken == [pc |-> "claimed", task |-> t, call |-> NoCall, asked |-> tasks[t].fields,
                      number |-> Destination(ServiceOf(t)),
                      suppressed |-> OrgOfTask(t) \in doNotCall, since |-> now]
<1>1. workers' = [workers EXCEPT ![w] = taken]
  BY DEF TakeTask
<1>. HIDE DEF taken
<1>2. OthersKept(w) /\ workers'[w] = taken
  BY <1>1 DEF OthersKept, TypeInv, WorkflowTypeOK
<1>3. ~IsBusy(w) /\ now' = now /\ UNCHANGED <<calls, doNotCall, line>> /\ ClaimTask(t)
  BY DEF TakeTask, ledgerVars
<1>. QED
  BY <1>2, <1>3 DEF ClaimTask, taken

\* Every step is a claim, a reservation, a tick or quiet.
LEMMA StepKinds ==
  ASSUME TypeInv, [Next]_vars
  PROVE  \/ QuietStep
         \/ \E w \in Workers : Reserve(w)
         \/ \E w \in Workers, t \in TaskIds : TakeTask(w, t)
         \/ Tick
  BY WorkerQuiet, OutsideQuiet DEF Next, WorkerStep

-----------------------------------------------------------------------------
\* Open tasks.

\* A task that is open, and so may not be opened beside it.
NoTaskOpens == \A t \in TaskIds : IsOpen(t)' => IsOpen(t)

\* A step that opens no task leaves at most one open.
LEMMA StillOneOpen ==
  ASSUME OneOpenTaskPerService, NoTaskOpens
  PROVE  OneOpenTaskPerService'
  BY DEF OneOpenTaskPerService, NoTaskOpens, ServiceOf

\* One task opens, for a record that has none open.
LEMMA OneOpens ==
  ASSUME OneOpenTaskPerService, NEW t \in TaskIds, ~HasOpenTask(ServiceOf(t)),
         \A u \in TaskIds : u # t /\ IsOpen(u)' => IsOpen(u)
  PROVE  OneOpenTaskPerService'
  BY DEF OneOpenTaskPerService, HasOpenTask, ServiceOf

\* create_verification_task and report_failure join the open task, or open one.
LEMMA RequestOneOpen ==
  ASSUME TypeInv, OneOpenTaskPerService, NEW s \in Services, NEW fields \in SUBSET Fields,
         RequestTask(s, fields)
  PROVE  OneOpenTaskPerService'
<1>1. tasks \in [TaskIds -> Task]
  BY DEF TypeInv, WorkflowTypeOK, QueueTypeOK
<1>2. CASE HasOpenTask(s) /\ tasks' = [t \in TaskIds |-> IF ServiceOf(t) = s /\ IsOpen(t)
                                         THEN [tasks[t] EXCEPT !.fields = @ \cup fields]
                                         ELSE tasks[t]]
  <2>1. \A t \in TaskIds : tasks'[t].status = tasks[t].status
    BY <1>1, <1>2 DEF Task
  <2>. QED
    BY <2>1, StillOneOpen DEF NoTaskOpens, IsOpen
<1>3. ASSUME ~HasOpenTask(s), NEW t \in TaskIds, ServiceOf(t) = s,
             tasks' = [tasks EXCEPT ![t] = NewTask(fields)]
      PROVE  OneOpenTaskPerService'
  <2>1. \A u \in TaskIds : u # t => tasks'[u] = tasks[u]
    BY <1>1, <1>3
  <2>. QED
    BY <1>3, <2>1, OneOpens DEF IsOpen
<1>. QED
  BY <1>2, <1>3 DEF RequestTask

\* A step that opens, for records with none open, only the next task of one
\* organization each leaves at most one open.
LEMMA NextOnesOpen ==
  ASSUME OneOpenTaskPerService, NEW orgs,
         \A t \in TaskIds : IsOpen(t)' /\ ~IsOpen(t) =>
           ~HasOpenTask(ServiceOf(t)) /\ IsNextTask(t, orgs[ServiceOf(t)])
  PROVE  OneOpenTaskPerService'
<1>1. ASSUME NEW t \in TaskIds, NEW u \in TaskIds, ServiceOf(t) = ServiceOf(u),
             IsOpen(t)', IsOpen(u)'
      PROVE  t = u
  <2>1. CASE IsOpen(t) \/ IsOpen(u)
    <3>1. HasOpenTask(ServiceOf(t))
      BY <1>1, <2>1 DEF HasOpenTask
    <3>2. IsOpen(t) /\ IsOpen(u)
      BY <1>1, <3>1
    <3>. QED
      BY <1>1, <3>2 DEF OneOpenTaskPerService
  <2>2. CASE ~IsOpen(t) /\ ~IsOpen(u)
    <3>1. IsNextTask(t, orgs[ServiceOf(t)]) /\ IsNextTask(u, orgs[ServiceOf(t)])
      BY <1>1, <2>2
    <3>2. t[3] <= u[3] /\ u[3] <= t[3] /\ OrgOfTask(t) = OrgOfTask(u)
      BY <1>1, <3>1 DEF IsNextTask
    <3>3. /\ t[3] \in Nat /\ u[3] \in Nat
          /\ t = <<t[1], t[2], t[3]>> /\ u = <<u[1], u[2], u[3]>>
      BY QueueAssumption DEF TaskIds
    <3>. QED
      BY <1>1, <3>2, <3>3 DEF ServiceOf, OrgOfTask
  <2>. QED
    BY <2>1, <2>2
<1>. QED
  BY <1>1 DEF OneOpenTaskPerService, ServiceOf

\* refresh_queue opens the next task of a record that has none open,
LEMMA RefreshOneOpen ==
  ASSUME TypeInv, OneOpenTaskPerService, NEW active, NEW aged, NEW stale,
         RefreshQueue(active, aged, stale)
  PROVE  OneOpenTaskPerService'
<1>1. tasks \in [TaskIds -> Task]
  BY DEF TypeInv, WorkflowTypeOK, QueueTypeOK
<1>2. ASSUME NEW t \in TaskIds, IsOpen(t)', ~IsOpen(t)
      PROVE  ~HasOpenTask(ServiceOf(t)) /\ IsNextTask(t, organizationOf[ServiceOf(t)])
  BY <1>1, <1>2 DEF RefreshQueue, IsOpen, OpenStatuses, Task
<1>. QED
  BY <1>2, NextOnesOpen

\* and so does import_hsds_services.
LEMMA ImportOneOpen ==
  ASSUME TypeInv, OneOpenTaskPerService, Import
  PROVE  OneOpenTaskPerService'
<1>1. PICK file \in ImportFiles : ImportTasks(file)
  BY DEF Import, ImportServices
<1>. DEFINE orgs == [s \in DOMAIN file |-> file[s].org]
<1>2. tasks \in [TaskIds -> Task]
  BY DEF TypeInv, WorkflowTypeOK, QueueTypeOK
<1>3. ASSUME NEW t \in TaskIds, IsOpen(t)', ~IsOpen(t)
      PROVE  ~HasOpenTask(ServiceOf(t)) /\ IsNextTask(t, orgs[ServiceOf(t)])
  <2>1. tasks'[t] # tasks[t]
    BY <1>3 DEF IsOpen
  <2>2. /\ ServiceOf(t) \in ActiveIn(file) /\ ~HasOpenTask(ServiceOf(t))
        /\ IsNextTask(t, file[ServiceOf(t)].org)
    BY <1>1, <2>1 DEF ImportTasks
  <2>3. ServiceOf(t) \in DOMAIN file
    BY <2>2 DEF ActiveIn
  <2>. QED
    BY <2>2, <2>3
<1>. QED
  BY <1>3, NextOnesOpen

\* Recording, returning and reviewing move open tasks only.
LEMMA MovesOpenNone ==
  ASSUME TypeInv, NEW t \in TaskIds,
         \/ UNCHANGED tasks
         \/ ClaimTask(t) \/ ReleaseTask(t) \/ CompleteTask(t)
         \/ /\ tasks[t].status = "in_progress"
            /\ RequeueTask(t) \/ \E pending \in BOOLEAN : SettleTask(t, pending)
  PROVE  NoTaskOpens
<1>1. tasks \in [TaskIds -> Task]
  BY DEF TypeInv, WorkflowTypeOK, QueueTypeOK
<1>2. CASE UNCHANGED tasks
  BY <1>2 DEF NoTaskOpens, IsOpen
<1>3. CASE ~UNCHANGED tasks
  <2>1. \A u \in TaskIds : u # t => tasks'[u] = tasks[u]
    BY <1>1, <1>3 DEF ClaimTask, ReleaseTask, CompleteTask, RequeueTask, SettleTask
  <2>2. tasks[t] \in Task
    BY <1>1
  <2>3. IsOpen(t)' => IsOpen(t)
    BY <1>1, <1>3, <2>2
       DEF ClaimTask, Claimable, ReleaseTask, CompleteTask, RequeueTask, SettleTask, IsOpen,
           OpenStatuses, Task
  <2>. QED
    BY <2>1, <2>3 DEF NoTaskOpens, IsOpen
<1>. QED
  BY <1>2, <1>3

\* What each step outside the queue does to the tasks.
LEMMA WorkerTasks ==
  ASSUME TypeInv, NEW w \in Workers, WorkerStep(w) \/ Crash(w)
  PROVE  \/ UNCHANGED tasks
         \/ IsBusy(w) /\ BecomeIdle(w) /\ ReleaseTask(TaskOf(w))
         \/ /\ IsBusy(w) /\ BecomeIdle(w) /\ tasks[TaskOf(w)].status = "in_progress"
            /\ RequeueTask(TaskOf(w)) \/ \E pending \in BOOLEAN : SettleTask(TaskOf(w), pending)
<1>1. CASE Record(w)
  <2>1. PICK e \in ReadEvidence(workers[w].asked) : RecordCall(w, e)
    BY <1>1 DEF Record
  <2>2. NeedsAPerson(Classify(e, workers[w].asked)) \in BOOLEAN
    BY DEF NeedsAPerson
  <2>3. IsBusy(w) /\ BecomeIdle(w)
    BY <1>1 DEF Record, At, IsBusy
  <2>. QED
    BY <2>1, <2>2, <2>3 DEF RecordCall
<1>2. CASE Release(w)
  BY <1>2 DEF Release, At, IsBusy
<1>3. CASE ~Record(w) /\ ~Release(w)
  BY <1>3 DEF WorkerStep, Crash, Refuse, Reserve, PlanFails, RunCall, NoRunId, Attach, ReadCall,
              ObserveFails, RecordFails, MarkFailed, queueVars
<1>. QED
  BY <1>1, <1>2, <1>3

\* A decision completes the task of a placed call, or leaves the tasks alone.
LEMMA ReviewTasks ==
  ASSUME TypeInv, Review
  PROVE  UNCHANGED tasks \/ \E t \in TaskIds : CompleteTask(t)
<1>1. PICK c \in CallIds :
        \/ \E f \in Fields : Approve(c, f) \/ Reject(c, f)
        \/ \E f \in Fields, v \in Values : Edit(c, f, v) \/ CorrectApplied(c, f, v)
        \/ \E cause \in Causes : Acknowledge(c, cause)
  BY DEF Review
<1>2. CASE \E f \in Fields, v \in Values : CorrectApplied(c, f, v)
  BY <1>2 DEF CorrectApplied, queueVars
<1>3. ASSUME NEW proposal, NEW open, FinishReview(c, proposal, open),
             Pending(c) # {} \/ flags[c] # {}
      PROVE  UNCHANGED tasks \/ \E t \in TaskIds : CompleteTask(t)
  <2>1. Placed(c)
    BY <1>3 DEF TypeInv, RunsHaveCalls, Pending, NoProposal
  <2>2. calls[c].task \in TaskIds
    BY <2>1 DEF TypeInv, WorkflowTypeOK, LedgerTypeOK, Placed, Call, NoRow
  <2>. QED
    BY <1>3, <2>2 DEF FinishReview, queueVars
<1>4. CASE \E f \in Fields : Approve(c, f) \/ Reject(c, f)
  BY <1>3, <1>4 DEF Approve, Reject, Decide
<1>5. CASE \E f \in Fields, v \in Values : Edit(c, f, v)
  BY <1>3, <1>5 DEF Edit, Decide
<1>6. CASE \E cause \in Causes : Acknowledge(c, cause)
  BY <1>3, <1>6 DEF Acknowledge
<1>. QED
  BY <1>1, <1>2, <1>4, <1>5, <1>6

\* Every step keeps one open task per record.
LEMMA OneOpenNext == TypeInv /\ OneOpenTaskPerService /\ [Next]_vars => OneOpenTaskPerService'
<1>. SUFFICES ASSUME TypeInv, OneOpenTaskPerService, [Next]_vars PROVE OneOpenTaskPerService'
  OBVIOUS
<1>1. ASSUME NEW t \in TaskIds,
             \/ UNCHANGED tasks
             \/ ClaimTask(t) \/ ReleaseTask(t) \/ CompleteTask(t)
             \/ /\ tasks[t].status = "in_progress"
                /\ RequeueTask(t) \/ \E pending \in BOOLEAN : SettleTask(t, pending)
      PROVE  OneOpenTaskPerService'
  BY <1>1, MovesOpenNone, StillOneOpen
<1>2. CASE UNCHANGED tasks
  BY <1>2, StillOneOpen DEF NoTaskOpens, IsOpen
<1>3. ASSUME NEW w \in Workers, WorkerStep(w) \/ Crash(w)
      PROVE  OneOpenTaskPerService'
  <2>1. CASE UNCHANGED tasks
    BY <1>2, <2>1
  <2>2. CASE IsBusy(w)
    BY <1>1, <1>2, <1>3, <2>2, WorkerTasks, BusyType
  <2>. QED
    BY <1>3, <2>1, <2>2, WorkerTasks
<1>4. ASSUME NEW w \in Workers, NEW t \in TaskIds, TakeTask(w, t)
      PROVE  OneOpenTaskPerService'
  BY <1>1, <1>4 DEF TakeTask
<1>5. CASE RequestVerification
  <2>1. PICK s \in Services, fields \in RequestSets : CreateVerificationTask(s, fields)
    BY <1>5 DEF RequestVerification
  <2>2. fields \in SUBSET Fields
    BY QueueAssumption
  <2>. QED
    BY <2>1, <2>2, RequestOneOpen DEF CreateVerificationTask
<1>6. CASE Report
  <2>1. PICK s \in Services, reason \in Reasons : ReportFailure(s, reason)
    BY <1>6 DEF Report
  <2>2. FieldsFor[reason] \in SUBSET Fields
    BY QueueAssumption
  <2>. QED
    BY <2>1, <2>2, RequestOneOpen DEF ReportFailure
<1>7. CASE Refresh
  BY <1>7, RefreshOneOpen DEF Refresh
<1>8. CASE Review
  BY <1>1, <1>2, <1>8, ReviewTasks
<1>10. CASE Import
  BY <1>10, ImportOneOpen
<1>9. CASE \/ \E c \in CallIds : HangUp(c)
           \/ RecordConsent \/ Tick \/ UNCHANGED vars
  BY <1>2, <1>9 DEF HangUp, RecordConsent, Tick, vars, queueVars
<1>. QED
  BY <1>3, <1>4, <1>5, <1>6, <1>7, <1>8, <1>9, <1>10 DEF Next

\* A record never has two open tasks, for every number of workers, requests,
\* reports and refreshes (one_open_task_per_service).
THEOREM OneOpenTask == Spec => []OneOpenTaskPerService
<1>1. Init => OneOpenTaskPerService
  BY DEF Init, QueueInit, OneOpenTaskPerService, IsOpen, UnusedTask, OpenStatuses
<1>. QED
  BY <1>1, TypeInit, TypeNext, OneOpenNext, PTL DEF Spec

-----------------------------------------------------------------------------
\* Workers.

\* The task of a worker is in progress, unless a review completed it meanwhile;
\* nobody can claim it in either case.
TasksHeld ==
  \A w \in Workers : IsBusy(w) => tasks[TaskOf(w)].status \in {"in_progress", "completed"}
OneWorkerInv == TypeInv /\ TasksHeld /\ OneWorkerPerTask

\* When no worker takes up a task and no worker's task is returned, it is held.
LEMMA StillHeld ==
  ASSUME OneWorkerInv,
         \A w \in Workers : IsBusy(w)' => IsBusy(w) /\ workers'[w].task = TaskOf(w),
         \A w \in Workers : IsBusy(w)' =>
           tasks'[TaskOf(w)].status \in {tasks[TaskOf(w)].status, "completed"}
  PROVE  TasksHeld' /\ OneWorkerPerTask'
<1>1. TasksHeld'
  BY DEF OneWorkerInv, TasksHeld, TaskOf
<1>2. OneWorkerPerTask'
  BY DEF OneWorkerInv, OneWorkerPerTask, TaskOf
<1>. QED
  BY <1>1, <1>2

\* Requests, reports, refreshes and imports move no task that was claimed and take no
\* field from it; the others they leave in the queue or out of it.
LEMMA QueueKeepsClaimed ==
  ASSUME TypeInv, NEW t \in TaskIds,
         \/ \E s \in Services : \E fields : RequestTask(s, fields)
         \/ \E active, aged, stale : RefreshQueue(active, aged, stale)
         \/ \E file : ImportTasks(file)
  PROVE  IF tasks[t].status \in {"unused", "queued"}
         THEN tasks'[t].status \in {"unused", "queued"}
         ELSE tasks'[t].status = tasks[t].status /\ tasks[t].fields \subseteq tasks'[t].fields
<1>1. tasks \in [TaskIds -> Task] /\ tasks[t] \in Task
  BY DEF TypeInv, WorkflowTypeOK, QueueTypeOK
<1>2. \A fields : NewTask(fields).status = "queued"
  BY DEF NewTask, UnusedTask
<1>3. CASE tasks'[t] = tasks[t]
  BY <1>3
<1>4. ASSUME NEW s \in Services, NEW fields, RequestTask(s, fields), tasks'[t] # tasks[t]
      PROVE  \/ tasks'[t] = [tasks[t] EXCEPT !.fields = @ \cup fields]
             \/ tasks[t].status = "unused" /\ tasks'[t].status = "queued"
  BY <1>1, <1>2, <1>4 DEF RequestTask, IsNextTask
<1>5. ASSUME NEW active, NEW aged, NEW stale, RefreshQueue(active, aged, stale),
             tasks'[t] # tasks[t]
      PROVE  /\ tasks[t].status \in {"unused", "queued"}
             /\ tasks'[t].status = "queued"
  BY <1>1, <1>2, <1>5 DEF RefreshQueue, IsNextTask, Task
<1>6. ASSUME NEW file, ImportTasks(file), tasks'[t] # tasks[t]
      PROVE  tasks[t].status = "unused" /\ tasks'[t].status = "queued"
  BY <1>2, <1>6 DEF ImportTasks, IsNextTask
<1>7. ASSUME NEW fields, tasks'[t] = [tasks[t] EXCEPT !.fields = @ \cup fields]
      PROVE  tasks'[t].status = tasks[t].status /\ tasks[t].fields \subseteq tasks'[t].fields
  BY <1>1, <1>7 DEF Task
<1>. QED
  BY <1>3, <1>4, <1>5, <1>6, <1>7

\* Every step keeps one worker per task.
LEMMA OneWorkerNext == OneWorkerInv /\ [Next]_vars => OneWorkerInv'
<1>. SUFFICES ASSUME OneWorkerInv, [Next]_vars PROVE OneWorkerInv'
  OBVIOUS
<1>1. TypeInv /\ TypeInv' /\ tasks \in [TaskIds -> Task]
  BY TypeNext DEF OneWorkerInv, TypeInv, WorkflowTypeOK, QueueTypeOK
<1>2. ASSUME NEW w \in Workers, NEW t \in TaskIds, TakeTask(w, t)
      PROVE  OneWorkerInv'
  <2>1. /\ ~IsBusy(w) /\ OthersKept(w)
        /\ workers'[w].task = t
        /\ tasks[t].status = "queued" /\ tasks' = [tasks EXCEPT ![t].status = "in_progress"]
    BY <1>1, <1>2, TakeTaskEffect DEF Claimable
  <2>2. ASSUME NEW v \in Workers, v # w, IsBusy(v)'
        PROVE  /\ IsBusy(v) /\ TaskOf(v)' = TaskOf(v) /\ TaskOf(v) # t
               /\ tasks'[TaskOf(v)].status \in {"in_progress", "completed"}
    <3>1. workers'[v] = workers[v] /\ IsBusy(v) /\ TaskOf(v)' = TaskOf(v)
      BY <2>1, <2>2 DEF OthersKept, IsBusy, TaskOf
    <3>2. TaskOf(v) \in TaskIds /\ tasks[TaskOf(v)].status \in {"in_progress", "completed"}
      BY <1>1, <3>1, BusyType DEF OneWorkerInv, TasksHeld
    <3>. QED
      BY <1>1, <2>1, <3>1, <3>2
  <2>3. tasks'[t].status = "in_progress" /\ TaskOf(w)' = t
    BY <1>1, <2>1 DEF Task, TaskOf
  <2>4. TasksHeld'
    <3>1. ASSUME NEW v \in Workers, IsBusy(v)'
          PROVE  tasks'[TaskOf(v)'].status \in {"in_progress", "completed"}
      BY <2>2, <2>3, <3>1
    <3>. QED
      BY <3>1 DEF TasksHeld
  <2>5. OneWorkerPerTask'
    <3>1. ASSUME NEW u \in Workers, NEW v \in Workers, u # v, IsBusy(u)', IsBusy(v)'
          PROVE  TaskOf(u)' # TaskOf(v)'
      BY <2>2, <2>3, <3>1 DEF OneWorkerInv, OneWorkerPerTask
    <3>. QED
      BY <3>1 DEF OneWorkerPerTask
  <2>. QED
    BY <1>1, <2>4, <2>5 DEF OneWorkerInv
<1>3. ASSUME NEW w \in Workers, WorkerStep(w) \/ Crash(w)
      PROVE  OneWorkerInv'
  <2>1. IsBusy(w) /\ OthersKept(w)
    BY <1>1, <1>3, WorkerQuiet, ReserveEffect DEF At, IsBusy
  <2>2. \A v \in Workers : IsBusy(v)' => IsBusy(v) /\ workers'[v].task = TaskOf(v)
    <3>1. IsBusy(w)' => workers'[w].task = TaskOf(w)
      BY <1>1, <1>3, WorkerQuiet, ReserveEffect DEF QuietStep, GoesOn
    <3>. QED
      BY <2>1, <3>1 DEF OthersKept, IsBusy, TaskOf
  <2>3. TaskOf(w) \in TaskIds
    BY <1>1, <2>1, BusyType
  <2>4. \/ UNCHANGED tasks
        \/ ~IsBusy(w)' /\ \A t \in TaskIds : t # TaskOf(w) => tasks'[t] = tasks[t]
    <3>1. BecomeIdle(w) => ~IsBusy(w)'
      BY <1>1, BecomeIdleType
    <3>2. ReleaseTask(TaskOf(w)) \/ RequeueTask(TaskOf(w))
            \/ (\E pending \in BOOLEAN : SettleTask(TaskOf(w), pending))
          => \A t \in TaskIds : t # TaskOf(w) => tasks'[t] = tasks[t]
      BY <1>1, <2>3 DEF ReleaseTask, RequeueTask, SettleTask
    <3>. QED
      BY <1>1, <1>3, <3>1, <3>2, WorkerTasks
  <2>5. ASSUME NEW v \in Workers, IsBusy(v)'
        PROVE  tasks'[TaskOf(v)].status = tasks[TaskOf(v)].status
    <3>1. IsBusy(v) /\ TaskOf(v) \in TaskIds
      BY <1>1, <2>2, <2>5, BusyType
    <3>2. v # w => TaskOf(v) # TaskOf(w)
      BY <2>1, <3>1 DEF OneWorkerInv, OneWorkerPerTask
    <3>. QED
      BY <2>4, <2>5, <3>1, <3>2
  <2>. QED
    BY <1>1, <2>2, <2>5, StillHeld DEF OneWorkerInv
<1>4. ASSUME UNCHANGED workers,
             \A t \in TaskIds : tasks[t].status \in {"in_progress", "completed"} =>
               tasks'[t].status \in {tasks[t].status, "completed"}
      PROVE  OneWorkerInv'
  <2>1. \A w \in Workers : IsBusy(w)' => IsBusy(w) /\ workers'[w].task = TaskOf(w)
    BY <1>4 DEF IsBusy, TaskOf
  <2>2. ASSUME NEW w \in Workers, IsBusy(w)'
        PROVE  tasks'[TaskOf(w)].status \in {tasks[TaskOf(w)].status, "completed"}
    <3>1. IsBusy(w) /\ TaskOf(w) \in TaskIds
      BY <1>1, <2>1, <2>2, BusyType
    <3>. QED
      BY <1>4, <3>1 DEF OneWorkerInv, TasksHeld
  <2>. QED
    BY <1>1, <2>1, <2>2, StillHeld DEF OneWorkerInv
<1>5. CASE RequestVerification \/ Report \/ Refresh \/ Import
  <2>1. \/ \E s \in Services : \E fields : RequestTask(s, fields)
        \/ \E active, aged, stale : RefreshQueue(active, aged, stale)
        \/ \E file : ImportTasks(file)
    BY <1>5 DEF RequestVerification, CreateVerificationTask, Report, ReportFailure, Refresh,
                Import, ImportServices
  <2>2. UNCHANGED workers
    BY <1>5 DEF RequestVerification, Report, Refresh, Import, workerVars
  <2>. QED
    BY <1>1, <1>4, <2>1, <2>2, QueueKeepsClaimed
<1>6. CASE Review
  <2>1. UNCHANGED workers
    BY <1>6 DEF Review, workerVars
  <2>2. UNCHANGED tasks \/ \E t \in TaskIds : CompleteTask(t)
    BY <1>1, <1>6, ReviewTasks
  <2>. QED
    BY <1>1, <1>4, <2>1, <2>2 DEF CompleteTask, Task
<1>7. CASE \/ \E c \in CallIds : HangUp(c)
           \/ RecordConsent \/ Tick \/ UNCHANGED vars
  <2>1. UNCHANGED <<workers, tasks>>
    BY <1>7 DEF HangUp, RecordConsent, Tick, vars, queueVars, workerVars
  <2>. QED
    BY <1>4, <2>1
<1>. QED
  BY <1>2, <1>3, <1>5, <1>6, <1>7 DEF Next

\* Two workers never run the same task, for any number of them, although a task
\* returns to the queue on four ways and a review may complete it meanwhile
\* (claim_task, release_task, record_verification, _complete_reviewed_run).
THEOREM OneWorker == Spec => []OneWorkerPerTask
<1>1. Init => OneWorkerInv
  BY TypeInit DEF Init, OneWorkerInv, TasksHeld, OneWorkerPerTask, IsBusy, Idle
<1>2. OneWorkerInv => OneWorkerPerTask
  BY DEF OneWorkerInv
<1>. QED
  BY <1>1, <1>2, OneWorkerNext, PTL DEF Spec

-----------------------------------------------------------------------------
\* Executions in time.  An execution lasts less than WorkflowHours, it places its
\* own call within that time, and two executions hold different calls.

InTime == \A w \in Workers : IsBusy(w) =>
            workers[w].since <= now /\ now < workers[w].since + WorkflowHours
OwnCall == \A w \in Workers : IsBusy(w) /\ CallOf(w) # NoCall =>
             calls[CallOf(w)].task = TaskOf(w) /\ workers[w].since <= calls[CallOf(w)].at
OneWorkerPerCall == \A v, w \in Workers :
  v # w /\ IsBusy(v) /\ IsBusy(w) /\ CallOf(v) # NoCall => CallOf(v) # CallOf(w)
TimeInv == InTime /\ OwnCall /\ OneWorkerPerCall

\* It holds at first,
LEMMA TimeInit == Init => TimeInv
  BY DEF Init, TimeInv, InTime, OwnCall, OneWorkerPerCall, IsBusy, Idle

\* Quiet steps keep the workers in time and their calls their own.
LEMMA QuietInTime ==
  ASSUME TypeInv, TimeInv, QuietStep
  PROVE  TimeInv'
<1>1. ASSUME NEW w \in Workers, IsBusy(w)'
      PROVE  /\ IsBusy(w) /\ CallOf(w)' = CallOf(w) /\ TaskOf(w)' = TaskOf(w)
             /\ workers'[w].since = workers[w].since
  BY <1>1 DEF QuietStep, GoesOn, CallOf, TaskOf
<1>2. InTime'
  BY <1>1 DEF TimeInv, InTime, QuietStep
<1>3. OwnCall'
  <2>1. ASSUME NEW w \in Workers, IsBusy(w)', CallOf(w)' # NoCall
        PROVE  /\ calls'[CallOf(w)'].task = TaskOf(w)'
               /\ workers'[w].since <= calls'[CallOf(w)'].at
    <3>1. CallOf(w) \in CallIds
      BY <1>1, <2>1 DEF TypeInv, WorkersHoldCalls
    <3>. QED
      BY <1>1, <2>1, <3>1 DEF TimeInv, OwnCall, QuietStep, CallsKept
  <2>. QED
    BY <2>1 DEF OwnCall
<1>4. OneWorkerPerCall'
  BY <1>1 DEF TimeInv, OneWorkerPerCall
<1>. QED
  BY <1>2, <1>3, <1>4 DEF TimeInv

\* A claim starts an execution, which holds no call.
LEMMA TakeInTime ==
  ASSUME TypeInv, TimeInv, NEW w \in Workers, NEW t \in TaskIds, TakeTask(w, t)
  PROVE  TimeInv'
<1>1. /\ now' = now /\ calls' = calls /\ OthersKept(w)
      /\ workers'[w].since = now /\ workers'[w].call = NoCall
  BY TakeTaskEffect
<1>2. now \in Nat /\ WorkflowHours \in Nat /\ WorkflowHours > 0
  BY WorkflowAssumption DEF TypeInv, WorkflowTypeOK, HoursPerDay
<1>3. ASSUME NEW v \in Workers, v # w, IsBusy(v)'
      PROVE  IsBusy(v) /\ workers'[v] = workers[v]
  BY <1>1, <1>3 DEF OthersKept, IsBusy
<1>4. InTime'
  BY <1>1, <1>2, <1>3 DEF TimeInv, InTime
<1>5. OwnCall'
  BY <1>1, <1>3 DEF TimeInv, OwnCall, CallOf, TaskOf
<1>6. OneWorkerPerCall'
  BY <1>1, <1>3 DEF TimeInv, OneWorkerPerCall, CallOf
<1>. QED
  BY <1>4, <1>5, <1>6 DEF TimeInv

\* A reservation is made now, and of a call that nobody holds.
LEMMA ReserveInTime ==
  ASSUME TypeInv, TimeInv, NEW w \in Workers, Reserve(w)
  PROVE  TimeInv'
<1>1. PICK c \in CallIds :
        /\ ~Placed(c) /\ Placed(c)'
        /\ calls'[c].at = now /\ calls'[c].task = TaskOf(w)
        /\ \A d \in CallIds : d # c => calls'[d] = calls[d]
        /\ workers'[w].pc = "reserved" /\ workers'[w].call = c
        /\ workers'[w].task = TaskOf(w) /\ workers'[w].since = workers[w].since
  BY ReserveEffect
<1>2. now' = now /\ OthersKept(w) /\ IsBusy(w)
  BY ReserveEffect DEF At, IsBusy
<1>3. ASSUME NEW v \in Workers, v # w, IsBusy(v)'
      PROVE  IsBusy(v) /\ workers'[v] = workers[v]
  BY <1>2, <1>3 DEF OthersKept, IsBusy
<1>4. ASSUME NEW v \in Workers, IsBusy(v), CallOf(v) # NoCall
      PROVE  CallOf(v) \in CallIds /\ CallOf(v) # c
  BY <1>1, <1>4 DEF TypeInv, WorkersHoldCalls
<1>5. InTime'
  BY <1>1, <1>2, <1>3 DEF TimeInv, InTime
<1>6. OwnCall'
  <2>1. ASSUME NEW v \in Workers, v # w, IsBusy(v)', CallOf(v)' # NoCall
        PROVE  /\ calls'[CallOf(v)'].task = TaskOf(v)'
               /\ workers'[v].since <= calls'[CallOf(v)'].at
    <3>1. IsBusy(v) /\ CallOf(v)' = CallOf(v) /\ TaskOf(v)' = TaskOf(v)
      BY <1>3, <2>1 DEF CallOf, TaskOf
    <3>2. calls'[CallOf(v)] = calls[CallOf(v)]
      BY <1>1, <1>4, <2>1, <3>1
    <3>. QED
      BY <1>3, <2>1, <3>1, <3>2 DEF TimeInv, OwnCall
  <2>2. /\ calls'[CallOf(w)'].task = TaskOf(w)'
        /\ workers'[w].since <= calls'[CallOf(w)'].at
    BY <1>1, <1>2 DEF TimeInv, InTime, CallOf, TaskOf
  <2>. QED
    BY <2>1, <2>2 DEF OwnCall
<1>7. OneWorkerPerCall'
  <2>1. ASSUME NEW v \in Workers, v # w, IsBusy(v)'
        PROVE  IsBusy(v) /\ CallOf(v)' = CallOf(v)
    BY <1>3, <2>1 DEF CallOf
  <2>2. CallOf(w)' = c /\ c # NoCall
    BY <1>1 DEF CallOf, CallIds, NoCall
  <2>3. ASSUME NEW v \in Workers, v # w, IsBusy(v)'
        PROVE  CallOf(v)' # c
    BY <1>4, <2>1, <2>2, <2>3
  <2>. QED
    BY <2>1, <2>2, <2>3 DEF TimeInv, OneWorkerPerCall
<1>. QED
  BY <1>5, <1>6, <1>7 DEF TimeInv

\* The clock waits for nobody who is out of time.
LEMMA TickInTime ==
  ASSUME TypeInv, TimeInv, Tick
  PROVE  TimeInv'
<1>1. /\ UNCHANGED <<workers, calls>>
      /\ now' > now /\ now' \in Nat
      /\ \A w \in Workers : IsBusy(w) => now' < workers[w].since + WorkflowHours
  BY WorkflowAssumption DEF Tick, workerVars, ledgerVars
<1>2. now \in Nat /\ \A w \in Workers : IsBusy(w) => workers[w].since \in Nat
  BY BusyType DEF TypeInv, WorkflowTypeOK, Busy
<1>3. InTime'
  BY <1>1, <1>2 DEF TimeInv, InTime, IsBusy
<1>. QED
  BY <1>1, <1>3 DEF TimeInv, OwnCall, OneWorkerPerCall, IsBusy, CallOf, TaskOf

\* Every step keeps each execution within its hours and with its own call.
LEMMA TimeNext ==
  ASSUME TypeInv, TimeInv, [Next]_vars
  PROVE  TimeInv'
  BY StepKinds, QuietInTime, TakeInTime, ReserveInTime, TickInTime

-----------------------------------------------------------------------------
\* What a recorded call proposes and flags.

\* Evidence as build_evidence returns it.
Read(e) == e \in ReadableEvidence /\ Resolved(e) /\ OneClaimPerField(e.claims)

LEMMA ReadBy ==
  ASSUME NEW asked \in SUBSET Fields, NEW e \in ReadEvidence(asked)
  PROVE  Read(e)
BY ReadEvidenceType, ReadEvidenceResolved DEF Read

\* A verdict about a claim is classify_claim's, of a call that reached somebody.
LEMMA ClaimVerdict ==
  ASSUME NEW e \in ReadableEvidence, NEW asked, NEW d \in Classify(e, asked), OnClaim(d)
  PROVE  /\ ReachedSomeone(e)
         /\ \E c \in e.claims : d.field = c.field /\ d.authority = ClassifyClaim(c)
<1>1. e.events \subseteq EventKinds
  BY DEF ReadableEvidence
<1>2. d \notin SafetyDecisions(e)
  BY <1>1 DEF SafetyDecisions, About, OnClaim, EventKinds
<1>3. d \notin StopDecision(e) \cup ConfirmationDecisions(e) \cup MissingDecision(e, asked)
  BY DEF StopDecision, ConfirmationDecisions, MissingDecision, About, OnField, OnClaim
<1>4. d # About("no_contact", REFRESH) /\ d # About("nothing", REVIEW)
  BY DEF About, OnClaim
<1>5. ReachedSomeone(e) /\ d \in ClaimDecisions(e)
  BY <1>2, <1>3, <1>4 DEF Classify, OrElse
<1>. QED
  BY <1>5 DEF ClaimDecisions, OnField

\* A call that needs a person leaves a flag or a proposal to decide.
LEMMA LeavesSomething ==
  ASSUME NEW e \in ReadableEvidence, NEW asked, NeedsAPerson(Classify(e, asked))
  PROVE  \/ FlagsOf(Classify(e, asked)) # {}
         \/ \E f \in Fields : ProposalsOf(e, Classify(e, asked))[f].status = "pending"
<1>. DEFINE ds == Classify(e, asked)
<1>1. PICK d \in ds : d.authority \in {REVIEW, STOP}
  BY DEF NeedsAPerson
<1>2. CASE ~OnClaim(d)
  <2>1. d.authority >= REVIEW
    BY <1>1 DEF REVIEW, STOP
  <2>. QED
    BY <1>2, <2>1 DEF FlagsOf
<1>3. CASE OnClaim(d)
  <2>1. PICK c \in e.claims : d.field = c.field
    BY <1>3, ClaimVerdict
  <2>2. c \in Decided(e, ds) /\ Applied(e, ds) = {} /\ c.field \in Fields
    BY <1>3, <2>1 DEF Decided, Applied, ReadableEvidence, Claim
  <2>3. ProposalsOf(e, ds)[c.field].status = "pending"
    BY <2>2 DEF ProposalsOf
  <2>. QED
    BY <2>2, <2>3
<1>. QED
  BY <1>2, <1>3

\* A call that needs nobody leaves nothing to decide: what it proposed is applied.
LEMMA LeavesNothing ==
  ASSUME NEW e \in ReadableEvidence, NEW asked, ~NeedsAPerson(Classify(e, asked))
  PROVE  /\ FlagsOf(Classify(e, asked)) = {}
         /\ \A f \in Fields :
              ProposalsOf(e, Classify(e, asked))[f].status \in {"none", "applied"}
<1>. DEFINE ds == Classify(e, asked)
<1>1. FlagsOf(ds) = {}
  <2>1. \A d \in ds : d.authority \in Authority /\ d.authority \notin {REVIEW, STOP}
    BY ClassifyType DEF NeedsAPerson
  <2>2. \A d \in ds : ~(d.authority >= REVIEW)
    BY <2>1 DEF Authority, REFRESH, REVIEW, STOP
  <2>. QED
    BY <2>2 DEF FlagsOf
<1>2. ASSUME NEW c \in Decided(e, ds) PROVE c \in Applied(e, ds)
  <2>. DEFINE d == CHOOSE x \in ds : OnClaim(x) /\ x.field = c.field
  <2>1. d \in ds /\ OnClaim(d)
    BY <1>2 DEF Decided
  <2>2. d.authority \in {APPLY, REVIEW} /\ d.authority # REVIEW
    BY <2>1, ClaimVerdict, ClaimVerdicts DEF NeedsAPerson
  <2>. QED
    BY <1>2, <2>2 DEF Applied, VerdictOn
<1>3. ASSUME NEW f \in Fields, \E c \in Decided(e, ds) : c.field = f
      PROVE  ProposalsOf(e, ds)[f].status = "applied"
  <2>. DEFINE c == CHOOSE x \in Decided(e, ds) : x.field = f
  <2>1. c \in Decided(e, ds)
    BY <1>3
  <2>2. c \in Applied(e, ds)
    BY <1>2, <2>1
  <2>. QED
    BY <1>3, <2>2 DEF ProposalsOf
<1>4. ASSUME NEW f \in Fields, ~\E c \in Decided(e, ds) : c.field = f
      PROVE  ProposalsOf(e, ds)[f].status = "none"
  BY <1>4 DEF ProposalsOf, NoProposal
<1>. QED
  BY <1>1, <1>3, <1>4

\* What is applied is what is proposed, for a field that may be, by a completed call
\* that needs nobody.
LEMMA AppliedIsProposed ==
  ASSUME NEW e, Read(e), NEW asked, NEW f \in Fields,
         NEW a \in Applied(e, Classify(e, asked)), a.field = f
  PROVE  /\ ~NeedsAPerson(Classify(e, asked))
         /\ e.outcome = "completed" /\ MayAutoApply(f)
         /\ ProposalsOf(e, Classify(e, asked))[f] =
              [status |-> "applied", value |-> a.value]
<1>. DEFINE ds == Classify(e, asked)
            c == CHOOSE x \in Decided(e, ds) : x.field = f
<1>1. e \in ReadableEvidence /\ Resolved(e) /\ OneClaimPerField(e.claims)
  BY DEF Read
<1>2. ~NeedsAPerson(ds) /\ a \in Decided(e, ds)
  BY DEF Applied
<1>3. a \in e.claims /\ ReachedSomeone(e)
  BY <1>1, <1>2, ClaimVerdict DEF Decided
<1>4. c \in Decided(e, ds) /\ c.field = f
  BY <1>2
<1>5. c = a
  BY <1>1, <1>3, <1>4 DEF OneClaimPerField, Decided
<1>6. e.outcome = "completed" /\ ClassifyClaim(a) = APPLY
  BY <1>1, <1>2, <1>3, Unattended
<1>7. MayAutoApply(f)
  BY <1>6 DEF ClassifyClaim, APPLY, REVIEW
<1>8. ProposalsOf(e, ds)[f] = [status |-> "applied", value |-> c.value]
  <2>1. ProposalsOf(e, ds)[f] =
          [status |-> IF c \in Applied(e, ds) THEN "applied" ELSE "pending", value |-> c.value]
    BY <1>4 DEF ProposalsOf
  <2>. QED
    BY <1>5, <2>1
<1>. QED
  BY <1>2, <1>5, <1>6, <1>7, <1>8

-----------------------------------------------------------------------------
\* What a step does to the tasks and to what there is to decide.

\* A task that was claimed keeps its fields; once somebody was reached for it, it is
\* not called again; and only a recorded call hands it to a person.
LEMMA TasksMove ==
  ASSUME TypeInv, [Next]_vars, NEW t \in TaskIds
  PROVE  /\ tasks[t].status \in {"in_progress", "needs_review", "completed"} =>
              tasks[t].fields \subseteq tasks'[t].fields
         /\ tasks[t].status \in {"needs_review", "completed"} =>
              tasks'[t].status \in {"needs_review", "completed"}
         /\ tasks'[t].status = "needs_review" =>
              tasks[t].status = "needs_review" \/ \E w \in Workers : Record(w) /\ TaskOf(w) = t
<1>1. tasks \in [TaskIds -> Task] /\ tasks[t] \in Task
  BY DEF TypeInv, WorkflowTypeOK, QueueTypeOK
<1>. DEFINE Kept ==
       /\ tasks[t].status \in {"in_progress", "needs_review", "completed"} =>
            tasks[t].fields \subseteq tasks'[t].fields
       /\ tasks[t].status \in {"needs_review", "completed"} =>
            tasks'[t].status \in {"needs_review", "completed"}
     Handed == tasks'[t].status = "needs_review" => tasks[t].status = "needs_review"
<1>2. CASE UNCHANGED tasks
  BY <1>2
<1>3. ASSUME NEW u \in TaskIds, ClaimTask(u) \/ ReleaseTask(u) \/ CompleteTask(u)
      PROVE  Kept /\ Handed
  BY <1>1, <1>3 DEF ClaimTask, Claimable, ReleaseTask, CompleteTask, Task
<1>4. ASSUME NEW w \in Workers, Record(w)
      PROVE  Kept /\ (Handed \/ TaskOf(w) = t)
  <2>1. /\ TaskOf(w) \in TaskIds /\ tasks[TaskOf(w)].status = "in_progress"
        /\ \/ RequeueTask(TaskOf(w))
           \/ \E pending : SettleTask(TaskOf(w), pending)
    BY <1>4, BusyType DEF Record, RecordCall, At, IsBusy
  <2>2. tasks[TaskOf(w)] \in Task
    BY <1>1, <2>1
  <2>3. \A u \in TaskIds : u # TaskOf(w) => tasks'[u] = tasks[u]
    BY <1>1, <2>1 DEF RequeueTask, SettleTask
  <2>4. tasks'[TaskOf(w)].fields = tasks[TaskOf(w)].fields
    <3>. DEFINE old == tasks[TaskOf(w)]
    <3>1. CASE RequeueTask(TaskOf(w))
      BY <1>1, <2>1, <2>2, <3>1 DEF RequeueTask, Task
    <3>2. ASSUME NEW pending, SettleTask(TaskOf(w), pending)
          PROVE  tasks'[TaskOf(w)].fields = old.fields
      BY <1>1, <2>1, <2>2, <3>2 DEF SettleTask, Task
    <3>. QED
      BY <2>1, <3>1, <3>2
  <2>. QED
    BY <2>1, <2>3, <2>4
<1>5. ASSUME NEW w \in Workers, WorkerStep(w) \/ Crash(w), ~Record(w)
      PROVE  Kept /\ Handed
  <2>1. CASE Release(w)
    <3>1. TaskOf(w) \in TaskIds /\ ReleaseTask(TaskOf(w))
      BY <2>1, BusyType DEF Release, At, IsBusy
    <3>. QED
      BY <1>3, <3>1
  <2>2. CASE ~Release(w)
    <3>1. UNCHANGED tasks
      BY <1>5, <2>2
         DEF WorkerStep, Crash, Refuse, Reserve, PlanFails, RunCall, NoRunId, Attach, ReadCall,
             ObserveFails, RecordFails, MarkFailed, queueVars
    <3>. QED
      BY <1>2, <3>1
  <2>. QED
    BY <2>1, <2>2
<1>6. ASSUME NEW w \in Workers, NEW u \in TaskIds, TakeTask(w, u)
      PROVE  Kept /\ Handed
  BY <1>3, <1>6 DEF TakeTask
<1>7. CASE RequestVerification \/ Report \/ Refresh \/ Import
  <2>1. \/ \E s \in Services : \E fields : RequestTask(s, fields)
        \/ \E active, aged, stale : RefreshQueue(active, aged, stale)
        \/ \E file : ImportTasks(file)
    BY <1>7 DEF RequestVerification, CreateVerificationTask, Report, ReportFailure, Refresh,
                Import, ImportServices
  <2>. QED
    BY <2>1, QueueKeepsClaimed
<1>8. CASE Review
  BY <1>2, <1>3, <1>8, ReviewTasks
<1>9. CASE \/ \E c \in CallIds : HangUp(c)
           \/ RecordConsent \/ Tick \/ UNCHANGED vars
  BY <1>2, <1>9 DEF HangUp, RecordConsent, Tick, vars, queueVars
<1>. QED
  BY <1>4, <1>5, <1>6, <1>7, <1>8, <1>9 DEF Next, WorkerStep

\* Only recording and reviewing touch a run, a proposal, a flag or the assurance date
\* or close a failure report; beside them only an import writes a value.
LEMMA DeskKept ==
  ASSUME TypeInv, [Next]_vars, ~Review, \A w \in Workers : ~Record(w)
  PROVE  /\ UNCHANGED <<runs, proposals, flags, assured>>
         /\ Import \/ UNCHANGED record
         /\ \A s \in Services : reports[s] \subseteq reports'[s]
<1>1. ASSUME NEW w \in Workers, WorkerStep(w) \/ Crash(w), ~Record(w)
      PROVE  UNCHANGED <<deskVars, reports>>
  BY <1>1
     DEF WorkerStep, Crash, Refuse, Reserve, ReserveCall, PlanFails, RunCall, NoRunId, Attach,
         ReadCall, ObserveFails, RecordFails, MarkFailed, Release, queueVars
<1>2. ASSUME NEW w \in Workers, NEW t \in TaskIds, TakeTask(w, t)
      PROVE  UNCHANGED <<deskVars, reports>>
  BY <1>2 DEF TakeTask
<1>3. CASE \/ \E c \in CallIds : HangUp(c)
           \/ RecordConsent \/ Tick \/ Refresh \/ RequestVerification \/ UNCHANGED vars
  <2>1. UNCHANGED <<deskVars, reports>>
    BY <1>3 DEF HangUp, RecordConsent, Tick, Refresh, RefreshQueue, RequestVerification,
                CreateVerificationTask, vars, queueVars
  <2>. QED
    BY <2>1 DEF deskVars
<1>4. CASE Report
  <2>1. PICK s \in Services, reason \in Reasons : ReportFailure(s, reason)
    BY <1>4 DEF Report
  <2>2. UNCHANGED deskVars /\ \A r \in Services : reports[r] \subseteq reports'[r]
    BY <1>4, <2>1 DEF Report, ReportFailure, TypeInv, WorkflowTypeOK, QueueTypeOK
  <2>. QED
    BY <2>2 DEF deskVars
<1>5. CASE Import
  BY <1>5 DEF Import, ImportServices
<1>. QED
  BY <1>1, <1>2, <1>3, <1>4, <1>5 DEF Next, WorkerStep, deskVars
=============================================================================
