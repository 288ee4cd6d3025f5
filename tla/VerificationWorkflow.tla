------------------------- MODULE VerificationWorkflow -------------------------
(***************************************************************************)
(* verification/workflow.py with calling/calle.py: the workers that turn a *)
(* queued task into a telephone call and the call into a recorded run,     *)
(* beside the people who ask for calls and who decide what they proposed.  *)
(*                                                                         *)
(* A worker is one execution of VerificationWorkflow.run.  Each of its     *)
(* steps is one SQLite transaction or one request to CALL-E, since several *)
(* processes share the database.  CALL-E itself is outside the program:    *)
(* line[c] is what it does with the telephone for call c.                  *)
(***************************************************************************)
EXTENDS DirectoryImport

CONSTANTS
  Workers,        \* concurrent executions of the workflow
  Moments,        \* bound: the instants at which a run looks at the clock
  WorkflowHours,  \* bound on one execution: plan_timeout, first_poll, max_wait
  MayCrash        \* whether a process may die

ASSUME WorkflowAssumption ==
  /\ Moments \subseteq Nat
  /\ WorkflowHours \in 1 .. HoursPerDay
  /\ MayCrash \in BOOLEAN

VARIABLES
  workers,  \* the local state of each execution
  line      \* the telephone line of each call

workerVars == <<workers, line>>
vars == <<now, queueVars, ledgerVars, deskVars, workerVars>>

LinePhases == {"idle", "ringing", "over"}
Stages == {"claimed", "reserved", "started", "observing", "closed", "failing", "releasing"}
Idle == [pc |-> "idle"]
Busy == [pc: Stages, task: TaskIds, call: CallIds \cup {NoCall}, asked: SUBSET Fields,
         number: Numbers, suppressed: BOOLEAN, since: Nat]

WorkflowTypeOK ==
  /\ now \in Nat
  /\ QueueTypeOK /\ LedgerTypeOK /\ DeskTypeOK
  /\ workers \in [Workers -> Busy \cup {Idle}]
  /\ line \in [CallIds -> LinePhases]

Init ==
  /\ \E m \in Moments : now = m /\ \A n \in Moments : m <= n
  /\ QueueInit /\ LedgerInit /\ DeskInit
  /\ workers = [w \in Workers |-> Idle]
  /\ line = [c \in CallIds |-> "idle"]

-----------------------------------------------------------------------------

IsBusy(w) == workers[w].pc # "idle"
At(w, stage) == workers[w].pc = stage
GoTo(w, stage) == workers' = [workers EXCEPT ![w].pc = stage]
BecomeIdle(w) == workers' = [workers EXCEPT ![w] = Idle]
TaskOf(w) == workers[w].task
CallOf(w) == workers[w].call
\* The except clauses: mark the call failed if there is one, release the task.
Fail(w) == GoTo(w, "failing")

\* Bound: a task is claimed only while a call is left for it.
CallsRemain ==
  Cardinality({c \in CallIds : ~Placed(c)}) > Cardinality({w \in Workers : At(w, "claimed")})

\* claim_task, then contract_for on the row it returned.
TakeTask(w, t) ==
  /\ ~IsBusy(w) /\ CallsRemain
  /\ ClaimTask(t)
  /\ workers' = [workers EXCEPT ![w] =
       [pc |-> "claimed", task |-> t, call |-> NoCall, asked |-> tasks[t].fields,
        number |-> Destination(ServiceOf(t)), suppressed |-> OrgOfTask(t) \in doNotCall,
        since |-> now]]
  /\ UNCHANGED <<now, reports, organizationOf, ledgerVars, deskVars, line>>

\* The organization was suppressed when claimed, the contract cannot be built,
\* or reserve_call refuses.
Refuse(w) ==
  /\ At(w, "claimed")
  /\ workers[w].suppressed \/ workers[w].asked = {} \/ ~MayCall(TaskOf(w), workers[w].number)
  /\ Fail(w)
  /\ UNCHANGED <<now, queueVars, ledgerVars, deskVars, line>>

Reserve(w) ==
  /\ At(w, "claimed")
  /\ ~workers[w].suppressed /\ workers[w].asked # {}
  /\ MayCall(TaskOf(w), workers[w].number)
  /\ \E c \in CallIds :
       /\ IsNextCall(c)
       /\ ReserveCall(c, TaskOf(w), workers[w].number)
       /\ workers' = [workers EXCEPT ![w].pc = "reserved", ![w].call = c]
  /\ UNCHANGED <<now, queueVars, deskVars, line>>

-----------------------------------------------------------------------------
\* CallEVerificationCaller.verify

\* plan_call or run_call fails before CALL-E takes the call on.
PlanFails(w) ==
  /\ At(w, "reserved")
  /\ Fail(w)
  /\ UNCHANGED <<now, queueVars, ledgerVars, deskVars, line>>

\* run_call reaches CALL-E, which rings the number.
RunCall(w) ==
  /\ At(w, "reserved")
  /\ line' = [line EXCEPT ![CallOf(w)] = "ringing"]
  /\ GoTo(w, "started")
  /\ UNCHANGED <<now, queueVars, ledgerVars, deskVars>>

\* Fault: the call is started again when its answer was lost.
NoRunIdRetried(w) ==
  /\ At(w, "started")
  /\ GoTo(w, "reserved")
  /\ UNCHANGED <<now, queueVars, ledgerVars, deskVars, line>>

\* The answer to run_call is lost or names no run: CallError(retryable=False).
NoRunId(w) ==
  /\ At(w, "started")
  /\ Fail(w)
  /\ UNCHANGED <<now, queueVars, ledgerVars, deskVars, line>>

\* on_run_started: attach_calle_run.
Attach(w) ==
  /\ At(w, "started")
  /\ AttachRun(CallOf(w))
  /\ GoTo(w, "observing")
  /\ UNCHANGED <<now, queueVars, deskVars, line>>

\* CALL-E ends the call.
HangUp(c) ==
  /\ line[c] = "ringing"
  /\ line' = [line EXCEPT ![c] = "over"]
  /\ UNCHANGED <<now, queueVars, ledgerVars, deskVars, workers>>

\* _await_terminal returns, and update_call_run(completed).
ReadCall(w) ==
  /\ At(w, "observing")
  /\ line[CallOf(w)] = "over"
  /\ UpdateCall(CallOf(w), "completed")
  /\ GoTo(w, "closed")
  /\ UNCHANGED <<now, queueVars, deskVars, line>>

\* _await_terminal raises: a poll fails, or max_wait passes.
ObserveFails(w) ==
  /\ At(w, "observing")
  /\ Fail(w)
  /\ UNCHANGED <<now, queueVars, ledgerVars, deskVars, line>>

-----------------------------------------------------------------------------

StopRequested(e) == e.outcome = "stop_requested" \/ "stop_requested" \in e.events

\* classify, then record_verification in one transaction.
RecordCall(w, e) ==
  LET t == TaskOf(w)
      decisions == Classify(e, workers[w].asked)
      pending == NeedsAPerson(decisions)
      reached == ReachedSomeone(e)
  IN  /\ tasks[t].status = "in_progress"
      /\ WritesAllApplied(ServiceOf(t), e, decisions)
      /\ WriteRun(CallOf(w), ServiceOf(t), workers[w].asked, e, decisions)
      /\ IF reached THEN SettleTask(t, pending) ELSE RequeueTask(t)
      /\ IF StopRequested(e) THEN Suppress(OrgOfTask(t)) ELSE UNCHANGED doNotCall
      /\ IF reached /\ ~pending THEN ResolveReports(ServiceOf(t)) ELSE UNCHANGED reports
      /\ UNCHANGED <<organizationOf, consents, publicPhone, calls>>

Record(w) ==
  /\ At(w, "closed")
  /\ \E e \in ReadEvidence(workers[w].asked) : RecordCall(w, e)
  /\ BecomeIdle(w)
  /\ UNCHANGED <<now, line>>

\* The transaction is rolled back: the task is no longer in progress, or an
\* applied value has no row to go to.
RecordFails(w) ==
  /\ At(w, "closed")
  /\ \/ tasks[TaskOf(w)].status # "in_progress"
     \/ \E e \in ReadEvidence(workers[w].asked) :
          ~WritesAllApplied(ServiceOf(TaskOf(w)), e, Classify(e, workers[w].asked))
  /\ Fail(w)
  /\ UNCHANGED <<now, queueVars, ledgerVars, deskVars, line>>

-----------------------------------------------------------------------------
\* The except clauses of run: two transactions.

\* Fault: the handler does not mark the call.
MarkFailedSkipped(w) ==
  /\ At(w, "failing")
  /\ GoTo(w, "releasing")
  /\ UNCHANGED <<now, queueVars, ledgerVars, deskVars, line>>

MarkFailed(w) ==
  /\ At(w, "failing")
  /\ IF CallOf(w) = NoCall
     THEN UNCHANGED ledgerVars
     ELSE UpdateCall(CallOf(w), "failed")
  /\ GoTo(w, "releasing")
  /\ UNCHANGED <<now, queueVars, deskVars, line>>

\* Fault: the handler does not release the task.
ReleaseSkipped(w) ==
  /\ At(w, "releasing")
  /\ BecomeIdle(w)
  /\ UNCHANGED <<now, queueVars, ledgerVars, deskVars, line>>

Release(w) ==
  /\ At(w, "releasing")
  /\ ReleaseTask(TaskOf(w))
  /\ BecomeIdle(w)
  /\ UNCHANGED <<now, reports, organizationOf, ledgerVars, deskVars, line>>

\* The process dies, or the job is cancelled: no handler runs, and nothing in
\* the program looks for what it left behind.
Crash(w) ==
  /\ MayCrash /\ IsBusy(w)
  /\ BecomeIdle(w)
  /\ UNCHANGED <<now, queueVars, ledgerVars, deskVars, line>>

-----------------------------------------------------------------------------
\* People and the scheduler.

ActiveServices == {s \in Services : \A f \in Fields : <<f, record[s][f]>> \notin Removals}

RequestVerification ==
  /\ \E s \in Services, fields \in RequestSets : CreateVerificationTask(s, fields)
  /\ UNCHANGED <<now, ledgerVars, deskVars, workerVars>>

Report ==
  /\ \E s \in Services, reason \in Reasons : ReportFailure(s, reason)
  /\ UNCHANGED <<now, ledgerVars, deskVars, workerVars>>

Refresh ==
  /\ \E aged, stale \in SUBSET ActiveServices : RefreshQueue(ActiveServices, aged, stale)
  /\ UNCHANGED <<now, ledgerVars, deskVars, workerVars>>

RecordConsent ==
  /\ \E k \in ConsentIds, org \in Organizations, terms \in ConsentTerms :
       CreateConsent(k, org, terms)
  /\ UNCHANGED <<now, queueVars, deskVars, workerVars>>

Import ==
  /\ \E file \in ImportFiles : ImportServices(file)
  /\ UNCHANGED <<now, workerVars>>

Review ==
  /\ \E c \in CallIds :
       \/ \E f \in Fields : Approve(c, f) \/ Reject(c, f)
       \/ \E f \in Fields, v \in Values : Edit(c, f, v) \/ CorrectApplied(c, f, v)
       \/ \E cause \in Causes : Acknowledge(c, cause)
  /\ UNCHANGED <<now, workerVars>>

\* Time passes to a later moment.  Every await of a workflow has a timeout, so
\* none outlives WorkflowHours.
Tick ==
  /\ now' \in {m \in Moments : m > now}
  /\ \A w \in Workers : IsBusy(w) => now' < workers[w].since + WorkflowHours
  /\ UNCHANGED <<queueVars, ledgerVars, deskVars, workerVars>>

\* The rest of one execution; starting one is up to a person or the API.
WorkerStep(w) ==
  \/ Refuse(w) \/ Reserve(w)
  \/ PlanFails(w) \/ RunCall(w) \/ NoRunId(w) \/ Attach(w) \/ ReadCall(w) \/ ObserveFails(w)
  \/ Record(w) \/ RecordFails(w)
  \/ MarkFailed(w) \/ Release(w)

Next ==
  \/ \E w \in Workers : WorkerStep(w) \/ Crash(w) \/ \E t \in TaskIds : TakeTask(w, t)
  \/ \E c \in CallIds : HangUp(c)
  \/ RequestVerification \/ Report \/ Refresh \/ RecordConsent \/ Import \/ Review
  \/ Tick

Spec == Init /\ [][Next]_vars
=============================================================================
