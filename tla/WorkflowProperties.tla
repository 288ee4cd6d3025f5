-------------------------- MODULE WorkflowProperties --------------------------
(***************************************************************************)
(* What the verification workflow must never do, what it must always come  *)
(* to do, and the promise to the called organization that it implements.   *)
(***************************************************************************)
EXTENDS VerificationWorkflow

-----------------------------------------------------------------------------
\* The calls.

\* Two workers never run the same task (claim_task: "so two workers cannot
\* verify it twice"), through every way a task returns to the queue.
OneWorkerPerTask ==
  \A v, w \in Workers : v # w /\ IsBusy(v) /\ IsBusy(w) => TaskOf(v) # TaskOf(w)

\* Two calls to one organization lie a full interval apart, whichever services,
\* consents and workers they were placed for and however they ended
\* (reserve_call reads the calls of every earlier task of the organization).
Apart(c, d) ==
  \/ calls[c].at + MinimumInterval <= calls[d].at
  \/ calls[d].at + MinimumInterval <= calls[c].at
CallsAreSpaced ==
  \A c, d \in CallIds :
    c # d /\ Placed(c) /\ Placed(d) /\ OrgOfCall(c) = OrgOfCall(d) => Apart(c, d)

\* calls_placed counts exactly the call_runs rows charged to a consent, and never
\* passes the allowance the organization gave (reserve_call: two workers racing
\* for the last consented call cannot both win it).
ChargedTo(k) == {c \in CallIds : Placed(c) /\ calls[c].consent = k}
AllowanceRespected ==
  \A k \in ConsentIds : Recorded(k) =>
    /\ consents[k].placed = Cardinality(ChargedTo(k))
    /\ consents[k].placed <= consents[k].terms.maxCalls

\* Once an organization asked not to be called, no telephone of any of its
\* services starts to ring: not even for a call reserved before it asked, since
\* run_call does not look at do_not_call again.
SuppressionHonoured ==
  [][\A c \in CallIds :
       line[c] = "idle" /\ line'[c] = "ringing" => OrgOfCall(c) \notin doNotCall]_vars

\* The workflow keeps the whole promise of ConsentedCalling: reserving a call is
\* paying for it, and CALL-E taking it on is the ring.
agreementsBar ==
  [k \in ConsentIds |->
    IF Recorded(k)
    THEN [made |-> TRUE, org |-> consents[k].org,
          left |-> consents[k].terms.maxCalls - consents[k].placed]
    ELSE [made |-> FALSE]]
permitsBar ==
  [c \in CallIds |->
    IF Placed(c)
    THEN [paid |-> TRUE, org |-> OrgOfCall(c), at |-> calls[c].at, ring |-> line[c]]
    ELSE [paid |-> FALSE]]
Promise == INSTANCE ConsentedCalling WITH
  Consents <- ConsentIds, Permits <- CallIds, Interval <- MinimumInterval,
  clock <- now, agreements <- agreementsBar, permits <- permitsBar, silent <- doNotCall
PromiseKept == Promise!Spec

-----------------------------------------------------------------------------
\* The record.

RunsOf(t) == {c \in CallIds : HasRun(c) /\ calls[c].task = t}

\* A task that waits for a person always has something a person can decide
\* (record_verification queues the item, _complete_reviewed_run clears it): a
\* needs_review task without an open item would never leave that state, and its
\* record could never be verified again.
NoStrandedReview ==
  \A t \in TaskIds : tasks[t].status = "needs_review" => \E c \in RunsOf(t) : Undecided(c)

\* A published value moves only with the evidence that moved it: to the value of
\* a proposal that a curator decides in this very step, or of a claim applied by a
\* run that needs no person at all (evidence rules, "one transaction"); or it is
\* what an imported file says, and no decision is touched.
MovedBy(c, s, f) ==
  /\ Placed(c) /\ ServiceOfCall(c) = s
  /\ proposals'[c][f] # proposals[c][f]
  /\ proposals'[c][f].status \in {"applied", "approved", "edited"}
  /\ proposals'[c][f].value = record'[s][f]
  /\ proposals'[c][f].status = "applied" =>
       /\ runs'[c].status = "completed" /\ runs'[c].outcome = "completed"
       /\ MayAutoApply(f)
       /\ Pending(c)' = {} /\ flags'[c] = {}
BroughtIn(s, f) ==
  /\ \E file \in ImportFiles :
       /\ s \in DOMAIN file /\ f \in DOMAIN file[s].values
       /\ record'[s][f] = file[s].values[f]
  /\ UNCHANGED <<runs, proposals, flags, calls>>
RecordMovesOnlyByEvidence ==
  [][\A s \in Services, f \in Fields :
       record'[s][f] # record[s][f] =>
         BroughtIn(s, f) \/ \E c \in CallIds : MovedBy(c, s, f)]_vars

\* services.assured_date moves, and failure reports are resolved, only when a run
\* closes that reached the provider, had every proposal accepted, and covers
\* every field its call was to ask about; unattended or reviewed alike.
ClosesCovered(c) ==
  /\ runs[c] # runs'[c] /\ runs'[c].status = "completed"
  /\ runs'[c].outcome = "completed"
  /\ runs'[c].asked \subseteq runs'[c].covered
  /\ \A f \in Fields : proposals'[c][f].status \notin {"pending", "rejected"}
AssuranceNeedsCoverage ==
  [][\A s \in Services :
       assured'[s] # assured[s] \/ (reports[s] # {} /\ reports'[s] = {})
         => \E c \in CallIds : Placed(c) /\ ServiceOfCall(c) = s /\ ClosesCovered(c)]_vars

-----------------------------------------------------------------------------
\* Progress.

\* Each await of a worker is bounded by a timeout and each handler runs to its
\* end; CALL-E ends every call.  Nothing obliges a person, or a process to live.
Fairness ==
  /\ \A w \in Workers : WF_vars(WorkerStep(w))
  /\ \A c \in CallIds : WF_vars(HangUp(c))
FairSpec == Spec /\ Fairness

\* Without a crash every claimed task comes back: recorded, or returned to the
\* queue by the handler of whatever went wrong.
ClaimedTasksReturn ==
  \A t \in TaskIds : tasks[t].status = "in_progress" ~> tasks[t].status # "in_progress"

-----------------------------------------------------------------------------
\* What the documents say and the code does not do.

\* ETHICS.md:18: "One 'stop calling' sets do_not_call on the organization, which
\* covers every service it runs, forever": no call is reserved for one of them,
\* whichever organization ran it when its task was opened.
StoppedServicesGetNoCall ==
  [][\A c \in CallIds :
       ~Placed(c) /\ Placed(c)' =>
         organizationOf[ServiceOf(calls'[c].task)] \notin doNotCall]_vars

\* README.md:142: "a crash between starting a call and reading it resumes
\* get_call_run": the call comes to be marked failed, or what was said in it is
\* recorded; a call that only reads completed is neither.
StartedCallsAreRead ==
  \A c \in CallIds : calls[c].status = "dialing" ~> calls[c].status = "failed" \/ HasRun(c)

\* README.md:144: "A run_call that returns no run_id is escalated to an operator
\* and never retried": such a call is the last one its task ever gets.
LostRunId(c) == Placed(c) /\ line[c] # "idle" /\ calls[c].status = "failed" /\ ~calls[c].attached
LostRunIsNeverRetried ==
  \A c, d \in CallIds :
    LostRunId(c) /\ Placed(d) /\ calls[d].task = calls[c].task => d <= c
=============================================================================
