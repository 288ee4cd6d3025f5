--------------------------- MODULE VerificationJobs ---------------------------
(***************************************************************************)
(* api.py: the verifications one server process runs in the background,    *)
(* its registry of them, and its daily budget for anonymous visitors.      *)
(*                                                                         *)
(* The process is one event loop: what a handler or a job does between two *)
(* awaits is one step.  A job awaits the telephone call and, after it, the *)
(* closing of its caller; verify_now awaits nothing after it looked for a  *)
(* running job; start_verification reads its request's body between its    *)
(* check and its start.  The workflow a job runs appears here through its  *)
(* transactions on the task (VerificationWorkflow has its inside and the   *)
(* failure reports), and another process may work on the same tasks.       *)
(***************************************************************************)
EXTENDS TaskQueue, CallEvidence, Sequences

CONSTANTS
  Curators,      \* sessions that may press "verify" on a queue card
  JobsKept,      \* JobRegistry.maximum
  DailyLimit,    \* settings.public_verification_daily_limit
  LiveCalling,   \* settings.live_calling
  JobHours,      \* bound on one job, as WorkflowHours
  Moments,       \* bound: the instants at which a run looks at the clock
  MaxJobs        \* bound: jobs a run ever starts

ASSUME JobsAssumption ==
  /\ JobsKept \in Nat \ {0} /\ DailyLimit \in Nat /\ MaxJobs \in Nat
  /\ LiveCalling \in BOOLEAN
  /\ Moments \subseteq Nat /\ JobHours \in Nat

VARIABLES
  jobs,        \* every job started, by the order of starting
  registered,  \* JobRegistry.jobs: task -> its latest job
  order,       \* JobRegistry.order: the tasks of the starts remembered
  consoles,    \* the task a curator's start_verification waits to start
  budget,      \* DailyBudget
  elsewhere    \* the tasks another process has claimed

registryVars == <<jobs, registered, order>>
jobsVars == <<now, queueVars, registryVars, consoles, budget, elsewhere>>

JobIds == 1 .. MaxJobs
NoJob == 0
NoTask == <<>>

Over == {"review", "verified", "failed", "refused"}
\* `ending` is the state the job will show once its caller is closed.
Job == [task: TaskIds, public: BOOLEAN, startedAt: Nat, asked: SUBSET Fields,
        state: {"requested", "calling"} \cup Over, ending: {"none"} \cup Over,
        authority: Authority]
Unstarted == [state |-> "unstarted"]

Started(j) == jobs[j].state # "unstarted"
Running(j) == jobs[j].state \in {"requested", "calling"}
OnTheLine(j) == jobs[j].state = "calling" /\ jobs[j].ending = "none"
Closing(j) == jobs[j].state = "calling" /\ jobs[j].ending # "none"
Listed == {t \in TaskIds : registered[t] # NoJob}
Today == now \div 24

JobsInit ==
  /\ \E m \in Moments : now = m /\ \A n \in Moments : m <= n
  /\ QueueInit
  /\ jobs = [j \in JobIds |-> Unstarted]
  /\ registered = [t \in TaskIds |-> NoJob]
  /\ order = <<>>
  /\ consoles = [k \in Curators |-> NoTask]
  /\ budget = [day |-> 0, spent |-> 0]
  /\ elsewhere = {}

-----------------------------------------------------------------------------
\* JobRegistry

\* Fault: one start too many is forgotten.
ForgetOldestEarly(listed, starts) ==
  IF Len(starts) >= JobsKept
  THEN <<[listed EXCEPT ![Head(starts)] = NoJob], Tail(starts)>>
  ELSE <<listed, starts>>

\* Fault: the job is dropped and its start stays in the list.
ForgetJobOnly(listed, starts) ==
  IF Len(starts) > JobsKept
  THEN <<[listed EXCEPT ![Head(starts)] = NoJob], starts>>
  ELSE <<listed, starts>>

\* start's loop, which one start at a time makes a single step: the oldest start
\* is popped, and with it whatever job its task has now.
ForgetOldest(listed, starts) ==
  IF Len(starts) > JobsKept
  THEN <<[listed EXCEPT ![Head(starts)] = NoJob], Tail(starts)>>
  ELSE <<listed, starts>>

\* start, and the asyncio.create_task after it.
Start(t, public) ==
  \E j \in JobIds :
    /\ ~Started(j) /\ \A i \in JobIds : i < j => Started(i)
    /\ jobs' = [jobs EXCEPT ![j] =
         [task |-> t, public |-> public, startedAt |-> now, asked |-> {},
          state |-> "requested", ending |-> "none", authority |-> REFRESH]]
    /\ LET kept == ForgetOldest([registered EXCEPT ![t] = j], Append(order, t))
       IN  registered' = kept[1] /\ order' = kept[2]

\* running_for finds a job that is not over.
HasRunningJob(s) == \E t \in Listed : ServiceOf(t) = s /\ Running(registered[t])

\* DailyBudget._roll
Rolled == IF budget.day = Today THEN budget ELSE [day |-> Today, spent |-> 0]

\* Fault: off by one.
BudgetAllowsOneMore == Rolled.spent <= DailyLimit

\* DailyBudget.allow's test.
BudgetAllows == Rolled.spent < DailyLimit

-----------------------------------------------------------------------------
\* The handlers

\* verify_now past its limiter, for a record with no running job.  An anonymous
\* visitor spends of the budget, and of a deployment that can dial asks nothing.
VerifyNow(s, fields, public) ==
  /\ ~HasRunningJob(s)
  /\ public => ~LiveCalling /\ BudgetAllows
  /\ budget' = IF public THEN [Rolled EXCEPT !.spent = @ + 1] ELSE budget
  /\ CreateVerificationTask(s, fields)
  /\ \E t \in TaskIds :
       /\ ServiceOf(t) = s /\ tasks'[t].status \in OpenStatuses
       /\ Start(t, public)
  /\ UNCHANGED <<now, consoles, elsewhere>>

\* allow returns False: the refusal too rolls the budget to the new day.
RefuseVisitor(s) ==
  /\ ~LiveCalling /\ ~HasRunningJob(s) /\ ~BudgetAllows
  /\ budget' = Rolled
  /\ UNCHANGED <<now, queueVars, registryVars, consoles, elsewhere>>

\* start_verification up to `await request.body()`.
AskStart(k, t) ==
  /\ consoles[k] = NoTask
  /\ tasks[t].status # "unused"
  /\ ~(t \in Listed /\ Running(registered[t]))
  /\ consoles' = [consoles EXCEPT ![k] = t]
  /\ UNCHANGED <<now, queueVars, registryVars, budget, elsewhere>>

\* ... and after it: nothing is looked up again.
StartAsked(k) ==
  /\ consoles[k] # NoTask
  /\ Start(consoles[k], FALSE)
  /\ consoles' = [consoles EXCEPT ![k] = NoTask]
  /\ UNCHANGED <<now, queueVars, budget, elsewhere>>

\* The body never arrives or names an unknown scenario.
DropAsked(k) ==
  /\ consoles[k] # NoTask
  /\ consoles' = [consoles EXCEPT ![k] = NoTask]
  /\ UNCHANGED <<now, queueVars, registryVars, budget, elsewhere>>

HandlerVarsUnchanged == UNCHANGED <<now, registered, order, consoles, budget, elsewhere>>

-----------------------------------------------------------------------------
\* _run_verification, and through it VerificationWorkflow.run.

\* The task is claimed, and the caller awaited.
BeginCall(j) ==
  /\ jobs[j].state = "requested"
  /\ ClaimTask(jobs[j].task)
  /\ jobs' = [jobs EXCEPT ![j].state = "calling", ![j].asked = tasks[jobs[j].task].fields]
  /\ UNCHANGED <<reports, organizationOf>> /\ HandlerVarsUnchanged

\* Fault: only the refusal of a task that somebody else holds is caught.
RefuseIfHeld(j) ==
  /\ jobs[j].state = "requested"
  /\ tasks[jobs[j].task].status = "in_progress"
  /\ jobs' = [jobs EXCEPT ![j].state = "refused"]
  /\ UNCHANGED queueVars /\ HandlerVarsUnchanged

\* claim_task raises: somebody else has the task, or it is not due or not open.
Refuse(j) ==
  /\ jobs[j].state = "requested"
  /\ ~Claimable(jobs[j].task)
  /\ jobs' = [jobs EXCEPT ![j].state = "refused"]
  /\ UNCHANGED queueVars /\ HandlerVarsUnchanged

\* The call is over and record_verification commits.
Finish(j) ==
  LET t == jobs[j].task
  IN  /\ OnTheLine(j)
      /\ tasks[t].status = "in_progress"
      /\ \E e \in ReadEvidence(jobs[j].asked) :
           LET decisions == Classify(e, jobs[j].asked)
               pending == NeedsAPerson(decisions)
           IN  /\ IF ReachedSomeone(e) THEN SettleTask(t, pending) ELSE RequeueTask(t)
               /\ jobs' = [jobs EXCEPT ![j].ending = IF pending THEN "review" ELSE "verified",
                                       ![j].authority = Overall(decisions)]
      /\ UNCHANGED <<reports, organizationOf>> /\ HandlerVarsUnchanged

\* Fault: the job is over and its task still claimed.
FailUnreleased(j) ==
  /\ OnTheLine(j)
  /\ \E ending \in {"failed", "refused"} : jobs' = [jobs EXCEPT ![j].ending = ending]
  /\ UNCHANGED queueVars /\ HandlerVarsUnchanged

\* An exception after the claim: the task is released.  A ValueError, whether
\* from a gate or from the recording of a finished call, makes it "refused".
Fail(j) ==
  /\ OnTheLine(j)
  /\ ReleaseTask(jobs[j].task)
  /\ \E ending \in {"failed", "refused"} : jobs' = [jobs EXCEPT ![j].ending = ending]
  /\ UNCHANGED <<reports, organizationOf>> /\ HandlerVarsUnchanged

\* caller.aclose() returns; the job gets its state.
Close(j) ==
  /\ Closing(j)
  /\ jobs' = [jobs EXCEPT ![j].state = jobs[j].ending]
  /\ UNCHANGED queueVars /\ HandlerVarsUnchanged

JobStep(j) == BeginCall(j) \/ Refuse(j) \/ Finish(j) \/ Fail(j) \/ Close(j)

-----------------------------------------------------------------------------
\* What else moves the tasks: other processes, requests, reviews, the clock.

ClaimElsewhere(t) ==
  /\ ClaimTask(t)
  /\ elsewhere' = elsewhere \cup {t}
  /\ UNCHANGED <<now, reports, organizationOf, registryVars, consoles, budget>>

EndElsewhere(t) ==
  /\ t \in elsewhere
  /\ \/ ReleaseTask(t)
     \/ /\ tasks[t].status = "in_progress"
        /\ RequeueTask(t) \/ \E pending \in BOOLEAN : SettleTask(t, pending)
  /\ elsewhere' = elsewhere \ {t}
  /\ UNCHANGED <<now, reports, organizationOf, registryVars, consoles, budget>>

\* report_failure, or a request from another process: a task and no job.
Queue(s, fields) ==
  /\ CreateVerificationTask(s, fields)
  /\ UNCHANGED <<now, registryVars, consoles, budget, elsewhere>>

\* The last decision on a run of the task.
Review(t) ==
  /\ IsOpen(t) /\ tasks[t].attempts > 0
  /\ CompleteTask(t)
  /\ UNCHANGED <<now, reports, organizationOf, registryVars, consoles, budget, elsewhere>>

Tick ==
  /\ now' \in {m \in Moments : m > now}
  /\ \A j \in JobIds : Started(j) /\ Running(j) => now' < jobs[j].startedAt + JobHours
  /\ UNCHANGED <<queueVars, registryVars, consoles, budget, elsewhere>>

JobsNext ==
  \/ \E s \in Services, fields \in RequestSets, public \in BOOLEAN : VerifyNow(s, fields, public)
  \/ \E s \in Services : RefuseVisitor(s) \/ \E fields \in RequestSets : Queue(s, fields)
  \/ \E k \in Curators : StartAsked(k) \/ DropAsked(k) \/ \E t \in TaskIds : AskStart(k, t)
  \/ \E j \in JobIds : JobStep(j)
  \/ \E t \in TaskIds : ClaimElsewhere(t) \/ EndElsewhere(t) \/ Review(t)
  \/ Tick

JobsSpec == JobsInit /\ [][JobsNext]_jobsVars

\* Every await of a job has a timeout, and every exception a handler.
JobsFairSpec == JobsSpec /\ \A j \in JobIds : WF_jobsVars(JobStep(j))

-----------------------------------------------------------------------------
\* Properties

\* The registry stays within its bound and forgets nothing it still lists; a job
\* in it is the job of that task.
JobsTypeOK ==
  /\ now \in Nat /\ QueueTypeOK
  /\ jobs \in [JobIds -> Job \cup {Unstarted}]
  /\ order \in Seq(TaskIds) /\ Len(order) <= JobsKept
  /\ \A t \in Listed : /\ jobs[registered[t]].task = t
                       /\ \E i \in DOMAIN order : order[i] = t
  /\ consoles \in [Curators -> TaskIds \cup {NoTask}]
  /\ budget \in [day: Nat, spent: Nat]
  /\ elsewhere \subseteq TaskIds

\* However starts race, with each other and with another process, one task is on
\* the line once: start_verification's check may be stale, claim_task's is not.
OneCallPerTask ==
  /\ \A i, j \in JobIds : OnTheLine(i) /\ OnTheLine(j) /\ jobs[i].task = jobs[j].task => i = j
  /\ \A j \in JobIds : OnTheLine(j) => jobs[j].task \notin elsewhere

\* DailyBudget: the jobs anonymous visitors start on one day, whoever joined
\* whose task, are at most the day's limit.
BudgetHolds ==
  \A day \in {m \div 24 : m \in Moments} :
    Cardinality({j \in JobIds : Started(j) /\ jobs[j].public /\ jobs[j].startedAt \div 24 = day})
      <= DailyLimit

\* A visitor's ticket opens the job it was given for: a running job is found by
\* its task until that task is started again, or JobsKept jobs were started after
\* the first start of the task.
RunningIsListed ==
  \A j \in JobIds :
    \/ ~Started(j) \/ ~Running(j)
    \/ registered[jobs[j].task] = j
    \/ \E i \in JobIds : i > j /\ Started(i) /\ jobs[i].task = jobs[j].task
    \/ \E i \in 1 .. j : /\ jobs[i].task = jobs[j].task
                        /\ Cardinality({k \in JobIds : k > i /\ Started(k)}) >= JobsKept

\* A record is never locked by a job that is over: a claimed task has a job on the
\* line, here or in another process.
LockedTasksAreHeld ==
  \A t \in TaskIds : tasks[t].status = "in_progress" =>
    t \in elsewhere \/ \E j \in JobIds : OnTheLine(j) /\ jobs[j].task = t

\* Nobody follows a verification that never ends.
JobsEnd == \A j \in JobIds : (Started(j) ~> jobs[j].state \in Over)
=============================================================================
