------------------------------- MODULE TaskQueue ------------------------------
(***************************************************************************)
(* store.py: verification_tasks and failure_reports.                       *)
(*                                                                         *)
(* A row of verification_tasks is named by its service, the organization   *)
(* that ran the service when the row was inserted (the column never        *)
(* changes, while an import may move the service), and an ordinal.         *)
(* Priority, trigger and timestamps other than scheduled_for are left out: *)
(* the queue is a ranking, and no step of the workflow reads them.  Each   *)
(* operator is the effect of one SQLite transaction (BEGIN IMMEDIATE).     *)
(***************************************************************************)
EXTENDS Contracts

CONSTANTS
  Services,       \* services.id
  Organizations,  \* organizations.id
  RunBy,          \* service -> its organization when the program starts
  Reasons,        \* failure_reports.reason
  FieldsFor,      \* reason -> the fields it puts in doubt
  RequestSets,    \* the field sets a person may ask to have verified
  RoutineFields,  \* what a queue refresh asks about
  AgedFields,     \* what it adds once a record is 120 days old
  MaxTasks        \* bound: tasks one service ever has with one organization

ASSUME QueueAssumption ==
  /\ RunBy \in [Services -> Organizations]
  /\ FieldsFor \in [Reasons -> SUBSET Fields]
  /\ RequestSets \subseteq SUBSET Fields
  /\ RoutineFields \subseteq Fields /\ AgedFields \subseteq Fields
  /\ MaxTasks \in Nat

VARIABLES
  now,            \* the instant, in hours (see CallEligibility)
  tasks,          \* verification_tasks
  reports,        \* reports[s]: the reasons of the open failure reports of s
  organizationOf  \* services.organization_id

queueVars == <<tasks, reports, organizationOf>>

TaskIds == Services \X Organizations \X (1 .. MaxTasks)
ServiceOf(t) == t[1]
OrgOfTask(t) == t[2]

OpenStatuses == {"queued", "in_progress", "needs_review"}
TaskStatuses == OpenStatuses \cup {"unused", "completed"}
Task == [status: TaskStatuses, fields: SUBSET Fields, attempts: Nat, scheduledFor: Nat]
UnusedTask == [status |-> "unused", fields |-> {}, attempts |-> 0, scheduledFor |-> 0]
NewTask(fields) == [UnusedTask EXCEPT !.status = "queued", !.fields = fields]

QueueTypeOK ==
  /\ tasks \in [TaskIds -> Task]
  /\ reports \in [Services -> SUBSET Reasons]
  /\ organizationOf \in [Services -> Organizations]

QueueInit ==
  /\ tasks = [t \in TaskIds |-> UnusedTask]
  /\ reports = [s \in Services |-> {}]
  /\ organizationOf = RunBy

-----------------------------------------------------------------------------

IsOpen(t) == tasks[t].status \in OpenStatuses
HasOpenTask(s) == \E t \in TaskIds : ServiceOf(t) = s /\ IsOpen(t)

\* The row the next INSERT for a service of org gives, if the bound leaves one.
IsNextTask(t, org) ==
  /\ OrgOfTask(t) = org /\ tasks[t].status = "unused"
  /\ \A u \in TaskIds :
       /\ ServiceOf(u) = ServiceOf(t) /\ OrgOfTask(u) = org
       /\ tasks[u].status = "unused"
       => t[3] <= u[3]

\* Fault: a request does not look for an open task.
RequestWithoutJoining(s, fields) ==
  \E t \in TaskIds :
    /\ ServiceOf(t) = s /\ IsNextTask(t, organizationOf[s])
    /\ tasks' = [tasks EXCEPT ![t] = NewTask(fields)]

\* create_verification_task, and the half of report_failure that queues: raise
\* the task already open for the record, or open one.
RequestTask(s, fields) ==
  \/ /\ HasOpenTask(s)
     /\ tasks' = [t \in TaskIds |-> IF ServiceOf(t) = s /\ IsOpen(t)
                                    THEN [tasks[t] EXCEPT !.fields = @ \cup fields]
                                    ELSE tasks[t]]
  \/ /\ ~HasOpenTask(s)
     /\ \E t \in TaskIds :
          /\ ServiceOf(t) = s /\ IsNextTask(t, organizationOf[s])
          /\ tasks' = [tasks EXCEPT ![t] = NewTask(fields)]

CreateVerificationTask(s, fields) ==
  /\ RequestTask(s, fields)
  /\ UNCHANGED <<reports, organizationOf>>

ReportFailure(s, reason) ==
  /\ RequestTask(s, FieldsFor[reason])
  /\ reports' = [reports EXCEPT ![s] = @ \cup {reason}]
  /\ UNCHANGED organizationOf

\* refresh_queue, over the services that are active.  Which records are old
\* (`aged`) and which score high enough to open a task for (`stale`) is arithmetic
\* over dates and counts left out here.  A queued task's fields are overwritten,
\* whatever was merged into them.
RefreshQueue(active, aged, stale) ==
  LET routine(s) == RoutineFields \cup (IF s \in aged THEN AgedFields ELSE {})
  IN  /\ tasks' = [t \in TaskIds |->
           LET s == ServiceOf(t) IN
           IF s \in active /\ tasks[t].status = "queued" THEN [tasks[t] EXCEPT !.fields = routine(s)]
           ELSE IF ~HasOpenTask(s) /\ s \in stale /\ IsNextTask(t, organizationOf[s])
           THEN NewTask(routine(s))
           ELSE tasks[t]]
      /\ UNCHANGED <<reports, organizationOf>>

-----------------------------------------------------------------------------

\* Fault: any open task can be claimed.
ClaimableWhenOpen(t) == IsOpen(t) /\ tasks[t].scheduledFor <= now

Claimable(t) == tasks[t].status = "queued" /\ tasks[t].scheduledFor <= now

\* claim_task
ClaimTask(t) ==
  /\ Claimable(t)
  /\ tasks' = [tasks EXCEPT ![t].status = "in_progress"]

\* release_task: only an in-progress task is returned to the queue.
ReleaseTask(t) ==
  tasks' = [tasks EXCEPT ![t].status = IF @ = "in_progress" THEN "queued" ELSE @]

\* record_verification's exponential delay after a call that reached nobody.
RetryDelays == <<1, 2, 4, 8, 14>>
RetryDelay(attempt) == RetryDelays[IF attempt < 5 THEN attempt ELSE 5]

RequeueTask(t) ==
  tasks' = [tasks EXCEPT ![t].status = "queued", ![t].attempts = @ + 1,
                         ![t].scheduledFor = now + 24 * RetryDelay(tasks[t].attempts + 1)]

\* record_verification after a call that reached somebody.
SettleTask(t, pending) ==
  tasks' = [tasks EXCEPT ![t].status = IF pending THEN "needs_review" ELSE "completed",
                         ![t].attempts = @ + 1]

\* _complete_reviewed_run: completed, whatever the task's status has become.
CompleteTask(t) == tasks' = [tasks EXCEPT ![t].status = "completed"]

ResolveReports(s) == reports' = [reports EXCEPT ![s] = {}]

-----------------------------------------------------------------------------

\* The unique index one_open_task_per_service, kept by the code's own checks: a
\* record never has two open tasks, so two requests never become two calls.
OneOpenTaskPerService ==
  \A t, u \in TaskIds : ServiceOf(t) = ServiceOf(u) /\ IsOpen(t) /\ IsOpen(u) => t = u
=============================================================================
