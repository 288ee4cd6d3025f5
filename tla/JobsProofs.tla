------------------------------ MODULE JobsProofs ------------------------------
(***************************************************************************)
(* The verifications of one server process and its anonymous visitors, for *)
(* any number of services, curators, jobs, other processes' claims, any    *)
(* size of the registry and any daily limit.                               *)
(***************************************************************************)
EXTENDS VerificationJobs, CommonProofs, FiniteSetTheorems

-----------------------------------------------------------------------------
\* How one step may move the jobs.

\* The registry maps tasks to jobs that were started (a row that was not has no
\* task); with it the type invariant is inductive.
RegisteredTyped ==
  /\ registered \in [TaskIds -> JobIds \cup {NoJob}]
  /\ \A t \in Listed : Started(registered[t])
TypeInv == JobsTypeOK /\ RegisteredTyped

\* A job that was started stays the job it was, and no other one starts.
StartsKept ==
  \A j \in JobIds :
    /\ Started(j)' <=> Started(j)
    /\ Started(j) => /\ jobs'[j].task = jobs[j].task
                     /\ jobs'[j].public = jobs[j].public
                     /\ jobs'[j].startedAt = jobs[j].startedAt

\* A job's row is a job's or that of none.
LEMMA JobRow ==
  ASSUME TypeInv, NEW j \in JobIds, Started(j)
  PROVE  jobs[j] \in Job /\ jobs[j].task \in TaskIds
  BY DEF TypeInv, JobsTypeOK, Started, Unstarted, Job

\* Overall of what was classified is a verdict.
LEMMA VerdictType ==
  ASSUME NEW e, NEW asked
  PROVE  Overall(Classify(e, asked)) \in Authority
  BY ClassifyType, WorstVerdict

\* What a job's step writes of the job.
LEMMA JobStepMoves ==
  ASSUME TypeInv, NEW j \in JobIds, JobStep(j)
  PROVE  /\ Started(j)
         /\ \E job \in Job : /\ jobs' = [jobs EXCEPT ![j] = job]
                             /\ job.task = jobs[j].task /\ job.public = jobs[j].public
                             /\ job.startedAt = jobs[j].startedAt
<1>1. Started(j)
  BY DEF JobStep, BeginCall, Refuse, Finish, Fail, Close, OnTheLine, Closing, Started
<1>2. jobs[j] \in Job /\ jobs \in [JobIds -> Job \cup {Unstarted}]
  BY <1>1, JobRow DEF TypeInv, JobsTypeOK
<1>3. ASSUME NEW job, jobs' = [jobs EXCEPT ![j] = job], job \in Job,
             job.task = jobs[j].task, job.public = jobs[j].public,
             job.startedAt = jobs[j].startedAt
      PROVE  \E new \in Job : /\ jobs' = [jobs EXCEPT ![j] = new]
                              /\ new.task = jobs[j].task /\ new.public = jobs[j].public
                              /\ new.startedAt = jobs[j].startedAt
  BY <1>3
<1>4. CASE BeginCall(j)
  <2>. DEFINE job == [jobs[j] EXCEPT !.state = "calling", !.asked = tasks[jobs[j].task].fields]
  <2>1. jobs' = [jobs EXCEPT ![j] = job]
    BY <1>2, <1>4 DEF BeginCall
  <2>2. tasks[jobs[j].task].fields \in SUBSET Fields
    BY <1>1, JobRow DEF TypeInv, JobsTypeOK, QueueTypeOK, Task
  <2>3. /\ job \in Job /\ job.task = jobs[j].task /\ job.public = jobs[j].public
        /\ job.startedAt = jobs[j].startedAt
    BY <1>2, <2>2 DEF Job
  <2>. HIDE DEF job
  <2>. QED
    BY <1>1, <1>3, <2>1, <2>3
<1>5. CASE Refuse(j)
  <2>. DEFINE job == [jobs[j] EXCEPT !.state = "refused"]
  <2>1. jobs' = [jobs EXCEPT ![j] = job]
    BY <1>2, <1>5 DEF Refuse
  <2>2. /\ job \in Job /\ job.task = jobs[j].task /\ job.public = jobs[j].public
        /\ job.startedAt = jobs[j].startedAt
    BY <1>2 DEF Job, Over
  <2>. HIDE DEF job
  <2>. QED
    BY <1>1, <1>3, <2>1, <2>2
<1>6. CASE Finish(j)
  <2>1. PICK e \in ReadEvidence(jobs[j].asked) :
          jobs' = [jobs EXCEPT
            ![j].ending = IF NeedsAPerson(Classify(e, jobs[j].asked)) THEN "review" ELSE "verified",
            ![j].authority = Overall(Classify(e, jobs[j].asked))]
    BY <1>6 DEF Finish
  <2>. DEFINE ending == IF NeedsAPerson(Classify(e, jobs[j].asked)) THEN "review" ELSE "verified"
              authority == Overall(Classify(e, jobs[j].asked))
              job == [jobs[j] EXCEPT !.ending = ending, !.authority = authority]
  <2>2. ending \in {"none"} \cup Over /\ authority \in Authority
    BY VerdictType DEF Over
  <2>3. jobs' = [jobs EXCEPT ![j].ending = ending, ![j].authority = authority]
    BY <2>1
  <2>. HIDE DEF ending, authority
  <2>4. jobs' = [jobs EXCEPT ![j] = job]
    BY <1>2, <2>3
  <2>5. /\ job \in Job /\ job.task = jobs[j].task /\ job.public = jobs[j].public
        /\ job.startedAt = jobs[j].startedAt
    BY <1>2, <2>2 DEF Job
  <2>. HIDE DEF job
  <2>. QED
    BY <1>1, <1>3, <2>4, <2>5
<1>7. CASE Fail(j)
  <2>1. PICK ending \in {"failed", "refused"} : jobs' = [jobs EXCEPT ![j].ending = ending]
    BY <1>7 DEF Fail
  <2>. DEFINE job == [jobs[j] EXCEPT !.ending = ending]
  <2>2. jobs' = [jobs EXCEPT ![j] = job]
    BY <1>2, <2>1
  <2>3. /\ job \in Job /\ job.task = jobs[j].task /\ job.public = jobs[j].public
        /\ job.startedAt = jobs[j].startedAt
    BY <1>2 DEF Job, Over
  <2>. HIDE DEF job
  <2>. QED
    BY <1>1, <1>3, <2>2, <2>3
<1>8. CASE Close(j)
  <2>. DEFINE job == [jobs[j] EXCEPT !.state = jobs[j].ending]
  <2>1. jobs' = [jobs EXCEPT ![j] = job]
    BY <1>2, <1>8 DEF Close
  <2>2. jobs[j].ending \in Over
    BY <1>2, <1>8 DEF Close, Closing, Job
  <2>3. /\ job \in Job /\ job.task = jobs[j].task /\ job.public = jobs[j].public
        /\ job.startedAt = jobs[j].startedAt
    BY <1>2, <2>2 DEF Job
  <2>. HIDE DEF job
  <2>. QED
    BY <1>1, <1>3, <2>1, <2>3
<1>. QED
  BY <1>1, <1>4, <1>5, <1>6, <1>7, <1>8 DEF JobStep

\* What a job's step leaves alone.
LEMMA JobStepKeeps ==
  ASSUME TypeInv, NEW j \in JobIds, JobStep(j)
  PROVE  /\ jobs' \in [JobIds -> Job \cup {Unstarted}]
         /\ StartsKept
         /\ \A i \in JobIds : i # j => jobs'[i] = jobs[i]
         /\ UNCHANGED <<now, registered, order, consoles, budget, elsewhere, reports, organizationOf>>
<1>1. PICK job \in Job : /\ jobs' = [jobs EXCEPT ![j] = job]
                         /\ job.task = jobs[j].task /\ job.public = jobs[j].public
                         /\ job.startedAt = jobs[j].startedAt
  BY JobStepMoves
<1>2. Started(j) /\ jobs \in [JobIds -> Job \cup {Unstarted}]
  BY JobStepMoves DEF TypeInv, JobsTypeOK
<1>3. job.state # "unstarted"
  BY DEF Job, Over
<1>4. UNCHANGED <<now, registered, order, consoles, budget, elsewhere, reports, organizationOf>>
  BY DEF JobStep, BeginCall, Refuse, Finish, Fail, Close, HandlerVarsUnchanged, queueVars
<1>. QED
  BY <1>1, <1>2, <1>3, <1>4 DEF StartsKept, Started

\* Everything but a job's step and a start.
Aside ==
  \/ \E s \in Services : RefuseVisitor(s) \/ \E fields \in RequestSets : Queue(s, fields)
  \/ \E k \in Curators : DropAsked(k) \/ \E t \in TaskIds : AskStart(k, t)
  \/ \E t \in TaskIds : ClaimElsewhere(t) \/ EndElsewhere(t) \/ Review(t)
  \/ Tick
  \/ UNCHANGED jobsVars

\* It leaves the jobs and the registry alone.
LEMMA AsideKeeps == ASSUME Aside PROVE UNCHANGED registryVars /\ StartsKept
<1>1. UNCHANGED registryVars
  BY DEF Aside, RefuseVisitor, Queue, DropAsked, AskStart, ClaimElsewhere, EndElsewhere, Review,
         Tick, jobsVars
<1>. QED
  BY <1>1 DEF registryVars, StartsKept, Started

\* A start of a job for t, whichever handler starts it.
StartStep(t, public) ==
  \/ \E s \in Services, fields \in RequestSets :
       /\ ~HasRunningJob(s) /\ CreateVerificationTask(s, fields)
       /\ public => ~LiveCalling /\ BudgetAllows
       /\ budget' = IF public THEN [Rolled EXCEPT !.spent = @ + 1] ELSE budget
       /\ Start(t, public)
       /\ UNCHANGED <<now, consoles, elsewhere>>
  \/ \E k \in Curators :
       /\ consoles[k] = t /\ ~public
       /\ Start(t, public)
       /\ consoles' = [consoles EXCEPT ![k] = NoTask]
       /\ UNCHANGED <<now, queueVars, budget, elsewhere>>

\* Every step is a start, a job's step, or aside.
LEMMA StepKinds ==
  ASSUME TypeInv, [JobsNext]_jobsVars
  PROVE  \/ \E t \in TaskIds, public \in BOOLEAN : StartStep(t, public)
         \/ \E j \in JobIds : JobStep(j)
         \/ Aside
<1>1. ASSUME NEW s \in Services, NEW fields \in RequestSets, NEW public \in BOOLEAN,
             VerifyNow(s, fields, public)
      PROVE  \E t \in TaskIds : StartStep(t, public)
  BY <1>1 DEF VerifyNow, StartStep
<1>2. ASSUME NEW k \in Curators, StartAsked(k)
      PROVE  \E t \in TaskIds : StartStep(t, FALSE)
  <2>1. consoles[k] \in TaskIds
    BY <1>2 DEF StartAsked, TypeInv, JobsTypeOK
  <2>. QED
    BY <1>2, <2>1 DEF StartAsked, StartStep
<1>. QED
  BY <1>1, <1>2 DEF JobsNext, Aside

-----------------------------------------------------------------------------
\* The registry.

\* What a start does (JobRegistry.start): the next job is for t, t is remembered as
\* the last start, and the first start remembered is forgotten if there is no room.
StartOf(j, t, public) ==
  /\ ~Started(j) /\ \A i \in JobIds : i < j => Started(i)
  /\ jobs' \in [JobIds -> Job \cup {Unstarted}]
  /\ Started(j)' /\ jobs'[j].task = t /\ jobs'[j].public = public
  /\ jobs'[j].startedAt = now /\ jobs'[j].state = "requested" /\ jobs'[j].ending = "none"
  /\ \A i \in JobIds : i # j => jobs'[i] = jobs[i]
  /\ \/ /\ Len(order) < JobsKept
        /\ order' = Append(order, t)
        /\ registered' = [registered EXCEPT ![t] = j]
     \/ /\ Len(order) = JobsKept
        /\ order' = Tail(Append(order, t))
        /\ registered' = [[registered EXCEPT ![t] = j] EXCEPT ![Head(order)] = NoJob]

LEMMA StartEffect ==
  ASSUME TypeInv, NEW t \in TaskIds, NEW public \in BOOLEAN, Start(t, public)
  PROVE  \E j \in JobIds : StartOf(j, t, public)
<1>. DEFINE row == [task |-> t, public |-> public, startedAt |-> now, asked |-> {},
                    state |-> "requested", ending |-> "none", authority |-> REFRESH]
            starts == Append(order, t)
<1>1. PICK j \in JobIds :
        /\ ~Started(j) /\ \A i \in JobIds : i < j => Started(i)
        /\ jobs' = [jobs EXCEPT ![j] = row]
        /\ registered' = ForgetOldest([registered EXCEPT ![t] = j], starts)[1]
        /\ order' = ForgetOldest([registered EXCEPT ![t] = j], starts)[2]
  BY DEF Start
<1>2. row \in Job /\ row.state # "unstarted"
  BY DEF TypeInv, JobsTypeOK, Job, REFRESH, Authority, STOP
<1>3. /\ row.task = t /\ row.public = public /\ row.startedAt = now /\ row.state = "requested"
      /\ row.ending = "none"
  OBVIOUS
<1>. HIDE DEF row
<1>4. /\ jobs' \in [JobIds -> Job \cup {Unstarted}]
      /\ jobs'[j] = row
      /\ \A i \in JobIds : i # j => jobs'[i] = jobs[i]
  BY <1>1, <1>2 DEF TypeInv, JobsTypeOK
<1>5. /\ order \in Seq(TaskIds) /\ Len(order) \in Nat /\ Len(order) <= JobsKept
      /\ JobsKept \in Nat \ {0}
  BY JobsAssumption DEF TypeInv, JobsTypeOK
<1>6. Len(starts) = Len(order) + 1 /\ (Len(order) > 0 => Head(starts) = Head(order))
  BY <1>5
<1>7. CASE Len(order) < JobsKept
  <2>1. ~(Len(starts) > JobsKept)
    BY <1>5, <1>6, <1>7
  <2>. QED
    BY <1>1, <1>2, <1>3, <1>4, <1>7, <2>1 DEF ForgetOldest, StartOf, Started
<1>8. CASE Len(order) = JobsKept
  <2>1. Len(starts) > JobsKept /\ Head(starts) = Head(order)
    BY <1>5, <1>6, <1>8
  <2>. HIDE DEF starts
  <2>2. /\ registered' = [[registered EXCEPT ![t] = j] EXCEPT ![Head(order)] = NoJob]
        /\ order' = Tail(starts)
    BY <1>1, <2>1 DEF ForgetOldest
  <2>. QED
    BY <1>1, <1>2, <1>3, <1>4, <1>8, <2>2 DEF StartOf, Started, starts
<1>. QED
  BY <1>5, <1>7, <1>8

\* The registry's part of the type invariant.
RegistryTyped ==
  /\ RegisteredTyped
  /\ order \in Seq(TaskIds) /\ Len(order) <= JobsKept
  /\ \A u \in Listed : /\ jobs[registered[u]].task = u
                       /\ \E i \in DOMAIN order : order[i] = u

LEMMA StartTyped ==
  ASSUME TypeInv, NEW t \in TaskIds, NEW public \in BOOLEAN, NEW j \in JobIds,
         StartOf(j, t, public)
  PROVE  RegistryTyped'
<1>1. /\ order \in Seq(TaskIds) /\ Len(order) \in Nat /\ Len(order) <= JobsKept
      /\ JobsKept \in Nat \ {0} /\ RegisteredTyped /\ j # NoJob
      /\ \A u \in TaskIds : registered[u] # NoJob =>
           /\ registered[u] \in JobIds /\ jobs[registered[u]].task = u
           /\ Started(registered[u])
           /\ \E i \in 1 .. Len(order) : order[i] = u
  BY JobsAssumption DEF TypeInv, JobsTypeOK, RegisteredTyped, Listed, JobIds, NoJob
<1>2. /\ Started(j)' /\ jobs'[j].task = t
      /\ \A i \in JobIds : i # j => jobs'[i] = jobs[i]
  BY DEF StartOf
<1>3. CASE Len(order) < JobsKept /\ order' = Append(order, t)
           /\ registered' = [registered EXCEPT ![t] = j]
  <2>1. /\ registered' \in [TaskIds -> JobIds \cup {NoJob}] /\ registered'[t] = j
        /\ \A u \in TaskIds : u # t => registered'[u] = registered[u]
    BY <1>1, <1>3 DEF RegisteredTyped
  <2>2. /\ order' \in Seq(TaskIds) /\ Len(order') = Len(order) + 1
        /\ order'[Len(order) + 1] = t /\ \A i \in 1 .. Len(order) : order'[i] = order[i]
    BY <1>1, <1>3
  <2>3. ASSUME NEW u \in TaskIds, registered'[u] # NoJob
        PROVE  /\ Started(registered[u])' /\ jobs'[registered'[u]].task = u
               /\ \E i \in 1 .. Len(order') : order'[i] = u
    <3>1. CASE u = t
      BY <1>1, <1>2, <2>1, <2>2, <3>1
    <3>2. CASE u # t
      <4>1. /\ registered'[u] = registered[u] /\ jobs[registered[u]].task = u
            /\ registered[u] \in JobIds /\ registered[u] # j /\ Started(registered[u])
            /\ \E i \in 1 .. Len(order) : order[i] = u
        BY <1>1, <2>1, <2>3, <3>2 DEF StartOf
      <4>. QED
        BY <1>1, <1>2, <2>2, <4>1 DEF Started
    <3>. QED
      BY <3>1, <3>2
  <2>. QED
    BY <1>1, <1>3, <2>1, <2>2, <2>3 DEF RegistryTyped, RegisteredTyped, Listed
<1>4. CASE Len(order) = JobsKept /\ order' = Tail(Append(order, t))
           /\ registered' = [[registered EXCEPT ![t] = j] EXCEPT ![Head(order)] = NoJob]
  <2>. DEFINE head == Head(order)
  <2>1. head \in TaskIds /\ head = order[1]
    BY <1>1, <1>4
  <2>. HIDE DEF head
  <2>2. /\ registered' \in [TaskIds -> JobIds \cup {NoJob}] /\ registered'[head] = NoJob
        /\ (t # head => registered'[t] = j)
        /\ \A u \in TaskIds : u # t /\ u # head => registered'[u] = registered[u]
    BY <1>1, <1>4, <2>1 DEF RegisteredTyped, head
  <2>3. /\ order' \in Seq(TaskIds) /\ Len(order') = Len(order)
        /\ order'[Len(order)] = t /\ \A i \in 1 .. Len(order) : i > 1 => order'[i - 1] = order[i]
    BY <1>1, <1>4
  <2>4. ASSUME NEW u \in TaskIds, registered'[u] # NoJob
        PROVE  /\ Started(registered[u])' /\ jobs'[registered'[u]].task = u
               /\ \E i \in 1 .. Len(order') : order'[i] = u
    <3>1. u # head
      BY <2>2, <2>4
    <3>2. CASE u = t
      BY <1>1, <1>2, <1>4, <2>2, <2>3, <3>1, <3>2
    <3>3. CASE u # t
      <4>1. /\ registered'[u] = registered[u] /\ jobs[registered[u]].task = u
            /\ registered[u] \in JobIds /\ registered[u] # j /\ Started(registered[u])
        BY <1>1, <2>2, <2>4, <3>1, <3>3 DEF StartOf
      <4>2. PICK i \in 1 .. Len(order) : order[i] = u
        BY <1>1, <4>1, <2>4
      <4>3. i > 1 /\ i - 1 \in 1 .. Len(order') /\ order'[i - 1] = u
        BY <1>1, <2>1, <2>3, <3>1, <4>2
      <4>. QED
        BY <1>1, <1>2, <4>1, <4>3 DEF Started
    <3>. QED
      BY <3>2, <3>3
  <2>. QED
    BY <1>1, <2>2, <2>3, <2>4 DEF RegistryTyped, RegisteredTyped, Listed
<1>. QED
  BY <1>3, <1>4 DEF StartOf

-----------------------------------------------------------------------------
\* Types.

LEMMA TypeInit == JobsInit => TypeInv
<1>. SUFFICES ASSUME JobsInit PROVE TypeInv
  OBVIOUS
<1>1. now \in Nat
  BY JobsAssumption DEF JobsInit
<1>2. QueueTypeOK
  BY QueueAssumption
     DEF JobsInit, QueueInit, QueueTypeOK, UnusedTask, Task, TaskStatuses, OpenStatuses
<1>3. Listed = {} /\ RegisteredTyped
  BY DEF JobsInit, Listed, RegisteredTyped, NoJob
<1>4. order \in Seq(TaskIds) /\ Len(order) <= JobsKept
  BY JobsAssumption DEF JobsInit
<1>. QED
  BY <1>1, <1>2, <1>3, <1>4 DEF JobsInit, TypeInv, JobsTypeOK, NoTask

\* The tasks keep their type, whoever moves them.
LEMMA QueueKept ==
  ASSUME TypeInv, [JobsNext]_jobsVars
  PROVE  QueueTypeOK'
<1>1. /\ tasks \in [TaskIds -> Task] /\ now \in Nat /\ QueueTypeOK
      /\ RequestSets \subseteq SUBSET Fields
  BY QueueAssumption DEF TypeInv, JobsTypeOK, QueueTypeOK
<1>2. SUFFICES tasks' \in [TaskIds -> Task] /\ UNCHANGED <<reports, organizationOf>>
  BY <1>1 DEF QueueTypeOK
<1>3. ASSUME NEW s \in Services, NEW fields \in RequestSets, CreateVerificationTask(s, fields)
      PROVE  tasks' \in [TaskIds -> Task] /\ UNCHANGED <<reports, organizationOf>>
  BY <1>1, <1>3, RequestTaskType DEF CreateVerificationTask
<1>4. ASSUME NEW t \in TaskIds, NEW public \in BOOLEAN, StartStep(t, public)
      PROVE  tasks' \in [TaskIds -> Task] /\ UNCHANGED <<reports, organizationOf>>
  BY <1>1, <1>3, <1>4 DEF StartStep, queueVars
<1>5. ASSUME NEW j \in JobIds, JobStep(j)
      PROVE  tasks' \in [TaskIds -> Task] /\ UNCHANGED <<reports, organizationOf>>
  <2>1. jobs[j].task \in TaskIds /\ UNCHANGED <<reports, organizationOf>>
    BY <1>5, JobStepMoves, JobStepKeeps, JobRow
  <2>2. \/ UNCHANGED tasks
        \/ ClaimTask(jobs[j].task) \/ ReleaseTask(jobs[j].task) \/ RequeueTask(jobs[j].task)
        \/ \E pending \in BOOLEAN : SettleTask(jobs[j].task, pending)
    BY <1>5 DEF JobStep, BeginCall, Refuse, Finish, Fail, Close, queueVars, NeedsAPerson
  <2>. QED
    BY <1>1, <2>1, <2>2, MoveTaskType
<1>6. CASE Aside
  <2>1. UNCHANGED <<reports, organizationOf>>
    BY <1>6 DEF Aside, RefuseVisitor, Queue, CreateVerificationTask, DropAsked, AskStart,
                ClaimElsewhere, EndElsewhere, Review, Tick, jobsVars, queueVars
  <2>2. \/ UNCHANGED tasks
        \/ \E s \in Services, fields \in RequestSets : CreateVerificationTask(s, fields)
        \/ \E t \in TaskIds :
             \/ ClaimTask(t) \/ ReleaseTask(t) \/ RequeueTask(t) \/ CompleteTask(t)
             \/ \E pending \in BOOLEAN : SettleTask(t, pending)
    BY <1>6 DEF Aside, RefuseVisitor, Queue, DropAsked, AskStart, ClaimElsewhere, EndElsewhere,
                Review, Tick, jobsVars, queueVars
  <2>. QED
    BY <1>1, <1>3, <2>1, <2>2, MoveTaskType
<1>. QED
  BY <1>4, <1>5, <1>6, StepKinds

\* The budget keeps its type, and so do the curators' consoles and the clock.
LEMMA OthersKept ==
  ASSUME TypeInv, [JobsNext]_jobsVars
  PROVE  /\ now' \in Nat /\ now <= now'
         /\ budget' \in [day: Nat, spent: Nat]
         /\ consoles' \in [Curators -> TaskIds \cup {NoTask}]
         /\ elsewhere' \subseteq TaskIds
<1>1. /\ now \in Nat /\ budget \in [day: Nat, spent: Nat]
      /\ consoles \in [Curators -> TaskIds \cup {NoTask}] /\ elsewhere \subseteq TaskIds
  BY DEF TypeInv, JobsTypeOK
<1>2. Rolled \in [day: Nat, spent: Nat] /\ [Rolled EXCEPT !.spent = @ + 1] \in [day: Nat, spent: Nat]
  <2>1. Today \in Nat
    BY <1>1 DEF Today
  <2>. QED
    BY <1>1, <2>1 DEF Rolled
<1>3. ASSUME NEW t \in TaskIds, NEW public \in BOOLEAN, StartStep(t, public)
      PROVE  /\ now' = now /\ budget' \in [day: Nat, spent: Nat]
             /\ consoles' \in [Curators -> TaskIds \cup {NoTask}] /\ elsewhere' = elsewhere
  BY <1>1, <1>2, <1>3 DEF StartStep
<1>4. ASSUME NEW j \in JobIds, JobStep(j)
      PROVE  UNCHANGED <<now, budget, consoles, elsewhere>>
  BY <1>4, JobStepKeeps
<1>5. CASE Aside
  <2>1. now' \in Nat /\ now <= now'
    <3>1. now' = now \/ \E m \in Moments : now' = m /\ m > now
      BY <1>5 DEF Aside, RefuseVisitor, Queue, DropAsked, AskStart, ClaimElsewhere, EndElsewhere,
        Review, Tick, jobsVars
    <3>. QED
      BY <1>1, <3>1, JobsAssumption
  <2>2. budget' = budget \/ budget' = Rolled
    BY <1>5 DEF Aside, RefuseVisitor, Queue, DropAsked, AskStart, ClaimElsewhere, EndElsewhere,
      Review, Tick, jobsVars
  <2>3. consoles' \in [Curators -> TaskIds \cup {NoTask}]
    BY <1>1, <1>5 DEF Aside, RefuseVisitor, Queue, DropAsked, AskStart, ClaimElsewhere,
      EndElsewhere, Review, Tick, jobsVars
  <2>4. elsewhere' \subseteq TaskIds
    BY <1>1, <1>5 DEF Aside, RefuseVisitor, Queue, DropAsked, AskStart, ClaimElsewhere,
      EndElsewhere, Review, Tick, jobsVars
  <2>. QED
    BY <1>1, <1>2, <2>1, <2>2, <2>3, <2>4
<1>. QED
  BY <1>1, <1>3, <1>4, <1>5, StepKinds

LEMMA TypeNext == TypeInv /\ [JobsNext]_jobsVars => TypeInv'
<1>. SUFFICES ASSUME TypeInv, [JobsNext]_jobsVars PROVE TypeInv'
  OBVIOUS
<1>1. jobs \in [JobIds -> Job \cup {Unstarted}] /\ RegistryTyped
  BY DEF TypeInv, JobsTypeOK, RegistryTyped
<1>2. jobs' \in [JobIds -> Job \cup {Unstarted}] /\ RegistryTyped'
  <2>1. ASSUME NEW t \in TaskIds, NEW public \in BOOLEAN, StartStep(t, public)
        PROVE  jobs' \in [JobIds -> Job \cup {Unstarted}] /\ RegistryTyped'
    <3>1. PICK j \in JobIds : StartOf(j, t, public)
      BY <2>1, StartEffect DEF StartStep
    <3>. QED
      BY <3>1, StartTyped DEF StartOf
  <2>2. CASE (\E j \in JobIds : JobStep(j)) \/ Aside
    <3>1. /\ jobs' \in [JobIds -> Job \cup {Unstarted}] /\ StartsKept
          /\ UNCHANGED <<registered, order>>
      BY <1>1, <2>2, JobStepKeeps, AsideKeeps DEF registryVars
    <3>2. \A u \in Listed : registered[u] \in JobIds /\ Started(registered[u])
      BY <1>1 DEF RegistryTyped, RegisteredTyped, Listed
    <3>. QED
      BY <1>1, <3>1, <3>2 DEF RegistryTyped, RegisteredTyped, Listed, StartsKept
  <2>. QED
    BY <2>1, <2>2, StepKinds
<1>. QED
  BY <1>2, QueueKept, OthersKept DEF TypeInv, JobsTypeOK, RegistryTyped

\* The registry stays within JobRegistry.maximum and lists no job that is not of
\* its task, for any size of it; every job, task and budget keeps its type.
THEOREM JobsTyped == JobsSpec => []JobsTypeOK
<1>1. TypeInv => JobsTypeOK
  BY DEF TypeInv
<1>. QED
  BY <1>1, TypeInit, TypeNext, PTL DEF JobsSpec

-----------------------------------------------------------------------------
\* Which job is listed.

\* The first n jobs were started, and the starts remembered are the last of them.
LastStarts(n) ==
  /\ n \in 0 .. MaxJobs
  /\ \A j \in JobIds : Started(j) <=> j <= n
  /\ Len(order) = IF n < JobsKept THEN n ELSE JobsKept
  /\ \A k \in 1 .. Len(order) : order[k] = jobs[n - Len(order) + k].task

\* A job is found by its task, running or not, until the task was started again, or
\* one of its own or earlier starts was forgotten.
Found(j, n) ==
  \/ registered[jobs[j].task] = j
  \/ \E i \in 1 .. n : i > j /\ jobs[i].task = jobs[j].task
  \/ \E i \in 1 .. j : jobs[i].task = jobs[j].task /\ n - i >= JobsKept
RegistryInv == \E n \in Nat : LastStarts(n) /\ \A j \in 1 .. n : Found(j, n)

\* The jobs that a visitor started on a day, and what the budget knows of them:
\* all of its own day's, and none of a later one.
PublicOn(day) == {j \in JobIds : Started(j) /\ jobs[j].public /\ jobs[j].startedAt \div 24 = day}
Covers(account) ==
  /\ account.day <= Today /\ account.spent <= DailyLimit
  /\ \A day \in Nat :
       /\ Cardinality(PublicOn(day)) <= DailyLimit
       /\ day = account.day => Cardinality(PublicOn(day)) <= account.spent
       /\ day > account.day => PublicOn(day) = {}
BudgetInv == Covers(budget)

\* A task on the line is claimed, or a reviewer completed it meanwhile: it is not
\* in the queue, so nobody claims it a second time.  A job that waits for its claim
\* has no ending yet.
Line(t) == {j \in JobIds : OnTheLine(j) /\ jobs[j].task = t}
Held(t) == t \in elsewhere \/ Line(t) # {}
HeldTasksAreTaken == \A t \in TaskIds : Held(t) => tasks[t].status \in {"in_progress", "completed"}
RequestedHaveNoEnding == \A j \in JobIds : jobs[j].state = "requested" => jobs[j].ending = "none"
HoldInv ==
  OneCallPerTask /\ LockedTasksAreHeld /\ HeldTasksAreTaken /\ RequestedHaveNoEnding

-----------------------------------------------------------------------------
\* The registry finds the jobs.

LEMMA RegistryInit == JobsInit => RegistryInv
<1>. SUFFICES ASSUME JobsInit PROVE RegistryInv
  OBVIOUS
<1>1. LastStarts(0)
  BY JobsAssumption DEF JobsInit, LastStarts, Started, Unstarted, JobIds
<1>. QED
  BY <1>1 DEF RegistryInv

\* A step that starts no job leaves the registry as it is.
LEMMA RegistryStays ==
  ASSUME TypeInv, RegistryInv, StartsKept, UNCHANGED <<registered, order>>
  PROVE  RegistryInv'
<1>1. PICK n \in Nat : LastStarts(n) /\ \A j \in 1 .. n : Found(j, n)
  BY DEF RegistryInv
<1>2. n \in 0 .. MaxJobs /\ MaxJobs \in Nat
  BY <1>1, JobsAssumption DEF LastStarts
<1>3. \A j \in 1 .. n : jobs'[j].task = jobs[j].task
  BY <1>1, <1>2 DEF LastStarts, StartsKept, JobIds
<1>4. LastStarts(n)'
  <2>1. \A k \in 1 .. Len(order) : n - Len(order) + k \in 1 .. n
    BY <1>1, <1>2, JobsAssumption DEF LastStarts
  <2>. QED
    BY <1>1, <1>3, <2>1 DEF LastStarts, StartsKept
<1>5. ASSUME NEW j \in 1 .. n PROVE Found(j, n)'
  <2>1. Found(j, n) /\ \A i \in 1 .. j : i \in 1 .. n
    BY <1>1
  <2>. QED
    BY <1>3, <2>1 DEF Found
<1>. QED
  BY <1>4, <1>5 DEF RegistryInv

\* The next job is the one after those that were started.
LEMMA NextJob ==
  ASSUME NEW n \in Nat, LastStarts(n), NEW j \in JobIds, ~Started(j),
         \A i \in JobIds : i < j => Started(i)
  PROVE  j = n + 1
  BY JobsAssumption DEF LastStarts, JobIds

\* A start is listed, or forgotten at once; the jobs forgotten with it are those of
\* the task of the oldest start remembered.
LEMMA RegistryStarts ==
  ASSUME TypeInv, RegistryInv, NEW t \in TaskIds, NEW public \in BOOLEAN, NEW j \in JobIds,
         StartOf(j, t, public)
  PROVE  RegistryInv'
<1>1. PICK n \in Nat : LastStarts(n) /\ \A i \in 1 .. n : Found(i, n)
  BY DEF RegistryInv
<1>2. j = n + 1
  BY <1>1, NextJob DEF StartOf
<1>3. /\ n \in 0 .. MaxJobs /\ MaxJobs \in Nat /\ j \in 1 .. MaxJobs /\ j \in Nat
      /\ JobsKept \in Nat \ {0}
  BY <1>1, JobsAssumption DEF LastStarts, JobIds
<1>4. /\ jobs'[j].task = t /\ Started(j)'
      /\ \A i \in 1 .. n : jobs'[i].task = jobs[i].task
  BY <1>2, <1>3 DEF StartOf, JobIds
<1>5. ASSUME NEW i \in JobIds PROVE Started(i)' <=> i <= n + 1
  <2>1. Started(i) <=> i <= n
    BY <1>1 DEF LastStarts
  <2>2. i # j => (Started(i)' <=> Started(i))
    BY DEF StartOf, Started
  <2>. QED
    BY <1>2, <1>4, <2>1, <2>2 DEF JobIds
<1>6. /\ order \in Seq(TaskIds) /\ registered \in [TaskIds -> JobIds \cup {NoJob}]
      /\ Len(order) = (IF n < JobsKept THEN n ELSE JobsKept)
      /\ \A k \in 1 .. Len(order) : order[k] = jobs[n - Len(order) + k].task
      /\ \A i \in 1 .. n : jobs[i].task \in TaskIds
  <2>1. \A i \in 1 .. n : i \in JobIds /\ Started(i)
    BY <1>1, <1>3 DEF LastStarts, JobIds
  <2>. QED
    BY <1>1, <2>1, JobRow DEF LastStarts, TypeInv, JobsTypeOK, RegisteredTyped
<1>7. CASE Len(order) < JobsKept /\ order' = Append(order, t)
           /\ registered' = [registered EXCEPT ![t] = j]
  <2>1. n < JobsKept /\ Len(order) = n
    BY <1>3, <1>6, <1>7
  <2>2. /\ Len(order') = n + 1 /\ order'[n + 1] = t
        /\ \A k \in 1 .. n : order'[k] = jobs[k].task
    BY <1>6, <1>7, <2>1
  <2>3. LastStarts(n + 1)'
    BY <1>2, <1>3, <1>4, <1>5, <2>1, <2>2 DEF LastStarts
  <2>4. ASSUME NEW i \in 1 .. (n + 1) PROVE Found(i, n + 1)'
    <3>1. CASE i = n + 1
      BY <1>2, <1>4, <1>6, <1>7, <3>1 DEF Found
    <3>2. CASE i \in 1 .. n /\ jobs[i].task = t
      BY <1>2, <1>3, <1>4, <3>2 DEF Found
    <3>3. CASE i \in 1 .. n /\ jobs[i].task # t
      <4>1. Found(i, n) /\ registered'[jobs[i].task] = registered[jobs[i].task]
        BY <1>1, <1>6, <1>7, <3>3
      <4>. QED
        BY <1>3, <1>4, <3>3, <4>1 DEF Found
    <3>. QED
      BY <3>1, <3>2, <3>3
  <2>. QED
    BY <2>3, <2>4 DEF RegistryInv
<1>8. CASE Len(order) = JobsKept /\ order' = Tail(Append(order, t))
           /\ registered' = [[registered EXCEPT ![t] = j] EXCEPT ![Head(order)] = NoJob]
  <2>. DEFINE first == n - JobsKept + 1
  <2>1. n >= JobsKept /\ first \in 1 .. n
    BY <1>3, <1>6, <1>8
  <2>2. Head(order) = jobs[first].task
    <3>1. Head(order) = order[1] /\ 1 \in 1 .. Len(order) /\ first = n - Len(order) + 1
      BY <1>3, <1>6, <1>8
    <3>. QED
      BY <1>6, <3>1
  <2>3. /\ Len(order') = JobsKept /\ order'[JobsKept] = t
        /\ \A k \in 1 .. JobsKept : k < JobsKept => order'[k] = order[k + 1]
    <3>1. order \in Seq(TaskIds) /\ Len(order) \in Nat /\ Len(order) > 0
      BY <1>3, <1>6, <1>8
    <3>2. /\ Len(Append(order, t)) = Len(order) + 1 /\ Append(order, t)[Len(order) + 1] = t
          /\ \A k \in 1 .. Len(order) : Append(order, t)[k] = order[k]
      BY <3>1
    <3>3. /\ Len(order') = Len(order)
          /\ \A k \in 1 .. Len(order) : order'[k] = Append(order, t)[k + 1]
      BY <1>8, <3>1, <3>2
    <3>. QED
      BY <1>3, <1>8, <3>1, <3>2, <3>3
  <2>. HIDE DEF first
  <2>4. LastStarts(n + 1)'
    <3>1. ASSUME NEW k \in 1 .. JobsKept, k < JobsKept
          PROVE  order'[k] = jobs'[n + 1 - JobsKept + k].task
      <4>1. k + 1 \in 1 .. JobsKept /\ n + 1 - JobsKept + k = n - JobsKept + (k + 1)
        BY <1>3, <3>1
      <4>2. order[k + 1] = jobs[n - JobsKept + (k + 1)].task
        BY <1>6, <1>8, <4>1
      <4>3. n + 1 - JobsKept + k \in 1 .. n
        BY <1>3, <2>1, <3>1
      <4>. QED
        BY <1>4, <2>3, <3>1, <4>1, <4>2, <4>3
    <3>2. ASSUME NEW k \in 1 .. Len(order') PROVE order'[k] = jobs'[n + 1 - Len(order') + k].task
      <4>1. CASE k = JobsKept
        BY <1>2, <1>3, <1>4, <2>3, <4>1
      <4>. QED
        BY <1>3, <2>3, <3>1, <4>1
    <3>. QED
      BY <1>2, <1>3, <1>5, <2>1, <2>3, <3>2 DEF LastStarts
  <2>5. ASSUME NEW i \in 1 .. (n + 1), jobs'[i].task = Head(order), first <= i
        PROVE  Found(i, n + 1)'
    <3>1. first \in 1 .. i /\ jobs'[first].task = jobs'[i].task /\ n + 1 - first >= JobsKept
      BY <1>3, <1>4, <2>1, <2>2, <2>5 DEF first
    <3>. QED
      BY <3>1 DEF Found
  <2>6. ASSUME NEW i \in 1 .. (n + 1) PROVE Found(i, n + 1)'
    <3>1. CASE jobs'[i].task = Head(order) /\ i < first
      <4>1. first \in 1 .. (n + 1) /\ first > i /\ jobs'[first].task = jobs'[i].task
        BY <1>3, <1>4, <2>1, <2>2, <3>1
      <4>. QED
        BY <4>1 DEF Found
    <3>2. CASE jobs'[i].task # Head(order) /\ i = n + 1
      BY <1>2, <1>4, <1>6, <1>8, <3>2 DEF Found
    <3>3. CASE i \in 1 .. n /\ jobs[i].task = t
      BY <1>2, <1>3, <1>4, <3>3 DEF Found
    <3>4. CASE jobs'[i].task # Head(order) /\ i \in 1 .. n /\ jobs[i].task # t
      <4>1. Found(i, n) /\ registered'[jobs[i].task] = registered[jobs[i].task]
        BY <1>1, <1>4, <1>6, <1>8, <3>4
      <4>. QED
        BY <1>3, <1>4, <3>4, <4>1 DEF Found
    <3>. QED
      BY <1>3, <2>1, <2>5, <3>1, <3>2, <3>3, <3>4
  <2>. QED
    BY <2>4, <2>6 DEF RegistryInv
<1>. QED
  BY <1>7, <1>8 DEF StartOf

LEMMA RegistryNext == TypeInv /\ RegistryInv /\ [JobsNext]_jobsVars => RegistryInv'
<1>. SUFFICES ASSUME TypeInv, RegistryInv, [JobsNext]_jobsVars PROVE RegistryInv'
  OBVIOUS
<1>1. ASSUME NEW t \in TaskIds, NEW public \in BOOLEAN, StartStep(t, public)
      PROVE  RegistryInv'
  BY <1>1, StartEffect, RegistryStarts DEF StartStep
<1>2. CASE (\E j \in JobIds : JobStep(j)) \/ Aside
  BY <1>2, JobStepKeeps, AsideKeeps, RegistryStays DEF registryVars
<1>. QED
  BY <1>1, <1>2, StepKinds

\* The jobs started after the first i of n are n - i.
LEMMA StartsAfter ==
  ASSUME NEW n \in Nat, LastStarts(n), NEW i \in 1 .. n
  PROVE  Cardinality({k \in JobIds : k > i /\ Started(k)}) = n - i
<1>1. {k \in JobIds : k > i /\ Started(k)} = (i + 1) .. n
  BY JobsAssumption DEF LastStarts, JobIds
<1>2. Cardinality((i + 1) .. n) = n - i
  <2>1. i + 1 \in Int /\ n \in Int /\ (i + 1 > n => n - i = 0)
    OBVIOUS
  <2>. QED
    BY <2>1, FS_Interval
<1>. QED
  BY <1>1, <1>2

\* A visitor's ticket opens the job it was given for while that job runs, unless
\* the task was started again or its start is JobsKept starts old, for any size of
\* the registry.
THEOREM RunningListed == JobsSpec => []RunningIsListed
<1>1. RegistryInv => RunningIsListed
  <2>. SUFFICES ASSUME RegistryInv, NEW j \in JobIds, Started(j), registered[jobs[j].task] # j
                PROVE  \/ \E i \in JobIds : i > j /\ Started(i) /\ jobs[i].task = jobs[j].task
                       \/ \E i \in 1 .. j :
                            /\ jobs[i].task = jobs[j].task
                            /\ Cardinality({k \in JobIds : k > i /\ Started(k)}) >= JobsKept
    BY DEF RunningIsListed
  <2>1. PICK n \in Nat : LastStarts(n) /\ \A i \in 1 .. n : Found(i, n)
    BY DEF RegistryInv
  <2>2. n \in 0 .. MaxJobs /\ j \in 1 .. n /\ MaxJobs \in Nat
    BY <2>1, JobsAssumption DEF LastStarts, JobIds
  <2>3. CASE \E i \in 1 .. n : i > j /\ jobs[i].task = jobs[j].task
    BY <2>1, <2>2, <2>3 DEF LastStarts, JobIds
  <2>4. ASSUME NEW i \in 1 .. j, jobs[i].task = jobs[j].task, n - i >= JobsKept
        PROVE  Cardinality({k \in JobIds : k > i /\ Started(k)}) >= JobsKept
    <3>1. i \in 1 .. n
      BY <2>2
    <3>. QED
      BY <2>1, <2>4, <3>1, StartsAfter
  <2>. QED
    BY <2>1, <2>2, <2>3, <2>4 DEF Found
<1>. QED
  BY <1>1, TypeInit, TypeNext, RegistryInit, RegistryNext, PTL DEF JobsSpec

-----------------------------------------------------------------------------
\* The daily budget.

\* There are finitely many jobs, so these can be counted.
LEMMA PublicCount ==
  ASSUME NEW day
  PROVE  IsFiniteSet(PublicOn(day)) /\ Cardinality(PublicOn(day)) \in Nat
<1>1. IsFiniteSet(JobIds)
  BY JobsAssumption, FS_Interval DEF JobIds
<1>2. PublicOn(day) \subseteq JobIds
  BY DEF PublicOn
<1>. QED
  BY <1>1, <1>2, FS_Subset, FS_CardinalityType

\* Days are counted from the clock.
LEMMA Days ==
  ASSUME TypeInv
  PROVE  /\ Today \in Nat /\ DailyLimit \in Nat
         /\ budget.day \in Nat /\ budget.spent \in Nat
  BY JobsAssumption DEF TypeInv, JobsTypeOK, Today

LEMMA LaterDay ==
  ASSUME NEW m \in Nat, NEW n \in Nat, m <= n
  PROVE  m \div 24 <= n \div 24 /\ m \div 24 \in Nat /\ n \div 24 \in Nat
OBVIOUS

LEMMA BudgetInit == JobsInit => BudgetInv
<1>. SUFFICES ASSUME JobsInit PROVE BudgetInv
  OBVIOUS
<1>1. \A day \in Nat : PublicOn(day) = {}
  BY DEF JobsInit, PublicOn, Started, Unstarted
<1>2. Cardinality({}) = 0
  BY FS_EmptySet
<1>3. Today \in Nat /\ DailyLimit \in Nat /\ budget.day = 0 /\ budget.spent = 0
  BY JobsAssumption DEF JobsInit, Today
<1>. QED
  BY <1>1, <1>2, <1>3 DEF BudgetInv, Covers

\* Rolling the budget to a new day loses no visitor: none has started a job on it.
LEMMA RollCovers ==
  ASSUME TypeInv, BudgetInv
  PROVE  Covers(Rolled) /\ Rolled.day = Today /\ Rolled.spent \in Nat
<1>1. CASE budget.day = Today
  BY <1>1, Days DEF BudgetInv, Rolled
<1>2. CASE budget.day # Today
  <2>1. Rolled.day = Today /\ Rolled.spent = 0 /\ Today > budget.day
    BY <1>2, Days DEF BudgetInv, Covers, Rolled
  <2>2. \A day \in Nat : day >= Today => PublicOn(day) = {}
    BY <2>1, Days DEF BudgetInv, Covers
  <2>3. Cardinality({}) = 0
    BY FS_EmptySet
  <2>4. \A day \in Nat : Cardinality(PublicOn(day)) <= DailyLimit
    BY DEF BudgetInv, Covers
  <2>. QED
    BY <2>1, <2>2, <2>3, <2>4, Days DEF Covers
<1>. QED
  BY <1>1, <1>2

\* A step that starts no job starts no visitor's.
LEMMA BudgetStays ==
  ASSUME TypeInv, TypeInv', StartsKept, NEW account, Covers(account), account.day \in Nat,
         now <= now', budget' = account
  PROVE  BudgetInv'
<1>1. \A day \in Nat : PublicOn(day)' = PublicOn(day)
  BY DEF StartsKept, PublicOn
<1>2. Today <= Today' /\ Today \in Nat /\ Today' \in Nat
  <2>1. now \in Nat /\ now' \in Nat
    BY DEF TypeInv, JobsTypeOK
  <2>. QED
    BY <2>1, LaterDay DEF Today
<1>. QED
  BY <1>1, <1>2 DEF BudgetInv, Covers

\* A visitor's start is paid for, and nobody else's counts.
LEMMA BudgetStarts ==
  ASSUME TypeInv, BudgetInv, NEW t \in TaskIds, NEW public \in BOOLEAN, StartStep(t, public)
  PROVE  BudgetInv'
<1>1. PICK j \in JobIds : StartOf(j, t, public)
  BY StartEffect DEF StartStep
<1>2. /\ ~Started(j) /\ Started(j)' /\ jobs'[j].public = public /\ jobs'[j].startedAt = now
      /\ \A i \in JobIds : i # j => jobs'[i] = jobs[i]
  BY <1>1 DEF StartOf
<1>3. now' = now /\ Today' = Today
  BY DEF StartStep, Today
<1>4. \A day \in Nat : j \notin PublicOn(day) /\ (day # Today => PublicOn(day)' = PublicOn(day))
  BY <1>2 DEF PublicOn, Started, Today
<1>5. CASE ~public
  <2>1. budget' = budget
    BY <1>5 DEF StartStep
  <2>2. \A day \in Nat : PublicOn(day)' = PublicOn(day)
    BY <1>2, <1>5 DEF PublicOn, Started
  <2>. QED
    BY <1>3, <2>1, <2>2 DEF BudgetInv, Covers
<1>6. CASE public
  <2>1. Rolled.spent < DailyLimit /\ budget' = [Rolled EXCEPT !.spent = @ + 1]
    BY <1>6 DEF StartStep, BudgetAllows
  <2>2. Covers(Rolled) /\ Rolled.day = Today /\ Rolled.spent \in Nat /\ Today \in Nat
    BY RollCovers, Days
  <2>3. Rolled \in [day: Nat, spent: Nat]
    BY Days DEF Rolled, TypeInv, JobsTypeOK
  <2>4. budget'.day = Today /\ budget'.spent = Rolled.spent + 1
    BY <2>1, <2>2, <2>3
  <2>5. PublicOn(Today)' = PublicOn(Today) \cup {j}
    BY <1>2, <1>3, <1>6 DEF PublicOn, Started, Today
  <2>6. Cardinality(PublicOn(Today)') = Cardinality(PublicOn(Today)) + 1
    BY <1>4, <2>2, <2>5, PublicCount, FS_AddElement
  <2>7. Cardinality(PublicOn(Today)') <= Rolled.spent + 1
    BY <2>2, <2>6, PublicCount DEF Covers
  <2>8. ASSUME NEW day \in Nat
        PROVE  /\ Cardinality(PublicOn(day)') <= DailyLimit
               /\ day = budget'.day => Cardinality(PublicOn(day)') <= budget'.spent
               /\ day > budget'.day => PublicOn(day)' = {}
    <3>1. CASE day = Today
      <4>1. Cardinality(PublicOn(Today)') \in Nat /\ Rolled.spent + 1 <= DailyLimit
        <5>1. Cardinality(PublicOn(Today)) \in Nat
          BY PublicCount
        <5>. QED
          BY <2>1, <2>2, <2>6, <5>1, Days
      <4>2. PublicOn(day)' = PublicOn(Today)' /\ ~(day > budget'.day)
        BY <1>3, <2>2, <2>4, <3>1 DEF PublicOn
      <4>. QED
        BY <2>2, <2>4, <2>7, <4>1, <4>2, Days
    <3>2. CASE day # Today
      BY <1>4, <2>2, <2>4, <3>2 DEF Covers
    <3>. QED
      BY <3>1, <3>2
  <2>. QED
    BY <1>3, <2>1, <2>2, <2>4, <2>8, Days DEF BudgetInv, Covers
<1>. QED
  BY <1>5, <1>6

LEMMA BudgetNext == TypeInv /\ TypeInv' /\ BudgetInv /\ [JobsNext]_jobsVars => BudgetInv'
<1>. SUFFICES ASSUME TypeInv, TypeInv', BudgetInv, [JobsNext]_jobsVars PROVE BudgetInv'
  OBVIOUS
<1>1. now \in Nat /\ budget.day \in Nat /\ Today \in Nat
  BY Days DEF TypeInv, JobsTypeOK
<1>2. CASE \E j \in JobIds : JobStep(j)
  <2>1. StartsKept /\ now' = now /\ budget' = budget
    BY <1>2, JobStepKeeps
  <2>. QED
    BY <1>1, <2>1, BudgetStays DEF BudgetInv
<1>3. CASE Aside
  <2>1. StartsKept /\ now <= now'
    BY <1>3, AsideKeeps, OthersKept
  <2>2. budget' = budget \/ budget' = Rolled
    BY <1>3 DEF Aside, RefuseVisitor, Queue, DropAsked, AskStart, ClaimElsewhere, EndElsewhere,
      Review, Tick, jobsVars
  <2>. QED
    BY <1>1, <2>1, <2>2, RollCovers, BudgetStays DEF BudgetInv
<1>. QED
  BY <1>2, <1>3, BudgetStarts, StepKinds

\* Anonymous visitors start at most the day's limit of verifications on any day,
\* whichever tasks they join and however often the day is rolled (DailyBudget).
THEOREM BudgetKept == JobsSpec => []BudgetHolds
<1>1. BudgetInv => BudgetHolds
  <2>1. \A m \in Moments : m \div 24 \in Nat
    BY JobsAssumption
  <2>. QED
    BY <2>1 DEF BudgetInv, Covers, BudgetHolds, PublicOn
<1>. QED
  BY <1>1, TypeInit, TypeNext, BudgetInit, BudgetNext, PTL DEF JobsSpec

-----------------------------------------------------------------------------
\* Who is on the line.

LEMMA HoldInit == JobsInit => HoldInv
<1>. SUFFICES ASSUME JobsInit PROVE HoldInv
  OBVIOUS
<1>1. /\ \A j \in JobIds : jobs[j].state = "unstarted"
      /\ \A t \in TaskIds : tasks[t].status = "unused" /\ elsewhere = {}
  BY DEF JobsInit, QueueInit, Unstarted, UnusedTask
<1>. QED
  BY <1>1 DEF JobsInit, HoldInv, OneCallPerTask, LockedTasksAreHeld, HeldTasksAreTaken, Held, Line,
              RequestedHaveNoEnding, OnTheLine

\* OneCallPerTask, task by task.
LEMMA LinesApart ==
  ASSUME TypeInv
  PROVE  OneCallPerTask <=> \A t \in TaskIds : /\ \A i, j \in Line(t) : i = j
                                               /\ Line(t) # {} => t \notin elsewhere
<1>1. \A j \in JobIds : OnTheLine(j) => jobs[j].task \in TaskIds
  BY JobRow DEF OnTheLine, Started
<1>. QED
  BY <1>1 DEF OneCallPerTask, Line

\* The other tasks of a step about t: held as they were, and at most inserted.
LeftAlone(u) ==
  /\ Line(u)' = Line(u) /\ (u \in elsewhere' <=> u \in elsewhere)
  /\ \/ tasks'[u].status = tasks[u].status
     \/ tasks[u].status = "unused" /\ tasks'[u].status = "queued"

\* What a step about t may make of it: nothing, free, taken, or completed under the
\* hands of whoever has it.
SetFree(t) == Line(t)' = {} /\ t \notin elsewhere' /\ tasks'[t].status # "in_progress"
SetTaken(t) ==
  /\ tasks'[t].status = "in_progress"
  /\ \/ t \notin elsewhere' /\ \E j : Line(t)' = {j}
     \/ t \in elsewhere' /\ Line(t)' = {}
SetCompleted(t) ==
  /\ Line(t)' = Line(t) /\ (t \in elsewhere' <=> t \in elsewhere)
  /\ tasks'[t].status = "completed"

LEMMA HoldStep ==
  ASSUME TypeInv, TypeInv', HoldInv, NEW t \in TaskIds,
         \A u \in TaskIds : u # t => LeftAlone(u),
         LeftAlone(t) \/ SetFree(t) \/ SetTaken(t) \/ SetCompleted(t),
         RequestedHaveNoEnding'
  PROVE  HoldInv'
<1>1. \A u \in TaskIds : /\ \A i, j \in Line(u) : i = j
                         /\ Line(u) # {} => u \notin elsewhere
  BY LinesApart DEF HoldInv
<1>2. \A u \in TaskIds : /\ tasks[u].status = "in_progress" => Held(u)
                         /\ Held(u) => tasks[u].status \in {"in_progress", "completed"}
  BY DEF HoldInv, LockedTasksAreHeld, HeldTasksAreTaken, Held, Line
<1>3. ASSUME NEW u \in TaskIds
      PROVE  /\ \A i, j \in Line(u)' : i = j
             /\ Line(u)' # {} => u \notin elsewhere'
             /\ tasks'[u].status = "in_progress" => Held(u)'
             /\ Held(u)' => tasks'[u].status \in {"in_progress", "completed"}
  <2>1. CASE LeftAlone(u)
    BY <1>1, <1>2, <2>1 DEF LeftAlone, Held
  <2>2. CASE SetFree(u)
    BY <2>2 DEF SetFree, Held
  <2>3. CASE SetTaken(u)
    BY <2>3 DEF SetTaken, Held
  <2>4. CASE SetCompleted(u)
    BY <1>1, <2>4 DEF SetCompleted, Held
  <2>. QED
    BY <2>1, <2>2, <2>3, <2>4
<1>4. OneCallPerTask'
  <2>1. \A j \in JobIds : OnTheLine(j)' => jobs'[j].task \in TaskIds
    BY DEF TypeInv, JobsTypeOK, OnTheLine, Unstarted, Job
  <2>. QED
    BY <1>3, <2>1 DEF OneCallPerTask, Line
<1>5. LockedTasksAreHeld' /\ HeldTasksAreTaken'
  BY <1>3 DEF LockedTasksAreHeld, HeldTasksAreTaken, Held, Line
<1>. QED
  BY <1>4, <1>5 DEF HoldInv

\* A request inserts a row or adds to one; it moves no other status.
LEMMA RequestMoves ==
  ASSUME TypeInv, NEW s, NEW fields, RequestTask(s, fields), NEW u \in TaskIds
  PROVE  \/ tasks'[u].status = tasks[u].status
         \/ tasks[u].status = "unused" /\ tasks'[u].status = "queued"
<1>1. tasks \in [TaskIds -> Task] /\ tasks[u] \in Task
  BY DEF TypeInv, JobsTypeOK, QueueTypeOK
<1>2. CASE tasks' = [t \in TaskIds |-> IF ServiceOf(t) = s /\ IsOpen(t)
                                      THEN [tasks[t] EXCEPT !.fields = @ \cup fields]
                                      ELSE tasks[t]]
  BY <1>1, <1>2 DEF Task
<1>3. ASSUME NEW t \in TaskIds, tasks[t].status = "unused",
             tasks' = [tasks EXCEPT ![t] = NewTask(fields)]
      PROVE  \/ tasks'[u].status = tasks[u].status
             \/ tasks[u].status = "unused" /\ tasks'[u].status = "queued"
  BY <1>1, <1>3 DEF NewTask, UnusedTask
<1>. QED
  BY <1>2, <1>3 DEF RequestTask, IsNextTask

\* The moves of one task.
LEMMA TaskMoves ==
  ASSUME TypeInv, NEW t \in TaskIds
  PROVE  /\ ClaimTask(t) => tasks[t].status = "queued" /\ tasks'[t].status = "in_progress"
         /\ ReleaseTask(t) => tasks'[t].status # "in_progress"
         /\ RequeueTask(t) => tasks'[t].status = "queued"
         /\ \A pending : SettleTask(t, pending) => tasks'[t].status \in {"needs_review", "completed"}
         /\ CompleteTask(t) => tasks'[t].status = "completed"
         /\ \/ ClaimTask(t) \/ ReleaseTask(t) \/ RequeueTask(t) \/ CompleteTask(t)
            \/ \E pending : SettleTask(t, pending)
            => \A u \in TaskIds : u # t => tasks'[u] = tasks[u]
<1>1. tasks \in [TaskIds -> Task] /\ tasks[t] \in Task
  BY DEF TypeInv, JobsTypeOK, QueueTypeOK
<1>2. ASSUME ClaimTask(t)
      PROVE  tasks[t].status = "queued" /\ tasks'[t].status = "in_progress"
  BY <1>1, <1>2 DEF ClaimTask, Claimable, Task
<1>3. ASSUME ReleaseTask(t) PROVE tasks'[t].status # "in_progress"
  BY <1>1, <1>3 DEF ReleaseTask, Task
<1>4. ASSUME RequeueTask(t) PROVE tasks'[t].status = "queued"
  BY <1>1, <1>4 DEF RequeueTask, Task
<1>5. ASSUME NEW pending, SettleTask(t, pending)
      PROVE  tasks'[t].status \in {"needs_review", "completed"}
  BY <1>1, <1>5 DEF SettleTask, Task
<1>6. ASSUME CompleteTask(t) PROVE tasks'[t].status = "completed"
  BY <1>1, <1>6 DEF CompleteTask, Task
<1>7. ASSUME \/ ClaimTask(t) \/ ReleaseTask(t) \/ RequeueTask(t) \/ CompleteTask(t)
             \/ \E pending : SettleTask(t, pending),
             NEW u \in TaskIds, u # t
      PROVE  tasks'[u] = tasks[u]
  BY <1>1, <1>7 DEF ClaimTask, ReleaseTask, RequeueTask, SettleTask, CompleteTask
<1>. QED
  BY <1>2, <1>3, <1>4, <1>5, <1>6, <1>7

\* A step that takes no task and gives none back: every task is left alone.
LEMMA HoldStays ==
  ASSUME TypeInv, TypeInv', HoldInv, RequestedHaveNoEnding', elsewhere' = elsewhere,
         \A u \in TaskIds : Line(u)' = Line(u),
         UNCHANGED tasks \/ \E s, fields : RequestTask(s, fields)
  PROVE  HoldInv'
<1>1. ASSUME NEW u \in TaskIds PROVE LeftAlone(u)
  BY RequestMoves DEF LeftAlone
<1>2. CASE TaskIds = {}
  <2>1. \A j \in JobIds : ~OnTheLine(j)'
    BY <1>2 DEF TypeInv, JobsTypeOK, OnTheLine, Unstarted, Job
  <2>. QED
    BY <1>2, <2>1 DEF HoldInv, OneCallPerTask, LockedTasksAreHeld, HeldTasksAreTaken
<1>3. CASE TaskIds # {}
  <2>1. PICK t : t \in TaskIds
    BY <1>3
  <2>. QED
    BY <1>1, <2>1, HoldStep
<1>. QED
  BY <1>2, <1>3

\* The jobs other than j are on the line as before.
LEMMA OtherLines ==
  ASSUME TypeInv, NEW j \in JobIds, JobStep(j), NEW t \in TaskIds, t = jobs[j].task
  PROVE  /\ \A u \in TaskIds : u # t => Line(u)' = Line(u)
         /\ Line(t)' \ {j} = Line(t) \ {j}
         /\ j \in Line(t)' <=> OnTheLine(j)'
<1>1. jobs'[j].task = jobs[j].task /\ \A i \in JobIds : i # j => jobs'[i] = jobs[i]
  BY JobStepMoves, JobStepKeeps DEF StartsKept
<1>. QED
  BY <1>1 DEF Line, OnTheLine

\* A job's step writes its own state.
LEMMA JobStates ==
  ASSUME TypeInv, HoldInv, NEW j \in JobIds, JobStep(j)
  PROVE  /\ BeginCall(j) => OnTheLine(j)'
         /\ Refuse(j) \/ Finish(j) \/ Fail(j) \/ Close(j) => ~OnTheLine(j)'
         /\ RequestedHaveNoEnding'
<1>1. /\ jobs \in [JobIds -> Job \cup {Unstarted}] /\ jobs[j] \in Job
      /\ jobs[j].state = "requested" => jobs[j].ending = "none"
  BY JobStepMoves, JobRow DEF TypeInv, JobsTypeOK, HoldInv, RequestedHaveNoEnding
<1>2. ASSUME BeginCall(j)
      PROVE  jobs'[j].state = "calling" /\ jobs'[j].ending = "none"
  BY <1>1, <1>2 DEF BeginCall, Job
<1>3. ASSUME Refuse(j) PROVE jobs'[j].state = "refused"
  BY <1>1, <1>3 DEF Refuse, Job
<1>4. ASSUME Finish(j) PROVE jobs'[j].state = "calling" /\ jobs'[j].ending # "none"
  <2>1. PICK ending \in {"review", "verified"} : \E authority :
          jobs' = [jobs EXCEPT ![j].ending = ending, ![j].authority = authority]
    BY <1>4 DEF Finish
  <2>. QED
    BY <1>1, <1>4, <2>1 DEF Finish, OnTheLine, Job
<1>5. ASSUME Fail(j) PROVE jobs'[j].state = "calling" /\ jobs'[j].ending # "none"
  BY <1>1, <1>5 DEF Fail, OnTheLine, Job
<1>6. ASSUME Close(j) PROVE jobs'[j].state \in Over
  BY <1>1, <1>6 DEF Close, Closing, Job
<1>7. RequestedHaveNoEnding'
  <2>1. jobs'[j].state # "requested"
    BY <1>2, <1>3, <1>4, <1>5, <1>6 DEF JobStep, Over
  <2>2. \A i \in JobIds : i # j => jobs'[i] = jobs[i]
    BY JobStepKeeps
  <2>. QED
    BY <2>1, <2>2 DEF HoldInv, RequestedHaveNoEnding
<1>. QED
  BY <1>2, <1>3, <1>4, <1>5, <1>6, <1>7 DEF OnTheLine, Over

\* A job takes its task with the claim, which finds nobody else on it, and gives it
\* back with the end of its call.
LEMMA HoldJobStep ==
  ASSUME TypeInv, TypeInv', HoldInv, NEW j \in JobIds, JobStep(j)
  PROVE  HoldInv'
<1>. PICK t \in TaskIds : t = jobs[j].task
  BY JobStepMoves, JobRow
<1>1. /\ elsewhere' = elsewhere /\ RequestedHaveNoEnding'
      /\ \A u \in TaskIds : u # t => Line(u)' = Line(u)
      /\ Line(t)' \ {j} = Line(t) \ {j} /\ (j \in Line(t)' <=> OnTheLine(j)')
  BY JobStepKeeps, JobStates, OtherLines
<1>2. ASSUME NEW i \in Line(t) PROVE OnTheLine(i) /\ t \notin elsewhere /\ Line(t) = {i}
  BY <1>1, LinesApart DEF HoldInv, Line
<1>3. CASE BeginCall(j)
  <2>1. /\ tasks[t].status = "queued" /\ tasks'[t].status = "in_progress"
        /\ \A u \in TaskIds : u # t => tasks'[u] = tasks[u]
    BY <1>1, <1>3, TaskMoves DEF BeginCall
  <2>2. ~Held(t)
    BY <1>1, <2>1 DEF HoldInv, HeldTasksAreTaken
  <2>3. Line(t)' = {j} /\ t \notin elsewhere'
    BY <1>1, <1>3, <2>2, JobStates DEF Held
  <2>4. SetTaken(t) /\ \A u \in TaskIds : u # t => LeftAlone(u)
    BY <1>1, <2>1, <2>3 DEF SetTaken, LeftAlone
  <2>. QED
    BY <1>1, <2>4, HoldStep
<1>4. CASE Finish(j) \/ Fail(j)
  <2>1. j \in Line(t) /\ OnTheLine(j)
    BY <1>4 DEF Finish, Fail, Line
  <2>2. Line(t)' = {} /\ t \notin elsewhere'
    BY <1>1, <1>2, <1>4, <2>1, JobStates
  <2>3. \/ ReleaseTask(t) \/ RequeueTask(t) \/ \E pending : SettleTask(t, pending)
    BY <1>4 DEF Finish, Fail
  <2>4. tasks'[t].status # "in_progress" /\ \A u \in TaskIds : u # t => tasks'[u] = tasks[u]
    BY <1>1, <2>3, TaskMoves
  <2>5. SetFree(t) /\ \A u \in TaskIds : u # t => LeftAlone(u)
    BY <1>1, <2>2, <2>4 DEF SetFree, LeftAlone
  <2>. QED
    BY <1>1, <2>5, HoldStep
<1>5. CASE Refuse(j) \/ Close(j)
  <2>1. UNCHANGED tasks
    BY <1>5 DEF Refuse, Close, queueVars
  <2>2. j \notin Line(t)
    BY <1>5 DEF Refuse, Close, Closing, OnTheLine, Line
  <2>3. Line(t)' = Line(t)
    BY <1>1, <1>5, <2>2, JobStates
  <2>. QED
    BY <1>1, <2>1, <2>3, HoldStays
<1>. QED
  BY <1>3, <1>4, <1>5 DEF JobStep

\* A started job waits for its claim.
LEMMA HoldStart ==
  ASSUME TypeInv, TypeInv', HoldInv, NEW t \in TaskIds, NEW public \in BOOLEAN,
         StartStep(t, public)
  PROVE  HoldInv'
<1>1. PICK j \in JobIds : StartOf(j, t, public)
  BY StartEffect DEF StartStep
<1>2. /\ ~OnTheLine(j) /\ ~OnTheLine(j)' /\ jobs'[j].ending = "none"
      /\ \A i \in JobIds : i # j => jobs'[i] = jobs[i]
  BY <1>1 DEF StartOf, OnTheLine, Started, TypeInv, JobsTypeOK, Unstarted
<1>3. \A u \in TaskIds : Line(u)' = Line(u)
  BY <1>2 DEF Line, OnTheLine
<1>4. RequestedHaveNoEnding'
  BY <1>2 DEF HoldInv, RequestedHaveNoEnding
<1>5. elsewhere' = elsewhere /\ (UNCHANGED tasks \/ \E s, fields : RequestTask(s, fields))
  BY DEF StartStep, CreateVerificationTask, queueVars
<1>. QED
  BY <1>3, <1>4, <1>5, HoldStays

\* Another process takes a task that nobody has and gives back what it took; a
\* review completes one.
LEMMA HoldAside ==
  ASSUME TypeInv, TypeInv', HoldInv, Aside
  PROVE  HoldInv'
<1>1. \A u \in TaskIds : Line(u)' = Line(u)
  BY AsideKeeps DEF registryVars, Line, OnTheLine
<1>2. RequestedHaveNoEnding'
  BY AsideKeeps DEF registryVars, HoldInv, RequestedHaveNoEnding
<1>3. ASSUME NEW t \in TaskIds, ClaimElsewhere(t)
      PROVE  HoldInv'
  <2>1. /\ tasks[t].status = "queued" /\ tasks'[t].status = "in_progress"
        /\ \A u \in TaskIds : u # t => tasks'[u] = tasks[u]
    BY <1>3, TaskMoves DEF ClaimElsewhere
  <2>2. ~Held(t) /\ elsewhere' = elsewhere \cup {t}
    BY <1>3, <2>1 DEF HoldInv, HeldTasksAreTaken, ClaimElsewhere
  <2>3. SetTaken(t) /\ \A u \in TaskIds : u # t => LeftAlone(u)
    BY <1>1, <2>1, <2>2 DEF SetTaken, LeftAlone, Held
  <2>. QED
    BY <1>2, <2>3, HoldStep
<1>4. ASSUME NEW t \in TaskIds, EndElsewhere(t)
      PROVE  HoldInv'
  <2>1. t \in elsewhere /\ elsewhere' = elsewhere \ {t} /\ Line(t) = {}
    BY <1>4, LinesApart DEF EndElsewhere, HoldInv
  <2>2. ReleaseTask(t) \/ RequeueTask(t) \/ \E pending : SettleTask(t, pending)
    BY <1>4 DEF EndElsewhere
  <2>3. tasks'[t].status # "in_progress" /\ \A u \in TaskIds : u # t => tasks'[u] = tasks[u]
    BY <2>2, TaskMoves
  <2>4. SetFree(t) /\ \A u \in TaskIds : u # t => LeftAlone(u)
    BY <1>1, <2>1, <2>3 DEF SetFree, LeftAlone
  <2>. QED
    BY <1>2, <2>4, HoldStep
<1>5. ASSUME NEW t \in TaskIds, Review(t)
      PROVE  HoldInv'
  <2>1. tasks'[t].status = "completed" /\ \A u \in TaskIds : u # t => tasks'[u] = tasks[u]
    BY <1>5, TaskMoves DEF Review
  <2>2. SetCompleted(t) /\ \A u \in TaskIds : u # t => LeftAlone(u)
    BY <1>1, <1>5, <2>1 DEF SetCompleted, LeftAlone, Review
  <2>. QED
    BY <1>2, <2>2, HoldStep
<1>6. CASE \A t \in TaskIds : ~ClaimElsewhere(t) /\ ~EndElsewhere(t) /\ ~Review(t)
  <2>1. elsewhere' = elsewhere /\ (UNCHANGED tasks \/ \E s, fields : RequestTask(s, fields))
    BY <1>6 DEF Aside, RefuseVisitor, Queue, CreateVerificationTask, DropAsked, AskStart, Tick,
                jobsVars, queueVars
  <2>. QED
    BY <1>1, <1>2, <2>1, HoldStays
<1>. QED
  BY <1>3, <1>4, <1>5, <1>6

LEMMA HoldNext == TypeInv /\ TypeInv' /\ HoldInv /\ [JobsNext]_jobsVars => HoldInv'
  BY StepKinds, HoldStart, HoldJobStep, HoldAside

\* One task is on the line once, here or in another process, however starts race:
\* the claim decides, whatever start_verification saw before (claim_task).
THEOREM OneCall == JobsSpec => []OneCallPerTask
<1>1. HoldInv => OneCallPerTask
  BY DEF HoldInv
<1>. QED
  BY <1>1, TypeInit, TypeNext, HoldInit, HoldNext, PTL DEF JobsSpec

\* A claimed task has a job on the line, here or elsewhere: the record is given back
\* however the job ends (_run_verification, VerificationWorkflow.run).
THEOREM LockedHeld == JobsSpec => []LockedTasksAreHeld
<1>1. HoldInv => LockedTasksAreHeld
  BY DEF HoldInv
<1>. QED
  BY <1>1, TypeInit, TypeNext, HoldInit, HoldNext, PTL DEF JobsSpec
=============================================================================
