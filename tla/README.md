# Callibrate: a verification project

Callibrate keeps a directory of community services correct by telephoning the
organizations that run them. A record that may be wrong becomes a *task*; a
worker claims the task, reserves a *call* against a consent the organization
gave, has CALL-E place it, reads the transcript into *evidence*, lets a policy
classify the evidence, and either applies the result or leaves it to a person.

What can go wrong is not in any one function. Several processes (the API, the
command line, their concurrent jobs) share one SQLite database; a call takes up
to hours, and every row read before it may have changed after it; a process may
die in the middle; and the people who answer the telephone, report failures,
record consents and review proposals act at any moment. This directory holds
TLA+ modules of that system, the configurations that model-check them and the
proofs checked by TLAPS. Paths below are relative to `src/src/callibrate/`.

## 1. Inventory

| Component | State | Operations | Hard behaviour | What makes it correct |
| --- | --- | --- | --- | --- |
| `verification/workflow.py` | the local variables of each `run` | claim, check, reserve, call, record; three `except` clauses | interleaving of runs; crash between any two transactions; lost answers | a task is run by one worker; every claimed task comes back |
| Task queue (`store.py`, `verification/queue.py`, `triggers.py`) | `verification_tasks`, `failure_reports` | request, report, refresh, claim, release, requeue, settle | requests that meet an open, running or reviewed task | one open task per record |
| Call ledger (`store.py`) | `provider_consents`, `organizations.do_not_call`, `call_runs` | consent, reserve, attach, update, suppress | races for the last call; suppression while a call is in preparation | allowance, spacing, silence |
| `policy/call_eligibility.py` | none | `evaluate` | window boundaries | the call was agreed to |
| `policy/evidence_policy.py` | none | `classify` | several kinds of evidence at once | nothing weak is applied, nothing open is forgotten |
| `evidence/reconcile.py` | none | `build_evidence` | a claim and its confirmation or contradiction | one claim per field |
| Directory and review (`store.py`) | the record, `verification_runs`, `proposed_changes`, `safety_flags` | record, approve, edit, reject, acknowledge, correct | decisions in any order, beside new calls | the record moves with its evidence; no review is stranded |
| `calling/calle.py` | the run id, a deadline | plan, run, attach, poll | timeouts, lost answers, a deadline that does not end the call | no call is started twice; a call that is over in time is read; the whole ends in time |
| `calling/mcp.py` and the brokered login | session, token, a pending login | initialize, tools/call, start and finish a login | nothing is ever sent again: an error ends the call; a token read once and sent until the end; two handlers share the pending login across awaits | the token outlasts the opening of the session; a login is forgotten only by one that succeeded |
| `api.py` jobs and limits | `JobRegistry`, `WindowLimiter`, `DailyBudget` | start, follow, verify now | two requests for one service; a check made stale by an await; eviction; midnight | one call per task; a running job is found; the budget holds; a job ends and frees its task |
| Sessions (`api.py`, `store.py`) | `sessions` | login, expiry, CSRF | expiry during use | only a live session decides |
| `audit/chain.py` | `audit_events` | append, verify, find the break | interleaved transactions that fail; rows altered from outside, consistently | no false alarm; the past of a row known to be intact is intact |
| `evidence/readback.py`, `transcript.py`, `spoken.py` | none | parse turns, pair read-backs, parse hours | order of turns, corrections, two sessions in a sentence, unknown speakers | a value was raised, read back and agreed to, nothing else was agreed to with it, and it was not put together out of two sessions |
| `domain/hsds.py` and import | the record | import, export | services that move while tasks are open | one open task per record; an organization's silence covers its services |
| `scoring.py`, `privacy.py`, `config.py`, `cli.py`, `web/`, evaluation, tools | little or none | | | |

Components talk by calls inside a process and by rows between processes. The
workflow calls the store, the adapter and the policy; the adapter calls back
(`on_run_started`) before the first poll; a review writes rows that a later
workflow reads. `PROJECT.json` lists every component with what is modelled of
it, and the hazards of the code, each at its line.

## 2. Modules

```
Contracts <- EvidencePolicy <- CallEvidence <-----------------+-- TranscriptReading <- MCRules
    ^                               ^  ^                      +-- ScheduleReading <- MCReading
    |                               |  +---- VerificationJobs <- MCJobs
    |                               |
    +- TaskQueue <- CallLedger <- ReviewDesk <- DirectoryImport <- VerificationWorkflow
                        |                                                   ^
       CallEligibility -+-- CallingHours <- MCRules                 WorkflowProperties <- MCDialling, MCReview
                                                                            ^
                                           CommonProofs <- WorkflowProofs <- SafetyProofs

BrokerLogin <- CallECaller <- MCCalle           AuditChain <- MCAudit
                   ^-------- CallEProofs             ^-------- AuditProofs

CommonProofs <- JobsProofs, RulesProofs, ReadingProofs
                (beside VerificationJobs; TranscriptReading, CallingHours; ScheduleReading)
```

An arrow points to what is extended. `WorkflowProperties` instantiates
`ConsentedCalling`, `CallECaller` instantiates `OneCall` and `ScheduleReading`
instantiates `TranscriptReading`, as their abstract specifications. `VerificationJobs`
extends `TaskQueue` as well, and `CommonProofs` extends `TaskQueue` and `CallEvidence`.

* **Contracts**: the fields a contract asks about and which of them may be
  applied with nobody looking.
* **EvidencePolicy**: `classify`, `classify_claim` and `overall`. A claim has a
  grade (ambiguous, explicit, read back, agreed, confident) in place of words,
  quotes and turn ids. Canonical form and "this takes the service away" are sets
  of (field, value) pairs.
* **CallEvidence**: what `build_evidence` can make of one call: the outcome by
  severity of what was said, at most one claim per field, no confirmation beside
  a claim. `ClaimsOn` gives the workflow one representative grade per verdict of
  the policy; `TranscriptReading` uses every grade.
* **CallEligibility**: `evaluate` and its gates. Time is in hours from a Monday
  midnight in the organization's timezone.
* **TaskQueue**: a row is (service, organization, ordinal); each operator is the effect of one
  transaction on the two tables.
* **CallLedger**: consents, suppression, calls, and `reserve_call`.
* **ReviewDesk**: the record, the runs with their proposals and flags (a flag
  is named by its cause, so several events of one kind are one flag), and every
  decision a curator can take, each with the `_complete_reviewed_run` that ends
  it.
* **DirectoryImport**: `import_hsds_services`, one transaction over the record,
  the organization of each service (`organizationOf`), the organizations' numbers
  and the queue. A file is the entries it has for some services.
* **VerificationWorkflow**: the state machine. `workers[w]` is one `run` (its
  stage, task, call, the fields and number of its contract, whether the claimed
  row said `do_not_call`, and when it began); `line[c]` is what CALL-E does with
  the telephone. A worker's steps:

  | Action | Code |
  | --- | --- |
  | `TakeTask` | `claim_task`, `contract_for` |
  | `Refuse`, `Reserve` | `do_not_call`, `build_contract`'s errors, `reserve_call` |
  | `PlanFails`, `RunCall`, `NoRunId`, `Attach` | `verify`: `plan_call`, `run_call`, no run id or no answer, `on_run_started` |
  | `ReadCall`, `ObserveFails` | `_await_terminal`, then `update_call_run(completed)` |
  | `Record`, `RecordFails` | `record_verification` in one transaction, or its rollback |
  | `MarkFailed`, `Release` | the `except` clauses: two transactions |
  | `Crash` | the process dies or the job is cancelled: no handler runs |

  Beside them: requests, reports, refreshes, imports, consents, reviews, and the
  clock.
* **WorkflowProperties**: what the workflow promises, and the refinement mapping
  to **ConsentedCalling**, which knows only agreements, paid permits, rings and
  silence.
* **CallECaller**: what lies between the workflow's `Reserve` and `ReadCall`, in
  seconds: `verify` and `_await_terminal` over the MCP client, one wait after
  another. `pc` names the request or the sleep that `verify` waits for, `since`
  when it began; `Elapse` moves the clock by no more than the wait may last.

  | Action | Code |
  | --- | --- |
  | `Connect`, `NoUsableToken` | `connect`: the token is read, or `CalleAuthRequired` |
  | `Answered` | `initialize`, `notifications/initialized`, `tools/list`, `plan_call` answered in turn |
  | `RunCall`, `RunStarted` | CALL-E takes `run_call` on; its answer, and `on_run_started` |
  | `RequestFails` | a timeout, an HTTP or tool error, a rejected token, a plan that is not ready, a run without an id |
  | `FirstSleepEnds`, `Look`, `PollAnswered`, `PauseEnds` | `_await_terminal`: the first sleep, a poll as CALL-E sees it and as it is answered, the sleep after it and the test of the deadline |
  | `HangUp`, `Elapse` | the telephone, the clock |
* **OneCall**: a caller as `calling/base.py` and the workflow see it, in the
  stages of VerificationWorkflow: at most one ring, the run persisted before it
  is observed, evidence only of a call that is over.
* **BrokerLogin**: the cached token with the two minutes it must still be good
  for, and the logins that replace it: the console's two endpoints with
  `app.state.calle_pending` between them, and the command line's one command.
  Each await is a step, so the requests of two people overlap.
* **TranscriptReading**: one transcript as it grows; the verdict in each state. A
  turn is one step: the safety phrases it holds (`Phrasings`), whether the
  assistant counts as disclosed after it, and a claim, a confirmation or neither.
* **ScheduleReading**: how opening hours are read from a conversation, turn by
  turn, in full: sessions of a sentence (`_sessions`), the value it proposes
  (`spoken_schedule`), the parts of a value a turn says (`_hits`), whether it
  says anything else (`_says_only`), the exchange (`corroborate`), the safety
  events (`scan_safety`, `disclosure_spoken`), and the claim or confirmation
  `build_evidence` makes of the transcript so far beside CALL-E's own account.
  A turn is its words in order, so that the sessions, the first two times and the
  repair of a closing hour are computed from their positions as in the code; the
  word lists of a turn are its mood, its safety and disclosure phrases a set.
  `standing` is the reference: it follows each value through the conversation as
  it happens, where the code searches the finished transcript.

  The two readers do not know the same words, and the forms of a word are those
  that at least one of them tells apart:

  | Word | Said as | `clock_times_in`, `day_mentions_in` (proposes, and looks for more than the value) | `_hits` (looks for the value) |
  | --- | --- | --- | --- |
  | `OnDay(d)` | "Wednesdays" | the day | the day |
  | `Weekdays` | "weekdays" | Monday to Friday | nothing |
  | `Hour(n, half)` | "ten", "10", "10:00", with "pm" near it | the hour, on its half of the day | the number |
  | `Clock(n)` | "09:00", "10h00" | the hour | nothing |
  | `Late(n)` | "zero", "thirteen" to "twentythree" | nothing | the number |
  | `Digits(n)` | "1400" | nothing | the hour |
* **VerificationJobs**: the jobs of one server process. The process is one event
  loop, so a step is what lies between two awaits: of the telephone call, of
  closing the caller afterwards (`ending` is the state a job will show after
  that), and of the body of a curator's request. Its workflow appears through
  its transactions on the task; another process works on the same queue
  (`elsewhere`).

  | Action | Code |
  | --- | --- |
  | `VerifyNow`, `RefuseVisitor` | `verify_now`: join or create the task, find a running job, charge the budget, start |
  | `AskStart`, `StartAsked`, `DropAsked` | `start_verification`, cut at `await request.json()` |
  | `BeginCall`, `Refuse` | the job's first step up to the call, or `claim_task` and the gates refusing |
  | `Finish`, `Fail` | the call returns: recorded, settled or requeued; or an exception, and the task released |
  | `Close` | `finally: await caller.aclose()`, after which the job shows its state |
  | `ClaimElsewhere`, `EndElsewhere`, `Queue`, `Review`, `Tick` | other processes, other handlers, the clock |
* **AuditChain**: appends of several processes inside transactions that commit or
  roll back, and rows altered from outside the program: one part of a row, or
  all of it so that it agrees with itself again. A hash is the pair it is
  computed from.
* **CallingHours**: `evaluate` hour by hour, against a reference that walks each
  window from its first hour to its last and counts calls in a log.
* **CommonProofs** holds the lemmas about the queue and the policy that several
  proofs need; **WorkflowProofs** and **SafetyProofs** are about the workflow,
  **JobsProofs** about the jobs, **RulesProofs** about the two rule books,
  **ReadingProofs** about the reading of conversations, **CallEProofs** about the
  adapter, **AuditProofs** about the ledger (section 4).

### Decisions of modelling

* Every SQLite transaction (`BEGIN IMMEDIATE`) is one step, every request to
  CALL-E another. `contract_for`'s read is merged with the claim before it: the
  two follow without an await, and a change between them is a change before.
* A task is named by its service, the organization it was opened for and an
  ordinal, as `verification_tasks` keeps both ids. `claim_task` and
  `reserve_call` read the task's organization, `contract_for` the service's
  present one; `PromiseKept` speaks of the former (see `moved` below).
* An import has one entry per service at most; when two entries give one
  organization a number, either may be the last.
* In CallECaller, a request lasts at most its timeout and a wait is resumed at
  most `Late` seconds after it should be. httpx counts a timeout for each read,
  so that an answer trickling in for longer is assumed away. Time passes only
  while `verify` waits; what a person logging in does takes none.
* What CALL-E answers to an exchange is taken to hold a token. A token from the
  environment is one that no login replaces.
* In BrokerLogin, polling and the deadline of a login are any moment at which it
  fails. CALL-E exchanges a session once.
* Live mode only: the pilot line rings nobody, and skips the allowlist gate.
* A call that CALL-E was asked for rings from `RunCall` on, whether or not its
  answer arrives. `NoRunId` is any failure to obtain or store the run id: a
  `run_call` without one, a timed-out answer, an `attach_calle_run` that raises.
* The evidence is chosen when it is recorded; nobody reads it before.
* A `ContractError` for a number without digits is a number that is not on the
  allowlist; one for no fields is `asked = {}`.
* Which records are old or score high is arithmetic over dates; `RefreshQueue`
  takes any set of them.
* The workflow inside a job is cut down to its transactions on the task: the
  inside of a call is VerificationWorkflow's subject, the races around the
  registry and the budget are VerificationJobs'. Failure reports stay with the
  former, `WindowLimiter` (a courtesy per address) is left out of the latter.
* An opening hour is a whole hour. `clock_times_in` reads a two-digit figure, or
  "fifteen", "thirty" and the like, within three words after an hour as its
  minutes ("ten to 13" is 10:13): sentences that mix such words are left out, and
  `Late(15)` stands where no hour precedes it so closely. Which half of the day an
  hour is on is what the six words from it say; a time with figures and a colon
  has none. "weekdays" adds five mentions at one place, hence one word.
* CALL-E's account comes with the end of the call: after `Report` nobody speaks.
* The time of `aclose` after a verification is not counted in `InTime`; it comes
  after the evidence, and the workflow's hours have a margin of more than half an
  hour for it.
* Several consents that end on one day are ordered by random id: either may
  come first.
* `Tick` lets no workflow outlive `WorkflowHours`. That is what `InTime` says of
  CallECaller, proved as `EndsInTime` with `BudgetBelowThreeHours`: the settings
  `config.py` allows add up to 8300 s, so 3 hours are enough.

## 3. Runs

| Run | Instance | States | Shows |
| --- | --- | --- | --- |
| `dialling` | two workers, two services of one organization, two consents (one call, two calls), two calls, three moments, crashes | 450 thousand | types; `OneWorkerPerTask`; `CallsAreSpaced`; `AllowanceRespected`; `SuppressionHonoured`; `PromiseKept` (the refinement) |
| `review` | one service with an appliable and a reviewed field, one worker, two calls, two tasks, reports of two kinds, refreshes, a file, all decisions | 3.5 million | `OneOpenTaskPerService`; `NoStrandedReview`; `RecordMovesOnlyByEvidence`; `AssuranceNeedsCoverage` |
| `progress` | as `dialling`, fair, no crash, one consent, and a file that moves one of the services | 217 thousand | `ClaimedTasksReturn`; `StartedCallsAreRead` |
| `rules` | two fields, two values, every grade, every event; four terms for two consents, 216 hours | 3.5 million | `AppliesOnlyEstablished`; `NothingIsForgotten`; `OfferedToTheWorkflow`; `SafetyNeverSoftens`; `PermittedAsAgreed`; `ChargesTheSoonestToExpire` |
| `calle` | one verification with two minutes of observation, requests answered at once, at their longest or never; two curators, an operator, two login sessions, three kinds of token | 565 thousand | `InTime`; `OverInTimeIsRead`; `TokenLastsToThePlan`; `ForgottenOnlyWhenLoggedIn`; `VerifyEnds`; `ImplementsOneCall` (the refinement) |
| `jobs` | one process, two services, one task each, two jobs of which the registry keeps one, the last hour of two days, a curator, visitors, another process | 900 thousand | `OneCallPerTask`; `BudgetHolds`; `RunningIsListed`; `LockedTasksAreHeld`; `JobsEnd` |
| `audit` | two processes, four rows, two alterations | 74 thousand | `IntactLedgerVerifies`; `PastIsFixed`; `BreakIsNamed` |
| `reading` | five turns out of twelve, a record and the values they propose, an account | 814 thousand | `ReadBackWasAgreed`; `UnattendedWasAgreed`; `ProposesOneSession`; `OnlyTheProviderSettles`; `AccountOnlyRemoves`; `ReadsAsAssumed` (the refinement) |
| `crash` | as `progress`, with crashes | violated | `StartedCallsAreRead` |
| `lost_run` | as `dialling` | violated | `LostRunIsNeverRetried` |
| `moved` | two services of two organizations, one worker, a file that moves one | violated | `StoppedServicesGetNoCall` |
| `said_more` | as `reading`, with turns that name a second session in words one reader lacks | violated | `ReadBackSaysNothingElse` |

The runs `dialling`, `jobs` and `reading` also check the type invariant of their
module; those of AuditChain and CallECaller are left to the proofs.

**Bounds and why they are enough.** `MaxTasks`, `MaxCalls` and `MaxConsents`
bound rows, `Moments` the instants at which a run looks at the clock. Two calls
and two workers are what spacing, races for one allowance and suppression during
preparation need: each property relates two of them. The moments of `dialling`
(10, 33, 34) put two calls just inside and exactly at the interval, and let one
execution cross from one to the next. `shelter` has no row for its schedule, so
that a recorded value can be refused.
Imports are left to the other runs of the workflow: beside two consents and
crashes they are too many states, and the theorems below prove every property of
`dialling` with any imports. Its workers are symmetric and no property of that
run names one; the liveness runs use no symmetry. In `review`, two calls
a day apart give the first retry delay time to fall due, and two tasks let a
service be verified again after a review. A task is claimed only while a call is
left for it, so that no run ends in the bound instead of in the code. A run ends
when its moments and rows are used up, hence `CHECK_DEADLOCK FALSE`.

In `calle` the clock advances by 40 s, a request's time and the lateness of the
event loop together, so that every wait but the planning is either over at once
or as late as it may be; with 120 s of observation there are up to four polls,
one of them under way when the deadline passes. Tokens are good for 120 s (not
enough), for 160 s (expires while the session opens if it is late), or name no
expiry. Two sessions are what a finish that clears another's login needs; the
second one is opened only before the verification begins (`MCNext`), since
logins and the verification meet in the token alone. The run ends when the
verification and the logins are over.

In `jobs` a registry of one job and two jobs make the eviction happen, and two
starts of one task make the second entry in `order` that the code never removes;
the moments 23 and 47 lie on two days, so that the budget rolls over and the
first retry falls due. Two processes are what a lost append needs, and four rows
with two altered ones hold an altered row before, after and beside another.
Five turns are a statement, a read-back that is corrected, a second read-back
and its answer, or a greeting that discloses the assistant and an exchange; the
twelve turns include the record, two changes, a hedge, a correction, two sessions
in one sentence, times that are not a range, "weekdays" with clock times beside a
request to stop, hours that one reader does not hear, and a speaker nobody knows
who says all the right things. In `rules`, `Phrasings` has a turn without a safety
phrase, one with each of two kinds, and one with two kinds at once.

**What the properties mean.**

* `SuppressionHonoured` is subtle. `run_call` does not look at `do_not_call`
  again, so a call reserved before the request to stop could ring after it. It
  does not, because the request can only come from another call to the same
  organization, spacing keeps two calls a whole day apart, and no execution
  lasts that long. The property therefore rests on `WorkflowHours <=
  HoursPerDay <= MinimumInterval`. `config.py` forces an interval of a day or more
  in production only (config.py:96); with an interval of zero, which it allows
  elsewhere, nothing keeps the property: it breaks with the spacing (its mutant
  shows it).
* `PromiseKept` says all the calling rules at once: recording a consent is
  `Agree`, reserving a call `Pay`, CALL-E taking it `Ring`, its end `End`, the
  evidence of a request to stop `Silence`, the clock `Pass`; every other step of
  the program is a stutter.
* `RecordMovesOnlyByEvidence` binds every change of a published value to a
  proposal that is decided in the same step, or applied by a run that needs
  nobody. `AssuranceNeedsCoverage` binds the assurance date and the resolution
  of reports to a run that reached somebody and covered what it asked.
* `OverInTimeIsRead` gives the deadline its exact meaning: a call given up was
  not over one poll and one sleep before it, unless CALL-E answered a poll
  without a status. `InTime` and `VerifyEnds` are two halves: each wait is
  bounded, and no wait is forever.
* `TokenLastsToThePlan` says what the two minutes of `min_ttl_seconds` are good
  for: three requests of 30 s, each resumed up to 10 s late, come before the
  plan. They do not cover the observation.
* `ForgottenOnlyWhenLoggedIn` is what remains true of the shared pending login: a
  finish clears whatever is pending when it succeeds, be it a newer login than
  its own; but then the server is logged in.
* `RunningIsListed` says when a running job may be missing from the registry: its
  task was started again, or `JobsKept` jobs have been started since *some* start
  of that task. The second is weaker than one might expect: `order` keeps an
  entry for every start, and evicting the oldest forgets the task's latest job.
* `LockedTasksAreHeld` and `JobsEnd` are two halves of one promise: a record is
  not locked by a job that is over, and no job goes on forever.
* `PastIsFixed` is what `verify_chain` can honestly say: nothing of the rows
  after the last one somebody remembers. A ledger cut short, or rewritten from
  some row to its end, verifies.
* `ProposesOneSession` is what names_more_than_one_session and the repair of a
  closing hour come to together: whatever is proposed is made of the only two times
  heard and of the days on one side of them. It says nothing of the other reader.
* `ReadBackWasAgreed` says what a read-back does establish: all days, both hours,
  and nothing else *that `clock_times_in` hears*. The stronger promise of
  readback.py, nothing else at all, is `ReadBackSaysNothingElse`, which the code
  breaks (run `said_more`).
* `UnattendedWasAgreed` joins the reading to the policy: hours that are applied
  with nobody looking were raised, read back and agreed to in that order, in a call
  that was disclosed early and not ended for safety, and CALL-E's account does not
  contradict them. `AccountOnlyRemoves` is the reconciler's one rule.
* `OnlyTheProviderSettles` has one exception, which it spells out: the assistant's
  turns decide whether the disclosure is missing. A turn of anybody but the
  provider can clear that event, never raise it again, and not after the fourth.
* `SafetyNeverSoftens` compares the verdict before and after a turn that brings an
  event, whatever else the same turn answers.
* `ReadsAsAssumed` ties the two readings together: every conversation goes
  through evidence that TranscriptReading, over which the policy is checked, goes
  through too.
* `OfferedToTheWorkflow` justifies an economy of the model: `ReadEvidence` offers
  the workflow one grade per verdict, and this says that no transcript leads to
  outcomes, proposals, confirmations or verdicts that it does not offer. It fails
  when a field can be confirmed beside a claim about it.
* `NoStrandedReview`: a task that waits for a person always has something that a
  person can decide.

**Fairness.** `WF(WorkerStep(w))`: every await of a worker has a timeout and
every handler runs to its end, so an execution that can go on does. `WF(HangUp)`:
a telephone call ends. None is assumed of people, of starting executions, or of
processes staying alive. `FairSpec` is used by `progress` (without crashes) and
`crash` (with them). `MCSpec` has the fairness of `CallECaller`:
the event loop resumes a verification that is under way, and the clock goes on;
nobody has to begin one, answer or hang up. `JobsFairSpec` is `WF(JobStep(j))`
alone, for the same reason: a job ends whatever the other process does with its
task, and nobody is assumed to ask, review or send the body of a request.

**Where the code and its documents disagree.** The four violated runs:

1. `crash`: README.md:142-144 says a crash between starting and reading a call
   "resumes `get_call_run`". Nothing in the program does: `open_call_runs` has
   no caller. OPERATIONS.md shows an operator calling it by hand, which lists
   the call but changes no row. The call stays `dialing`, the task
   `in_progress`, and no other task for that record can be opened. A crash one
   step later leaves a call that reads `completed` and has no run.
2. `lost_run`: README.md:144-145 says a `run_call` without a run id is "never
   retried". The adapter marks the error `retryable=False`; nothing reads it,
   the task is released and dialled again after the interval.
3. `moved`: ETHICS.md:17-18 says one "stop calling" covers every service the
   organization runs. A service moved by an import keeps its open task, and the
   gates look at the organization of the task: the number of the organization
   that runs it now is dialled although that one asked not to be called.
4. `said_more`: readback.py:12-13 requires a read-back to hold "nothing the value
   does not hold". `_says_only` looks for more with `clock_times_in`, whose words end
   at twelve, while `_hits` knows the numbers up to twentythree. "Wednesdays, ten to
   one and fourteen to sixteen", said by the provider and read back by the
   assistant, is `WE 10:00-13:00` to all of them: a yes lets it be applied with
   nobody looking, and the afternoon is lost.

More that no run shows:

* A job whose call reached nobody is shown as verified, "The provider confirmed the
  record; nothing changed" (api.py:604), while its task is queued for the next
  attempt: REFRESH, the authority of a call without contact (evidence_policy.py:197-205),
  is also the authority of a confirmation.
* spoken.py:5-11 says the two readers agree about what a sentence contains. They
  differ the other way round as well, towards a person: "weekdays ten to four"
  proposes Monday to Friday, of which `_hits` finds no day, and "Wednesdays 09:00 to
  13:00" proposes an opening hour that `_hits` does not find. Said like this by the
  assistant, a value is never read back.
* transcript.py:260-261 says that a disclosure "after the provider has already
  answered is not a disclosure". `disclosure_spoken` looks at the first four turns,
  whoever spoke between them.
* A call that reached nobody in which a safety event was found (a missing
  disclosure, most easily) is stored as `needs_review` with an open flag, while
  evidence_policy.py:198 says it "is not a review item, and it must never look
  like one". The models do as the code does.
* transcript.py:19-21 says the reader "never guesses a value in order to have one".
  "Ten until midnight" is an impossible range (midnight is 0), which
  transcript.py:222-229 repairs into ten until noon. The exchange that follows
  still has to read 12 back, so that this alone applies nothing.
* transcript.py:225-226 says that "'seven until seven' stays impossible". A day of
  exactly twelve hours passes the bound of line 228, so that it is read as seven in
  the morning until seven in the evening.
* readback.py:13-14 says the assistant "says the whole value back". The opening and
  the closing hour are looked for separately and on the twelve hour dial, so that
  "Wednesdays, seven?" reads back `WE 07:00-19:00`, and a yes to it lets the value
  be applied with nobody looking.
* A confirmation of the record anywhere in the call is taken before the check for
  two sessions in a sentence (reconcile.py:358), so that such a sentence, said
  after it, goes to nobody.
* `base.py:35` says that `verify` raises `CallError` when a call could not be
  placed or read. A timeout of httpx or an answer that is not JSON passes through
  as it is; the workflow's second `except` clause treats it alike.
* `connect` runs inside `plan_call`, whose errors `verify` turns into
  `CallError`: the `except CalleAuthRequired` of the command line (cli.py:88-93)
  is never reached.
* The last success of two overlapping logins clears the pending one, whoever's it
  is (api.py:868).

## 4. Proofs

Thirty-nine theorems in seven modules; an eighth, CommonProofs, holds lemmas they
share. WorkflowProofs (types, open tasks, workers) and SafetyProofs, which extends
it (the calling rules, the refinement, the review desk), are about the `Spec` of
VerificationWorkflow; JobsProofs is about `JobsSpec`, RulesProofs about the `Spec`
of TranscriptReading and the `HoursSpec` of CallingHours, ReadingProofs about
`ReadingSpec`, CallEProofs about the `Spec` of CallECaller and AuditProofs about
`AuditSpec`. All hold for every value of the constants that satisfies the named
assumptions (`ContractAssumption`, `QueueAssumption`, `LedgerAssumption`,
`WorkflowAssumption`, `JobsAssumption`, `ReadingAssumption`, `CallerAssumption`,
...): any number of services, organizations, workers, tasks, calls, consents,
imports, jobs and visitors, any spacing of at least a day, any fields, values and
terms, any turns in any number, any people and login sessions, any size of the
registry and of the day's budget, and the
settings `config.py` allows.

| Module | Theorem | Says | Inductive invariant |
| --- | --- | --- | --- |
| WorkflowProofs | `TypeCorrect` | `[]WorkflowTypeOK` | `TypeInv` |
| | `OneOpenTask` | `[]OneOpenTaskPerService` | itself with `TypeInv` |
| | `OneWorker` | `[]OneWorkerPerTask` | `OneWorkerInv` |
| SafetyProofs | `Spacing` | `[]CallsAreSpaced` | `SpacingInv` |
| | `Suppression` | `SuppressionHonoured` | `SilenceInv` |
| | `Allowance` | `[]AllowanceRespected` | `AllowanceInv` |
| | `Refinement` | `PromiseKept` | `PromiseInv` |
| | `NoStranded` | `[]NoStrandedReview` | `DeskInv` |
| | `MovesByEvidence` | `RecordMovesOnlyByEvidence` | `DeskInv` |
| | `AssuredByCoverage` | `AssuranceNeedsCoverage` | `DeskInv` |
| JobsProofs | `JobsTyped` | `[]JobsTypeOK` | `TypeInv` |
| | `RunningListed` | `[]RunningIsListed` | `RegistryInv` |
| | `BudgetKept` | `[]BudgetHolds` | `BudgetInv` |
| | `OneCall`, `LockedHeld` | `[]OneCallPerTask`, `[]LockedTasksAreHeld` | `HoldInv` |
| RulesProofs | `OnlyEstablished` | `[]AppliesOnlyEstablished` | `ReadingInv` |
| | `NothingForgotten` | `[]NothingIsForgotten` | `ReadingInv` |
| | `SafetyHardens` | `SafetyNeverSoftens` | `ReadingInv` |
| | `NothingUnoffered` | `[]OfferedToTheWorkflow` | `HeardInv` |
| | `PermittedByAgreement` | `[]PermittedAsAgreed` | `HoursInv` |
| | `SoonestIsCharged` | `ChargesTheSoonestToExpire` | `HoursInv` |
| ReadingProofs | `ReadingTyped` | `[]ScheduleTypeOK` | `ConversationInv` |
| | `OneSessionProposed` | `[]ProposesOneSession` | `ConversationInv` |
| | `ReadBackAgreed` | `[]ReadBackWasAgreed` | `FollowedInv` with `ConversationInv` |
| | `UnattendedAgreed` | `[]UnattendedWasAgreed` | `FollowedInv` with `ConversationInv` |
| | `OnlyProviderSettles` | `OnlyTheProviderSettles` | `ConversationInv` |
| | `AccountRemoves` | `AccountOnlyRemoves` | `ConversationInv` |
| | `ReadsAsTranscript` | `ReadsAsAssumed` | `ConversationInv` |
| CallEProofs | `TypeCorrect` | `[]CallerTypeOK` | itself with `RingInv` |
| | `EndsInTime` | `[]InTime` | `ClockInv` |
| | `BudgetBelowThreeHours` | `VerifyBudget < 3 * 3600` | |
| | `ReadsInTime` | `[]OverInTimeIsRead` | `OverInv` with `ClockInv` |
| | `TokenOutlastsOpening` | `[]TokenLastsToThePlan` | `TokenInv` with `ClockInv` |
| | `OneCallOnly` | `ImplementsOneCall` | `RingInv` |
| | `LoginsKept` | `[]ForgottenOnlyWhenLoggedIn` | `OfferInv` |
| AuditProofs | `AuditTyped` | `[]AuditTypeOK` | `EventInv` with `HistoryInv` |
| | `IntactLedger` | `[]IntactLedgerVerifies` | `AuditInv` |
| | `FixedPast` | `[]PastIsFixed` | `HistoryInv` with `AuditInv` |
| | `BreakNamed` | `[]BreakIsNamed` | `BreakInv` with `AuditInv` |

* `TypeInv`. Types alone are not inductive: `FinishReview` reads the task of a
  run's call and `Attach` writes to a worker's call, which are rows only if they
  exist. `TypeInv` adds `RunsHaveCalls` (a run, a proposal or a flag belongs to a
  placed call) and `WorkersHoldCalls` (from `reserved` on a worker holds a placed
  call). One lemma per operation of the store, then one per action, then the step.
* `StepKinds` carries the rest: seen from the calls and the workers, a step
  claims a task, reserves a call, moves the clock, or is quiet (no call is
  placed or moved, and whoever is busy goes on with what it had).
* `SpacingInv` adds that every call carries an instant no later than the clock.
  `reserve_call` compares earlier calls with the clock; as the new call gets the
  clock's hour, whatever is an interval before now is an interval before it. The
  same bound serves `SilenceInv` below.
* `OneWorkerInv` adds `TasksHeld`: the task of a busy worker is `in_progress`, or
  was completed under it by the review of an earlier run
  (`_complete_reviewed_run` does not look at the status). Neither can be claimed,
  and no request, report or refresh makes it queued again.
* `DeskInv` is what the review desk and the workers owe each other. Of the desk: a
  run stays `needs_review` while anything in it is undecided (`OpenRuns`), and one
  that reached somebody is the last its task had, so that the task wants no less
  verified than the run asked about (`RunsCovered`). The latter is why
  `_complete_reviewed_run`, which compares the *task's* fields with what was
  covered, never dates a record by a run that left out something it asked. Of the
  workers: what a worker is on has no run yet (`Unread`), and its contract asks
  about nothing its task does not want (`AskedKept`). The
  decisions are then local: each leaves something undecided, or settles the task
  in the same transaction. `NoStranded` also needs `OneWorkerInv` and the bounds on
  executions: a second execution of a task could otherwise leave the first one's
  review behind.
* `SilenceInv` is the argument about suppression, which the code leaves
  implicit. It keeps that a worker's execution began no longer than
  `WorkflowHours` ago and holds a call of its own (`InTime`, `OwnCall`,
  `OneWorkerPerCall`), and concludes that no worker with a reserved call belongs
  to a suppressed organization: whoever suppresses it in that step would hold
  another call to it, both reserved within `WorkflowHours` of now, so less than
  `MinimumInterval` apart, which `SpacingInv` excludes.
* `AllowanceInv` adds that each call is charged to a recorded consent; the
  counting uses the library's theorems on cardinality.
* `PromiseInv` is `SilenceInv`, `AllowanceInv` and that a call not yet run has an
  idle line. Under the mapping (`agreementsBar`, `permitsBar`) each step is then
  one of the promise or a stutter, with one lemma for each kind of step.
* The jobs. `RegistryInv` says what `order` is: the tasks of the last starts, newest
  last, an entry for every start. Each job is then found by its task, or the task
  was started again, or `JobsKept` jobs were started since one of its starts
  (`Found`), which is the second, weaker half of `RunningIsListed`. `BudgetInv`
  says that no visitor started a job on a day later than the budget's, and on that
  day no more than `spent`; at midnight the account is empty because the new day
  is. `HoldInv` adds that a task on the line is `in_progress`, or was completed
  meanwhile by a review (`HeldTasksAreTaken`): no claim finds it, so a check made
  stale by an await costs nothing.
* The rule books. `ReadingInv` is only about types: the rest is what `classify`
  makes of the evidence of any conversation, in lemmas about each kind of decision
  (`ClassifyType`, `WorstVerdict`, `HeardNeedsAPerson`, `Unattended`,
  `StopWasHeard`). `HoursInv` says that `calls_placed` of each consent is the number
  of calls in the log that were charged to it, and that calls lie in the past; what
  `evaluate` computes for a window that crosses midnight is then compared with the
  walk from its first hour to its last. CallingHours has two consents, whose terms
  are any.
* `HeardInv` adds what `_build_claim` and `_confirmation` keep: one claim per
  field, about a question asked or a closure, and never beside a confirmation.
  `NothingUnoffered` then replaces each claim by the weakest with the same verdict
  (`Weakened`): that set is among the offered ones, and `classify` makes the same
  decisions of it, since it reads a grade only through the verdict.
* `ConversationInv` says that claims and confirmations are those of the turns and
  the account so far, and nothing remembered from before. `FollowedInv` is the
  argument of the exchange: the code searches the finished transcript, the
  reference follows each value as turns are spoken. A value stated anywhere in the
  transcript has been raised; one whose read-back is the latest that nobody has
  answered is at least being asked about; a corroborated one was agreed to. It is
  needed in these three parts because a turn moves a search by what came before:
  the lemmas `AgreedToAppend`, `CorroboratedAppend`, `CandidatesAppend` and
  `RecordConfirmedAppend` say what each search finds in a transcript with one more
  turn. That the two readers do not hear the same words takes lemmas of its own: by `NumbersOf` and
  `HitsCounted`, a turn that hits every part of a value and says only the value, as
  far as each reader hears, names it in full for the reference, whatever form each
  word has. `VerdictOnHours` compares the verdicts before and after CALL-E's account
  in a call with any safety events.
  `OneSessionProposed` is about sentences alone (`Spoken`, `FirstSession`,
  `SessionBegun`): where the two times stand, and where no day can.
* `AuditInv` says that at most one process is inside a transaction and that, as
  long as nothing was altered, what it would commit verifies: the row it appends
  is linked to the last one *it* sees.
* `HistoryInv` says that the history verifies and is no longer than the ledger.
  `FixedPast` then follows from the two chains alone (`SameRowSamePast`): equal
  rows have equal links, equal links make the rows before them equal. That step
  back through any number of rows is an induction; `StepsReach` does it for
  bounded sets by the pigeonhole principle, because an induction theorem with an
  operator as its parameter is out of the provers' reach.
* `BreakInv` says that a row verifies unless it was altered or follows one that
  was, in the ledger and in what the process inside would make of it.
* `ClockInv` says of each wait that it is no older than it may be, and when it
  began at the latest: after the waits before it, or, for a poll, before the
  deadline. `InTime` is the sum. `OverInv` carries over from a poll to the sleep
  after it that a call seen ringing was over no earlier than the poll was sent;
  `TokenInv` counts down the two minutes request by request; `RingInv` ties the
  telephone to how far `verify` is, which is all the refinement needs.
* `OfferInv` says that what a curator finishes, and what is pending, was handed
  out, and that a session being exchanged for a token is exchanged for good.

The proofs corrected a property. `PermittedAsAgreed` said that `evaluate`
permits exactly the hours somebody agreed to, which the run could not refute because
its number is on the allowlist; for a number that is not, it is false, and the
property now names the allowlist.

Every safety invariant and every action property that a passing run checks is now a
theorem, with the three refinements. The inductive invariants of the jobs and of the
review desk hold in every state of the runs `jobs` and `review` as well, and the
parts of `FollowedInv` in those of `reading`. Only model-checked is liveness
(`JobsEnd`, `ClaimedTasksReturn`, `StartedCallsAreRead`, `VerifyEnds`): fairness
and ENABLED are outside the prover's reach.

## 5. Not modelled

The pilot line, the courtesy limits of the API, console sessions, the export,
scoring, privacy and the web console; of imports, locations and further phones;
of reading, minutes, free text and the spelling of words.
`PROJECT.json` says why for each.
SQLite is assumed to commit
or roll back and never to fail; a handler's own transaction therefore succeeds.

## 6. Plan

Done: the workflow with its queue, ledger, desk, imports, eligibility and
policy; the adapter with its session and the logins; the jobs; the reading of
opening hours, down to the positions and forms of words, with the disclosure; the
audit chain; thirty-nine theorems, among them one for every safety property that a passing run checks.

Next, in this order:

1. `Sessions` and `WindowLimiter`, with the handlers that read a session before
   an await and act after it.
2. A property of `ScheduleReading` over the turns that follow a confirmation, once
   it is written down which of two agreed values should win.
3. `QueueScore` and minutes as algorithms against a reference.
