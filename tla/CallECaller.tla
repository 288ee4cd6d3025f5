------------------------------ MODULE CallECaller ------------------------------
(***************************************************************************)
(* calling/calle.py, CallEVerificationCaller.verify and _await_terminal,   *)
(* over calling/mcp.py, CalleMcpClient: one contract verified by CALL-E,   *)
(* beside the logins that replace its token.  The client connects when the *)
(* first tool is called.                                                   *)
(*                                                                         *)
(* An await is a wait with a longest duration.  A sleep lasts its time, a  *)
(* request at most its timeout, and the event loop resumes either at most  *)
(* Late after that.  Time passes only while verify waits.  (httpx counts a *)
(* timeout for each read: that the whole answer arrives within one is an   *)
(* assumption about CALL-E.)                                               *)
(***************************************************************************)
EXTENDS BrokerLogin

CONSTANTS
  FirstPoll, PollInterval, MaxWait,  \* Settings.calle_*_seconds
  Late,      \* how many seconds late the event loop may resume a wait
  Elapses,   \* bound: the seconds by which the clock advances
  Horizon    \* bound: the last instant of the clock

\* The ranges config.py allows.
ASSUME CallerAssumption ==
  /\ FirstPoll \in 0 .. 600 /\ PollInterval \in 1 .. 120 /\ MaxWait \in 60 .. 7200
  /\ Late \in 0 .. 10
  /\ Elapses \subseteq Nat \ {0} /\ Horizon \in Nat

RpcTimeout == 30
PlanTimeout == 150

VARIABLES
  pc,          \* where verify is
  since,       \* when its wait began
  heldUntil,   \* when the token it sends expires
  deadline,    \* of _await_terminal
  seen,        \* the run's status as CALL-E last gave it
  line,        \* the telephone
  overAt,      \* history: when the call was over
  attachedAt,  \* history: when the run's id was persisted
  unread       \* history: an answer to a poll had no status in it

callerVars == <<pc, since, heldUntil, deadline, seen, line, overAt, attachedAt, unread>>
vars == <<now, loginVars, callerVars>>

\* The requests that follow one another: initialize, notifications/initialized,
\* tools/list, plan_call, run_call.
Following == [initialize |-> "notify", notify |-> "list", list |-> "planning",
              planning |-> "starting"]
AtRequest == DOMAIN Following \cup {"starting", "started", "polling", "answering"}
Sleep == [waiting |-> FirstPoll, pausing |-> PollInterval]
Waits == AtRequest \cup DOMAIN Sleep
Ended == {"read", "failed", "gaveUp"}

LongestWait(step) ==
  Late + (IF step \in DOMAIN Sleep THEN Sleep[step]
          ELSE IF step = "planning" THEN PlanTimeout ELSE RpcTimeout)

CallerTypeOK ==
  /\ LoginTypeOK
  /\ pc \in {"ready"} \cup Waits \cup Ended
  /\ since \in Nat /\ deadline \in Nat /\ overAt \in Nat /\ attachedAt \in Nat
  /\ heldUntil \in Nat \cup {NoToken, Unstated}
  /\ seen \in {"unread", "ringing", "over"} /\ line \in {"idle", "ringing", "over"}
  /\ unread \in BOOLEAN

Init ==
  /\ LoginInit
  /\ pc = "ready" /\ heldUntil = NoToken /\ seen = "unread" /\ line = "idle"
  /\ since = 0 /\ deadline = 0 /\ overAt = 0 /\ attachedAt = 0
  /\ unread = FALSE

GoTo(step) == pc' = step /\ since' = now

-----------------------------------------------------------------------------
\* plan_call and run_call

\* plan_call -> _request -> connect: the token is read once.
Connect ==
  /\ pc = "ready" /\ Usable(token)
  /\ heldUntil' = token
  /\ GoTo("initialize")
  /\ UNCHANGED <<now, loginVars, deadline, seen, line, overAt, attachedAt, unread>>

\* CalleAuthRequired, which verify turns into a CallError.
NoUsableToken ==
  /\ pc = "ready" /\ ~Usable(token)
  /\ GoTo("failed")
  /\ UNCHANGED <<now, loginVars, heldUntil, deadline, seen, line, overAt, attachedAt, unread>>

\* A request is answered as it should be, and the next one is sent.
Answered ==
  /\ pc \in DOMAIN Following
  /\ GoTo(Following[pc])
  /\ UNCHANGED <<now, loginVars, heldUntil, deadline, seen, line, overAt, attachedAt, unread>>

\* CALL-E takes run_call on and dials.
RunCall ==
  /\ pc = "starting"
  /\ line' = "ringing" /\ pc' = "started"
  /\ UNCHANGED <<now, loginVars, since, heldUntil, deadline, seen, overAt, attachedAt, unread>>

\* Fault: run_call is sent again when its answer does not arrive.
RequestFailsOrIsRepeated ==
  /\ pc \in AtRequest
  /\ IF pc = "started" THEN GoTo("starting") ELSE GoTo("failed")
  /\ UNCHANGED <<now, loginVars, heldUntil, deadline, seen, line, overAt, attachedAt, unread>>

\* A request fails: no answer in time, an HTTP error, a token that is rejected,
\* isError, a plan that is not ready, a run without an id.  Nothing is sent again.
RequestFails ==
  /\ pc \in AtRequest
  /\ GoTo("failed")
  /\ UNCHANGED <<now, loginVars, heldUntil, deadline, seen, line, overAt, attachedAt, unread>>

\* run_call names the run, and on_run_started persists it.
RunStarted ==
  /\ pc = "started"
  /\ attachedAt' = now
  /\ GoTo("waiting")
  /\ UNCHANGED <<now, loginVars, heldUntil, deadline, seen, line, overAt, unread>>

-----------------------------------------------------------------------------
\* _await_terminal

\* Fault: the deadline counts from the start of the first sleep.
FirstSleepCounted ==
  /\ pc = "waiting" /\ now - since >= FirstPoll
  /\ deadline' = since + MaxWait
  /\ GoTo("polling")
  /\ UNCHANGED <<now, loginVars, heldUntil, seen, line, overAt, attachedAt, unread>>

\* MaxWait is positive, so the first poll is always sent.
FirstSleepEnds ==
  /\ pc = "waiting" /\ now - since >= FirstPoll
  /\ deadline' = now + MaxWait
  /\ GoTo("polling")
  /\ UNCHANGED <<now, loginVars, heldUntil, seen, line, overAt, attachedAt, unread>>

\* CALL-E looks the run up.  An envelope without an object in it has no status.
Look ==
  /\ pc = "polling"
  /\ seen' \in {line, "unread"}
  /\ unread' = (unread \/ seen' = "unread")
  /\ pc' = "answering"
  /\ UNCHANGED <<now, loginVars, since, heldUntil, deadline, line, overAt, attachedAt>>

PollAnswered ==
  /\ pc = "answering"
  /\ GoTo(IF seen = "over" THEN "read" ELSE "pausing")
  /\ UNCHANGED <<now, loginVars, heldUntil, deadline, seen, line, overAt, attachedAt, unread>>

\* Fault: the deadline begins again with every poll.
PauseRenewsDeadline ==
  /\ pc = "pausing" /\ now - since >= PollInterval
  /\ deadline' = now + MaxWait
  /\ GoTo("polling")
  /\ UNCHANGED <<now, loginVars, heldUntil, seen, line, overAt, attachedAt, unread>>

\* Fault: nothing is raised when the deadline has passed.
PauseEndsBeforeDeadline ==
  /\ pc = "pausing" /\ now - since >= PollInterval /\ now < deadline
  /\ GoTo("polling")
  /\ UNCHANGED <<now, loginVars, heldUntil, deadline, seen, line, overAt, attachedAt, unread>>

PauseEnds ==
  /\ pc = "pausing" /\ now - since >= PollInterval
  /\ GoTo(IF now < deadline THEN "polling" ELSE "gaveUp")
  /\ UNCHANGED <<now, loginVars, heldUntil, deadline, seen, line, overAt, attachedAt, unread>>

-----------------------------------------------------------------------------

HangUp ==
  /\ line = "ringing"
  /\ line' = "over" /\ overAt' = now
  /\ UNCHANGED <<now, loginVars, pc, since, heldUntil, deadline, seen, attachedAt, unread>>

Elapse ==
  /\ pc \in Waits
  /\ \E d \in Elapses : now' = now + d
  /\ now' - since <= LongestWait(pc) /\ now' <= Horizon
  /\ UNCHANGED <<loginVars, callerVars>>

VerifyStep ==
  \/ Connect \/ NoUsableToken \/ Answered \/ RunCall \/ RunStarted \/ RequestFails
  \/ FirstSleepEnds \/ Look \/ PollAnswered \/ PauseEnds

Next == VerifyStep \/ HangUp \/ Elapse \/ (LoginNext /\ UNCHANGED callerVars)

Spec == Init /\ [][Next]_vars

\* The event loop resumes a verification that is under way, and the clock does not
\* stand still.  Nobody has to begin one.
Fairness == WF_vars(pc \in Waits /\ VerifyStep) /\ WF_vars(Elapse)

-----------------------------------------------------------------------------

\* The longest that verify can take: five requests, the first sleep, the wait, a
\* poll sent before the deadline and the sleep after it.
VerifyBudget ==
  4 * RpcTimeout + PlanTimeout + FirstPoll + MaxWait + RpcTimeout + PollInterval + 8 * Late

\* verify ends within its budget, whatever CALL-E answers and however late: the
\* timeouts of the requests, the deadline of _await_terminal and the poll that may
\* be under way when it passes add up.  VerificationWorkflow rests on it: no
\* execution outlives WorkflowHours.
InTime == now <= VerifyBudget

\* A call is given up (calle.py, _await_terminal) only when it was not over yet
\* shortly before the deadline, unless CALL-E answered a poll without a status.
OverInTimeIsRead ==
  pc = "gaveUp" /\ line = "over" /\ ~unread =>
    overAt + RpcTimeout + PollInterval + 2 * Late >= attachedAt + FirstPoll + MaxWait

\* min_ttl_seconds (mcp.py, CalleAuth) covers the three requests that open the
\* session: the token a plan is asked for with has not expired when it is sent.
TokenLastsToThePlan == pc = "planning" /\ heldUntil # Unstated => heldUntil > since

\* Every verification that was begun comes to an end (calle.py, verify).
VerifyEnds == pc = "initialize" ~> pc \in Ended

\* What the workflow is promised, in terms of this module.
StageOf ==
  [step \in {"ready"} \cup Waits \cup Ended |->
     IF step \in {"ready", "starting"} \cup DOMAIN Following THEN "reserved"
     ELSE IF step = "started" THEN "started"
     ELSE IF step = "read" THEN "closed"
     ELSE IF step \in Ended THEN "failing"
     ELSE "observing"]

Promise == INSTANCE OneCall WITH stage <- StageOf[pc], line <- line

\* The adapter is a caller as the workflow knows one: it rings once at most,
\* persists the run before it observes it, and reads only a call that is over.
ImplementsOneCall == Promise!Spec
=============================================================================
