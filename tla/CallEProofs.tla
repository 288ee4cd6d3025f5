----------------------------- MODULE CallEProofs ------------------------------
(***************************************************************************)
(* A verification by CALL-E ends in time, observes the call it started as  *)
(* promised and plans it with a token that is still good, for any settings *)
(* config.py allows, any number of people logging in and any clock.        *)
(***************************************************************************)
EXTENDS CallECaller, TLAPS

-----------------------------------------------------------------------------
\* The tables

LEMMA FollowingTable ==
  /\ DOMAIN Following = {"initialize", "notify", "list", "planning"}
  /\ Following["initialize"] = "notify" /\ Following["notify"] = "list"
  /\ Following["list"] = "planning" /\ Following["planning"] = "starting"
  /\ AtRequest = {"initialize", "notify", "list", "planning", "starting", "started",
                  "polling", "answering"}
  /\ Waits = AtRequest \cup {"waiting", "pausing"}
BY DEF Following, AtRequest, Waits, Sleep

LEMMA WaitTable ==
  /\ LongestWait("waiting") = FirstPoll + Late
  /\ LongestWait("pausing") = PollInterval + Late
  /\ LongestWait("planning") = PlanTimeout + Late
  /\ \A step \in AtRequest \ {"planning"} : LongestWait(step) = RpcTimeout + Late
BY FollowingTable, CallerAssumption DEF LongestWait, Sleep, RpcTimeout, PlanTimeout

LEMMA StageTable ==
  /\ \A step \in {"ready", "initialize", "notify", "list", "planning", "starting"} :
       StageOf[step] = "reserved"
  /\ StageOf["started"] = "started"
  /\ \A step \in {"waiting", "polling", "answering", "pausing"} : StageOf[step] = "observing"
  /\ StageOf["read"] = "closed"
  /\ StageOf["failed"] = "failing" /\ StageOf["gaveUp"] = "failing"
<1>1. {"initialize", "notify", "list", "planning", "starting", "waiting", "polling",
       "answering", "pausing", "started"} \subseteq Waits
  BY FollowingTable
<1>. QED
  BY <1>1, FollowingTable DEF StageOf, Ended

-----------------------------------------------------------------------------
\* Types

\* The telephone has rung by the time run_call is answered, and not before it is
\* sent; what a poll found to be over is over.
RingInv ==
  /\ pc \in {"ready", "initialize", "notify", "list", "planning", "starting"} => line = "idle"
  /\ pc \in {"started", "waiting", "polling", "answering", "pausing"} => line # "idle"
  /\ pc = "answering" /\ seen = "over" => line = "over"

LEMMA RingInit == Init => RingInv
BY DEF Init, RingInv

LEMMA RingNext == RingInv /\ [Next]_vars => RingInv'
<1>. SUFFICES ASSUME RingInv, [Next]_vars
              PROVE  RingInv'
  OBVIOUS
<1>1. CASE Connect \/ NoUsableToken \/ Answered \/ RunCall
  BY <1>1, FollowingTable DEF Connect, NoUsableToken, Answered, RunCall, GoTo, RingInv
<1>2. CASE RunStarted \/ RequestFails \/ FirstSleepEnds
  BY <1>2 DEF RunStarted, RequestFails, FirstSleepEnds, GoTo, RingInv
<1>3. CASE Look \/ PollAnswered \/ PauseEnds
  BY <1>3 DEF Look, PollAnswered, PauseEnds, GoTo, RingInv
<1>4. CASE HangUp
  BY <1>4 DEF HangUp, RingInv
<1>5. CASE Elapse \/ UNCHANGED callerVars \/ UNCHANGED vars
  BY <1>5 DEF Elapse, callerVars, vars, RingInv
<1>. QED
  BY <1>1, <1>2, <1>3, <1>4, <1>5 DEF Next, VerifyStep

LEMMA TypeInit == Init => CallerTypeOK
<1>. SUFFICES ASSUME Init PROVE CallerTypeOK
  OBVIOUS
<1>1. LoginTypeOK
  BY LoginAssumption DEF Init, LoginInit, LoginTypeOK, Requests, SessionStatuses
<1>. QED
  BY <1>1 DEF Init, CallerTypeOK

\* A login that is under way names the session it is about.
LEMMA LoginSession ==
  ASSUME LoginTypeOK, NEW p \in People, logins[p].step # "none"
  PROVE  SessionOf(p) \in Sessions
BY DEF LoginTypeOK, Requests, NoRequest, SessionOf

LEMMA LoginNextType ==
  ASSUME LoginTypeOK, LoginNext
  PROVE  LoginTypeOK' /\ now' = now
<1>1. ASSUME NEW p \in People, OpenSession(p)
      PROVE  LoginTypeOK' /\ now' = now
  BY <1>1 DEF OpenSession, LoginTypeOK, Requests, SessionStatuses
<1>2. ASSUME NEW p \in People, LoginStarted(p)
      PROVE  LoginTypeOK' /\ now' = now
  <2>1. SessionOf(p) \in Sessions
    BY <1>2, LoginSession DEF LoginStarted, Doing
  <2>2. logins' \in [People -> Requests]
    <3>1. logins[p] \in [step: {"starting", "finishing", "exchanging"}, session: Sessions]
      BY <1>2 DEF LoginStarted, Doing, LoginTypeOK, Requests, NoRequest
    <3>2. [logins[p] EXCEPT !.step = "finishing"] \in Requests
      BY <3>1 DEF Requests
    <3>. QED
      BY <1>2, <3>2 DEF LoginStarted, Stop, Turn, LoginTypeOK, Requests
  <2>. QED
    BY <1>2, <2>1, <2>2 DEF LoginStarted, LoginTypeOK
<1>3. ASSUME NEW p \in People, BeginFinish(p)
      PROVE  LoginTypeOK' /\ now' = now
  BY <1>3 DEF BeginFinish, LoginTypeOK, Requests
<1>4. ASSUME NEW p \in People, Exchange(p)
      PROVE  LoginTypeOK' /\ now' = now
  <2>1. logins[p] \in [step: {"starting", "finishing", "exchanging"}, session: Sessions]
    BY <1>4 DEF Exchange, Doing, LoginTypeOK, Requests, NoRequest
  <2>2. [logins[p] EXCEPT !.step = "exchanging"] \in Requests
    BY <2>1 DEF Requests
  <2>. QED
    BY <1>4, <2>2 DEF Exchange, Turn, LoginTypeOK, SessionStatuses
<1>5. ASSUME NEW p \in People, LoginFails(p)
      PROVE  LoginTypeOK' /\ now' = now
  BY <1>5 DEF LoginFails, Stop, LoginTypeOK, Requests
<1>6. ASSUME NEW p \in People, LoggedIn(p)
      PROVE  LoginTypeOK' /\ now' = now
  <2>1. token' \in Nat \cup {NoToken, Unstated}
    BY <1>6, LoginAssumption DEF LoggedIn, LoginTypeOK
  <2>2. pending' \in Sessions \cup {NoSession} /\ logins' \in [People -> Requests]
    BY <1>6 DEF LoggedIn, Stop, LoginTypeOK, Requests
  <2>. QED
    BY <1>6, <2>1, <2>2 DEF LoggedIn, LoginTypeOK
<1>7. ASSUME NEW s \in Sessions, Visit(s) \/ Expire(s)
      PROVE  LoginTypeOK' /\ now' = now
  BY <1>7 DEF Visit, Expire, LoginTypeOK, SessionStatuses
<1>. QED
  BY <1>1, <1>2, <1>3, <1>4, <1>5, <1>6, <1>7 DEF LoginNext

LEMMA TypeNext == CallerTypeOK /\ RingInv /\ [Next]_vars => CallerTypeOK'
<1>. SUFFICES ASSUME CallerTypeOK, RingInv, [Next]_vars
              PROVE  CallerTypeOK'
  OBVIOUS
<1>1. CASE VerifyStep
  <2>1. LoginTypeOK'
    BY <1>1 DEF VerifyStep, Connect, NoUsableToken, Answered, RunCall, RunStarted, RequestFails,
       FirstSleepEnds, Look, PollAnswered, PauseEnds, CallerTypeOK, LoginTypeOK, loginVars
  <2>2. CASE Connect \/ NoUsableToken \/ Answered
    BY <2>1, <2>2, FollowingTable
       DEF Connect, NoUsableToken, Answered, GoTo, CallerTypeOK, LoginTypeOK, loginVars, Ended
  <2>3. CASE RunCall \/ RunStarted \/ RequestFails
    BY <2>1, <2>3, FollowingTable
       DEF RunCall, RunStarted, RequestFails, GoTo, CallerTypeOK, LoginTypeOK, Ended
  <2>4. CASE FirstSleepEnds \/ PollAnswered \/ PauseEnds
    BY <2>1, <2>4, FollowingTable, CallerAssumption
       DEF FirstSleepEnds, PollAnswered, PauseEnds, GoTo, CallerTypeOK, LoginTypeOK, Ended
  <2>5. CASE Look
    <3>1. unread' \in BOOLEAN
      BY <2>5 DEF Look
    <3>2. pc' \in Waits /\ UNCHANGED <<since, heldUntil, deadline, line, overAt, attachedAt>>
      BY <2>5, FollowingTable DEF Look
    <3>3. seen' \in {"unread", "ringing", "over"}
      <4>1. \/ seen' = "unread"
            \/ seen' = line /\ line # "idle"
        BY <2>5 DEF Look, RingInv
      <4>. QED
        BY <4>1 DEF CallerTypeOK
    <3>. QED
      BY <2>1, <3>1, <3>2, <3>3, Zenon DEF CallerTypeOK
  <2>. QED
    BY <1>1, <2>2, <2>3, <2>4, <2>5 DEF VerifyStep
<1>2. CASE HangUp
  BY <1>2 DEF HangUp, CallerTypeOK, LoginTypeOK, loginVars
<1>3. CASE Elapse
  BY <1>3, CallerAssumption DEF Elapse, CallerTypeOK, LoginTypeOK, loginVars, callerVars
<1>4. CASE LoginNext /\ UNCHANGED callerVars
  BY <1>4, LoginNextType DEF CallerTypeOK, callerVars
<1>5. CASE UNCHANGED vars
  BY <1>5 DEF vars, CallerTypeOK, LoginTypeOK, loginVars, callerVars
<1>. QED
  BY <1>1, <1>2, <1>3, <1>4, <1>5 DEF Next

\* Every reachable state is well typed: in particular a request to finish a login
\* is about a session that was started, whoever else logs in meanwhile.
THEOREM TypeCorrect == Spec => []CallerTypeOK
BY RingInit, RingNext, TypeInit, TypeNext, PTL DEF Spec

-----------------------------------------------------------------------------
\* The clock

Request == RpcTimeout + Late
Plan == PlanTimeout + Late
LastDeadline == 4 * Request + Plan + FirstPoll + Late + MaxWait

\* No wait is older than it may be, each began at most the waits before it after
\* the first, and a poll begins before the deadline.
ClockInv ==
  /\ pc = "ready" => now = 0
  /\ pc \in Waits => since <= now /\ now <= since + LongestWait(pc)
  /\ pc = "initialize" => since <= 0
  /\ pc = "notify" => since <= Request
  /\ pc = "list" => since <= 2 * Request
  /\ pc = "planning" => since <= 3 * Request
  /\ pc \in {"starting", "started"} => since <= 3 * Request + Plan
  /\ pc = "waiting" => since <= 4 * Request + Plan /\ attachedAt = since
  /\ pc \in {"polling", "answering"} => since <= deadline
  /\ pc = "pausing" => since <= deadline + Request
  /\ pc \in {"polling", "answering", "pausing"} =>
       deadline <= LastDeadline /\ deadline >= attachedAt + FirstPoll + MaxWait
  /\ pc = "gaveUp" => now >= attachedAt + FirstPoll + MaxWait
  /\ pc \in Ended => now <= VerifyBudget

LEMMA ClockInit == Init => ClockInv
BY FollowingTable DEF Init, LoginInit, ClockInv, Ended

LEMMA ClockStill ==
  ASSUME ClockInv, UNCHANGED <<now, pc, since, deadline, attachedAt>>
  PROVE  ClockInv'
BY DEF ClockInv, LongestWait

\* Where the waits of ClockInv lead.
LEMMA Budgets ==
  /\ Request \in Nat /\ Plan \in Nat /\ LastDeadline \in Nat /\ VerifyBudget \in Nat
  /\ VerifyBudget = LastDeadline + Request + PollInterval + Late
  /\ 4 * Request + Plan <= LastDeadline
  /\ FirstPoll \in Nat /\ MaxWait \in Nat /\ PollInterval \in Nat /\ Late \in Nat
BY CallerAssumption DEF Request, Plan, LastDeadline, VerifyBudget, RpcTimeout, PlanTimeout

LEMMA InTimeSoFar == CallerTypeOK /\ ClockInv => InTime
<1>. SUFFICES ASSUME CallerTypeOK, ClockInv PROVE now <= VerifyBudget
  BY DEF InTime
<1>. now \in Nat /\ since \in Nat /\ deadline \in Nat
  BY DEF CallerTypeOK, LoginTypeOK
<1>1. CASE pc \in AtRequest
  <2>1. now <= since + LongestWait(pc)
    BY <1>1, FollowingTable DEF ClockInv
  <2>2. CASE pc = "planning"
    BY <2>1, <2>2, Budgets, WaitTable DEF ClockInv, Plan
  <2>3. CASE pc # "planning"
    <3>1. now <= since + Request
      BY <1>1, <2>1, <2>3, WaitTable DEF Request
    <3>2. since <= LastDeadline
      BY <1>1, <2>3, Budgets, FollowingTable DEF ClockInv
    <3>. QED
      BY <3>1, <3>2, Budgets
  <2>. QED
    BY <2>2, <2>3
<1>2. CASE pc = "waiting"
  <2>1. now <= since + FirstPoll + Late /\ since <= 4 * Request + Plan
    BY <1>2, WaitTable, FollowingTable, Budgets DEF ClockInv
  <2>. QED
    BY <2>1, CallerAssumption
       DEF Request, Plan, VerifyBudget, RpcTimeout, PlanTimeout
<1>3. CASE pc = "pausing"
  BY <1>3, WaitTable, FollowingTable, Budgets DEF ClockInv
<1>4. CASE pc = "ready" \/ pc \in Ended
  BY <1>4, Budgets DEF ClockInv
<1>. QED
  BY <1>1, <1>2, <1>3, <1>4, FollowingTable DEF CallerTypeOK

LEMMA ClockNext == CallerTypeOK /\ ClockInv /\ [Next]_vars => ClockInv'
<1>. SUFFICES ASSUME CallerTypeOK, ClockInv, [Next]_vars
              PROVE  ClockInv'
  OBVIOUS
<1>. now \in Nat /\ since \in Nat /\ deadline \in Nat /\ attachedAt \in Nat
  BY DEF CallerTypeOK, LoginTypeOK
<1>0. now <= VerifyBudget
  BY InTimeSoFar DEF InTime
<1>a. ASSUME NEW step, LongestWait(step) \in Nat, GoTo(step), now' = now
      PROVE  pc' = step /\ since' = now' /\ now' <= since' + LongestWait(step)
  BY <1>a DEF GoTo
<1>b. \A step \in Waits : LongestWait(step) \in Nat
  BY FollowingTable, WaitTable, Budgets DEF RpcTimeout, PlanTimeout
<1>c. pc \in Waits => now <= since + LongestWait(pc)
  BY DEF ClockInv
<1>1. CASE Connect
  <2>1. pc' = "initialize" /\ since' = now' /\ now' = 0
    BY <1>1 DEF Connect, GoTo, ClockInv
  <2>. QED
    BY <2>1, <1>b, FollowingTable DEF ClockInv, Ended, LongestWait
<1>2. CASE NoUsableToken \/ RequestFails
  <2>1. pc' = "failed" /\ now' = now
    BY <1>2 DEF NoUsableToken, RequestFails, GoTo
  <2>2. VerifyBudget' = VerifyBudget
    BY DEF VerifyBudget
  <2>. QED
    BY <1>0, <2>1, <2>2, FollowingTable DEF ClockInv, Ended
<1>3. CASE Answered
  <2>1. pc \in DOMAIN Following /\ pc' = Following[pc] /\ since' = now /\ now' = now
    BY <1>3 DEF Answered, GoTo
  <2>2. pc \in {"initialize", "notify", "list"} => now <= since + Request
    BY <1>c, FollowingTable, WaitTable DEF Request
  <2>3. pc = "planning" => now <= since + Plan
    BY <1>c, FollowingTable, WaitTable DEF Plan
  <2>4. pc' \in {"notify", "list", "planning", "starting"}
    BY <2>1, FollowingTable
  <2>5. /\ pc' = "notify" => now <= Request
        /\ pc' = "list" => now <= 2 * Request
        /\ pc' = "planning" => now <= 3 * Request
        /\ pc' = "starting" => now <= 3 * Request + Plan
    BY <2>1, <2>2, <2>3, FollowingTable, Budgets DEF ClockInv
  <2>6. LongestWait(pc') \in Nat
    BY <1>b, <2>4, FollowingTable
  <2>7. now' <= since' + LongestWait(pc')
    BY <2>1, <2>6
  <2>. QED
    BY <2>1, <2>4, <2>5, <2>7, FollowingTable DEF ClockInv, Ended, LongestWait
<1>4. CASE RunCall
  <2>1. pc = "starting" /\ pc' = "started" /\ UNCHANGED <<now, since>>
    BY <1>4 DEF RunCall
  <2>2. LongestWait("starting") = LongestWait("started")
    BY WaitTable, FollowingTable
  <2>3. now' <= since' + LongestWait(pc') /\ since <= now
    BY <1>c, <2>1, <2>2, FollowingTable DEF ClockInv
  <2>. QED
    BY <2>1, <2>3, FollowingTable DEF ClockInv, Ended, LongestWait
<1>5. CASE RunStarted
  <2>1. pc = "started" /\ pc' = "waiting" /\ now' = now /\ since' = now /\ attachedAt' = now
    BY <1>5 DEF RunStarted, GoTo
  <2>2. now <= 4 * Request + Plan
    BY <1>c, <2>1, WaitTable, FollowingTable, Budgets DEF ClockInv, Request
  <2>3. now' <= since' + LongestWait(pc')
    BY <1>b, <2>1, FollowingTable
  <2>. QED
    BY <2>1, <2>2, <2>3, FollowingTable DEF ClockInv, Ended, LongestWait
<1>6. CASE FirstSleepEnds
  <2>1. /\ pc = "waiting" /\ pc' = "polling" /\ now' = now /\ since' = now
        /\ now >= since + FirstPoll /\ deadline' = now + MaxWait /\ attachedAt' = attachedAt
    BY <1>6, Budgets DEF FirstSleepEnds, GoTo
  <2>2. now <= 4 * Request + Plan + FirstPoll + Late /\ attachedAt = since
    BY <1>c, <2>1, WaitTable, FollowingTable, Budgets DEF ClockInv
  <2>3. now + MaxWait <= LastDeadline
    BY <2>2, Budgets DEF LastDeadline
  <2>4. now' <= since' + LongestWait(pc') /\ since' <= deadline'
    BY <1>b, <2>1, FollowingTable, Budgets
  <2>5. deadline' >= attachedAt' + FirstPoll + MaxWait
    BY <2>1, <2>2, Budgets
  <2>. QED
    BY <2>1, <2>3, <2>4, <2>5, FollowingTable DEF ClockInv, Ended, LongestWait
<1>7. CASE Look
  <2>1. pc = "polling" /\ pc' = "answering" /\ UNCHANGED <<now, since, deadline, attachedAt>>
    BY <1>7 DEF Look
  <2>2. LongestWait("polling") = LongestWait("answering")
    BY WaitTable, FollowingTable
  <2>3. now' <= since' + LongestWait(pc') /\ since <= now
    BY <1>c, <2>1, <2>2, FollowingTable DEF ClockInv
  <2>. QED
    BY <2>1, <2>3, FollowingTable DEF ClockInv, Ended, LongestWait
<1>8. CASE PollAnswered
  <2>1. /\ pc = "answering" /\ pc' \in {"read", "pausing"} /\ since' = now
        /\ UNCHANGED <<now, deadline, attachedAt>>
    BY <1>8 DEF PollAnswered, GoTo
  <2>2. now <= deadline + Request
    BY <1>c, <2>1, WaitTable, FollowingTable, Budgets DEF ClockInv, Request
  <2>3. LongestWait("pausing") \in Nat
    BY <1>b, FollowingTable
  <2>4. VerifyBudget' = VerifyBudget
    BY DEF VerifyBudget
  <2>5. pc' = "pausing" => now' <= since' + LongestWait(pc')
    BY <2>1, <2>3
  <2>. QED
    BY <1>0, <2>1, <2>2, <2>4, <2>5, FollowingTable DEF ClockInv, Ended, LongestWait
<1>9. CASE PauseEnds
  <2>1. /\ pc = "pausing" /\ since' = now /\ UNCHANGED <<now, deadline, attachedAt>>
        /\ \/ pc' = "polling" /\ now < deadline
           \/ pc' = "gaveUp" /\ now >= deadline
    BY <1>9 DEF PauseEnds, GoTo
  <2>2. LongestWait("polling") \in Nat
    BY <1>b, FollowingTable
  <2>3. VerifyBudget' = VerifyBudget
    BY DEF VerifyBudget
  <2>4. deadline <= LastDeadline /\ deadline >= attachedAt + FirstPoll + MaxWait
    BY <2>1 DEF ClockInv
  <2>5. pc' = "gaveUp" => now >= attachedAt + FirstPoll + MaxWait
    BY <2>1, <2>4, Budgets
  <2>6. pc' = "polling" => now' <= since' + LongestWait(pc') /\ since' <= deadline'
    BY <2>1, <2>2
  <2>. QED
    BY <1>0, <2>1, <2>3, <2>4, <2>5, <2>6, FollowingTable DEF ClockInv, Ended, LongestWait
<1>10. CASE HangUp \/ (LoginNext /\ UNCHANGED callerVars) \/ UNCHANGED vars
  <2>1. UNCHANGED <<now, pc, since, deadline, attachedAt>>
    BY <1>10, LoginNextType DEF HangUp, CallerTypeOK, callerVars, vars
  <2>. QED
    BY <2>1, ClockStill
<1>11. CASE Elapse
  <2>1. /\ pc \in Waits /\ now' \in Nat /\ now' >= now /\ now' - since <= LongestWait(pc)
        /\ UNCHANGED <<pc, since, deadline, attachedAt>>
    BY <1>11, CallerAssumption DEF Elapse, callerVars
  <2>2. now' <= since' + LongestWait(pc')
    BY <1>b, <2>1
  <2>3. since <= now
    BY <2>1 DEF ClockInv
  <2>. QED
    BY <2>1, <2>2, <2>3, FollowingTable DEF ClockInv, Ended, LongestWait
<1>. QED
  BY <1>1, <1>2, <1>3, <1>4, <1>5, <1>6, <1>7, <1>8, <1>9, <1>10, <1>11 DEF Next, VerifyStep

LEMMA ClockAlways == Spec => [](CallerTypeOK /\ RingInv /\ ClockInv)
BY RingInit, RingNext, TypeInit, TypeNext, ClockInit, ClockNext, PTL DEF Spec

\* A verification by CALL-E is over within its budget.
THEOREM EndsInTime == Spec => []InTime
BY ClockAlways, InTimeSoFar, PTL

\* The longest budget the settings allow is far below the three hours no execution
\* of the workflow outlives (VerificationWorkflow, WorkflowHours).
THEOREM BudgetBelowThreeHours == VerifyBudget < 3 * 3600
BY CallerAssumption DEF VerifyBudget, RpcTimeout, PlanTimeout

-----------------------------------------------------------------------------
\* A call that was over in time is read

\* A poll that did not see the call over was sent before the call was, and the
\* sleep after it began at most a request later.
OverInv ==
  /\ overAt <= now
  /\ pc = "answering" /\ seen # "over" /\ line = "over" /\ ~unread => overAt >= since
  /\ pc = "pausing" /\ line = "over" /\ ~unread => overAt + Request >= since
  /\ OverInTimeIsRead

LEMMA OverInit == Init => OverInv
BY DEF Init, LoginInit, OverInv, OverInTimeIsRead

LEMMA OverNext ==
  CallerTypeOK /\ RingInv /\ ClockInv /\ OverInv /\ [Next]_vars => OverInv'
<1>. SUFFICES ASSUME CallerTypeOK, RingInv, ClockInv, OverInv, [Next]_vars
              PROVE  OverInv'
  OBVIOUS
<1>. now \in Nat /\ since \in Nat /\ deadline \in Nat /\ attachedAt \in Nat /\ overAt \in Nat
  BY DEF CallerTypeOK, LoginTypeOK
<1>1. CASE Connect \/ NoUsableToken \/ Answered \/ RunCall \/ RunStarted \/ RequestFails
           \/ FirstSleepEnds
  <2>1. pc' \notin {"answering", "pausing", "gaveUp"} /\ UNCHANGED <<now, overAt>>
    BY <1>1, FollowingTable
       DEF Connect, NoUsableToken, Answered, RunCall, RunStarted, RequestFails, FirstSleepEnds, GoTo
  <2>. QED
    BY <2>1 DEF OverInv, OverInTimeIsRead
<1>2. CASE Look
  <2>1. /\ pc = "polling" /\ pc' = "answering" /\ UNCHANGED <<now, overAt, line, since>>
        /\ seen' = line \/ seen' = "unread"
    BY <1>2 DEF Look
  <2>2. seen' = "unread" => unread'
    BY <1>2 DEF Look
  <2>. QED
    BY <2>1, <2>2 DEF OverInv, OverInTimeIsRead
<1>3. CASE PollAnswered
  <2>1. /\ pc = "answering" /\ since' = now /\ UNCHANGED <<now, overAt, line>>
        /\ \/ seen = "over" /\ pc' = "read"
           \/ seen # "over" /\ pc' = "pausing"
    BY <1>3 DEF PollAnswered, GoTo
  <2>2. unread' = unread
    BY <1>3 DEF PollAnswered
  <2>3. now <= since + Request
    BY <2>1, FollowingTable, WaitTable DEF ClockInv, Request
  <2>4. overAt >= since => overAt + Request >= now
    BY <2>3, Budgets
  <2>. QED
    BY <2>1, <2>2, <2>4 DEF OverInv, OverInTimeIsRead
<1>4. CASE PauseEnds
  <2>1. /\ pc = "pausing" /\ UNCHANGED <<now, overAt, line, deadline, attachedAt>>
        /\ \/ pc' = "polling"
           \/ pc' = "gaveUp" /\ now >= deadline
    BY <1>4 DEF PauseEnds, GoTo
  <2>2. unread' = unread
    BY <1>4 DEF PauseEnds
  <2>3. now <= since + PollInterval + Late /\ deadline >= attachedAt + FirstPoll + MaxWait
    BY <2>1, FollowingTable, WaitTable, Budgets DEF ClockInv
  <2>4. ASSUME pc' = "gaveUp", overAt + Request >= since
        PROVE  overAt + RpcTimeout + PollInterval + 2 * Late >= attachedAt + FirstPoll + MaxWait
    BY <2>1, <2>3, <2>4, Budgets DEF Request, RpcTimeout
  <2>. QED
    BY <2>1, <2>2, <2>4 DEF OverInv, OverInTimeIsRead
<1>5. CASE HangUp
  <2>1. line' = "over" /\ overAt' = now /\ UNCHANGED <<now, pc, since, attachedAt>>
    BY <1>5 DEF HangUp
  <2>2. pc \in Waits => since <= now
    BY DEF ClockInv
  <2>3. pc = "gaveUp" => now >= attachedAt + FirstPoll + MaxWait
    BY DEF ClockInv
  <2>4. now <= now + Request /\ now <= now + RpcTimeout + PollInterval + 2 * Late
    BY Budgets DEF RpcTimeout
  <2>5. pc = "answering" \/ pc = "pausing" => now >= since /\ now + Request >= since
    BY <2>2, FollowingTable, Budgets
  <2>6. pc = "gaveUp" =>
          now + RpcTimeout + PollInterval + 2 * Late >= attachedAt + FirstPoll + MaxWait
    BY <2>3, <2>4, Budgets DEF RpcTimeout
  <2>. QED
    BY <2>1, <2>5, <2>6 DEF OverInv, OverInTimeIsRead
<1>6. CASE Elapse
  <2>1. now' >= now /\ UNCHANGED <<pc, since, overAt, attachedAt, line, seen>>
    BY <1>6, CallerAssumption DEF Elapse, callerVars
  <2>2. unread' = unread
    BY <1>6 DEF Elapse, callerVars
  <2>. QED
    BY <1>6, <2>1, <2>2, CallerAssumption DEF Elapse, OverInv, OverInTimeIsRead
<1>7. CASE (LoginNext /\ UNCHANGED callerVars) \/ UNCHANGED vars
  <2>1. UNCHANGED <<now, pc, since, overAt, attachedAt, line, seen>>
    BY <1>7, LoginNextType DEF CallerTypeOK, callerVars, vars
  <2>2. unread' = unread
    BY <1>7 DEF callerVars, vars
  <2>. QED
    BY <2>1, <2>2 DEF OverInv, OverInTimeIsRead
<1>. QED
  BY <1>1, <1>2, <1>3, <1>4, <1>5, <1>6, <1>7 DEF Next, VerifyStep

\* A call that was over a poll's time before the deadline is not given up.
THEOREM ReadsInTime == Spec => []OverInTimeIsRead
<1>1. OverInv => OverInTimeIsRead
  BY DEF OverInv
<1>. QED
  BY <1>1, ClockAlways, OverInit, OverNext, PTL DEF Spec

-----------------------------------------------------------------------------
\* The token

\* What is left of min_ttl_seconds when each request of the session is sent.
TokenInv ==
  heldUntil # Unstated =>
    /\ pc = "initialize" => heldUntil > since + MinTtl
    /\ pc = "notify" => heldUntil + Request > since + MinTtl
    /\ pc = "list" => heldUntil + 2 * Request > since + MinTtl
    /\ pc = "planning" => heldUntil + 3 * Request > since + MinTtl

LEMMA TokenInit == Init => TokenInv
BY DEF Init, TokenInv

LEMMA TokenNext == CallerTypeOK /\ ClockInv /\ TokenInv /\ [Next]_vars => TokenInv'
<1>. SUFFICES ASSUME CallerTypeOK, ClockInv, TokenInv, [Next]_vars
              PROVE  TokenInv'
  OBVIOUS
<1>. now \in Nat /\ since \in Nat /\ heldUntil \in Int /\ token \in Int
  BY DEF CallerTypeOK, LoginTypeOK, NoToken, Unstated
<1>1. CASE Connect
  <2>1. heldUntil' = token /\ since' = now /\ pc' = "initialize"
    BY <1>1 DEF Connect, GoTo
  <2>2. token # Unstated => token > now + MinTtl
    <3>1. token # Unstated => token - now > MinTtl
      BY <1>1 DEF Connect, Usable
    <3>. QED
      BY <3>1 DEF MinTtl
  <2>. QED
    BY <2>1, <2>2 DEF TokenInv, Unstated, MinTtl
<1>2. CASE Answered
  <2>1. /\ pc \in DOMAIN Following /\ pc' = Following[pc] /\ since' = now
        /\ heldUntil' = heldUntil
    BY <1>2 DEF Answered, GoTo
  <2>2. pc \in {"initialize", "notify", "list"} => now <= since + Request
    BY FollowingTable, WaitTable DEF ClockInv, Request
  <2>3. CASE pc = "initialize" /\ pc' = "notify"
    <3>1. heldUntil # Unstated => heldUntil > since + MinTtl
      BY <2>3 DEF TokenInv
    <3>. QED
      BY <2>1, <2>2, <2>3, <3>1, Budgets DEF TokenInv, MinTtl
  <2>4. CASE pc = "notify" /\ pc' = "list"
    <3>1. heldUntil # Unstated => heldUntil + Request > since + MinTtl
      BY <2>4 DEF TokenInv
    <3>. QED
      BY <2>1, <2>2, <2>4, <3>1, Budgets DEF TokenInv, MinTtl
  <2>5. CASE pc = "list" /\ pc' = "planning"
    <3>1. heldUntil # Unstated => heldUntil + 2 * Request > since + MinTtl
      BY <2>5 DEF TokenInv
    <3>. QED
      BY <2>1, <2>2, <2>5, <3>1, Budgets DEF TokenInv, MinTtl
  <2>6. CASE pc' = "starting"
    BY <2>6 DEF TokenInv
  <2>. QED
    BY <2>1, <2>3, <2>4, <2>5, <2>6, FollowingTable
<1>3. CASE NoUsableToken \/ RunCall \/ RunStarted \/ RequestFails \/ FirstSleepEnds \/ Look
           \/ PollAnswered \/ PauseEnds
  <2>1. pc' \notin DOMAIN Following
    BY <1>3, FollowingTable
       DEF NoUsableToken, RunCall, RunStarted, RequestFails, FirstSleepEnds, Look, PollAnswered,
           PauseEnds, GoTo
  <2>. QED
    BY <2>1, FollowingTable DEF TokenInv
<1>4. CASE HangUp \/ Elapse \/ UNCHANGED callerVars \/ UNCHANGED vars
  <2>1. UNCHANGED <<pc, since, heldUntil>>
    BY <1>4 DEF HangUp, Elapse, callerVars, vars
  <2>. QED
    BY <2>1 DEF TokenInv, Unstated
<1>. QED
  BY <1>1, <1>2, <1>3, <1>4 DEF Next, VerifyStep

\* The token outlasts the opening of the session, because its two minutes cover
\* three requests of thirty seconds, each resumed ten seconds late at most.
THEOREM TokenOutlastsOpening == Spec => []TokenLastsToThePlan
<1>1. CallerTypeOK /\ TokenInv => TokenLastsToThePlan
  <2>1. SUFFICES ASSUME CallerTypeOK, TokenInv, pc = "planning", heldUntil # Unstated
                 PROVE  heldUntil > since
    BY DEF TokenLastsToThePlan
  <2>2. since \in Nat /\ heldUntil \in Int
    BY <2>1 DEF CallerTypeOK, NoToken, Unstated
  <2>3. 3 * Request <= MinTtl /\ heldUntil + 3 * Request > since + MinTtl
    BY <2>1, CallerAssumption DEF TokenInv, Request, RpcTimeout, MinTtl
  <2>. QED
    BY <2>2, <2>3, Budgets DEF MinTtl
<1>. QED
  BY <1>1, ClockAlways, TokenInit, TokenNext, PTL DEF Spec

-----------------------------------------------------------------------------
\* The promise

LEMMA PromiseInit == Init => Promise!Init
BY StageTable DEF Init, Promise!Init

LEMMA PromiseStep ==
  ASSUME CallerTypeOK, RingInv, [Next]_vars
  PROVE  Promise!Next \/ UNCHANGED Promise!vars
<1> DEFINE stage == StageOf[pc]
<1>1. CASE Connect \/ Answered
  <2>1. stage' = stage /\ line' = line
    BY <1>1, FollowingTable, StageTable DEF Connect, Answered, GoTo
  <2>. QED
    BY <2>1 DEF Promise!vars
<1>2. CASE NoUsableToken
  <2>1. stage = "reserved" /\ stage' = "failing" /\ line' = line
    BY <1>2, StageTable DEF NoUsableToken, GoTo
  <2>. QED
    BY <2>1 DEF Promise!Next, Promise!PlanFails
<1>3. CASE RunCall
  <2>1. stage = "reserved" /\ stage' = "started" /\ line' = "ringing"
    BY <1>3, StageTable DEF RunCall
  <2>. QED
    BY <2>1 DEF Promise!Next, Promise!RunCall
<1>4. CASE RunStarted
  <2>1. stage = "started" /\ stage' = "observing" /\ line' = line
    BY <1>4, StageTable DEF RunStarted, GoTo
  <2>. QED
    BY <2>1 DEF Promise!Next, Promise!Attach
<1>5. CASE RequestFails
  <2>1. stage \in {"reserved", "started", "observing"} /\ stage' = "failing" /\ line' = line
    BY <1>5, FollowingTable, StageTable DEF RequestFails, GoTo
  <2>. QED
    BY <2>1 DEF Promise!Next, Promise!PlanFails, Promise!NoRunId, Promise!ObserveFails
<1>6. CASE FirstSleepEnds \/ Look
  <2>1. stage' = stage /\ line' = line
    BY <1>6, StageTable DEF FirstSleepEnds, Look, GoTo
  <2>. QED
    BY <2>1 DEF Promise!vars
<1>7. CASE PollAnswered
  <2>1. /\ line' = line /\ stage = "observing"
        /\ \/ stage' = "closed" /\ line = "over"
           \/ stage' = stage
    BY <1>7, StageTable DEF PollAnswered, GoTo, RingInv
  <2>. QED
    BY <2>1 DEF Promise!Next, Promise!ReadCall, Promise!vars
<1>8. CASE PauseEnds
  <2>1. line' = line /\ stage = "observing" /\ stage' \in {stage, "failing"}
    BY <1>8, StageTable DEF PauseEnds, GoTo
  <2>. QED
    BY <2>1 DEF Promise!Next, Promise!ObserveFails, Promise!vars
<1>9. CASE HangUp
  <2>1. line = "ringing" /\ line' = "over" /\ stage' = stage
    BY <1>9 DEF HangUp
  <2>. QED
    BY <2>1 DEF Promise!Next, Promise!HangUp
<1>10. CASE Elapse \/ UNCHANGED callerVars \/ UNCHANGED vars
  <2>1. stage' = stage /\ line' = line
    BY <1>10 DEF Elapse, callerVars, vars
  <2>. QED
    BY <2>1 DEF Promise!vars
<1>. QED
  BY <1>1, <1>2, <1>3, <1>4, <1>5, <1>6, <1>7, <1>8, <1>9, <1>10 DEF Next, VerifyStep

\* The adapter implements the caller the workflow expects.
THEOREM OneCallOnly == Spec => ImplementsOneCall
<1>1. CallerTypeOK /\ RingInv /\ [Next]_vars => [Promise!Next]_(Promise!vars)
  BY PromiseStep
<1>. QED
  BY <1>1, PromiseInit, ClockAlways, PTL DEF Spec, ImplementsOneCall, Promise!Spec

-----------------------------------------------------------------------------
\* The logins of the console

\* What is pending, and what a curator finishes, was handed out; what is being
\* exchanged is exchanged, and stays so.
OfferInv ==
  /\ pending \in offered \cup {NoSession}
  /\ \A p \in Curators : logins[p].step \in {"finishing", "exchanging"} => SessionOf(p) \in offered
  /\ \A p \in People : logins[p].step = "exchanging" => sessions[SessionOf(p)] = "EXCHANGED"
  /\ ForgottenOnlyWhenLoggedIn

LEMMA OfferInit == Init => OfferInv
BY DEF Init, LoginInit, OfferInv, ForgottenOnlyWhenLoggedIn, People, NoRequest

\* What OfferInv says of the requests stays true of a login step that keeps what is
\* exchanged and offered, and after which one person's request is as it was
\* or a right one.
LEMMA OneRequestMoves ==
  ASSUME CallerTypeOK, OfferInv, NEW p \in People, NEW request,
         logins' = [logins EXCEPT ![p] = request],
         offered \subseteq offered',
         \A s \in Sessions : sessions[s] = "EXCHANGED" => sessions'[s] = "EXCHANGED",
         p \in Curators /\ request.step \in {"finishing", "exchanging"} =>
           request.session \in offered',
         request.step = "exchanging" => sessions'[request.session] = "EXCHANGED"
  PROVE  /\ \A q \in Curators :
              logins'[q].step \in {"finishing", "exchanging"} => logins'[q].session \in offered'
         /\ \A q \in People :
              logins'[q].step = "exchanging" => sessions'[logins'[q].session] = "EXCHANGED"
<1>1. logins \in [People -> Requests] /\ logins'[p] = request
      /\ \A q \in People \ {p} : logins'[q] = logins[q]
  BY DEF CallerTypeOK, LoginTypeOK
<1>2. \A q \in People : logins[q].step = "exchanging" => logins[q].session \in Sessions
  BY LoginSession DEF CallerTypeOK, SessionOf
<1>3. Curators \subseteq People
  BY DEF People
<1>. QED
  BY <1>1, <1>2, <1>3 DEF OfferInv, SessionOf

LEMMA OfferNext == CallerTypeOK /\ OfferInv /\ [Next]_vars => OfferInv'
<1>. SUFFICES ASSUME CallerTypeOK, OfferInv, [Next]_vars
              PROVE  OfferInv'
  OBVIOUS
<1>. LoginTypeOK
  BY DEF CallerTypeOK
<1>k. ASSUME NEW p \in People, LoginFails(p) \/ OpenSession(p)
      PROVE  OfferInv'
  <2>1. PICK request \in Requests :
          /\ request.step \in {"none", "starting"} /\ logins' = [logins EXCEPT ![p] = request]
    BY <1>k DEF LoginFails, OpenSession, Stop, Requests, NoRequest
  <2>2. UNCHANGED <<pending, offered>>
    BY <1>k DEF LoginFails, OpenSession
  <2>3. \A s \in Sessions : sessions[s] = "EXCHANGED" => sessions'[s] = "EXCHANGED"
    BY <1>k DEF LoginFails, OpenSession, LoginTypeOK
  <2>4. \A s \in offered : s \in Sessions
    BY DEF LoginTypeOK
  <2>. QED
    BY <2>1, <2>2, <2>3, <2>4, OneRequestMoves DEF OfferInv, ForgottenOnlyWhenLoggedIn, SessionOf
<1>1. ASSUME NEW p \in People, LoginStarted(p)
      PROVE  OfferInv'
  <2>1. SessionOf(p) \in Sessions /\ SessionOf(p) # NoSession /\ sessions' = sessions
    BY <1>1, LoginSession, LoginAssumption DEF LoginStarted, Doing
  <2>2. CASE p \in Curators
    <3>1. /\ pending' = SessionOf(p) /\ offered' = offered \cup {SessionOf(p)}
          /\ logins' = [logins EXCEPT ![p] = NoRequest]
      BY <1>1, <2>2 DEF LoginStarted, Stop
    <3>2. NoRequest.step = "none"
      BY DEF NoRequest
    <3>. QED
      BY <2>1, <3>1, <3>2, OneRequestMoves DEF OfferInv, ForgottenOnlyWhenLoggedIn, SessionOf
  <2>3. CASE p \notin Curators
    <3>1. UNCHANGED <<pending, offered>> /\ logins' = [logins EXCEPT ![p].step = "finishing"]
      BY <1>1, <2>3 DEF LoginStarted, Turn
    <3>2. \A q \in People : q # p => logins'[q] = logins[q]
      BY <3>1 DEF LoginTypeOK
    <3>3. logins'[p].step = "finishing"
      <4>1. logins[p] \in [step: {"starting", "finishing", "exchanging"}, session: Sessions]
        BY <1>1 DEF LoginStarted, Doing, LoginTypeOK, Requests, NoRequest
      <4>. QED
        BY <3>1, <4>1 DEF LoginTypeOK
    <3>. QED
      BY <2>1, <2>3, <3>1, <3>2, <3>3 DEF OfferInv, ForgottenOnlyWhenLoggedIn, SessionOf, People
  <2>. QED
    BY <2>2, <2>3
<1>2. ASSUME NEW p \in People, BeginFinish(p)
      PROVE  OfferInv'
  <2> DEFINE request == [step |-> "finishing", session |-> pending]
  <2>1. /\ UNCHANGED <<pending, sessions, offered>> /\ pending \in offered
        /\ logins' = [logins EXCEPT ![p] = request]
    BY <1>2 DEF BeginFinish, OfferInv
  <2>2. request.step = "finishing" /\ request.session = pending
    OBVIOUS
  <2> HIDE DEF request
  <2>. QED
    BY <2>1, <2>2, OneRequestMoves DEF OfferInv, ForgottenOnlyWhenLoggedIn, SessionOf
<1>3. ASSUME NEW p \in People, Exchange(p)
      PROVE  OfferInv'
  <2> DEFINE request == [logins[p] EXCEPT !.step = "exchanging"]
  <2>1. logins[p] \in [step: {"starting", "finishing", "exchanging"}, session: Sessions]
    BY <1>3 DEF Exchange, Doing, LoginTypeOK, Requests, NoRequest
  <2>2. /\ logins' = [logins EXCEPT ![p] = request] /\ UNCHANGED <<pending, offered>>
        /\ logins[p].step = "finishing"
    BY <1>3 DEF Exchange, Turn, Doing
  <2>3. request.step = "exchanging" /\ request.session = logins[p].session
    BY <2>1
  <2>4. /\ sessions'[logins[p].session] = "EXCHANGED"
        /\ \A s \in Sessions : sessions[s] = "EXCHANGED" => sessions'[s] = "EXCHANGED"
    BY <1>3, <2>1 DEF Exchange, SessionOf, LoginTypeOK
  <2>5. p \in Curators => logins[p].session \in offered
    BY <2>2 DEF OfferInv, SessionOf
  <2> HIDE DEF request
  <2>6. offered \subseteq Sessions
    BY DEF LoginTypeOK
  <2>. QED
    BY <2>2, <2>3, <2>4, <2>5, <2>6, OneRequestMoves
       DEF OfferInv, ForgottenOnlyWhenLoggedIn, SessionOf
<1>4. ASSUME NEW p \in People, LoggedIn(p)
      PROVE  OfferInv'
  <2>1. /\ UNCHANGED <<sessions, offered>> /\ logins' = [logins EXCEPT ![p] = NoRequest]
        /\ pending' = NoSession \/ pending' = pending
        /\ p \notin Curators => pending' = pending
    BY <1>4 DEF LoggedIn, Stop
  <2>2. NoRequest.step = "none"
    BY DEF NoRequest
  <2>3. p \in Curators => SessionOf(p) \in offered /\ sessions[SessionOf(p)] = "EXCHANGED"
    BY <1>4 DEF LoggedIn, Doing, OfferInv
  <2>. QED
    BY <2>1, <2>2, <2>3, OneRequestMoves DEF OfferInv, ForgottenOnlyWhenLoggedIn, SessionOf
<1>5. ASSUME NEW s \in Sessions, Visit(s) \/ Expire(s)
      PROVE  OfferInv'
  <2>1. UNCHANGED <<pending, logins, offered>>
    BY <1>5 DEF Visit, Expire
  <2>2. \A r \in Sessions : sessions[r] = "EXCHANGED" => sessions'[r] = "EXCHANGED"
    BY <1>5 DEF Visit, Expire, LoginTypeOK
  <2>3. \A p \in People : logins[p].step = "exchanging" => SessionOf(p) \in Sessions
    BY LoginSession
  <2>4. offered \subseteq Sessions
    BY DEF LoginTypeOK
  <2>. QED
    BY <2>1, <2>2, <2>3, <2>4 DEF OfferInv, ForgottenOnlyWhenLoggedIn, SessionOf
<1>6. CASE VerifyStep \/ HangUp \/ Elapse \/ UNCHANGED vars
  <2>1. UNCHANGED <<pending, sessions, logins, offered>>
    BY <1>6 DEF VerifyStep, Connect, NoUsableToken, Answered, RunCall, RunStarted, RequestFails,
       FirstSleepEnds, Look, PollAnswered, PauseEnds, HangUp, Elapse, loginVars, vars
  <2>. QED
    BY <2>1 DEF OfferInv, ForgottenOnlyWhenLoggedIn, SessionOf
<1>. QED
  BY <1>k, <1>1, <1>2, <1>3, <1>4, <1>5, <1>6 DEF Next, LoginNext

\* The console never forgets a login that was started, unless it is logged in.
THEOREM LoginsKept == Spec => []ForgottenOnlyWhenLoggedIn
<1>1. OfferInv => ForgottenOnlyWhenLoggedIn
  BY DEF OfferInv
<1>. QED
  BY <1>1, ClockAlways, OfferInit, OfferNext, PTL DEF Spec
=============================================================================
