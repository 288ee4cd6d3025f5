----------------------------- MODULE SafetyProofs -----------------------------
(***************************************************************************)
(* What the workflow owes to those it calls and to its record, for any     *)
(* number of services, organizations, workers, consents and calls.         *)
(*                                                                         *)
(* The called organizations: how far apart calls lie, whose telephone may  *)
(* ring and how many calls a consent allows; and that the workflow         *)
(* implements ConsentedCalling, the initial states and every step through  *)
(* the refinement mapping.  The record: what a run leaves to be decided    *)
(* before a value moves.                                                   *)
(***************************************************************************)
EXTENDS WorkflowProofs, FiniteSetTheorems

-----------------------------------------------------------------------------
\* Spacing.

\* Calls are never dated in the future; this makes the spacing inductive.
CallsInThePast == \A c \in CallIds : Placed(c) => calls[c].at \in Nat /\ calls[c].at <= now
SpacingInv == TypeInv /\ CallsInThePast /\ CallsAreSpaced

\* The invariant of the spacing holds at first,
LEMMA SpacingInit == Init => SpacingInv
  BY TypeInit DEF Init, LedgerInit, SpacingInv, CallsInThePast, CallsAreSpaced, Placed, NoRow

\* A step that keeps the calls keeps them apart.
LEMMA KeptApart ==
  ASSUME SpacingInv, CallsKept, now' \in Nat, now <= now'
  PROVE  CallsInThePast' /\ CallsAreSpaced'
<1>1. now \in Nat
  BY DEF SpacingInv, TypeInv, WorkflowTypeOK
<1>2. CallsInThePast'
  BY <1>1 DEF SpacingInv, CallsKept, CallsInThePast, Placed
<1>3. CallsAreSpaced'
  BY DEF SpacingInv, CallsKept, CallsAreSpaced, Placed, Apart, OrgOfCall, OrgOfTask, ServiceOf
<1>. QED
  BY <1>2, <1>3

\* The interval is a number of hours, and at least a workflow's time.
LEMMA IntervalType ==
  MinimumInterval \in Nat /\ WorkflowHours \in Nat /\ WorkflowHours <= MinimumInterval
  BY EligibilityAssumption, WorkflowAssumption DEF MinimumInterval, HoursPerDay

\* A call that spacing_permits lies a full interval after every earlier one.
LEMMA ReservedApart ==
  ASSUME SpacingInv, NEW t \in TaskIds, NEW number, MayCall(t, number),
         NEW d \in CallIds, Placed(d), OrgOfCall(d) = OrgOfTask(t)
  PROVE  calls[d].at + MinimumInterval <= now
<1>1. now \in Nat /\ calls[d].at \in Nat
  BY DEF SpacingInv, TypeInv, WorkflowTypeOK, CallsInThePast
<1>2. \A last \in LastCalls(OrgOfTask(t)) : last + MinimumInterval <= now
  BY DEF MayCall, Eligible, SpacingPermits
<1>3. CASE calls[d].at + MinimumInterval > now
  <2>1. calls[d].at \in LastCalls(OrgOfTask(t))
    BY <1>3 DEF LastCalls
  <2>. QED
    BY <1>2, <2>1
<1>. QED
  BY <1>1, <1>3, IntervalType

\* and every step keeps it.
LEMMA SpacingNext == SpacingInv /\ [Next]_vars => SpacingInv'
<1>. SUFFICES ASSUME SpacingInv, [Next]_vars PROVE SpacingInv'
  OBVIOUS
<1>1. TypeInv /\ TypeInv' /\ now \in Nat /\ now' \in Nat
  BY TypeNext DEF SpacingInv, TypeInv, WorkflowTypeOK
<1>2. CASE QuietStep
  BY <1>1, <1>2, KeptApart DEF QuietStep, SpacingInv
<1>3. ASSUME NEW w \in Workers, NEW t \in TaskIds, TakeTask(w, t)
      PROVE  SpacingInv'
  <2>1. CallsKept /\ now' = now
    BY <1>1, <1>3, TakeTaskEffect DEF CallsKept, Placed
  <2>. QED
    BY <1>1, <2>1, KeptApart DEF SpacingInv
<1>4. CASE Tick
  <2>1. CallsKept /\ now <= now'
    BY <1>1, <1>4, WorkflowAssumption DEF Tick, CallsKept, Placed, ledgerVars
  <2>. QED
    BY <1>1, <2>1, KeptApart DEF SpacingInv
<1>5. ASSUME NEW w \in Workers, Reserve(w)
      PROVE  SpacingInv'
  <2>1. /\ MayCall(TaskOf(w), workers[w].number) /\ now' = now
        /\ TaskOf(w) \in TaskIds
    BY <1>1, <1>5, ReserveEffect, BusyType DEF At, IsBusy
  <2>2. PICK c \in CallIds :
          /\ ~Placed(c) /\ Placed(c)'
          /\ calls'[c].at = now /\ calls'[c].task = TaskOf(w)
          /\ \A d \in CallIds : d # c => calls'[d] = calls[d]
    BY <1>1, <1>5, ReserveEffect
  <2>3. CallsInThePast'
    BY <1>1, <2>1, <2>2 DEF SpacingInv, CallsInThePast, Placed
  <2>4. OrgOfCall(c)' = OrgOfTask(TaskOf(w))
    BY <2>2 DEF OrgOfCall, OrgOfTask, ServiceOf
  <2>5. ASSUME NEW d \in CallIds, d # c
        PROVE  (Placed(d)' <=> Placed(d)) /\ OrgOfCall(d)' = OrgOfCall(d)
    BY <2>2, <2>5 DEF Placed, OrgOfCall, OrgOfTask, ServiceOf
  <2>6. ASSUME NEW d \in CallIds, d # c, Placed(d)', OrgOfCall(d)' = OrgOfCall(c)'
        PROVE  calls'[d].at + MinimumInterval <= calls'[c].at
    <3>1. Placed(d) /\ OrgOfCall(d) = OrgOfTask(TaskOf(w))
      BY <2>4, <2>5, <2>6
    <3>2. calls[d].at + MinimumInterval <= now
      BY <2>1, <3>1, ReservedApart
    <3>. QED
      BY <2>2, <2>6, <3>2
  <2>7. ASSUME NEW d \in CallIds, NEW e \in CallIds, d # e, d # c, e # c, Placed(d)', Placed(e)',
               OrgOfCall(d)' = OrgOfCall(e)'
        PROVE  Apart(d, e)'
    <3>1. Apart(d, e)
      BY <2>5, <2>7 DEF SpacingInv, CallsAreSpaced
    <3>. QED
      BY <2>2, <2>7, <3>1 DEF Apart
  <2>8. CallsAreSpaced'
    BY <2>6, <2>7 DEF CallsAreSpaced, Apart
  <2>. QED
    BY <1>1, <2>3, <2>8 DEF SpacingInv
<1>. QED
  BY <1>1, <1>2, <1>3, <1>4, <1>5, StepKinds

\* Two calls to one organization lie a full interval apart, for every number of
\* services and workers and every interval (reserve_call).
THEOREM Spacing == Spec => []CallsAreSpaced
<1>1. SpacingInv => CallsAreSpaced
  BY DEF SpacingInv
<1>. QED
  BY <1>1, SpacingInit, SpacingNext, PTL DEF Spec

-----------------------------------------------------------------------------
\* Suppression.

\* No reservation is held for an organization that asked not to be called.
NoneReservedSilent ==
  \A w \in Workers : At(w, "reserved") => OrgOfTask(TaskOf(w)) \notin doNotCall
SilenceInv == SpacingInv /\ TimeInv /\ NoneReservedSilent

\* Two workers that hold calls hold them for different organizations: their calls
\* were placed less than an interval apart.
LEMMA HeldForOthers ==
  ASSUME SilenceInv, NEW v \in Workers, NEW w \in Workers, v # w, IsBusy(v), IsBusy(w),
         CallOf(v) # NoCall, CallOf(w) # NoCall
  PROVE  OrgOfTask(TaskOf(v)) # OrgOfTask(TaskOf(w))
<1>1. /\ CallOf(v) \in CallIds /\ Placed(CallOf(v))
      /\ CallOf(w) \in CallIds /\ Placed(CallOf(w))
      /\ CallOf(v) # CallOf(w)
  BY DEF SilenceInv, SpacingInv, TypeInv, WorkersHoldCalls, TimeInv, OneWorkerPerCall
<1>. DEFINE atV == calls[CallOf(v)].at
            atW == calls[CallOf(w)].at
<1>2. /\ workers[v].since <= atV /\ atV <= now /\ now < workers[v].since + WorkflowHours
      /\ workers[w].since <= atW /\ atW <= now /\ now < workers[w].since + WorkflowHours
  BY <1>1 DEF SilenceInv, SpacingInv, CallsInThePast, TimeInv, InTime, OwnCall
<1>3. /\ workers[v].since \in Nat /\ workers[w].since \in Nat
      /\ atV \in Nat /\ atW \in Nat /\ now \in Nat
  BY <1>1, BusyType DEF SilenceInv, SpacingInv, CallsInThePast, TypeInv, WorkflowTypeOK, Busy
<1>4. ~Apart(CallOf(v), CallOf(w))
  <2>1. ~(atV + MinimumInterval <= atW) /\ ~(atW + MinimumInterval <= atV)
    BY <1>2, <1>3, IntervalType
  <2>. QED
    BY <2>1 DEF Apart
<1>5. OrgOfCall(CallOf(v)) # OrgOfCall(CallOf(w))
  BY <1>1, <1>4 DEF SilenceInv, SpacingInv, CallsAreSpaced
<1>. QED
  BY <1>5 DEF SilenceInv, TimeInv, OwnCall, OrgOfCall

\* The invariant of the silence holds at first.
LEMMA SilenceInit == Init => SilenceInv
  BY SpacingInit, TimeInit DEF Init, SilenceInv, NoneReservedSilent, At, Idle

\* Only a recorded call suppresses an organization, and only its own.
LEMMA SuppressedBy ==
  ASSUME TypeInv, [Next]_vars
  PROVE  \/ doNotCall' = doNotCall
         \/ \E w \in Workers : /\ Record(w) /\ At(w, "closed")
                               /\ doNotCall' = doNotCall \cup {OrgOfTask(TaskOf(w))}
<1>1. ASSUME NEW w \in Workers, Record(w)
      PROVE  \/ doNotCall' = doNotCall
             \/ At(w, "closed") /\ doNotCall' = doNotCall \cup {OrgOfTask(TaskOf(w))}
  BY <1>1 DEF Record, RecordCall, Suppress
<1>2. ASSUME NEW w \in Workers, WorkerStep(w) \/ Crash(w), ~Record(w)
      PROVE  doNotCall' = doNotCall
  BY <1>2 DEF WorkerStep, Crash, Refuse, Reserve, ReserveCall, PlanFails, RunCall, NoRunId, Attach,
              AttachRun, ReadCall, UpdateCall, ObserveFails, RecordFails, MarkFailed, Release,
              ledgerVars
<1>3. ASSUME NEW w \in Workers, NEW t \in TaskIds, TakeTask(w, t)
      PROVE  doNotCall' = doNotCall
  BY <1>3, TakeTaskEffect
<1>4. CASE Tick
  BY <1>4 DEF Tick, ledgerVars
<1>. QED
  BY <1>1, <1>2, <1>3, <1>4, OutsideQuiet DEF Next, WorkerStep

\* A step never suppresses the organization of a call in preparation.
LEMMA ReservedSilentNext ==
  ASSUME SilenceInv, [Next]_vars
  PROVE  NoneReservedSilent'
<1>1. TypeInv
  BY DEF SilenceInv, SpacingInv
<1>2. ASSUME NEW w \in Workers, At(w, "reserved"), workers'[w].task = TaskOf(w)
      PROVE  OrgOfTask(TaskOf(w))' \notin doNotCall'
  <2>1. OrgOfTask(TaskOf(w))' = OrgOfTask(TaskOf(w))
    BY <1>2 DEF OrgOfTask, TaskOf
  <2>2. OrgOfTask(TaskOf(w)) \notin doNotCall
    BY <1>2 DEF SilenceInv, NoneReservedSilent
  <2>3. ASSUME NEW v \in Workers, At(v, "closed")
        PROVE  OrgOfTask(TaskOf(v)) # OrgOfTask(TaskOf(w))
    <3>1. v # w /\ IsBusy(v) /\ IsBusy(w)
      BY <1>2, <2>3 DEF At, IsBusy
    <3>2. CallOf(v) # NoCall /\ CallOf(w) # NoCall
      BY <1>1, <1>2, <2>3, HeldCall DEF At, CallIds, NoCall
    <3>. QED
      BY <3>1, <3>2, HeldForOthers
  <2>. QED
    BY <1>1, <2>1, <2>2, <2>3, SuppressedBy
<1>3. CASE QuietStep
  BY <1>2, <1>3 DEF QuietStep, GoesOn, NoneReservedSilent, At, IsBusy
<1>4. ASSUME NEW w \in Workers, Reserve(w)
      PROVE  NoneReservedSilent'
  <2>1. /\ MayCall(TaskOf(w), workers[w].number) /\ OthersKept(w)
        /\ workers'[w].task = TaskOf(w) /\ doNotCall' = doNotCall
    BY <1>1, <1>4, ReserveEffect
  <2>2. OrgOfTask(TaskOf(w)) \notin doNotCall
    BY <2>1 DEF MayCall, Eligible
  <2>3. OrgOfTask(TaskOf(w))' \notin doNotCall'
    BY <2>1, <2>2 DEF OrgOfTask, TaskOf
  <2>4. ASSUME NEW v \in Workers, v # w, At(v, "reserved")'
        PROVE  OrgOfTask(TaskOf(v))' \notin doNotCall'
    <3>1. workers'[v] = workers[v]
      BY <2>1, <2>4 DEF OthersKept
    <3>. QED
      BY <1>2, <2>4, <3>1 DEF At, TaskOf
  <2>. QED
    BY <2>3, <2>4 DEF NoneReservedSilent
<1>5. ASSUME NEW w \in Workers, NEW t \in TaskIds, TakeTask(w, t)
      PROVE  NoneReservedSilent'
  <2>1. OthersKept(w) /\ ~At(w, "reserved")'
    BY <1>1, <1>5, TakeTaskEffect DEF At
  <2>. QED
    BY <1>2, <2>1 DEF NoneReservedSilent, OthersKept, At, TaskOf
<1>6. CASE Tick
  <2>1. UNCHANGED workers
    BY <1>6 DEF Tick, workerVars
  <2>. QED
    BY <1>2, <2>1 DEF NoneReservedSilent, At, TaskOf
<1>. QED
  BY <1>1, <1>3, <1>4, <1>5, <1>6, StepKinds

\* Every step keeps the invariant of the silence.
LEMMA SilenceNext == SilenceInv /\ [Next]_vars => SilenceInv'
  BY SpacingNext, TimeNext, ReservedSilentNext DEF SilenceInv, SpacingInv

\* A telephone starts to ring only for a worker that holds a reservation.
LEMMA RingsReserved ==
  ASSUME TypeInv, [Next]_vars, NEW c \in CallIds, line[c] = "idle", line'[c] = "ringing"
  PROVE  \E w \in Workers : At(w, "reserved") /\ CallOf(w) = c
<1>1. line' # line
  OBVIOUS
<1>2. ASSUME NEW w \in Workers, RunCall(w)
      PROVE  At(w, "reserved") /\ CallOf(w) = c
  <2>1. line' = [line EXCEPT ![CallOf(w)] = "ringing"] /\ At(w, "reserved")
    BY <1>2 DEF RunCall
  <2>. QED
    BY <2>1 DEF TypeInv, WorkflowTypeOK
<1>3. ASSUME NEW w \in Workers, WorkerStep(w) \/ Crash(w), ~RunCall(w)
      PROVE  UNCHANGED line
  BY <1>3 DEF WorkerStep, Crash, Refuse, Reserve, PlanFails, NoRunId, Attach, ReadCall,
              ObserveFails, Record, RecordFails, MarkFailed, Release
<1>4. ASSUME NEW d \in CallIds, HangUp(d)
      PROVE  line'[c] # "ringing"
  BY <1>4 DEF HangUp, TypeInv, WorkflowTypeOK
<1>5. ASSUME NEW w \in Workers, NEW t \in TaskIds, TakeTask(w, t)
      PROVE  UNCHANGED line
  BY <1>5 DEF TakeTask
<1>6. CASE \/ RequestVerification \/ Report \/ Refresh \/ RecordConsent \/ Import \/ Review \/ Tick
           \/ UNCHANGED vars
  BY <1>1, <1>6
     DEF RequestVerification, Report, Refresh, RecordConsent, Import, Review, Tick, vars,
         workerVars
<1>. QED
  BY <1>1, <1>2, <1>3, <1>4, <1>5, <1>6 DEF Next, WorkerStep

\* Once an organization asked not to be called, none of its telephones starts to
\* ring, although run_call does not look at do_not_call: whoever could suppress
\* it while a call is in preparation would be holding a call to it, too.
THEOREM Suppression == Spec => SuppressionHonoured
<1>1. ASSUME SilenceInv, [Next]_vars, NEW c \in CallIds, line[c] = "idle", line'[c] = "ringing"
      PROVE  OrgOfCall(c) \notin doNotCall
  <2>1. TypeInv
    BY <1>1 DEF SilenceInv, SpacingInv
  <2>2. PICK w \in Workers : At(w, "reserved") /\ CallOf(w) = c
    BY <1>1, <2>1, RingsReserved
  <2>3. OrgOfCall(c) = OrgOfTask(TaskOf(w))
    BY <1>1, <2>2 DEF SilenceInv, TimeInv, OwnCall, OrgOfCall, At, IsBusy, CallIds, NoCall
  <2>. QED
    BY <1>1, <2>2, <2>3 DEF SilenceInv, NoneReservedSilent
<1>2. SilenceInv /\ [Next]_vars =>
        [\A c \in CallIds :
           line[c] = "idle" /\ line'[c] = "ringing" => OrgOfCall(c) \notin doNotCall]_vars
  BY <1>1
<1>. QED
  BY <1>2, SilenceInit, SilenceNext, PTL DEF Spec, SuppressionHonoured

-----------------------------------------------------------------------------
\* The allowance.

\* Every call is charged to a consent that was recorded.
ChargedConsents == \A c \in CallIds : Placed(c) => Recorded(calls[c].consent)
AllowanceInv == TypeInv /\ ChargedConsents /\ AllowanceRespected

\* The calls charged to a consent can be counted.
LEMMA ChargedFinite ==
  \A k : IsFiniteSet(ChargedTo(k)) /\ Cardinality(ChargedTo(k)) \in Nat
<1>1. IsFiniteSet(CallIds)
  BY FS_Interval, LedgerAssumption DEF CallIds
<1>. QED
  BY <1>1, FS_Subset, FS_CardinalityType DEF ChargedTo

\* A reservation charges one consent of the called organization, which had a call
\* left, with the call it places.
LEMMA ReserveCharges ==
  ASSUME TypeInv, NEW w \in Workers, Reserve(w)
  PROVE  \E c \in CallIds, k \in ConsentIds :
           /\ ~Placed(c) /\ Placed(c)'
           /\ Recorded(k) /\ consents[k].org = OrgOfTask(TaskOf(w))
           /\ consents[k].placed < consents[k].terms.maxCalls
           /\ consents' = [consents EXCEPT ![k].placed = @ + 1]
           /\ calls' = [calls EXCEPT ![c] =
                [status |-> "reserved", task |-> TaskOf(w), consent |-> k, at |-> now,
                 destination |-> workers[w].number, attached |-> FALSE]]
<1>1. PICK c \in CallIds :
        IsNextCall(c) /\ ReserveCall(c, TaskOf(w), workers[w].number)
  BY DEF Reserve
<1>2. PICK k \in DOMAIN ConsentsOf(OrgOfTask(TaskOf(w))) :
        /\ IsFirstPermitting(ConsentsOf(OrgOfTask(TaskOf(w))), k, now)
        /\ consents' = [consents EXCEPT ![k].placed = @ + 1]
        /\ calls' = [calls EXCEPT ![c] =
             [status |-> "reserved", task |-> TaskOf(w), consent |-> k, at |-> now,
              destination |-> workers[w].number, attached |-> FALSE]]
  BY <1>1 DEF ReserveCall
<1>3. /\ k \in ConsentIds /\ Recorded(k) /\ consents[k].org = OrgOfTask(TaskOf(w))
      /\ ConsentsOf(OrgOfTask(TaskOf(w)))[k] = consents[k]
  BY DEF ConsentsOf
<1>4. consents[k].placed < consents[k].terms.maxCalls
  BY <1>2, <1>3 DEF IsFirstPermitting, ConsentPermits
<1>5. ~Placed(c) /\ Placed(c)'
  BY <1>1, <1>2 DEF IsNextCall, Placed, TypeInv, WorkflowTypeOK, LedgerTypeOK
<1>. QED
  BY <1>2, <1>3, <1>4, <1>5

\* A recorded consent's numbers.
LEMMA ConsentNumbers ==
  ASSUME TypeInv, NEW k \in ConsentIds, Recorded(k)
  PROVE  /\ consents[k] \in Consent /\ consents[k].placed \in Nat
         /\ consents[k].terms.maxCalls \in Nat /\ consents[k].org \in Organizations
  BY DEF TypeInv, WorkflowTypeOK, LedgerTypeOK, Recorded, Consent, Terms, NoRow

\* Only a reservation and a new consent move the consents.
LEMMA ConsentsMove ==
  ASSUME TypeInv, [Next]_vars
  PROVE  \/ UNCHANGED consents
         \/ \E w \in Workers : Reserve(w)
         \/ RecordConsent
<1>1. ASSUME NEW w \in Workers, WorkerStep(w) \/ Crash(w), ~Reserve(w)
      PROVE  UNCHANGED consents
  BY <1>1 DEF WorkerStep, Crash, Refuse, PlanFails, RunCall, NoRunId, Attach, AttachRun, ReadCall,
              UpdateCall, ObserveFails, Record, RecordCall, RecordFails, MarkFailed, Release,
              ledgerVars
<1>2. ASSUME NEW w \in Workers, NEW t \in TaskIds, TakeTask(w, t)
      PROVE  UNCHANGED consents
  BY <1>2 DEF TakeTask, ledgerVars
<1>3. CASE \/ \E c \in CallIds : HangUp(c)
           \/ RequestVerification \/ Report \/ Refresh \/ Import \/ Tick \/ UNCHANGED vars
  BY <1>3 DEF HangUp, RequestVerification, Report, Refresh, Import, ImportServices, Tick,
              vars, ledgerVars
<1>4. CASE Review
  BY <1>4 DEF Review, Approve, Reject, Edit, CorrectApplied, Acknowledge, Decide, ledgerVars
<1>. QED
  BY <1>1, <1>2, <1>3, <1>4 DEF Next, WorkerStep

\* What a new consent does to the others (create_consent).
LEMMA ConsentEffect ==
  ASSUME TypeInv, RecordConsent
  PROVE  \E k \in ConsentIds, org \in Organizations, terms \in ConsentTerms :
           /\ ~Recorded(k)
           /\ consents'[k] = [status |-> "active", org |-> org, terms |-> terms, placed |-> 0]
           /\ \A j \in ConsentIds : j # k =>
                /\ Recorded(j)' <=> Recorded(j)
                /\ Recorded(j) => /\ consents'[j].org = consents[j].org
                                  /\ consents'[j].terms = consents[j].terms
                                  /\ consents'[j].placed = consents[j].placed
<1>1. PICK k \in ConsentIds, org \in Organizations, terms \in ConsentTerms :
        CreateConsent(k, org, terms)
  BY DEF RecordConsent
<1>2. /\ ~Recorded(k)
      /\ consents'[k] = [status |-> "active", org |-> org, terms |-> terms, placed |-> 0]
  BY <1>1 DEF CreateConsent, IsNextConsent
<1>3. ASSUME NEW j \in ConsentIds, j # k
      PROVE  /\ Recorded(j)' <=> Recorded(j)
             /\ Recorded(j) => /\ consents'[j].org = consents[j].org
                               /\ consents'[j].terms = consents[j].terms
                               /\ consents'[j].placed = consents[j].placed
  <2>1. consents'[j] \in {consents[j], [consents[j] EXCEPT !.status = "withdrawn"]}
    BY <1>1, <1>3 DEF CreateConsent
  <2>2. CASE Recorded(j)
    <3>1. consents[j] \in Consent
      BY <2>2, ConsentNumbers
    <3>. QED
      BY <2>1, <2>2, <3>1 DEF Recorded, Consent
  <2>3. CASE ~Recorded(j)
    BY <1>1, <1>3, <2>3 DEF CreateConsent, Recorded
  <2>. QED
    BY <2>2, <2>3
<1>. QED
  BY <1>2, <1>3

\* Every step but a reservation keeps the calls.
LEMMA ElseCallsKept ==
  ASSUME TypeInv, [Next]_vars, \A w \in Workers : ~Reserve(w)
  PROVE  CallsKept
<1>1. (\E w \in Workers, t \in TaskIds : TakeTask(w, t)) => calls' = calls
  BY TakeTaskEffect
<1>2. Tick => calls' = calls
  BY DEF Tick, ledgerVars
<1>3. calls' = calls => CallsKept
  BY DEF CallsKept, Placed
<1>. QED
  BY <1>1, <1>2, <1>3, StepKinds DEF QuietStep

\* Calls that stay where they are stay charged to the same consents.
LEMMA KeptCharges ==
  ASSUME CallsKept
  PROVE  \A k : ChargedTo(k)' = ChargedTo(k)
  BY DEF CallsKept, ChargedTo, Placed

\* Every step keeps the invariant of the allowance.
LEMMA AllowanceNext == AllowanceInv /\ [Next]_vars => AllowanceInv'
<1>. SUFFICES ASSUME AllowanceInv, [Next]_vars PROVE AllowanceInv'
  OBVIOUS
<1>1. TypeInv /\ TypeInv'
  BY TypeNext DEF AllowanceInv
<1>2. CASE UNCHANGED consents /\ CallsKept
  <2>1. \A k \in ConsentIds : ChargedTo(k)' = ChargedTo(k) /\ (Recorded(k)' <=> Recorded(k))
    BY <1>2, KeptCharges DEF Recorded
  <2>2. AllowanceRespected'
    BY <1>2, <2>1 DEF AllowanceInv, AllowanceRespected
  <2>3. ChargedConsents'
    BY <1>2 DEF AllowanceInv, ChargedConsents, CallsKept, Placed, Recorded
  <2>. QED
    BY <1>1, <2>2, <2>3 DEF AllowanceInv
<1>3. CASE RecordConsent /\ CallsKept
  <2>1. PICK k \in ConsentIds, org \in Organizations, terms \in ConsentTerms :
          /\ ~Recorded(k)
          /\ consents'[k] = [status |-> "active", org |-> org, terms |-> terms, placed |-> 0]
          /\ \A j \in ConsentIds : j # k =>
               /\ Recorded(j)' <=> Recorded(j)
               /\ Recorded(j) => /\ consents'[j].org = consents[j].org
                                 /\ consents'[j].terms = consents[j].terms
                                 /\ consents'[j].placed = consents[j].placed
    BY <1>1, <1>3, ConsentEffect
  <2>2. \A j : ChargedTo(j)' = ChargedTo(j)
    BY <1>3, KeptCharges
  <2>3. ChargedTo(k) = {}
    BY <2>1 DEF ChargedTo, AllowanceInv, ChargedConsents
  <2>4. terms.maxCalls \in Nat
    BY LedgerAssumption DEF Terms
  <2>5. /\ consents'[k].placed = Cardinality(ChargedTo(k)')
        /\ consents'[k].placed <= consents'[k].terms.maxCalls
    BY <2>1, <2>2, <2>3, <2>4, FS_EmptySet
  <2>6. AllowanceRespected'
    BY <2>1, <2>2, <2>5 DEF AllowanceInv, AllowanceRespected
  <2>7. Recorded(k)'
    BY <2>1 DEF Recorded
  <2>8. \A c \in CallIds : Placed(c)' => Placed(c) /\ calls'[c].consent = calls[c].consent
    BY <1>3 DEF CallsKept, Placed
  <2>9. \A c \in CallIds : Placed(c) => calls[c].consent \in ConsentIds
    BY <1>1 DEF TypeInv, WorkflowTypeOK, LedgerTypeOK, Placed, NoRow, Call
  <2>10. \A j \in ConsentIds : Recorded(j) => Recorded(j)'
    BY <2>1, <2>7
  <2>11. ChargedConsents'
    BY <2>8, <2>9, <2>10 DEF AllowanceInv, ChargedConsents, Recorded
  <2>. QED
    BY <1>1, <2>6, <2>11 DEF AllowanceInv
<1>4. ASSUME NEW w \in Workers, Reserve(w)
      PROVE  AllowanceInv'
  <2>1. PICK c \in CallIds, k \in ConsentIds :
           /\ ~Placed(c) /\ Placed(c)'
           /\ Recorded(k) /\ consents[k].placed < consents[k].terms.maxCalls
           /\ consents' = [consents EXCEPT ![k].placed = @ + 1]
           /\ calls' = [calls EXCEPT ![c] =
                [status |-> "reserved", task |-> TaskOf(w), consent |-> k, at |-> now,
                 destination |-> workers[w].number, attached |-> FALSE]]
    BY <1>1, <1>4, ReserveCharges
  <2>2. /\ consents \in [ConsentIds -> Consent \cup {NoRow}]
        /\ calls \in [CallIds -> Call \cup {NoRow}]
    BY <1>1 DEF TypeInv, WorkflowTypeOK, LedgerTypeOK
  <2>3. calls'[c].consent = k /\ \A d \in CallIds : d # c => calls'[d] = calls[d]
    BY <2>1, <2>2
  <2>4. ChargedTo(k)' = ChargedTo(k) \cup {c} /\ c \notin ChargedTo(k)
    BY <2>1, <2>3 DEF ChargedTo, Placed
  <2>5. \A j \in ConsentIds : j # k => ChargedTo(j)' = ChargedTo(j)
    BY <2>1, <2>3 DEF ChargedTo, Placed
  <2>6. /\ consents'[k].placed = consents[k].placed + 1
        /\ consents'[k].terms = consents[k].terms /\ consents'[k].status = consents[k].status
        /\ \A j \in ConsentIds : j # k => consents'[j] = consents[j]
    BY <1>1, <2>1, <2>2, ConsentNumbers DEF Consent
  <2>7. consents[k].placed \in Nat /\ consents[k].terms.maxCalls \in Nat
    BY <1>1, <2>1, ConsentNumbers
  <2>8. consents'[k].placed <= consents'[k].terms.maxCalls
    BY <2>1, <2>6, <2>7
  <2>9. consents'[k].placed = Cardinality(ChargedTo(k)')
    <3>1. Cardinality(ChargedTo(k) \cup {c}) = Cardinality(ChargedTo(k)) + 1
      BY <2>4, ChargedFinite, FS_AddElement
    <3>2. consents[k].placed = Cardinality(ChargedTo(k))
      BY <2>1 DEF AllowanceInv, AllowanceRespected
    <3>. QED
      BY <2>4, <2>6, <3>1, <3>2
  <2>10. \A j \in ConsentIds : Recorded(j)' <=> Recorded(j)
    BY <2>6 DEF Recorded
  <2>11. AllowanceRespected'
    BY <2>5, <2>6, <2>8, <2>9, <2>10 DEF AllowanceInv, AllowanceRespected
  <2>12. ASSUME NEW d \in CallIds, Placed(d)'
         PROVE  Recorded(calls[d].consent)'
    <3>1. \A j \in ConsentIds : Recorded(j) => consents'[j].status # "unused"
      BY <2>10 DEF Recorded
    <3>2. calls'[d].consent \in ConsentIds /\ Recorded(calls'[d].consent)
      <4>1. CASE d = c
        BY <2>1, <2>3, <4>1
      <4>2. CASE d # c
        <5>1. Placed(d) /\ calls'[d] = calls[d]
          BY <2>3, <2>12, <4>2 DEF Placed
        <5>2. calls[d].consent \in ConsentIds
          BY <2>2, <5>1 DEF Placed, NoRow, Call
        <5>. QED
          BY <5>1, <5>2 DEF AllowanceInv, ChargedConsents
      <4>. QED
        BY <4>1, <4>2
    <3>. QED
      BY <3>1, <3>2 DEF Recorded
  <2>. QED
    BY <1>1, <2>11, <2>12 DEF AllowanceInv, ChargedConsents
<1>. QED
  BY <1>1, <1>2, <1>3, <1>4, ConsentsMove, ElseCallsKept

\* calls_placed counts exactly the calls charged to a consent and never passes its
\* allowance, for any number of workers racing for the last call (reserve_call).
THEOREM Allowance == Spec => []AllowanceRespected
<1>1. Init => AllowanceInv
  BY TypeInit
     DEF Init, LedgerInit, AllowanceInv, ChargedConsents, AllowanceRespected, Placed, Recorded,
         NoRow
<1>2. AllowanceInv => AllowanceRespected
  BY DEF AllowanceInv
<1>. QED
  BY <1>1, <1>2, AllowanceNext, PTL DEF Spec

-----------------------------------------------------------------------------
\* The telephone lines.

\* A line is idle until its call is run; only the worker that reserved it can.
LinesWait ==
  /\ \A c \in CallIds : ~Placed(c) => line[c] = "idle"
  /\ \A w \in Workers : At(w, "reserved") => line[CallOf(w)] = "idle"
PromiseInv == SilenceInv /\ AllowanceInv /\ LinesWait

\* Only run_call and the end of a telephone call move a line.
LEMMA LinesMove ==
  ASSUME TypeInv, [Next]_vars
  PROVE  \/ UNCHANGED line
         \/ \E w \in Workers : RunCall(w)
         \/ \E c \in CallIds : HangUp(c)
<1>1. ASSUME NEW w \in Workers, WorkerStep(w) \/ Crash(w), ~RunCall(w)
      PROVE  UNCHANGED line
  BY <1>1 DEF WorkerStep, Crash, Refuse, Reserve, PlanFails, NoRunId, Attach, ReadCall,
              ObserveFails, Record, RecordFails, MarkFailed, Release
<1>2. ASSUME NEW w \in Workers, NEW t \in TaskIds, TakeTask(w, t)
      PROVE  UNCHANGED line
  BY <1>2 DEF TakeTask
<1>3. CASE \/ RequestVerification \/ Report \/ Refresh \/ RecordConsent \/ Import \/ Review \/ Tick
           \/ UNCHANGED vars
  BY <1>3 DEF RequestVerification, Report, Refresh, RecordConsent, Import, Review, Tick, vars,
              workerVars
<1>. QED
  BY <1>1, <1>2, <1>3 DEF Next, WorkerStep

\* What run_call does to the lines.
LEMMA RunCallEffect ==
  ASSUME TypeInv, NEW w \in Workers, RunCall(w)
  PROVE  /\ At(w, "reserved") /\ CallOf(w) \in CallIds /\ Placed(CallOf(w))
         /\ line' = [line EXCEPT ![CallOf(w)] = "ringing"]
         /\ UNCHANGED <<now, consents, calls, doNotCall>>
         /\ OthersKept(w) /\ ~At(w, "reserved")'
<1>1. At(w, "reserved") /\ GoTo(w, "started") /\ IsBusy(w)
  BY DEF RunCall, At, IsBusy
<1>2. CallOf(w) \in CallIds /\ Placed(CallOf(w))
  BY <1>1, HeldCall DEF At
<1>3. OthersKept(w) /\ ~At(w, "reserved")'
  BY <1>1, GoToType DEF OthersKept, At, Stages
<1>. QED
  BY <1>1, <1>2, <1>3 DEF RunCall, ledgerVars

\* Every step leaves the lines of calls not yet run idle.
LEMMA LinesNext ==
  ASSUME PromiseInv, [Next]_vars
  PROVE  LinesWait'
<1>1. TypeInv /\ line \in [CallIds -> LinePhases]
  BY DEF PromiseInv, SilenceInv, SpacingInv, TypeInv, WorkflowTypeOK
<1>2. \A c \in CallIds : Placed(c) => Placed(c)'
  <2>1. CASE \A w \in Workers : ~Reserve(w)
    BY <1>1, <2>1, ElseCallsKept DEF CallsKept
  <2>2. ASSUME NEW w \in Workers, Reserve(w)
        PROVE  \A c \in CallIds : Placed(c) => Placed(c)'
    BY <1>1, <2>2, ReserveEffect DEF Placed
  <2>. QED
    BY <2>1, <2>2
<1>3. ASSUME NEW w \in Workers, RunCall(w)
      PROVE  LinesWait'
  <2>1. /\ At(w, "reserved") /\ CallOf(w) \in CallIds /\ Placed(CallOf(w))
        /\ line' = [line EXCEPT ![CallOf(w)] = "ringing"]
        /\ OthersKept(w) /\ ~At(w, "reserved")'
    BY <1>1, <1>3, RunCallEffect
  <2>2. ASSUME NEW v \in Workers, At(v, "reserved")'
        PROVE  At(v, "reserved") /\ CallOf(v)' = CallOf(v) /\ CallOf(v) # CallOf(w)
    <3>1. v # w
      BY <2>1, <2>2
    <3>2. workers'[v] = workers[v] /\ At(v, "reserved")
      BY <2>1, <2>2, <3>1 DEF OthersKept, At
    <3>3. CallOf(w) # NoCall
      BY <2>1 DEF CallIds, NoCall
    <3>. QED
      BY <2>1, <3>1, <3>2, <3>3
         DEF PromiseInv, SilenceInv, TimeInv, OneWorkerPerCall, At, IsBusy, CallOf
  <2>3. ASSUME NEW v \in Workers, At(v, "reserved")'
        PROVE  line'[CallOf(v)'] = "idle"
    <3>1. CallOf(v) \in CallIds /\ line[CallOf(v)] = "idle"
      BY <1>1, <2>2, <2>3, HeldCall DEF PromiseInv, LinesWait, At
    <3>. QED
      BY <1>1, <2>1, <2>2, <2>3, <3>1
  <2>4. ASSUME NEW c \in CallIds, ~Placed(c)'
        PROVE  line'[c] = "idle"
    BY <1>1, <1>2, <2>1, <2>4 DEF PromiseInv, LinesWait
  <2>. QED
    BY <2>3, <2>4 DEF LinesWait
<1>4. ASSUME NEW d \in CallIds, HangUp(d)
      PROVE  LinesWait'
  <2>1. /\ line[d] = "ringing" /\ line' = [line EXCEPT ![d] = "over"]
        /\ workers' = workers
    BY <1>4 DEF HangUp
  <2>2. ASSUME NEW v \in Workers, At(v, "reserved")'
        PROVE  line'[CallOf(v)'] = "idle"
    <3>1. CallOf(v)' = CallOf(v) /\ CallOf(v) \in CallIds /\ line[CallOf(v)] = "idle"
      BY <1>1, <2>1, <2>2, HeldCall DEF PromiseInv, LinesWait, At, CallOf
    <3>. QED
      BY <1>1, <2>1, <3>1
  <2>. QED
    BY <1>1, <1>2, <2>1, <2>2 DEF PromiseInv, LinesWait
<1>5. CASE UNCHANGED line
  <2>1. ASSUME NEW v \in Workers, At(v, "reserved")'
        PROVE  line[CallOf(v)'] = "idle"
    <3>1. CASE At(v, "reserved") /\ CallOf(v)' = CallOf(v)
      BY <3>1 DEF PromiseInv, LinesWait
    <3>2. CASE QuietStep
      BY <2>1, <3>1, <3>2 DEF QuietStep, GoesOn, At, IsBusy, CallOf
    <3>3. CASE Tick
      BY <2>1, <3>1, <3>3 DEF Tick, workerVars, At, CallOf
    <3>4. ASSUME NEW w \in Workers, NEW t \in TaskIds, TakeTask(w, t)
          PROVE  line[CallOf(v)'] = "idle"
      <4>1. OthersKept(w) /\ ~At(w, "reserved")'
        BY <1>1, <3>4, TakeTaskEffect DEF At
      <4>. QED
        BY <2>1, <3>1, <4>1 DEF OthersKept, At, CallOf
    <3>5. ASSUME NEW w \in Workers, Reserve(w)
          PROVE  line[CallOf(v)'] = "idle"
      <4>1. OthersKept(w) /\ \E c \in CallIds : ~Placed(c) /\ CallOf(w)' = c
        BY <1>1, <3>5, ReserveEffect DEF CallOf
      <4>2. CASE v = w
        BY <4>1, <4>2 DEF PromiseInv, LinesWait
      <4>3. CASE v # w
        BY <2>1, <3>1, <4>1, <4>3 DEF OthersKept, At, CallOf
      <4>. QED
        BY <4>2, <4>3
    <3>. QED
      BY <1>1, <3>2, <3>3, <3>4, <3>5, StepKinds
  <2>. QED
    BY <1>2, <1>5, <2>1 DEF PromiseInv, LinesWait
<1>. QED
  BY <1>1, <1>3, <1>4, <1>5, LinesMove

\* The invariant of the refinement holds at first,
LEMMA PromiseInvInit == Init => PromiseInv
<1>1. Init => AllowanceInv
  BY TypeInit
     DEF Init, LedgerInit, AllowanceInv, ChargedConsents, AllowanceRespected, Placed, Recorded,
         NoRow
<1>2. Init => LinesWait
  BY DEF Init, LinesWait, At, Idle
<1>. QED
  BY <1>1, <1>2, SilenceInit DEF PromiseInv

\* and every step keeps it.
LEMMA PromiseInvNext == PromiseInv /\ [Next]_vars => PromiseInv'
  BY SilenceNext, AllowanceNext, LinesNext DEF PromiseInv

-----------------------------------------------------------------------------
\* The refinement.

\* The mapped variables are functions, before and after a step.
LEMMA BarsAreFunctions ==
  /\ agreementsBar = [k \in ConsentIds |-> agreementsBar[k]]
  /\ agreementsBar' = [k \in ConsentIds |-> agreementsBar'[k]]
  /\ permitsBar = [c \in CallIds |-> permitsBar[c]]
  /\ permitsBar' = [c \in CallIds |-> permitsBar'[c]]
  BY DEF agreementsBar, permitsBar

\* A function that differs from another at one argument only.
LEMMA ChangedAt ==
  ASSUME NEW S, NEW f, NEW g, NEW k \in S, NEW v,
         f = [x \in S |-> f[x]], g = [x \in S |-> g[x]],
         g[k] = v, \A x \in S : x # k => g[x] = f[x]
  PROVE  g = [f EXCEPT ![k] = v]
  OBVIOUS

\* The abstract records, when one of their fields changes.
LEMMA AgreementIn ==
  ASSUME NEW org \in Organizations, NEW n \in Nat
  PROVE  [made |-> TRUE, org |-> org, left |-> n] \in Promise!Agreement
  BY DEF Promise!Agreement

\* An agreement with one call less.
LEMMA OneCallLess ==
  ASSUME NEW org, NEW n, NEW a, a = [made |-> TRUE, org |-> org, left |-> n]
  PROVE  [a EXCEPT !.left = @ - 1] = [made |-> TRUE, org |-> org, left |-> n - 1]
<1>. DEFINE b == [a EXCEPT !.left = @ - 1]
            c == [made |-> TRUE, org |-> org, left |-> n - 1]
            F == {"made", "org", "left"}
<1>1. DOMAIN b = F /\ DOMAIN c = F
  OBVIOUS
<1>2. b.made = TRUE /\ b.org = org /\ b.left = n - 1
  OBVIOUS
<1>3. c.made = TRUE /\ c.org = org /\ c.left = n - 1
  OBVIOUS
<1>4. b = [x \in DOMAIN b |-> b[x]] /\ c = [x \in DOMAIN c |-> c[x]]
  OBVIOUS
<1>. HIDE DEF b, c
<1>5. \A x \in F : b[x] = c[x]
  BY <1>2, <1>3
<1>. QED
  BY <1>1, <1>4, <1>5 DEF b, c

\* A permit whose ring goes on.
LEMMA RingMoves ==
  ASSUME NEW org, NEW at, NEW from, NEW to, NEW p,
         p = [paid |-> TRUE, org |-> org, at |-> at, ring |-> from]
  PROVE  [p EXCEPT !.ring = to] = [paid |-> TRUE, org |-> org, at |-> at, ring |-> to]
<1>. DEFINE b == [p EXCEPT !.ring = to]
            c == [paid |-> TRUE, org |-> org, at |-> at, ring |-> to]
            F == {"paid", "org", "at", "ring"}
<1>1. DOMAIN b = F /\ DOMAIN c = F
  OBVIOUS
<1>2. b.paid = TRUE /\ b.org = org /\ b.at = at /\ b.ring = to
  OBVIOUS
<1>3. c.paid = TRUE /\ c.org = org /\ c.at = at /\ c.ring = to
  OBVIOUS
<1>4. b = [x \in DOMAIN b |-> b[x]] /\ c = [x \in DOMAIN c |-> c[x]]
  OBVIOUS
<1>. HIDE DEF b, c
<1>5. \A x \in F : b[x] = c[x]
  BY <1>2, <1>3
<1>. QED
  BY <1>1, <1>4, <1>5 DEF b, c

\* The mapped variables stand still when the rows they are read from do.
LEMMA AgreementsStill ==
  ASSUME UNCHANGED consents
  PROVE  agreementsBar' = agreementsBar
  BY DEF agreementsBar, Recorded

\* The permits likewise.
LEMMA PermitsStill ==
  ASSUME CallsKept, UNCHANGED line
  PROVE  permitsBar' = permitsBar
<1>1. ASSUME NEW c \in CallIds
      PROVE  /\ Placed(c)' <=> Placed(c)
             /\ calls'[c].at = calls[c].at /\ OrgOfCall(c)' = OrgOfCall(c)
  BY DEF CallsKept, Placed, OrgOfCall, OrgOfTask, ServiceOf
<1>. QED
  BY <1>1 DEF permitsBar

\* The abstract permit of a call that was placed.
LEMMA PermitOf ==
  ASSUME NEW c \in CallIds
  PROVE  /\ Placed(c) => permitsBar[c] = [paid |-> TRUE, org |-> OrgOfCall(c),
                                          at |-> calls[c].at, ring |-> line[c]]
         /\ Promise!Paid(c) <=> Placed(c)
  BY DEF permitsBar, Promise!Paid

\* The initial states are initial states of the promise.
LEMMA PromiseInit == Init => Promise!Init
<1>. SUFFICES ASSUME Init PROVE Promise!Init
  OBVIOUS
<1>1. now \in Nat /\ doNotCall = {}
  BY WorkflowAssumption DEF Init, LedgerInit
<1>2. (\A k \in ConsentIds : ~Recorded(k)) /\ (\A c \in CallIds : ~Placed(c))
  BY DEF Init, LedgerInit, Recorded, Placed, NoRow
<1>. QED
  BY <1>1, <1>2
     DEF Promise!Init, agreementsBar, permitsBar, Promise!None, Promise!Unpaid

\* A reservation pays for a call.
LEMMA ReservePays ==
  ASSUME PromiseInv, NEW w \in Workers, Reserve(w)
  PROVE  \E c \in CallIds, k \in ConsentIds : Promise!Pay(c, k)
<1>1. TypeInv /\ SpacingInv /\ LinesWait
  BY DEF PromiseInv, SilenceInv, SpacingInv
<1>2. PICK c \in CallIds, k \in ConsentIds :
        /\ ~Placed(c) /\ Placed(c)'
        /\ Recorded(k) /\ consents[k].org = OrgOfTask(TaskOf(w))
        /\ consents[k].placed < consents[k].terms.maxCalls
        /\ consents' = [consents EXCEPT ![k].placed = @ + 1]
        /\ calls' = [calls EXCEPT ![c] =
             [status |-> "reserved", task |-> TaskOf(w), consent |-> k, at |-> now,
              destination |-> workers[w].number, attached |-> FALSE]]
  BY <1>1, ReserveCharges
<1>. DEFINE org == OrgOfTask(TaskOf(w))
<1>3. /\ MayCall(TaskOf(w), workers[w].number) /\ org \notin doNotCall
      /\ TaskOf(w) \in TaskIds
      /\ UNCHANGED <<now, doNotCall, line>>
  BY <1>1, ReserveEffect, BusyType DEF MayCall, Eligible, At, IsBusy
<1>4. /\ consents[k].placed \in Nat /\ consents[k].terms.maxCalls \in Nat
      /\ consents[k] \in Consent
  BY <1>1, <1>2, ConsentNumbers
<1>5. agreementsBar[k] = [made |-> TRUE, org |-> org,
                          left |-> consents[k].terms.maxCalls - consents[k].placed]
  BY <1>2 DEF agreementsBar
<1>6. agreementsBar[k].left > 0
  BY <1>2, <1>4, <1>5
<1>7. \A d \in CallIds : Promise!Paid(d) /\ permitsBar[d].org = org =>
        permitsBar[d].at + MinimumInterval <= now
  <2>1. ASSUME NEW d \in CallIds, Placed(d), OrgOfCall(d) = org
        PROVE  calls[d].at + MinimumInterval <= now
    BY <1>1, <1>3, <2>1, ReservedApart
  <2>. QED
    <3>1. ASSUME NEW d \in CallIds, Promise!Paid(d), permitsBar[d].org = org
          PROVE  permitsBar[d].at + MinimumInterval <= now
      <4>1. Placed(d) /\ permitsBar[d].org = OrgOfCall(d) /\ permitsBar[d].at = calls[d].at
        <5>1. Placed(d)
          BY <3>1, PermitOf
        <5>2. permitsBar[d] = [paid |-> TRUE, org |-> OrgOfCall(d), at |-> calls[d].at,
                               ring |-> line[d]]
          BY <5>1, PermitOf
        <5>. QED
          BY <5>1, <5>2
      <4>. QED
        BY <2>1, <3>1, <4>1
    <3>. QED
      BY <3>1
<1>8. agreementsBar' = [agreementsBar EXCEPT ![k].left = @ - 1]
  <2>1. /\ consents'[k].placed = consents[k].placed + 1 /\ consents'[k].org = consents[k].org
        /\ consents'[k].terms = consents[k].terms /\ consents'[k].status = consents[k].status
        /\ \A j \in ConsentIds : j # k => consents'[j] = consents[j]
    BY <1>1, <1>2, <1>4 DEF TypeInv, WorkflowTypeOK, LedgerTypeOK, Consent
  <2>2. \A j \in ConsentIds : j # k => agreementsBar'[j] = agreementsBar[j]
    BY <2>1 DEF agreementsBar, Recorded
  <2>3. agreementsBar'[k] = [made |-> TRUE, org |-> org,
                             left |-> consents[k].terms.maxCalls - (consents[k].placed + 1)]
    BY <1>2, <2>1 DEF agreementsBar, Recorded
  <2>4. agreementsBar'[k] = [agreementsBar[k] EXCEPT !.left = @ - 1]
    <3>1. consents[k].terms.maxCalls - (consents[k].placed + 1)
            = (consents[k].terms.maxCalls - consents[k].placed) - 1
      BY <1>4
    <3>. QED
      BY <1>5, <2>3, <3>1, OneCallLess
  <2>. QED
    BY <2>2, <2>4, BarsAreFunctions, ChangedAt
<1>9. permitsBar' = [permitsBar EXCEPT ![c] =
                       [paid |-> TRUE, org |-> org, at |-> now, ring |-> "idle"]]
  <2>1. /\ calls'[c].at = now /\ calls'[c].task = TaskOf(w)
        /\ \A d \in CallIds : d # c => calls'[d] = calls[d]
    BY <1>1, <1>2 DEF TypeInv, WorkflowTypeOK, LedgerTypeOK
  <2>2. \A d \in CallIds : d # c => permitsBar'[d] = permitsBar[d]
    BY <1>3, <2>1 DEF permitsBar, Placed, OrgOfCall, OrgOfTask, ServiceOf
  <2>3. permitsBar'[c] = [paid |-> TRUE, org |-> org, at |-> now, ring |-> "idle"]
    BY <1>1, <1>2, <1>3, <2>1 DEF permitsBar, OrgOfCall, OrgOfTask, ServiceOf, LinesWait
  <2>. QED
    BY <2>2, <2>3, BarsAreFunctions, ChangedAt
<1>10. ~Promise!Paid(c)
  BY <1>2, PermitOf
<1>11. Promise!Pay(c, k)
  BY <1>3, <1>5, <1>6, <1>7, <1>8, <1>9, <1>10 DEF Promise!Pay
<1>. QED
  BY <1>11

\* A new consent is an agreement.
LEMMA ConsentAgrees ==
  ASSUME PromiseInv, PromiseInv', RecordConsent
  PROVE  \E k \in ConsentIds : Promise!Agree(k)
<1>1. TypeInv /\ TypeInv'
  BY DEF PromiseInv, AllowanceInv
<1>2. PICK k \in ConsentIds, org \in Organizations, terms \in ConsentTerms :
        /\ ~Recorded(k)
        /\ consents'[k] = [status |-> "active", org |-> org, terms |-> terms, placed |-> 0]
        /\ \A j \in ConsentIds : j # k =>
             /\ Recorded(j)' <=> Recorded(j)
             /\ Recorded(j) => /\ consents'[j].org = consents[j].org
                               /\ consents'[j].terms = consents[j].terms
                               /\ consents'[j].placed = consents[j].placed
  BY <1>1, ConsentEffect
<1>3. terms.maxCalls \in Nat /\ terms.maxCalls > 0
  BY LedgerAssumption DEF Terms
<1>4. agreementsBar[k] = Promise!None
  BY <1>2 DEF agreementsBar, Promise!None
<1>5. agreementsBar'[k] = [made |-> TRUE, org |-> org, left |-> terms.maxCalls]
  <2>1. Recorded(k)' /\ consents'[k].org = org /\ consents'[k].terms = terms
        /\ consents'[k].placed = 0
    BY <1>2 DEF Recorded
  <2>2. terms.maxCalls - 0 = terms.maxCalls
    BY <1>3
  <2>. QED
    BY <2>1, <2>2 DEF agreementsBar
<1>6. \A j \in ConsentIds \ {k} : agreementsBar'[j] = agreementsBar[j]
  <2>1. ASSUME NEW j \in ConsentIds, j # k
        PROVE  agreementsBar'[j] = agreementsBar[j]
    <3>1. CASE Recorded(j)
      BY <1>2, <2>1, <3>1 DEF agreementsBar
    <3>2. CASE ~Recorded(j)
      BY <1>2, <2>1, <3>2 DEF agreementsBar
    <3>. QED
      BY <3>1, <3>2
  <2>. QED
    BY <2>1
<1>7. agreementsBar' \in [ConsentIds -> {Promise!None} \cup Promise!Agreement]
  <2>1. ASSUME NEW j \in ConsentIds
        PROVE  agreementsBar'[j] \in {Promise!None} \cup Promise!Agreement
    <3>1. CASE j = k
      BY <1>3, <1>5, <3>1, AgreementIn
    <3>2. CASE j # k /\ Recorded(j)
      <4>1. /\ consents[j].placed \in Nat /\ consents[j].terms.maxCalls \in Nat
            /\ consents[j].org \in Organizations
            /\ consents[j].placed <= consents[j].terms.maxCalls
        BY <1>1, <3>2, ConsentNumbers DEF PromiseInv, AllowanceInv, AllowanceRespected
      <4>2. consents[j].terms.maxCalls - consents[j].placed \in Nat
        BY <4>1
      <4>3. agreementsBar[j] = [made |-> TRUE, org |-> consents[j].org,
                                left |-> consents[j].terms.maxCalls - consents[j].placed]
        BY <3>2 DEF agreementsBar
      <4>. QED
        BY <1>6, <3>2, <4>1, <4>2, <4>3, AgreementIn
    <3>3. CASE j # k /\ ~Recorded(j)
      BY <1>6, <3>3 DEF agreementsBar, Promise!None
    <3>. QED
      BY <3>1, <3>2, <3>3
  <2>. QED
    BY <2>1, BarsAreFunctions
<1>8. UNCHANGED <<now, permitsBar, doNotCall>>
  <2>1. CallsKept /\ UNCHANGED <<now, line, doNotCall>>
    BY <1>1, OutsideQuiet DEF RecordConsent, QuietStep, workerVars, CreateConsent
  <2>. QED
    BY <2>1, PermitsStill
<1>9. Promise!Agree(k)
  BY <1>3, <1>4, <1>5, <1>6, <1>7, <1>8 DEF Promise!Agree
<1>. QED
  BY <1>9

\* run_call is the ring, and the end of the call its end.
LEMMA RunCallRings ==
  ASSUME PromiseInv, [Next]_vars, NEW w \in Workers, RunCall(w)
  PROVE  \E c \in CallIds : Promise!Ring(c)
<1>1. TypeInv /\ line \in [CallIds -> LinePhases]
  BY DEF PromiseInv, AllowanceInv, TypeInv, WorkflowTypeOK
<1>2. PICK c \in CallIds :
        /\ c = CallOf(w) /\ At(w, "reserved") /\ Placed(c)
        /\ line' = [line EXCEPT ![c] = "ringing"]
        /\ UNCHANGED <<now, consents, calls, doNotCall>>
  BY <1>1, RunCallEffect
<1>3. line[c] = "idle" /\ OrgOfCall(c) \notin doNotCall
  <2>1. line[c] = "idle"
    BY <1>2 DEF PromiseInv, LinesWait
  <2>2. OrgOfCall(c) = OrgOfTask(TaskOf(w))
    BY <1>2 DEF PromiseInv, SilenceInv, TimeInv, OwnCall, OrgOfCall, At, IsBusy, CallIds, NoCall
  <2>. QED
    BY <1>2, <2>1, <2>2 DEF PromiseInv, SilenceInv, NoneReservedSilent
<1>4. permitsBar[c] = [paid |-> TRUE, org |-> OrgOfCall(c), at |-> calls[c].at, ring |-> "idle"]
  BY <1>2, <1>3, PermitOf
<1>5. permitsBar' = [permitsBar EXCEPT ![c].ring = "ringing"]
  <2>1. \A d \in CallIds : d # c => permitsBar'[d] = permitsBar[d]
    BY <1>1, <1>2 DEF permitsBar, Placed, OrgOfCall, OrgOfTask, ServiceOf
  <2>2. permitsBar'[c] = [paid |-> TRUE, org |-> OrgOfCall(c), at |-> calls[c].at,
                          ring |-> "ringing"]
    BY <1>1, <1>2 DEF permitsBar, Placed, OrgOfCall, OrgOfTask, ServiceOf
  <2>3. permitsBar'[c] = [permitsBar[c] EXCEPT !.ring = "ringing"]
    BY <1>4, <2>2, RingMoves
  <2>. QED
    BY <2>1, <2>3, BarsAreFunctions, ChangedAt
<1>6. Promise!Ring(c)
  BY <1>2, <1>3, <1>4, <1>5, PermitOf, AgreementsStill DEF Promise!Ring
<1>. QED
  BY <1>6

\* The end of a telephone call is the end of the ring.
LEMMA HangUpEnds ==
  ASSUME PromiseInv, NEW c \in CallIds, HangUp(c)
  PROVE  Promise!End(c)
<1>1. line \in [CallIds -> LinePhases]
  BY DEF PromiseInv, AllowanceInv, TypeInv, WorkflowTypeOK
<1>2. /\ line[c] = "ringing" /\ line' = [line EXCEPT ![c] = "over"]
      /\ UNCHANGED <<now, consents, calls, doNotCall>>
  BY DEF HangUp, ledgerVars
<1>3. Placed(c)
  BY <1>2 DEF PromiseInv, LinesWait
<1>4. permitsBar[c] = [paid |-> TRUE, org |-> OrgOfCall(c), at |-> calls[c].at,
                       ring |-> "ringing"]
  BY <1>2, <1>3, PermitOf
<1>5. permitsBar' = [permitsBar EXCEPT ![c].ring = "over"]
  <2>1. \A d \in CallIds : d # c => permitsBar'[d] = permitsBar[d]
    BY <1>1, <1>2 DEF permitsBar, Placed, OrgOfCall, OrgOfTask, ServiceOf
  <2>2. permitsBar'[c] = [paid |-> TRUE, org |-> OrgOfCall(c), at |-> calls[c].at,
                          ring |-> "over"]
    BY <1>1, <1>2, <1>3 DEF permitsBar, Placed, OrgOfCall, OrgOfTask, ServiceOf
  <2>3. permitsBar'[c] = [permitsBar[c] EXCEPT !.ring = "over"]
    BY <1>4, <2>2, RingMoves
  <2>. QED
    BY <2>1, <2>3, BarsAreFunctions, ChangedAt
<1>. QED
  BY <1>2, <1>3, <1>4, <1>5, PermitOf, AgreementsStill DEF Promise!End

\* Every step is a step of the promise, or none.
LEMMA PromiseStep ==
  ASSUME PromiseInv, PromiseInv', [Next]_vars
  PROVE  Promise!Next \/ UNCHANGED Promise!abstractVars
<1>1. TypeInv
  BY DEF PromiseInv, AllowanceInv
<1>2. ASSUME NEW w \in Workers, Reserve(w)
      PROVE  Promise!Next
  BY <1>2, ReservePays DEF Promise!Next
<1>3. CASE RecordConsent
  BY <1>3, ConsentAgrees DEF Promise!Next
<1>4. ASSUME NEW w \in Workers, RunCall(w)
      PROVE  Promise!Next
  BY <1>4, RunCallRings DEF Promise!Next
<1>5. ASSUME NEW c \in CallIds, HangUp(c)
      PROVE  Promise!Next
  BY <1>5, HangUpEnds DEF Promise!Next
<1>6. CASE UNCHANGED <<consents, line>> /\ \A w \in Workers : ~Reserve(w)
  <2>1. UNCHANGED <<agreementsBar, permitsBar>>
    BY <1>1, <1>6, ElseCallsKept, AgreementsStill, PermitsStill
  <2>2. CASE Tick
    <3>1. now' > now /\ UNCHANGED doNotCall
      BY <2>2 DEF Tick, ledgerVars
    <3>2. Promise!Pass
      BY <2>1, <3>1 DEF Promise!Pass
    <3>. QED
      BY <3>2 DEF Promise!Next
  <2>3. CASE now' = now /\ doNotCall' = doNotCall
    BY <2>1, <2>3 DEF Promise!abstractVars
  <2>4. ASSUME NEW w \in Workers, Record(w), now' = now,
               doNotCall' = doNotCall \cup {OrgOfTask(TaskOf(w))}
        PROVE  Promise!Next
    <3>1. TaskOf(w) \in TaskIds
      BY <1>1, <2>4, BusyType DEF Record, At, IsBusy
    <3>2. OrgOfTask(TaskOf(w)) \in Organizations
      BY <3>1 DEF OrgOfTask, TaskIds
    <3>3. Promise!Silence(OrgOfTask(TaskOf(w)))
      BY <2>1, <2>4 DEF Promise!Silence
    <3>. QED
      BY <3>2, <3>3 DEF Promise!Next
  <2>5. Tick \/ now' = now
    BY <1>1, <1>6, StepKinds, TakeTaskEffect DEF QuietStep
  <2>. QED
    BY <1>1, <2>2, <2>3, <2>4, <2>5, SuppressedBy
<1>. QED
  BY <1>1, <1>2, <1>3, <1>4, <1>5, <1>6, ConsentsMove, LinesMove

\* The workflow implements ConsentedCalling.
THEOREM Refinement == Spec => PromiseKept
<1>1. PromiseInv /\ PromiseInv' /\ [Next]_vars => [Promise!Next]_(Promise!abstractVars)
  BY PromiseStep
<1>. QED
  BY <1>1, PromiseInit, PromiseInvInit, PromiseInvNext, PTL
     DEF Spec, PromiseKept, Promise!Spec

-----------------------------------------------------------------------------
\* The review desk.

\* A worker that holds a call has not recorded it yet,
Unread == \A w \in Workers : IsBusy(w) /\ CallOf(w) # NoCall => ~HasRun(CallOf(w))
\* and its contract asks about nothing its task does not want verified.
AskedKept == \A w \in Workers : IsBusy(w) => workers[w].asked \subseteq tasks[TaskOf(w)].fields
\* A run stays open while anything in it is to be decided,
OpenRuns == \A c \in CallIds : Undecided(c) => runs[c].status = "needs_review"
\* and one that reached somebody is its task's last: the task wants no less verified
\* than the run asked about, so a review that finds the task covered finds the run
\* covered.
RunsCovered ==
  \A c \in CallIds : Undecided(c) /\ runs[c].outcome \in ContactOutcomes =>
    /\ tasks[calls[c].task].status \in {"needs_review", "completed"}
    /\ runs[c].asked \subseteq tasks[calls[c].task].fields

HeldInv == OneWorkerInv /\ TimeInv /\ Unread /\ AskedKept
DeskInv == HeldInv /\ OpenRuns /\ RunsCovered /\ NoStrandedReview

\* A run that exists was made of a call for a task.
LEMMA RunOfCall ==
  ASSUME TypeInv, NEW c \in CallIds, HasRun(c) \/ Undecided(c)
  PROVE  /\ HasRun(c) /\ Placed(c) /\ runs[c] \in Run
         /\ calls[c] \in Call /\ calls[c].task \in TaskIds /\ ServiceOfCall(c) \in Services
<1>1. HasRun(c) /\ Placed(c)
  BY DEF TypeInv, RunsHaveCalls, Undecided, Pending, NoProposal
<1>2. runs[c] \in Run /\ calls[c] \in Call
  BY <1>1 DEF TypeInv, WorkflowTypeOK, DeskTypeOK, LedgerTypeOK, HasRun, Placed, NoRow
<1>. QED
  BY <1>1, <1>2 DEF Call, ServiceOfCall, ServiceOf, TaskIds

\* What recording a call writes.
LEMMA RecordEffect ==
  ASSUME TypeInv, TimeInv, Unread, NEW w \in Workers, Record(w)
  PROVE  \E c \in CallIds, e \in ReadEvidence(workers[w].asked) :
           /\ IsBusy(w) /\ ~IsBusy(w)' /\ OthersKept(w)
           /\ CallOf(w) = c /\ calls[c].task = TaskOf(w) /\ TaskOf(w) \in TaskIds
           /\ Placed(c) /\ ~HasRun(c) /\ UNCHANGED calls
           /\ Read(e) /\ RecordCall(w, e)
           /\ runs'[c] =
                [status |-> IF NeedsAPerson(Classify(e, workers[w].asked))
                            THEN "needs_review" ELSE "completed",
                 outcome |-> e.outcome, tier |-> Overall(Classify(e, workers[w].asked)),
                 asked |-> workers[w].asked, covered |-> Covered(e)]
           /\ proposals'[c] = ProposalsOf(e, Classify(e, workers[w].asked))
           /\ flags'[c] = FlagsOf(Classify(e, workers[w].asked))
           /\ \A d \in CallIds : d # c => /\ runs'[d] = runs[d] /\ flags'[d] = flags[d]
                                         /\ proposals'[d] = proposals[d]
<1>1. IsBusy(w) /\ BecomeIdle(w) /\ At(w, "closed")
  BY DEF Record, At, IsBusy
<1>2. PICK e \in ReadEvidence(workers[w].asked) : RecordCall(w, e)
  BY DEF Record
<1>3. ~IsBusy(w)' /\ OthersKept(w)
  BY <1>1, BecomeIdleType DEF OthersKept
<1>4. CallOf(w) \in CallIds /\ Placed(CallOf(w)) /\ CallOf(w) # NoCall
  BY <1>1, HeldCall DEF At, CallIds, NoCall
<1>5. calls[CallOf(w)].task = TaskOf(w) /\ ~HasRun(CallOf(w)) /\ TaskOf(w) \in TaskIds
  BY <1>1, <1>4, BusyType DEF TimeInv, OwnCall, Unread
<1>6. Read(e)
  BY <1>1, <1>2, BusyType, ReadBy
<1>. DEFINE c == CallOf(w)
            ds == Classify(e, workers[w].asked)
<1>7. WriteRun(c, ServiceOf(TaskOf(w)), workers[w].asked, e, ds) /\ UNCHANGED calls
  BY <1>2 DEF RecordCall
<1>8. /\ runs \in [CallIds -> Run \cup {NoRow}] /\ flags \in [CallIds -> SUBSET Causes]
      /\ proposals \in [CallIds -> [Fields -> Proposal \cup {NoProposal}]]
  BY DEF TypeInv, WorkflowTypeOK, DeskTypeOK
<1>. HIDE DEF ds, c
<1>9. /\ runs'[c] =
           [status |-> IF NeedsAPerson(ds) THEN "needs_review" ELSE "completed",
            outcome |-> e.outcome, tier |-> Overall(ds),
            asked |-> workers[w].asked, covered |-> Covered(e)]
      /\ proposals'[c] = ProposalsOf(e, ds) /\ flags'[c] = FlagsOf(ds)
      /\ \A d \in CallIds : d # c => /\ runs'[d] = runs[d] /\ flags'[d] = flags[d]
                                    /\ proposals'[d] = proposals[d]
  BY <1>4, <1>7, <1>8 DEF WriteRun, c
<1>. QED
  BY <1>1, <1>2, <1>3, <1>4, <1>5, <1>6, <1>7, <1>9 DEF c, ds

\* What a decision that closes the run of call c does.
Closes(c) ==
  LET s == ServiceOfCall(c)
  IN  /\ ~Undecided(c)' /\ runs' = [runs EXCEPT ![c].status = "completed"]
      /\ CompleteTask(calls[c].task)
      /\ \/ UNCHANGED <<assured, reports>>
         \/ /\ \A f \in Fields : proposals'[c][f].status # "rejected"
            /\ runs[c].outcome = "completed"
            /\ tasks[calls[c].task].fields \subseteq runs[c].covered
            /\ \A r \in Services : r # s => assured'[r] = assured[r] /\ reports'[r] = reports[r]

\* A curator decides something of one run, and closes it or leaves it open.
LEMMA ReviewEffect ==
  ASSUME TypeInv, Review
  PROVE  \E c \in CallIds :
           /\ HasRun(c) /\ UNCHANGED calls
           /\ \A d \in CallIds : d # c => proposals'[d] = proposals[d] /\ flags'[d] = flags[d]
           /\ \/ /\ UNCHANGED <<runs, tasks, assured, reports>>
                 /\ Undecided(c)' <=> Undecided(c)
              \/ Undecided(c) /\ Closes(c)
<1>1. PICK c \in CallIds :
        \/ \E f \in Fields : Approve(c, f) \/ Reject(c, f)
        \/ \E f \in Fields, v \in Values : Edit(c, f, v) \/ CorrectApplied(c, f, v)
        \/ \E cause \in Causes : Acknowledge(c, cause)
  BY DEF Review
<1>2. /\ proposals \in [CallIds -> [Fields -> Proposal \cup {NoProposal}]]
      /\ flags \in [CallIds -> SUBSET Causes]
      /\ reports \in [Services -> SUBSET Reasons] /\ assured \in [Services -> Nat]
  BY DEF TypeInv, WorkflowTypeOK, DeskTypeOK, QueueTypeOK
<1>3. UNCHANGED calls
  BY <1>1 DEF Approve, Reject, Edit, CorrectApplied, Acknowledge, Decide, ledgerVars
<1>4. \A d \in CallIds : d # c => proposals'[d] = proposals[d] /\ flags'[d] = flags[d]
  BY <1>1, <1>2 DEF Approve, Reject, Edit, CorrectApplied, Acknowledge, Decide
<1>5. ASSUME Undecided(c), FinishReview(c, proposals'[c], flags'[c])
      PROVE  \/ UNCHANGED <<runs, tasks, assured, reports>> /\ Undecided(c)'
             \/ Closes(c)
  <2>1. Undecided(c)' <=> flags'[c] # {} \/ \E f \in Fields : proposals'[c][f].status = "pending"
    BY DEF Undecided, Pending
  <2>2. CASE Undecided(c)'
    BY <1>5, <2>1, <2>2 DEF FinishReview, queueVars
  <2>3. CASE ~Undecided(c)'
    <3>1. /\ runs' = [runs EXCEPT ![c].status = "completed"]
          /\ CompleteTask(calls[c].task)
          /\ IF EarnsAssurance(c, tasks[calls[c].task].fields,
                               \E f \in Fields : proposals'[c][f].status = "rejected")
             THEN /\ assured' = [assured EXCEPT ![ServiceOfCall(c)] = Day(now)]
                  /\ ResolveReports(ServiceOfCall(c))
             ELSE UNCHANGED <<assured, reports>>
      BY <1>5, <2>1, <2>3 DEF FinishReview, ServiceOfCall
    <3>. QED
      BY <1>2, <2>3, <3>1 DEF Closes, EarnsAssurance, ResolveReports
  <2>. QED
    BY <2>2, <2>3
<1>6. CASE \E f \in Fields, v \in Values : CorrectApplied(c, f, v)
  <2>1. PICK f \in Fields, v \in Values : CorrectApplied(c, f, v)
    BY <1>6
  <2>2. /\ proposals[c][f].status = "applied" /\ proposals'[c][f].status = "edited"
        /\ \A g \in Fields : g # f => proposals'[c][g] = proposals[c][g]
    BY <1>2, <2>1 DEF CorrectApplied
  <2>3. UNCHANGED <<runs, tasks, assured, reports, flags>>
    BY <2>1 DEF CorrectApplied, queueVars
  <2>4. HasRun(c)
    BY <2>2 DEF TypeInv, RunsHaveCalls, NoProposal
  <2>5. Pending(c)' = Pending(c)
    BY <2>2 DEF Pending
  <2>. QED
    BY <1>3, <1>4, <2>3, <2>4, <2>5 DEF Undecided
<1>7. ASSUME NEW f \in Pending(c), NEW status, NEW v, Decide(c, f, status, v)
      PROVE  Undecided(c) /\ FinishReview(c, proposals'[c], flags'[c])
  BY <1>2, <1>7 DEF Decide, Undecided
<1>8. ASSUME \/ \E f \in Fields : Approve(c, f) \/ Reject(c, f)
             \/ \E f \in Fields, v \in Values : Edit(c, f, v)
      PROVE  Undecided(c) /\ FinishReview(c, proposals'[c], flags'[c])
  <2>1. PICK f \in Pending(c) : \E status, v : Decide(c, f, status, v)
    BY <1>8 DEF Approve, Reject, Edit
  <2>. QED
    BY <1>7, <2>1
<1>9. ASSUME NEW cause, Acknowledge(c, cause)
      PROVE  Undecided(c) /\ FinishReview(c, proposals'[c], flags'[c])
  BY <1>2, <1>9 DEF Acknowledge, Undecided
<1>10. CASE Undecided(c) /\ FinishReview(c, proposals'[c], flags'[c])
  <2>1. HasRun(c)
    BY <1>10, RunOfCall
  <2>. QED
    BY <1>3, <1>4, <1>5, <1>10, <2>1
<1>. QED
  BY <1>1, <1>6, <1>8, <1>9, <1>10

\* A run appears only when its worker records it.
LEMMA RunAppears ==
  ASSUME TypeInv, TimeInv, Unread, [Next]_vars, NEW c \in CallIds, HasRun(c)', ~HasRun(c)
  PROVE  \E w \in Workers : Record(w) /\ CallOf(w) = c
<1>1. CASE \E w \in Workers : Record(w)
  BY <1>1, RecordEffect DEF HasRun
<1>2. CASE Review
  <2>1. PICK d \in CallIds : HasRun(d) /\ (runs' = runs \/ runs' = [runs EXCEPT ![d].status = "completed"])
    BY <1>2, ReviewEffect DEF Closes
  <2>2. runs'[c] = runs[c]
    BY <2>1 DEF HasRun, TypeInv, WorkflowTypeOK, DeskTypeOK
  <2>. QED
    BY <2>2 DEF HasRun
<1>3. CASE ~Review /\ \A w \in Workers : ~Record(w)
  BY <1>3, DeskKept DEF HasRun
<1>. QED
  BY <1>1, <1>2, <1>3

\* A worker that goes on has as much to ask about, and of its task, as before.
LEMMA StillHolds ==
  ASSUME HeldInv, [Next]_vars, NEW v \in Workers, IsBusy(v), IsBusy(v)',
         TaskOf(v)' = TaskOf(v), CallOf(v)' = CallOf(v), workers'[v].asked = workers[v].asked
  PROVE  /\ CallOf(v)' # NoCall => ~HasRun(CallOf(v))'
         /\ workers'[v].asked \subseteq tasks'[TaskOf(v)'].fields
<1>1. TypeInv /\ TimeInv /\ Unread
  BY DEF HeldInv, OneWorkerInv
<1>2. ASSUME CallOf(v) # NoCall, HasRun(CallOf(v))'
      PROVE  FALSE
  <2>1. CallOf(v) \in CallIds /\ ~HasRun(CallOf(v))
    BY <1>1, <1>2 DEF TypeInv, WorkersHoldCalls, Unread
  <2>2. PICK w \in Workers : Record(w) /\ CallOf(w) = CallOf(v)
    BY <1>1, <1>2, <2>1, RunAppears DEF HasRun, CallOf
  <2>3. w # v /\ IsBusy(w)
    BY <1>1, <2>2, RecordEffect
  <2>. QED
    BY <1>1, <1>2, <2>2, <2>3 DEF TimeInv, OneWorkerPerCall
<1>3. workers[v].asked \subseteq tasks[TaskOf(v)].fields
  BY DEF HeldInv, AskedKept
<1>4. TaskOf(v) \in TaskIds /\ tasks[TaskOf(v)].status \in {"in_progress", "completed"}
  BY <1>1, BusyType DEF HeldInv, OneWorkerInv, TasksHeld
<1>5. tasks[TaskOf(v)].fields \subseteq tasks'[TaskOf(v)].fields
  BY <1>1, <1>4, TasksMove
<1>. QED
  BY <1>2, <1>3, <1>5 DEF HasRun, CallOf

\* Every step leaves the calls in progress unrecorded and their contracts covered.
LEMMA HeldNext == HeldInv /\ [Next]_vars => HeldInv'
<1>. SUFFICES ASSUME HeldInv, [Next]_vars PROVE HeldInv'
  OBVIOUS
<1>1. TypeInv /\ TimeInv /\ OneWorkerInv /\ TypeInv' /\ TimeInv' /\ OneWorkerInv'
  BY OneWorkerNext, TimeNext DEF HeldInv, OneWorkerInv
<1>. DEFINE Holds(v) ==
       IsBusy(v)' => /\ CallOf(v)' # NoCall => ~HasRun(CallOf(v))'
                     /\ workers'[v].asked \subseteq tasks'[TaskOf(v)'].fields
<1>2. SUFFICES \A v \in Workers : Holds(v)
  BY <1>1 DEF HeldInv, Unread, AskedKept
<1>3. ASSUME NEW v \in Workers, workers'[v] = workers[v]
      PROVE  Holds(v)
  BY <1>3, StillHolds DEF IsBusy, TaskOf, CallOf
<1>4. CASE QuietStep
  BY <1>4, StillHolds DEF QuietStep, GoesOn, TaskOf, CallOf
<1>5. ASSUME NEW w \in Workers, Reserve(w)
      PROVE  \A v \in Workers : Holds(v)
  <2>1. PICK c \in CallIds : ~Placed(c) /\ workers'[w].call = c
    BY <1>1, <1>5, ReserveEffect
  <2>2. /\ IsBusy(w) /\ OthersKept(w) /\ workers'[w].task = TaskOf(w)
        /\ workers'[w].asked = workers[w].asked /\ tasks' = tasks
    BY <1>1, <1>5, ReserveEffect DEF At, IsBusy
  <2>3. UNCHANGED runs /\ ~HasRun(c)
    BY <1>1, <1>5, <2>1 DEF Reserve, deskVars, TypeInv, RunsHaveCalls
  <2>4. Holds(w)
    BY <2>1, <2>2, <2>3 DEF HeldInv, AskedKept, HasRun, CallOf, TaskOf
  <2>. QED
    BY <1>3, <2>2, <2>4 DEF OthersKept
<1>6. ASSUME NEW w \in Workers, NEW t \in TaskIds, TakeTask(w, t)
      PROVE  \A v \in Workers : Holds(v)
  <2>1. /\ OthersKept(w) /\ workers'[w].task = t /\ workers'[w].call = NoCall
        /\ workers'[w].asked = tasks[t].fields
        /\ tasks' = [tasks EXCEPT ![t].status = "in_progress"]
    BY <1>1, <1>6, TakeTaskEffect
  <2>2. tasks'[t].fields = tasks[t].fields
    BY <1>1, <2>1 DEF TypeInv, WorkflowTypeOK, QueueTypeOK, Task
  <2>3. Holds(w)
    BY <2>1, <2>2 DEF CallOf, TaskOf
  <2>. QED
    BY <1>3, <2>1, <2>3 DEF OthersKept
<1>7. CASE Tick
  BY <1>3, <1>7 DEF Tick, workerVars
<1>. QED
  BY <1>1, <1>4, <1>5, <1>6, <1>7, StepKinds

\* What is left to decide of the runs a step does not touch stays as it was.
LEMMA OthersUndecided ==
  ASSUME DeskInv, [Next]_vars, NEW d \in CallIds, Undecided(d)',
         Placed(d) => calls'[d].task = calls[d].task,
         runs'[d] = runs[d], proposals'[d] = proposals[d], flags'[d] = flags[d]
  PROVE  /\ runs'[d].status = "needs_review"
         /\ runs'[d].outcome \in ContactOutcomes =>
              /\ tasks'[calls'[d].task].status \in {"needs_review", "completed"}
              /\ runs'[d].asked \subseteq tasks'[calls'[d].task].fields
<1>1. TypeInv
  BY DEF DeskInv, HeldInv, OneWorkerInv
<1>2. Undecided(d)
  BY DEF Undecided, Pending
<1>3. /\ runs[d].status = "needs_review" /\ calls[d].task \in TaskIds
      /\ calls'[d].task = calls[d].task
  BY <1>1, <1>2, RunOfCall DEF DeskInv, OpenRuns
<1>4. ASSUME runs[d].outcome \in ContactOutcomes
      PROVE  /\ tasks'[calls[d].task].status \in {"needs_review", "completed"}
             /\ runs[d].asked \subseteq tasks'[calls[d].task].fields
  <2>1. /\ tasks[calls[d].task].status \in {"needs_review", "completed"}
        /\ runs[d].asked \subseteq tasks[calls[d].task].fields
    BY <1>2, <1>4 DEF DeskInv, RunsCovered
  <2>. QED
    BY <1>1, <1>3, <2>1, TasksMove
<1>. QED
  BY <1>3, <1>4

\* A step that touches no run strands no review.
LEMMA DeskUntouched ==
  ASSUME DeskInv, [Next]_vars, ~Review, \A w \in Workers : ~Record(w)
  PROVE  OpenRuns' /\ RunsCovered' /\ NoStrandedReview'
<1>1. TypeInv
  BY DEF DeskInv, HeldInv, OneWorkerInv
<1>2. UNCHANGED <<runs, proposals, flags>>
  BY <1>1, DeskKept
<1>3. \A d \in CallIds : Placed(d) => calls'[d].task = calls[d].task
  <2>1. CASE \E w \in Workers : Reserve(w)
    BY <1>1, <2>1, ReserveEffect
  <2>2. CASE ~\E w \in Workers : Reserve(w)
    BY <1>1, <2>2, StepKinds, TakeTaskEffect DEF QuietStep, CallsKept, Tick, ledgerVars
  <2>. QED
    BY <2>1, <2>2
<1>4. OpenRuns' /\ RunsCovered'
  BY <1>2, <1>3, OthersUndecided DEF OpenRuns, RunsCovered
<1>5. ASSUME NEW t \in TaskIds, tasks'[t].status = "needs_review"
      PROVE  \E c \in RunsOf(t)' : Undecided(c)'
  <2>1. PICK c \in RunsOf(t) : Undecided(c)
    BY <1>1, <1>5, TasksMove DEF DeskInv, NoStrandedReview
  <2>2. c \in CallIds /\ Placed(c) /\ HasRun(c) /\ calls[c].task = t
    BY <1>1, <2>1, RunOfCall DEF RunsOf
  <2>. QED
    BY <1>2, <1>3, <2>1, <2>2 DEF RunsOf, HasRun, Undecided, Pending
<1>. QED
  BY <1>4, <1>5 DEF NoStrandedReview

\* A recorded call leaves its own task something to decide, if it hands it over.
LEMMA DeskRecorded ==
  ASSUME DeskInv, [Next]_vars, NEW w \in Workers, Record(w)
  PROVE  OpenRuns' /\ RunsCovered' /\ NoStrandedReview'
<1>1. TypeInv /\ TimeInv /\ Unread /\ tasks \in [TaskIds -> Task]
  BY DEF DeskInv, HeldInv, OneWorkerInv, TypeInv, WorkflowTypeOK, QueueTypeOK
<1>. DEFINE asked == workers[w].asked
            t == TaskOf(w)
<1>2. PICK c \in CallIds, e \in ReadEvidence(asked) :
        /\ IsBusy(w) /\ calls[c].task = t /\ t \in TaskIds
        /\ ~HasRun(c) /\ UNCHANGED calls
        /\ Read(e) /\ RecordCall(w, e)
        /\ runs'[c] =
             [status |-> IF NeedsAPerson(Classify(e, asked)) THEN "needs_review" ELSE "completed",
              outcome |-> e.outcome, tier |-> Overall(Classify(e, asked)),
              asked |-> asked, covered |-> Covered(e)]
        /\ proposals'[c] = ProposalsOf(e, Classify(e, asked))
        /\ flags'[c] = FlagsOf(Classify(e, asked))
        /\ \A d \in CallIds : d # c => /\ runs'[d] = runs[d] /\ flags'[d] = flags[d]
                                      /\ proposals'[d] = proposals[d]
  BY <1>1, RecordEffect
<1>. DEFINE ds == Classify(e, asked)
<1>. HIDE DEF asked, ds
<1>3. /\ runs'[c].status = (IF NeedsAPerson(ds) THEN "needs_review" ELSE "completed")
      /\ runs'[c].outcome = e.outcome /\ runs'[c].asked = asked
  BY <1>2 DEF ds
<1>4. Undecided(c)' <=> NeedsAPerson(ds)
  <2>1. e \in ReadableEvidence
    BY <1>2 DEF Read
  <2>2. CASE NeedsAPerson(ds)
    BY <1>2, <2>1, <2>2, LeavesSomething DEF ds, Undecided, Pending
  <2>3. CASE ~NeedsAPerson(ds)
    BY <1>2, <2>1, <2>3, LeavesNothing DEF ds, Undecided, Pending
  <2>. QED
    BY <2>2, <2>3
<1>5. /\ tasks[t].status = "in_progress"
      /\ IF ReachedSomeone(e) THEN SettleTask(t, NeedsAPerson(ds)) ELSE RequeueTask(t)
  BY <1>2 DEF RecordCall, ds, asked
<1>6. /\ \A u \in TaskIds : u # t => tasks'[u] = tasks[u]
      /\ tasks'[t].status = IF ReachedSomeone(e)
                            THEN IF NeedsAPerson(ds) THEN "needs_review" ELSE "completed"
                            ELSE "queued"
  BY <1>1, <1>2, <1>5 DEF SettleTask, RequeueTask, Task
<1>7. asked \subseteq tasks'[t].fields
  BY <1>1, <1>2, <1>5, TasksMove DEF DeskInv, HeldInv, AskedKept, asked
<1>8. OpenRuns' /\ RunsCovered'
  <2>1. ASSUME NEW d \in CallIds, Undecided(d)'
        PROVE  /\ runs'[d].status = "needs_review"
               /\ runs'[d].outcome \in ContactOutcomes =>
                    /\ tasks'[calls'[d].task].status \in {"needs_review", "completed"}
                    /\ runs'[d].asked \subseteq tasks'[calls'[d].task].fields
    <3>1. CASE d = c
      BY <1>2, <1>3, <1>4, <1>6, <1>7, <2>1, <3>1 DEF ReachedSomeone
    <3>2. CASE d # c
      BY <1>2, <2>1, <3>2, OthersUndecided
    <3>. QED
      BY <3>1, <3>2
  <2>. QED
    BY <2>1 DEF OpenRuns, RunsCovered
<1>9. ASSUME NEW u \in TaskIds, tasks'[u].status = "needs_review"
      PROVE  \E d \in RunsOf(u)' : Undecided(d)'
  <2>1. CASE u = t
    <3>1. NeedsAPerson(ds)
      BY <1>6, <1>9, <2>1
    <3>2. c \in RunsOf(u)'
      BY <1>2, <1>3, <2>1, <3>1 DEF RunsOf, HasRun
    <3>. QED
      BY <1>4, <3>1, <3>2
  <2>2. CASE u # t
    <3>1. PICK d \in RunsOf(u) : Undecided(d)
      BY <1>6, <1>9, <2>2 DEF DeskInv, NoStrandedReview
    <3>2. d \in CallIds /\ d # c /\ HasRun(d) /\ calls[d].task = u
      BY <1>2, <2>2, <3>1 DEF RunsOf
    <3>. QED
      BY <1>2, <3>1, <3>2 DEF RunsOf, HasRun, Undecided, Pending
  <2>. QED
    BY <2>1, <2>2
<1>. QED
  BY <1>8, <1>9 DEF NoStrandedReview

\* A decision leaves the rest of its run to be decided, or completes its task.
LEMMA DeskReviewed ==
  ASSUME DeskInv, [Next]_vars, Review
  PROVE  OpenRuns' /\ RunsCovered' /\ NoStrandedReview'
<1>1. /\ TypeInv /\ tasks \in [TaskIds -> Task]
      /\ runs \in [CallIds -> Run \cup {NoRow}]
  BY DEF DeskInv, HeldInv, OneWorkerInv, TypeInv, WorkflowTypeOK, QueueTypeOK, DeskTypeOK
<1>2. PICK c \in CallIds :
        /\ HasRun(c) /\ UNCHANGED calls
        /\ \A d \in CallIds : d # c => proposals'[d] = proposals[d] /\ flags'[d] = flags[d]
        /\ \/ UNCHANGED <<runs, tasks>> /\ (Undecided(c)' <=> Undecided(c))
           \/ Undecided(c) /\ Closes(c)
  BY <1>1, ReviewEffect
<1>3. calls[c].task \in TaskIds /\ runs[c] \in Run
  BY <1>1, <1>2, RunOfCall
<1>4. CASE UNCHANGED <<runs, tasks>> /\ (Undecided(c)' <=> Undecided(c))
  <2>1. ASSUME NEW d \in CallIds PROVE Undecided(d)' <=> Undecided(d)
    BY <1>2, <1>4 DEF Undecided, Pending
  <2>. QED
    BY <1>2, <1>4, <2>1 DEF DeskInv, OpenRuns, RunsCovered, NoStrandedReview, RunsOf, HasRun
<1>5. CASE Closes(c)
  <2>1. /\ ~Undecided(c)'
        /\ \A d \in CallIds : d # c => runs'[d] = runs[d]
        /\ \A d \in CallIds : HasRun(d) => HasRun(d)'
    BY <1>1, <1>2, <1>3, <1>5 DEF Closes, HasRun, Run
  <2>2. /\ tasks'[calls[c].task].status = "completed"
        /\ \A u \in TaskIds : u # calls[c].task => tasks'[u] = tasks[u]
    BY <1>1, <1>3, <1>5 DEF Closes, CompleteTask, Task
  <2>3. OpenRuns' /\ RunsCovered'
    <3>1. ASSUME NEW d \in CallIds, Undecided(d)'
          PROVE  /\ runs'[d].status = "needs_review"
                 /\ runs'[d].outcome \in ContactOutcomes =>
                      /\ tasks'[calls'[d].task].status \in {"needs_review", "completed"}
                      /\ runs'[d].asked \subseteq tasks'[calls'[d].task].fields
      BY <1>2, <2>1, <3>1, OthersUndecided
    <3>. QED
      BY <3>1 DEF OpenRuns, RunsCovered
  <2>4. ASSUME NEW u \in TaskIds, tasks'[u].status = "needs_review"
        PROVE  \E d \in RunsOf(u)' : Undecided(d)'
    <3>1. u # calls[c].task /\ tasks[u].status = "needs_review"
      BY <2>2, <2>4
    <3>2. PICK d \in RunsOf(u) : Undecided(d)
      BY <3>1 DEF DeskInv, NoStrandedReview
    <3>3. d \in CallIds /\ d # c /\ HasRun(d) /\ calls[d].task = u
      BY <3>1, <3>2 DEF RunsOf
    <3>. QED
      BY <1>2, <2>1, <3>2, <3>3 DEF RunsOf, Undecided, Pending
  <2>. QED
    BY <2>3, <2>4 DEF NoStrandedReview
<1>. QED
  BY <1>2, <1>4, <1>5

\* The desk's invariant holds at first, and every step keeps it.
LEMMA DeskFirst == Init => DeskInv
<1>. SUFFICES ASSUME Init PROVE DeskInv
  OBVIOUS
<1>1. \A w \in Workers : ~IsBusy(w)
  BY DEF Init, IsBusy, Idle
<1>2. OneWorkerInv /\ TimeInv
  BY <1>1, TypeInit, TimeInit DEF OneWorkerInv, TasksHeld, OneWorkerPerTask
<1>3. \A c \in CallIds : ~Undecided(c)
  BY DEF Init, DeskInit, Undecided, Pending, NoProposal
<1>4. \A t \in TaskIds : tasks[t].status = "unused"
  BY DEF Init, QueueInit, UnusedTask
<1>. QED
  BY <1>1, <1>2, <1>3, <1>4
     DEF DeskInv, HeldInv, Unread, AskedKept, OpenRuns, RunsCovered, NoStrandedReview

LEMMA DeskNext == DeskInv /\ [Next]_vars => DeskInv'
<1>. SUFFICES ASSUME DeskInv, [Next]_vars PROVE DeskInv'
  OBVIOUS
<1>1. HeldInv'
  BY HeldNext DEF DeskInv
<1>. QED
  BY <1>1, DeskUntouched, DeskRecorded, DeskReviewed DEF DeskInv

\* A task that waits for a person always has something a person can decide, for any
\* evidence, any number of calls to it and any order of the decisions about them
\* (record_verification, _complete_reviewed_run).
THEOREM NoStranded == Spec => []NoStrandedReview
<1>1. DeskInv => NoStrandedReview
  BY DEF DeskInv
<1>. QED
  BY <1>1, DeskFirst, DeskNext, PTL DEF Spec

-----------------------------------------------------------------------------
\* The record.

\* A recorded call moves a value to what it proposes, and leaves nothing to decide.
LEMMA RecordMoves ==
  ASSUME DeskInv, NEW w \in Workers, Record(w),
         NEW s \in Services, NEW f \in Fields, record'[s][f] # record[s][f]
  PROVE  \E c \in CallIds : MovedBy(c, s, f)
<1>1. /\ TypeInv /\ TimeInv /\ Unread
      /\ record \in [Services -> [Fields -> Values]]
  BY DEF DeskInv, HeldInv, OneWorkerInv, TypeInv, WorkflowTypeOK, DeskTypeOK
<1>. DEFINE asked == workers[w].asked
            t == TaskOf(w)
<1>2. PICK c \in CallIds, e \in ReadEvidence(asked) :
        /\ calls[c].task = t /\ Placed(c) /\ ~HasRun(c)
        /\ Read(e) /\ RecordCall(w, e)
        /\ runs'[c] =
             [status |-> IF NeedsAPerson(Classify(e, asked)) THEN "needs_review" ELSE "completed",
              outcome |-> e.outcome, tier |-> Overall(Classify(e, asked)),
              asked |-> asked, covered |-> Covered(e)]
        /\ proposals'[c] = ProposalsOf(e, Classify(e, asked))
        /\ flags'[c] = FlagsOf(Classify(e, asked))
  BY <1>1, RecordEffect
<1>. DEFINE ds == Classify(e, asked)
            writes == [g \in Fields |-> IF \E a \in Applied(e, ds) : a.field = g
                                        THEN (CHOOSE a \in Applied(e, ds) : a.field = g).value
                                        ELSE record[ServiceOf(t)][g]]
<1>3. record' = [record EXCEPT ![ServiceOf(t)] = writes]
  BY <1>2 DEF RecordCall, WriteRun
<1>4. s = ServiceOf(t) /\ record'[s][f] = writes[f]
  <2>. HIDE DEF writes
  <2>. QED
    BY <1>1, <1>3
<1>5. /\ \E a \in Applied(e, ds) : a.field = f
      /\ record'[s][f] = (CHOOSE a \in Applied(e, ds) : a.field = f).value
  <2>1. writes[f] = IF \E a \in Applied(e, ds) : a.field = f
                    THEN (CHOOSE a \in Applied(e, ds) : a.field = f).value
                    ELSE record[s][f]
    BY <1>4
  <2>. HIDE DEF writes, ds
  <2>. QED
    BY <1>4, <2>1
<1>6. /\ ~NeedsAPerson(ds) /\ e.outcome = "completed" /\ MayAutoApply(f)
      /\ proposals'[c][f] = [status |-> "applied", value |-> record'[s][f]]
  <2>. DEFINE x == CHOOSE a \in Applied(e, ds) : a.field = f
  <2>1. x \in Applied(e, ds) /\ x.field = f /\ record'[s][f] = x.value
    BY <1>5
  <2>. HIDE DEF x
  <2>. QED
    BY <1>2, <2>1, AppliedIsProposed
<1>7. flags'[c] = {} /\ Pending(c)' = {}
  <2>1. e \in ReadableEvidence
    BY <1>2 DEF Read
  <2>2. \A g \in Fields : proposals'[c][g].status # "pending"
    BY <1>2, <1>6, <2>1, LeavesNothing
  <2>. QED
    BY <1>2, <1>6, <2>1, <2>2, LeavesNothing DEF Pending
<1>8. proposals[c][f] = NoProposal
  BY <1>1, <1>2 DEF TypeInv, RunsHaveCalls
<1>9. runs'[c].status = "completed" /\ runs'[c].outcome = "completed"
  BY <1>2, <1>6
<1>10. ServiceOfCall(c) = s
  BY <1>2, <1>4 DEF ServiceOfCall
<1>. HIDE DEF ds, writes, asked, t
<1>. QED
  BY <1>2, <1>6, <1>7, <1>8, <1>9, <1>10 DEF MovedBy, NoProposal

\* A curator's decision moves a value to what the decided proposal now says.
LEMMA ReviewMoves ==
  ASSUME TypeInv, Review, NEW s \in Services, NEW f \in Fields, record'[s][f] # record[s][f]
  PROVE  \E c \in CallIds : MovedBy(c, s, f)
<1>1. PICK c \in CallIds :
        \/ \E g \in Fields : Approve(c, g) \/ Reject(c, g)
        \/ \E g \in Fields, v \in Values : Edit(c, g, v) \/ CorrectApplied(c, g, v)
        \/ \E cause \in Causes : Acknowledge(c, cause)
  BY DEF Review
<1>2. /\ record \in [Services -> [Fields -> Values]]
      /\ proposals \in [CallIds -> [Fields -> Proposal \cup {NoProposal}]]
  BY DEF TypeInv, WorkflowTypeOK, DeskTypeOK
<1>3. ASSUME NEW g \in Fields, NEW v, NEW status \in {"approved", "edited"},
             Publish(c, g, v), proposals[c][g].status \in {"pending", "applied"},
             proposals'[c][g] = [status |-> status, value |-> v]
      PROVE  MovedBy(c, s, f)
  <2>1. s = ServiceOfCall(c) /\ f = g /\ record'[s][f] = v
    BY <1>2, <1>3 DEF Publish
  <2>2. Placed(c)
    BY <1>3 DEF TypeInv, RunsHaveCalls, NoProposal
  <2>. QED
    BY <1>3, <2>1, <2>2 DEF MovedBy
<1>4. ASSUME NEW g \in Fields, Approve(c, g)
      PROVE  MovedBy(c, s, f)
  <2>1. proposals'[c][g] = [status |-> "approved", value |-> proposals[c][g].value]
    BY <1>2, <1>4 DEF Approve, Decide
  <2>. QED
    BY <1>3, <1>4, <2>1 DEF Approve, Pending
<1>5. ASSUME NEW g \in Fields, NEW v, Edit(c, g, v)
      PROVE  MovedBy(c, s, f)
  <2>1. proposals'[c][g] = [status |-> "edited", value |-> v]
    BY <1>2, <1>5 DEF Edit, Decide
  <2>. QED
    BY <1>3, <1>5, <2>1 DEF Edit, Pending
<1>6. ASSUME NEW g \in Fields, NEW v, CorrectApplied(c, g, v)
      PROVE  MovedBy(c, s, f)
  <2>1. proposals'[c][g] = [status |-> "edited", value |-> v]
    BY <1>2, <1>6 DEF CorrectApplied
  <2>. QED
    BY <1>3, <1>6, <2>1 DEF CorrectApplied
<1>7. \A g : ~Reject(c, g) /\ ~Acknowledge(c, g)
  BY DEF Reject, Acknowledge
<1>. QED
  BY <1>1, <1>4, <1>5, <1>6, <1>7

\* A published value moves only with the evidence that moved it, whatever is recorded,
\* reviewed and imported in whatever order.
THEOREM MovesByEvidence == Spec => RecordMovesOnlyByEvidence
<1>1. ASSUME DeskInv, [Next]_vars, NEW s \in Services, NEW f \in Fields,
             record'[s][f] # record[s][f]
      PROVE  BroughtIn(s, f) \/ \E c \in CallIds : MovedBy(c, s, f)
  <2>1. TypeInv
    BY <1>1 DEF DeskInv, HeldInv, OneWorkerInv
  <2>2. CASE Import
    <3>1. PICK file \in ImportFiles : ImportServices(file)
      BY <2>2 DEF Import
    <3>2. record'[s][f] = IF s \in DOMAIN file /\ f \in DOMAIN file[s].values
                         THEN file[s].values[f] ELSE record[s][f]
      BY <3>1 DEF ImportServices, ImportedRecord
    <3>3. UNCHANGED <<runs, proposals, flags, calls>>
      BY <3>1 DEF ImportServices
    <3>. QED
      BY <1>1, <3>2, <3>3 DEF BroughtIn
  <2>3. CASE Review
    BY <1>1, <2>1, <2>3, ReviewMoves
  <2>4. CASE \E w \in Workers : Record(w)
    BY <1>1, <2>4, RecordMoves
  <2>5. record' # record
    BY <1>1
  <2>. QED
    BY <1>1, <2>1, <2>2, <2>3, <2>4, <2>5, DeskKept
<1>2. DeskInv /\ [Next]_vars =>
        [\A s \in Services, f \in Fields :
           record'[s][f] # record[s][f] =>
             BroughtIn(s, f) \/ \E c \in CallIds : MovedBy(c, s, f)]_vars
  BY <1>1
<1>. QED
  BY <1>2, DeskFirst, DeskNext, PTL DEF Spec, RecordMovesOnlyByEvidence

\* The assurance date moves and failure reports are closed only when a run closes that
\* reached the provider, had every proposal accepted and covers what it asked about.
THEOREM AssuredByCoverage == Spec => AssuranceNeedsCoverage
<1>1. ASSUME DeskInv, [Next]_vars, NEW s \in Services,
             assured'[s] # assured[s] \/ (reports[s] # {} /\ reports'[s] = {})
      PROVE  \E c \in CallIds : Placed(c) /\ ServiceOfCall(c) = s /\ ClosesCovered(c)
  <2>1. /\ TypeInv /\ TimeInv /\ Unread
        /\ assured \in [Services -> Nat] /\ reports \in [Services -> SUBSET Reasons]
        /\ runs \in [CallIds -> Run \cup {NoRow}]
    BY <1>1 DEF DeskInv, HeldInv, OneWorkerInv, TypeInv, WorkflowTypeOK, DeskTypeOK, QueueTypeOK
  <2>2. ~(UNCHANGED <<assured, reports>>)
    BY <1>1
  <2>3. CASE Review
    <3>1. PICK c \in CallIds : HasRun(c) /\ Undecided(c) /\ Closes(c)
      BY <2>1, <2>2, <2>3, ReviewEffect
    <3>2. Placed(c) /\ runs[c] \in Run /\ runs[c].status = "needs_review"
      BY <1>1, <2>1, <3>1, RunOfCall DEF DeskInv, OpenRuns
    <3>3. runs'[c] = [runs[c] EXCEPT !.status = "completed"] /\ ~Undecided(c)'
      BY <2>1, <3>1 DEF Closes
    <3>4. /\ \A f \in Fields : proposals'[c][f].status # "rejected"
          /\ runs[c].outcome = "completed"
          /\ tasks[calls[c].task].fields \subseteq runs[c].covered
          /\ s = ServiceOfCall(c)
      BY <1>1, <2>2, <3>1 DEF Closes
    <3>5. runs[c].asked \subseteq tasks[calls[c].task].fields
      BY <1>1, <3>1, <3>4 DEF DeskInv, RunsCovered, ContactOutcomes
    <3>6. \A f \in Fields : proposals'[c][f].status # "pending"
      BY <3>3 DEF Undecided, Pending
    <3>7. ClosesCovered(c)
      BY <3>2, <3>3, <3>4, <3>5, <3>6 DEF ClosesCovered, Run
    <3>. QED
      BY <3>2, <3>4, <3>7
  <2>4. ASSUME NEW w \in Workers, Record(w)
        PROVE  \E c \in CallIds : Placed(c) /\ ServiceOfCall(c) = s /\ ClosesCovered(c)
    <3>. DEFINE asked == workers[w].asked
                t == TaskOf(w)
    <3>1. PICK c \in CallIds, e \in ReadEvidence(asked) :
            /\ calls[c].task = t /\ Placed(c) /\ ~HasRun(c)
            /\ Read(e) /\ RecordCall(w, e)
            /\ runs'[c] =
                 [status |-> IF NeedsAPerson(Classify(e, asked)) THEN "needs_review"
                                                               ELSE "completed",
                  outcome |-> e.outcome, tier |-> Overall(Classify(e, asked)),
                  asked |-> asked, covered |-> Covered(e)]
            /\ proposals'[c] = ProposalsOf(e, Classify(e, asked))
      BY <2>1, <2>4, RecordEffect
    <3>. DEFINE ds == Classify(e, asked)
    <3>. HIDE DEF ds, asked
    <3>2. /\ ReachedSomeone(e) /\ ~NeedsAPerson(ds)
          /\ s = ServiceOf(t)
      BY <1>1, <2>1, <3>1 DEF RecordCall, WriteRun, ResolveReports, ds, asked
    <3>3. e.outcome = "completed" /\ asked \subseteq Covered(e)
      BY <3>1, <3>2, Unattended DEF Read, ds
    <3>4. \A f \in Fields : proposals'[c][f].status \in {"none", "applied"}
      BY <3>1, <3>2, LeavesNothing DEF Read, ds
    <3>5. /\ runs'[c].status = "completed" /\ runs'[c].outcome = "completed"
          /\ runs'[c].asked = asked /\ runs'[c].covered = Covered(e)
      BY <3>1, <3>2, <3>3 DEF ds
    <3>6. runs'[c] # runs[c]
      BY <3>1, <3>5 DEF HasRun
    <3>7. ClosesCovered(c)
      BY <3>3, <3>4, <3>5, <3>6 DEF ClosesCovered
    <3>. QED
      BY <3>1, <3>2, <3>7 DEF ServiceOfCall
  <2>. QED
    BY <1>1, <2>1, <2>3, <2>4, DeskKept
<1>2. DeskInv /\ [Next]_vars =>
        [\A s \in Services :
           assured'[s] # assured[s] \/ (reports[s] # {} /\ reports'[s] = {})
             => \E c \in CallIds : Placed(c) /\ ServiceOfCall(c) = s /\ ClosesCovered(c)]_vars
  BY <1>1
<1>. QED
  BY <1>2, DeskFirst, DeskNext, PTL DEF Spec, AssuranceNeedsCoverage
=============================================================================
