------------------------------ MODULE CallLedger ------------------------------
(***************************************************************************)
(* store.py: provider_consents, organizations.do_not_call, call_runs and   *)
(* the transaction that reserves a call.                                   *)
(***************************************************************************)
EXTENDS TaskQueue, CallEligibility

CONSTANTS
  ConsentTerms,     \* the consents a curator may record in a run
  DirectoryNumber,  \* organization -> its public number when the program starts
  MaxConsents,      \* bound: consents ever recorded
  MaxCalls          \* bound: calls ever reserved

ASSUME LedgerAssumption ==
  /\ DirectoryNumber \in [Organizations -> Numbers]
  /\ ConsentTerms \subseteq Terms
  /\ MaxConsents \in Nat /\ MaxCalls \in Nat

VARIABLES
  consents,     \* provider_consents
  publicPhone,  \* organizations.public_phone
  doNotCall,    \* the organizations with do_not_call set
  calls         \* call_runs

ledgerVars == <<consents, publicPhone, doNotCall, calls>>

ConsentIds == 1 .. MaxConsents
CallIds == 1 .. MaxCalls
NoCall == 0
NoRow == [status |-> "unused"]

Consent == [status: {"active", "withdrawn"}, org: Organizations,
            terms: Terms, placed: Nat]
\* `planning` and `cancelled` are in the schema; no step of the program sets them.
CallStatuses == {"reserved", "dialing", "completed", "failed"}
Call == [status: CallStatuses, task: TaskIds, consent: ConsentIds, at: Nat,
         destination: Numbers, attached: BOOLEAN]

LedgerTypeOK ==
  /\ consents \in [ConsentIds -> Consent \cup {NoRow}]
  /\ publicPhone \in [Organizations -> Numbers]
  /\ doNotCall \subseteq Organizations
  /\ calls \in [CallIds -> Call \cup {NoRow}]

LedgerInit ==
  /\ consents = [k \in ConsentIds |-> NoRow]
  /\ publicPhone = DirectoryNumber
  /\ doNotCall = {}
  /\ calls = [c \in CallIds |-> NoRow]

-----------------------------------------------------------------------------

Recorded(k) == consents[k].status # "unused"
Placed(c) == calls[c].status # "unused"

OrgOfCall(c) == OrgOfTask(calls[c].task)

IsNextConsent(k) == ~Recorded(k) /\ \A j \in ConsentIds : ~Recorded(j) => k <= j
IsNextCall(c) == ~Placed(c) /\ \A d \in CallIds : ~Placed(d) => c <= d

\* create_consent: an earlier active consent for the same number is withdrawn,
\* and the number becomes the one the organization is dialled at.
CreateConsent(k, org, terms) ==
  /\ IsNextConsent(k)
  /\ consents' = [j \in ConsentIds |->
       IF j = k THEN [status |-> "active", org |-> org, terms |-> terms, placed |-> 0]
       ELSE IF /\ Recorded(j)
               /\ consents[j].org = org /\ consents[j].terms.phone = terms.phone
               /\ consents[j].status = "active"
            THEN [consents[j] EXCEPT !.status = "withdrawn"]
            ELSE consents[j]]
  /\ publicPhone' = [publicPhone EXCEPT ![org] = terms.phone]
  /\ UNCHANGED <<doNotCall, calls>>

-----------------------------------------------------------------------------

ConsentsOf(org) ==
  [k \in {j \in ConsentIds : Recorded(j) /\ consents[j].org = org} |-> consents[k]]

\* Fault: only calls that were completed count as contact.
LastCallsFinishedOnly(org) ==
  {calls[c].at : c \in {d \in CallIds : /\ calls[d].status = "completed"
                                          /\ OrgOfCall(d) = org
                                          /\ calls[d].at + MinimumInterval > now}}

\* The instants of the organization's calls newer than the cutoff.  The code reads
\* the latest of them, which forbids whatever any other would forbid.
LastCalls(org) ==
  {calls[c].at : c \in {d \in CallIds : /\ Placed(d)
                                          /\ OrgOfCall(d) = org
                                          /\ calls[d].at + MinimumInterval > now}}

MayCall(t, number) ==
  /\ tasks[t].status = "in_progress"
  /\ Eligible(number, OrgOfTask(t) \in doNotCall,
              ConsentsOf(OrgOfTask(t)), LastCalls(OrgOfTask(t)), now)

\* Fault: the call is written without the consent it used.
ReserveCallUncharged(c, t, number) ==
  /\ calls' = [calls EXCEPT ![c] = [status |-> "reserved", task |-> t, consent |-> 0, at |-> now,
                                    destination |-> number, attached |-> FALSE]]
  /\ UNCHANGED <<consents, publicPhone, doNotCall>>

\* reserve_call: the allowance is decremented in the transaction that writes the
\* call_runs row.  The contract's number was read before, outside it.
ReserveCall(c, t, number) ==
  \E k \in DOMAIN ConsentsOf(OrgOfTask(t)) :
    /\ IsFirstPermitting(ConsentsOf(OrgOfTask(t)), k, now)
    /\ consents' = [consents EXCEPT ![k].placed = @ + 1]
    /\ calls' = [calls EXCEPT ![c] = [status |-> "reserved", task |-> t, consent |-> k, at |-> now,
                                      destination |-> number, attached |-> FALSE]]
    /\ UNCHANGED <<publicPhone, doNotCall>>

\* attach_calle_run; `attached` says that calle_run_id is set.
AttachRun(c) ==
  /\ calls' = [calls EXCEPT ![c].status = "dialing", ![c].attached = TRUE]
  /\ UNCHANGED <<consents, publicPhone, doNotCall>>

\* update_call_run
UpdateCall(c, status) ==
  /\ calls' = [calls EXCEPT ![c].status = status]
  /\ UNCHANGED <<consents, publicPhone, doNotCall>>

Suppress(org) == doNotCall' = doNotCall \cup {org}
=============================================================================
