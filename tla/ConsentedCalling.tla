--------------------------- MODULE ConsentedCalling ---------------------------
(***************************************************************************)
(* What an organization that agrees to be called is promised (README,      *)
(* "Safety, and why the calls are few"; ETHICS):                           *)
(*   - every ring was paid for out of an allowance it gave,                *)
(*   - one payment rings at most once,                                     *)
(*   - two payments lie at least an interval apart,                        *)
(*   - after it asks not to be called, its telephone stays silent.         *)
(* Nothing here knows of tasks, workers, evidence or transactions.         *)
(***************************************************************************)
EXTENDS Naturals

CONSTANTS
  Organizations,
  Consents,    \* the agreements that may be made
  Permits,     \* the single calls that may be paid for
  Interval     \* hours between two calls to one organization

VARIABLES
  clock,
  agreements,  \* agreement -> who made it and how many calls are left in it
  permits,     \* permit -> whom it is for, when it was paid for, its ring
  silent       \* organizations that asked not to be called

abstractVars == <<clock, agreements, permits, silent>>

None == [made |-> FALSE]
Agreement == [made: {TRUE}, org: Organizations, left: Nat]
Unpaid == [paid |-> FALSE]

Init ==
  /\ clock \in Nat
  /\ agreements = [k \in Consents |-> None]
  /\ permits = [p \in Permits |-> Unpaid]
  /\ silent = {}

Paid(p) == permits[p].paid

Agree(k) ==
  /\ agreements[k] = None
  /\ agreements' \in [Consents -> {None} \cup Agreement]
  /\ agreements'[k].made /\ agreements'[k].left > 0
  /\ \A j \in Consents \ {k} : agreements'[j] = agreements[j]
  /\ UNCHANGED <<clock, permits, silent>>

Pay(p, k) ==
  LET org == agreements[k].org
  IN  /\ ~Paid(p)
      /\ agreements[k].made /\ agreements[k].left > 0
      /\ org \notin silent
      /\ \A q \in Permits : Paid(q) /\ permits[q].org = org => permits[q].at + Interval <= clock
      /\ agreements' = [agreements EXCEPT ![k].left = @ - 1]
      /\ permits' = [permits EXCEPT ![p] =
                       [paid |-> TRUE, org |-> org, at |-> clock, ring |-> "idle"]]
      /\ UNCHANGED <<clock, silent>>

Ring(p) ==
  /\ Paid(p) /\ permits[p].ring = "idle"
  /\ permits[p].org \notin silent
  /\ permits' = [permits EXCEPT ![p].ring = "ringing"]
  /\ UNCHANGED <<clock, agreements, silent>>

End(p) ==
  /\ Paid(p) /\ permits[p].ring = "ringing"
  /\ permits' = [permits EXCEPT ![p].ring = "over"]
  /\ UNCHANGED <<clock, agreements, silent>>

Silence(org) ==
  /\ silent' = silent \cup {org}
  /\ UNCHANGED <<clock, agreements, permits>>

Pass ==
  /\ clock' > clock
  /\ UNCHANGED <<agreements, permits, silent>>

Next ==
  \/ \E k \in Consents : Agree(k)
  \/ \E p \in Permits, k \in Consents : Pay(p, k)
  \/ \E p \in Permits : Ring(p) \/ End(p)
  \/ \E org \in Organizations : Silence(org)
  \/ Pass

Spec == Init /\ [][Next]_abstractVars
=============================================================================
