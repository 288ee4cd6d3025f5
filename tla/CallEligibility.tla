---------------------------- MODULE CallEligibility ---------------------------
(***************************************************************************)
(* policy/call_eligibility.py: may this call happen at all.                *)
(*                                                                         *)
(* An instant is a number of hours since the midnight that began a         *)
(* Monday, in the organizations' timezone: the conversion from the         *)
(* server's clock is the library's.  The code compares minutes and         *)
(* seconds; hours have the same boundaries and the same midnight.          *)
(***************************************************************************)
EXTENDS Naturals, FiniteSets

CONSTANTS
  Numbers,             \* telephone numbers
  Allowlist,           \* CBR_CALL_ALLOWLIST: the numbers this deployment may ring
  MinimumIntervalDays  \* CBR_MINIMUM_CALL_INTERVAL_DAYS

\* Production refuses an interval below one day (config.py).
ASSUME EligibilityAssumption ==
  /\ Allowlist \subseteq Numbers
  /\ MinimumIntervalDays \in Nat \ {0}

HoursPerDay == 24
DaysPerWeek == 7
Hours == 0 .. HoursPerDay - 1
Day(at) == at \div HoursPerDay
Hour(at) == at % HoursPerDay
Weekday(at) == Day(at) % DaysPerWeek

\* ConsentRequest: earliest may be later than latest, and the window then runs
\* over midnight.  validFrom and validUntil are days.
Terms ==
  {t \in [phone: Numbers, weekdays: (SUBSET (0 .. DaysPerWeek - 1)) \ {{}},
          earliest: Hours, latest: Hours, validFrom: Nat, validUntil: Nat,
          maxCalls: Nat \ {0}] : t.validFrom <= t.validUntil}

AllowlistPermits(number) == number \in Allowlist

\* Fault: a window over midnight is read as an empty one.
InWindowNeverOvernight(terms, hour) == terms.earliest <= hour /\ hour <= terms.latest

InWindow(terms, hour) ==
  IF terms.earliest <= terms.latest
  THEN terms.earliest <= hour /\ hour <= terms.latest
  ELSE hour >= terms.earliest \/ hour <= terms.latest

\* Fault: `<=` for `<` at the last allowed call.
ConsentPermitsOneTooMany(consent, at) ==
  /\ consent.status = "active"
  /\ consent.placed <= consent.terms.maxCalls
  /\ consent.terms.validFrom <= Day(at) /\ Day(at) <= consent.terms.validUntil
  /\ Weekday(at) \in consent.terms.weekdays
  /\ InWindow(consent.terms, Hour(at))

\* consent_permits
ConsentPermits(consent, at) ==
  /\ consent.status = "active"
  /\ consent.placed < consent.terms.maxCalls
  /\ consent.terms.validFrom <= Day(at) /\ Day(at) <= consent.terms.validUntil
  /\ Weekday(at) \in consent.terms.weekdays
  /\ InWindow(consent.terms, Hour(at))

\* spacing_permits; lastCalls holds the instants of the calls that count.
MinimumInterval == HoursPerDay * MinimumIntervalDays
SpacingPermits(lastCalls, at) == \A last \in lastCalls : last + MinimumInterval <= at

\* evaluate: allowed only if every gate agrees; the consents are then searched
\* for the first that permits the call.
Eligible(destination, suppressed, consents, lastCalls, at) ==
  /\ ~suppressed
  /\ AllowlistPermits(destination)
  /\ SpacingPermits(lastCalls, at)
  /\ \E k \in DOMAIN consents : ConsentPermits(consents[k], at)

\* Fault: the consents come in the order they were recorded.
ComesBeforeById(consents, j, k) == j <= k

\* The consents come ORDER BY valid_until, id; ids are random, so two that end on
\* the same day come in either order.
ComesBefore(consents, j, k) == consents[j].terms.validUntil <= consents[k].terms.validUntil

IsFirstPermitting(consents, k, at) ==
  /\ ConsentPermits(consents[k], at)
  /\ \A j \in DOMAIN consents : ConsentPermits(consents[j], at) => ComesBefore(consents, k, j)
=============================================================================
