------------------------------ MODULE CallingHours -----------------------------
(***************************************************************************)
(* policy/call_eligibility.py hour by hour: one organization, its consents *)
(* and the calls it gets, while the clock runs.                            *)
(***************************************************************************)
EXTENDS CallEligibility

CONSTANTS
  OfferedTerms,  \* the terms the two consents may have
  Number,        \* the number that is rung
  LastHour       \* bound: the hour at which a run ends

ASSUME HoursAssumption ==
  /\ OfferedTerms \subseteq Terms /\ Number \in Numbers
  /\ LastHour \in Nat

VARIABLES
  hour,      \* the instant
  consents,  \* the organization's rows of provider_consents
  log        \* the calls placed: the instant and the consent charged

hoursVars == <<hour, consents, log>>

HoursInit ==
  /\ hour = 0
  /\ consents \in [1 .. 2 -> [status: {"active"}, terms: OfferedTerms, placed: {0}]]
  /\ log = {}

\* reserve_call reads the organization's calls newer than the cutoff.
Recent == {c.at : c \in {d \in log : d.at + MinimumInterval > hour}}
Permitted == Eligible(Number, FALSE, consents, Recent, hour)

PlaceCall ==
  /\ Permitted
  /\ \E k \in DOMAIN consents :
       /\ IsFirstPermitting(consents, k, hour)
       /\ consents' = [consents EXCEPT ![k].placed = @ + 1]
       /\ log' = log \cup {[at |-> hour, consent |-> k]}
  /\ UNCHANGED hour

Wait ==
  /\ hour < LastHour
  /\ hour' = hour + 1
  /\ UNCHANGED <<consents, log>>

HoursNext == PlaceCall \/ Wait
HoursSpec == HoursInit /\ [][HoursNext]_hoursVars

-----------------------------------------------------------------------------

\* The hours of the day a window covers, walking from its first to its last.
WindowHours(terms) ==
  LET length == (terms.latest + HoursPerDay - terms.earliest) % HoursPerDay
  IN  {(terms.earliest + i) % HoursPerDay : i \in 0 .. length}

AgreedTo(terms, at) ==
  /\ Hour(at) \in WindowHours(terms)
  /\ Day(at) \in terms.validFrom .. terms.validUntil
  /\ Weekday(at) \in terms.weekdays

ChargedTo(k) == {c \in log : c.consent = k}

\* A call is permitted exactly when this deployment may ring the number, some
\* consent agreed to this hour and has calls left by the log, and the log has no
\* call within the interval: windows over midnight, the last allowed call and the
\* exact end of the interval included (evaluate, consent_permits, spacing_permits).
PermittedAsAgreed ==
  Permitted <=>
    /\ Number \in Allowlist
    /\ \A c \in log : hour - c.at >= MinimumInterval
    /\ \E k \in DOMAIN consents :
         /\ AgreedTo(consents[k].terms, hour)
         /\ Cardinality(ChargedTo(k)) < consents[k].terms.maxCalls

\* A call is charged to an agreement that expires no later than any other it
\* could have been charged to, so that an allowance is not left to lapse
\* (reserve_call: ORDER BY valid_until,id).
ChargesTheSoonestToExpire ==
  [][\A c \in log' \ log : \A k \in DOMAIN consents :
       AgreedTo(consents[k].terms, hour) /\ Cardinality(ChargedTo(k)) < consents[k].terms.maxCalls
         => consents[c.consent].terms.validUntil <= consents[k].terms.validUntil]_hoursVars
=============================================================================
