-------------------------------- MODULE MCRules --------------------------------
(***************************************************************************)
(* The two rule books of policy/, each by itself: which calls are allowed, *)
(* over nine days with two consents (office hours, a window over midnight, *)
(* one hour only, from the second week on), and which evidence is applied, *)
(* over every transcript about a field that may be applied unattended and  *)
(* one that may not.  While one is explored the other is at rest, asking    *)
(* about what is never applied unattended: the least there is to offer.    *)
(***************************************************************************)
EXTENDS TranscriptReading, CallingHours

CONSTANTS said, other, ownLine

VARIABLE subject

On(days, first, last, from, until, allowance) ==
  [phone |-> ownLine, weekdays |-> days, earliest |-> first, latest |-> last,
   validFrom |-> from, validUntil |-> until, maxCalls |-> allowance]

MCOfferedTerms ==
  {On(0 .. 4, 9, 17, 0, 8, 2), On(0 .. 6, 22, 2, 1, 3, 1),
   On({0, 6}, 12, 12, 0, 9, 1), On(0 .. 6, 0, 23, 7, 8, 1)}

MCRemovals == {<<"status", said>>}
MCCanonical == {<<"schedule", said>>, <<"status", said>>, <<"status", other>>}
MCPhrasings == {{}, {"stop_requested"}, {"wrong_party"}, {"distress", "reached_client"}}
MCEventSets == {{}, {"stop_requested"}, {"wrong_party", "no_disclosure"}}

RulesInit ==
  /\ Init /\ HoursInit
  /\ \/ /\ subject = "evidence"
        /\ \A k \in DOMAIN consents : consents[k].terms = CHOOSE t \in OfferedTerms : TRUE
     \/ subject = "calls" /\ asked = NeverAutoApply /\ telephony = "completed"

RulesNext ==
  /\ \/ subject = "evidence" /\ Next /\ UNCHANGED hoursVars
     \/ subject = "calls" /\ HoursNext /\ UNCHANGED vars
  /\ UNCHANGED subject

RulesSpec == RulesInit /\ [][RulesNext]_<<vars, hoursVars, subject>>
=============================================================================
