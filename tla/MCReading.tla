------------------------------- MODULE MCReading ------------------------------
(***************************************************************************)
(* Conversations of five turns about a record of Wednesdays nine to twelve *)
(* that moved to ten until one, or was understood as eleven to two.        *)
(***************************************************************************)
EXTENDS ScheduleReading

Sentence(role, says, mood) ==
  [role |-> role, says |-> says, joined |-> TRUE, mood |-> mood, phrases |-> {}]
Apart(sentence) == [sentence EXCEPT !.joined = FALSE]
Saying(sentence, phrases) == [sentence EXCEPT !.phrases = phrases]

Ten == Hour(10, "")
One == Hour(1, "")
TenToOne == <<OnDay("WE"), Ten, One>>
ElevenToTwo == <<OnDay("WE"), Hour(11, ""), Hour(2, "pm")>>
OnRecord == <<OnDay("WE"), Hour(9, ""), Hour(12, "")>>
TwoSessions == <<OnDay("WE"), Ten, One, OnDay("TH"), Hour(2, ""), Hour(4, "")>>
\* "Ten to one and fourteen to sixteen", and "ten to thirteen and ...".
TenToOneAndMore == <<OnDay("WE"), Ten, One, Late(14), Late(16)>>
TenToThirteenAndMore == <<OnDay("WE"), Ten, Late(13), Late(14), Digits(16)>>

Greeting == Saying(Sentence("assistant", OnRecord, {}), {"automated"})
PlainYes == Sentence("provider", <<>>, {"agrees"})

\* The reservations, corrections and hedges a provider may put to a value.
MCUtterances ==
  {Greeting, PlainYes}
  \cup {Sentence("assistant", says, {}) :
          says \in {TenToOne, ElevenToTwo, TwoSessions, TenToThirteenAndMore}}
  \cup {Apart(Sentence("provider", <<Hour(11, ""), Hour(2, "")>>, {"agrees", "hesitates"})),
        Sentence("provider", <<Ten, One>>, {}),
        Saying(Sentence("provider", <<Weekdays, Clock(9), Clock(13)>>, {}), {"stop_requested"}),
        Sentence("provider", ElevenToTwo, {"hesitates", "uncertain"}),
        Sentence("provider", TwoSessions, {"agrees"}),
        Saying(Sentence("system", TenToOne, {"agrees"}), {"automated", "wrong_party"})}

\* One more session than the record can hold, said in words that only one of the two
\* readers knows.
MCSaidMore ==
  {Greeting, PlainYes}
  \cup {Sentence(role, says, {}) :
          role \in {"assistant", "provider"}, says \in {TenToOneAndMore, TenToThirteenAndMore}}

Wednesdays(open, close) == [days |-> {"WE"}, open |-> open, close |-> close]
MCRecord == Wednesdays(9, 12)
MCAccounts == {Wednesdays(10, 13), Wednesdays(11, 14)}
\* What two sessions taken for one would come to is a value as well.
MCValues ==
  {MCRecord, [days |-> {"WE", "TH"}, open |-> 10, close |-> 13],
   [days |-> Days \ {"SA", "SU"}, open |-> 9, close |-> 13]} \cup MCAccounts
MCCanonical == Fields \X Values
MCRemovals == {}
MCEventSets == {{}}
=============================================================================
