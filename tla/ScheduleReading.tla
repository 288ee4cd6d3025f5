--------------------------- MODULE ScheduleReading ----------------------------
(***************************************************************************)
(* evidence/spoken.py, transcript.py, readback.py and reconcile.py: how    *)
(* opening hours are read out of a transcript, as it grows turn by turn.   *)
(*                                                                         *)
(* A turn is who speaks, the days and the times said in the order said,    *)
(* whether a range word joins the times, which of the word lists           *)
(* AFFIRMATIONS, HESITATIONS and UNCERTAINTY it uses, and which safety or  *)
(* disclosure phrases it holds.  Hours are whole.  A day or a time is in   *)
(* one of the forms that the scanner of spoken.py and the word lists of    *)
(* readback.py tell apart: the two do not know the same ones.              *)
(***************************************************************************)
EXTENDS CallEvidence, Sequences, FiniteSetsExt

CONSTANTS
  RecordValue, \* the hours the record holds
  Utterances,  \* what a turn may say, whoever says it
  Accounts,    \* the hours CALL-E's own account may report
  MaxTurns     \* bound: turns of a transcript

Roles == {"assistant", "provider", "system"}
Days == {"MO", "TU", "WE", "TH", "FR", "SA", "SU"}
Hours == 0 .. 23
Schedule == [days: SUBSET Days, open: Hours, close: Hours]

OnDay(d) == <<"day", d>>
Weekdays == <<"weekdays">>

\* "ten", "10", "10:00", and whether clock_times_in finds the half of the day beside it.
Hour(n, half) == <<"hour", n, half>>
\* "09:00" and "10h00": a clock time whose figures are no number word.
Clock(n) == <<"clock", n, "">>
\* "zero", and "thirteen" to "twentythree": number words that clock_times_in lacks.
Late(n) == <<"late", n, "">>
\* "1400": a number with more digits than clock_times_in takes for an hour.
Digits(n) == <<"digits", n, "">>

Word ==
  {OnDay(d) : d \in Days} \cup {Weekdays}
    \cup ({"hour"} \X Hours \X {"", "am", "pm"})
    \cup ({"clock", "digits"} \X Hours \X {""})
    \cup ({"late"} \X ({0} \cup 13 .. 23) \X {""})
Turn == [role: Roles, says: Seq(Word), joined: BOOLEAN,
         mood: SUBSET {"agrees", "hesitates", "uncertain"},
         phrases: SUBSET (SpokenKinds \cup {"automated"})]

-----------------------------------------------------------------------------
\* What the scanner of spoken.py hears in a sentence, and where.

\* day_mentions_in
DaysIn(word) ==
  CASE word[1] = "day" -> {word[2]}
    [] word[1] = "weekdays" -> Days \ {"SA", "SU"}
    [] OTHER -> {}
IsDay(word) == DaysIn(word) # {}

\* clock_times_in: which words are times to it, and at what hour.
IsTime(word) == word[1] \in {"hour", "clock"}
HourOf(time) ==
  CASE time[3] = "pm" /\ time[2] < 12 -> time[2] + 12
    [] time[3] = "am" /\ time[2] = 12 -> 0
    [] OTHER -> time[2]

DaysAt(turn) == {i \in DOMAIN turn.says : IsDay(turn.says[i])}
TimesAt(turn) == {i \in DOMAIN turn.says : IsTime(turn.says[i])}
DaysHeard(turn) == UNION {DaysIn(turn.says[i]) : i \in DaysAt(turn)}
TimesHeard(turn) == {turn.says[i] : i \in TimesAt(turn)}

\* _sessions: a day said after a time begins another session.
BeginsSession(says, j) ==
  /\ IsDay(says[j])
  /\ \E t \in 1 .. j - 1 : IsTime(says[t]) /\ \A k \in t + 1 .. j - 1 : ~IsDay(says[k])
SessionOf(says, i) == Cardinality({j \in 1 .. i : BeginsSession(says, j)})

\* Fault: sessions are not told apart.
NamesOneSessionOnly(turn) == FALSE

\* names_more_than_one_session: the times belong to different sessions, or days
\* are named in their session and outside it.
NamesMoreThanOneSession(turn) ==
  LET says == turn.says
      timed == {SessionOf(says, i) : i \in TimesAt(turn)}
  IN  /\ Cardinality(TimesAt(turn)) >= 2
      /\ \/ Cardinality(timed) # 1 \/ Cardinality(TimesAt(turn)) # 2
         \/ \E i, j \in DaysAt(turn) :
              SessionOf(says, i) \in timed /\ SessionOf(says, j) \notin timed

\* "ten until one" closes in the afternoon, if that makes a working day of it.
Closing(open, close) ==
  IF close <= open /\ close < 12 /\ close + 12 > open /\ close + 12 - open <= 12
  THEN close + 12 ELSE close

\* spoken_schedule: the value a sentence proposes, with the record's days when it
\* names none.  A day between the two times, which _is_a_range looks for as well,
\* would have begun a second session.
SpokenSchedule(turn) ==
  LET first == Min(TimesAt(turn))
      second == Min(TimesAt(turn) \ {first})
      days == IF DaysHeard(turn) = {} THEN RecordValue.days ELSE DaysHeard(turn)
      open == HourOf(turn.says[first])
      close == Closing(open, HourOf(turn.says[second]))
  IN  IF /\ Cardinality(TimesAt(turn)) >= 2 /\ ~NamesMoreThanOneSession(turn) /\ turn.joined
         /\ days # {} /\ open < close
      THEN [days |-> days, open |-> open, close |-> close] ELSE NoValue

\* The values are those of Schedule that the instance is about: the record's, the
\* accounts' and whatever a turn proposes.
ASSUME ReadingAssumption ==
  /\ Fields = {"schedule"} /\ MayAutoApply("schedule") /\ Removals = {}
  /\ Values \subseteq Schedule /\ {RecordValue} \cup Accounts \subseteq Values
  /\ Canonical = Fields \X Values
  /\ Utterances \subseteq Turn
  /\ \A turn \in Utterances : SpokenSchedule(turn) \in Values \cup {NoValue}
  /\ "completed" \in Telephony
  /\ MaxTurns \in Nat

-----------------------------------------------------------------------------
\* Whether a turn says a value back.

\* _time_forms: the number of an hour, on either dial.
Forms(hour) == {hour, IF hour % 12 = 0 THEN 12 ELSE hour % 12}

\* The words of a sentence are compared with DAY_FORMS and _time_forms as they stand,
\* whatever clock_times_in makes of them.
NamesDay(turn, d) == \E i \in DOMAIN turn.says : turn.says[i] = OnDay(d)
NamesHour(turn, hour) ==
  \E i \in DOMAIN turn.says :
    LET word == turn.says[i]
    IN  \/ word[1] \in {"hour", "late"} /\ word[2] \in Forms(hour)
        \/ word[1] = "digits" /\ word[2] = hour

\* _hits over value_evidence_groups: the days, the opening and the closing hour.
Parts(value) == Cardinality(value.days) + 2
Hits(turn, value) ==
  Cardinality({d \in value.days : NamesDay(turn, d)})
    + Cardinality({part \in {"open", "close"} : NamesHour(turn, value[part])})

\* _says_only, on the twelve hour dial: of what clock_times_in and day_codes_in hear.
SaysOnly(turn, value) ==
  /\ DaysHeard(turn) \subseteq value.days
  /\ {HourOf(w) % 12 : w \in TimesHeard(turn)}
       \subseteq {value.open % 12, value.close % 12}

\* _reads_back: the whole of a value, and nothing beyond it.
ReadsBack(turn, value) == Hits(turn, value) = Parts(value) /\ SaysOnly(turn, value)

\* Fault: a yes is a yes, whatever follows it.
AffirmsAtAll(turn) == "agrees" \in turn.mood

\* _affirms and is_hedged
Affirms(turn) == "agrees" \in turn.mood /\ "hesitates" \notin turn.mood

IsHedged(turn) == "uncertain" \in turn.mood

FromProvider(turn) == turn.role = "provider"

\* Fault: whoever speaks next may agree.
IsAgreedToByAnyone(turns, j) == j < Len(turns) /\ Affirms(turns[j + 1])

\* The provider's next turn after turn j agrees with it.
IsAgreedTo(turns, j) ==
  LET replies == {k \in j + 1 .. Len(turns) : FromProvider(turns[k])}
  IN  replies # {} /\ Affirms(turns[Min(replies)])

\* corroborate: the provider states half of it, the assistant then reads all of it
\* back, and the provider's next turn agrees.
IsCorroborated(turns, value) ==
  LET states(turn) == /\ FromProvider(turn)
                      /\ Hits(turn, value) >= (Parts(value) + 1) \div 2
      sources == {i \in 1 .. Len(turns) : states(turns[i])}
  IN  /\ sources # {}
      /\ \E j \in Min(sources) + 1 .. Len(turns) :
           /\ turns[j].role = "assistant" /\ ReadsBack(turns[j], value)
           /\ IsAgreedTo(turns, j)

-----------------------------------------------------------------------------
\* What the transcript and CALL-E's account make of the field together.

VARIABLES
  transcript, \* the turns normalize_turns kept
  account,    \* _caller_hint: the value CALL-E reports, or NoValue
  events,     \* the safety events of the evidence, if the call ended now
  claims,     \* its claims
  confirmed,  \* and its confirmations
  standing    \* history variable: how far each value has got in the conversation

readingVars == <<transcript, account, events, claims, confirmed, standing>>

\* _transcript_candidates: the turns that propose a change, in the order said.
Candidates(turns) ==
  {i \in 1 .. Len(turns) :
     /\ FromProvider(turns[i])
     /\ SpokenSchedule(turns[i]) \notin {NoValue, RecordValue}}

OnSchedule(value, grade) == [field |-> "schedule", value |-> value, grade |-> grade]

\* Fault: an account that agrees with the transcript stands in for the read-back.
GradeTrustingAccount(value, turn, several, hint, corroborated) ==
  Stated(\/ IsHedged(turn)
         \/ hint \notin {NoValue, value}
         \/ several /\ hint # value /\ ~corroborated,
         corroborated \/ hint = value)

\* What the account contradicts, or is one of several values of which none was
\* agreed to, is ambiguous.
GradeOf(value, turn, several, hint, corroborated) ==
  Stated(\/ IsHedged(turn)
         \/ hint \notin {NoValue, value}
         \/ several /\ ~corroborated,
         corroborated)

\* Fault: every candidate becomes a claim.
ClaimsReadAll(turns, hint) ==
  {OnSchedule(SpokenSchedule(turns[i]),
              GradeOf(SpokenSchedule(turns[i]), turns[i], FALSE, hint,
                      IsCorroborated(turns, SpokenSchedule(turns[i])))) : i \in Candidates(turns)}

\* _build_claim: the first candidate that is corroborated, else the first.
ClaimsRead(turns, hint) ==
  LET candidates == Candidates(turns)
      agreed == {i \in candidates : IsCorroborated(turns, SpokenSchedule(turns[i]))}
      first == {Min(s) : s \in {IF agreed = {} THEN candidates ELSE agreed} \ {{}}}
      claimed(i, value) ==
        OnSchedule(value, GradeOf(value, turns[i], Cardinality(candidates) > 1, hint, agreed # {}))
  IN  IF candidates # {} THEN {claimed(i, SpokenSchedule(turns[i])) : i \in first}
      ELSE {OnSchedule(v, HintOnly) : v \in {hint} \ {NoValue}}

\* _confirmation: the record was read out and agreed to.
RecordConfirmed(turns) ==
  \E j \in 1 .. Len(turns) :
    /\ turns[j].role = "assistant" /\ ReadsBack(turns[j], RecordValue)
    /\ IsAgreedTo(turns, j)

\* Fault: a field can be claimed and confirmed at once.
ConfirmedBesideClaim(turns, found) == IF RecordConfirmed(turns) THEN {"schedule"} ELSE {}

\* A confirmation counts when there is no claim.
ConfirmedFields(turns, found) ==
  IF found = {} /\ RecordConfirmed(turns) THEN {"schedule"} ELSE {}

\* scan_safety, over the provider's turns.
SafetyHeard(turns) ==
  UNION {turns[i].phrases \cap SpokenKinds : i \in {k \in 1 .. Len(turns) : FromProvider(turns[k])}}

\* disclosure_spoken: the assistant says what it is, in one of the first four turns.
DisclosureSpoken(turns) ==
  \E i \in 1 .. Len(turns) :
    i <= 4 /\ turns[i].role = "assistant" /\ "automated" \in turns[i].phrases

\* A call with a transcript and no disclosure is one more event.
EventsOf(turns) ==
  SafetyHeard(turns)
    \cup (IF turns = <<>> \/ DisclosureSpoken(turns) THEN {} ELSE {"no_disclosure"})

\* build_evidence, for a call that ends with these turns.
Read(turns, hint) ==
  /\ events' = EventsOf(turns)
  /\ claims' = ClaimsRead(turns, hint)
  /\ confirmed' = ConfirmedFields(turns, claims')

evidence == [outcome |-> ResolvedOutcome("completed", events), events |-> events,
             claims |-> claims, confirmed |-> confirmed]
decisions == Classify(evidence, {"schedule"})
verdict == Overall(decisions)

\* What record_verification applies unattended.
applied == IF NeedsAPerson(decisions) THEN {}
           ELSE {c \in claims : OnField("claim", APPLY, c.field) \in decisions}

-----------------------------------------------------------------------------
\* How a conversation goes.

\* What a turn does to the standing of a value: the provider raises it, the
\* assistant asks whether it is right, the provider agrees or does not.  Numbers are
\* those of the twelve hour dial, in whatever form they are said.
DialHours(value) == {value.open % 12, value.close % 12}
NumbersSaid(turn) ==
  {turn.says[i][2] % 12 : i \in {k \in DOMAIN turn.says : ~IsDay(turn.says[k])}}
NumbersHeard(turn) == {turn.says[i][2] % 12 : i \in TimesAt(turn)}

MentionsPart(turn, value) ==
  \/ DaysHeard(turn) \cap value.days # {}
  \/ NumbersSaid(turn) \cap DialHours(value) # {}
NamesInFull(turn, value) ==
  /\ DaysHeard(turn) = value.days
  /\ DialHours(value) \subseteq NumbersSaid(turn)
  /\ NumbersHeard(turn) \subseteq DialHours(value)

StandingAfter(turn, value) ==
  CASE standing[value] = "unsaid" /\ FromProvider(turn) /\ MentionsPart(turn, value) -> "raised"
    [] standing[value] = "raised" /\ turn.role = "assistant" /\ NamesInFull(turn, value) -> "asked"
    [] standing[value] = "asked" /\ FromProvider(turn) ->
         IF "agrees" \in turn.mood /\ "hesitates" \notin turn.mood THEN "agreed" ELSE "raised"
    [] OTHER -> standing[value]

ReadingInit ==
  /\ transcript = <<>> /\ account = NoValue
  /\ events = {} /\ claims = {} /\ confirmed = {}
  /\ standing = [v \in Values |-> "unsaid"]

Speak(turn) ==
  /\ Len(transcript) < MaxTurns /\ account = NoValue
  /\ transcript' = Append(transcript, turn)
  /\ Read(Append(transcript, turn), account)
  /\ standing' = [v \in Values |-> StandingAfter(turn, v)]
  /\ UNCHANGED account

\* CALL-E's account comes with the end of the call, after any number of turns.
Report(value) ==
  /\ account = NoValue
  /\ account' = value
  /\ Read(transcript, value)
  /\ UNCHANGED <<transcript, standing>>

ReadingNext == (\E turn \in Utterances : Speak(turn)) \/ (\E v \in Accounts : Report(v))

ReadingSpec == ReadingInit /\ [][ReadingNext]_readingVars

-----------------------------------------------------------------------------
\* Properties

\* However often the provider changed their mind, the evidence holds one claim for
\* the field (one_claim_per_field), and the policy reaches a verdict on it.
ScheduleTypeOK ==
  /\ \A i \in 1 .. Len(transcript) : transcript[i].role \in Roles
  /\ account \in Accounts \cup {NoValue}
  /\ evidence \in Evidence /\ OneClaimPerField(claims)
  /\ decisions # {}

\* A claim said to be read back has been through the whole exchange in order: the
\* provider raised it, the assistant then named its days and both its hours, with no
\* other day and no other time that clock_times_in knows for one, and the provider's
\* answer agreed without a reservation (corroborate), followed here turn by turn where
\* the code searches the finished transcript.  What is said beside it in words that
\* clock_times_in does not know is the subject of ReadBackSaysNothingElse.
ReadBackWasAgreed ==
  \A c \in claims : c.grade.readBack => standing[c.value] = "agreed"

\* Hours are applied with nobody looking only when they have been through that
\* exchange, CALL-E's account, if it came, reports the same, the assistant said in its
\* first turns what it is, and no provider turn held a phrase that ends a call
\* (classify_claim and record_verification, for what the reader makes of a transcript).
UnattendedWasAgreed ==
  \A c \in applied :
    /\ standing[c.value] = "agreed" /\ account \in {NoValue, c.value}
    /\ \E i \in 1 .. Len(transcript) :
         i <= 4 /\ transcript[i].role = "assistant" /\ "automated" \in transcript[i].phrases
    /\ \A i \in 1 .. Len(transcript) :
         FromProvider(transcript[i]) => transcript[i].phrases \cap SpokenKinds = {}

\* What the read-back is meant to establish (readback.py: the assistant says "the whole
\* value back to them, and nothing the value does not hold"): hours applied unattended
\* were agreed to in a sentence that names no other hour, however it is said.  The code
\* does not keep it.
ReadBackSaysNothingElse ==
  \A c \in applied :
    \E j \in 1 .. Len(transcript) :
      /\ transcript[j].role = "assistant" /\ IsAgreedTo(transcript, j)
      /\ DaysHeard(transcript[j]) = c.value.days
      /\ NumbersSaid(transcript[j]) = DialHours(c.value)

\* A value is never put together out of two sessions (names_more_than_one_session):
\* whatever hours a turn proposes, the times heard in it are the opening and the
\* closing one and no third, the days are those heard or else the record's, and
\* no day lies between the times, nor are there days on both sides of them.
ProposesOneSession ==
  \A i \in Candidates(transcript) :
    LET turn == transcript[i]
        value == SpokenSchedule(turn)
    IN  \E first, second \in TimesAt(turn) :
          /\ TimesAt(turn) = {first, second} /\ first < second
          /\ value.open = HourOf(turn.says[first])
          /\ value.close % 12 = HourOf(turn.says[second]) % 12
          /\ value.days = IF DaysHeard(turn) = {} THEN RecordValue.days ELSE DaysHeard(turn)
          /\ \/ \A d \in DaysAt(turn) : d < first
             \/ \A d \in DaysAt(turn) : d > second

\* Neither the assistant nor an unknown speaker settles anything (speaker_role): what
\* they say makes no claim and no confirmation, and no event but that the assistant did
\* not disclose itself.  That event a transcript has from its first turn; a turn of
\* theirs can only clear it, and none after the fourth (disclosure_spoken).
OnlyTheProviderSettles ==
  [][transcript' # transcript /\ ~FromProvider(transcript'[Len(transcript')]) =>
       /\ claims' = claims /\ confirmed' = confirmed
       /\ events' \ {"no_disclosure"} = events \ {"no_disclosure"}
       /\ transcript # <<>> => events' \subseteq events
       /\ Len(transcript) >= 4 => evidence' = evidence]_readingVars

\* CALL-E's account only removes confidence: it never makes the verdict milder and
\* never lets a value be applied (the reconciler's one rule).
AccountOnlyRemoves ==
  [][account' # account =>
       /\ verdict' >= verdict
       /\ verdict' = APPLY => verdict = APPLY]_readingVars

\* Every growing conversation is one that TranscriptReading, and so the policy's
\* properties, range over.
Reading == INSTANCE TranscriptReading WITH
  asked <- {"schedule"}, telephony <- "completed",
  Phrasings <- {{}} \cup {turn.phrases \cap SpokenKinds : turn \in Utterances}
ReadsAsAssumed == Reading!Spec
=============================================================================
