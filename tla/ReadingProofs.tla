----------------------------- MODULE ReadingProofs ----------------------------
(***************************************************************************)
(* How opening hours are read out of a conversation, for any number of     *)
(* turns, any record, any account and whatever may be said.                *)
(***************************************************************************)
EXTENDS ScheduleReading, CommonProofs, FiniteSetTheorems, WellFoundedInduction

-----------------------------------------------------------------------------
\* Numbers and small sets.

\* A set of numbers has a least one, and it is Min's.
LEMMA MinOf ==
  ASSUME NEW S \in SUBSET Nat, S # {}
  PROVE  Min(S) \in S /\ \A x \in S : Min(S) <= x
<1>. DEFINE R == {ss \in Nat \X Nat : ss[1] < ss[2]}
<1>1. IsWellFoundedOn(R, Nat)
  BY NatLessThanWellFounded DEF OpToRel
<1>2. \A a, b \in Nat : a < b => <<a, b>> \in R
  OBVIOUS
<1>. HIDE DEF R
<1>3. PICK x \in S : \A y \in S : ~ (<<y, x>> \in R)
  BY <1>1, WFMin
<1>4. ASSUME NEW y \in S PROVE x <= y
  <2>1. x \in Nat /\ y \in Nat
    OBVIOUS
  <2>2. ~(y < x)
    BY <1>2, <1>3, <2>1
  <2>. QED
    BY <2>1, <2>2
<1>. QED
  BY <1>4 DEF Min

LEMMA MinIs ==
  ASSUME NEW S \in SUBSET Nat, NEW x \in S, \A y \in S : x <= y
  PROVE  Min(S) = x
<1>1. Min(S) \in S /\ Min(S) <= x
  BY MinOf
<1>2. x <= Min(S) /\ Min(S) \in Nat /\ x \in Nat
  BY <1>1
<1>. QED
  BY <1>1, <1>2

\* The days of a week are finitely many.
LEMMA DaysFinite ==
  ASSUME NEW S \in SUBSET Days
  PROVE  IsFiniteSet(S) /\ Cardinality(S) \in Nat
<1>1. IsFiniteSet({"MO"} \cup {"TU"} \cup {"WE"} \cup {"TH"} \cup {"FR"} \cup {"SA"} \cup {"SU"})
  BY FS_Singleton, FS_Union
<1>2. Days = {"MO"} \cup {"TU"} \cup {"WE"} \cup {"TH"} \cup {"FR"} \cup {"SA"} \cup {"SU"}
  BY DEF Days
<1>3. IsFiniteSet(S)
  BY <1>1, <1>2, FS_Subset
<1>. QED
  BY <1>3, FS_CardinalityType

\* How many of the two hours a turn may say.
Ends == {"open", "close"}
LEMMA EndsCounted ==
  ASSUME NEW S \in SUBSET Ends
  PROVE  /\ Cardinality(S) \in 0 .. 2
         /\ Cardinality(S) = 0 <=> S = {}
         /\ Cardinality(S) = 2 <=> S = Ends
<1>1. IsFiniteSet(Ends) /\ Cardinality(Ends) = 2
  <2>1. IsFiniteSet({"open"}) /\ Cardinality({"open"}) = 1
    BY FS_Singleton
  <2>2. Ends = {"open"} \cup {"close"} /\ "close" \notin {"open"}
    BY DEF Ends
  <2>. QED
    BY <2>1, <2>2, FS_AddElement
<1>2. IsFiniteSet(S) /\ Cardinality(S) <= 2 /\ (Cardinality(S) = 2 => S = Ends)
  BY <1>1, FS_Subset
<1>3. Cardinality(S) \in Nat /\ (Cardinality(S) = 0 <=> S = {})
  BY <1>2, FS_CardinalityType, FS_EmptySet
<1>. QED
  BY <1>1, <1>2, <1>3

-----------------------------------------------------------------------------
\* Words and hours.

\* A word is a day, or a time in some form.
LEMMA WordForms ==
  ASSUME NEW w \in Word
  PROVE  \/ \E d \in Days : w = OnDay(d)
         \/ w = Weekdays
         \/ w[1] \in {"hour", "clock", "late", "digits"} /\ w[2] \in Hours
<1>1. CASE w \in {OnDay(d) : d \in Days} \cup {Weekdays}
  BY <1>1
<1>2. CASE w \in {"hour"} \X Hours \X {"", "am", "pm"}
  BY <1>2
<1>3. CASE w \in {"clock", "digits"} \X Hours \X {""}
  BY <1>3
<1>4. CASE w \in {"late"} \X ({0} \cup 13 .. 23) \X {""}
  <2>1. w[1] = "late" /\ w[2] \in {0} \cup 13 .. 23
    BY <1>4
  <2>2. \A n \in {0} \cup 13 .. 23 : n \in Hours
    BY DEF Hours
  <2>. QED
    BY <2>1, <2>2
<1>. QED
  BY <1>1, <1>2, <1>3, <1>4 DEF Word

\* What is heard in a word: days in one, the number of the dial in any other.
LEMMA Words ==
  ASSUME NEW w \in Word
  PROVE  /\ DaysIn(w) \subseteq Days
         /\ IsTime(w) => ~IsDay(w)
         /\ ~IsDay(w) => /\ w[2] \in Hours /\ HourOf(w) \in Hours
                         /\ HourOf(w) % 12 = w[2] % 12
<1>1. CASE \E d \in Days : w = OnDay(d)
  <2>1. PICK d \in Days : w = <<"day", d>>
    BY <1>1 DEF OnDay
  <2>2. w[1] = "day" /\ w[2] = d
    BY <2>1
  <2>. QED
    BY <2>2 DEF DaysIn, IsTime, IsDay
<1>2. CASE w = Weekdays
  <2>1. w[1] = "weekdays"
    BY <1>2 DEF Weekdays
  <2>2. DaysIn(w) = Days \ {"SA", "SU"} /\ DaysIn(w) # {}
    BY <2>1 DEF DaysIn, Days
  <2>. QED
    BY <2>1, <2>2 DEF IsTime, IsDay
<1>3. CASE w[1] \in {"hour", "clock", "late", "digits"} /\ w[2] \in Hours
  <2>1. DaysIn(w) = {} /\ ~IsDay(w)
    BY <1>3 DEF DaysIn, IsDay
  <2>. DEFINE n == w[2]  late == w[3] = "pm"  early == w[3] = "am"
  <2>2. HourOf(w) = IF late /\ n < 12 THEN n + 12 ELSE IF early /\ n = 12 THEN 0 ELSE n
    BY DEF HourOf
  <2>3. n \in 0 .. 23
    BY <1>3 DEF Hours
  <2>. HIDE DEF n, late, early
  <2>4. HourOf(w) \in 0 .. 23 /\ HourOf(w) % 12 = n % 12
    BY <2>2, <2>3
  <2>. QED
    BY <1>3, <2>1, <2>4 DEF n, Hours
<1>. QED
  BY <1>1, <1>2, <1>3, WordForms

\* A number said for an hour is that hour on the twelve hour dial.
LEMMA HourForms ==
  ASSUME NEW n \in Hours, NEW hour \in Hours, n \in Forms(hour) \/ n = hour
  PROVE  n % 12 = hour % 12
<1>1. n \in 0 .. 23 /\ hour \in 0 .. 23
  BY DEF Hours
<1>2. n = hour \/ n = IF hour % 12 = 0 THEN 12 ELSE hour % 12
  BY DEF Forms
<1>. QED
  BY <1>1, <1>2

\* A closing hour moved to the afternoon is the hour said, twelve hours later.
LEMMA ClosingHour ==
  ASSUME NEW open \in Hours, NEW close \in Hours
  PROVE  /\ Closing(open, close) \in Hours
         /\ Closing(open, close) % 12 = close % 12
         /\ Closing(open, close) = close \/ (close < 12 /\ Closing(open, close) = close + 12)
<1>1. open \in 0 .. 23 /\ close \in 0 .. 23
  BY DEF Hours
<1>2. Closing(open, close) = close \/ (close < 12 /\ Closing(open, close) = close + 12)
  BY <1>1 DEF Closing
<1>3. Closing(open, close) \in 0 .. 23 /\ Closing(open, close) % 12 = close % 12
  BY <1>1, <1>2
<1>. QED
  BY <1>2, <1>3 DEF Hours

-----------------------------------------------------------------------------
\* What a turn says.

\* The words of a turn, and the places of its times.
LEMMA TurnWords ==
  ASSUME NEW turn \in Turn
  PROVE  /\ DOMAIN turn.says \subseteq Nat \ {0}
         /\ \A i \in DOMAIN turn.says : turn.says[i] \in Word /\ 1 .. i \subseteq DOMAIN turn.says
         /\ TimesAt(turn) \subseteq DOMAIN turn.says /\ IsFiniteSet(TimesAt(turn))
         /\ \A i \in TimesAt(turn) :
              ~IsDay(turn.says[i]) /\ HourOf(turn.says[i]) \in Hours
<1>1. turn.says \in Seq(Word)
  BY DEF Turn
<1>2. /\ \A i \in DOMAIN turn.says : turn.says[i] \in Word
      /\ DOMAIN turn.says = 1 .. Len(turn.says) /\ Len(turn.says) \in Nat
  BY <1>1
<1>3. TimesAt(turn) \subseteq DOMAIN turn.says
  BY DEF TimesAt
<1>4. \A i \in TimesAt(turn) : ~IsDay(turn.says[i]) /\ HourOf(turn.says[i]) \in Hours
  BY <1>2, Words DEF TimesAt
<1>5. IsFiniteSet(TimesAt(turn))
  <2>1. 1 \in Int /\ Len(turn.says) \in Int
    BY <1>2
  <2>2. IsFiniteSet(1 .. Len(turn.says))
    BY <2>1, FS_Interval
  <2>. QED
    BY <1>2, <1>3, <2>2, FS_Subset
<1>6. \A i \in DOMAIN turn.says : 1 .. i \subseteq DOMAIN turn.says
  BY <1>2
<1>. QED
  BY <1>2, <1>3, <1>4, <1>5, <1>6

\* The times that are heard, by their number on the dial, are among those said.
LEMMA NumbersOf ==
  ASSUME NEW turn \in Turn
  PROVE  /\ NumbersHeard(turn) = {HourOf(w) % 12 : w \in TimesHeard(turn)}
         /\ \A hour \in Hours : NamesHour(turn, hour) => hour % 12 \in NumbersSaid(turn)
         /\ \A d \in Days : NamesDay(turn, d) => d \in DaysHeard(turn)
<1>1. NumbersHeard(turn) = {HourOf(w) % 12 : w \in TimesHeard(turn)}
  <2>1. \A i \in TimesAt(turn) : turn.says[i][2] % 12 = HourOf(turn.says[i]) % 12
    BY TurnWords, Words
  <2>2. {HourOf(w) % 12 : w \in TimesHeard(turn)} = {HourOf(turn.says[i]) % 12 : i \in TimesAt(turn)}
    BY DEF TimesHeard
  <2>. QED
    BY <2>1, <2>2 DEF NumbersHeard
<1>2. ASSUME NEW hour \in Hours, NamesHour(turn, hour) PROVE hour % 12 \in NumbersSaid(turn)
  <2>1. PICK i \in DOMAIN turn.says :
          /\ turn.says[i][1] \in {"hour", "late", "digits"}
          /\ turn.says[i][2] \in Forms(hour) \/ turn.says[i][2] = hour
    BY <1>2 DEF NamesHour
  <2>2. turn.says[i] \in Word /\ ~IsDay(turn.says[i])
    BY <2>1, TurnWords DEF IsDay, DaysIn
  <2>3. turn.says[i][2] % 12 = hour % 12
    BY <1>2, <2>1, <2>2, Words, HourForms
  <2>. QED
    BY <2>2, <2>3 DEF NumbersSaid
<1>3. ASSUME NEW d \in Days, NamesDay(turn, d) PROVE d \in DaysHeard(turn)
  <2>1. PICK i \in DOMAIN turn.says : turn.says[i] = <<"day", d>>
    BY <1>3 DEF NamesDay, OnDay
  <2>2. turn.says[i][1] = "day" /\ turn.says[i][2] = d
    BY <2>1
  <2>3. DaysIn(turn.says[i]) = {d}
    BY <2>2 DEF DaysIn
  <2>. QED
    BY <2>3 DEF DaysHeard, DaysAt, IsDay
<1>. QED
  BY <1>1, <1>2, <1>3

-----------------------------------------------------------------------------
\* One session

\* No day has begun another session at a place exactly when its session is the first.
LEMMA FirstSession ==
  ASSUME NEW says, NEW i \in Nat
  PROVE  /\ SessionOf(says, i) = 0 <=> \A j \in 1 .. i : ~BeginsSession(says, j)
         /\ SessionOf(says, i) \in Nat
<1>. DEFINE begun == {j \in 1 .. i : BeginsSession(says, j)}
<1>1. IsFiniteSet(1 .. i) /\ begun \subseteq 1 .. i
  BY FS_Interval
<1>2. IsFiniteSet(begun)
  BY <1>1, FS_Subset
<1>3. Cardinality(begun) \in Nat /\ (Cardinality(begun) = 0 <=> begun = {})
  BY <1>2, FS_CardinalityType, FS_EmptySet
<1>. QED
  BY <1>3 DEF SessionOf

\* If a day comes after a time, the first that does begins a session.
LEMMA SessionBegun ==
  ASSUME NEW turn \in Turn, NEW t \in TimesAt(turn), NEW d \in DaysAt(turn), t < d
  PROVE  \E j \in t + 1 .. d : BeginsSession(turn.says, j)
<1>. DEFINE later == {k \in t + 1 .. d : IsDay(turn.says[k])}
            j == Min(later)
<1>1. t \in Nat \ {0} /\ d \in Nat \ {0} /\ IsTime(turn.says[t]) /\ IsDay(turn.says[d])
  BY TurnWords DEF TimesAt, DaysAt
<1>2. later \in SUBSET Nat /\ d \in later
  BY <1>1
<1>3. \A k : k \in later <=> k \in t + 1 .. d /\ IsDay(turn.says[k])
  OBVIOUS
<1>. HIDE DEF later
<1>4. j \in later /\ \A k \in later : j <= k
  BY <1>2, MinOf
<1>. HIDE DEF j
<1>5. j \in t + 1 .. d /\ IsDay(turn.says[j]) /\ j \in Nat
  BY <1>1, <1>3, <1>4
<1>6. ASSUME NEW k \in t + 1 .. j - 1 PROVE ~IsDay(turn.says[k])
  <2>1. k \in t + 1 .. d /\ ~(j <= k)
    BY <1>1, <1>5
  <2>. QED
    BY <1>3, <1>4, <2>1
<1>7. t \in 1 .. j - 1
  BY <1>1, <1>5
<1>. QED
  BY <1>1, <1>5, <1>6, <1>7 DEF BeginsSession

\* A turn that proposes a value says exactly two times, the opening hour and then the
\* closing one, and names the days, or takes the record's, on one side of them
\* (spoken_schedule).
LEMMA Spoken ==
  ASSUME NEW turn \in Turn, SpokenSchedule(turn) # NoValue
  PROVE  LET value == SpokenSchedule(turn)
         IN  \E first, second \in TimesAt(turn) :
               /\ TimesAt(turn) = {first, second} /\ first < second
               /\ value.open = HourOf(turn.says[first])
               /\ value.close % 12 = HourOf(turn.says[second]) % 12
               /\ value.days = IF DaysHeard(turn) = {} THEN RecordValue.days ELSE DaysHeard(turn)
               /\ \/ \A d \in DaysAt(turn) : d < first
                  \/ \A d \in DaysAt(turn) : d > second
<1>. DEFINE T == TimesAt(turn)
            first == Min(T)
            second == Min(T \ {first})
            days == IF DaysHeard(turn) = {} THEN RecordValue.days ELSE DaysHeard(turn)
            open == HourOf(turn.says[first])
            close == Closing(open, HourOf(turn.says[second]))
            timed == {SessionOf(turn.says, i) : i \in T}
<1>1. /\ Cardinality(T) >= 2 /\ ~NamesMoreThanOneSession(turn)
      /\ SpokenSchedule(turn) = [days |-> days, open |-> open, close |-> close]
  BY DEF SpokenSchedule
<1>2. T \in SUBSET Nat /\ IsFiniteSet(T)
  BY TurnWords
<1>3. /\ Cardinality(T) = 2 /\ Cardinality(timed) = 1
      /\ \A i, j \in DaysAt(turn) :
           SessionOf(turn.says, i) \in timed => SessionOf(turn.says, j) \in timed
  BY <1>1 DEF NamesMoreThanOneSession
<1>. HIDE DEF T
<1>4. first \in T /\ \A t \in T : first <= t
  <2>1. T # {}
    BY <1>3, FS_EmptySet
  <2>. QED
    BY <1>2, <2>1, MinOf
<1>5. PICK q : T \ {first} = {q}
  <2>1. IsFiniteSet(T \ {first}) /\ Cardinality(T \ {first}) = 1
    BY <1>2, <1>3, <1>4, FS_RemoveElement
  <2>. QED
    BY <2>1, FS_Singleton
<1>6. second = q
  <2>. DEFINE rest == T \ {first}
  <2>1. rest \in SUBSET Nat /\ rest = {q} /\ q \in Nat
    BY <1>2, <1>5
  <2>. HIDE DEF rest
  <2>2. Min(rest) = q
    BY <2>1, MinOf
  <2>. QED
    BY <2>2 DEF rest
<1>. HIDE DEF first, second
<1>7. T = {first, second} /\ first \in Nat /\ second \in Nat /\ first < second
  <2>1. first \in T /\ q \in T /\ q # first /\ T = {first, q}
    BY <1>4, <1>5
  <2>2. first \in Nat /\ q \in Nat /\ first <= q
    BY <1>2, <1>4, <2>1
  <2>. QED
    BY <1>6, <2>1, <2>2
<1>8. close % 12 = HourOf(turn.says[second]) % 12
  <2>1. open \in Hours /\ HourOf(turn.says[second]) \in Hours
    BY <1>7, TurnWords DEF T
  <2>. QED
    BY <2>1, ClosingHour
<1>9. ASSUME NEW i \in Nat, i <= first PROVE SessionOf(turn.says, i) = 0
  <2>1. ASSUME NEW j \in 1 .. i, BeginsSession(turn.says, j) PROVE FALSE
    <3>1. PICK t \in 1 .. j - 1 : IsTime(turn.says[t])
      BY <2>1 DEF BeginsSession
    <3>2. t \in Nat /\ t < first /\ t \in 1 .. first
      BY <1>7, <1>9, <3>1
    <3>3. t \in T
      BY <1>7, <3>1, <3>2, TurnWords DEF T, TimesAt
    <3>. QED
      BY <1>4, <1>7, <3>2, <3>3
  <2>. QED
    BY <2>1, FirstSession
<1>10. timed = {0}
  <2>1. SessionOf(turn.says, first) = 0
    BY <1>7, <1>9
  <2>2. 0 \in timed
    BY <1>4, <2>1
  <2>. HIDE DEF timed
  <2>3. IsFiniteSet(timed)
    <3>1. timed = {SessionOf(turn.says, first)} \cup {SessionOf(turn.says, second)}
      BY <1>7 DEF timed
    <3>. QED
      BY <3>1, FS_Singleton, FS_Union
  <2>4. PICK n : timed = {n}
    BY <1>3, <2>3, FS_Singleton
  <2>. QED
    BY <2>2, <2>4
<1>11. ASSUME NEW d \in DaysAt(turn), d < second PROVE d < first
  <2>1. d \in Nat /\ d # first
    BY <1>7, TurnWords DEF T, DaysAt
  <2>2. ASSUME first < d PROVE FALSE
    <3>1. PICK j \in first + 1 .. d : BeginsSession(turn.says, j)
      BY <1>7, <2>2, SessionBegun DEF T
    <3>2. j \in 1 .. second
      BY <1>7, <1>11, <2>1, <3>1
    <3>3. SessionOf(turn.says, second) # 0
      BY <1>7, <3>1, <3>2, FirstSession
    <3>. QED
      BY <1>7, <1>10, <3>3
  <2>. QED
    BY <1>7, <2>1, <2>2
<1>12. ASSUME NEW d \in DaysAt(turn), NEW e \in DaysAt(turn), d < first, second < e PROVE FALSE
  <2>1. d \in Nat /\ e \in Nat
    BY TurnWords DEF DaysAt
  <2>2. SessionOf(turn.says, d) \in timed
    BY <1>7, <1>9, <1>10, <1>12, <2>1
  <2>3. PICK j \in second + 1 .. e : BeginsSession(turn.says, j)
    BY <1>7, <1>12, SessionBegun DEF T
  <2>4. j \in 1 .. e
    BY <1>7, <2>1, <2>3
  <2>5. SessionOf(turn.says, e) # 0
    BY <2>1, <2>3, <2>4, FirstSession
  <2>. QED
    BY <1>3, <1>10, <2>2, <2>5
<1>13. \/ \A d \in DaysAt(turn) : d < first
       \/ \A d \in DaysAt(turn) : d > second
  <2>1. \A d \in DaysAt(turn) : d \in Nat /\ d # second
    BY <1>7, TurnWords DEF T, DaysAt
  <2>. QED
    BY <1>7, <1>11, <1>12, <2>1
<1>. HIDE DEF days, open, close, timed
<1>14. /\ SpokenSchedule(turn).open = open
       /\ SpokenSchedule(turn).close = close
       /\ SpokenSchedule(turn).days = days
  BY <1>1
<1>. QED
  BY <1>7, <1>8, <1>13, <1>14 DEF T, days, open

-----------------------------------------------------------------------------
\* What is raised and what is read back.

LEMMA ScheduleFields ==
  ASSUME NEW value \in Schedule
  PROVE  /\ value.days \in SUBSET Days /\ value.open \in Hours /\ value.close \in Hours
         /\ \A part \in Ends : value[part] \in Hours
         /\ Parts(value) \in Nat /\ Parts(value) >= 2
<1>1. value.days \in SUBSET Days /\ value.open \in Hours /\ value.close \in Hours
  BY DEF Schedule
<1>. QED
  BY <1>1, DaysFinite DEF Ends, Parts

\* How many parts of a value a turn hits: no more than there are, none unless it says
\* one, and all of them only if it says every day and both hours.
LEMMA HitsCounted ==
  ASSUME NEW turn \in Turn, NEW value \in Schedule
  PROVE  /\ Hits(turn, value) \in 0 .. Parts(value)
         /\ Hits(turn, value) > 0 => MentionsPart(turn, value)
         /\ Hits(turn, value) = Parts(value) =>
              /\ value.days \subseteq DaysHeard(turn)
              /\ DialHours(value) \subseteq NumbersSaid(turn)
<1>. DEFINE heard == {part \in Ends : NamesHour(turn, value[part])}
            named == {d \in value.days : NamesDay(turn, d)}
<1>1. Hits(turn, value) = Cardinality(named) + Cardinality(heard)
  BY DEF Hits, Ends
<1>2. heard \in SUBSET Ends /\ named \in SUBSET value.days
  OBVIOUS
<1>3. /\ \A part \in heard : value[part] % 12 \in NumbersSaid(turn)
      /\ \A d \in named : d \in DaysHeard(turn)
  BY ScheduleFields, NumbersOf
<1>4. /\ Cardinality(named) \in Nat /\ Cardinality(value.days) \in Nat
      /\ Cardinality(named) <= Cardinality(value.days)
      /\ Cardinality(named) = Cardinality(value.days) => named = value.days
      /\ Cardinality(named) = 0 <=> named = {}
  BY <1>2, ScheduleFields, DaysFinite, FS_Subset, FS_EmptySet
<1>. HIDE DEF heard, named
<1>5. /\ Cardinality(heard) \in 0 .. 2
      /\ Cardinality(heard) = 0 <=> heard = {}
      /\ Cardinality(heard) = 2 <=> heard = Ends
  BY <1>2, EndsCounted
<1>6. Hits(turn, value) \in 0 .. Parts(value)
  BY <1>1, <1>4, <1>5 DEF Parts
<1>7. DialHours(value) = {value[part] % 12 : part \in Ends}
  BY DEF DialHours, Ends
<1>8. ASSUME Hits(turn, value) > 0 PROVE MentionsPart(turn, value)
  <2>1. named # {} \/ heard # {}
    BY <1>1, <1>4, <1>5, <1>8
  <2>2. CASE named # {}
    BY <1>2, <1>3, <2>2 DEF MentionsPart
  <2>3. CASE heard # {}
    BY <1>2, <1>3, <1>7, <2>3 DEF MentionsPart
  <2>. QED
    BY <2>1, <2>2, <2>3
<1>9. ASSUME Hits(turn, value) = Parts(value) PROVE named = value.days /\ heard = Ends
  BY <1>1, <1>4, <1>5, <1>9 DEF Parts
<1>. QED
  BY <1>3, <1>6, <1>7, <1>8, <1>9

\* The provider states half of a value.
States(turn, value) ==
  FromProvider(turn) /\ Hits(turn, value) >= (Parts(value) + 1) \div 2

\* Who states half of a value mentions a part of it.
LEMMA StatedIsMentioned ==
  ASSUME NEW turn \in Turn, NEW value \in Schedule, States(turn, value)
  PROVE  FromProvider(turn) /\ MentionsPart(turn, value)
<1>1. Parts(value) \in Nat /\ Parts(value) >= 2
  BY ScheduleFields
<1>2. (Parts(value) + 1) \div 2 >= 1
  BY <1>1
<1>3. Hits(turn, value) \in Nat /\ (Parts(value) + 1) \div 2 \in Nat
  BY <1>1, HitsCounted
<1>. QED
  BY <1>2, <1>3, HitsCounted DEF States

\* What reads a value back names its days and both its hours, and no other day or time
\* that is heard.
LEMMA ReadBackIsNamed ==
  ASSUME NEW turn \in Turn, NEW value \in Schedule, ReadsBack(turn, value)
  PROVE  NamesInFull(turn, value)
<1>1. /\ value.days \subseteq DaysHeard(turn)
      /\ DialHours(value) \subseteq NumbersSaid(turn)
  BY HitsCounted DEF ReadsBack
<1>2. /\ DaysHeard(turn) \subseteq value.days
      /\ NumbersHeard(turn) \subseteq DialHours(value)
  BY NumbersOf DEF ReadsBack, SaysOnly, DialHours
<1>. QED
  BY <1>1, <1>2 DEF NamesInFull

-----------------------------------------------------------------------------
\* A conversation as it grows.

Conversation == Seq(Utterances)

\* Somebody of the provider's has spoken since turn j.
Answered(turns, j) == \E k \in j + 1 .. Len(turns) : FromProvider(turns[k])

\* Turn j says a value back that the provider had stated.
ReadAfter(turns, value, j) ==
  /\ turns[j].role = "assistant" /\ ReadsBack(turns[j], value)
  /\ \E i \in 1 .. j - 1 : States(turns[i], value)

LEMMA Turns ==
  ASSUME NEW turns \in Conversation
  PROVE  /\ Len(turns) \in Nat
         /\ \A i \in 1 .. Len(turns) : turns[i] \in Utterances /\ turns[i] \in Turn
<1>1. Len(turns) \in Nat /\ \A i \in 1 .. Len(turns) : turns[i] \in Utterances
  BY DEF Conversation
<1>2. Utterances \subseteq Turn
  BY ReadingAssumption
<1>. QED
  BY <1>1, <1>2

LEMMA Appended ==
  ASSUME NEW turns \in Conversation, NEW turn \in Utterances
  PROVE  LET after == Append(turns, turn)
         IN  /\ after \in Conversation /\ Len(after) = Len(turns) + 1
             /\ after[Len(turns) + 1] = turn
             /\ \A i \in 1 .. Len(turns) : after[i] = turns[i]
BY DEF Conversation

\* A read-back is agreed to when the first of the provider's turns after it agrees.
LEMMA AgreedMeans ==
  ASSUME NEW turns \in Conversation, NEW j \in Nat
  PROVE  IsAgreedTo(turns, j) <=>
           \E k \in j + 1 .. Len(turns) :
             /\ FromProvider(turns[k]) /\ Affirms(turns[k])
             /\ \A i \in j + 1 .. k - 1 : ~FromProvider(turns[i])
<1>. DEFINE replies == {k \in j + 1 .. Len(turns) : FromProvider(turns[k])}
<1>1. IsAgreedTo(turns, j) <=> replies # {} /\ Affirms(turns[Min(replies)])
  BY DEF IsAgreedTo
<1>2. Len(turns) \in Nat
  BY Turns
<1>3. replies \in SUBSET Nat
  OBVIOUS
<1>4. ASSUME IsAgreedTo(turns, j)
      PROVE  \E k \in j + 1 .. Len(turns) :
               /\ FromProvider(turns[k]) /\ Affirms(turns[k])
               /\ \A i \in j + 1 .. k - 1 : ~FromProvider(turns[i])
  <2>. DEFINE k == Min(replies)
  <2>1. k \in replies /\ \A i \in replies : k <= i
    <3>. HIDE DEF replies
    <3>. QED
      BY <1>1, <1>3, <1>4, MinOf
  <2>2. Affirms(turns[k])
    BY <1>1, <1>4
  <2>. HIDE DEF k
  <2>3. ASSUME NEW i \in j + 1 .. k - 1 PROVE ~FromProvider(turns[i])
    <3>1. i \in j + 1 .. Len(turns) /\ ~(k <= i)
      BY <1>2, <2>1
    <3>. QED
      BY <2>1, <3>1
  <2>. QED
    BY <2>1, <2>2, <2>3
<1>5. ASSUME NEW k \in j + 1 .. Len(turns), FromProvider(turns[k]), Affirms(turns[k]),
             \A i \in j + 1 .. k - 1 : ~FromProvider(turns[i])
      PROVE  IsAgreedTo(turns, j)
  <2>1. k \in replies
    BY <1>5
  <2>2. ASSUME NEW i \in replies PROVE k <= i
    <3>1. i \in j + 1 .. Len(turns) /\ ~(i \in j + 1 .. k - 1)
      BY <1>5, <2>2
    <3>. QED
      BY <1>2, <3>1
  <2>. HIDE DEF replies
  <2>3. Min(replies) = k
    BY <1>3, <2>1, <2>2, MinIs
  <2>. QED
    BY <1>1, <1>5, <2>1, <2>3
<1>. QED
  BY <1>4, <1>5

\* A turn more agrees to what was agreed to, and to what no answer had come to if it is
\* that answer.
LEMMA AgreedToAppend ==
  ASSUME NEW turns \in Conversation, NEW turn \in Utterances, NEW j \in 1 .. Len(turns) + 1
  PROVE  IsAgreedTo(Append(turns, turn), j) <=>
           \/ j \in 1 .. Len(turns) /\ IsAgreedTo(turns, j)
           \/ /\ j \in 1 .. Len(turns) /\ ~Answered(turns, j)
              /\ FromProvider(turn) /\ Affirms(turn)
<1>. DEFINE after == Append(turns, turn)
            n == Len(turns)
<1>1. n \in Nat /\ j \in Nat
  BY Turns
<1>2. after \in Conversation /\ Len(after) = n + 1 /\ after[n + 1] = turn
  BY Appended
<1>3. \A i \in 1 .. n : after[i] = turns[i]
  BY Appended
<1>. HIDE DEF after
<1>4. IsAgreedTo(after, j) <=>
        \E k \in j + 1 .. n + 1 :
          /\ FromProvider(after[k]) /\ Affirms(after[k])
          /\ \A i \in j + 1 .. k - 1 : ~FromProvider(after[i])
  BY <1>1, <1>2, AgreedMeans
<1>5. IsAgreedTo(turns, j) <=>
        \E k \in j + 1 .. n :
          /\ FromProvider(turns[k]) /\ Affirms(turns[k])
          /\ \A i \in j + 1 .. k - 1 : ~FromProvider(turns[i])
  BY <1>1, AgreedMeans
<1>. HIDE DEF n
<1>6. ASSUME NEW k \in j + 1 .. n
      PROVE  /\ FromProvider(after[k]) /\ Affirms(after[k])
             /\ \A i \in j + 1 .. k - 1 : ~FromProvider(after[i])
             <=>
             /\ FromProvider(turns[k]) /\ Affirms(turns[k])
             /\ \A i \in j + 1 .. k - 1 : ~FromProvider(turns[i])
  <2>1. k \in 1 .. n /\ \A i \in j + 1 .. k - 1 : i \in 1 .. n
    BY <1>1
  <2>. QED
    BY <1>3, <2>1
<1>7. (\A i \in j + 1 .. n : ~FromProvider(after[i])) <=> ~Answered(turns, j)
  <2>1. \A i \in j + 1 .. n : i \in 1 .. n
    BY <1>1
  <2>. QED
    BY <1>3, <2>1 DEF Answered, n
<1>8. ASSUME IsAgreedTo(after, j)
      PROVE  \/ j \in 1 .. n /\ IsAgreedTo(turns, j)
             \/ /\ j \in 1 .. n /\ ~Answered(turns, j)
                /\ FromProvider(turn) /\ Affirms(turn)
  <2>1. PICK k \in j + 1 .. n + 1 :
          /\ FromProvider(after[k]) /\ Affirms(after[k])
          /\ \A i \in j + 1 .. k - 1 : ~FromProvider(after[i])
    BY <1>4, <1>8
  <2>2. j \in 1 .. n
    BY <1>1, <2>1
  <2>3. CASE k \in j + 1 .. n
    BY <1>5, <1>6, <2>1, <2>2, <2>3
  <2>4. CASE k = n + 1
    <3>1. k - 1 = n
      BY <1>1, <2>4
    <3>. QED
      BY <1>2, <1>7, <2>1, <2>2, <2>4, <3>1
  <2>. QED
    BY <1>1, <2>1, <2>3, <2>4
<1>9. ASSUME j \in 1 .. n, IsAgreedTo(turns, j) PROVE IsAgreedTo(after, j)
  <2>1. PICK k \in j + 1 .. n :
          /\ FromProvider(turns[k]) /\ Affirms(turns[k])
          /\ \A i \in j + 1 .. k - 1 : ~FromProvider(turns[i])
    BY <1>5, <1>9
  <2>2. k \in j + 1 .. n + 1
    BY <1>1
  <2>. QED
    BY <1>4, <1>6, <2>1, <2>2
<1>10. ASSUME j \in 1 .. n, ~Answered(turns, j), FromProvider(turn), Affirms(turn)
       PROVE  IsAgreedTo(after, j)
  <2>1. n + 1 \in j + 1 .. n + 1 /\ (n + 1) - 1 = n
    BY <1>1, <1>10
  <2>. QED
    BY <1>2, <1>4, <1>7, <1>10, <2>1
<1>. QED
  BY <1>8, <1>9, <1>10 DEF after, n

\* A value is corroborated by a read-back of it, after it was stated, that was agreed
\* to (corroborate).
LEMMA CorroboratedMeans ==
  ASSUME NEW turns \in Conversation, NEW value
  PROVE  IsCorroborated(turns, value) <=>
           \E j \in 1 .. Len(turns) : ReadAfter(turns, value, j) /\ IsAgreedTo(turns, j)
<1>. DEFINE sources == {i \in 1 .. Len(turns) : States(turns[i], value)}
<1>1. IsCorroborated(turns, value) <=>
        /\ sources # {}
        /\ \E j \in Min(sources) + 1 .. Len(turns) :
             /\ turns[j].role = "assistant" /\ ReadsBack(turns[j], value)
             /\ IsAgreedTo(turns, j)
  BY DEF IsCorroborated, States
<1>2. Len(turns) \in Nat /\ sources \in SUBSET Nat
  BY Turns
<1>3. \A i : i \in sources <=> i \in 1 .. Len(turns) /\ States(turns[i], value)
  OBVIOUS
<1>. HIDE DEF sources
<1>4. sources # {} => Min(sources) \in sources /\ \A i \in sources : Min(sources) <= i
  BY <1>2, MinOf
<1>5. ASSUME IsCorroborated(turns, value)
      PROVE  \E j \in 1 .. Len(turns) : ReadAfter(turns, value, j) /\ IsAgreedTo(turns, j)
  <2>1. PICK j \in Min(sources) + 1 .. Len(turns) :
          /\ turns[j].role = "assistant" /\ ReadsBack(turns[j], value)
          /\ IsAgreedTo(turns, j)
    BY <1>1, <1>5
  <2>2. /\ Min(sources) \in Nat /\ Min(sources) \in 1 .. Len(turns)
        /\ States(turns[Min(sources)], value)
    BY <1>1, <1>2, <1>3, <1>4, <1>5
  <2>3. j \in 1 .. Len(turns) /\ Min(sources) \in 1 .. j - 1
    BY <1>2, <2>1, <2>2
  <2>. QED
    BY <2>1, <2>2, <2>3 DEF ReadAfter
<1>6. ASSUME NEW j \in 1 .. Len(turns), ReadAfter(turns, value, j), IsAgreedTo(turns, j)
      PROVE  IsCorroborated(turns, value)
  <2>1. PICK i \in 1 .. j - 1 : States(turns[i], value)
    BY <1>6 DEF ReadAfter
  <2>2. i \in sources
    BY <1>2, <1>3, <2>1
  <2>3. Min(sources) \in Nat /\ Min(sources) <= i
    BY <1>2, <1>4, <2>2
  <2>4. j \in Min(sources) + 1 .. Len(turns)
    BY <1>2, <2>1, <2>3
  <2>. QED
    BY <1>1, <1>6, <2>2, <2>4 DEF ReadAfter
<1>. QED
  BY <1>5, <1>6

\* A turn changes nothing about which earlier turn read what back.
LEMMA ReadAfterAppend ==
  ASSUME NEW turns \in Conversation, NEW turn \in Utterances, NEW value,
         NEW j \in 1 .. Len(turns)
  PROVE  ReadAfter(Append(turns, turn), value, j) <=> ReadAfter(turns, value, j)
<1>. DEFINE after == Append(turns, turn)
<1>1. Len(turns) \in Nat /\ \A i \in 1 .. Len(turns) : after[i] = turns[i]
  BY Turns, Appended
<1>. HIDE DEF after
<1>2. \A i \in 1 .. j - 1 : i \in 1 .. Len(turns)
  BY <1>1
<1>3. ReadAfter(after, value, j) <=> ReadAfter(turns, value, j)
  BY <1>1, <1>2 DEF ReadAfter
<1>. QED
  BY <1>3 DEF after

\* A value is corroborated by a turn more only if that turn is the provider's and
\* agrees to a read-back that waits for an answer.
LEMMA CorroboratedAppend ==
  ASSUME NEW turns \in Conversation, NEW turn \in Utterances, NEW value
  PROVE  IsCorroborated(Append(turns, turn), value) <=>
           \/ IsCorroborated(turns, value)
           \/ /\ FromProvider(turn) /\ Affirms(turn)
              /\ \E j \in 1 .. Len(turns) :
                   ReadAfter(turns, value, j) /\ ~Answered(turns, j)
<1>. DEFINE after == Append(turns, turn)
            n == Len(turns)
<1>1. n \in Nat /\ after \in Conversation /\ Len(after) = n + 1
  BY Turns, Appended
<1>2. \A j \in 1 .. n : ReadAfter(after, value, j) <=> ReadAfter(turns, value, j)
  BY ReadAfterAppend
<1>3. \A j \in 1 .. n + 1 :
        IsAgreedTo(after, j) <=>
          \/ j \in 1 .. n /\ IsAgreedTo(turns, j)
          \/ /\ j \in 1 .. n /\ ~Answered(turns, j)
             /\ FromProvider(turn) /\ Affirms(turn)
  BY AgreedToAppend
<1>. HIDE DEF after
<1>4. IsCorroborated(after, value) <=>
        \E j \in 1 .. n + 1 : ReadAfter(after, value, j) /\ IsAgreedTo(after, j)
  BY <1>1, CorroboratedMeans
<1>5. IsCorroborated(turns, value) <=>
        \E j \in 1 .. n : ReadAfter(turns, value, j) /\ IsAgreedTo(turns, j)
  BY CorroboratedMeans
<1>6. \A j \in 1 .. n : j \in 1 .. n + 1
  BY <1>1
<1>. HIDE DEF n
<1>7. IsCorroborated(after, value) <=>
        \/ \E j \in 1 .. n : ReadAfter(turns, value, j) /\ IsAgreedTo(turns, j)
        \/ /\ FromProvider(turn) /\ Affirms(turn)
           /\ \E j \in 1 .. n : ReadAfter(turns, value, j) /\ ~Answered(turns, j)
  BY <1>2, <1>3, <1>4, <1>6
<1>. QED
  BY <1>5, <1>7 DEF after, n

\* A turn proposes a value of its own only if it is the provider's.
Proposes(turn) ==
  FromProvider(turn) /\ SpokenSchedule(turn) \notin {NoValue, RecordValue}

LEMMA CandidatesAppend ==
  ASSUME NEW turns \in Conversation, NEW turn \in Utterances
  PROVE  Candidates(Append(turns, turn))
           = Candidates(turns) \cup (IF Proposes(turn) THEN {Len(turns) + 1} ELSE {})
<1>. DEFINE after == Append(turns, turn)
            n == Len(turns)
<1>1. n \in Nat /\ Len(after) = n + 1 /\ after[n + 1] = turn
  BY Turns, Appended
<1>2. \A i \in 1 .. n : after[i] = turns[i]
  BY Appended
<1>. HIDE DEF after
<1>3. /\ Candidates(after) = {i \in 1 .. n + 1 : Proposes(after[i])}
      /\ Candidates(turns) = {i \in 1 .. n : Proposes(turns[i])}
  BY <1>1 DEF Candidates, Proposes
<1>4. 1 .. n + 1 = (1 .. n) \cup {n + 1} /\ n + 1 \notin 1 .. n
  BY <1>1
<1>. HIDE DEF n
<1>. QED
  BY <1>1, <1>2, <1>3, <1>4 DEF after, n

LEMMA RecordConfirmedAppend ==
  ASSUME NEW turns \in Conversation, NEW turn \in Utterances
  PROVE  /\ RecordConfirmed(turns) => RecordConfirmed(Append(turns, turn))
         /\ ~FromProvider(turn) =>
              (RecordConfirmed(Append(turns, turn)) <=> RecordConfirmed(turns))
<1>. DEFINE after == Append(turns, turn)
            n == Len(turns)
<1>1. n \in Nat /\ Len(after) = n + 1
  BY Turns, Appended
<1>2. \A i \in 1 .. n : after[i] = turns[i]
  BY Appended
<1>3. \A j \in 1 .. n + 1 :
        IsAgreedTo(after, j) <=>
          \/ j \in 1 .. n /\ IsAgreedTo(turns, j)
          \/ /\ j \in 1 .. n /\ ~Answered(turns, j)
             /\ FromProvider(turn) /\ Affirms(turn)
  BY AgreedToAppend
<1>. HIDE DEF after
<1>4. \A j \in 1 .. n : j \in 1 .. n + 1
  BY <1>1
<1>5. RecordConfirmed(after) <=>
        \E j \in 1 .. n + 1 :
          /\ after[j].role = "assistant" /\ ReadsBack(after[j], RecordValue)
          /\ IsAgreedTo(after, j)
  BY <1>1 DEF RecordConfirmed
<1>6. RecordConfirmed(turns) <=>
        \E j \in 1 .. n :
          /\ turns[j].role = "assistant" /\ ReadsBack(turns[j], RecordValue)
          /\ IsAgreedTo(turns, j)
  BY DEF RecordConfirmed
<1>. HIDE DEF n
<1>7. RecordConfirmed(turns) => RecordConfirmed(after)
  BY <1>2, <1>3, <1>4, <1>5, <1>6
<1>8. ~FromProvider(turn) /\ RecordConfirmed(after) => RecordConfirmed(turns)
  BY <1>2, <1>3, <1>5, <1>6
<1>. QED
  BY <1>7, <1>8 DEF after

-----------------------------------------------------------------------------
\* The claim that is made of a conversation.

Agreed(turns) ==
  {i \in Candidates(turns) : IsCorroborated(turns, SpokenSchedule(turns[i]))}
Chosen(turns) == Min(IF Agreed(turns) = {} THEN Candidates(turns) ELSE Agreed(turns))
ChosenValue(turns) == SpokenSchedule(turns[Chosen(turns)])
TheClaim(turns, hint) ==
  OnSchedule(ChosenValue(turns),
             GradeOf(ChosenValue(turns), turns[Chosen(turns)],
                     Cardinality(Candidates(turns)) > 1, hint, Agreed(turns) # {}))

\* The claim made of the turns alone, or of the account when they propose nothing.
LEMMA ClaimsAre ==
  ASSUME NEW turns, NEW hint
  PROVE  ClaimsRead(turns, hint) =
           IF Candidates(turns) # {} THEN {TheClaim(turns, hint)}
           ELSE {OnSchedule(v, HintOnly) : v \in {hint} \ {NoValue}}
<1>1. CASE Candidates(turns) # {}
  <2>. DEFINE pool == IF Agreed(turns) = {} THEN Candidates(turns) ELSE Agreed(turns)
              claimed(i) ==
                OnSchedule(SpokenSchedule(turns[i]),
                           GradeOf(SpokenSchedule(turns[i]), turns[i],
                                   Cardinality(Candidates(turns)) > 1, hint, Agreed(turns) # {}))
  <2>1. pool # {}
    BY <1>1
  <2>2. ClaimsRead(turns, hint) = {claimed(i) : i \in {Min(s) : s \in {pool} \ {{}}}}
    BY <1>1 DEF ClaimsRead, Agreed
  <2>3. claimed(Min(pool)) = TheClaim(turns, hint)
    BY DEF TheClaim, ChosenValue, Chosen
  <2>. HIDE DEF pool, claimed
  <2>4. {Min(s) : s \in {pool} \ {{}}} = {Min(pool)}
    BY <2>1
  <2>. QED
    BY <1>1, <2>2, <2>3, <2>4
<1>2. CASE Candidates(turns) = {}
  BY <1>2 DEF ClaimsRead
<1>. QED
  BY <1>1, <1>2

\* What is chosen was proposed by a turn of the provider's, and was agreed to if any of
\* the values proposed was.
LEMMA TheChosen ==
  ASSUME NEW turns \in Conversation, Candidates(turns) # {}
  PROVE  /\ Chosen(turns) \in Candidates(turns)
         /\ ChosenValue(turns) \in Values \ {NoValue, RecordValue}
         /\ Agreed(turns) # {} => IsCorroborated(turns, ChosenValue(turns))
<1>. DEFINE pool == IF Agreed(turns) = {} THEN Candidates(turns) ELSE Agreed(turns)
<1>1. Candidates(turns) \subseteq 1 .. Len(turns)
  BY DEF Candidates
<1>2. pool \in SUBSET Nat /\ pool # {} /\ pool \subseteq Candidates(turns)
  BY <1>1, Turns DEF Agreed
<1>3. Chosen(turns) \in pool
  <2>1. Chosen(turns) = Min(pool)
    BY DEF Chosen
  <2>. HIDE DEF pool
  <2>. QED
    BY <1>2, <2>1, MinOf
<1>4. Chosen(turns) \in Candidates(turns)
  BY <1>2, <1>3
<1>5. Agreed(turns) # {} => IsCorroborated(turns, ChosenValue(turns))
  BY <1>3 DEF Agreed, ChosenValue
<1>6. turns[Chosen(turns)] \in Utterances /\ ChosenValue(turns) \notin {NoValue, RecordValue}
  BY <1>1, <1>4, Turns DEF Candidates, ChosenValue
<1>7. ChosenValue(turns) \in Values
  BY <1>6, ReadingAssumption DEF ChosenValue
<1>. QED
  BY <1>4, <1>5, <1>6, <1>7

\* A grade says whether the value was agreed to, and is ambiguous when the account
\* contradicts the value; an account that does not is of no consequence.
LEMMA GradesStated ==
  ASSUME NEW value, NEW turn, NEW several \in BOOLEAN, NEW hint, NEW corroborated \in BOOLEAN
  PROVE  LET grade == GradeOf(value, turn, several, hint, corroborated)
         IN  /\ grade \in ReadGrades /\ grade \in Grade
             /\ grade.readBack = corroborated
             /\ hint \notin {NoValue, value} => grade.ambiguous
             /\ hint \in {NoValue, value} =>
                  grade = GradeOf(value, turn, several, NoValue, corroborated)
<1>1. ASSUME NEW a \in BOOLEAN, NEW b \in BOOLEAN
      PROVE  /\ Stated(a, b) \in Grade /\ Stated(a, b) \in ReadGrades
             /\ Stated(a, b).readBack = b /\ Stated(a, b).ambiguous = a
  <2>1. Stated(a, b) \in ReadGrades
    <3>1. Stated(a, b) \in {Stated(x, y) : x, y \in BOOLEAN}
      <4>1. \E x, y \in BOOLEAN : Stated(a, b) = Stated(x, y)
        BY Zenon
      <4>. QED
        BY <4>1
    <3>. QED
      BY <3>1 DEF ReadGrades
  <2>2. Stated(a, b) \in Grade
    <3>1. (b /\ ~a) \in BOOLEAN
      OBVIOUS
    <3>. QED
      BY <3>1, Zenon DEF Stated, Grade
  <2>3. Stated(a, b).readBack = b /\ Stated(a, b).ambiguous = a
    BY DEF Stated
  <2>. QED
    BY <2>1, <2>2, <2>3
<1>. DEFINE doubt(h) == \/ IsHedged(turn)
                        \/ h \notin {NoValue, value}
                        \/ several /\ ~corroborated
<1>2. /\ doubt(hint) \in BOOLEAN
      /\ GradeOf(value, turn, several, hint, corroborated) = Stated(doubt(hint), corroborated)
  BY DEF GradeOf
<1>3. /\ hint \notin {NoValue, value} => doubt(hint)
      /\ hint \in {NoValue, value} => doubt(hint) = doubt(NoValue)
  OBVIOUS
<1>4. GradeOf(value, turn, several, NoValue, corroborated) = Stated(doubt(NoValue), corroborated)
  BY DEF GradeOf
<1>. HIDE DEF doubt
<1>. QED
  BY <1>1, <1>2, <1>3, <1>4

\* What the claims of a conversation are like: one at most, about the schedule, of a
\* value that may be applied, with a grade the reader gives.
LEMMA ClaimsType ==
  ASSUME NEW turns \in Conversation, NEW hint \in Values \cup {NoValue}
  PROVE  /\ \E c : ClaimsRead(turns, hint) \subseteq {c}
         /\ \A c \in ClaimsRead(turns, hint) :
              /\ c \in Claim /\ c.grade \in ReadGrades
              /\ c.field = "schedule" /\ c.value \in Values
              /\ c.grade.readBack => IsCorroborated(turns, c.value)
<1>1. "schedule" \in Fields
  BY ReadingAssumption
<1>2. CASE Candidates(turns) # {}
  <2>1. ClaimsRead(turns, hint) = {TheClaim(turns, hint)}
    BY <1>2, ClaimsAre
  <2>. DEFINE c == TheClaim(turns, hint)
  <2>2. c.field = "schedule" /\ c.value = ChosenValue(turns)
    BY DEF TheClaim, OnSchedule
  <2>3. /\ c.grade \in ReadGrades /\ c.grade \in Grade
        /\ c.grade.readBack = (Agreed(turns) # {})
    <3>. DEFINE several == Cardinality(Candidates(turns)) > 1
                agreed == Agreed(turns) # {}
    <3>1. several \in BOOLEAN /\ agreed \in BOOLEAN
      OBVIOUS
    <3>2. c.grade = GradeOf(ChosenValue(turns), turns[Chosen(turns)], several, hint, agreed)
      BY DEF TheClaim, OnSchedule
    <3>. HIDE DEF several, agreed, c
    <3>3. c.grade \in ReadGrades /\ c.grade \in Grade /\ c.grade.readBack = agreed
      BY <3>1, <3>2, GradesStated
    <3>. QED
      BY <3>3 DEF agreed
  <2>4. c \in Claim
    BY <1>1, <1>2, <2>3, TheChosen DEF TheClaim, OnSchedule, Claim
  <2>. QED
    BY <1>2, <2>1, <2>2, <2>3, <2>4, TheChosen
<1>3. CASE Candidates(turns) = {}
  <2>1. ClaimsRead(turns, hint) = {OnSchedule(v, HintOnly) : v \in {hint} \ {NoValue}}
    BY <1>3, ClaimsAre
  <2>2. /\ HintOnly \in Grade /\ HintOnly \in ReadGrades /\ HintOnly.readBack = FALSE
    BY DEF HintOnly, Grade, ReadGrades
  <2>3. ASSUME NEW c \in ClaimsRead(turns, hint)
        PROVE  /\ c = OnSchedule(hint, HintOnly)
               /\ c \in Claim /\ c.grade \in ReadGrades
               /\ c.field = "schedule" /\ c.value \in Values
               /\ ~c.grade.readBack
    <3>1. c = OnSchedule(hint, HintOnly) /\ hint \in Values
      BY <2>1
    <3>. QED
      BY <1>1, <2>2, <3>1 DEF OnSchedule, Claim
  <2>. QED
    BY <2>3
<1>. QED
  BY <1>2, <1>3

-----------------------------------------------------------------------------
\* The conversation and what has been made of it.

\* The events, the claims and the confirmation are those of the turns and the account.
ConversationInv ==
  /\ transcript \in Conversation
  /\ account \in Accounts \cup {NoValue}
  /\ events = EventsOf(transcript)
  /\ claims = ClaimsRead(transcript, account)
  /\ confirmed = ConfirmedFields(transcript, claims)
  /\ standing \in [Values -> {"unsaid", "raised", "asked", "agreed"}]

LEMMA Conversation_Inv ==
  /\ ReadingInit => ConversationInv
  /\ ConversationInv /\ [ReadingNext]_readingVars => ConversationInv'
<1>1. ASSUME ReadingInit PROVE ConversationInv
  <2>1. transcript \in Conversation /\ Len(transcript) = 0
    BY <1>1 DEF ReadingInit, Conversation
  <2>2. Candidates(transcript) = {} /\ ~RecordConfirmed(transcript)
    BY <2>1 DEF Candidates, RecordConfirmed
  <2>3. ClaimsRead(transcript, account) = {} /\ ConfirmedFields(transcript, claims) = {}
    BY <1>1, <2>2, ClaimsAre DEF ReadingInit, ConfirmedFields
  <2>4. EventsOf(transcript) = {}
    BY <1>1 DEF ReadingInit, EventsOf, SafetyHeard
  <2>. QED
    BY <1>1, <2>1, <2>3, <2>4 DEF ReadingInit, ConversationInv
<1>2. ASSUME ConversationInv, NEW turn \in Utterances, Speak(turn) PROVE ConversationInv'
  <2>1. transcript' = Append(transcript, turn) /\ transcript' \in Conversation
    BY <1>2, Appended DEF ConversationInv, Speak
  <2>2. /\ account' = account /\ events' = EventsOf(transcript')
        /\ claims' = ClaimsRead(transcript', account')
        /\ confirmed' = ConfirmedFields(transcript', claims')
    BY <1>2, <2>1 DEF Speak, Read
  <2>3. standing' \in [Values -> {"unsaid", "raised", "asked", "agreed"}]
    <3>1. \A v \in Values : StandingAfter(turn, v) \in {"unsaid", "raised", "asked", "agreed"}
      BY <1>2 DEF ConversationInv, StandingAfter
    <3>. QED
      BY <1>2, <3>1 DEF Speak
  <2>. QED
    BY <1>2, <2>1, <2>2, <2>3 DEF ConversationInv
<1>3. ASSUME ConversationInv, NEW v \in Accounts, Report(v) PROVE ConversationInv'
  BY <1>3 DEF ConversationInv, Report, Read
<1>4. ASSUME ConversationInv, UNCHANGED readingVars PROVE ConversationInv'
  BY <1>4 DEF ConversationInv, readingVars
<1>. QED
  BY <1>1, <1>2, <1>3, <1>4 DEF ReadingNext

LEMMA AccountIsValue ==
  ASSUME ConversationInv
  PROVE  account \in Values \cup {NoValue} /\ (account \in Accounts => account # NoValue)
BY ReadingAssumption, PolicyAssumption DEF ConversationInv

LEMMA EventsHeard ==
  ASSUME NEW turns \in Conversation
  PROVE  EventsOf(turns) \subseteq SpokenKinds \cup {"no_disclosure"}
BY DEF EventsOf, SafetyHeard

\* Every variable has its type, and however often the provider changed their mind there
\* is one claim for the field and a verdict on it.
THEOREM ReadingTyped == ReadingSpec => []ScheduleTypeOK
<1>1. ASSUME ConversationInv PROVE ScheduleTypeOK
  <2>1. \A i \in 1 .. Len(transcript) : transcript[i].role \in Roles
    BY <1>1, Turns DEF ConversationInv, Turn
  <2>2. /\ \E c : claims \subseteq {c}
        /\ \A c \in claims : c \in Claim
    BY <1>1, ClaimsType, AccountIsValue DEF ConversationInv
  <2>3. confirmed \subseteq Fields
    BY <1>1, ReadingAssumption DEF ConversationInv, ConfirmedFields
  <2>4. evidence \in Evidence
    <3>1. events \subseteq EventKinds
      BY <1>1, EventsHeard DEF ConversationInv, SpokenKinds, EventKinds
    <3>2. ResolvedOutcome("completed", events) \in Outcomes
      BY DEF ResolvedOutcome, Outcomes, ContactOutcomes
    <3>. QED
      BY <2>2, <2>3, <3>1, <3>2 DEF evidence, Evidence
  <2>5. OneClaimPerField(claims)
    BY <2>2 DEF OneClaimPerField
  <2>6. decisions # {}
    BY ClassifyType DEF decisions
  <2>. QED
    BY <1>1, <2>1, <2>4, <2>5, <2>6 DEF ConversationInv, ScheduleTypeOK
<1>. QED
  BY <1>1, Conversation_Inv, PTL DEF ReadingSpec

\* Whatever a provider's turn proposes is one session: its two times, opening first, and
\* the days named on one side of them, or the record's.
THEOREM OneSessionProposed == ReadingSpec => []ProposesOneSession
<1>1. ASSUME ConversationInv, NEW i \in Candidates(transcript)
      PROVE  transcript[i] \in Turn /\ SpokenSchedule(transcript[i]) # NoValue
  BY <1>1, Turns DEF ConversationInv, Candidates
<1>2. ConversationInv => ProposesOneSession
  BY <1>1, Spoken DEF ProposesOneSession
<1>. QED
  BY <1>2, Conversation_Inv, PTL DEF ReadingSpec

\* How far a value has got covers what the finished transcript is searched for: a value
\* the provider stated has been raised, one whose read-back waits for an answer has been
\* asked about, and a corroborated one was agreed to.
FollowedInv ==
  \A value \in Values :
    /\ (\E i \in 1 .. Len(transcript) : States(transcript[i], value)) =>
         standing[value] # "unsaid"
    /\ (\E j \in 1 .. Len(transcript) :
          ReadAfter(transcript, value, j) /\ ~Answered(transcript, j)) =>
         standing[value] \in {"asked", "agreed"}
    /\ IsCorroborated(transcript, value) => standing[value] = "agreed"

LEMMA Followed_Init == ReadingInit => FollowedInv
<1>1. SUFFICES ASSUME ReadingInit, NEW value \in Values PROVE ~IsCorroborated(transcript, value)
  BY DEF ReadingInit, FollowedInv
<1>2. transcript \in Conversation /\ Len(transcript) = 0
  BY <1>1 DEF ReadingInit, Conversation
<1>. QED
  BY <1>2, CorroboratedMeans

LEMMA Followed_Speak ==
  ASSUME ConversationInv, FollowedInv, NEW turn \in Utterances, Speak(turn)
  PROVE  FollowedInv'
<1>. DEFINE after == Append(transcript, turn)
            n == Len(transcript)
<1>1. SUFFICES ASSUME NEW value \in Values
               PROVE  /\ (\E i \in 1 .. Len(after) : States(after[i], value)) =>
                           standing'[value] # "unsaid"
                      /\ (\E j \in 1 .. Len(after) :
                            ReadAfter(after, value, j) /\ ~Answered(after, j)) =>
                           standing'[value] \in {"asked", "agreed"}
                      /\ IsCorroborated(after, value) => standing'[value] = "agreed"
  BY DEF FollowedInv, Speak
<1>2. transcript \in Conversation /\ n \in Nat /\ turn \in Turn /\ value \in Schedule
  BY Turns, ReadingAssumption DEF ConversationInv
<1>3. Len(after) = n + 1 /\ after[n + 1] = turn /\ \A i \in 1 .. n : after[i] = transcript[i]
  BY <1>2, Appended
<1>. DEFINE old == standing[value]
            new == standing'[value]
<1>4. /\ (\E i \in 1 .. n : States(transcript[i], value)) => old # "unsaid"
      /\ (\E j \in 1 .. n : ReadAfter(transcript, value, j) /\ ~Answered(transcript, j)) =>
           old \in {"asked", "agreed"}
      /\ IsCorroborated(transcript, value) => old = "agreed"
      /\ old \in {"unsaid", "raised", "asked", "agreed"}
  BY DEF FollowedInv, ConversationInv
<1>5. /\ old = "unsaid" /\ FromProvider(turn) /\ MentionsPart(turn, value) => new = "raised"
      /\ old = "raised" /\ turn.role = "assistant" /\ NamesInFull(turn, value) => new = "asked"
      /\ old = "asked" /\ FromProvider(turn) /\ Affirms(turn) => new = "agreed"
      /\ old = "asked" /\ ~FromProvider(turn) => new = "asked"
      /\ old = "agreed" => new = "agreed"
      /\ old # "unsaid" => new # "unsaid"
  <2>1. new = StandingAfter(turn, value)
    BY DEF Speak
  <2>. QED
    BY <1>4, <2>1 DEF StandingAfter, Affirms, FromProvider
<1>. HIDE DEF after, old, new
<1>6. ASSUME NEW i \in 1 .. n + 1, States(after[i], value) PROVE new # "unsaid"
  <2>1. CASE i \in 1 .. n
    BY <1>3, <1>4, <1>5, <1>6, <2>1
  <2>2. CASE i = n + 1
    <3>1. FromProvider(turn) /\ MentionsPart(turn, value)
      BY <1>2, <1>3, <1>6, <2>2, StatedIsMentioned
    <3>. QED
      BY <1>5, <3>1
  <2>. QED
    BY <1>2, <2>1, <2>2
<1>7. ASSUME NEW j \in 1 .. n + 1, ReadAfter(after, value, j), ~Answered(after, j)
      PROVE  new \in {"asked", "agreed"}
  <2>1. CASE j \in 1 .. n
    <3>1. ReadAfter(transcript, value, j)
      BY <1>2, <1>7, <2>1, ReadAfterAppend DEF after
    <3>2. ~FromProvider(turn) /\ ~Answered(transcript, j)
      <4>1. \A k \in j + 1 .. n : k \in 1 .. n /\ k \in j + 1 .. n + 1
        BY <1>2, <2>1
      <4>2. n + 1 \in j + 1 .. n + 1
        BY <1>2, <2>1
      <4>. QED
        BY <1>3, <1>7, <4>1, <4>2 DEF Answered, n
    <3>3. old \in {"asked", "agreed"}
      BY <1>4, <2>1, <3>1, <3>2
    <3>. QED
      BY <1>5, <3>2, <3>3
  <2>2. CASE j = n + 1
    <3>1. turn.role = "assistant" /\ NamesInFull(turn, value)
      BY <1>2, <1>3, <1>7, <2>2, ReadBackIsNamed DEF ReadAfter
    <3>2. PICK i \in 1 .. n : States(after[i], value)
      <4>1. (n + 1) - 1 = n
        BY <1>2
      <4>. QED
        BY <1>7, <2>2, <4>1 DEF ReadAfter
    <3>3. old # "unsaid"
      BY <1>3, <1>4, <3>2
    <3>4. ~FromProvider(turn)
      BY <3>1 DEF FromProvider
    <3>. QED
      BY <1>4, <1>5, <3>1, <3>3, <3>4
  <2>. QED
    BY <1>2, <2>1, <2>2
<1>8. ASSUME IsCorroborated(after, value) PROVE new = "agreed"
  <2>1. CASE IsCorroborated(transcript, value)
    BY <1>4, <1>5, <2>1
  <2>2. CASE ~IsCorroborated(transcript, value)
    <3>1. /\ FromProvider(turn) /\ Affirms(turn)
          /\ \E j \in 1 .. n : ReadAfter(transcript, value, j) /\ ~Answered(transcript, j)
      BY <1>2, <1>8, <2>2, CorroboratedAppend DEF after
    <3>. QED
      BY <1>4, <1>5, <3>1
  <2>. QED
    BY <2>1, <2>2
<1>. QED
  BY <1>3, <1>6, <1>7, <1>8 DEF new

LEMMA Followed_Inv ==
  /\ ReadingInit => ConversationInv /\ FollowedInv
  /\ ConversationInv /\ FollowedInv /\ [ReadingNext]_readingVars => (ConversationInv /\ FollowedInv)'
<1>1. ASSUME ConversationInv, FollowedInv, NEW v \in Accounts, Report(v) PROVE FollowedInv'
  BY <1>1 DEF FollowedInv, Report
<1>2. ASSUME ConversationInv, FollowedInv, UNCHANGED readingVars PROVE FollowedInv'
  BY <1>2 DEF FollowedInv, readingVars
<1>3. ConversationInv /\ FollowedInv /\ [ReadingNext]_readingVars => FollowedInv'
  BY <1>1, <1>2, Followed_Speak DEF ReadingNext
<1>. QED
  BY <1>3, Followed_Init, Conversation_Inv

\* A claim said to be read back has been through the exchange in its order, turn by turn:
\* the provider raised it, the assistant named all of it and no other day or time that is
\* heard for one, the provider agreed.
THEOREM ReadBackAgreed == ReadingSpec => []ReadBackWasAgreed
<1>1. ASSUME ConversationInv, FollowedInv PROVE ReadBackWasAgreed
  <2>1. SUFFICES ASSUME NEW c \in claims, c.grade.readBack PROVE standing[c.value] = "agreed"
    BY DEF ReadBackWasAgreed
  <2>2. c.value \in Values /\ IsCorroborated(transcript, c.value)
    BY <1>1, <2>1, ClaimsType, AccountIsValue DEF ConversationInv
  <2>. QED
    BY <1>1, <2>2 DEF FollowedInv
<1>. QED
  BY <1>1, Followed_Inv, PTL DEF ReadingSpec

-----------------------------------------------------------------------------
\* What the policy makes of the conversation.

\* The evidence that events, claims and confirmations make, in a call that was completed.
Finding(ks, cs, fs) ==
  [outcome |-> ResolvedOutcome("completed", ks), events |-> ks, claims |-> cs, confirmed |-> fs]

LEMMA Completed ==
  ASSUME NEW ks, NEW cs, NEW fs
  PROVE  LET e == Finding(ks, cs, fs)
         IN  /\ e.events = ks /\ e.claims = cs /\ e.outcome = ResolvedOutcome("completed", ks)
             /\ ReachedSomeone(e) /\ Resolved(e)
<1>. DEFINE e == Finding(ks, cs, fs)
<1>1. e.events = ks /\ e.claims = cs /\ e.outcome = ResolvedOutcome("completed", ks)
  BY DEF Finding
<1>. HIDE DEF e
<1>2. ReachedSomeone(e)
  BY <1>1 DEF ReachedSomeone, ContactOutcomes, ResolvedOutcome
<1>3. Resolved(e)
  BY <1>1, ReadingAssumption DEF Resolved
<1>. QED
  BY <1>1, <1>2, <1>3 DEF e

\* What stops the calling is heard and not read out of the hours, and a claim that is to
\* be reviewed puts the call to a person at least.
LEMMA VerdictOnHours ==
  ASSUME NEW ks, NEW cs, NEW fs
  PROVE  LET D == Classify(Finding(ks, cs, fs), {"schedule"})
         IN  /\ Overall(D) \in Authority
             /\ Overall(D) = STOP <=> ks \cap StopEvents # {}
             /\ \A c \in cs : ClassifyClaim(c) = REVIEW => Overall(D) >= REVIEW
<1>. DEFINE e == Finding(ks, cs, fs)
            D == Classify(e, {"schedule"})
<1>1. /\ e.events = ks /\ e.claims = cs /\ e.outcome = ResolvedOutcome("completed", ks)
      /\ ReachedSomeone(e)
  BY Completed
<1>. HIDE DEF e
<1>2. ASSUME NEW d \in D, d.authority = STOP PROVE ks \cap StopEvents # {}
  <2>1. CASE d \in SafetyDecisions(e)
    BY <1>1, <1>2, <2>1 DEF SafetyDecisions, About, STOP, REVIEW
  <2>2. CASE d \in StopDecision(e)
    <3>1. ResolvedOutcome("completed", ks) = "stop_requested"
      BY <1>1, <2>2 DEF StopDecision
    <3>2. "stop_requested" \in ks
      BY <3>1 DEF ResolvedOutcome
    <3>. QED
      BY <3>2 DEF StopEvents, EventKinds
  <2>3. CASE d \in ClaimDecisions(e)
    <3>1. d.authority \in {APPLY, REVIEW}
      BY <2>3, ClaimVerdicts DEF ClaimDecisions, OnField
    <3>. QED
      BY <1>2, <3>1 DEF APPLY, REVIEW, STOP
  <2>4. CASE d \in ConfirmationDecisions(e) \cup MissingDecision(e, {"schedule"})
               \cup {About("no_contact", REFRESH), About("nothing", REVIEW)}
    BY <1>2, <2>4
    DEF ConfirmationDecisions, MissingDecision, About, OnField, REFRESH, REVIEW, STOP
  <2>. QED
    BY <2>1, <2>2, <2>3, <2>4, Verdicts
<1>3. ASSUME NEW k \in ks \cap StopEvents PROVE \E d \in D : d.authority = STOP
  <2>1. About(k, STOP) \in SafetyDecisions(e)
    BY <1>1 DEF SafetyDecisions
  <2>2. SafetyDecisions(e) \subseteq D
    BY <1>1 DEF Classify, OrElse
  <2>. QED
    BY <2>1, <2>2 DEF About
<1>4. ASSUME NEW c \in cs, ClassifyClaim(c) = REVIEW PROVE \E d \in D : d.authority = REVIEW
  <2>1. OnField("claim", REVIEW, c.field) \in ClaimDecisions(e)
    BY <1>1, <1>4 DEF ClaimDecisions
  <2>2. ClaimDecisions(e) \subseteq D
    BY <1>1 DEF Classify, OrElse
  <2>. QED
    BY <2>1, <2>2 DEF OnField
<1>5. D # {} /\ \A d \in D : d.authority \in Authority
  BY ClassifyType
<1>. HIDE DEF D
<1>6. /\ Overall(D) \in Authority /\ \E d \in D : d.authority = Overall(D)
      /\ \A d \in D : d.authority <= Overall(D)
  BY <1>5, WorstVerdict
<1>7. Overall(D) = STOP => ks \cap StopEvents # {}
  BY <1>2, <1>6
<1>8. ks \cap StopEvents # {} => Overall(D) = STOP
  BY <1>3, <1>6 DEF Authority, REFRESH, STOP
<1>9. \A c \in cs : ClassifyClaim(c) = REVIEW => Overall(D) >= REVIEW
  BY <1>4, <1>6
<1>. QED
  BY <1>6, <1>7, <1>8, <1>9 DEF D, e

LEMMA EvidenceIs ==
  /\ evidence = Finding(events, claims, confirmed)
  /\ decisions = Classify(Finding(events, claims, confirmed), {"schedule"})
  /\ verdict = Overall(Classify(Finding(events, claims, confirmed), {"schedule"}))
BY DEF evidence, decisions, verdict, Finding

\* The claim that is made is ambiguous when the account contradicts it.
LEMMA ContradictedIsAmbiguous ==
  ASSUME NEW turns \in Conversation, NEW hint \in Values,
         NEW c \in ClaimsRead(turns, hint), hint # c.value
  PROVE  c.grade.ambiguous
<1>1. hint # NoValue
  BY PolicyAssumption
<1>2. CASE Candidates(turns) # {}
  <2>. DEFINE several == Cardinality(Candidates(turns)) > 1
              agreed == Agreed(turns) # {}
  <2>1. several \in BOOLEAN /\ agreed \in BOOLEAN
    OBVIOUS
  <2>2. /\ c.value = ChosenValue(turns)
        /\ c.grade = GradeOf(ChosenValue(turns), turns[Chosen(turns)], several, hint, agreed)
    BY <1>2, ClaimsAre DEF TheClaim, OnSchedule
  <2>. HIDE DEF several, agreed
  <2>. QED
    BY <1>1, <2>1, <2>2, GradesStated
<1>3. CASE Candidates(turns) = {}
  BY <1>3, ClaimsAre DEF OnSchedule
<1>. QED
  BY <1>2, <1>3

\* A call without safety events has a disclosure in its first turns, and no phrase that
\* ends a call in any turn of the provider's.
LEMMA NothingHeard ==
  ASSUME NEW turns \in Conversation, EventsOf(turns) = {}, Len(turns) # 0
  PROVE  /\ \E i \in 1 .. Len(turns) :
              i <= 4 /\ turns[i].role = "assistant" /\ "automated" \in turns[i].phrases
         /\ \A i \in 1 .. Len(turns) :
              FromProvider(turns[i]) => turns[i].phrases \cap SpokenKinds = {}
<1>1. turns # <<>>
  OBVIOUS
<1>2. SafetyHeard(turns) = {} /\ DisclosureSpoken(turns)
  BY <1>1 DEF EventsOf
<1>3. \A i \in 1 .. Len(turns) :
        FromProvider(turns[i]) => turns[i].phrases \cap SpokenKinds \subseteq SafetyHeard(turns)
  BY DEF SafetyHeard
<1>. QED
  BY <1>2, <1>3 DEF DisclosureSpoken

\* Hours that are applied with nobody looking were raised, read back and agreed to, in
\* that order, are the hours of CALL-E's account if it came, and were agreed to in a call
\* that was disclosed in time and gave no cause to end it.
THEOREM UnattendedAgreed == ReadingSpec => []UnattendedWasAgreed
<1>1. ASSUME ConversationInv, FollowedInv, NEW c \in applied
      PROVE  /\ standing[c.value] = "agreed" /\ account \in {NoValue, c.value}
             /\ EventsOf(transcript) = {} /\ Len(transcript) # 0
  <2>1. c \in claims /\ ~NeedsAPerson(decisions)
    BY <1>1 DEF applied
  <2>2. ClassifyClaim(c) = APPLY /\ events = {}
    BY <2>1, EvidenceIs, Completed, Unattended
  <2>3. c.grade.readBack /\ ~c.grade.ambiguous
    BY <2>2 DEF ClassifyClaim, APPLY, REVIEW
  <2>4. c.value \in Values /\ IsCorroborated(transcript, c.value)
    BY <1>1, <2>1, <2>3, ClaimsType, AccountIsValue DEF ConversationInv
  <2>5. account \in {NoValue, c.value}
    BY <1>1, <2>1, <2>3, ContradictedIsAmbiguous, AccountIsValue DEF ConversationInv
  <2>6. Len(transcript) # 0
    BY <1>1, <2>4, CorroboratedMeans DEF ConversationInv
  <2>. QED
    BY <1>1, <2>2, <2>4, <2>5, <2>6 DEF FollowedInv, ConversationInv
<1>2. ConversationInv /\ FollowedInv => UnattendedWasAgreed
  BY <1>1, NothingHeard DEF UnattendedWasAgreed, ConversationInv
<1>. QED
  BY <1>2, Followed_Inv, PTL DEF ReadingSpec

-----------------------------------------------------------------------------
\* Who settles what.

\* A turn that is not the provider's leaves everything as it was read.
LEMMA OthersChangeNothing ==
  ASSUME NEW turns \in Conversation, NEW turn \in Utterances, ~FromProvider(turn), NEW hint
  PROVE  /\ ClaimsRead(Append(turns, turn), hint) = ClaimsRead(turns, hint)
         /\ RecordConfirmed(Append(turns, turn)) <=> RecordConfirmed(turns)
<1>. DEFINE after == Append(turns, turn)
<1>1. Candidates(after) = Candidates(turns)
  BY CandidatesAppend DEF Proposes
<1>2. \A i \in Candidates(turns) : after[i] = turns[i]
  BY Appended DEF Candidates
<1>3. \A value : IsCorroborated(after, value) <=> IsCorroborated(turns, value)
  BY CorroboratedAppend
<1>4. RecordConfirmed(after) <=> RecordConfirmed(turns)
  BY RecordConfirmedAppend
<1>. HIDE DEF after
<1>5. Agreed(after) = Agreed(turns)
  BY <1>1, <1>2, <1>3 DEF Agreed
<1>6. CASE Candidates(turns) # {}
  <2>1. Chosen(after) = Chosen(turns)
    BY <1>1, <1>5 DEF Chosen
  <2>2. after[Chosen(turns)] = turns[Chosen(turns)]
    BY <1>2, <1>6, TheChosen
  <2>3. TheClaim(after, hint) = TheClaim(turns, hint)
    BY <1>1, <1>5, <2>1, <2>2 DEF TheClaim, ChosenValue
  <2>. QED
    BY <1>1, <1>4, <1>6, <2>3, ClaimsAre DEF after
<1>7. CASE Candidates(turns) = {}
  BY <1>1, <1>4, <1>7, ClaimsAre DEF after
<1>. QED
  BY <1>6, <1>7

\* A turn more is heard for what it says, and may disclose the assistant if it is among
\* the first four.
LEMMA EventsAppend ==
  ASSUME NEW turns \in Conversation, NEW turn \in Utterances
  PROVE  LET after == Append(turns, turn)
             said == IF FromProvider(turn) THEN turn.phrases \cap SpokenKinds ELSE {}
         IN  /\ SafetyHeard(after) = SafetyHeard(turns) \cup said
             /\ DisclosureSpoken(turns) => DisclosureSpoken(after)
             /\ Len(turns) >= 4 => (DisclosureSpoken(after) <=> DisclosureSpoken(turns))
<1>. DEFINE after == Append(turns, turn)
            n == Len(turns)
            said == IF FromProvider(turn) THEN turn.phrases \cap SpokenKinds ELSE {}
<1>1. n \in Nat /\ Len(after) = n + 1 /\ after[n + 1] = turn
  BY Turns, Appended
<1>2. \A i \in 1 .. n : after[i] = turns[i]
  BY Appended
<1>3. 1 .. n + 1 = (1 .. n) \cup {n + 1}
  BY <1>1
<1>. HIDE DEF after
<1>4. DisclosureSpoken(after) <=>
        \E i \in 1 .. n + 1 :
          i <= 4 /\ after[i].role = "assistant" /\ "automated" \in after[i].phrases
  BY <1>1 DEF DisclosureSpoken
<1>5. DisclosureSpoken(turns) <=>
        \E i \in 1 .. n :
          i <= 4 /\ turns[i].role = "assistant" /\ "automated" \in turns[i].phrases
  BY DEF DisclosureSpoken
<1>6. SafetyHeard(after) = SafetyHeard(turns) \cup said
  <2>. DEFINE spoken(ts, i) == IF FromProvider(ts[i]) THEN ts[i].phrases \cap SpokenKinds ELSE {}
  <2>1. ASSUME NEW x PROVE x \in SafetyHeard(after) <=> \E i \in 1 .. n + 1 : x \in spoken(after, i)
    BY <1>1 DEF SafetyHeard
  <2>2. ASSUME NEW x PROVE x \in SafetyHeard(turns) <=> \E i \in 1 .. n : x \in spoken(turns, i)
    BY DEF SafetyHeard
  <2>3. spoken(after, n + 1) = said /\ \A i \in 1 .. n : spoken(after, i) = spoken(turns, i)
    BY <1>1, <1>2
  <2>. HIDE DEF spoken, said, n
  <2>4. ASSUME NEW x PROVE x \in SafetyHeard(after) <=> x \in SafetyHeard(turns) \cup said
    BY <1>3, <2>1, <2>2, <2>3
  <2>. QED
    BY <2>4
<1>7. DisclosureSpoken(turns) => DisclosureSpoken(after)
  BY <1>2, <1>3, <1>4, <1>5
<1>8. n >= 4 /\ DisclosureSpoken(after) => DisclosureSpoken(turns)
  BY <1>1, <1>2, <1>3, <1>4, <1>5
<1>. QED
  BY <1>6, <1>7, <1>8 DEF after

\* Whatever the assistant or an unknown speaker says, nothing is claimed, confirmed or
\* heard by it but that the assistant did or did not disclose itself, and after the fourth
\* turn not that either.
THEOREM OnlyProviderSettles == ReadingSpec => OnlyTheProviderSettles
<1>1. ConversationInv /\ [ReadingNext]_readingVars =>
        [transcript' # transcript /\ ~FromProvider(transcript'[Len(transcript')]) =>
           /\ claims' = claims /\ confirmed' = confirmed
           /\ events' \ {"no_disclosure"} = events \ {"no_disclosure"}
           /\ transcript # <<>> => events' \subseteq events
           /\ Len(transcript) >= 4 => evidence' = evidence]_readingVars
  <2>1. SUFFICES ASSUME ConversationInv, [ReadingNext]_readingVars, transcript' # transcript,
                        ~FromProvider(transcript'[Len(transcript')])
                 PROVE  /\ claims' = claims /\ confirmed' = confirmed
                        /\ events' \ {"no_disclosure"} = events \ {"no_disclosure"}
                        /\ transcript # <<>> => events' \subseteq events
                        /\ Len(transcript) >= 4 => evidence' = evidence
    OBVIOUS
  <2>2. PICK turn \in Utterances : Speak(turn)
    BY <2>1 DEF ReadingNext, Report, readingVars
  <2>3. ~FromProvider(turn)
    <3>1. transcript' = Append(transcript, turn)
      BY <2>2 DEF Speak
    <3>. QED
      BY <2>1, <3>1, Appended DEF ConversationInv
  <2>4. /\ events = EventsOf(transcript) /\ events' = EventsOf(Append(transcript, turn))
        /\ claims = ClaimsRead(transcript, account)
        /\ confirmed = ConfirmedFields(transcript, claims)
        /\ claims' = ClaimsRead(Append(transcript, turn), account)
        /\ confirmed' = ConfirmedFields(Append(transcript, turn), claims')
    BY <2>1, <2>2 DEF ConversationInv, Speak, Read
  <2>5. claims' = claims /\ confirmed' = confirmed
    BY <2>1, <2>3, <2>4, OthersChangeNothing DEF ConversationInv, ConfirmedFields
  <2>6. /\ SafetyHeard(Append(transcript, turn)) = SafetyHeard(transcript)
        /\ DisclosureSpoken(transcript) => DisclosureSpoken(Append(transcript, turn))
        /\ Len(transcript) >= 4 =>
             (DisclosureSpoken(Append(transcript, turn)) <=> DisclosureSpoken(transcript))
    BY <2>1, <2>3, EventsAppend DEF ConversationInv
  <2>7. Append(transcript, turn) # <<>> /\ (Len(transcript) >= 4 => transcript # <<>>)
    <3>1. Len(Append(transcript, turn)) = Len(transcript) + 1 /\ Len(transcript) \in Nat
      BY <2>1, Turns, Appended DEF ConversationInv
    <3>2. Len(<<>>) = 0
      OBVIOUS
    <3>3. Len(Append(transcript, turn)) # 0
      BY <3>1
    <3>. QED
      BY <3>1, <3>2, <3>3
  <2>8. /\ events' \ {"no_disclosure"} = events \ {"no_disclosure"}
        /\ transcript # <<>> => events' \subseteq events
        /\ Len(transcript) >= 4 => events' = events
    BY <2>4, <2>6, <2>7 DEF EventsOf
  <2>. QED
    BY <2>5, <2>8 DEF evidence
<1>. QED
  BY <1>1, Conversation_Inv, PTL DEF ReadingSpec, OnlyTheProviderSettles

\* An account changes nothing, or makes the one claim there is ambiguous.
LEMMA AccountRead ==
  ASSUME NEW turns \in Conversation, NEW value \in Values
  PROVE  \/ ClaimsRead(turns, value) = ClaimsRead(turns, NoValue)
         \/ \E c \in ClaimsRead(turns, value) : c.grade.ambiguous
<1>1. CASE Candidates(turns) # {}
  <2>. DEFINE several == Cardinality(Candidates(turns)) > 1
              agreed == Agreed(turns) # {}
              chosen == ChosenValue(turns)
              turn == turns[Chosen(turns)]
  <2>1. several \in BOOLEAN /\ agreed \in BOOLEAN
    OBVIOUS
  <2>2. \A hint : ClaimsRead(turns, hint)
                   = {OnSchedule(chosen, GradeOf(chosen, turn, several, hint, agreed))}
    BY <1>1, ClaimsAre DEF TheClaim
  <2>3. value # NoValue
    BY PolicyAssumption
  <2>. HIDE DEF several, agreed, chosen, turn
  <2>4. CASE value = chosen
    <3>1. GradeOf(chosen, turn, several, value, agreed) = GradeOf(chosen, turn, several, NoValue, agreed)
      BY <2>1, <2>4, GradesStated
    <3>. QED
      BY <2>2, <3>1
  <2>5. CASE value # chosen
    <3>1. GradeOf(chosen, turn, several, value, agreed).ambiguous
      BY <2>1, <2>3, <2>5, GradesStated
    <3>2. OnSchedule(chosen, GradeOf(chosen, turn, several, value, agreed)).grade
            = GradeOf(chosen, turn, several, value, agreed)
      BY DEF OnSchedule
    <3>. QED
      BY <2>2, <3>1, <3>2
  <2>. QED
    BY <2>4, <2>5
<1>2. CASE Candidates(turns) = {}
  <2>1. OnSchedule(value, HintOnly) \in ClaimsRead(turns, value)
    BY <1>2, ClaimsAre, PolicyAssumption
  <2>2. OnSchedule(value, HintOnly).grade.ambiguous
    BY DEF OnSchedule, HintOnly
  <2>. QED
    BY <2>1, <2>2
<1>. QED
  BY <1>1, <1>2

\* CALL-E's account never makes the verdict milder and never has a value applied.
THEOREM AccountRemoves == ReadingSpec => AccountOnlyRemoves
<1>1. ConversationInv /\ [ReadingNext]_readingVars =>
        [account' # account => /\ verdict' >= verdict
                               /\ verdict' = APPLY => verdict = APPLY]_readingVars
  <2>1. SUFFICES ASSUME ConversationInv, [ReadingNext]_readingVars, account' # account
                 PROVE  /\ verdict' >= verdict
                        /\ verdict' = APPLY => verdict = APPLY
    OBVIOUS
  <2>2. PICK value \in Accounts : Report(value)
    BY <2>1 DEF ReadingNext, Speak, readingVars
  <2>3. /\ events' = events
        /\ claims = ClaimsRead(transcript, NoValue)
        /\ confirmed = ConfirmedFields(transcript, claims)
        /\ claims' = ClaimsRead(transcript, value)
        /\ confirmed' = ConfirmedFields(transcript, claims')
    BY <2>1, <2>2 DEF ConversationInv, Report, Read
  <2>. DEFINE V(cs, fs) == Overall(Classify(Finding(events, cs, fs), {"schedule"}))
  <2>4. verdict = V(claims, confirmed) /\ verdict' = V(claims', confirmed')
    BY <2>3, EvidenceIs DEF verdict, decisions, evidence, Finding
  <2>5. /\ V(claims, confirmed) \in Authority /\ V(claims', confirmed') \in Authority
        /\ V(claims, confirmed) = STOP => V(claims', confirmed') = STOP
        /\ \A c \in claims' : ClassifyClaim(c) = REVIEW => V(claims', confirmed') >= REVIEW
    BY VerdictOnHours
  <2>. HIDE DEF V
  <2>6. CASE claims' = claims
    BY <2>3, <2>4, <2>5, <2>6 DEF Authority, REFRESH, STOP
  <2>7. CASE \E c \in claims' : c.grade.ambiguous
    <3>1. PICK c \in claims' : c.grade.ambiguous
      BY <2>7
    <3>2. ClassifyClaim(c) = REVIEW
      BY <3>1 DEF ClassifyClaim
    <3>3. verdict' >= REVIEW
      BY <2>4, <2>5, <3>2
    <3>. QED
      BY <2>4, <2>5, <3>3 DEF Authority, REFRESH, APPLY, REVIEW, STOP
  <2>. QED
    BY <2>1, <2>3, <2>6, <2>7, AccountRead, ReadingAssumption DEF ConversationInv
<1>. QED
  BY <1>1, Conversation_Inv, PTL DEF ReadingSpec, AccountOnlyRemoves

-----------------------------------------------------------------------------
\* Every conversation is one TranscriptReading ranges over.

\* What has been claimed or confirmed is never taken back to nothing by a turn more.
LEMMA ReadingGrows ==
  ASSUME ConversationInv, NEW turn \in Utterances, Speak(turn), claims' = {}
  PROVE  claims = {} /\ confirmed \subseteq confirmed'
<1>1. /\ transcript \in Conversation
      /\ claims = ClaimsRead(transcript, account)
      /\ claims' = ClaimsRead(Append(transcript, turn), account)
      /\ confirmed = ConfirmedFields(transcript, claims)
      /\ confirmed' = ConfirmedFields(Append(transcript, turn), claims')
  BY DEF ConversationInv, Speak, Read
<1>2. Candidates(Append(transcript, turn)) = {}
  BY <1>1, ClaimsAre
<1>3. Candidates(transcript) = {}
  BY <1>1, <1>2, CandidatesAppend
<1>4. claims = {}
  BY <1>1, <1>2, <1>3, ClaimsAre
<1>. QED
  BY <1>1, <1>4, RecordConfirmedAppend DEF ConfirmedFields

\* What a step of the conversation makes of the fields is an answer heard, or nothing.
LEMMA ReadingAnswers ==
  ASSUME ConversationInv, ConversationInv', [ReadingNext]_readingVars
  PROVE  Reading!HearAnswer
<1>1. CASE claims' = {}
  <2>1. CASE account' = account /\ transcript' = transcript
    <3>1. claims' = claims /\ confirmed' = confirmed
      BY <2>1 DEF ConversationInv
    <3>. QED
      BY <3>1 DEF Reading!HearAnswer
  <2>2. ASSUME NEW value \in Accounts, Report(value) PROVE FALSE
    <3>1. claims' = ClaimsRead(transcript, value) /\ value \in Values /\ value # NoValue
      BY <2>2, ReadingAssumption, PolicyAssumption DEF Report, Read
    <3>2. ClaimsRead(transcript, value) # {}
      BY <3>1, ClaimsAre
    <3>. QED
      BY <1>1, <3>1, <3>2
  <2>3. ASSUME NEW turn \in Utterances, Speak(turn) PROVE Reading!HearAnswer
    <3>1. claims = {} /\ confirmed \subseteq confirmed'
      BY <1>1, <2>3, ReadingGrows
    <3>2. confirmed \in {{}, {"schedule"}} /\ confirmed' \in {{}, {"schedule"}}
      BY DEF ConversationInv, ConfirmedFields
    <3>3. CASE confirmed' = confirmed
      BY <1>1, <3>1, <3>3 DEF Reading!HearAnswer
    <3>4. CASE confirmed' # confirmed
      <4>1. confirmed' = confirmed \cup {"schedule"}
        BY <3>1, <3>2, <3>4
      <4>2. Reading!HearConfirmation("schedule")
        BY <1>1, <3>1, <4>1 DEF Reading!HearConfirmation
      <4>. QED
        BY <4>2, ReadingAssumption DEF Reading!HearAnswer
    <3>. QED
      BY <3>3, <3>4
  <2>. QED
    BY <1>1, <2>1, <2>2, <2>3 DEF ReadingNext, readingVars
<1>2. CASE claims' # {}
  <2>1. /\ \E c : claims' \subseteq {c}
        /\ \A c \in claims' : /\ c \in Claim /\ c.grade \in ReadGrades
                             /\ c.field = "schedule" /\ c.value \in Values
    <3>1. /\ transcript' \in Conversation /\ account' \in Values \cup {NoValue}
          /\ claims' = ClaimsRead(transcript', account')
      BY ReadingAssumption DEF ConversationInv
    <3>. QED
      BY <3>1, ClaimsType
  <2>2. PICK c : claims' = {c}
    BY <1>2, <2>1
  <2>3. \A d \in claims : d.field = "schedule"
    BY ClaimsType, AccountIsValue DEF ConversationInv
  <2>4. confirmed \subseteq {"schedule"} /\ confirmed' = {}
    BY <1>2 DEF ConversationInv, ConfirmedFields
  <2>5. /\ c = [field |-> c.field, value |-> c.value, grade |-> c.grade]
        /\ c.field = "schedule" /\ c.grade \in ReadGrades /\ c.value \in Values
    BY <2>1, <2>2 DEF Claim
  <2>6. Reading!ReadGrades = ReadGrades
    BY DEF Reading!ReadGrades, ReadGrades, Reading!HintOnly, HintOnly, Reading!Stated, Stated
  <2>7. Reading!HearClaim(c)
    BY <2>2, <2>3, <2>4, <2>5 DEF Reading!HearClaim
  <2>8. \E f \in Fields, g \in ReadGrades, v \in Values :
          Reading!HearClaim([field |-> f, value |-> v, grade |-> g])
    BY <2>5, <2>7, ReadingAssumption
  <2>. QED
    BY <2>6, <2>8 DEF Reading!HearAnswer
<1>. QED
  BY <1>1, <1>2

\* What a turn is heard for is one of the phrasings, and the disclosure comes out as it may.
LEMMA ReadingHears ==
  ASSUME ConversationInv, ConversationInv', [ReadingNext]_readingVars
  PROVE  \E phrases \in {{}} \cup {turn.phrases \cap SpokenKinds : turn \in Utterances} :
           Reading!HearPhrases(phrases)
<1>1. \A turns : \E undisclosed \in SUBSET {"no_disclosure"} :
        EventsOf(turns) = SafetyHeard(turns) \cup undisclosed
  BY DEF EventsOf
<1>2. \A turns : SafetyHeard(turns) \subseteq SpokenKinds
  BY DEF SafetyHeard
<1>3. "no_disclosure" \notin SpokenKinds
  BY DEF SpokenKinds
<1>4. events = EventsOf(transcript) /\ events' = EventsOf(transcript')
  BY DEF ConversationInv
<1>5. events \ {"no_disclosure"} = SafetyHeard(transcript)
  BY <1>1, <1>2, <1>3, <1>4
<1>6. ASSUME NEW phrases, SafetyHeard(transcript') = SafetyHeard(transcript) \cup phrases
      PROVE  Reading!HearPhrases(phrases)
  <2>1. PICK undisclosed \in SUBSET {"no_disclosure"} :
          events' = SafetyHeard(transcript') \cup undisclosed
    BY <1>1, <1>4
  <2>2. events' = (events \ {"no_disclosure"}) \cup phrases \cup undisclosed
    BY <1>5, <1>6, <2>1
  <2>. QED
    BY <2>2 DEF Reading!HearPhrases
<1>7. CASE transcript' = transcript
  BY <1>6, <1>7
<1>8. ASSUME NEW turn \in Utterances, Speak(turn)
      PROVE  \E phrases \in {{}} \cup {u.phrases \cap SpokenKinds : u \in Utterances} :
               SafetyHeard(transcript') = SafetyHeard(transcript) \cup phrases
  <2>1. SafetyHeard(transcript')
          = SafetyHeard(transcript) \cup (IF FromProvider(turn) THEN turn.phrases \cap SpokenKinds ELSE {})
    BY <1>8, EventsAppend DEF Speak, ConversationInv
  <2>. QED
    BY <2>1
<1>. QED
  BY <1>6, <1>7, <1>8 DEF ReadingNext, Report, readingVars

LEMMA ReadingSteps ==
  ASSUME ConversationInv, ConversationInv', [ReadingNext]_readingVars
  PROVE  Reading!Next
BY ReadingAnswers, ReadingHears DEF Reading!Next

\* A growing conversation implements TranscriptReading: each turn and the account is a
\* claim or a confirmation heard, or changes nothing; so what holds of the policy for any
\* transcript holds for these.
THEOREM ReadsAsTranscript == ReadingSpec => ReadsAsAssumed
<1>1. ReadingInit => Reading!Init
  <2>1. {"schedule"} \in (SUBSET Fields) \ {{}} /\ "completed" \in Telephony
    BY ReadingAssumption
  <2>. QED
    BY <2>1 DEF ReadingInit, Reading!Init
<1>2. ConversationInv /\ ConversationInv' /\ [ReadingNext]_readingVars => [Reading!Next]_Reading!vars
  BY ReadingSteps
<1>. QED
  BY <1>1, <1>2, Conversation_Inv, PTL DEF ReadingSpec, ReadsAsAssumed, Reading!Spec
=============================================================================
