---------------------------- MODULE ScheduleProofs ----------------------------
(***************************************************************************)
(* Schedule's invariants for every calendar, kernel and number of events.  *)
(***************************************************************************)
EXTENDS Schedule, TLAPS

\* A new event has the type of one.
LEMMA NewEventTyped ==
  ASSUME NEW id \in Id
  PROVE  NewEvent(id) \in Event
  BY ScheduleAssumption DEF NewEvent, Event, Error, Frequency

\* What the builder methods make of an event is one.
LEMMA UpdatedTyped ==
  ASSUME NEW e \in Event
  PROVE  /\ \A f \in Frequency : [e EXCEPT !.frequency = f] \in Event
         /\ \A h \in Hours : [e EXCEPT !.hours = h] \in Event
         /\ \A d \in Filters : [e EXCEPT !.filter = d] \in Event
         /\ \A x \in Error : Fail(e, x) \in Event
  BY DEF Event, Fail

\* The event under construction is there.
LEMMA LastTyped ==
  ASSUME TypeOK, Last > 0
  PROVE  Last \in 1..Len(events) /\ events[Last] \in Event
  BY DEF TypeOK, Last

\* A builder method that accepts its input keeps the types.
LEMMA BuildTyped ==
  ASSUME TypeOK, Last > 0, NEW e \in Event, Build(e)
  PROVE  TypeOK'
  BY LastTyped DEF TypeOK, Build, Last

\* So does one that refuses it.
LEMMA RefuseTyped ==
  ASSUME TypeOK, Last > 0, NEW x \in Error, Refuse(x)
  PROVE  TypeOK'
<1>1. Fail(events[Last], x) \in Event
  BY LastTyped, UpdatedTyped
<1>2. events' = [events EXCEPT ![Last] = Fail(events[Last], x)]
  BY DEF Refuse
<1>3. events' \in Seq(Event) /\ Len(events') = Len(events)
  BY <1>1, <1>2, LastTyped DEF TypeOK
<1>4. first' \in Seq(Error) /\ Len(first') = Len(first)
  BY LastTyped DEF TypeOK, Refuse
<1> QED
  BY <1>3, <1>4 DEF TypeOK

LEMMA RegisterTyped ==
  ASSUME TypeOK, NEW id \in Id, Register(id)
  PROVE  TypeOK'
<1>1. NewEvent(id) \in Event /\ None \in Error
  BY NewEventTyped DEF Error
<1> QED
  BY <1>1 DEF TypeOK, Register

\* Choosing a frequency.
LEMMA FrequencyTyped ==
  ASSUME TypeOK, Last > 0, SetTime
  PROVE  TypeOK'
<1>1. ASSUME NEW f \in Frequency, SetFrequency(f) PROVE TypeOK'
  BY <1>1, LastTyped, UpdatedTyped, BuildTyped DEF SetFrequency
<1>2. ASSUME NEW x \in {"time", "day"}, Refuse(x) PROVE TypeOK'
  BY <1>2, RefuseTyped DEF Error
<1>3. CASE \E f \in Frequency : Unchecked(f)
  BY <1>3, <1>1 DEF Unchecked
<1>4. CASE \E m \in AnyMinute : HourlyAt(m)
  BY <1>4, <1>1, <1>2 DEF HourlyAt, Frequency
<1>5. CASE \E h \in AnyHour, m \in AnyMinute : DailyAt(h, m)
  BY <1>5, <1>1, <1>2 DEF DailyAt, IsTime, Frequency
<1>6. CASE \E h1, h2 \in AnyHour : TwiceDaily(h1, h2)
  BY <1>6, <1>1, <1>2 DEF TwiceDaily, Frequency
<1>7. CASE \E d \in Dow, h \in AnyHour, m \in AnyMinute : WeeklyOn(d, h, m)
  BY <1>7, <1>1, <1>2 DEF WeeklyOn, IsTime, Frequency
<1>8. CASE \E d \in 0..MaxDay + 1, h \in AnyHour, m \in AnyMinute : MonthlyOn(d, h, m)
  BY <1>8, <1>1, <1>2 DEF MonthlyOn, IsTime, Frequency
<1> QED
  BY <1>3, <1>4, <1>5, <1>6, <1>7, <1>8 DEF SetTime

\* Every step keeps the types.
LEMMA StepTyped == TypeOK /\ [Next]_vars => TypeOK'
<1> SUFFICES ASSUME TypeOK, [Next]_vars PROVE TypeOK'
  OBVIOUS
<1>1. ASSUME NEW name \in Name, RegisterCommand(name) PROVE TypeOK'
  BY <1>1, RegisterTyped DEF RegisterCommand, Id
<1>2. ASSUME RegisterClosure PROVE TypeOK'
  <2>1. Last \in Nat
    BY DEF Last, TypeOK
  <2> QED
    BY <1>2, <2>1, RegisterTyped DEF RegisterClosure, Id
<1>3. ASSUME Last > 0, SetTime PROVE TypeOK'
  BY <1>3, FrequencyTyped
<1>4. ASSUME Last > 0, NEW filter \in Filters, On(filter) PROVE TypeOK'
  BY <1>4, LastTyped, UpdatedTyped, BuildTyped DEF On
<1>5. ASSUME Last > 0, NEW start \in AnyHour, NEW end \in AnyHour, Between(start, end)
      PROVE  TypeOK'
  <2>1. CASE IsRange(start, end)
    <3>1. start..end \in Hours
      <4>1. start \in start..end
        BY <2>1 DEF IsRange, Hour
      <4> QED
        BY <2>1, <4>1 DEF IsRange, Hours
    <3> QED
      BY <1>5, <2>1, <3>1, LastTyped, UpdatedTyped, BuildTyped DEF Between
  <2>2. CASE ~IsRange(start, end)
    BY <1>5, <2>2, RefuseTyped DEF Between, Error
  <2> QED
    BY <2>1, <2>2
<1>6. ASSUME Last > 0, BadTimezone PROVE TypeOK'
  BY <1>6, RefuseTyped DEF BadTimezone, Error
<1>7. CASE UNCHANGED vars
  BY <1>7 DEF vars, TypeOK
<1> QED
  BY <1>1, <1>2, <1>3, <1>4, <1>5, <1>6, <1>7 DEF Next, Restrict

\* Events keep the shape the builder gives them.
THEOREM EventsTyped == Spec => []TypeOK
<1>1. Init => TypeOK
  BY DEF Init, TypeOK
<1> QED
  BY <1>1, StepTyped, PTL DEF Spec
-----------------------------------------------------------------------------
(***************************************************************************)
(* The first error.                                                        *)
(***************************************************************************)
ErrorsAgree == \A k \in DOMAIN events : events[k].error = first[k]

\* Builder calls that do not fail leave the error alone.
LEMMA BuildAgrees ==
  ASSUME TypeOK, ErrorsAgree, Last > 0, NEW e, e.error = events[Last].error, Build(e)
  PROVE  ErrorsAgree'
  BY LastTyped DEF TypeOK, ErrorsAgree, Build, Last

\* One that fails records its error in both places, or in neither.
LEMMA RefuseAgrees ==
  ASSUME TypeOK, ErrorsAgree, Last > 0, NEW x \in Error, Refuse(x)
  PROVE  ErrorsAgree'
<1>1. Last \in DOMAIN events /\ Last \in DOMAIN first /\ events[Last] \in Event
  BY LastTyped DEF TypeOK
<1>2. events[Last].error = first[Last]
  BY <1>1 DEF ErrorsAgree
<1>3. DOMAIN events' = DOMAIN events
  BY <1>1 DEF Refuse
<1>4. \A k \in DOMAIN events : k # Last => events'[k] = events[k] /\ first'[k] = first[k]
  BY <1>1 DEF Refuse, TypeOK
<1>5. Fail(events[Last], x).error = IF first[Last] = None THEN x ELSE first[Last]
  BY <1>1, <1>2 DEF Fail, Event
<1>6. events'[Last] = Fail(events[Last], x)
  BY <1>1 DEF Refuse
<1>7. first'[Last] = IF first[Last] = None THEN x ELSE first[Last]
  BY <1>1 DEF Refuse, TypeOK
<1> QED
  BY <1>2, <1>3, <1>4, <1>5, <1>6, <1>7 DEF ErrorsAgree

LEMMA RegisterAgrees ==
  ASSUME TypeOK, ErrorsAgree, NEW id, Register(id)
  PROVE  ErrorsAgree'
  BY DEF TypeOK, ErrorsAgree, Register, NewEvent

LEMMA FrequencyAgrees ==
  ASSUME TypeOK, ErrorsAgree, Last > 0, SetTime
  PROVE  ErrorsAgree'
<1>1. ASSUME NEW f, SetFrequency(f) PROVE ErrorsAgree'
  BY <1>1, LastTyped, BuildAgrees DEF SetFrequency, Event
<1>2. ASSUME NEW x \in {"time", "day"}, Refuse(x) PROVE ErrorsAgree'
  BY <1>2, RefuseAgrees DEF Error
<1> QED
  BY <1>1, <1>2 DEF SetTime, Unchecked, HourlyAt, DailyAt, TwiceDaily, WeeklyOn, MonthlyOn

LEMMA StepAgrees == TypeOK /\ ErrorsAgree /\ [Next]_vars => ErrorsAgree'
<1> SUFFICES ASSUME TypeOK, ErrorsAgree, [Next]_vars PROVE ErrorsAgree'
  OBVIOUS
<1>1. ASSUME NEW id, Register(id) PROVE ErrorsAgree'
  BY <1>1, RegisterAgrees
<1>2. ASSUME Last > 0, SetTime PROVE ErrorsAgree'
  BY <1>2, FrequencyAgrees
<1>3. ASSUME Last > 0, NEW filter \in Filters, On(filter) PROVE ErrorsAgree'
  BY <1>3, LastTyped, BuildAgrees DEF On, Event
<1>4. ASSUME Last > 0, NEW start, NEW end, Between(start, end) PROVE ErrorsAgree'
  <2>1. CASE IsRange(start, end)
    BY <1>4, <2>1, LastTyped, BuildAgrees DEF Between, Event
  <2>2. CASE ~IsRange(start, end)
    BY <1>4, <2>2, RefuseAgrees DEF Between, Error
  <2> QED
    BY <2>1, <2>2
<1>5. ASSUME Last > 0, BadTimezone PROVE ErrorsAgree'
  BY <1>5, RefuseAgrees DEF BadTimezone, Error
<1>6. CASE UNCHANGED vars
  BY <1>6 DEF vars, ErrorsAgree
<1> QED
  BY <1>1, <1>2, <1>3, <1>4, <1>5, <1>6 DEF Next, RegisterCommand, RegisterClosure, Restrict

\* The first failing builder call of an event is the one reported, and the
\* event is never due.
THEOREM FirstErrorStays == Spec => []FirstErrorSurfaces
<1>1. Init => ErrorsAgree
  BY DEF Init, ErrorsAgree
<1>2. ErrorsAgree => FirstErrorSurfaces
  BY DEF ErrorsAgree, FirstErrorSurfaces, Compiled, Occurrences
<1> QED
  BY <1>1, <1>2, StepAgrees, EventsTyped, PTL DEF Spec
-----------------------------------------------------------------------------
(***************************************************************************)
(* Expressions.                                                            *)
(***************************************************************************)
\* Six fields, each with a value in its range.
Inhabited(x) ==
  /\ x # Refused /\ Len(x) = 6
  /\ \E v \in x[1] : v \in Second
  /\ \E v \in x[2] : v \in Minute
  /\ \E v \in x[3] : v \in Hour
  /\ \E v \in x[4] : v \in Day
  /\ \E v \in x[5] : v \in Month
  /\ \E v \in x[6] : v \in Dow

\* The ranges are not empty.
LEMMA Ranges ==
  /\ 0 \in Second /\ 0 \in Minute /\ 0 \in Hour /\ 1 \in Day /\ 1 \in Month /\ 0 \in Dow
  BY ScheduleAssumption DEF Second, Minute, Hour, Day, Month, Dow

\* The checked frequencies, and every step but 0, give such an expression.
LEMMA FrequencyInhabited ==
  ASSUME NEW f \in Frequency, f.kind # "Raw", ToCronExpr(f) # Refused
  PROVE  Inhabited(ToCronExpr(f))
<1>1. CASE f.kind = "EveryMinutes"
  <2>1. f.n \in Nat \ {0}
    BY <1>1, ScheduleAssumption DEF Frequency, ToCronExpr
  <2>2. 0 % f.n = 0
    BY <2>1
  <2>3. 0 \in {m \in Minute : m % f.n = 0}
    BY <2>2, Ranges
  <2> QED
    BY <1>1, <2>1, <2>3, Ranges DEF ToCronExpr, Inhabited
<1>2. CASE f.kind \in {"EverySecond", "Quarterly", "Yearly"}
  BY <1>2, Ranges DEF ToCronExpr, Inhabited
<1>3. CASE f.kind = "HourlyAt"
  BY <1>3, Ranges DEF ToCronExpr, Inhabited, Frequency
<1>4. CASE f.kind = "DailyAt"
  BY <1>4, Ranges DEF ToCronExpr, Inhabited, Frequency
<1>5. CASE f.kind = "TwiceDaily"
  BY <1>5, Ranges DEF ToCronExpr, Inhabited, Frequency
<1>6. CASE f.kind = "WeeklyOn"
  BY <1>6, Ranges DEF ToCronExpr, Inhabited, Frequency
<1>7. CASE f.kind = "MonthlyOn"
  BY <1>7, Ranges DEF ToCronExpr, Inhabited, Frequency
<1> QED
  BY <1>1, <1>2, <1>3, <1>4, <1>5, <1>6, <1>7 DEF Frequency

\* The modifiers keep it so.
LEMMA ModifiersInhabited ==
  ASSUME NEW x, Inhabited(x), NEW h \in Hours \cup {None}, NEW d \in Filters \cup {None}
  PROVE  Inhabited(ApplyModifiers(x, h, d))
<1>2. h # None => \E v \in h : v \in Hour
  BY ScheduleAssumption DEF Hours, Hour
<1>3. d # None => \E v \in d : v \in Dow
  BY DEF Filters, Dow
<1> QED
  BY <1>2, <1>3 DEF ApplyModifiers, Inhabited, Refused

\* Such an expression has an occurrence.
LEMMA InhabitedOccurs ==
  ASSUME NEW x, Inhabited(x)
  PROVE  Occurrences(x) # {}
<1>1. PICK s \in x[1], m \in x[2], h \in x[3], d \in x[4], n \in x[5], w \in x[6] :
        /\ s \in Second /\ m \in Minute /\ h \in Hour
        /\ d \in Day /\ n \in Month /\ w \in Dow
  BY DEF Inhabited
<1> DEFINE t == <<s, m, h, d, n, w>>
<1>2. x # Refused /\ WithSeconds(x) = x
  BY DEF Inhabited, WithSeconds
<1>4. t \in Instant
  BY <1>1 DEF Instant
<1>5. Matches(x, t)
  BY <1>1 DEF Matches
<1> QED
  BY <1>2, <1>4, <1>5 DEF Occurrences

\* The checks of the builder methods keep every field inside its range: an
\* event that validates, other than a raw expression, comes due.
THEOREM ValidEventsComeDue == Spec => []ValidMeansDue
<1>1. TypeOK => ValidMeansDue
  <2> SUFFICES ASSUME TypeOK, NEW k \in DOMAIN events,
                      Valid(events[k]), events[k].frequency.kind # "Raw"
               PROVE  Occurrences(Compiled(events[k])) # {}
    BY DEF ValidMeansDue
  <2> DEFINE e == events[k]
  <2>1. e \in Event
    BY DEF TypeOK
  <2>2. Compiled(e) = ApplyModifiers(Base(e), e.hours, e.filter) /\ Compiled(e) # Refused
    BY DEF Valid, Compiled
  <2>3. Base(e) # Refused
    BY <2>2 DEF ApplyModifiers, Refused
  <2>4. Inhabited(Base(e))
    BY <2>1, <2>3, FrequencyInhabited DEF Base, Event
  <2>5. Inhabited(Compiled(e))
    BY <2>1, <2>2, <2>4, ModifiersInhabited DEF Event
  <2> QED
    BY <2>5, InhabitedOccurs
<1> QED
  BY <1>1, EventsTyped, PTL

\* Ranges of hours lie inside the day, weekday filters leave some weekday out.
LEMMA RestrictionsAreProper ==
  /\ \A s \in Hours : s \subseteq Hour
  /\ \A s \in Filters : s \subseteq Dow /\ s # Dow
<1>1. ASSUME NEW s \in Hours PROVE s \subseteq Hour
  <2>1. PICK start \in Hour, end \in Hour : s = start..end
    BY DEF Hours
  <2> QED
    BY <2>1, ScheduleAssumption DEF Hour
<1>2. ASSUME NEW s \in Filters PROVE s \subseteq Dow /\ s # Dow
  <2>1. 0 \in Dow /\ 1 \in Dow /\ 0 \notin 1..5 /\ 1 \notin {0, 6}
    BY DEF Dow
  <2>2. CASE s = 1..5
    BY <2>1, <2>2 DEF Dow
  <2>3. CASE s = {0, 6}
    BY <2>1, <2>3 DEF Dow
  <2>4. ASSUME NEW d \in Dow, s = {d} PROVE s \subseteq Dow /\ s # Dow
    BY <2>1, <2>4
  <2> QED
    BY <2>2, <2>3, <2>4 DEF Filters
<1> QED
  BY <1>1, <1>2

\* between and the weekday methods cut a frequency that leaves their fields
\* open to exactly the occurrences they admit.
THEOREM ModifiersRestrict == Spec => []RestrictsOpenFields
<1>1. TypeOK => RestrictsOpenFields
  <2> SUFFICES ASSUME TypeOK, NEW k \in DOMAIN events,
                      Compiled(events[k]) # Refused, Len(Base(events[k])) = 6,
                      events[k].hours # None => Base(events[k])[3] = Hour,
                      events[k].filter # None => Base(events[k])[4] = Day /\ Base(events[k])[6] = Dow
               PROVE  Occurrences(Compiled(events[k]))
                        = {t \in Occurrences(Base(events[k])) : Admits(events[k], t)}
    BY DEF RestrictsOpenFields
  <2> DEFINE e == events[k]
             x == Base(e)
             y == Compiled(e)
  <2>0. e.hours \in Hours \cup {None} /\ e.filter \in Filters \cup {None}
    <3>1. e \in Event
      BY DEF TypeOK
    <3>2. \A v \in Event : v.hours \in Hours \cup {None} /\ v.filter \in Filters \cup {None}
      BY DEF Event
    <3> QED
      BY <3>1, <3>2
  <2>1. e.hours # None => e.hours \subseteq Hour
    BY <2>0, RestrictionsAreProper
  <2>2. e.filter # None => e.filter \subseteq Dow /\ e.filter # Dow
    BY <2>0, RestrictionsAreProper
  <2>3. y = ApplyModifiers(x, e.hours, e.filter) /\ Len(y) = 6
    BY DEF Compiled, ApplyModifiers
  <2>4. /\ y[1] = x[1] /\ y[2] = x[2] /\ y[4] = x[4] /\ y[5] = x[5]
        /\ y[3] = IF e.hours = None THEN x[3] ELSE e.hours
        /\ y[6] = IF e.filter = None THEN x[6] ELSE e.filter
    BY <2>3 DEF ApplyModifiers
  <2>5. x # Refused /\ WithSeconds(x) = x /\ WithSeconds(y) = y
    BY <2>3 DEF Refused, WithSeconds
  <2>6. \A t \in Instant : t[3] \in Hour /\ t[6] \in Dow
    BY DEF Instant
  <2>7. ASSUME NEW t \in Instant PROVE Matches(y, t) <=> Matches(x, t) /\ Admits(e, t)
    <3>1. e.filter # None => x[4] = Day /\ x[6] = Dow
      OBVIOUS
    <3>2. CASE e.filter = None
      BY <2>1, <2>4, <2>6, <3>2 DEF Matches, Admits
    <3>3. CASE e.filter # None
      BY <2>1, <2>2, <2>4, <2>6, <3>3 DEF Matches, Admits
    <3> QED
      BY <3>2, <3>3
  <2> QED
    BY <2>5, <2>7 DEF Occurrences
<1> QED
  BY <1>1, EventsTyped, PTL
=============================================================================
