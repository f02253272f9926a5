------------------------------- MODULE Schedule -------------------------------
(***************************************************************************)
(* Registering scheduled events: Schedule's registry, the fluent builder   *)
(* of Event and the cron expression it compiles to                         *)
(* (src/framework/schedule/registry.rs, event.rs, frequency.rs).           *)
(*                                                                         *)
(* A cron field is the set of values it admits, an expression a sequence   *)
(* of fields; <<>> stands for text the cron parser refuses.  The calendar  *)
(* is cut down by the constants; weekdays are the real ones, any weekday   *)
(* can fall on any day of a month.                                         *)
(***************************************************************************)
EXTENDS Naturals, Sequences

CONSTANTS
  MaxSecond, MaxMinute, MaxHour, MaxDay, MaxMonth,
  Command,     \* the commands of the kernel
  Name,        \* names passed to Schedule::command
  RawExpr,     \* expressions passed to Event::cron
  MaxEvents,   \* bound: events registered
  None

Second == 0..MaxSecond
Minute == 0..MaxMinute
Hour   == 0..MaxHour
Day    == 1..MaxDay
Month  == 1..MaxMonth
Dow    == 0..6

Instant == Second \X Minute \X Hour \X Day \X Month \X Dow

Field5  == (SUBSET Minute) \X (SUBSET Hour) \X (SUBSET Day) \X (SUBSET Month) \X (SUBSET Dow)
Field6  == (SUBSET Second) \X (SUBSET Minute) \X (SUBSET Hour)
             \X (SUBSET Day) \X (SUBSET Month) \X (SUBSET Dow)
Refused == <<>>

ASSUME ScheduleAssumption ==
  /\ MaxSecond \in Nat /\ MaxMinute \in Nat \ {0} /\ MaxHour \in Nat
  /\ MaxDay \in Nat \ {0} /\ MaxMonth \in Nat \ {0}
  /\ RawExpr \subseteq Field6 \cup Field5 \cup {Refused}
  /\ MaxEvents \in Nat

-----------------------------------------------------------------------------
(***************************************************************************)
(* The cron library: which instants an expression matches.  When both days *)
(* are restricted, either of them will do.                                 *)
(***************************************************************************)
Matches(x, t) ==
  /\ t[1] \in x[1] /\ t[2] \in x[2] /\ t[3] \in x[3] /\ t[5] \in x[5]
  /\ IF x[4] # Day /\ x[6] # Dow THEN t[4] \in x[4] \/ t[6] \in x[6]
                                 ELSE t[4] \in x[4] /\ t[6] \in x[6]

\* Without a field for the seconds an occurrence is at second 0.
WithSeconds(x) == IF Len(x) = 5 THEN <<{0}>> \o x ELSE x

Occurrences(x) == IF x = Refused THEN {} ELSE {t \in Instant : Matches(WithSeconds(x), t)}
-----------------------------------------------------------------------------
(***************************************************************************)
(* Frequency, DowFilter and to_cron_expr.                                  *)
(***************************************************************************)
Frequency ==
       [kind : {"EverySecond", "Quarterly", "Yearly"}]
  \cup [kind : {"Raw"}, expr : RawExpr]
  \cup [kind : {"EveryMinutes"}, n : 0..MaxMinute]
  \cup [kind : {"HourlyAt"}, minute : Minute]
  \cup [kind : {"DailyAt"}, hour : Hour, minute : Minute]
  \cup [kind : {"TwiceDaily"}, first : Hour, second : Hour]
  \cup [kind : {"WeeklyOn"}, day : Dow, hour : Hour, minute : Minute]
  \cup [kind : {"MonthlyOn"}, day : Day, hour : Hour, minute : Minute]

ToCronExpr(f) ==
  CASE f.kind = "Raw"          -> f.expr
    [] f.kind = "EverySecond"  -> <<Second, Minute, Hour, Day, Month, Dow>>
    [] f.kind = "EveryMinutes" ->
         IF f.n = 0 THEN Refused
         ELSE <<{0}, {m \in Minute : m % f.n = 0}, Hour, Day, Month, Dow>>
    [] f.kind = "HourlyAt"     -> <<{0}, {f.minute}, Hour, Day, Month, Dow>>
    [] f.kind = "DailyAt"      -> <<{0}, {f.minute}, {f.hour}, Day, Month, Dow>>
    [] f.kind = "TwiceDaily"   -> <<{0}, {0}, {f.first, f.second}, Day, Month, Dow>>
    [] f.kind = "WeeklyOn"     -> <<{0}, {f.minute}, {f.hour}, Day, Month, {f.day}>>
    [] f.kind = "MonthlyOn"    -> <<{0}, {f.minute}, {f.hour}, {f.day}, Month, Dow>>
    [] f.kind = "Quarterly"    -> <<{0}, {0}, {0}, {1}, Month \cap {1, 4, 7, 10}, Dow>>
    [] f.kind = "Yearly"       -> <<{0}, {0}, {0}, {1}, {1}, Dow>>

\* DowFilter: Weekdays, Weekends, Single.
Filters == {1..5, {0, 6}} \cup {{d} : d \in Dow}

\* Mutant of ApplyModifiers: the weekday is written over the month.
ApplyOneFieldOff(x, hours, filter) ==
  IF (hours = None /\ filter = None) \/ Len(x) # 6 THEN x
  ELSE <<x[1], x[2], IF hours = None THEN x[3] ELSE hours, x[4],
         IF filter = None THEN x[5] ELSE filter, x[6]>>

\* Six fields: the hours of between and the filter's weekdays take the place
\* of the frequency's.  Anything else is returned as it is.
ApplyModifiers(x, hours, filter) ==
  IF (hours = None /\ filter = None) \/ Len(x) # 6 THEN x
  ELSE <<x[1], x[2], IF hours = None THEN x[3] ELSE hours, x[4], x[5],
         IF filter = None THEN x[6] ELSE filter>>
-----------------------------------------------------------------------------
VARIABLES
  events,   \* the registered events, in order
  first     \* history: event -> error of its first call that failed

vars == <<events, first>>

Error == {"time", "day", "timezone", None}
Id    == ({"command"} \X Name) \cup ({"closure"} \X Nat)

Hours == {start..end : start, end \in Hour} \ {{}}
Event == [id : Id, frequency : Frequency,
          hours : Hours \cup {None}, filter : Filters \cup {None}, error : Error]

NewEvent(id) ==
  [id |-> id, frequency |-> [kind |-> "EveryMinutes", n |-> 1],
   hours |-> None, filter |-> None, error |-> None]

Last == Len(events)

\* Mutant of Fail: the latest error is kept.
FailAgain(e, error) == [e EXCEPT !.error = error]

\* Only the first error is kept; the event's other fields stay.
Fail(e, error) == IF e.error = None THEN [e EXCEPT !.error = error] ELSE e

\* Every builder method works on the event that was registered last.
Build(e) ==
  /\ events' = [events EXCEPT ![Last] = e]
  /\ first' = first

Refuse(error) ==
  /\ events' = [events EXCEPT ![Last] = Fail(@, error)]
  /\ first' = IF first[Last] = None THEN [first EXCEPT ![Last] = error] ELSE first

Register(id) ==
  /\ Last < MaxEvents
  /\ events' = Append(events, NewEvent(id))
  /\ first' = Append(first, None)

\* command, command_with_args and call.
RegisterCommand(name) == Register(<<"command", name>>)
RegisterClosure       == Register(<<"closure", Last>>)

SetFrequency(f) == Build([events[Last] EXCEPT !.frequency = f])

\* cron, every_second, every_minute(s), every_*_minutes, quarterly, yearly:
\* no check.
Unchecked(f) ==
  /\ f.kind \in {"Raw", "EverySecond", "EveryMinutes", "Quarterly", "Yearly"}
  /\ SetFrequency(f)

HourlyAt(minute) ==
  IF minute \in Minute THEN SetFrequency([kind |-> "HourlyAt", minute |-> minute])
                       ELSE Refuse("time")

\* parse_time.
IsTime(hour, minute) == hour \in Hour /\ minute \in Minute

DailyAt(hour, minute) ==
  IF IsTime(hour, minute)
    THEN SetFrequency([kind |-> "DailyAt", hour |-> hour, minute |-> minute])
    ELSE Refuse("time")

TwiceDaily(hour1, hour2) ==
  IF hour1 \in Hour /\ hour2 \in Hour
    THEN SetFrequency([kind |-> "TwiceDaily", first |-> hour1, second |-> hour2])
    ELSE Refuse("time")

WeeklyOn(day, hour, minute) ==
  IF IsTime(hour, minute)
    THEN SetFrequency([kind |-> "WeeklyOn", day |-> day, hour |-> hour, minute |-> minute])
    ELSE Refuse("time")

MonthlyOn(day, hour, minute) ==
  IF day \notin Day THEN Refuse("day")
  ELSE IF ~IsTime(hour, minute) THEN Refuse("time")
  ELSE SetFrequency([kind |-> "MonthlyOn", day |-> day, hour |-> hour, minute |-> minute])

\* weekdays, weekends, mondays ... sundays.
On(filter) == Build([events[Last] EXCEPT !.filter = filter])

\* Mutant of IsRange: the order of the hours is not looked at.
BothAreTimes(start, end) == start \in Hour /\ end \in Hour

IsRange(start, end) == start \in Hour /\ end \in Hour /\ start <= end

Between(start, end) ==
  IF IsRange(start, end) THEN Build([events[Last] EXCEPT !.hours = start..end])
                         ELSE Refuse("time")

\* A timezone moves the occurrences of an event as a whole; only a name that
\* does not parse matters here.
BadTimezone == Refuse("timezone")
-----------------------------------------------------------------------------
Init == events = <<>> /\ first = <<>>

AnyHour   == 0..MaxHour + 1
AnyMinute == 0..MaxMinute + 1

SetTime ==
  \/ \E f \in Frequency : Unchecked(f)
  \/ \E m \in AnyMinute : HourlyAt(m)
  \/ \E h \in AnyHour, m \in AnyMinute : DailyAt(h, m)
  \/ \E h1, h2 \in AnyHour : TwiceDaily(h1, h2)
  \/ \E d \in Dow, h \in AnyHour, m \in AnyMinute : WeeklyOn(d, h, m)
  \/ \E d \in 0..MaxDay + 1, h \in AnyHour, m \in AnyMinute : MonthlyOn(d, h, m)

Restrict ==
  \/ \E filter \in Filters : On(filter)
  \/ \E start, end \in AnyHour : Between(start, end)

Next ==
  \/ \E name \in Name : RegisterCommand(name)
  \/ RegisterClosure
  \/ Last > 0 /\ (SetTime \/ Restrict \/ BadTimezone)

Spec == Init /\ [][Next]_vars
-----------------------------------------------------------------------------
(***************************************************************************)
(* What becomes of an event.                                               *)
(***************************************************************************)
Base(e) == ToCronExpr(e.frequency)

\* expression and build_cron: an event with an error compiles to nothing.
Compiled(e) == IF e.error # None THEN Refused
               ELSE ApplyModifiers(Base(e), e.hours, e.filter)

\* Schedule::validate.
Valid(e) == Compiled(e) # Refused /\ (e.id[1] = "closure" \/ e.id[2] \in Command)

Admits(e, t) == /\ e.hours = None \/ t[3] \in e.hours
                /\ e.filter = None \/ t[6] \in e.filter
-----------------------------------------------------------------------------
TypeOK ==
  /\ events \in Seq(Event)
  /\ first \in Seq(Error) /\ Len(first) = Len(events)

\* "Restrictions cut down a frequency that leaves their field open to exactly
\* the occurrences they admit", in whatever order the builder methods were
\* called (apply_modifiers, with build_cron's expression read by the cron
\* library).
RestrictsOpenFields ==
  \A k \in DOMAIN events : LET e == events[k]  x == Base(e) IN
    /\ Compiled(e) # Refused /\ Len(x) = 6
    /\ e.hours # None => x[3] = Hour
    /\ e.filter # None => x[4] = Day /\ x[6] = Dow
    => Occurrences(Compiled(e)) = {t \in Occurrences(x) : Admits(e, t)}

\* "The first mistake in a chain of builder calls is the one reported", and it
\* keeps the event from ever being due, whatever is called after it (fail).
FirstErrorSurfaces ==
  \A k \in DOMAIN events : /\ events[k].error = first[k]
                           /\ first[k] # None => Occurrences(Compiled(events[k])) = {}

\* "An event that validates comes due some day", raw expressions aside: the
\* checks of the builder methods keep every field inside its range.
ValidMeansDue ==
  \A k \in DOMAIN events :
    Valid(events[k]) /\ events[k].frequency.kind # "Raw" => Occurrences(Compiled(events[k])) # {}

\* "between restricts execution to the hour range" (event.rs:233) and a
\* weekday filter is a "restriction layered on top of the base frequency"
\* (event.rs:29): they never add an occurrence.
ModifiersOnlyRestrict ==
  \A k \in DOMAIN events : Occurrences(Compiled(events[k])) \subseteq Occurrences(Base(events[k]))
=============================================================================
