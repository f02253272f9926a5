----------------------------- MODULE MCScheduler -----------------------------
(***************************************************************************)
(* Schedules for Scheduler.  A minute is four units of time and a          *)
(* millisecond two of them, or three units where milliseconds do not       *)
(* matter.                                                                 *)
(***************************************************************************)
EXTENDS Scheduler

Every(n) == {t \in 1..MaxTime : t % n = 0}

\* Two events of one command and a third event, all on whole minutes.
MinuteIds    == <<"report", "report", "prune">>
MinuteOccurs == <<Every(Minute), {2 * Minute}, {Minute, 3 * Minute}>>

\* every_second beside daily_at.
MixedIds    == <<"poll", "backup">>
MixedOccurs == <<Every(1), {2}>>

\* every_minute alone.
OneId     == <<"poll">>
OneOccurs == <<Every(Minute)>>
=============================================================================
