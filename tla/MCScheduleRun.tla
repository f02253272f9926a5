---------------------------- MODULE MCScheduleRun ----------------------------
(* A schedule for ScheduleRun. *)
EXTENDS ScheduleRun

\* Two events of one command, an invalid one between them, and another command.
Ids == <<"report", "purge", "report", "backup">>
Minutes(S) == {m * Minute : m \in S}
Occurrences == <<Minutes({1, 2, 3}), {}, Minutes({2}), Minutes({1, 3})>>
=============================================================================
