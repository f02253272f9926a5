------------------------------ MODULE DueEvents ------------------------------
(***************************************************************************)
(* The events of a schedule and when they are due (Event::is_due_with in   *)
(* src/framework/schedule/event.rs), which the work loop and schedule:run  *)
(* share.  An event is a number, its position in the schedule; its cron    *)
(* expression is the set of its occurrences.                               *)
(***************************************************************************)
EXTENDS Naturals

CONSTANTS
  N,          \* events 1..N, in registration order
  Id,         \* event -> id of its task: a command's name, shared by all
              \* events of that command
  Occurs,     \* event -> set of occurrences; {} for an invalid event
  Exclusive,  \* events registered without_overlapping
  Led,        \* ids this server is leader for (ServerSelector)
  Minute      \* the 60 s of is_due's window, in units of time

Event == 1..N

ASSUME DueAssumption ==
  /\ N \in Nat /\ Minute \in Nat \ {0}
  /\ DOMAIN Id = Event
  /\ Occurs \in [Event -> SUBSET Nat]
  /\ Exclusive \subseteq Event

\* All occurrences are on whole minutes.
WholeMinutes == \A e \in Event : \A o \in Occurs[e] : \E m \in 0..o : o = m * Minute

\* Mutant of Window: an occurrence is in two windows.
ClosedWindow(e, t) == {o \in Occurs[e] : o <= t /\ t <= o + Minute}

\* The window is (t - Minute, t].
Window(e, t) == {o \in Occurs[e] : o <= t /\ t < o + Minute}

IsDue(e, t) == Window(e, t) # {}
=============================================================================
