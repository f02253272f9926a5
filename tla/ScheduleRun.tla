----------------------------- MODULE ScheduleRun -----------------------------
(***************************************************************************)
(* schedule:run (Scheduler::run_once): cron starts a process every minute, *)
(* some time within the minute, which runs the due events one after the    *)
(* other and exits with an error if any of them failed.  A slow process is *)
(* still busy when the next one starts.  Each has a lock store of its own, *)
(* which is empty at its start and dies with it.                           *)
(***************************************************************************)
EXTENDS DueEvents

CONSTANTS
  Invalid,  \* events whose expression does not parse
  Passes    \* bound: the minutes at which cron starts a process: 1..Passes

Pass  == 1..Passes

ASSUME ScheduleRunAssumption == Passes \in Nat /\ Invalid \subseteq Event

VARIABLES
  stage,    \* stage[k]: where the process of minute k is
  started,  \* started[k]: the time it started at, which is its `now` throughout
  at,       \* at[k]: the event it is at
  store,    \* store[k]: the ids locked in its lock store
  errors,   \* errors[k]: the events whose errors it will report
  ran       \* history: <<k, e>>, the tasks that were executed

runVars == <<stage, started, at, store, errors, ran>>

-----------------------------------------------------------------------------
\* is_due, an error for an expression that does not parse.
Fires(e, t) == e \notin Invalid /\ IsDue(e, t)

RunInit ==
  /\ stage = [k \in Pass |-> "none"]
  /\ started = [k \in Pass |-> 0]
  /\ at = [k \in Pass |-> 1]
  /\ store = [k \in Pass |-> {}]
  /\ errors = [k \in Pass |-> {}]
  /\ ran = {}

\* Cron starts the process of minute k within that minute, the earlier ones
\* started already.
Start(k) ==
  /\ stage[k] = "none" /\ \A j \in Pass : j < k => stage[j] # "none"
  /\ stage' = [stage EXCEPT ![k] = "deciding"]
  /\ \E late \in 0 .. Minute - 1 : started' = [started EXCEPT ![k] = k * Minute + late]
  /\ UNCHANGED <<at, store, errors, ran>>

\* The process has an event before it.
Deciding(k) == stage[k] = "deciding" /\ at[k] \in Event

Locked(k, e) == e \in Exclusive /\ Id[e] \in store[k]

\* An event that is not due, not ours or locked is passed over; an invalid one
\* is an error.
PassOver(k) ==
  /\ Deciding(k)
  /\ LET e == at[k] IN
     /\ ~Fires(e, started[k]) \/ Id[e] \notin Led \/ Locked(k, e)
     /\ errors' = IF e \in Invalid THEN [errors EXCEPT ![k] = @ \cup {e}] ELSE errors
  /\ at' = [at EXCEPT ![k] = @ + 1]
  /\ UNCHANGED <<stage, started, store, ran>>

\* The lock is taken and the task begins.
Execute(k) ==
  /\ Deciding(k)
  /\ LET e == at[k] IN
     /\ Fires(e, started[k]) /\ Id[e] \in Led /\ ~Locked(k, e)
     /\ store' = IF e \in Exclusive THEN [store EXCEPT ![k] = @ \cup {Id[e]}] ELSE store
     /\ ran' = ran \cup {<<k, e>>}
  /\ stage' = [stage EXCEPT ![k] = "executing"]
  /\ UNCHANGED <<started, at, errors>>

\* Mutant of LocksLeft: a task that failed keeps its lock.
LocksLeftIfWell(held, id, failed) == IF failed THEN held ELSE held \ {id}
\* The lock is released whatever the outcome.
LocksLeft(held, id, failed) == held \ {id}

\* The task ends, well or not, and the pass goes on.
Complete(k) ==
  /\ stage[k] = "executing"
  /\ \E failed \in BOOLEAN :
       /\ store' = IF at[k] \in Exclusive
                   THEN [store EXCEPT ![k] = LocksLeft(@, Id[at[k]], failed)] ELSE store
       /\ errors' = IF failed THEN [errors EXCEPT ![k] = @ \cup {at[k]}] ELSE errors
  /\ at' = [at EXCEPT ![k] = @ + 1]
  /\ stage' = [stage EXCEPT ![k] = "deciding"]
  /\ UNCHANGED <<started, ran>>

\* The task panics, which nobody catches here, or the process is killed: the
\* pass ends with it.
Die(k) ==
  /\ stage[k] \in {"deciding", "executing"}
  /\ stage' = [stage EXCEPT ![k] = "died"]
  /\ UNCHANGED <<started, at, store, errors, ran>>

\* The end of the pass: the command fails if there were errors.
Exit(k) ==
  /\ stage[k] = "deciding" /\ at[k] \notin Event
  /\ stage' = [stage EXCEPT ![k] = IF errors[k] = {} THEN "ok" ELSE "failed"]
  /\ UNCHANGED <<started, at, store, errors, ran>>

RunNext ==
  \E k \in Pass :
    Start(k) \/ PassOver(k) \/ Execute(k) \/ Complete(k) \/ Die(k) \/ Exit(k)

RunSpec == RunInit /\ [][RunNext]_runVars

-----------------------------------------------------------------------------
\* The processes that ran event e with occurrence o in their window.
RanFor(e, o) == {k \in Pass : <<k, e>> \in ran /\ o \in Window(e, started[k])}

\* An occurrence is run by one process at most, however late in their minutes
\* the processes start and however slow they are.
OnePassPerOccurrence ==
  \A e \in Event : \A o \in Occurs[e] : \A j, k \in RanFor(e, o) : j = k

\* Once the processes of all minutes up to that of an occurrence have come to
\* their end, the occurrence was run: no failing event, no lock of an earlier
\* event of the same command and no error of the schedule gets in its way.
NoPassMisses ==
  \A e \in Event \ Invalid : \A o \in Occurs[e] : \A k \in Pass :
    o = k * Minute /\ stage[k] \in {"ok", "failed"} /\ Id[e] \in Led => RanFor(e, o) # {}

\* Types of the variables; a process lives within its minute.
RunTypeOK ==
  /\ stage \in [Pass -> {"none", "deciding", "executing", "died", "ok", "failed"}]
  /\ started \in [Pass -> Nat] /\ at \in [Pass -> Nat \ {0}]
  /\ store \in [Pass -> SUBSET {Id[e] : e \in Event}]
  /\ errors \in [Pass -> SUBSET Event]
  /\ ran \subseteq Pass \X Event

\* What makes the two properties inductive: a process that started did so in its
\* minute; it holds a lock only while a task of that id executes; and it has run
\* all of its due events that it is past, and nothing before it started.
InOrder(k) ==
  /\ stage[k] # "none" => k * Minute <= started[k] /\ started[k] < k * Minute + Minute
  /\ stage[k] = "none" => at[k] = 1 /\ \A e \in Event : <<k, e>> \notin ran
  /\ stage[k] = "executing" =>
       /\ at[k] \in Event /\ <<k, at[k]>> \in ran
       /\ store[k] = IF at[k] \in Exclusive THEN {Id[at[k]]} ELSE {}
  /\ stage[k] \in {"none", "deciding"} => store[k] = {}
  /\ stage[k] \in {"ok", "failed"} => at[k] \notin Event
  /\ stage[k] # "none" =>
       \A e \in Event : e < at[k] /\ Fires(e, started[k]) /\ Id[e] \in Led => <<k, e>> \in ran

PassInv == RunTypeOK /\ \A k \in Pass : InOrder(k)

\* An event registered without_overlapping is skipped while its previous run is
\* still in progress: app/console/schedule.rs says so of its example.
PassesDoNotOverlap ==
  \A j, k \in Pass :
    j # k /\ stage[j] = "executing" /\ stage[k] = "executing" /\ at[j] \in Exclusive
      => Id[at[j]] # Id[at[k]] \/ at[k] \notin Exclusive
=============================================================================
