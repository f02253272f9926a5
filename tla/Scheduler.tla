------------------------------ MODULE Scheduler ------------------------------
(***************************************************************************)
(* Scheduler::work (src/framework/schedule/scheduler.rs): the loop of      *)
(* schedule:work that sleeps until the next occurrence, reaps the tasks    *)
(* that ended, spawns the events that are due, and drains on shutdown;     *)
(* with the in-memory lock store behind without_overlapping (lock.rs).     *)
(*                                                                         *)
(* The tasks run on other worker threads: one may end, and time may pass,  *)
(* between any two steps of the loop.  Time is discrete.                   *)
(***************************************************************************)
EXTENDS DueEvents, FiniteSetsExt, Functions

CONSTANTS
  Panics,     \* events whose task may panic
  Ms,         \* time units in a millisecond
  Ttl,        \* LOCK_TTL
  MaxLate,    \* bound: how long after its deadline the sleep may end
  MaxGap,     \* bound: from the end of a sleep to the next planning
  MaxRun,     \* bound: how long a task may run
  MaxTime     \* bound: the clock stops here

ASSUME SchedulerAssumption ==
  /\ Panics \subseteq Event
  /\ Ms \in Nat \ {0} /\ Ttl \in Nat \ {0}
  /\ MaxLate \in Nat /\ MaxGap \in Nat /\ MaxRun \in Nat /\ MaxTime \in Nat

VARIABLES
  now,      \* the clock
  pc,       \* where the loop is
  since,    \* when it began to sleep or, awake, when its sleep ended
  wake,     \* the deadline of its sleep
  due,      \* events of this pass found due and still to be dispatched
  locks,    \* InMemoryLockStore: id -> time of acquisition
  runs,     \* the JoinSet: <<event, k>> -> [at, status] of its k-th run
  spawned,  \* event -> runs spawned so far
  stop,     \* the shutdown channel has something to say
  inflight, \* history: runs in progress when this turn's reaping ended, and
            \* those spawned since
  readings  \* history: the clock readings dispatch_due was called with

loop == <<pc, since, wake, due>>
vars == <<now, loop, locks, runs, spawned, stop, inflight, readings>>
-----------------------------------------------------------------------------
(***************************************************************************)
(* Scheduler::millis_until_next; without an event it is a minute.          *)
(***************************************************************************)
Occurrences == UNION Range(Occurs)

\* Mutant of UntilNext: the latest of the events' next occurrences.
UntilLast(t) ==
  LET next == {o \in Occurrences : o > t}
  IN  IF next = {} THEN Minute ELSE ((Max(next) - t) \div Ms) * Ms

\* num_milliseconds drops what is below a millisecond.
UntilNext(t) ==
  LET next == {o \in Occurrences : o > t}
  IN  IF next = {} THEN Minute ELSE ((Min(next) - t) \div Ms) * Ms
-----------------------------------------------------------------------------
(***************************************************************************)
(* The lock store.                                                         *)
(***************************************************************************)
\* Mutant of Free: locks last a minute.
FreeNextMinute(id) == id \in DOMAIN locks => now - locks[id] >= Minute

\* try_lock succeeds, by its own reading of the clock: nobody has the lock, or
\* its holder's time is over.
Free(id) == id \in DOMAIN locks => now - locks[id] >= Ttl

Release(ids) == Restrict(locks, DOMAIN locks \ ids)
Acquire(id)  == [i \in DOMAIN locks \cup {id} |-> IF i = id THEN now ELSE locks[i]]
-----------------------------------------------------------------------------
Running(r) == runs[r].status = "running"
EndedWell  == {r \in DOMAIN runs : runs[r].status = "ok"}   \* mutant of Ended
Ended      == {r \in DOMAIN runs : ~Running(r)}
IdOf(r)    == Id[r[1]]
Locking(r) == r[1] \in Exclusive

\* Mutant of Freed: a failed task keeps its lock.
FreedIfWell(r) == IF Locking(r) /\ runs[r].status = "ok" THEN {IdOf(r)} ELSE {}

\* handle_join: the outcome of a task carries its id back, a JoinError does
\* not.
Freed(r) == IF Locking(r) /\ runs[r].status # "panicked" THEN {IdOf(r)} ELSE {}

\* The top of the loop: the first clock reading.
Plan ==
  /\ pc = "plan"
  /\ pc' = "sleep" /\ since' = now
  /\ wake' = now + UntilNext(now)
  /\ inflight' = {}
  /\ UNCHANGED <<now, due, locks, runs, spawned, stop, readings>>

\* The sleep ends.
Wake ==
  /\ pc = "sleep" /\ now >= wake
  /\ now > since   \* bound: no two clock readings are equal
  /\ pc' = "reap" /\ since' = now
  /\ UNCHANGED <<now, wake, due, locks, runs, spawned, stop, inflight, readings>>

\* shutdown.changed(): Ctrl-C was sent, or the sender is gone.
Shutdown ==
  /\ pc = "sleep" /\ stop
  /\ pc' = "drain"
  /\ UNCHANGED <<now, since, wake, due, locks, runs, spawned, stop, inflight, readings>>

\* One turn of reap's or of the drain's loop: a task that ended is joined.
Join(r) ==
  /\ pc \in {"reap", "drain"} /\ r \in Ended
  /\ locks' = Release(Freed(r))
  /\ runs' = Restrict(runs, DOMAIN runs \ {r})
  /\ UNCHANGED <<now, loop, spawned, stop, inflight, readings>>

\* Mutant of Reaped: one ended task is joined in a turn.
ReapedOne ==
  /\ pc = "reap"
  /\ pc' = "look"
  /\ inflight' = {r \in DOMAIN runs : Running(r)}
  /\ UNCHANGED <<now, since, wake, due, locks, runs, spawned, stop, readings>>

\* try_join_next has no more.
Reaped ==
  /\ pc = "reap" /\ Ended = {}
  /\ pc' = "look"
  /\ inflight' = {r \in DOMAIN runs : Running(r)}
  /\ UNCHANGED <<now, since, wake, due, locks, runs, spawned, stop, readings>>

\* The second clock reading, which decides what is due in this pass.
Look ==
  /\ pc = "look"
  /\ due' = {e \in Event : IsDue(e, now) /\ Id[e] \in Led}
  /\ pc' = IF due' = {} THEN "plan" ELSE "dispatch"
  /\ readings' = readings \cup {now}
  /\ UNCHANGED <<now, since, wake, locks, runs, spawned, stop, inflight>>

\* The pass is at event e, the first of those that are left, and goes on.
PassOn(e) ==
  /\ pc = "dispatch" /\ e \in due /\ \A f \in due : e <= f
  /\ due' = due \ {e}
  /\ pc' = IF due' = {} THEN "plan" ELSE "dispatch"
  /\ UNCHANGED <<now, since, wake, stop, readings>>

\* Its previous run still has the lock: try_lock says no.
Skip(e) ==
  /\ PassOn(e)
  /\ e \in Exclusive /\ ~Free(Id[e])
  /\ UNCHANGED <<locks, runs, spawned, inflight>>

\* It gets the lock if it needs one, and is spawned.
Dispatch(e) ==
  LET r == <<e, spawned[e] + 1>> IN
  /\ PassOn(e)
  /\ e \in Exclusive => Free(Id[e])
  /\ locks' = IF e \in Exclusive THEN Acquire(Id[e]) ELSE locks
  /\ runs' = [s \in DOMAIN runs \cup {r} |->
                IF s = r THEN [at |-> now, status |-> "running"] ELSE runs[s]]
  /\ spawned' = [spawned EXCEPT ![e] = @ + 1]
  /\ inflight' = inflight \cup {r}

\* join_next has no more.
Stop ==
  /\ pc = "drain" /\ DOMAIN runs = {}
  /\ pc' = "stopped"
  /\ UNCHANGED <<now, since, wake, due, locks, runs, spawned, stop, inflight, readings>>

\* A task ends by itself, well or badly, whatever the loop is doing.
Finish(r, status) ==
  /\ Running(r)
  /\ status = "panicked" => r[1] \in Panics
  /\ runs' = [runs EXCEPT ![r].status = status]
  /\ UNCHANGED <<now, loop, locks, spawned, stop, inflight, readings>>

Signal ==
  /\ ~stop /\ stop' = TRUE
  /\ UNCHANGED <<now, loop, locks, runs, spawned, inflight, readings>>

Awake == pc \in {"reap", "look", "dispatch", "plan"}

\* Time passes, unless somebody is at the end of what the bounds give them.
Tick ==
  /\ now < MaxTime
  /\ pc = "sleep" => now < wake + MaxLate
  /\ Awake => now < since + MaxGap
  /\ \A r \in DOMAIN runs : Running(r) => now < runs[r].at + MaxRun
  /\ now' = now + 1
  /\ UNCHANGED <<loop, locks, runs, spawned, stop, inflight, readings>>

Init ==
  /\ now = 0 /\ pc = "plan" /\ since = 0 /\ wake = 0 /\ due = {}
  /\ locks = <<>> /\ runs = <<>> /\ spawned = [e \in Event |-> 0]
  /\ stop = FALSE
  /\ inflight = {} /\ readings = {}

\* A step of the loop that waits for nothing but the loop itself.
LoopStep ==
  \/ Plan \/ Reaped \/ Look \/ Stop
  \/ \E r \in DOMAIN runs : Join(r)
  \/ \E e \in Event : Skip(e) \/ Dispatch(e)

Next ==
  \/ LoopStep \/ Wake \/ Shutdown \/ Signal \/ Tick
  \/ \E r \in DOMAIN runs, s \in {"ok", "failed", "panicked"} : Finish(r, s)

Spec == Init /\ [][Next]_vars

\* The runtime runs the loop; select! picks among its ready branches at random,
\* so neither is passed over for ever; tasks end; nothing forces a signal.
Fairness ==
  /\ WF_vars(LoopStep)
  /\ SF_vars(Shutdown)
  /\ WF_vars(\E r \in DOMAIN runs : Finish(r, "ok"))

FairSpec == Spec /\ Fairness
-----------------------------------------------------------------------------
TypeOK ==
  /\ now \in Nat /\ since \in Nat /\ wake \in Nat
  /\ pc \in {"plan", "sleep", "reap", "look", "dispatch", "drain", "stopped"}
  /\ due \subseteq Event
  /\ \A id \in DOMAIN locks : locks[id] \in Nat
  /\ DOMAIN runs \subseteq Event \X Nat
  /\ \A r \in DOMAIN runs :
       runs[r] \in [at : Nat, status : {"running", "ok", "failed", "panicked"}]
  /\ spawned \in [Event -> Nat]
  /\ stop \in BOOLEAN
  /\ inflight \subseteq Event \X Nat
  /\ readings \subseteq Nat

\* "Two runs of a without_overlapping task never overlap", whichever of its
\* events spawned them (scheduler.rs:15-17, LOCK_TTL).
NoOverlap ==
  \A r, s \in DOMAIN runs :
    Running(r) /\ Running(s) /\ Locking(r) /\ Locking(s) /\ IdOf(r) = IdOf(s) => r = s

\* "An event is skipped because of its lock only for a run of its task that was
\* in progress when the reaping before the pass ended, or was spawned by the
\* pass itself": whatever ends earlier is reaped first and does not keep a new
\* run from being spawned (the comment in work, scheduler.rs:159-161).
SkippedOnlyForARun ==
  [][\A e \in due \ due' : pc = "dispatch" /\ spawned'[e] = spawned[e] =>
       \E r \in inflight : Locking(r) /\ IdOf(r) = Id[e]]_vars

\* "A lock in the store belongs to a task that has not been reaped": the run
\* that acquired it (handle_join).
LocksAreOwned ==
  \A id \in DOMAIN locks :
    \E r \in DOMAIN runs : Locking(r) /\ IdOf(r) = id /\ runs[r].at = locks[id]

\* "In-flight tasks are drained before returning so that locks are released"
\* (scheduler.rs:172-173).
StoppedIsClean == pc = "stopped" => DOMAIN runs = {} /\ DOMAIN locks = {}

\* Some pass found occurrence o of event e due.
Covered(e, o) == \E t \in readings : o \in Window(e, t)

\* The pass that begins finds event e due for an occurrence an earlier one did.
Repeats(e) == pc = "look" /\ pc' # pc /\ \E o \in Window(e, now) : Covered(e, o)

\* Less than a millisecond is missing to an occurrence.
Early(t) == \E o \in Occurrences : t < o /\ o < t + Ms


\* "With events on whole minutes, an occurrence is found due again only by a
\* loop that woke less than a millisecond before the next one", which is what
\* num_milliseconds drops from the sleep (scheduler.rs:154, 163, 195).
RepeatedOnlyWhenEarly == [][(\E e \in Event : Repeats(e)) => Early(now)]_vars

\* "With events on whole minutes, no occurrence falls between two passes while
\* the loop runs": once the delays it may have are over it was found due, unless
\* a pass looked at the clock less than a millisecond before it.
NoOccurrenceLost ==
  pc \notin {"drain", "stopped"} =>
    \A e \in Event : \A o \in Occurs[e] :
      0 < o /\ o + MaxLate + MaxGap < now =>
        Covered(e, o) \/ \E t \in readings : t < o /\ o < t + Ms

\* "No occurrence falls between two passes", early or not (scheduler.rs:141-142).
EveryOccurrenceFound ==
  pc \notin {"drain", "stopped"} =>
    \A e \in Event : \A o \in Occurs[e] :
      0 < o /\ o + MaxLate + MaxGap < now => Covered(e, o)

\* "Shutdown stops the loop", after the tasks in flight.
ShutdownStops == stop ~> pc = "stopped"
-----------------------------------------------------------------------------
(***************************************************************************)
(* What the theorems about the loop assume, and the inductive invariants.  *)
(***************************************************************************)
\* A run and the turn of the loop it ends in are over before its lock expires;
\* no exclusive task panics.
ShortRuns == MaxRun + MaxGap < Ttl
NoExclusivePanic == Exclusive \cap Panics = {}

\* The delays of the loop do not add up to a minute.
SmallDelays == MaxLate + MaxGap < Minute

\* Runs are numbered by the counter of their event.
Numbered == TypeOK /\ \A r \in DOMAIN runs : r[2] \in 1..spawned[r[1]]

\* Every lock has its owner, who gives it back when reaped; nothing is reaped
\* between the end of the reaping and the end of the pass.
OwnInv ==
  /\ Numbered /\ LocksAreOwned
  /\ \A r \in DOMAIN runs : Locking(r) => runs[r].status # "panicked"
  /\ pc \in {"look", "dispatch"} => inflight = DOMAIN runs

\* A run is not older than MaxRun, and not joined late; an exclusive one has the
\* lock it took, alone.
LockInv ==
  /\ Numbered /\ since <= now
  /\ Awake => now <= since + MaxGap
  /\ \A r \in DOMAIN runs : Running(r) => now <= runs[r].at + MaxRun
  /\ pc \in {"look", "dispatch"} => \A r \in DOMAIN runs : since <= runs[r].at + MaxRun
  /\ \A r \in DOMAIN runs : Locking(r) =>
       IdOf(r) \in DOMAIN locks /\ locks[IdOf(r)] = runs[r].at
  /\ \A r, s \in DOMAIN runs : Locking(r) /\ Locking(s) /\ IdOf(r) = IdOf(s) => r = s

\* The sleep, or the turn of the loop that it ended in, is for occurrence n, less
\* than a millisecond before it.
SleepsFor(n) == n \in Occurrences /\ wake <= n /\ n < wake + Ms

\* Every pass was before the occurrence the loop sleeps for; when there is none,
\* a minute before the deadline.
TurnInv ==
  /\ TypeOK /\ \A t \in readings : t <= now
  /\ pc \in {"reap", "look"} => wake <= now
  /\ pc \in {"sleep", "reap", "look"} =>
       \/ \E n \in Occurrences : SleepsFor(n) /\ \A t \in readings : t < n
       \/ \A t \in readings : t + Minute <= wake

\* Occurrence o of event e was found due, or a pass just missed it.
Known(e, o) == Covered(e, o) \/ \E t \in readings : t < o /\ o < t + Ms

KnownBelow(n) == \A e \in Event : \A o \in Occurs[e] : 0 < o /\ o < n => Known(e, o)
AllKnown      == \A e \in Event : \A o \in Occurs[e] : 0 < o => Known(e, o)

\* All occurrences before the one the loop sleeps for are known; after the pass,
\* all those until well after the next planning.
CoverInv ==
  /\ TypeOK /\ since <= now
  /\ Awake => now <= since + MaxGap
  /\ pc = "sleep" => now <= wake + MaxLate
  /\ pc \in {"reap", "look"} => wake <= since /\ since <= wake + MaxLate
  /\ pc \in {"sleep", "reap", "look"} =>
       \/ \E n \in Occurrences : SleepsFor(n) /\ KnownBelow(n)
       \/ AllKnown
  /\ pc \in {"dispatch", "plan"} =>
       \/ \E n \in 0 .. since + Ms + Minute : since + MaxGap < n /\ KnownBelow(n)
       \/ AllKnown
=============================================================================
