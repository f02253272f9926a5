------------------------------- MODULE Logging -------------------------------
(***************************************************************************)
(* The life of the logging tasks: Logging::init_with builds the sinks in   *)
(* order and each spawns its task at once, the queue sink's worker         *)
(* publishes what its channel holds, the retention task sweeps old files   *)
(* away, and the guard ends the tasks it owns.  An init may fail half way, *)
(* or come second, with the tasks of its sinks already running.  What the  *)
(* worker of a database sink does with its entries is in DatabaseSink;     *)
(* here it only waits for its channel to close, and ends.                  *)
(***************************************************************************)
EXTENDS Naturals, Sequences, SequencesExt, FiniteSetsExt

CONSTANTS
  Caller,       \* the callers of init_with: the application, or tests side by side
  Configs,      \* the sinks somebody configures: sequences of SinkConfig
  Prefix,       \* file name prefixes
  Covers,       \* Covers[p]: the prefixes that start with p, itself among them
  Capacity,     \* room in the channel of a worker
  DefaultKeep,  \* keep_files where it is omitted (7)
  MaxEvents,    \* bound: events logged
  MaxClock,     \* bound: writes to log files
  Omitted,      \* keep_files is not in the configuration
  None          \* "no value"

Workers  == {"database", "queue"}
Rotation == {"hourly", "daily", "never"}

\* A sink: whether its builder accepts it (the table name, the driver, the
\* directory) and, of a file sink, its prefix, its rotation and how many files
\* it keeps.
SinkConfig ==
  [kind: {"console"} \cup Workers, ok: BOOLEAN,
   prefix: {None}, rotation: {None}, keep: {None}]
  \cup [kind: {"file"}, ok: BOOLEAN,
        prefix: Prefix, rotation: Rotation, keep: Nat \cup {Omitted, None}]

\* Files are named by prefix and period: those of one prefix and rotation make
\* a series, one file for each period.
Series == Prefix \X Rotation
SeriesOf(sink) == <<sink.prefix, sink.rotation>>

ASSUME LoggingAssumption ==
  /\ None \notin Caller \cup Prefix \cup {Omitted}
  /\ \A cfg \in Configs : cfg \in Seq(SinkConfig)
  /\ Capacity \in Nat \ {0} /\ DefaultKeep \in Nat
  /\ \A p \in Prefix : p \in Covers[p] /\ Covers[p] \subseteq Prefix

VARIABLES
  callers,     \* callers[i]: how far its init is, and what is left of its guard
  subscriber,  \* whose layers the process logs to: the set-once global default
  tasks,       \* tasks[<<i, k>>]: the task of the k-th sink of caller i
  logged,      \* the number of events so far; an event is its number
  files,       \* the log files: [series, n, mtime], n counts a series' periods
  rolled,      \* rolled[q]: how many files of series q were ever made
  clock        \* the time of the last write to a log file, or of its creation

vars == <<callers, subscriber, tasks, logged, files, rolled, clock>>

Sinks(i) == callers[i].cfg
Id == {<<i, k>> : i \in Caller, k \in UNION {DOMAIN cfg : cfg \in Configs}}
Sink(t) == Sinks(t[1])[t[2]]

NoTask == [state |-> "none", aborted |-> FALSE, channel |-> <<>>,
           current |-> None, published |-> <<>>, sweep |-> {}]

Exists(t) == tasks[t].state # "none"
Alive(t) == tasks[t].state \in {"waiting", "busy"}
Of(i, kinds) == {t \in Id : t[1] = i /\ Exists(t) /\ Sink(t).kind \in kinds}

\* The senders of a sink live in its layer, which goes when its init fails.
Closed(t) == callers[t[1]].pc = "failed"

-----------------------------------------------------------------------------
Init ==
  /\ callers = [i \in Caller |-> [pc |-> "idle", cfg |-> <<>>, built |-> 0, handles |-> <<>>]]
  /\ subscriber = None
  /\ tasks = [t \in Id |-> NoTask]
  /\ logged = 0
  /\ files = {}
  /\ rolled = [q \in Series |-> 0]
  /\ clock = 0

\* init_with refuses a configuration without sinks.
BeginInit(i, cfg) ==
  /\ callers[i].pc = "idle"
  /\ callers' = [callers EXCEPT ![i].cfg = cfg,
                                ![i].pc = IF cfg = <<>> THEN "failed" ELSE "building"]
  /\ UNCHANGED <<subscriber, tasks, logged, files, rolled, clock>>

\* The period a series may be in: that of its newest file or, if it rotates, a
\* later one.
Period(q) ==
  IF rolled[q] = 0 THEN {1}
  ELSE {rolled[q]} \cup (IF q[2] = "never" THEN {} ELSE {rolled[q] + 1})

\* The appender opens the file of the n-th period, and makes it if it is not
\* there.
Open(q, n) ==
  /\ rolled' = [rolled EXCEPT ![q] = n]
  /\ IF \E f \in files : f.series = q /\ f.n = n
     THEN UNCHANGED <<files, clock>>
     ELSE /\ clock' = clock + 1
          /\ files' = files \cup {[series |-> q, n |-> n, mtime |-> clock']}

\* The next sink is built and its task spawned; a builder's error ends the init
\* and drops the layers, but not the tasks, of the sinks before.
BuildSink(i) ==
  /\ callers[i].pc = "building" /\ callers[i].built < Len(Sinks(i))
  /\ LET k == callers[i].built + 1
         s == Sinks(i)[k]
     IN /\ callers' = [callers EXCEPT ![i].built = IF s.ok THEN k ELSE @,
                                      ![i].pc = IF s.ok THEN @ ELSE "failed"]
        /\ tasks' = IF s.ok /\ s.kind # "console"
                    THEN [tasks EXCEPT ![<<i, k>>].state = "waiting"] ELSE tasks
        /\ IF s.ok /\ s.kind = "file"
           THEN \E n \in Period(SeriesOf(s)) : Open(SeriesOf(s), n)
           ELSE UNCHANGED <<files, rolled, clock>>
  /\ UNCHANGED <<subscriber, logged>>

\* try_init: the first caller wins, the others get AlreadyInitialized.
MayRegister == subscriber = None

Register(i) ==
  /\ callers[i].pc = "building" /\ callers[i].built = Len(Sinks(i))
  /\ subscriber' = IF MayRegister THEN i ELSE subscriber
  /\ callers' = [callers EXCEPT ![i].pc = IF MayRegister THEN "guard" ELSE "failed"]
  /\ UNCHANGED <<tasks, logged, files, rolled, clock>>

-----------------------------------------------------------------------------
\* Somebody logs an event that passes the levels of some queue sinks; each
\* takes it if its channel is open and has room, and loses it otherwise.
Log ==
  /\ subscriber # None /\ logged < MaxEvents
  /\ logged' = logged + 1
  /\ \E passed \in SUBSET Of(subscriber, {"queue"}) :
       tasks' = [t \in Id |->
         IF t \in passed /\ Alive(t) /\ Len(tasks[t].channel) < Capacity
         THEN [tasks[t] EXCEPT !.channel = Append(@, logged')] ELSE tasks[t]]
  /\ UNCHANGED <<callers, subscriber, files, rolled, clock>>

Worker(t) == Exists(t) /\ Sink(t).kind \in Workers

\* recv returns an entry.
Receive(t) ==
  /\ Worker(t) /\ tasks[t].state = "waiting" /\ tasks[t].channel # <<>>
  /\ tasks' = [tasks EXCEPT ![t].state = "busy", ![t].current = Head(tasks[t].channel),
                            ![t].channel = Tail(@)]
  /\ UNCHANGED <<callers, subscriber, logged, files, rolled, clock>>

\* Mutant of Taken: an entry that failed to be published comes back later.
TakenOrKept(task, published) ==
  [task EXCEPT !.state = "waiting", !.current = None,
               !.channel = IF published \/ Len(@) = Capacity THEN @ ELSE Append(@, task.current),
               !.published = IF published THEN Append(@, task.current) ELSE @]
\* The entry is gone, published or not.
Taken(task, published) ==
  [task EXCEPT !.state = "waiting", !.current = None,
               !.published = IF published THEN Append(@, task.current) ELSE @]

\* The entry is published, or its serialization or publication fails.
Publish(t) ==
  /\ Worker(t) /\ tasks[t].state = "busy"
  /\ \E published \in BOOLEAN : tasks' = [tasks EXCEPT ![t] = Taken(@, published)]
  /\ UNCHANGED <<callers, subscriber, logged, files, rolled, clock>>

\* recv returns None: the channel is closed and empty.
ReturnFromLoop(t) ==
  /\ Worker(t) /\ tasks[t].state = "waiting"
  /\ tasks[t].channel = <<>> /\ Closed(t)
  /\ tasks' = [tasks EXCEPT ![t].state = "ended"]
  /\ UNCHANGED <<callers, subscriber, logged, files, rolled, clock>>

\* An aborted task ends where it waits, and what it held with it.
Cancelled(t) ==
  /\ Alive(t) /\ tasks[t].aborted
  /\ tasks' = [tasks EXCEPT ![t].state = "ended", ![t].current = None, ![t].channel = <<>>]
  /\ UNCHANGED <<callers, subscriber, logged, files, rolled, clock>>

-----------------------------------------------------------------------------
\* A write in the n-th period of a series, to a new file if the period is new.
\* What is written to a file that was removed is lost.
WriteTo(q, n) ==
  /\ clock' = clock + 1
  /\ rolled' = [rolled EXCEPT ![q] = n]
  /\ files' = IF n = rolled[q]
              THEN {IF f.series = q /\ f.n = n THEN [f EXCEPT !.mtime = clock'] ELSE f :
                      f \in files}
              ELSE files \cup {[series |-> q, n |-> n, mtime |-> clock']}

\* A file sink writes until the guard that holds its writer is gone.
Write(t) ==
  /\ t \in Of(subscriber, {"file"}) /\ callers[t[1]].pc \in {"guard", "dropping"}
  /\ clock < MaxClock
  /\ \E n \in Period(SeriesOf(Sink(t))) : WriteTo(SeriesOf(Sink(t)), n)
  /\ UNCHANGED <<callers, subscriber, tasks, logged>>

\* keep_files, its default where it is omitted.
KeepOf(sink) == IF sink.keep = Omitted THEN DefaultKeep ELSE sink.keep

\* Mutant of Newer: oldest first.
Older(f, g) == f.mtime < g.mtime
Newer(f, g) == f.mtime > g.mtime

\* The files whose names start with a prefix, whatever sink writes them, beyond
\* the `keep` most recently written.
Excess(prefix, keep) ==
  LET matching == {f \in files : f.series[1] \in Covers[prefix]}
  IN {f \in matching : Cardinality({g \in matching : Newer(g, f)}) >= keep}

Retention(t) == Exists(t) /\ Sink(t).kind = "file"

\* The sleep is over: a sweep lists the directory on a blocking thread.
BeginSweep(t) ==
  /\ Retention(t) /\ tasks[t].state = "waiting" /\ KeepOf(Sink(t)) # None
  /\ tasks' = [tasks EXCEPT ![t].state = "busy",
                            ![t].sweep = Excess(Sink(t).prefix, KeepOf(Sink(t)))]
  /\ UNCHANGED <<callers, subscriber, logged, files, rolled, clock>>

\* The newest of them is removed, unless it is gone or cannot be; an abort of the task
\* does not reach the blocking thread.
RemoveFile(t) ==
  /\ tasks[t].sweep # {}
  /\ \E f \in tasks[t].sweep :
       /\ ~\E g \in tasks[t].sweep : Newer(g, f)
       /\ \/ files' = {g \in files : g.series # f.series \/ g.n # f.n}
          \/ files' = files
       /\ tasks' = [tasks EXCEPT ![t].sweep = @ \ {f}]
  /\ UNCHANGED <<callers, subscriber, logged, rolled, clock>>

\* The sweep is over, and the task sleeps again.
EndSweep(t) ==
  /\ Retention(t) /\ tasks[t].state = "busy" /\ tasks[t].sweep = {}
  /\ tasks' = [tasks EXCEPT ![t].state = "waiting"]
  /\ UNCHANGED <<callers, subscriber, logged, files, rolled, clock>>

-----------------------------------------------------------------------------
Aborted(ids) == [t \in Id |-> IF t \in ids THEN [tasks[t] EXCEPT !.aborted = TRUE] ELSE tasks[t]]

\* The workers of a guard: those of the database sinks, then the queues'.
Handles(i) == SetToSeq(Of(i, {"database"})) \o SetToSeq(Of(i, {"queue"}))

\* The guard goes: the retention tasks are aborted, and with no multi-thread
\* runtime to wait on the workers too.
DropGuard(i, multiThread) ==
  /\ callers[i].pc = "guard"
  /\ LET wait == multiThread /\ Handles(i) # <<>>
     IN /\ callers' = [callers EXCEPT ![i].pc = IF wait THEN "dropping" ELSE "dropped",
                                      ![i].handles = IF wait THEN Handles(i) ELSE <<>>]
        /\ tasks' = Aborted(Of(i, IF wait THEN {"file"} ELSE {"file"} \cup Workers))
  /\ UNCHANGED <<subscriber, logged, files, rolled, clock>>

\* Mutant of Overdue: a worker that does not finish in time is let go.
OverdueButSpared(t) == {}
\* The workers to abort when the grace period of t is over.
Overdue(t) == {t}

\* The guard waits for the next worker, 500 ms at most, then aborts it.
Await(i) ==
  /\ callers[i].pc = "dropping"
  /\ LET t == Head(callers[i].handles)
         rest == Tail(callers[i].handles)
     IN /\ tasks' = IF Alive(t) THEN Aborted(Overdue(t)) ELSE tasks
        /\ callers' = [callers EXCEPT ![i].handles = rest,
                                      ![i].pc = IF rest = <<>> THEN "dropped" ELSE @]
  /\ UNCHANGED <<subscriber, logged, files, rolled, clock>>

Work(t) == Receive(t) \/ Publish(t) \/ ReturnFromLoop(t) \/ Cancelled(t)

Next ==
  \/ \E i \in Caller :
       \/ \E cfg \in Configs : BeginInit(i, cfg)
       \/ BuildSink(i) \/ Register(i) \/ Await(i)
       \/ \E multiThread \in BOOLEAN : DropGuard(i, multiThread)
  \/ Log
  \/ \E t \in Id : Work(t) \/ Write(t) \/ BeginSweep(t) \/ RemoveFile(t) \/ EndSweep(t)

Spec == Init /\ [][Next]_vars

\* The runtime runs every task that can go on, and a guard's timeouts expire.
FairSpec ==
  /\ Spec
  /\ \A t \in Id : WF_vars(Work(t))
  /\ \A i \in Caller : WF_vars(Await(i))

-----------------------------------------------------------------------------
\* Every published entry comes from the one subscriber's channel, in the order
\* of the events and once, whoever else called init and whatever failed.
PublishedInOrder ==
  \A t \in Id :
    LET p == tasks[t].published IN
    /\ p # <<>> => t[1] = subscriber
    /\ \A a, b \in DOMAIN p : a < b => p[a] < p[b]

\* The tasks that sweep the files of a series.
Sweepers(q) ==
  {t \in Id : Retention(t) /\ SeriesOf(Sink(t)) = q /\ KeepOf(Sink(t)) # None}

\* No sink built so far has files that a sweep for series q would match, or
\* sweeps that match files of q, unless its files are those of q.
Lone(q) ==
  \A t \in Id :
    Retention(t) /\ (q[1] \in Covers[Sink(t).prefix] \/ Sink(t).prefix \in Covers[q[1]]) =>
      SeriesOf(Sink(t)) = q

\* As long as the sinks whose prefixes cover each other have one prefix and one
\* rotation, sweeps that overlap with writes, rotations and each other leave the
\* newest files of a series, as many as every sink with that series keeps: the
\* file in use is never lost (run_retention, file.rs:131-172).
KeepsTheNewest ==
  \A q \in Series : Lone(q) =>
    \A n \in 1 .. rolled[q] :
      (\A t \in Sweepers(q) : n + KeepOf(Sink(t)) > rolled[q]) =>
        \E f \in files : f.series = q /\ f.n = n

\* "The active log file" is not swept away by a sink that keeps any file (the
\* comment N-5, file.rs:158-159), whatever other sinks there are.
FileInUseStays ==
  \A q \in Series :
    rolled[q] > 0 /\ (\A t \in Id : Retention(t) => KeepOf(Sink(t)) # 0) =>
      \E f \in files : f.series = q /\ f.n = rolled[q]

\* No worker outlives for long the init that failed after spawning it, nor the
\* guard it was handed to: from some point on all of them have ended.
NobodyIsLeft ==
  <>[](\A t \in Id :
         Worker(t) /\ callers[t[1]].pc \in {"failed", "dropping", "dropped"} =>
           tasks[t].state = "ended")

\* A sink whose keep_files is omitted keeps every file: config/logging.toml.
OmittedKeepsAll ==
  \A t \in Id :
    Retention(t) /\ Sink(t).keep = Omitted =>
      \A n \in 1 .. rolled[SeriesOf(Sink(t))] :
        \E f \in files : f.series = SeriesOf(Sink(t)) /\ f.n = n
=============================================================================
