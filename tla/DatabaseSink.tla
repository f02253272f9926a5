---------------------------- MODULE DatabaseSink ----------------------------
(***************************************************************************)
(* The database log sink: threads hand entries to a bounded channel without*)
(* ever waiting, one worker writes them to a table in batches, and the     *)
(* LoggingGuard ends the worker (src/framework/logging/sink/database.rs,   *)
(* guard.rs).                                                              *)
(*                                                                         *)
(* An entry is <<thread, k>>, the k-th event of its thread that passes the *)
(* level.  Durations (flush interval, backoff, grace period) are left out: *)
(* what they bound may happen at any time.                                 *)
(***************************************************************************)
EXTENDS Naturals, Sequences, FiniteSets, SequencesExt

CONSTANTS
  Thread,
  Capacity,    \* channel_capacity: mpsc::channel refuses 0
  BatchSize,   \* batch_size
  Flavor,      \* runtimes the process may be on
  MaxEvents,   \* bound: events of one thread
  Noise        \* an entry made of the worker's own activity

EntryId == Thread \X (1..MaxEvents)

ASSUME SinkAssumption ==
  /\ IsFiniteSet(Thread)
  /\ Capacity \in Nat \ {0} /\ BatchSize \in Nat /\ MaxEvents \in Nat
  /\ Flavor \subseteq {"multi_thread", "current_thread"}
  /\ Noise \notin EntryId

VARIABLES
  emitted,   \* thread -> events so far
  inside,    \* threads in on_event whose entry did not fit, before fetch_add
  sender,    \* "open", or "closed": the subscriber is dropped
  channel,   \* entries sent and not received
  dropped,   \* dropped_count
  pc,        \* where the worker is
  last,      \* the worker has seen the channel closed
  batch,     \* the worker's Vec
  next,      \* position of the next INSERT in it
  database,  \* "absent", or what any_pool_for makes of the sink's connection
  guard,     \* the LoggingGuard: "held", "waiting", "gone"
  rows,      \* the table
  failed,    \* history: entries whose INSERT failed
  lost,      \* history: entries of batches reported as lost
  reported,  \* history: sum of the drop counts reported
  discarded  \* history: entries in the channel or in the batch at the abort

threads == <<emitted, inside, sender>>
worker  == <<pc, last, batch, next>>
outcome == <<rows, failed, lost, discarded>>
vars == <<threads, channel, dropped, worker, database, guard, outcome, reported>>

EXCLUDED_TARGETS == {"sqlx", "kolas::framework::logging", "kolas::framework::database"}
Target           == {"app"} \cup EXCLUDED_TARGETS

NoTargets == {}   \* mutant of Excluded
Excluded  == EXCLUDED_TARGETS

Room   == Len(channel) < Capacity
Alive  == pc \notin {"exited", "aborted"}   \* the receiver exists
-----------------------------------------------------------------------------
(***************************************************************************)
(* on_event, on any thread.                                                *)
(***************************************************************************)
\* try_send takes the entry, or leaves it with the thread.
Emit(t, target) ==
  /\ sender = "open" /\ t \notin inside /\ emitted[t] < MaxEvents
  /\ target \notin Excluded
  /\ emitted' = [emitted EXCEPT ![t] = @ + 1]
  /\ IF Room /\ Alive
       THEN /\ channel' = Append(channel, <<t, emitted[t] + 1>>)
            /\ inside' = inside
       ELSE /\ channel' = channel
            /\ inside' = inside \cup {t}
  /\ UNCHANGED <<sender, dropped, worker, database, guard, outcome, reported>>

CountDrop(t) ==
  /\ t \in inside
  /\ inside' = inside \ {t}
  /\ dropped' = dropped + 1
  /\ UNCHANGED <<emitted, sender, channel, worker, database, guard, outcome, reported>>

\* The subscriber goes away; no thread is in it any more.
DropSubscriber ==
  /\ sender = "open" /\ inside = {}
  /\ sender' = "closed"
  /\ UNCHANGED <<emitted, inside, channel, dropped, worker, database, guard, outcome, reported>>
-----------------------------------------------------------------------------
(***************************************************************************)
(* The worker.                                                             *)
(***************************************************************************)
\* dropped_count.swap(0) and the line it prints.
ReportDropsAgain == reported' = reported + dropped /\ dropped' = dropped   \* mutant of ReportDrops
ReportDrops      == reported' = reported + dropped /\ dropped' = 0

Full(b) == Len(b) >= BatchSize

Pushed(b, e)  == <<e>> \o b              \* mutant of Batched
Batched(b, e) == Append(b, e)

Receive ==
  /\ pc = "fill" /\ channel # <<>>
  /\ batch' = Batched(batch, Head(channel))
  /\ channel' = Tail(channel)
  /\ pc' = IF Full(batch') THEN "flush" ELSE "fill"
  /\ UNCHANGED <<threads, dropped, last, next, database, guard, outcome, reported>>

\* The flush interval is over.  timeout_at polls the channel first.
\* Mutant of Idle: drops are reported with the next batch only.
IdleSilently == UNCHANGED <<dropped, reported>>
Idle         == ReportDrops

FlushTimeout ==
  /\ pc = "fill" /\ channel = <<>> /\ sender = "open"
  /\ IF batch = <<>> THEN pc' = "fill" /\ Idle
                     ELSE pc' = "flush" /\ UNCHANGED <<dropped, reported>>
  /\ UNCHANGED <<threads, channel, last, batch, next, database, guard, outcome>>

\* recv answers None: flush what remains, and return.
ExitAtOnce == "exited"                   \* mutant of Remains
Remains    == IF batch = <<>> THEN "exited" ELSE "flush"

ChannelClosed ==
  /\ pc = "fill" /\ channel = <<>> /\ sender = "closed"
  /\ pc' = Remains /\ last' = TRUE
  /\ UNCHANGED <<threads, channel, dropped, batch, next, database, guard, outcome, reported>>

\* The end of a flush.
BackToLoop ==
  /\ pc' = IF last THEN "exited" ELSE "fill"
  /\ batch' = <<>> /\ next' = 1

AppEntries(s) == Range(s) \ {Noise}

\* flush_batch up to the pool: without a manager, or with a connection it
\* cannot open, the batch is lost.
StartFlush ==
  /\ pc = "flush"
  /\ ReportDrops
  /\ CASE database = "absent"   -> lost' = lost \cup AppEntries(batch) /\ BackToLoop
       [] database = "unusable" -> /\ lost' = lost \cup AppEntries(batch)
                                   /\ pc' = "backoff" /\ UNCHANGED <<batch, next>>
       [] database = "usable"   -> /\ pc' = "insert"
                                   /\ UNCHANGED <<lost, batch, next>>
  /\ UNCHANGED <<threads, channel, last, database, guard, rows, failed, discarded>>

BackoffOver ==
  /\ pc = "backoff"
  /\ BackToLoop
  /\ UNCHANGED <<threads, channel, dropped, last, database, guard, outcome, reported>>

\* One INSERT.  sqlx emits events of its own while it runs; dropping one of
\* those would not be counted here.
Insert(ok) ==
  /\ pc = "insert"
  /\ rows' = IF ok THEN Append(rows, batch[next]) ELSE rows
  /\ failed' = IF ok THEN failed ELSE failed \cup AppEntries(<<batch[next]>>)
  /\ channel' = IF "sqlx" \notin Excluded /\ Room THEN Append(channel, Noise) ELSE channel
  /\ IF next = Len(batch) THEN BackToLoop
                          ELSE next' = next + 1 /\ UNCHANGED <<pc, batch>>
  /\ UNCHANGED <<threads, dropped, last, database, guard, lost, discarded, reported>>
-----------------------------------------------------------------------------
(***************************************************************************)
(* The rest of the process.                                                *)
(***************************************************************************)
\* Database::install_global.
InstallDatabase(d) ==
  /\ database = "absent"
  /\ database' = d
  /\ UNCHANGED <<threads, channel, dropped, worker, guard, outcome, reported>>

\* What the worker has not dealt with yet.
Unflushed == IF pc \in {"exited", "aborted", "backoff"} THEN <<>>
             ELSE SubSeq(batch, next, Len(batch))

AbortWorker ==
  IF Alive
    THEN /\ pc' = "aborted"
         /\ discarded' = AppEntries(channel \o Unflushed)
         /\ channel' = <<>> /\ batch' = <<>> /\ next' = 1
    ELSE UNCHANGED <<pc, discarded, channel, batch, next>>

\* Drop for LoggingGuard: a multi-thread runtime waits for the worker,
\* anything else aborts it at once.
DropGuard(flavor) ==
  /\ guard = "held"
  /\ IF flavor = "multi_thread"
       THEN guard' = "waiting" /\ UNCHANGED <<pc, discarded, channel, batch, next>>
       ELSE guard' = "gone" /\ AbortWorker
  /\ UNCHANGED <<threads, dropped, last, database, rows, failed, lost, reported>>

\* The worker has ended, or its 500 ms are over.
GuardReturns ==
  /\ guard = "waiting"
  /\ guard' = "gone" /\ AbortWorker
  /\ UNCHANGED <<threads, dropped, last, database, rows, failed, lost, reported>>
-----------------------------------------------------------------------------
Init ==
  /\ emitted = [t \in Thread |-> 0] /\ inside = {} /\ sender = "open"
  /\ channel = <<>> /\ dropped = 0
  /\ pc = "fill" /\ last = FALSE /\ batch = <<>> /\ next = 1
  /\ database = "absent" /\ guard = "held"
  /\ rows = <<>> /\ failed = {} /\ lost = {} /\ reported = 0 /\ discarded = {}

Work ==
  \/ Receive \/ FlushTimeout \/ ChannelClosed \/ StartFlush \/ BackoffOver
  \/ \E ok \in BOOLEAN : Insert(ok)

Next ==
  \/ \E t \in Thread : CountDrop(t) \/ \E target \in Target : Emit(t, target)
  \/ DropSubscriber \/ Work
  \/ \E d \in {"usable", "unusable"} : InstallDatabase(d)
  \/ \E flavor \in Flavor : DropGuard(flavor)
  \/ GuardReturns

Spec == Init /\ [][Next]_vars

\* The runtime polls the worker, its timers fire and its queries end; a
\* thread leaves on_event.  Nobody has to log, to install or to stop.
FairSpec == Spec /\ WF_vars(Work) /\ \A t \in Thread : WF_vars(CountDrop(t))
-----------------------------------------------------------------------------
TypeOK ==
  /\ emitted \in [Thread -> 0..MaxEvents] /\ inside \subseteq Thread
  /\ sender \in {"open", "closed"}
  /\ channel \in Seq(EntryId \cup {Noise}) /\ Len(channel) <= Capacity
  /\ dropped \in Nat /\ reported \in Nat
  /\ pc \in {"fill", "flush", "backoff", "insert", "exited", "aborted"}
  /\ last \in BOOLEAN
  /\ batch \in Seq(EntryId \cup {Noise}) /\ next \in 1..Len(batch) + 1
  /\ Len(batch) <= (IF BatchSize = 0 THEN 1 ELSE BatchSize)
  /\ database \in {"absent", "unusable", "usable"}
  /\ guard \in {"held", "waiting", "gone"}
  /\ rows \in Seq(EntryId \cup {Noise})
  /\ failed \cup lost \cup discarded \subseteq EntryId

\* "Every event is accounted for exactly once": it waits in the channel or in
\* the batch, is a row, failed, was reported lost, was discarded with the
\* worker, or is in the drop count, reported or still to be reported
\* (dropped_count's swap, flush_batch's reports, batch.clear).
Issued == {e \in EntryId : e[2] <= emitted[e[1]]}
Places == <<AppEntries(channel), AppEntries(Unflushed), AppEntries(rows), failed, lost, discarded>>
Conservation ==
  /\ Cardinality(Issued) =
       Cardinality(UNION Range(Places)) + Cardinality(inside) + dropped + reported
  /\ \A i, j \in DOMAIN Places : i # j => Places[i] \cap Places[j] = {}

\* "The table has each thread's events once and in the order in which the
\* thread emitted them", whatever the batches were.
StoredInOrder ==
  \A i, j \in DOMAIN rows :
    i < j /\ Noise \notin {rows[i], rows[j]} /\ rows[i][1] = rows[j][1]
      => rows[i][2] < rows[j][2]

\* "A worker that saw its channel closed has flushed everything it got"
\* (spawn_db_worker, the closed-channel arm).
ExitIsClean == pc = "exited" => channel = <<>> /\ Unflushed = <<>> /\ batch = <<>>

\* "Logging does not feed itself": when the threads fall silent the worker
\* comes to rest, whatever its own INSERTs emit (EXCLUDED_TARGETS).
ComesToRest ==
  []<>(channel = <<>> /\ batch = <<>>)

\* "Dropped events are reported", even when nothing is logged afterwards, as
\* long as there is a worker (spawn_db_worker, the empty batch).
DropsAreReported == dropped > 0 ~> dropped = 0 \/ ~Alive

\* "A LoggingGuard flushes all sinks on drop" (subscriber.rs:19-20).
GuardFlushes == discarded = {}
=============================================================================
