------------------------- MODULE DatabaseSinkProofs -------------------------
(***************************************************************************)
(* What the database sink stores, and what its worker leaves behind, for   *)
(* any threads, capacities, batch sizes and failures.                      *)
(***************************************************************************)
EXTENDS DatabaseSink, FiniteSetTheorems, SequenceTheorems, TLAPS

Limit == IF BatchSize = 0 THEN 1 ELSE BatchSize

\* Nothing of the worker's own makes its way into the sink.
Pure == channel \in Seq(EntryId) /\ batch \in Seq(EntryId) /\ rows \in Seq(EntryId)

\* The worker's position goes with its batch and with the channel.
Placed ==
  /\ pc # "insert" => next = 1
  /\ pc = "insert" => next <= Len(batch)
  /\ pc = "flush" => batch # <<>>
  /\ pc = "fill" => Len(batch) < Limit
  /\ last => sender = "closed" /\ channel = <<>>
  /\ pc = "exited" => last /\ batch = <<>>

\* The entries on their way: rows, then what is left of the batch, then the
\* channel, each thread's in its order; later ones have higher numbers.
Earlier(e, f) == e[1] = f[1] => e[2] < f[2]
Sorted(s) == \A i, j \in 1..Len(s) : i < j => Earlier(s[i], s[j])
Emitted(s) == \A i \in 1..Len(s) : s[i][2] <= emitted[s[i][1]]

Ordered ==
  /\ Sorted(rows) /\ Sorted(batch) /\ Sorted(channel)
  /\ \A i \in 1..Len(rows) : \A j \in next..Len(batch) : Earlier(rows[i], batch[j])
  /\ \A i \in 1..Len(rows) : \A j \in 1..Len(channel) : Earlier(rows[i], channel[j])
  /\ \A i \in 1..Len(batch) : \A j \in 1..Len(channel) : Earlier(batch[i], channel[j])
  /\ Emitted(rows) /\ Emitted(batch) /\ Emitted(channel)

IInv == TypeOK /\ Pure /\ Placed /\ Ordered
-----------------------------------------------------------------------------
LEMMA EntryFacts ==
  /\ Noise \notin EntryId
  /\ \A e \in EntryId : e[1] \in Thread /\ e[2] \in 1..MaxEvents
  /\ \A t \in Thread : \A k \in 1..MaxEvents : <<t, k>> \in EntryId
  BY SinkAssumption DEF SinkAssumption, EntryId

\* What is counted as lost or discarded are entries.
LEMMA AppEntriesTyped ==
  ASSUME NEW s \in Seq(EntryId)
  PROVE  AppEntries(s) \subseteq EntryId
  BY DEF AppEntries, Range

LEMMA EmptyIsSorted ==
  /\ <<>> \in Seq(EntryId) /\ Len(<<>>) = 0
  /\ Sorted(<<>>) /\ Emitted(<<>>)
  BY DEF Sorted, Emitted

LEMMA AppendFacts ==
  ASSUME NEW s \in Seq(EntryId), NEW e \in EntryId
  PROVE  /\ Append(s, e) \in Seq(EntryId) /\ Append(s, e) # <<>>
         /\ Len(Append(s, e)) = Len(s) + 1
         /\ \A i \in 1..Len(s) : Append(s, e)[i] = s[i]
         /\ Append(s, e)[Len(s) + 1] = e
         /\ \A j \in 1..Len(Append(s, e)) :
              (j \in 1..Len(s) /\ Append(s, e)[j] = s[j]) \/ Append(s, e)[j] = e
<1>1. Append(s, e) \in Seq(EntryId) /\ Len(Append(s, e)) = Len(s) + 1 /\ Len(s) \in Nat
  OBVIOUS
<1>2. (\A i \in 1..Len(s) : Append(s, e)[i] = s[i]) /\ Append(s, e)[Len(s) + 1] = e
  OBVIOUS
<1>4. Append(s, e) # <<>>
  BY <1>1
<1>3. \A j \in 1..Len(s) + 1 : j \in 1..Len(s) \/ j = Len(s) + 1
  BY <1>1
<1> QED
  BY <1>1, <1>2, <1>3, <1>4

LEMMA AppendSorted ==
  ASSUME NEW s \in Seq(EntryId), NEW e \in EntryId, Sorted(s),
         \A i \in 1..Len(s) : Earlier(s[i], e)
  PROVE  Sorted(Append(s, e))
  BY AppendFacts DEF Sorted

LEMMA TailFacts ==
  ASSUME NEW s \in Seq(EntryId), s # <<>>
  PROVE  /\ Head(s) \in EntryId /\ Head(s) = s[1] /\ Len(s) >= 1
         /\ Tail(s) \in Seq(EntryId) /\ Len(Tail(s)) = Len(s) - 1
         /\ \A i \in 1..Len(Tail(s)) : i + 1 \in 1..Len(s) /\ Tail(s)[i] = s[i + 1]
  OBVIOUS

\* The batch is given up or done with: nothing of it is left to store.
LEMMA BatchGone ==
  ASSUME IInv, batch' = <<>>, next' = 1, rows' = rows, emitted' = emitted,
         channel' = channel \/ channel' = <<>>
  PROVE  Ordered'
<1>1. Sorted(rows)' /\ Emitted(rows)'
  BY DEF IInv, Ordered, Sorted, Emitted
<1>2. Sorted(batch)' /\ Emitted(batch)'
  BY DEF Sorted, Emitted
<1>3. Sorted(channel)' /\ Emitted(channel)'
  BY DEF IInv, Ordered, Sorted, Emitted
<1>4. \A i \in 1..Len(rows') : \A j \in 1..Len(channel') : Earlier(rows'[i], channel'[j])
  BY DEF IInv, Ordered
<1> QED
  BY <1>1, <1>2, <1>3, <1>4 DEF Ordered

LEMMA InitIInv == Init => IInv
<1> SUFFICES ASSUME Init PROVE IInv
  OBVIOUS
<1>1. channel = <<>> /\ batch = <<>> /\ rows = <<>> /\ next = 1
  BY DEF Init
<1>3. emitted \in [Thread -> 0..MaxEvents]
  BY SinkAssumption DEF Init, SinkAssumption
<1>4. 0 <= Capacity /\ 0 < Limit
  BY SinkAssumption DEF Limit, SinkAssumption
<1>5. \A S : <<>> \in Seq(S)
  OBVIOUS
<1>8. /\ Len(channel) <= Capacity /\ next \in 1..Len(batch) + 1
      /\ Len(batch) <= (IF BatchSize = 0 THEN 1 ELSE BatchSize)
  BY <1>1, <1>4, SinkAssumption DEF SinkAssumption
<1>9. {channel, batch, rows} \subseteq Seq(EntryId \cup {Noise})
  BY <1>1, <1>5
<1>10. failed \cup lost \cup discarded \subseteq EntryId
  BY DEF Init
<1>6. TypeOK
  BY <1>3, <1>8, <1>9, <1>10 DEF Init, TypeOK
<1>7. Pure /\ Placed
  BY <1>1, <1>4 DEF Init, Pure, Placed
<1>2. Ordered
  BY EmptyIsSorted DEF Init, Ordered
<1> QED
  BY <1>2, <1>6, <1>7 DEF IInv
-----------------------------------------------------------------------------
(***************************************************************************)
(* The threads.                                                            *)
(***************************************************************************)
\* A new entry has a number above its thread's earlier ones.
LEMMA EmitKeeps ==
  ASSUME IInv, NEW t \in Thread, NEW target \in Target, Emit(t, target)
  PROVE  IInv'
<1> DEFINE e == <<t, emitted[t] + 1>>
<1>1. /\ emitted[t] \in Nat /\ emitted[t] < MaxEvents
      /\ emitted' = [emitted EXCEPT ![t] = @ + 1]
      /\ emitted \in [Thread -> 0..MaxEvents]
  BY SinkAssumption DEF Emit, IInv, TypeOK, SinkAssumption
<1>2. e \in EntryId
  BY <1>1, SinkAssumption DEF EntryId, SinkAssumption
<1>3. emitted' \in [Thread -> 0..MaxEvents]
  BY <1>1, SinkAssumption DEF SinkAssumption
<1> DEFINE Below(s) ==
      \A i \in 1..Len(s) : Earlier(s[i], e) /\ s[i][2] <= emitted'[s[i][1]]
<1>4. ASSUME NEW s \in Seq(EntryId), Emitted(s) PROVE Below(s)
  <2> SUFFICES ASSUME NEW i \in 1..Len(s)
               PROVE  Earlier(s[i], e) /\ s[i][2] <= emitted'[s[i][1]]
    OBVIOUS
  <2>1. s[i] \in EntryId /\ s[i][2] <= emitted[s[i][1]]
    BY <1>4 DEF Emitted
  <2>2. s[i][1] \in Thread /\ s[i][2] \in Nat
    BY <2>1, EntryFacts
  <2> QED
    BY <1>1, <2>1, <2>2 DEF Earlier
<1>7. Below(rows) /\ Below(batch) /\ Below(channel)
  BY <1>4 DEF IInv, Pure, Ordered
<1>5. CASE Room /\ Alive
  <2>1. /\ channel' = Append(channel, e) /\ inside' = inside
        /\ UNCHANGED <<sender, dropped, worker, database, guard, outcome, reported>>
    BY <1>5 DEF Emit
  <2>2. /\ channel' \in Seq(EntryId) /\ Len(channel') = Len(channel) + 1
        /\ Sorted(channel')
        /\ \A j \in 1..Len(channel') :
             (j \in 1..Len(channel) /\ channel'[j] = channel[j]) \/ channel'[j] = e
    BY <1>2, <1>7, <2>1, AppendFacts, AppendSorted DEF IInv, Pure, Ordered
  <2>3. TypeOK' /\ Pure' /\ Placed'
    <3>1. Len(channel') <= Capacity
      BY <1>5, <2>2, SinkAssumption DEF Room, IInv, Pure, SinkAssumption
    <3>2. sender = "open" /\ ~last
      BY DEF Emit, IInv, Placed
    <3> QED
      BY <1>3, <2>1, <2>2, <3>1, <3>2 DEF IInv, TypeOK, Pure, Placed, worker, outcome
  <2>4. rows' = rows /\ batch' = batch /\ next' = next
    BY <2>1 DEF worker, outcome
  <2>5. Emitted(rows)' /\ Emitted(batch)' /\ Emitted(channel)'
    <3>1. Emitted(rows)' /\ Emitted(batch)'
      BY <1>7, <2>4 DEF Emitted
    <3>2. e[2] <= emitted'[e[1]]
      BY <1>1
    <3> QED
      BY <1>7, <2>2, <3>1, <3>2 DEF Emitted
  <2>6. Sorted(rows)' /\ Sorted(batch)' /\ Sorted(channel)'
    BY <2>2, <2>4 DEF IInv, Ordered, Sorted
  <2>7. /\ \A i \in 1..Len(rows) : \A j \in 1..Len(channel') : Earlier(rows[i], channel'[j])
        /\ \A i \in 1..Len(batch) : \A j \in 1..Len(channel') : Earlier(batch[i], channel'[j])
    BY <1>7, <2>2 DEF IInv, Ordered
  <2>8. \A i \in 1..Len(rows) : \A j \in next..Len(batch) : Earlier(rows[i], batch[j])
    BY DEF IInv, Ordered
  <2>9. Ordered'
    BY <2>4, <2>5, <2>6, <2>7, <2>8 DEF Ordered
  <2> QED
    BY <2>3, <2>9 DEF IInv
<1>6. CASE ~(Room /\ Alive)
  <2>1. /\ channel' = channel /\ inside' = inside \cup {t}
        /\ UNCHANGED <<sender, dropped, worker, database, guard, outcome, reported>>
    BY <1>6 DEF Emit
  <2>2. TypeOK' /\ Pure' /\ Placed'
    BY <1>3, <2>1 DEF IInv, TypeOK, Pure, Placed, worker, outcome
  <2>3. rows' = rows /\ batch' = batch /\ next' = next
    BY <2>1 DEF worker, outcome
  <2>4. Emitted(rows)' /\ Emitted(batch)' /\ Emitted(channel)'
    BY <1>7, <2>1, <2>3 DEF Emitted
  <2>5. Ordered'
    BY <2>1, <2>3, <2>4 DEF IInv, Ordered, Sorted
  <2> QED
    BY <2>2, <2>5 DEF IInv
<1> QED
  BY <1>5, <1>6

\* The steps that move no entry.
LEMMA QuietKeeps ==
  ASSUME IInv, TypeOK', Placed', UNCHANGED <<emitted, channel, batch, next, rows>>
  PROVE  IInv'
<1>1. Pure'
  BY DEF IInv, Pure
<1>2. Ordered'
  BY DEF IInv, Ordered, Sorted, Emitted
<1> QED
  BY <1>1, <1>2 DEF IInv

LEMMA ThreadsKeep ==
  ASSUME IInv, (\E t \in Thread : CountDrop(t)) \/ DropSubscriber
               \/ \E d \in {"usable", "unusable"} : InstallDatabase(d)
  PROVE  IInv'
<1>1. CASE \E t \in Thread : CountDrop(t)
  <2>1. TypeOK' /\ Placed' /\ UNCHANGED <<emitted, channel, batch, next, rows>>
    BY <1>1 DEF CountDrop, IInv, TypeOK, Placed, worker, outcome
  <2> QED
    BY <2>1, QuietKeeps
<1>2. CASE DropSubscriber
  <2>1. TypeOK' /\ Placed' /\ UNCHANGED <<emitted, channel, batch, next, rows>>
    BY <1>2 DEF DropSubscriber, IInv, TypeOK, Placed, worker, outcome
  <2> QED
    BY <2>1, QuietKeeps
<1>3. CASE \E d \in {"usable", "unusable"} : InstallDatabase(d)
  <2>1. TypeOK' /\ Placed' /\ UNCHANGED <<emitted, channel, batch, next, rows>>
    BY <1>3 DEF InstallDatabase, IInv, TypeOK, Placed, worker, outcome, threads
  <2> QED
    BY <2>1, QuietKeeps
<1> QED
  BY <1>1, <1>2, <1>3
-----------------------------------------------------------------------------
(***************************************************************************)
(* The worker.                                                             *)
(***************************************************************************)
LEMMA ReceiveKeeps ==
  ASSUME IInv, Receive
  PROVE  IInv'
<1> DEFINE e == Head(channel)
<1>1. /\ pc = "fill" /\ channel # <<>> /\ next = 1 /\ ~last /\ Len(batch) < Limit
      /\ channel \in Seq(EntryId) /\ batch \in Seq(EntryId)
  BY DEF Receive, IInv, Pure, Placed
<1>2. /\ batch' = Append(batch, e) /\ channel' = Tail(channel)
      /\ pc' = IF Full(batch') THEN "flush" ELSE "fill"
      /\ UNCHANGED <<threads, dropped, last, next, database, guard, outcome, reported>>
  BY DEF Receive, Batched
<1>3. /\ e \in EntryId /\ e = channel[1] /\ Len(channel) \in Nat \ {0}
      /\ channel' \in Seq(EntryId) /\ Len(channel') = Len(channel) - 1
      /\ \A i \in 1..Len(channel') : i + 1 \in 1..Len(channel) /\ channel'[i] = channel[i + 1]
  BY <1>1, <1>2, TailFacts
<1>4. /\ batch' \in Seq(EntryId) /\ batch' # <<>> /\ Len(batch') = Len(batch) + 1
      /\ \A j \in 1..Len(batch') : (j \in 1..Len(batch) /\ batch'[j] = batch[j]) \/ batch'[j] = e
  BY <1>1, <1>2, <1>3, AppendFacts
<1>5. TypeOK' /\ Pure' /\ Placed'
  <2>1. Len(batch) \in Nat /\ Len(batch') <= Limit /\ (~Full(batch') => Len(batch') < Limit)
    BY <1>1, <1>4, SinkAssumption DEF Limit, Full, SinkAssumption
  <2>2. Len(channel') <= Capacity
    BY <1>3, SinkAssumption DEF IInv, TypeOK, SinkAssumption
  <2>3. Pure'
    BY <1>2, <1>3, <1>4 DEF IInv, Pure, outcome
  <2>4. TypeOK'
    BY <1>1, <1>2, <1>3, <1>4, <2>1, <2>2, <2>3 DEF IInv, TypeOK, Pure, threads, outcome, Limit
  <2>5. Placed'
    BY <1>1, <1>2, <1>4, <2>1 DEF Placed
  <2> QED
    BY <2>3, <2>4, <2>5
<1>6. rows' = rows /\ next' = next /\ emitted' = emitted
  BY <1>2 DEF threads, outcome
<1>7. Sorted(batch)'
  <2>1. \A i \in 1..Len(batch) : Earlier(batch[i], e)
    BY <1>3 DEF IInv, Ordered
  <2>2. Sorted(Append(batch, e))
    BY <1>1, <1>3, <2>1, AppendSorted DEF IInv, Ordered
  <2> QED
    BY <1>2, <2>2 DEF Sorted
<1>8. Sorted(channel)'
  BY <1>3 DEF IInv, Ordered, Sorted
<1>9. Emitted(rows)' /\ Emitted(batch)' /\ Emitted(channel)'
  <2>1. e[2] <= emitted[e[1]]
    BY <1>3 DEF IInv, Ordered, Emitted
  <2> QED
    BY <1>3, <1>4, <1>6, <2>1 DEF IInv, Ordered, Emitted
<1>10. \A i \in 1..Len(rows) : \A j \in 1..Len(batch') : Earlier(rows[i], batch'[j])
  BY <1>1, <1>3, <1>4 DEF IInv, Ordered
<1>11. \A i \in 1..Len(rows) : \A j \in 1..Len(channel') : Earlier(rows[i], channel'[j])
  BY <1>3 DEF IInv, Ordered
<1>12. \A i \in 1..Len(batch') : \A j \in 1..Len(channel') : Earlier(batch'[i], channel'[j])
  <2>1. \A j \in 1..Len(channel') : Earlier(e, channel'[j])
    BY <1>3 DEF IInv, Ordered, Sorted
  <2> QED
    BY <1>3, <1>4, <2>1 DEF IInv, Ordered
<1>13. Sorted(rows)'
  BY <1>6 DEF IInv, Ordered, Sorted
<1>14. Ordered'
  BY <1>1, <1>6, <1>7, <1>8, <1>9, <1>10, <1>11, <1>12, <1>13 DEF Ordered
<1> QED
  BY <1>5, <1>14 DEF IInv

\* The steps that change the place and the counters only.
LEMMA TurnsKeep ==
  ASSUME IInv, FlushTimeout \/ ChannelClosed
  PROVE  IInv'
<1>1. CASE FlushTimeout
  <2>1. pc = "fill" /\ ~last /\ pc' \in {"fill", "flush"}
        /\ (pc' = "flush" => batch # <<>>)
        /\ UNCHANGED <<threads, channel, last, batch, next, database, guard, outcome>>
    BY <1>1 DEF FlushTimeout, IInv, Placed
  <2>2. dropped' \in Nat /\ reported' \in Nat
    BY <1>1 DEF FlushTimeout, Idle, ReportDrops, IInv, TypeOK
  <2>3. TypeOK' /\ Placed' /\ UNCHANGED <<emitted, channel, batch, next, rows>>
    BY <2>1, <2>2 DEF IInv, TypeOK, Placed, threads, outcome
  <2> QED
    BY <2>3, QuietKeeps
<1>2. CASE ChannelClosed
  <2>1. TypeOK' /\ Placed' /\ UNCHANGED <<emitted, channel, batch, next, rows>>
    BY <1>2 DEF ChannelClosed, Remains, IInv, TypeOK, Placed, threads, outcome
  <2> QED
    BY <2>1, QuietKeeps
<1> QED
  BY <1>1, <1>2

\* A flush ends: the worker is where it stands with an empty batch.
LEMMA BackToLoopPlaced ==
  ASSUME IInv, pc # "fill", BackToLoop, UNCHANGED <<last, sender, channel>>
  PROVE  Placed' /\ pc' \in {"fill", "exited"} /\ next' \in 1..Len(batch') + 1
         /\ batch' \in Seq(EntryId) /\ Len(batch') = 0
<1>1. batch' = <<>> /\ next' = 1 /\ pc' = IF last THEN "exited" ELSE "fill"
  BY DEF BackToLoop
<1>2. batch' \in Seq(EntryId) /\ Len(batch') = 0
  BY <1>1, EmptyIsSorted
<1>3. 0 < Limit
  BY SinkAssumption DEF Limit, SinkAssumption
<1>4. Placed'
  BY <1>1, <1>2, <1>3 DEF IInv, Placed, TypeOK
<1> QED
  BY <1>1, <1>2, <1>4

LEMMA FlushKeeps ==
  ASSUME IInv, StartFlush \/ BackoffOver
  PROVE  IInv'
<1>1. /\ pc \in {"flush", "backoff"} /\ next = 1 /\ last \in BOOLEAN
      /\ UNCHANGED <<emitted, inside, sender, channel, last, database, guard, rows, failed, discarded>>
      /\ dropped' \in Nat /\ reported' \in Nat
  <2>1. pc \in {"flush", "backoff"} /\ next = 1 /\ last \in BOOLEAN
    BY DEF StartFlush, BackoffOver, IInv, TypeOK, Placed
  <2>2. UNCHANGED <<emitted, inside, sender, channel, last, database, guard, rows, failed, discarded>>
    BY DEF StartFlush, BackoffOver, threads, outcome
  <2>3. dropped' \in Nat /\ reported' \in Nat
    <3>1. dropped \in Nat /\ reported \in Nat
      BY DEF IInv, TypeOK
    <3>2. ReportDrops \/ UNCHANGED <<dropped, reported>>
      BY DEF StartFlush, BackoffOver
    <3> QED
      BY <3>1, <3>2 DEF ReportDrops
  <2> QED
    BY <2>1, <2>2, <2>3
<1>2. lost' \subseteq EntryId
  <2>1. AppEntries(batch) \subseteq EntryId
    BY AppEntriesTyped DEF IInv, Pure
  <2> QED
    BY <2>1 DEF StartFlush, BackoffOver, outcome, IInv, TypeOK
<1>3. CASE BackToLoop
  <2>1. /\ Placed' /\ pc' \in {"fill", "exited"} /\ next' \in 1..Len(batch') + 1
        /\ batch' \in Seq(EntryId) /\ Len(batch') = 0
    BY <1>1, <1>3, BackToLoopPlaced
  <2>2. Pure'
    BY <1>1, <2>1 DEF IInv, Pure
  <2>3. TypeOK'
    <3>1. Len(batch') <= (IF BatchSize = 0 THEN 1 ELSE BatchSize)
      BY <2>1, SinkAssumption DEF SinkAssumption
    <3>2. batch' \in Seq(EntryId \cup {Noise})
      BY <2>1
    <3> QED
      BY <1>1, <1>2, <2>1, <3>1, <3>2 DEF IInv, TypeOK
  <2>4. Ordered'
    BY <1>1, <1>3, BatchGone DEF BackToLoop
  <2> QED
    BY <2>1, <2>2, <2>3, <2>4 DEF IInv
<1>4. CASE ~BackToLoop
  <2>1. pc = "flush" /\ pc' \in {"backoff", "insert"} /\ UNCHANGED <<batch, next>>
    BY <1>4 DEF StartFlush, BackoffOver, IInv, TypeOK
  <2>2. batch # <<>> /\ 1 <= Len(batch)
    BY <2>1, TailFacts DEF IInv, Placed, Pure
  <2>3. TypeOK' /\ Placed' /\ UNCHANGED <<emitted, channel, batch, next, rows>>
    BY <1>1, <1>2, <2>1, <2>2 DEF IInv, TypeOK, Placed
  <2> QED
    BY <2>3, QuietKeeps
<1> QED
  BY <1>3, <1>4

LEMMA InsertKeeps ==
  ASSUME IInv, NEW ok \in BOOLEAN, Insert(ok)
  PROVE  IInv'
<1> DEFINE e == batch[next]
<1>1. /\ pc = "insert" /\ next \in 1..Len(batch) /\ Len(batch) \in Nat
      /\ batch \in Seq(EntryId) /\ rows \in Seq(EntryId) /\ e \in EntryId
  BY DEF Insert, IInv, Pure, Placed, TypeOK
<1>2. UNCHANGED <<emitted, inside, sender, channel, dropped, last, database, guard,
                  lost, discarded, reported>>
  BY DEF Insert, threads, Excluded, EXCLUDED_TARGETS
<1>3. rows' = rows \/ rows' = Append(rows, e)
  BY DEF Insert
<1>4. failed' \subseteq EntryId
  <2>1. <<e>> \in Seq(EntryId)
    BY <1>1
  <2>2. AppEntries(<<e>>) \subseteq EntryId
    BY <2>1, AppEntriesTyped
  <2> QED
    BY <2>2 DEF Insert, IInv, TypeOK
<1>5. /\ rows' \in Seq(EntryId)
      /\ \A i \in 1..Len(rows') : (i \in 1..Len(rows) /\ rows'[i] = rows[i]) \/ rows'[i] = e
  <2>1. CASE rows' = rows
    BY <1>1, <2>1
  <2>2. CASE rows' = Append(rows, e)
    BY <1>1, <2>2, AppendFacts
  <2> QED
    BY <1>3, <2>1, <2>2
<1>6. Sorted(rows)'
  <2>1. \A i \in 1..Len(rows) : Earlier(rows[i], e)
    BY <1>1 DEF IInv, Ordered
  <2>2. Sorted(rows) /\ Sorted(Append(rows, e))
    BY <1>1, <2>1, AppendSorted DEF IInv, Ordered
  <2> QED
    BY <1>3, <2>2 DEF Sorted
<1>7. Emitted(rows)' /\ Emitted(channel)' /\ Sorted(channel)'
  <2>1. e[2] <= emitted[e[1]]
    BY <1>1 DEF IInv, Ordered, Emitted
  <2> QED
    BY <1>2, <1>5, <2>1 DEF IInv, Ordered, Emitted, Sorted
<1>8. \A i \in 1..Len(rows') : \A j \in 1..Len(channel) : Earlier(rows'[i], channel[j])
  <2>1. \A j \in 1..Len(channel) : Earlier(e, channel[j])
    BY <1>1 DEF IInv, Ordered
  <2> QED
    BY <1>5, <2>1 DEF IInv, Ordered
<1>9. CASE next = Len(batch)
  <2>1. BackToLoop
    BY <1>9 DEF Insert
  <2>2. /\ Placed' /\ pc' \in {"fill", "exited"} /\ next' \in 1..Len(batch') + 1
        /\ batch' \in Seq(EntryId) /\ Len(batch') = 0
    BY <1>1, <1>2, <2>1, BackToLoopPlaced
  <2>3. Pure'
    BY <1>2, <1>5, <2>2 DEF IInv, Pure
  <2>4. TypeOK'
    <3>1. Len(batch') <= (IF BatchSize = 0 THEN 1 ELSE BatchSize)
      BY <2>2, SinkAssumption DEF SinkAssumption
    <3>2. batch' \in Seq(EntryId \cup {Noise}) /\ rows' \in Seq(EntryId \cup {Noise})
      BY <1>5, <2>2
    <3> QED
      BY <1>2, <1>4, <2>2, <3>1, <3>2 DEF IInv, TypeOK
  <2>5. Ordered'
    <3>1. Sorted(batch)' /\ Emitted(batch)'
      BY <2>2 DEF Sorted, Emitted
    <3>2. next' = 1
      BY <2>1 DEF BackToLoop
    <3> QED
      BY <1>2, <1>6, <1>7, <1>8, <2>2, <3>1, <3>2 DEF Ordered
  <2> QED
    BY <2>2, <2>3, <2>4, <2>5 DEF IInv
<1>10. CASE next # Len(batch)
  <2>1. next' = next + 1 /\ pc' = pc /\ batch' = batch /\ next' \in 1..Len(batch)
    BY <1>1, <1>10 DEF Insert
  <2>2. Pure'
    BY <1>1, <1>2, <1>5, <2>1 DEF IInv, Pure
  <2>3. TypeOK'
    <3>1. rows' \in Seq(EntryId \cup {Noise}) /\ next' \in 1..Len(batch) + 1
      BY <1>1, <1>5, <2>1
    <3> QED
      BY <1>2, <1>4, <2>1, <3>1 DEF IInv, TypeOK
  <2>4. Placed'
    BY <1>1, <1>2, <2>1 DEF IInv, Placed
  <2>5. Sorted(batch)' /\ Emitted(batch)'
    BY <1>2, <2>1 DEF IInv, Ordered, Sorted, Emitted
  <2>6. \A i \in 1..Len(rows') : \A j \in next'..Len(batch) : Earlier(rows'[i], batch[j])
    <3>1. \A j \in next'..Len(batch) : j \in next..Len(batch) /\ j \in 1..Len(batch) /\ next < j
      BY <1>1, <2>1
    <3>2. \A j \in next'..Len(batch) : Earlier(e, batch[j])
      BY <1>1, <3>1 DEF IInv, Ordered, Sorted
    <3> QED
      BY <1>5, <3>1, <3>2 DEF IInv, Ordered
  <2>7. Ordered'
    BY <1>2, <1>6, <1>7, <1>8, <2>1, <2>5, <2>6 DEF IInv, Ordered
  <2> QED
    BY <2>2, <2>3, <2>4, <2>7 DEF IInv
<1> QED
  BY <1>9, <1>10
-----------------------------------------------------------------------------
(***************************************************************************)
(* The guard.                                                              *)
(***************************************************************************)
LEMMA AbortKeeps ==
  ASSUME IInv, AbortWorker, guard' \in {"waiting", "gone"},
         UNCHANGED <<threads, dropped, last, database, rows, failed, lost, reported>>
  PROVE  IInv'
<1>1. CASE Alive
  <2>1. /\ pc' = "aborted" /\ channel' = <<>> /\ batch' = <<>> /\ next' = 1
        /\ discarded' = AppEntries(channel \o Unflushed)
        /\ UNCHANGED <<emitted, inside, sender>>
    BY <1>1 DEF AbortWorker, threads
  <2>2. discarded' \subseteq EntryId
    <3>1. next \in Nat /\ next >= 1 /\ next <= Len(batch) + 1
          /\ batch \in Seq(EntryId) /\ channel \in Seq(EntryId)
      BY DEF IInv, TypeOK, Pure
    <3>2. SubSeq(batch, next, Len(batch)) \in Seq(EntryId)
      BY <3>1
    <3>3. Unflushed \in Seq(EntryId)
      BY <3>2 DEF Unflushed
    <3>4. channel \o Unflushed \in Seq(EntryId)
      BY <3>1, <3>3
    <3> QED
      BY <2>1, <3>4, AppEntriesTyped
  <2>3. Pure'
    BY <2>1, EmptyIsSorted DEF IInv, Pure
  <2>4. TypeOK'
    <3>1. Len(batch') = 0 /\ Len(channel') = 0
      BY <2>1
    <3>2. /\ Len(batch') <= (IF BatchSize = 0 THEN 1 ELSE BatchSize) /\ Len(channel') <= Capacity
          /\ next' \in 1..Len(batch') + 1
      BY <2>1, <3>1, SinkAssumption DEF SinkAssumption
    <3>3. {channel', batch'} \subseteq Seq(EntryId \cup {Noise})
      BY <2>1
    <3> QED
      BY <2>1, <2>2, <3>2, <3>3 DEF IInv, TypeOK
  <2>5. Placed'
    BY <2>1 DEF IInv, Placed
  <2>6. Ordered'
    BY <2>1, BatchGone
  <2> QED
    BY <2>3, <2>4, <2>5, <2>6 DEF IInv
<1>2. CASE ~Alive
  <2>1. TypeOK' /\ Placed' /\ UNCHANGED <<emitted, channel, batch, next, rows>>
    BY <1>2 DEF AbortWorker, IInv, TypeOK, Placed, threads
  <2> QED
    BY <2>1, QuietKeeps
<1> QED
  BY <1>1, <1>2

LEMMA GuardKeeps ==
  ASSUME IInv, (\E flavor \in Flavor : DropGuard(flavor)) \/ GuardReturns
  PROVE  IInv'
<1>1. CASE AbortWorker
  <2>1. guard' \in {"waiting", "gone"}
        /\ UNCHANGED <<threads, dropped, last, database, rows, failed, lost, reported>>
    BY DEF DropGuard, GuardReturns
  <2> QED
    BY <1>1, <2>1, AbortKeeps
<1>2. CASE ~AbortWorker
  <2>1. guard' = "waiting"
        /\ UNCHANGED <<threads, dropped, last, database, rows, failed, lost, reported,
                       pc, discarded, channel, batch, next>>
    BY <1>2 DEF DropGuard, GuardReturns
  <2>2. TypeOK' /\ Placed' /\ UNCHANGED <<emitted, channel, batch, next, rows>>
    BY <2>1 DEF IInv, TypeOK, Placed, threads
  <2> QED
    BY <2>2, QuietKeeps
<1> QED
  BY <1>1, <1>2
-----------------------------------------------------------------------------
LEMMA NextKeeps == IInv /\ [Next]_vars => IInv'
<1> SUFFICES ASSUME IInv, [Next]_vars PROVE IInv'
  OBVIOUS
<1>1. CASE UNCHANGED vars
  <2>1. TypeOK' /\ Placed' /\ UNCHANGED <<emitted, channel, batch, next, rows>>
    BY <1>1 DEF vars, threads, worker, outcome, IInv, TypeOK, Placed
  <2> QED
    BY <2>1, QuietKeeps
<1>2. CASE Work
  BY <1>2, ReceiveKeeps, TurnsKeep, FlushKeeps, InsertKeeps DEF Work
<1>3. CASE \E t \in Thread, target \in Target : Emit(t, target)
  BY <1>3, EmitKeeps
<1> QED
  BY <1>1, <1>2, <1>3, ThreadsKeep, GuardKeeps DEF Next

LEMMA Invariance == Spec => []IInv
  BY InitIInv, NextKeeps, PTL DEF Spec

\* "The sink's state keeps its shape": the channel never holds more than
\* channel_capacity and the batch never more than batch_size, or one where
\* that is zero (spawn_db_worker).
THEOREM TypeCorrect == Spec => []TypeOK
<1>1. IInv => TypeOK
  BY DEF IInv
<1> QED
  BY <1>1, Invariance, PTL

\* "The table has each thread's events once and in the order in which the
\* thread emitted them", for any threads, capacity, batch size, failures of
\* INSERTs and ends of the process (on_event's try_send, flush_batch).
THEOREM StoresInOrder == Spec => []StoredInOrder
<1>1. IInv => StoredInOrder
  BY DEF IInv, Pure, Ordered, Sorted, Earlier, StoredInOrder
<1> QED
  BY <1>1, Invariance, PTL

\* "A worker that saw its channel closed has flushed everything it got"
\* (spawn_db_worker, the closed-channel arm).
THEOREM ExitsClean == Spec => []ExitIsClean
<1>1. IInv => ExitIsClean
  BY DEF IInv, Placed, ExitIsClean, Unflushed
<1> QED
  BY <1>1, Invariance, PTL

\* "The table never holds an entry of the sink's own activity", so an INSERT
\* cannot cause another one (EXCLUDED_TARGETS).
THEOREM OnlyApplicationEvents == Spec => [](Noise \notin Range(rows))
<1>1. IInv => Noise \notin Range(rows)
  BY EntryFacts DEF IInv, Pure, Range
<1> QED
  BY <1>1, Invariance, PTL
-----------------------------------------------------------------------------
(***************************************************************************)
(* Every entry is in one place, or counted.                                *)
(***************************************************************************)
\* What is on its way to the table, or in it; and what has left that way.
Pipe == AppEntries(channel) \cup AppEntries(Unflushed) \cup AppEntries(rows)
Gone == failed \cup lost \cup discarded
Drops == Cardinality(inside) + dropped + reported

Counted ==
  /\ Pipe \cup Gone \subseteq Issued
  /\ Pipe \cap Gone = {}
  /\ failed \cap lost = {} /\ (failed \cup lost) \cap discarded = {}
  /\ Alive => discarded = {}
  /\ Cardinality(Issued) = Cardinality(Pipe \cup Gone) + Drops

LEMMA EntriesOf ==
  ASSUME NEW s \in Seq(EntryId)
  PROVE  AppEntries(s) = {s[i] : i \in 1..Len(s)}
  BY EntryFacts DEF AppEntries, Range

LEMMA NoEntries == AppEntries(<<>>) = {}
<1>1. AppEntries(<<>>) = {<<>>[i] : i \in 1..Len(<<>>)}
  BY EntriesOf, EmptyIsSorted
<1>2. 1..Len(<<>>) = {}
  BY EmptyIsSorted
<1> QED
  BY <1>1, <1>2

LEMMA EntriesFrom ==
  ASSUME NEW b \in Seq(EntryId), NEW n \in 1..Len(b) + 1
  PROVE  AppEntries(SubSeq(b, n, Len(b))) = {b[j] : j \in n..Len(b)}
<1> DEFINE m == Len(b)
           s == SubSeq(b, n, m)
<1>1. m \in Nat
  OBVIOUS
<1>2. /\ s \in Seq(EntryId) /\ Len(s) = (IF n <= m THEN m - n + 1 ELSE 0)
      /\ \A i \in 1..m - n + 1 : s[i] = b[n + i - 1]
  BY <1>1, SubSeqProperties
<1> HIDE DEF s
<1>3. Len(s) = m - n + 1
  BY <1>1, <1>2
<1>4. ASSUME NEW j \in n..m PROVE b[j] \in {s[i] : i \in 1..Len(s)}
  <2>1. j - n + 1 \in 1..Len(s) /\ n + (j - n + 1) - 1 = j
    BY <1>1, <1>3
  <2>2. s[j - n + 1] = b[j]
    BY <1>2, <1>3, <2>1
  <2> QED
    BY <2>1, <2>2
<1>5. ASSUME NEW i \in 1..Len(s) PROVE s[i] \in {b[j] : j \in n..m}
  <2>1. n + i - 1 \in n..m
    BY <1>1, <1>3
  <2>2. s[i] = b[n + i - 1]
    BY <1>2, <1>3
  <2> QED
    BY <2>1, <2>2
<1>6. AppEntries(s) = {s[i] : i \in 1..Len(s)}
  BY <1>2, EntriesOf
<1> QED
  BY <1>4, <1>5, <1>6 DEF s

LEMMA EntriesJoined ==
  ASSUME NEW s \in Seq(EntryId), NEW u \in Seq(EntryId)
  PROVE  AppEntries(s \o u) = AppEntries(s) \cup AppEntries(u)
<1> DEFINE w == s \o u
<1>1. /\ w \in Seq(EntryId) /\ Len(w) = Len(s) + Len(u)
      /\ \A i \in 1..Len(s) : w[i] = s[i]
      /\ \A i \in 1..Len(u) : w[Len(s) + i] = u[i]
      /\ Len(s) \in Nat /\ Len(u) \in Nat
  BY ConcatProperties
<1> HIDE DEF w
<1>2. ASSUME NEW i \in 1..Len(w)
      PROVE  w[i] \in {s[k] : k \in 1..Len(s)} \cup {u[k] : k \in 1..Len(u)}
  <2>1. CASE i <= Len(s)
    BY <1>1, <2>1
  <2>2. CASE i > Len(s)
    <3>1. i - Len(s) \in 1..Len(u) /\ Len(s) + (i - Len(s)) = i
      BY <1>1, <2>2
    <3>2. w[i] = u[i - Len(s)]
      BY <1>1, <3>1
    <3> QED
      BY <3>1, <3>2
  <2> QED
    BY <1>1, <2>1, <2>2
<1>3. ASSUME NEW i \in 1..Len(s) PROVE s[i] \in {w[k] : k \in 1..Len(w)}
  BY <1>1
<1>4. ASSUME NEW i \in 1..Len(u) PROVE u[i] \in {w[k] : k \in 1..Len(w)}
  <2>1. Len(s) + i \in 1..Len(w)
    BY <1>1
  <2> QED
    BY <1>1, <2>1
<1>5. AppEntries(w) = {w[k] : k \in 1..Len(w)}
  BY <1>1, EntriesOf
<1>6. AppEntries(w) = AppEntries(s) \cup AppEntries(u)
  BY <1>2, <1>3, <1>4, <1>5, EntriesOf
<1> QED
  BY <1>6 DEF w

\* The same, as sets of elements; p, b and n are the worker's place.
Left(p, b, n) == IF p \in {"exited", "aborted", "backoff"} THEN {} ELSE {b[j] : j \in n..Len(b)}
Elements(s) == {s[i] : i \in 1..Len(s)}

LEMMA PipeNow ==
  ASSUME IInv
  PROVE  /\ AppEntries(Unflushed) = Left(pc, batch, next)
         /\ AppEntries(channel) = Elements(channel) /\ AppEntries(rows) = Elements(rows)
         /\ Pipe = Elements(channel) \cup Left(pc, batch, next) \cup Elements(rows)
<1>1. batch \in Seq(EntryId) /\ next \in 1..Len(batch) + 1
      /\ channel \in Seq(EntryId) /\ rows \in Seq(EntryId)
  BY DEF IInv, TypeOK, Pure
<1>2. AppEntries(Unflushed) = Left(pc, batch, next)
  BY <1>1, EntriesFrom, NoEntries DEF Unflushed, Left
<1> QED
  BY <1>1, <1>2, EntriesOf DEF Pipe, Elements

LEMMA PipeThen ==
  ASSUME IInv'
  PROVE  Pipe' = Elements(channel') \cup Left(pc', batch', next') \cup Elements(rows')
<1>1. batch' \in Seq(EntryId) /\ next' \in 1..Len(batch') + 1
      /\ channel' \in Seq(EntryId) /\ rows' \in Seq(EntryId)
  BY DEF IInv, TypeOK, Pure
<1>2. AppEntries(Unflushed') = Left(pc', batch', next')
  BY <1>1, EntriesFrom, NoEntries DEF Unflushed, Left
<1> QED
  BY <1>1, <1>2, EntriesOf DEF Pipe, Elements

\* Nothing on the way is there twice.
LEMMA PipeDisjoint ==
  ASSUME IInv
  PROVE  /\ Elements(channel) \cap Elements(rows) = {}
         /\ Elements(channel) \cap Left(pc, batch, next) = {}
         /\ Elements(rows) \cap Left(pc, batch, next) = {}
<1>1. \A e \in EntryId : ~Earlier(e, e)
  BY EntryFacts DEF Earlier
<1>2. batch \in Seq(EntryId) /\ next \in 1..Len(batch) + 1 /\ Len(batch) \in Nat
      /\ channel \in Seq(EntryId) /\ rows \in Seq(EntryId)
  BY DEF IInv, TypeOK, Pure
<1>3. Elements(channel) \cap Elements(rows) = {}
  BY <1>1, <1>2 DEF IInv, Ordered, Elements
<1>4. Elements(channel) \cap Left(pc, batch, next) = {}
  BY <1>1, <1>2 DEF IInv, Ordered, Elements, Left
<1>5. Elements(rows) \cap Left(pc, batch, next) = {}
  BY <1>1, <1>2 DEF IInv, Ordered, Elements, Left
<1> QED
  BY <1>3, <1>4, <1>5

LEMMA IssuedFinite ==
  ASSUME TypeOK
  PROVE  IsFiniteSet(Issued) /\ IsFiniteSet(inside)
<1>1. IsFiniteSet(EntryId)
  <2>1. IsFiniteSet(Thread) /\ IsFiniteSet(1..MaxEvents)
    BY SinkAssumption, FS_Interval DEF SinkAssumption
  <2> QED
    BY <2>1, FS_Product DEF EntryId
<1>2. Issued \subseteq EntryId /\ inside \subseteq Thread
  BY DEF Issued, TypeOK
<1> QED
  BY <1>1, <1>2, SinkAssumption, FS_Subset DEF SinkAssumption

\* X leaves the way to the table, for one of the three ways it can be gone.
Leaves(X) ==
  /\ Pipe = Pipe' \cup X /\ Pipe' \cap X = {}
  /\ \/ failed' = failed \cup X /\ UNCHANGED <<lost, discarded>>
     \/ lost' = lost \cup X /\ UNCHANGED <<failed, discarded>>
     \/ discarded' = X /\ discarded = {} /\ ~Alive' /\ UNCHANGED <<failed, lost>>

LEMMA LeavesCounted ==
  ASSUME Counted, Issued' = Issued, Drops' = Drops, Alive' => Alive,
         \E X : Leaves(X)
  PROVE  Counted'
<1> PICK X : Leaves(X)
  OBVIOUS
<1>1. Pipe' \cup Gone' = Pipe \cup Gone
  BY DEF Leaves, Gone
<1>2. /\ Pipe' \cap Gone' = {}
      /\ failed' \cap lost' = {} /\ (failed' \cup lost') \cap discarded' = {}
  BY DEF Leaves, Gone, Counted
<1>3. Alive' => discarded' = {}
  BY DEF Leaves, Counted
<1>4. Cardinality(Issued') = Cardinality(Pipe' \cup Gone') + Drops'
  BY <1>1 DEF Counted
<1> QED
  BY <1>1, <1>2, <1>3, <1>4 DEF Counted

LEMMA StaysCounted ==
  ASSUME Counted, Issued' = Issued, Drops' = Drops, Alive' => Alive,
         Pipe' = Pipe, UNCHANGED <<failed, lost, discarded>>
  PROVE  Counted'
<1>1. Leaves({})
  BY DEF Leaves
<1> QED
  BY <1>1, LeavesCounted

LEMMA DropsSame ==
  UNCHANGED <<inside, dropped, reported>> => Drops' = Drops
  BY DEF Drops

LEMMA ReportedDrops ==
  ASSUME TypeOK, ReportDrops, inside' = inside
  PROVE  Drops' = Drops
<1>1. Cardinality(inside) \in Nat
  BY IssuedFinite, FS_CardinalityType
<1> QED
  BY <1>1 DEF Drops, ReportDrops, TypeOK
-----------------------------------------------------------------------------
LEMMA EmitCounts ==
  ASSUME IInv, IInv', Counted, NEW t \in Thread, NEW target \in Target, Emit(t, target)
  PROVE  Counted'
<1> DEFINE e == <<t, emitted[t] + 1>>
<1>1. /\ emitted \in [Thread -> 0..MaxEvents] /\ emitted[t] \in Nat /\ emitted[t] < MaxEvents
      /\ emitted' = [emitted EXCEPT ![t] = @ + 1]
  BY SinkAssumption DEF Emit, IInv, TypeOK, SinkAssumption
<1>2. e \in EntryId /\ e \notin Issued
  BY <1>1, SinkAssumption DEF EntryId, SinkAssumption, Issued
<1>3. Issued' = Issued \cup {e}
  <2>1. ASSUME NEW f \in EntryId
        PROVE  f[2] <= emitted'[f[1]] <=> f[2] <= emitted[f[1]] \/ f = e
    <3>1. f = <<f[1], f[2]>> /\ f[1] \in Thread /\ f[2] \in 1..MaxEvents
      BY DEF EntryId
    <3>2. CASE f[1] = t
      BY <1>1, <3>1, <3>2
    <3>3. CASE f[1] # t
      BY <1>1, <3>1, <3>3
    <3> QED
      BY <3>2, <3>3
  <2> QED
    BY <1>2, <2>1 DEF Issued
<1>4. IsFiniteSet(Issued) /\ IsFiniteSet(inside)
  BY IssuedFinite DEF IInv
<1>5. Cardinality(Issued') = Cardinality(Issued) + 1
  BY <1>2, <1>3, <1>4, FS_AddElement
<1>6. Cardinality(inside) \in Nat /\ Cardinality(Issued) \in Nat
  BY <1>4, FS_CardinalityType
<1>7. IsFiniteSet(Pipe \cup Gone) /\ Cardinality(Pipe \cup Gone) \in Nat
  BY <1>4, FS_Subset, FS_CardinalityType DEF Counted
<1>8. dropped \in Nat /\ reported \in Nat
  BY DEF IInv, TypeOK
<1>9. UNCHANGED <<dropped, reported, failed, lost, discarded, pc, batch, next, rows>>
  BY DEF Emit, worker, outcome
<1>10. CASE Room /\ Alive
  <2>1. channel' = Append(channel, e) /\ inside' = inside
    BY <1>10 DEF Emit
  <2>2. Elements(channel') = Elements(channel) \cup {e}
    <3>1. channel \in Seq(EntryId) /\ Len(channel) \in Nat
      BY DEF IInv, Pure
    <3>2. /\ Len(channel') = Len(channel) + 1
          /\ \A i \in 1..Len(channel) : channel'[i] = channel[i]
          /\ channel'[Len(channel) + 1] = e
          /\ \A j \in 1..Len(channel') :
              (j \in 1..Len(channel) /\ channel'[j] = channel[j]) \/ channel'[j] = e
      BY <1>2, <2>1, <3>1, AppendFacts
    <3>3. Elements(channel) \subseteq Elements(channel') /\ e \in Elements(channel')
      BY <3>1, <3>2 DEF Elements
    <3>4. Elements(channel') \subseteq Elements(channel) \cup {e}
      BY <3>1, <3>2 DEF Elements
    <3> QED
      BY <3>3, <3>4
  <2>3. Pipe' = Pipe \cup {e} /\ Gone' = Gone
    BY <1>9, <2>2, PipeNow, PipeThen DEF Gone
  <2>4. Pipe' \cup Gone' = (Pipe \cup Gone) \cup {e} /\ e \notin Pipe \cup Gone
    BY <1>2, <2>3 DEF Counted
  <2>5. Cardinality(Pipe' \cup Gone') = Cardinality(Pipe \cup Gone) + 1
    BY <1>7, <2>4, FS_AddElement
  <2>6. Cardinality(Issued') = Cardinality(Pipe' \cup Gone') + Drops'
    BY <1>5, <1>6, <1>7, <1>8, <1>9, <2>1, <2>5 DEF Counted, Drops
  <2>7. Pipe' \cup Gone' \subseteq Issued' /\ Pipe' \cap Gone' = {}
    BY <1>3, <2>3, <2>4 DEF Counted
  <2> QED
    BY <1>9, <2>6, <2>7 DEF Counted, Alive
<1>11. CASE ~(Room /\ Alive)
  <2>1. channel' = channel /\ inside' = inside \cup {t} /\ t \notin inside
    BY <1>11 DEF Emit
  <2>2. Pipe' = Pipe /\ Gone' = Gone
    BY <1>9, <2>1, PipeNow, PipeThen DEF Gone
  <2>3. Cardinality(inside') = Cardinality(inside) + 1
    BY <1>4, <2>1, FS_AddElement
  <2>4. Cardinality(Issued') = Cardinality(Pipe' \cup Gone') + Drops'
    BY <1>5, <1>6, <1>7, <1>8, <1>9, <2>2, <2>3 DEF Counted, Drops
  <2> QED
    BY <1>3, <1>9, <2>2, <2>4 DEF Counted, Alive
<1> QED
  BY <1>10, <1>11

LEMMA QuietCounts ==
  ASSUME IInv, IInv', Counted,
         (\E t \in Thread : CountDrop(t)) \/ DropSubscriber
         \/ (\E d \in {"usable", "unusable"} : InstallDatabase(d)) \/ UNCHANGED vars
  PROVE  Counted'
<1>1. UNCHANGED <<emitted, channel, pc, batch, next, rows, failed, lost, discarded>>
  BY DEF CountDrop, DropSubscriber, InstallDatabase, vars, threads, worker, outcome
<1>2. Pipe' = Pipe /\ Issued' = Issued /\ (Alive' => Alive)
  BY <1>1, PipeNow, PipeThen DEF Issued, Alive
<1>3. Drops' = Drops
  <2>1. CASE \E t \in Thread : CountDrop(t)
    <3> PICK t \in Thread : CountDrop(t)
      BY <2>1
    <3>1. t \in inside /\ inside' = inside \ {t} /\ dropped' = dropped + 1 /\ reported' = reported
      BY DEF CountDrop
    <3>2. IsFiniteSet(inside)
      BY IssuedFinite DEF IInv
    <3>3. Cardinality(inside') = Cardinality(inside) - 1 /\ Cardinality(inside) \in Nat
      BY <3>1, <3>2, FS_RemoveElement, FS_CardinalityType
    <3> QED
      BY <3>1, <3>3 DEF Drops, IInv, TypeOK
  <2>2. CASE UNCHANGED <<inside, dropped, reported>>
    BY <2>2, DropsSame
  <2> QED
    BY <2>1, <2>2 DEF DropSubscriber, InstallDatabase, vars, threads
<1> QED
  BY <1>1, <1>2, <1>3, StaysCounted

LEMMA ReceiveCounts ==
  ASSUME IInv, IInv', Counted, Receive
  PROVE  Counted'
<1> DEFINE e == Head(channel)
<1>1. /\ pc = "fill" /\ pc' \in {"fill", "flush"} /\ next = 1 /\ next' = 1
      /\ channel # <<>> /\ channel \in Seq(EntryId) /\ batch \in Seq(EntryId)
      /\ Len(batch) \in Nat
  BY DEF Receive, IInv, Pure, Placed
<1>2. batch' = Append(batch, e) /\ channel' = Tail(channel)
      /\ UNCHANGED <<threads, dropped, outcome, reported>>
  BY DEF Receive, Batched
<1>3. Elements(channel) = Elements(channel') \cup {e}
  <2>1. /\ e \in EntryId /\ e = channel[1] /\ Len(channel) \in Nat \ {0}
        /\ Len(channel') = Len(channel) - 1
        /\ \A i \in 1..Len(channel') : i + 1 \in 1..Len(channel) /\ channel'[i] = channel[i + 1]
    BY <1>1, <1>2, TailFacts
  <2>2. ASSUME NEW j \in 1..Len(channel), j # 1
        PROVE  channel[j] \in Elements(channel')
    <3>1. j - 1 \in 1..Len(channel') /\ j - 1 + 1 = j
      BY <2>1, <2>2
    <3>2. channel'[j - 1] = channel[j]
      BY <2>1, <3>1
    <3> QED
      BY <3>1, <3>2 DEF Elements
  <2>3. Elements(channel) \subseteq Elements(channel') \cup {e}
    BY <2>1, <2>2 DEF Elements
  <2>4. Elements(channel') \cup {e} \subseteq Elements(channel)
    BY <2>1 DEF Elements
  <2> QED
    BY <2>3, <2>4
<1>4. Left(pc', batch', next') = Left(pc, batch, next) \cup {e}
  <2>1. /\ Len(batch') = Len(batch) + 1
        /\ \A i \in 1..Len(batch) : batch'[i] = batch[i]
        /\ batch'[Len(batch) + 1] = e
        /\ \A j \in 1..Len(batch') : (j \in 1..Len(batch) /\ batch'[j] = batch[j]) \/ batch'[j] = e
    BY <1>1, <1>2, TailFacts, AppendFacts
  <2>2. Elements(batch') \subseteq Elements(batch) \cup {e}
    BY <1>1, <2>1 DEF Elements
  <2>3. Elements(batch) \cup {e} \subseteq Elements(batch')
    BY <1>1, <2>1 DEF Elements
  <2> QED
    BY <1>1, <2>2, <2>3 DEF Left, Elements
<1>5. Pipe' = Pipe
  BY <1>2, <1>3, <1>4, PipeNow, PipeThen DEF outcome
<1>6. Issued' = Issued /\ Drops' = Drops /\ UNCHANGED <<failed, lost, discarded>> /\ Alive
  BY <1>1, <1>2, DropsSame DEF Issued, threads, outcome, Alive
<1> QED
  BY <1>5, <1>6, StaysCounted

LEMMA TurnsCount ==
  ASSUME IInv, IInv', Counted, FlushTimeout \/ ChannelClosed
  PROVE  Counted'
<1>1. /\ pc = "fill" /\ pc' \in {"fill", "flush", "exited"} /\ (pc' = "exited" => batch = <<>>)
      /\ next = 1 /\ UNCHANGED <<threads, channel, batch, next, outcome>>
  BY DEF FlushTimeout, ChannelClosed, Remains, IInv, Placed
<1>2. batch = <<>> => {batch[j] : j \in 1..Len(batch)} = {}
  BY EmptyIsSorted
<1>3. Left(pc', batch', next') = Left(pc, batch, next)
  BY <1>1, <1>2 DEF Left
<1>4. Pipe' = Pipe
  BY <1>1, <1>3, PipeNow, PipeThen DEF outcome
<1>5. Drops' = Drops
  <2>1. ReportDrops \/ UNCHANGED <<dropped, reported>>
    BY DEF FlushTimeout, ChannelClosed, Idle, ReportDrops
  <2>2. inside' = inside
    BY <1>1 DEF threads
  <2> QED
    BY <2>1, <2>2, ReportedDrops, DropsSame DEF IInv
<1>6. Issued' = Issued /\ UNCHANGED <<failed, lost, discarded>> /\ Alive
  BY <1>1 DEF Issued, threads, outcome, Alive
<1> QED
  BY <1>4, <1>5, <1>6, StaysCounted

LEMMA NothingLeft ==
  /\ \A p \in {"exited", "aborted", "backoff"} : \A b, n : Left(p, b, n) = {}
  /\ \A p : Left(p, <<>>, 1) = {}
  BY EmptyIsSorted DEF Left

\* A flush begins, or its backoff is over: what is not inserted is lost.
LEMMA FlushCounts ==
  ASSUME IInv, IInv', Counted, StartFlush \/ BackoffOver
  PROVE  Counted'
<1>1. pc \in {"flush", "backoff"} /\ next = 1 /\ UNCHANGED <<threads, channel, rows, failed, discarded>>
  BY DEF StartFlush, BackoffOver, IInv, Placed, outcome
<1>2. Drops' = Drops
  <2>1. ReportDrops \/ UNCHANGED <<dropped, reported>>
    BY DEF StartFlush, BackoffOver
  <2> QED
    BY <1>1, <2>1, ReportedDrops, DropsSame DEF IInv, threads
<1>3. Issued' = Issued /\ Alive
  BY <1>1 DEF Issued, threads, Alive
<1>4. BackToLoop => Left(pc', batch', next') = {}
  BY NothingLeft DEF BackToLoop
<1>5. CASE lost' = lost /\ Left(pc', batch', next') = Left(pc, batch, next)
  BY <1>1, <1>2, <1>3, <1>5, PipeNow, PipeThen, StaysCounted
<1>6. CASE lost' = lost \cup AppEntries(batch) /\ pc = "flush" /\ Left(pc', batch', next') = {}
  <2>1. batch \in Seq(EntryId)
    BY DEF IInv, Pure
  <2>2. AppEntries(batch) = Left(pc, batch, next)
    BY <1>1, <1>6, <2>1, EntriesOf DEF Left
  <2>3. Leaves(Left(pc, batch, next))
    BY <1>1, <1>6, <2>2, PipeNow, PipeThen, PipeDisjoint DEF Leaves
  <2> QED
    BY <1>2, <1>3, <2>3, LeavesCounted
<1>7. CASE BackoffOver
  <2>1. lost' = lost /\ Left(pc, batch, next) = {} /\ BackToLoop
    BY <1>7, NothingLeft DEF BackoffOver, outcome
  <2> QED
    BY <1>4, <1>5, <2>1
<1>8. CASE StartFlush /\ database = "absent"
  <2>1. lost' = lost \cup AppEntries(batch) /\ pc = "flush" /\ BackToLoop
    BY <1>8 DEF StartFlush
  <2> QED
    BY <1>4, <1>6, <2>1
<1>9. CASE StartFlush /\ database = "unusable"
  <2>1. lost' = lost \cup AppEntries(batch) /\ pc = "flush" /\ pc' = "backoff"
    BY <1>9 DEF StartFlush
  <2> QED
    BY <1>6, <2>1, NothingLeft
<1>10. CASE StartFlush /\ database = "usable"
  <2>1. lost' = lost /\ pc = "flush" /\ pc' = "insert" /\ UNCHANGED <<batch, next>>
    BY <1>10 DEF StartFlush
  <2> QED
    BY <1>5, <2>1 DEF Left
<1> QED
  BY <1>7, <1>8, <1>9, <1>10 DEF IInv, TypeOK

\* An entry leaves the batch for the table or for the failed ones.
LEMMA InsertCounts ==
  ASSUME IInv, IInv', Counted, NEW ok \in BOOLEAN, Insert(ok)
  PROVE  Counted'
<1> DEFINE e == batch[next]
<1>1. /\ pc = "insert" /\ next \in 1..Len(batch) /\ Len(batch) \in Nat
      /\ batch \in Seq(EntryId) /\ rows \in Seq(EntryId) /\ e \in EntryId
  BY DEF Insert, IInv, Pure, Placed, TypeOK
<1>2. UNCHANGED <<threads, channel, dropped, lost, discarded, reported>>
  BY DEF Insert, Excluded, EXCLUDED_TARGETS
<1>3. Left(pc, batch, next) = Left(pc', batch', next') \cup {e}
  <2>1. Left(pc, batch, next) = {batch[j] : j \in next..Len(batch)}
    BY <1>1 DEF Left
  <2>2. CASE next = Len(batch)
    <3>1. Left(pc', batch', next') = {}
      BY <2>2, NothingLeft DEF Insert, BackToLoop
    <3>2. next..Len(batch) = {next}
      BY <1>1, <2>2
    <3> QED
      BY <2>1, <3>1, <3>2
  <2>3. CASE next # Len(batch)
    <3>1. pc' = "insert" /\ batch' = batch /\ next' = next + 1
      BY <2>3 DEF Insert
    <3>2. Left(pc', batch', next') = {batch[j] : j \in next + 1..Len(batch)}
      BY <3>1 DEF Left
    <3>3. next..Len(batch) = (next + 1..Len(batch)) \cup {next}
      BY <1>1
    <3> QED
      BY <2>1, <3>2, <3>3
  <2> QED
    BY <2>2, <2>3
<1>4. Issued' = Issued /\ Drops' = Drops /\ Alive
  BY <1>1, <1>2, DropsSame DEF Issued, threads, Alive
<1>5. CASE ok
  <2>1. rows' = Append(rows, e) /\ failed' = failed
    BY <1>5 DEF Insert
  <2>2. /\ Len(rows') = Len(rows) + 1
        /\ \A i \in 1..Len(rows) : rows'[i] = rows[i]
        /\ rows'[Len(rows) + 1] = e
        /\ \A j \in 1..Len(rows') : (j \in 1..Len(rows) /\ rows'[j] = rows[j]) \/ rows'[j] = e
    BY <1>1, <2>1, AppendFacts
  <2>3. Elements(rows') \subseteq Elements(rows) \cup {e}
    BY <1>1, <2>2 DEF Elements
  <2>4. Elements(rows) \cup {e} \subseteq Elements(rows')
    <3>1. Len(rows) \in Nat
      BY <1>1
    <3> QED
      BY <2>2, <3>1 DEF Elements
  <2>5. Pipe' = Pipe
    BY <1>2, <1>3, <2>3, <2>4, PipeNow, PipeThen
  <2> QED
    BY <1>2, <1>4, <2>1, <2>5, StaysCounted
<1>6. CASE ~ok
  <2>1. rows' = rows /\ failed' = failed \cup {e}
    <3>1. failed' = failed \cup AppEntries(<<e>>)
      BY <1>6 DEF Insert
    <3> HIDE DEF e
    <3>4. <<e>> \in Seq(EntryId) /\ Len(<<e>>) = 1
      BY <1>1
    <3>2. AppEntries(<<e>>) = {<<e>>[i] : i \in 1..Len(<<e>>)}
      BY <3>4, EntriesOf
    <3>3. Len(<<e>>) = 1 /\ <<e>>[1] = e /\ 1..1 = {1}
      BY <3>4
    <3> QED
      BY <1>6, <3>1, <3>2, <3>3 DEF Insert
  <2>2. e \notin Left(pc', batch', next')
    <3>1. \A j \in next + 1..Len(batch) : batch[j] # e
      <4>1. ~Earlier(e, e)
        BY <1>1, EntryFacts DEF Earlier
      <4>2. \A j \in next + 1..Len(batch) : j \in 1..Len(batch) /\ next < j
        BY <1>1
      <4>3. \A j \in next + 1..Len(batch) : Earlier(e, batch[j])
        BY <1>1, <4>2 DEF IInv, Ordered, Sorted
      <4> QED
        BY <4>1, <4>3
    <3>2. CASE next = Len(batch)
      BY <3>2, NothingLeft DEF Insert, BackToLoop
    <3>3. CASE next # Len(batch)
      BY <3>1, <3>3 DEF Insert, Left
    <3> QED
      BY <3>2, <3>3
  <2>3. e \in Left(pc, batch, next)
    BY <1>3
  <2>4. Leaves({e})
    BY <1>2, <1>3, <2>1, <2>2, <2>3, PipeNow, PipeThen, PipeDisjoint DEF Leaves
  <2> QED
    BY <1>4, <2>4, LeavesCounted
<1> QED
  BY <1>5, <1>6

\* The worker is aborted with what is in the channel and in its batch.
LEMMA GuardCounts ==
  ASSUME IInv, IInv', Counted, (\E flavor \in Flavor : DropGuard(flavor)) \/ GuardReturns
  PROVE  Counted'
<1>1. UNCHANGED <<threads, dropped, rows, failed, lost, reported>>
  BY DEF DropGuard, GuardReturns
<1>2. Issued' = Issued /\ Drops' = Drops
  BY <1>1, DropsSame DEF Issued, threads
<1>3. CASE UNCHANGED <<pc, discarded, channel, batch, next>>
  <2>1. Pipe' = Pipe /\ (Alive' => Alive)
    BY <1>1, <1>3, PipeNow, PipeThen DEF Alive
  <2> QED
    BY <1>1, <1>2, <1>3, <2>1, StaysCounted
<1>4. CASE AbortWorker /\ Alive
  <2>1. /\ pc' = "aborted" /\ channel' = <<>> /\ batch' = <<>> /\ next' = 1
        /\ discarded' = AppEntries(channel \o Unflushed)
    BY <1>4 DEF AbortWorker
  <2>2. channel \in Seq(EntryId) /\ Unflushed \in Seq(EntryId)
    <3>1. channel \in Seq(EntryId) /\ batch \in Seq(EntryId) /\ next \in 1..Len(batch) + 1
      BY DEF IInv, Pure, TypeOK
    <3>2. SubSeq(batch, next, Len(batch)) \in Seq(EntryId)
      BY <3>1, SubSeqProperties
    <3> QED
      BY <3>1, <3>2, EmptyIsSorted DEF Unflushed
  <2>3. AppEntries(channel \o Unflushed) = AppEntries(channel) \cup AppEntries(Unflushed)
    BY <2>2, EntriesJoined
  <2> DEFINE X == Elements(channel) \cup Left(pc, batch, next)
  <2>4. discarded' = X
    BY <2>1, <2>3, PipeNow
  <2>5. Elements(channel') = {} /\ Left(pc', batch', next') = {}
    BY <2>1, NothingLeft, EmptyIsSorted DEF Elements
  <2>6. Pipe' = Elements(rows) /\ Pipe = Elements(rows) \cup X
    BY <1>1, <2>5, PipeNow, PipeThen
  <2>7. ~Alive' /\ discarded = {}
    BY <1>4, <2>1 DEF Alive, Counted
  <2>8. Leaves(X)
    BY <1>1, <2>4, <2>6, <2>7, PipeDisjoint DEF Leaves
  <2> QED
    BY <1>2, <1>4, <2>8, LeavesCounted
<1> QED
  BY <1>3, <1>4 DEF DropGuard, GuardReturns, AbortWorker

LEMMA CountedStep == IInv /\ IInv' /\ Counted /\ [Next]_vars => Counted'
<1> SUFFICES ASSUME IInv, IInv', Counted, [Next]_vars PROVE Counted'
  OBVIOUS
<1>1. CASE Work
  BY <1>1, ReceiveCounts, TurnsCount, FlushCounts, InsertCounts DEF Work
<1>2. CASE \E t \in Thread, target \in Target : Emit(t, target)
  BY <1>2, EmitCounts
<1> QED
  BY <1>1, <1>2, QuietCounts, GuardCounts DEF Next

LEMMA CountedInit == Init /\ IInv => Counted
<1> SUFFICES ASSUME Init, IInv PROVE Counted
  OBVIOUS
<1>1. Issued = {}
  BY EntryFacts DEF Init, Issued
<1>2. Pipe = {} /\ Gone = {}
  <2>1. Unflushed = <<>>
    <3>1. SubSeq(<<>>, 1, Len(<<>>)) = <<>>
      BY EmptyIsSorted
    <3> QED
      BY <3>1 DEF Init, Unflushed
  <2> QED
    BY <2>1, NoEntries DEF Init, Pipe, Gone
<1>3. Cardinality({}) = 0
  BY FS_EmptySet
<1>4. Drops = 0
  BY <1>3 DEF Init, Drops
<1> QED
  BY <1>1, <1>2, <1>3, <1>4 DEF Counted, Init, Gone

\* "Every event is in exactly one place, or counted as dropped": no batch is
\* taken up twice or given up without a trace, whatever fails and whenever the
\* process ends (dropped_count's swap, flush_batch's reports, batch.clear).
THEOREM EventsAreConserved == Spec => []Conservation
<1>1. IInv /\ Counted => Conservation
  <2> SUFFICES ASSUME IInv, Counted PROVE Conservation
    OBVIOUS
  <2>1. UNION Range(Places) = Pipe \cup Gone
    <3>1. DOMAIN Places = 1..6
      BY DEF Places
    <3>2. Range(Places) = {AppEntries(channel), AppEntries(Unflushed), AppEntries(rows), failed, lost, discarded}
      BY <3>1 DEF Places, Range
    <3> QED
      BY <3>2 DEF Pipe, Gone
  <2>2. Cardinality(Issued) =
          Cardinality(UNION Range(Places)) + Cardinality(inside) + dropped + reported
    <3>1. IsFiniteSet(Issued) /\ IsFiniteSet(inside)
      BY IssuedFinite DEF IInv
    <3>2. Cardinality(Pipe \cup Gone) \in Nat /\ Cardinality(inside) \in Nat
      BY <3>1, FS_Subset, FS_CardinalityType DEF Counted
    <3>3. dropped \in Nat /\ reported \in Nat
      BY DEF IInv, TypeOK
    <3>4. Cardinality(Issued) = Cardinality(Pipe \cup Gone) + (Cardinality(inside) + dropped + reported)
      BY DEF Counted, Drops
    <3>5. Cardinality(Issued) = Cardinality(Pipe \cup Gone) + Cardinality(inside) + dropped + reported
      BY <3>2, <3>3, <3>4
    <3> QED
      BY <2>1, <3>5
  <2>3. ASSUME NEW i \in DOMAIN Places, NEW j \in DOMAIN Places, i # j
        PROVE  Places[i] \cap Places[j] = {}
    <3>1. i \in 1..6 /\ j \in 1..6
      BY <2>3 DEF Places
    <3>2. /\ Places[1] = AppEntries(channel) /\ Places[2] = AppEntries(Unflushed)
          /\ Places[3] = AppEntries(rows)
          /\ Places[4] = failed /\ Places[5] = lost /\ Places[6] = discarded
      BY DEF Places
    <3>3. \A k \in {1, 2, 3} : Places[k] \subseteq Pipe
      BY <3>2 DEF Pipe
    <3>4. \A k \in {4, 5, 6} : Places[k] \subseteq Gone
      BY <3>2 DEF Gone
    <3>5. CASE i \in {1, 2, 3} /\ j \in {1, 2, 3}
      BY <2>3, <3>2, <3>5, PipeNow, PipeDisjoint
    <3>6. CASE i \in {4, 5, 6} /\ j \in {4, 5, 6}
      BY <2>3, <3>2, <3>6 DEF Counted
    <3>7. CASE (i \in {1, 2, 3}) # (j \in {1, 2, 3})
      BY <3>1, <3>3, <3>4, <3>7 DEF Counted
    <3> QED
      BY <3>1, <3>5, <3>6, <3>7
  <2> QED
    BY <2>2, <2>3 DEF Conservation
<1> QED
  BY <1>1, Invariance, CountedInit, CountedStep, PTL DEF Spec
=============================================================================
