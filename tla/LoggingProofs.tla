----------------------------- MODULE LoggingProofs -----------------------------
(***************************************************************************)
(* What the logging tasks publish and which files their sweeps leave, for  *)
(* any callers of init, configurations, capacities and rotations.          *)
(***************************************************************************)
EXTENDS Logging, FiniteSetTheorems, TLAPS

LogFile == [series: Series, n: Nat, mtime: Nat]
Task == [state: {"none", "waiting", "busy", "ended"}, aborted: BOOLEAN,
         channel: Seq(Nat), current: Nat \cup {None}, published: Seq(Nat),
         sweep: SUBSET LogFile]

Fields == {"pc", "cfg", "built", "handles"}

Typed ==
  /\ DOMAIN callers = Caller
  /\ \A i \in Caller : DOMAIN callers[i] = Fields /\ callers[i].cfg \in Seq(SinkConfig)
                       /\ callers[i].cfg \in Configs \cup {<<>>}
                       /\ callers[i].built \in Nat
  /\ subscriber \in Caller \cup {None}
  /\ tasks \in [Id -> Task]
  /\ logged \in Nat /\ clock \in Nat
  /\ files \subseteq LogFile
  /\ rolled \in [Series -> Nat]

\* A task runs the sink of its place, which its caller has configured for good.
Placed ==
  \A t \in Id : Exists(t) =>
    callers[t[1]].pc # "idle" /\ t[2] \in 1 .. Len(Sinks(t[1]))

\* The entries a task has published, has in hand, and has still to take: events
\* in their order, the subscriber's only.
Rising(s) == \A a, b \in 1 .. Len(s) : a < b => s[a] < s[b]
Publishing(t) == Worker(t) /\ tasks[t].state = "busy"

FlowOK(t) ==
  LET p == tasks[t].published
      c == tasks[t].channel
      e == tasks[t].current
  IN /\ Rising(p) /\ Rising(c)
     /\ \A a \in 1 .. Len(p) : p[a] <= logged /\ \A b \in 1 .. Len(c) : p[a] < c[b]
     /\ \A b \in 1 .. Len(c) : c[b] <= logged
     /\ Publishing(t) =>
          /\ e \in Nat /\ e <= logged
          /\ \A a \in 1 .. Len(p) : p[a] < e
          /\ \A b \in 1 .. Len(c) : e < c[b]
     /\ p # <<>> \/ c # <<>> \/ Publishing(t) => t[1] = subscriber

Flow == \A t \in Id : FlowOK(t)

Sweeping == \A t \in Id : tasks[t].sweep # {} => Exists(t)

\* The inductive invariant of what is published.
Published == Typed /\ Placed /\ Sweeping /\ Flow

\* The files of a series: numbered, later ones written later, and made by a sink.
Numbered ==
  /\ \A f \in files : f.n \in 1 .. rolled[f.series] /\ f.mtime <= clock
  /\ \A f, g \in files : f.series = g.series =>
       /\ f.n < g.n => f.mtime < g.mtime
       /\ f.n = g.n => f = g

FileTask(t, q) == Retention(t) /\ SeriesOf(Sink(t)) = q
Made == \A f \in files : \E t \in Id : FileTask(t, f.series)

\* What a sweep is about to remove from the series of lone sinks has been rotated
\* out of what its sink keeps.
SweepOK(t) ==
  \A f \in tasks[t].sweep : Lone(f.series) =>
    /\ t \in Sweepers(f.series)
    /\ f.n + KeepOf(Sink(t)) <= rolled[f.series]

Sweeps == \A t \in Id : SweepOK(t)

\* The inductive invariant of the files, beside the one above.
Kept == Numbered /\ Made /\ Sweeps /\ KeepsTheNewest
--------------------------------------------------------------------------------
(***************************************************************************)
(* Types, places, and what a caller and a task keep.                       *)
(***************************************************************************)
LEMMA IdShape ==
  \A t \in Id : t = <<t[1], t[2]>> /\ t[1] \in Caller /\ t[1] # None
<1> SUFFICES ASSUME NEW t \in Id PROVE t = <<t[1], t[2]>> /\ t[1] \in Caller /\ t[1] # None
  OBVIOUS
<1>1. PICK i \in Caller, k \in UNION {DOMAIN cfg : cfg \in Configs} : t = <<i, k>>
  BY DEF Id
<1> QED
  BY <1>1, LoggingAssumption DEF LoggingAssumption

LEMMA Kinds ==
  ASSUME NEW s \in SinkConfig
  PROVE  /\ s.kind = "file" => SeriesOf(s) \in Series /\ s.kind \notin Workers
                               /\ KeepOf(s) \in Nat \cup {None}
         /\ s.kind \in {"console", "file"} \cup Workers
  BY LoggingAssumption DEF SinkConfig, Workers, KeepOf, LoggingAssumption, SeriesOf, Series

LEMMA PlaceOfSink ==
  ASSUME Typed, NEW i \in Caller, NEW k \in 1 .. Len(Sinks(i))
  PROVE  <<i, k>> \in Id
<1>1. Sinks(i) \in Seq(SinkConfig) /\ Sinks(i) \in Configs \cup {<<>>}
  BY DEF Typed, Sinks
<1>2. Sinks(i) # <<>> /\ DOMAIN Sinks(i) = 1 .. Len(Sinks(i))
  BY <1>1
<1> HIDE DEF Sinks
<1> QED
  BY <1>1, <1>2 DEF Id

\* Callers stay as they are but for their progress.
CallersGoOn ==
  /\ DOMAIN callers' = Caller
  /\ \A i \in Caller :
       /\ DOMAIN callers'[i] = Fields
       /\ callers'[i].cfg = callers[i].cfg /\ callers'[i].built \in Nat
       /\ callers[i].pc # "idle" => callers'[i].pc # "idle"

LEMMA CallersSame == Typed /\ callers' = callers => CallersGoOn
  BY DEF Typed, CallersGoOn

LEMMA TypedGoesOn ==
  ASSUME Typed, Placed, CallersGoOn,
         tasks' \in [Id -> Task],
         \A t \in Id : tasks'[t].state # "none" => Exists(t),
         subscriber' \in Caller \cup {None}, logged' \in Nat, clock' \in Nat,
         files' \subseteq LogFile, rolled' \in [Series -> Nat]
  PROVE  Typed' /\ Placed'
<1>1. Typed'
  BY DEF Typed, CallersGoOn
<1>2. ASSUME NEW t \in Id, Exists(t)'
      PROVE  callers'[t[1]].pc # "idle" /\ t[2] \in 1 .. Len(callers'[t[1]].cfg)
  BY <1>2, IdShape DEF Placed, CallersGoOn, Exists, Sinks
<1> QED
  BY <1>1, <1>2 DEF Placed, Sinks

LEMMA BeginInitTyped ==
  ASSUME Typed, Placed, NEW i \in Caller, NEW cfg \in Configs, BeginInit(i, cfg)
  PROVE  Typed' /\ Placed'
<1>1. cfg \in Seq(SinkConfig)
  BY LoggingAssumption DEF LoggingAssumption
<1>2. /\ DOMAIN callers' = Caller
      /\ \A j \in Caller : /\ DOMAIN callers'[j] = Fields
                           /\ callers'[j].built = callers[j].built
                           /\ callers'[j].cfg = (IF j = i THEN cfg ELSE callers[j].cfg)
                           /\ j # i => callers'[j] = callers[j]
  BY DEF BeginInit, Typed, Fields
<1>3. Typed'
  BY <1>1, <1>2 DEF BeginInit, Typed
<1>4. ASSUME NEW t \in Id, Exists(t)'
      PROVE  callers'[t[1]].pc # "idle" /\ t[2] \in 1 .. Len(callers'[t[1]].cfg)
  <2>1. Exists(t)
    BY <1>4 DEF BeginInit, Exists
  <2>2. t[1] # i /\ t[1] \in Caller
    BY <2>1, IdShape DEF Placed, BeginInit
  <2>3. callers'[t[1]] = callers[t[1]]
    BY <1>2, <2>2
  <2> QED
    BY <2>1, <2>3 DEF Placed, Sinks
<1> QED
  BY <1>3, <1>4 DEF Placed, Sinks

LEMMA BuildSinkTasks ==
  ASSUME Typed, NEW i \in Caller, BuildSink(i), NEW t \in Id
  PROVE  tasks'[t] = tasks[t] \/ tasks'[t] = [tasks[t] EXCEPT !.state = "waiting"]
<1>1. \/ tasks' = tasks
      \/ \E k : tasks' = [tasks EXCEPT ![<<i, k>>].state = "waiting"]
  BY DEF BuildSink
<1>2. ASSUME NEW k, tasks' = [tasks EXCEPT ![<<i, k>>].state = "waiting"]
      PROVE  tasks'[t] = tasks[t] \/ tasks'[t] = [tasks[t] EXCEPT !.state = "waiting"]
  <2>1. tasks' = [tasks EXCEPT ![<<i, k>>] = [tasks[<<i, k>>] EXCEPT !.state = "waiting"]]
    BY <1>2
  <2> QED
    BY <2>1 DEF Typed
<1> QED
  BY <1>1, <1>2

\* A period is a number, the newest file's or the next one.
LEMMA Periods ==
  ASSUME Typed, NEW q \in Series, NEW n \in Period(q)
  PROVE  /\ n \in Nat /\ n >= 1 /\ rolled[q] \in Nat
         /\ n = rolled[q] \/ n = rolled[q] + 1
BY DEF Typed, Period

LEMMA OpenTyped ==
  ASSUME Typed, NEW q \in Series, NEW n \in Period(q), Open(q, n)
  PROVE  files' \subseteq LogFile /\ rolled' \in [Series -> Nat] /\ clock' \in Nat
<1>1. n \in Nat
  BY Periods
<1>2. rolled' \in [Series -> Nat]
  BY <1>1 DEF Open, Typed
<1>3. CASE UNCHANGED <<files, clock>>
  BY <1>2, <1>3 DEF Typed
<1>4. CASE clock' = clock + 1
           /\ files' = files \cup {[series |-> q, n |-> n, mtime |-> clock']}
  <2>1. clock' \in Nat
    BY <1>4 DEF Typed
  <2>2. [series |-> q, n |-> n, mtime |-> clock'] \in LogFile
    BY <1>1, <2>1 DEF LogFile
  <2> QED
    BY <1>2, <1>4, <2>1, <2>2 DEF Typed
<1> QED
  BY <1>3, <1>4 DEF Open

LEMMA BuildSinkTyped ==
  ASSUME Typed, Placed, NEW i \in Caller, BuildSink(i)
  PROVE  Typed' /\ Placed' /\ CallersGoOn
<1> DEFINE k == callers[i].built + 1
           s == Sinks(i)[k]
<1>1. /\ callers[i].pc = "building" /\ k \in 1 .. Len(Sinks(i)) /\ s \in SinkConfig
      /\ UNCHANGED <<subscriber, logged>>
  BY DEF BuildSink, Typed, Sinks
<1>2. CallersGoOn /\ callers'[i].pc # "idle"
  BY <1>1 DEF BuildSink, Typed, CallersGoOn, Fields
<1>3. /\ tasks' \in [Id -> Task]
      /\ \A t \in Id : tasks'[t].state # "none" => Exists(t) \/ t = <<i, k>>
  <2>1. CASE s.ok /\ s.kind # "console"
    <3>1. tasks' = [tasks EXCEPT ![<<i, k>>].state = "waiting"]
      BY <2>1 DEF BuildSink
    <3> QED
      BY <3>1 DEF Typed, Task, Exists
  <2>2. CASE ~(s.ok /\ s.kind # "console")
    <3>1. tasks' = tasks
      BY <2>2 DEF BuildSink
    <3> QED
      BY <3>1 DEF Typed, Exists
  <2> QED
    BY <2>1, <2>2
<1>4. files' \subseteq LogFile /\ rolled' \in [Series -> Nat] /\ clock' \in Nat
  <2>1. CASE s.ok /\ s.kind = "file"
    <3>1. SeriesOf(s) \in Series
      BY <1>1, <2>1, Kinds
    <3>2. PICK n \in Period(SeriesOf(s)) : Open(SeriesOf(s), n)
      BY <2>1 DEF BuildSink
    <3> QED
      BY <3>1, <3>2, OpenTyped
  <2>2. CASE ~(s.ok /\ s.kind = "file")
    <3>1. files' = files /\ rolled' = rolled /\ clock' = clock
      BY <2>2 DEF BuildSink
    <3> QED
      BY <3>1 DEF Typed
  <2> QED
    BY <2>1, <2>2
<1>5. Typed'
  BY <1>1, <1>2, <1>3, <1>4 DEF Typed, CallersGoOn
<1>6. ASSUME NEW t \in Id, Exists(t)'
      PROVE  callers'[t[1]].pc # "idle" /\ t[2] \in 1 .. Len(callers'[t[1]].cfg)
  <2>1. CASE Exists(t)
    BY <1>2, <2>1, IdShape DEF Placed, CallersGoOn, Sinks
  <2>2. CASE t = <<i, k>>
    BY <1>1, <1>2, <2>2 DEF CallersGoOn, Sinks
  <2> QED
    BY <1>3, <1>6, <2>1, <2>2 DEF Exists
<1> QED
  BY <1>2, <1>5, <1>6 DEF Placed, Sinks

\* A step of one task types it, and brings no other into being.
LEMMA OneTask ==
  ASSUME Typed, NEW t \in Id, NEW new \in Task, Exists(t),
         tasks' = [tasks EXCEPT ![t] = new]
  PROVE  tasks' \in [Id -> Task] /\ \A u \in Id : tasks'[u].state # "none" => Exists(u)
BY DEF Typed, Exists

LEMMA WorkTyped ==
  ASSUME Typed, Placed, Flow, NEW t \in Id, Work(t)
  PROVE  Typed' /\ Placed' /\ CallersGoOn
<1>1. Exists(t) /\ UNCHANGED <<callers, subscriber, logged, files, rolled, clock>>
  BY DEF Work, Receive, Publish, ReturnFromLoop, Cancelled, Worker, Alive, Exists
<1>2. tasks[t] \in Task
  BY DEF Typed
<1>3. PICK new \in Task : tasks' = [tasks EXCEPT ![t] = new]
  <2>1. CASE Receive(t)
    <3> DEFINE new == [tasks[t] EXCEPT !.state = "busy", !.current = Head(tasks[t].channel),
                                       !.channel = Tail(@)]
    <3>1. tasks' = [tasks EXCEPT ![t] = new]
      BY <2>1, <1>2 DEF Receive, Typed
    <3>2. tasks[t].channel \in Seq(Nat) /\ tasks[t].channel # <<>>
      BY <2>1, <1>2 DEF Receive, Task
    <3>3. Head(tasks[t].channel) \in Nat /\ Tail(tasks[t].channel) \in Seq(Nat)
      BY <3>2
    <3>4. new \in Task
      BY <1>2, <3>3 DEF Task
    <3> QED
      BY <3>1, <3>4
  <2>2. CASE Publish(t)
    <3>1. PICK published \in BOOLEAN : tasks' = [tasks EXCEPT ![t] = Taken(tasks[t], published)]
      BY <2>2, <1>2 DEF Publish, Typed
    <3>2. tasks[t].current \in Nat
      BY <2>2 DEF Publish, Flow, FlowOK, Publishing
    <3>3. Append(tasks[t].published, tasks[t].current) \in Seq(Nat)
      BY <1>2, <3>2 DEF Task
    <3> DEFINE new == Taken(tasks[t], published)
    <3>4. new \in Task
      <4>1. CASE published
        <5>1. new = [tasks[t] EXCEPT !.state = "waiting", !.current = None,
                       !.published = Append(tasks[t].published, tasks[t].current)]
          BY <4>1 DEF Taken
        <5> QED
          BY <1>2, <3>3, <5>1 DEF Task
      <4>2. CASE ~published
        <5>1. new = [tasks[t] EXCEPT !.state = "waiting", !.current = None,
                       !.published = tasks[t].published]
          BY <4>2 DEF Taken
        <5> QED
          BY <1>2, <5>1 DEF Task
      <4> QED
        BY <4>1, <4>2
    <3> QED
      BY <3>1, <3>4
  <2>3. CASE ReturnFromLoop(t)
    <3>1. [tasks[t] EXCEPT !.state = "ended"] \in Task
      BY <1>2 DEF Task
    <3> QED
      BY <2>3, <3>1 DEF ReturnFromLoop, Typed
  <2>4. CASE Cancelled(t)
    <3>1. <<>> \in Seq(Nat)
      OBVIOUS
    <3>2. [tasks[t] EXCEPT !.state = "ended", !.current = None, !.channel = <<>>] \in Task
      BY <1>2, <3>1 DEF Task
    <3> QED
      BY <2>4, <3>2 DEF Cancelled, Typed
  <2> QED
    BY <2>1, <2>2, <2>3, <2>4 DEF Work
<1>4. tasks' \in [Id -> Task] /\ \A u \in Id : tasks'[u].state # "none" => Exists(u)
  BY <1>1, <1>3, OneTask
<1>5. CallersGoOn
  BY <1>1, CallersSame
<1> QED
  BY <1>1, <1>4, <1>5, TypedGoesOn DEF Typed

LEMMA SweepTyped ==
  ASSUME Typed, Placed, NEW t \in Id, BeginSweep(t) \/ RemoveFile(t) \/ EndSweep(t), Sweeping
  PROVE  Typed' /\ Placed' /\ CallersGoOn
<1>1. Exists(t) /\ UNCHANGED <<callers, subscriber, logged, rolled, clock>>
  BY DEF BeginSweep, RemoveFile, EndSweep, Retention, Sweeping
<1>2. tasks[t] \in Task
  BY DEF Typed
<1>3. PICK new \in Task : tasks' = [tasks EXCEPT ![t] = new]
  <2>1. CASE BeginSweep(t)
    <3> DEFINE excess == Excess(Sink(t).prefix, KeepOf(Sink(t)))
    <3>1. excess \subseteq LogFile
      BY DEF Excess, Typed
    <3>2. [tasks[t] EXCEPT !.state = "busy", !.sweep = excess] \in Task
      BY <1>2, <3>1 DEF Task
    <3> QED
      BY <2>1, <3>2 DEF BeginSweep, Typed
  <2>2. CASE RemoveFile(t)
    <3>1. PICK f \in tasks[t].sweep : tasks' = [tasks EXCEPT ![t].sweep = @ \ {f}]
      BY <2>2 DEF RemoveFile
    <3>2. [tasks[t] EXCEPT !.sweep = @ \ {f}] \in Task
      BY <1>2 DEF Task
    <3> QED
      BY <3>1, <3>2 DEF Typed
  <2>3. CASE EndSweep(t)
    <3>1. [tasks[t] EXCEPT !.state = "waiting"] \in Task
      BY <1>2 DEF Task
    <3> QED
      BY <2>3, <3>1 DEF EndSweep, Typed
  <2> QED
    BY <2>1, <2>2, <2>3
<1>4. tasks' \in [Id -> Task] /\ \A u \in Id : tasks'[u].state # "none" => Exists(u)
  BY <1>1, <1>3, OneTask
<1>5. CallersGoOn
  BY <1>1, CallersSame
<1>6. files' \subseteq LogFile
  BY DEF BeginSweep, RemoveFile, EndSweep, Typed
<1> QED
  BY <1>1, <1>4, <1>5, <1>6, TypedGoesOn DEF Typed

LEMMA RegisterTyped ==
  ASSUME Typed, Placed, NEW i \in Caller, Register(i)
  PROVE  Typed' /\ Placed' /\ CallersGoOn
<1>1. CallersGoOn
  BY DEF Register, Typed, CallersGoOn, Fields
<1>2. /\ subscriber' \in Caller \cup {None}
      /\ UNCHANGED <<tasks, logged, files, rolled, clock>>
  BY DEF Register, Typed
<1> QED
  BY <1>1, <1>2, TypedGoesOn DEF Typed, Exists

LEMMA LogTyped ==
  ASSUME Typed, Placed, Log
  PROVE  Typed' /\ Placed' /\ CallersGoOn
<1>1. UNCHANGED <<callers, subscriber, files, rolled, clock>> /\ logged' \in Nat
  BY DEF Log, Typed
<1>2. PICK passed \in SUBSET Of(subscriber, {"queue"}) :
        tasks' = [t \in Id |->
          IF t \in passed /\ Alive(t) /\ Len(tasks[t].channel) < Capacity
          THEN [tasks[t] EXCEPT !.channel = Append(@, logged')] ELSE tasks[t]]
  BY DEF Log
<1>3. ASSUME NEW t \in Id
      PROVE  /\ [tasks[t] EXCEPT !.channel = Append(@, logged')] \in Task
             /\ tasks[t] \in Task
             /\ [tasks[t] EXCEPT !.channel = Append(@, logged')].state = tasks[t].state
  <2>1. tasks[t] \in Task
    BY DEF Typed
  <2>2. Append(tasks[t].channel, logged') \in Seq(Nat)
    BY <1>1, <2>1 DEF Task
  <2> QED
    BY <2>1, <2>2 DEF Task
<1>4. tasks' \in [Id -> Task] /\ \A u \in Id : tasks'[u].state # "none" => Exists(u)
  BY <1>2, <1>3 DEF Exists
<1>5. CallersGoOn
  BY <1>1, CallersSame
<1> QED
  BY <1>1, <1>4, <1>5, TypedGoesOn DEF Typed

LEMMA WriteTyped ==
  ASSUME Typed, Placed, NEW t \in Id, Write(t)
  PROVE  Typed' /\ Placed' /\ CallersGoOn
<1> DEFINE q == SeriesOf(Sink(t))
<1>1. UNCHANGED <<callers, subscriber, tasks, logged>> /\ clock' \in Nat
  BY DEF Write, WriteTo, Typed
<1>2. Exists(t) /\ Sink(t).kind = "file"
  BY DEF Write, Of
<1>3. Sink(t) \in SinkConfig
  BY <1>2, IdShape DEF Placed, Typed, Sink, Sinks
<1>4. q \in Series
  BY <1>2, <1>3, Kinds
<1> HIDE DEF q
<1>5. PICK n \in Period(q) : WriteTo(q, n)
  BY DEF Write, q
<1>6. n \in Nat /\ rolled' \in [Series -> Nat]
  BY <1>4, <1>5, Periods DEF WriteTo, Typed
<1>7. files' \subseteq LogFile
  <2>1. \A f \in files : [f EXCEPT !.mtime = clock'] \in LogFile /\ f \in LogFile
    BY <1>1 DEF Typed, LogFile
  <2>2. [series |-> q, n |-> n, mtime |-> clock'] \in LogFile
    BY <1>1, <1>4, <1>6 DEF LogFile
  <2> QED
    BY <1>5, <2>1, <2>2 DEF WriteTo
<1>8. CallersGoOn
  BY <1>1, CallersSame
<1> QED
  BY <1>1, <1>6, <1>7, <1>8, TypedGoesOn DEF Typed, Exists

LEMMA AbortedTyped ==
  ASSUME Typed, NEW ids, tasks' = Aborted(ids)
  PROVE  /\ tasks' \in [Id -> Task]
         /\ \A t \in Id : \A field \in {"state", "channel", "current", "published", "sweep"} :
              tasks'[t][field] = tasks[t][field]
BY DEF Typed, Aborted, Task

\* A guard that is dropped, and one that waits, only abort tasks.
LEMMA GuardTyped ==
  ASSUME Typed, Placed, NEW i \in Caller,
         Await(i) \/ \E multiThread \in BOOLEAN : DropGuard(i, multiThread)
  PROVE  /\ Typed' /\ Placed' /\ CallersGoOn
         /\ \A t \in Id : \A field \in {"state", "channel", "current", "published", "sweep"} :
              tasks'[t][field] = tasks[t][field]
<1>1. CallersGoOn
  <2>1. CASE Await(i)
    <3> DEFINE rest == Tail(callers[i].handles)
    <3>1. callers' = [callers EXCEPT ![i].handles = rest,
                                     ![i].pc = IF rest = <<>> THEN "dropped" ELSE @]
      BY <2>1 DEF Await
    <3>2. callers[i].pc = "dropping"
      BY <2>1 DEF Await
    <3> HIDE DEF rest
    <3> QED
      BY <3>1, <3>2 DEF Typed, CallersGoOn, Fields
  <2>2. ASSUME NEW multiThread \in BOOLEAN, DropGuard(i, multiThread)
        PROVE  CallersGoOn
    <3> DEFINE wait == multiThread /\ Handles(i) # <<>>
               handles == IF wait THEN Handles(i) ELSE <<>>
    <3>1. callers' = [callers EXCEPT ![i].pc = IF wait THEN "dropping" ELSE "dropped",
                                     ![i].handles = handles]
      BY <2>2 DEF DropGuard
    <3> HIDE DEF wait, handles
    <3> QED
      BY <3>1 DEF Typed, CallersGoOn, Fields
  <2> QED
    BY <2>1, <2>2
<1>2. /\ tasks' = tasks \/ \E ids : tasks' = Aborted(ids)
      /\ UNCHANGED <<subscriber, logged, files, rolled, clock>>
  <2>1. CASE Await(i)
    <3>1. tasks' = IF Alive(Head(callers[i].handles))
                   THEN Aborted(Overdue(Head(callers[i].handles))) ELSE tasks
      BY <2>1 DEF Await
    <3> QED
      BY <2>1, <3>1 DEF Await
  <2>2. ASSUME NEW multiThread \in BOOLEAN, DropGuard(i, multiThread)
        PROVE  <1>2!1 /\ <1>2!2
    <3> DEFINE ids == Of(i, IF multiThread /\ Handles(i) # <<>>
                            THEN {"file"} ELSE {"file"} \cup Workers)
    <3>1. tasks' = Aborted(ids)
      BY <2>2 DEF DropGuard
    <3> QED
      BY <2>2, <3>1 DEF DropGuard
  <2> QED
    BY <2>1, <2>2
<1>3. /\ tasks' \in [Id -> Task]
      /\ \A t \in Id : \A field \in {"state", "channel", "current", "published", "sweep"} :
              tasks'[t][field] = tasks[t][field]
  <2>1. CASE tasks' = tasks
    BY <2>1 DEF Typed
  <2>2. CASE \E ids : tasks' = Aborted(ids)
    BY <2>2, AbortedTyped
  <2> QED
    BY <1>2, <2>1, <2>2
<1>4. \A t \in Id : tasks'[t].state # "none" => Exists(t)
  BY <1>3 DEF Exists
<1> QED
  BY <1>1, <1>2, <1>3, <1>4, TypedGoesOn DEF Typed

\* A task that exists goes on existing, and so does its sink's configuration.
Lasting == \A t \in Id : Exists(t) => Exists(t)' /\ Sink(t)' = Sink(t)

LEMMA StepTyped ==
  ASSUME Typed, Placed, Flow, Sweeping, [Next]_vars
  PROVE  Typed' /\ Placed'
<1>1. CASE UNCHANGED vars
  BY <1>1 DEF vars, Typed, Placed, Exists, Sinks
<1>2. ASSUME NEW i \in Caller, NEW cfg \in Configs, BeginInit(i, cfg)
      PROVE  Typed' /\ Placed'
  BY <1>2, BeginInitTyped
<1>3. ASSUME NEW i \in Caller, BuildSink(i) \/ Register(i)
      PROVE  Typed' /\ Placed'
  BY <1>3, BuildSinkTyped, RegisterTyped
<1>4. ASSUME NEW i \in Caller,
             Await(i) \/ \E multiThread \in BOOLEAN : DropGuard(i, multiThread)
      PROVE  Typed' /\ Placed'
  BY <1>4, GuardTyped
<1>5. CASE Log
  BY <1>5, LogTyped
<1>6. ASSUME NEW t \in Id, Work(t)
      PROVE  Typed' /\ Placed'
  BY <1>6, WorkTyped
<1>7. ASSUME NEW t \in Id, BeginSweep(t) \/ RemoveFile(t) \/ EndSweep(t)
      PROVE  Typed' /\ Placed'
  BY <1>7, SweepTyped
<1>8. ASSUME NEW t \in Id, Write(t)
      PROVE  Typed' /\ Placed'
  BY <1>8, WriteTyped
<1> QED
  BY <1>1, <1>2, <1>3, <1>4, <1>5, <1>6, <1>7, <1>8 DEF Next

LEMMA StepLasts ==
  ASSUME Typed, Placed, Flow, Sweeping, [Next]_vars
  PROVE  Lasting
<1> SUFFICES ASSUME NEW t \in Id, Exists(t) PROVE Exists(t)' /\ Sink(t)' = Sink(t)
  BY DEF Lasting
<1>1. t[1] \in Caller /\ callers[t[1]].pc # "idle"
  BY IdShape DEF Placed
<1>2. CallersGoOn => Sink(t)' = Sink(t)
  BY <1>1 DEF CallersGoOn, Sink, Sinks
<1>3. CASE UNCHANGED vars
  BY <1>3 DEF vars, Exists, Sink, Sinks
<1>4. ASSUME NEW i \in Caller, NEW cfg \in Configs, BeginInit(i, cfg)
      PROVE  Exists(t)' /\ Sink(t)' = Sink(t)
  BY <1>1, <1>4 DEF BeginInit, Exists, Sink, Sinks, Typed
<1>5. ASSUME NEW i \in Caller, BuildSink(i)
      PROVE  Exists(t)' /\ Sink(t)' = Sink(t)
  <2>1. tasks'[t] = tasks[t] \/ tasks'[t] = [tasks[t] EXCEPT !.state = "waiting"]
    BY <1>5, BuildSinkTasks
  <2>2. Exists(t)'
    BY <2>1 DEF Exists, Typed, Task
  <2> QED
    BY <1>2, <1>5, <2>2, BuildSinkTyped
<1>6. ASSUME NEW i \in Caller, Register(i)
      PROVE  Exists(t)' /\ Sink(t)' = Sink(t)
  BY <1>2, <1>6, RegisterTyped DEF Register, Exists
<1>7. ASSUME NEW i \in Caller,
             Await(i) \/ \E multiThread \in BOOLEAN : DropGuard(i, multiThread)
      PROVE  Exists(t)' /\ Sink(t)' = Sink(t)
  BY <1>2, <1>7, GuardTyped DEF Exists
<1>8. CASE Log
  <2>1. tasks'[t].state = tasks[t].state
    BY <1>8 DEF Log, Typed, Task
  <2> QED
    BY <1>2, <1>8, <2>1, LogTyped DEF Exists
<1>9. ASSUME NEW u \in Id, Work(u)
      PROVE  Exists(t)' /\ Sink(t)' = Sink(t)
  <2>1. tasks'[t].state = tasks[t].state \/ tasks'[t].state \in {"busy", "waiting", "ended"}
    <3>1. CASE Receive(u)
      BY <3>1 DEF Receive, Typed, Task
    <3>2. CASE Publish(u)
      BY <3>2 DEF Publish, Taken, Typed, Task
    <3>3. CASE ReturnFromLoop(u)
      BY <3>3 DEF ReturnFromLoop, Typed, Task
    <3>4. CASE Cancelled(u)
      BY <3>4 DEF Cancelled, Typed, Task
    <3> QED
      BY <1>9, <3>1, <3>2, <3>3, <3>4 DEF Work
  <2> QED
    BY <1>2, <1>9, <2>1, WorkTyped DEF Exists
<1>10. ASSUME NEW u \in Id, BeginSweep(u) \/ RemoveFile(u) \/ EndSweep(u)
       PROVE  Exists(t)' /\ Sink(t)' = Sink(t)
  <2>1. tasks'[t].state = tasks[t].state \/ tasks'[t].state \in {"busy", "waiting"}
    <3>1. CASE BeginSweep(u)
      BY <3>1 DEF BeginSweep, Typed, Task
    <3>2. CASE RemoveFile(u)
      BY <3>2 DEF RemoveFile, Typed, Task
    <3>3. CASE EndSweep(u)
      BY <3>3 DEF EndSweep, Typed, Task
    <3> QED
      BY <1>10, <3>1, <3>2, <3>3
  <2> QED
    BY <1>2, <1>10, <2>1, SweepTyped DEF Exists
<1>11. ASSUME NEW u \in Id, Write(u)
       PROVE  Exists(t)' /\ Sink(t)' = Sink(t)
  BY <1>2, <1>11, WriteTyped DEF Write, Exists
<1> QED
  BY <1>3, <1>4, <1>5, <1>6, <1>7, <1>8, <1>9, <1>10, <1>11 DEF Next
--------------------------------------------------------------------------------
(***************************************************************************)
(* PublishedInOrder: the flow of a queue sink's entries.                   *)
(***************************************************************************)
\* A step that leaves the flow of a task alone, whatever is logged elsewhere.
QuietFor(t) ==
  /\ tasks'[t].published = tasks[t].published
  /\ tasks'[t].channel = tasks[t].channel
  /\ tasks'[t].current = tasks[t].current
  /\ tasks'[t].state = "busy" => tasks[t].state = "busy" \/ ~Worker(t)'
  /\ logged' >= logged
  /\ subscriber' = subscriber \/ subscriber = None

LEMMA QuietFlow ==
  ASSUME Typed, Typed', Lasting, NEW t \in Id, FlowOK(t), QuietFor(t)
  PROVE  FlowOK(t)'
<1>1. Publishing(t)' => Publishing(t)
  BY DEF Publishing, QuietFor, Worker, Lasting, Exists
<1>2. logged \in Nat /\ logged' \in Nat /\ logged <= logged' /\ tasks[t] \in Task
  BY DEF Typed, QuietFor
<1>3. tasks[t].published \in Seq(Nat) /\ tasks[t].channel \in Seq(Nat)
  BY <1>2 DEF Task
<1>4. t[1] # None
  BY IdShape
<1> DEFINE p == tasks[t].published
           c == tasks[t].channel
           e == tasks[t].current
<1>5. p # <<>> \/ c # <<>> \/ Publishing(t)' => t[1] = subscriber'
  BY <1>1, <1>4 DEF FlowOK, QuietFor
<1>6. /\ Rising(p) /\ Rising(c)
      /\ \A a \in 1 .. Len(p) : p[a] <= logged' /\ \A b \in 1 .. Len(c) : p[a] < c[b]
      /\ \A b \in 1 .. Len(c) : c[b] <= logged'
  BY <1>2, <1>3 DEF FlowOK
<1>7. Publishing(t)' => /\ e \in Nat /\ e <= logged'
                        /\ \A a \in 1 .. Len(p) : p[a] < e
                        /\ \A b \in 1 .. Len(c) : e < c[b]
  BY <1>1, <1>2 DEF FlowOK
<1>8. tasks'[t].published = p /\ tasks'[t].channel = c /\ tasks'[t].current = e
  BY DEF QuietFor
<1> HIDE DEF p, c, e
<1> QED
  BY <1>5, <1>6, <1>7, <1>8 DEF FlowOK, Rising

LEMMA LogFlow ==
  ASSUME Typed, Typed', Lasting, Log, NEW t \in Id, FlowOK(t)
  PROVE  FlowOK(t)'
<1>1. PICK passed \in SUBSET Of(subscriber, {"queue"}) :
        tasks' = [u \in Id |->
          IF u \in passed /\ Alive(u) /\ Len(tasks[u].channel) < Capacity
          THEN [tasks[u] EXCEPT !.channel = Append(@, logged')] ELSE tasks[u]]
  BY DEF Log
<1>2. logged \in Nat /\ logged' = logged + 1 /\ subscriber' = subscriber /\ tasks[t] \in Task
  BY DEF Log, Typed
<1>3. CASE ~(t \in passed /\ Alive(t) /\ Len(tasks[t].channel) < Capacity)
  <2>1. tasks'[t] = tasks[t]
    BY <1>1, <1>3
  <2> QED
    BY <1>2, <2>1, QuietFlow DEF QuietFor
<1>4. CASE t \in passed /\ Alive(t) /\ Len(tasks[t].channel) < Capacity
  <2> DEFINE p == tasks[t].published
             c == tasks[t].channel
             e == tasks[t].current
             d == Append(c, logged + 1)
  <2>1. tasks'[t] = [tasks[t] EXCEPT !.channel = d]
    BY <1>1, <1>2, <1>4
  <2>2. t[1] = subscriber'
    BY <1>2, <1>4 DEF Of
  <2>3. /\ tasks'[t].published = p /\ tasks'[t].channel = d /\ tasks'[t].current = e
        /\ tasks'[t].state = tasks[t].state
    BY <1>2, <2>1 DEF Task
  <2>4. Publishing(t)' => Publishing(t)
    BY <2>3 DEF Publishing, Worker, Lasting, Exists
  <2>5. c \in Seq(Nat) /\ p \in Seq(Nat)
    BY <1>2 DEF Task
  <2>6. /\ Len(d) = Len(c) + 1 /\ d[Len(c) + 1] = logged + 1
        /\ \A b \in 1 .. Len(c) : d[b] = c[b]
    BY <1>2, <2>5
  <2>7. \A b \in 1 .. Len(c) : c[b] \in Nat /\ c[b] <= logged
    <3>1. \A b \in 1 .. Len(c) : c[b] <= logged
      BY DEF FlowOK
    <3> HIDE DEF c
    <3>2. \A b \in 1 .. Len(c) : c[b] \in Nat
      BY <2>5
    <3> QED
      BY <3>1, <3>2
  <2>8. \A a \in 1 .. Len(p) : p[a] \in Nat /\ p[a] <= logged
                                /\ \A b \in 1 .. Len(c) : p[a] < c[b]
    <3>1. \A a \in 1 .. Len(p) : p[a] <= logged /\ \A b \in 1 .. Len(c) : p[a] < c[b]
      BY DEF FlowOK
    <3> HIDE DEF p, c
    <3>2. \A a \in 1 .. Len(p) : p[a] \in Nat
      BY <2>5
    <3> QED
      BY <3>1, <3>2
  <2>9. Publishing(t) => /\ e \in Nat /\ e <= logged
                         /\ \A a \in 1 .. Len(p) : p[a] < e
                         /\ \A b \in 1 .. Len(c) : e < c[b]
    BY DEF FlowOK
  <2>10. Rising(p) /\ Rising(c)
    BY DEF FlowOK
  <2> HIDE DEF p, c, e, d
  <2>11. Len(c) \in Nat
    BY <2>5
  <2>12. \A b \in 1 .. Len(d) : b \in 1 .. Len(c) \/ b = Len(c) + 1
    BY <2>6, <2>11
  <2>13. Rising(d)
    BY <1>2, <2>6, <2>7, <2>10, <2>11, <2>12 DEF Rising
  <2>14. \A b \in 1 .. Len(d) : d[b] <= logged'
    BY <1>2, <2>6, <2>7, <2>12
  <2>15. \A a \in 1 .. Len(p) : p[a] <= logged' /\ \A b \in 1 .. Len(d) : p[a] < d[b]
    BY <1>2, <2>6, <2>8, <2>12
  <2>16. Publishing(t)' => /\ e \in Nat /\ e <= logged'
                           /\ \A a \in 1 .. Len(p) : p[a] < e
                           /\ \A b \in 1 .. Len(d) : e < d[b]
    BY <1>2, <2>4, <2>6, <2>9, <2>12
  <2> QED
    BY <2>2, <2>3, <2>10, <2>13, <2>14, <2>15, <2>16 DEF FlowOK, Rising
<1> QED
  BY <1>3, <1>4

LEMMA ReceiveFlow ==
  ASSUME Typed, NEW t \in Id, FlowOK(t), Receive(t)
  PROVE  FlowOK(t)'
<1> DEFINE p == tasks[t].published
           c == tasks[t].channel
           d == Tail(c)
           e == Head(c)
<1>1. tasks[t] \in Task /\ c \in Seq(Nat) /\ p \in Seq(Nat) /\ c # <<>>
  BY DEF Receive, Typed, Task
<1>2. /\ tasks'[t].published = p /\ tasks'[t].channel = d /\ tasks'[t].current = e
      /\ subscriber' = subscriber /\ logged' = logged
  BY <1>1 DEF Receive, Typed, Task
<1>3. /\ Len(c) \in Nat \ {0} /\ e = c[1] /\ Len(d) = Len(c) - 1
      /\ \A b \in 1 .. Len(d) : b + 1 \in 1 .. Len(c) /\ d[b] = c[b + 1]
  BY <1>1
<1>4. \A b \in 1 .. Len(c) : c[b] \in Nat /\ c[b] <= logged
  BY <1>1 DEF FlowOK
<1>5. \A a \in 1 .. Len(p) : p[a] <= logged /\ \A b \in 1 .. Len(c) : p[a] < c[b]
  BY DEF FlowOK
<1>6. Rising(p) /\ Rising(c) /\ t[1] = subscriber
  BY <1>1 DEF FlowOK
<1> HIDE DEF p, c, d, e
<1>7. 1 \in 1 .. Len(c) /\ Len(d) \in Nat
  BY <1>3
<1>8. Rising(d) /\ \A b \in 1 .. Len(d) : e < d[b]
  BY <1>3, <1>6, <1>7 DEF Rising
<1>9. \A b \in 1 .. Len(d) : d[b] <= logged
  BY <1>3, <1>4
<1>10. \A a \in 1 .. Len(p) : p[a] <= logged /\ \A b \in 1 .. Len(d) : p[a] < d[b]
  BY <1>3, <1>5
<1>11. e \in Nat /\ e <= logged /\ \A a \in 1 .. Len(p) : p[a] < e
  BY <1>3, <1>4, <1>5, <1>7
<1> QED
  BY <1>2, <1>6, <1>8, <1>9, <1>10, <1>11 DEF FlowOK, Rising

LEMMA PublishFlow ==
  ASSUME Typed, NEW t \in Id, FlowOK(t), Publish(t)
  PROVE  FlowOK(t)'
<1>1. PICK published \in BOOLEAN : tasks'[t] = Taken(tasks[t], published)
  BY DEF Publish, Typed
<1> DEFINE p == tasks[t].published
           c == tasks[t].channel
           e == tasks[t].current
           q == IF published THEN Append(p, e) ELSE p
<1>2. tasks[t] \in Task /\ c \in Seq(Nat) /\ p \in Seq(Nat) /\ Publishing(t)
  BY DEF Publish, Publishing, Typed, Task
<1>3. /\ tasks'[t].published = q /\ tasks'[t].channel = c /\ tasks'[t].state = "waiting"
      /\ subscriber' = subscriber /\ logged' = logged
  BY <1>1, <1>2 DEF Publish, Taken, Task
<1>4. /\ t[1] = subscriber /\ Rising(p) /\ Rising(c)
      /\ e \in Nat /\ e <= logged
      /\ \A a \in 1 .. Len(p) : p[a] < e
      /\ \A b \in 1 .. Len(c) : e < c[b] /\ c[b] <= logged
      /\ \A a \in 1 .. Len(p) : p[a] <= logged /\ \A b \in 1 .. Len(c) : p[a] < c[b]
  BY <1>2 DEF FlowOK
<1>5. CASE ~published
  BY <1>3, <1>4, <1>5 DEF FlowOK, Rising, Publishing
<1>6. CASE published
  <2>1. /\ Len(q) = Len(p) + 1 /\ q[Len(p) + 1] = e
        /\ \A a \in 1 .. Len(p) : q[a] = p[a]
    BY <1>2, <1>4, <1>6
  <2>2. Len(p) \in Nat
    BY <1>2
  <2> HIDE DEF p, q, c, e
  <2>3. \A a \in 1 .. Len(q) : a \in 1 .. Len(p) \/ a = Len(p) + 1
    BY <2>1, <2>2
  <2>4. Rising(q)
    BY <1>4, <2>1, <2>2, <2>3 DEF Rising
  <2>5. \A a \in 1 .. Len(q) : q[a] <= logged /\ \A b \in 1 .. Len(c) : q[a] < c[b]
    BY <1>4, <2>1, <2>3
  <2> QED
    BY <1>3, <1>4, <2>4, <2>5 DEF FlowOK, Rising, Publishing
<1> QED
  BY <1>5, <1>6

LEMMA CancelledFlow ==
  ASSUME Typed, NEW t \in Id, FlowOK(t), Cancelled(t)
  PROVE  FlowOK(t)'
<1>1. tasks[t] \in Task
  BY DEF Typed
<1>2. /\ tasks'[t].published = tasks[t].published /\ tasks'[t].channel = <<>>
      /\ tasks'[t].state = "ended"
      /\ subscriber' = subscriber /\ logged' = logged
  BY <1>1 DEF Cancelled, Typed, Task
<1> QED
  BY <1>2 DEF FlowOK, Rising, Publishing

LEMMA StepFlow ==
  ASSUME Typed, Placed, Flow, Sweeping, [Next]_vars, Typed', Lasting
  PROVE  Flow'
<1> SUFFICES ASSUME NEW t \in Id PROVE FlowOK(t)'
  BY DEF Flow
<1>1. FlowOK(t) /\ tasks[t] \in Task /\ logged \in Nat
  BY DEF Flow, Typed
<1>2. QuietFor(t) => FlowOK(t)'
  BY <1>1, QuietFlow
<1>3. CASE UNCHANGED vars
  BY <1>1, <1>2, <1>3 DEF vars, QuietFor
<1>4. ASSUME NEW i \in Caller, NEW cfg \in Configs, BeginInit(i, cfg)
      PROVE  QuietFor(t)
  BY <1>1, <1>4 DEF BeginInit, QuietFor
<1>5. ASSUME NEW i \in Caller, BuildSink(i)
      PROVE  QuietFor(t)
  <2>1. tasks'[t] = tasks[t] \/ tasks'[t] = [tasks[t] EXCEPT !.state = "waiting"]
    BY <1>5, BuildSinkTasks
  <2>2. subscriber' = subscriber /\ logged' = logged
    BY <1>5 DEF BuildSink
  <2> QED
    BY <1>1, <2>1, <2>2 DEF QuietFor, Task
<1>6. ASSUME NEW i \in Caller, Register(i)
      PROVE  QuietFor(t)
  BY <1>1, <1>6 DEF Register, MayRegister, QuietFor
<1>7. ASSUME NEW i \in Caller,
             Await(i) \/ \E multiThread \in BOOLEAN : DropGuard(i, multiThread)
      PROVE  QuietFor(t)
  <2>1. subscriber' = subscriber /\ logged' = logged
    BY <1>7 DEF Await, DropGuard
  <2>2. \A field \in {"state", "channel", "current", "published", "sweep"} :
          tasks'[t][field] = tasks[t][field]
    BY <1>7, GuardTyped
  <2> QED
    BY <1>1, <2>1, <2>2 DEF QuietFor
<1>8. CASE Log
  BY <1>1, <1>8, LogFlow
<1>9. ASSUME NEW u \in Id, Work(u)
      PROVE  FlowOK(t)'
  <2>1. CASE u # t
    <3>1. tasks'[t] = tasks[t] /\ subscriber' = subscriber /\ logged' = logged
      BY <1>9, <2>1 DEF Work, Receive, Publish, ReturnFromLoop, Cancelled, Typed
    <3> QED
      BY <1>1, <1>2, <3>1 DEF QuietFor
  <2>2. CASE u = t /\ ReturnFromLoop(t)
    BY <1>1, <1>2, <2>2 DEF ReturnFromLoop, QuietFor, Typed, Task
  <2> QED
    BY <1>1, <1>9, <2>1, <2>2, ReceiveFlow, PublishFlow, CancelledFlow DEF Work
<1>10. ASSUME NEW u \in Id, BeginSweep(u)
       PROVE  QuietFor(t)
  <2>1. ~Worker(u)'
    <3>1. Exists(u) /\ Sink(u).kind = "file"
      BY <1>10 DEF BeginSweep, Retention
    <3> QED
      BY <3>1 DEF Lasting, Worker, Workers
  <2>2. /\ tasks' = [tasks EXCEPT ![u].state = "busy",
                                  ![u].sweep = Excess(Sink(u).prefix, KeepOf(Sink(u)))]
        /\ subscriber' = subscriber /\ logged' = logged
    BY <1>10 DEF BeginSweep
  <2> QED
    BY <1>1, <2>1, <2>2 DEF QuietFor, Typed, Task
<1>11. ASSUME NEW u \in Id, RemoveFile(u) \/ EndSweep(u)
       PROVE  QuietFor(t)
  <2>1. CASE RemoveFile(u)
    BY <1>1, <2>1 DEF RemoveFile, QuietFor, Typed, Task
  <2>2. CASE EndSweep(u)
    BY <1>1, <2>2 DEF EndSweep, QuietFor, Typed, Task
  <2> QED
    BY <1>11, <2>1, <2>2
<1>12. ASSUME NEW u \in Id, Write(u)
       PROVE  QuietFor(t)
  BY <1>1, <1>12 DEF Write, QuietFor
<1> QED
  BY <1>2, <1>3, <1>4, <1>5, <1>6, <1>7, <1>8, <1>9, <1>10, <1>11, <1>12 DEF Next

\* Only the beginning of a sweep gives a task files to remove.
LEMMA SweepsShrink ==
  ASSUME Typed, [Next]_vars, NEW t \in Id, ~BeginSweep(t)
  PROVE  tasks'[t].sweep \subseteq tasks[t].sweep
<1>1. tasks[t] \in Task
  BY DEF Typed
<1>2. CASE UNCHANGED vars
  BY <1>2 DEF vars
<1>3. ASSUME NEW i \in Caller, NEW cfg \in Configs, BeginInit(i, cfg)
      PROVE  tasks'[t].sweep \subseteq tasks[t].sweep
  BY <1>3 DEF BeginInit
<1>4. ASSUME NEW i \in Caller, BuildSink(i)
      PROVE  tasks'[t].sweep \subseteq tasks[t].sweep
  <2>1. tasks'[t] = tasks[t] \/ tasks'[t] = [tasks[t] EXCEPT !.state = "waiting"]
    BY <1>4, BuildSinkTasks
  <2> QED
    BY <1>1, <2>1 DEF Task
<1>5. ASSUME NEW i \in Caller, Register(i)
      PROVE  tasks'[t].sweep \subseteq tasks[t].sweep
  BY <1>5 DEF Register
<1>6. ASSUME NEW ids, tasks' = Aborted(ids)
      PROVE  tasks'[t].sweep \subseteq tasks[t].sweep
  BY <1>1, <1>6 DEF Aborted, Task
<1>7. ASSUME NEW i \in Caller, Await(i)
      PROVE  tasks'[t].sweep \subseteq tasks[t].sweep
  <2>1. tasks' = IF Alive(Head(callers[i].handles))
                 THEN Aborted(Overdue(Head(callers[i].handles))) ELSE tasks
    BY <1>7 DEF Await
  <2> QED
    BY <1>6, <2>1
<1>8. ASSUME NEW i \in Caller, NEW multiThread \in BOOLEAN, DropGuard(i, multiThread)
      PROVE  tasks'[t].sweep \subseteq tasks[t].sweep
  <2> DEFINE ids == Of(i, IF multiThread /\ Handles(i) # <<>>
                          THEN {"file"} ELSE {"file"} \cup Workers)
  <2>1. tasks' = Aborted(ids)
    BY <1>8 DEF DropGuard
  <2> QED
    BY <1>6, <2>1
<1>9. CASE Log
  BY <1>1, <1>9 DEF Log, Task
<1>10. ASSUME NEW u \in Id, Work(u)
       PROVE  tasks'[t].sweep \subseteq tasks[t].sweep
  <2>1. CASE Receive(u)
    BY <1>1, <2>1 DEF Receive, Typed, Task
  <2>2. CASE Publish(u)
    BY <1>1, <2>2 DEF Publish, Taken, Typed, Task
  <2>3. CASE ReturnFromLoop(u)
    BY <1>1, <2>3 DEF ReturnFromLoop, Typed, Task
  <2>4. CASE Cancelled(u)
    BY <1>1, <2>4 DEF Cancelled, Typed, Task
  <2> QED
    BY <1>10, <2>1, <2>2, <2>3, <2>4 DEF Work
<1>11. ASSUME NEW u \in Id, BeginSweep(u) \/ RemoveFile(u) \/ EndSweep(u)
       PROVE  tasks'[t].sweep \subseteq tasks[t].sweep
  <2>1. CASE BeginSweep(u)
    <3>1. u # t
      BY <2>1
    <3>2. tasks' = [tasks EXCEPT ![u].state = "busy",
                                 ![u].sweep = Excess(Sink(u).prefix, KeepOf(Sink(u)))]
      BY <2>1 DEF BeginSweep
    <3> QED
      BY <3>1, <3>2 DEF Typed
  <2>2. CASE RemoveFile(u)
    BY <1>1, <2>2 DEF RemoveFile, Typed, Task
  <2>3. CASE EndSweep(u)
    BY <1>1, <2>3 DEF EndSweep, Typed, Task
  <2> QED
    BY <1>11, <2>1, <2>2, <2>3
<1>12. ASSUME NEW u \in Id, Write(u)
       PROVE  tasks'[t].sweep \subseteq tasks[t].sweep
  BY <1>12 DEF Write
<1> QED
  BY <1>2, <1>3, <1>4, <1>5, <1>7, <1>8, <1>9, <1>10, <1>11, <1>12 DEF Next

LEMMA InitPublished == Init => Published
<1> SUFFICES ASSUME Init PROVE Published
  OBVIOUS
<1>1. NoTask \in Task
  BY DEF NoTask, Task
<1>2. Typed
  <2>1. <<>> \in Seq(SinkConfig)
    OBVIOUS
  <2>2. /\ DOMAIN callers = Caller
        /\ \A i \in Caller : DOMAIN callers[i] = Fields /\ callers[i].cfg \in Seq(SinkConfig)
                              /\ callers[i].cfg \in Configs \cup {<<>>}
                              /\ callers[i].built \in Nat
    BY <2>1 DEF Init, Fields
  <2>3. tasks \in [Id -> Task]
    BY <1>1 DEF Init
  <2>4. rolled \in [Series -> Nat] /\ subscriber = None /\ logged = 0 /\ clock = 0 /\ files = {}
    BY DEF Init
  <2> QED
    BY <2>1, <2>2, <2>3, <2>4 DEF Typed
<1>3. \A t \in Id : ~Exists(t) /\ tasks[t] = NoTask
  BY DEF Init, Exists, NoTask
<1> QED
  BY <1>2, <1>3 DEF Published, Placed, Sweeping, Flow, FlowOK, Rising, Publishing, Worker, NoTask

LEMMA StepPublished == Published /\ [Next]_vars => Published' /\ Lasting
<1> SUFFICES ASSUME Published, [Next]_vars PROVE Published' /\ Lasting
  OBVIOUS
<1>1. Typed' /\ Placed'
  BY StepTyped DEF Published
<1>2. Lasting
  BY StepLasts DEF Published
<1>3. Flow'
  BY <1>1, <1>2, StepFlow DEF Published
<1>4. ASSUME NEW t \in Id, tasks'[t].sweep # {}
      PROVE  Exists(t)'
  <2>1. CASE BeginSweep(t)
    BY <1>2, <2>1 DEF BeginSweep, Retention, Lasting
  <2>2. CASE ~BeginSweep(t)
    BY <1>2, <1>4, <2>2, SweepsShrink DEF Published, Sweeping, Lasting
  <2> QED
    BY <2>1, <2>2
<1> QED
  BY <1>1, <1>2, <1>3, <1>4 DEF Published, Sweeping

LEMMA AlwaysPublished == Spec => []Published
<1>1. Init => Published
  BY InitPublished
<1>2. Published /\ [Next]_vars => Published'
  BY StepPublished
<1> QED
  BY <1>1, <1>2, PTL DEF Spec

\* A queue sink publishes each event at most once, in the order in which they
\* were logged, and only for the caller whose init won; for any callers,
\* configurations, capacities, failures and interleavings of tasks.
THEOREM EventsArePublishedInOrder == Spec => []PublishedInOrder
<1>1. Published => PublishedInOrder
  <2> SUFFICES ASSUME Published, NEW t \in Id
               PROVE  LET p == tasks[t].published IN
                      /\ p # <<>> => t[1] = subscriber
                      /\ \A a, b \in DOMAIN p : a < b => p[a] < p[b]
    BY DEF PublishedInOrder
  <2> DEFINE p == tasks[t].published
  <2>1. p \in Seq(Nat)
    BY DEF Published, Typed, Task
  <2>2. Rising(p) /\ (p # <<>> => t[1] = subscriber)
    BY DEF Published, Flow, FlowOK
  <2>3. DOMAIN p = 1 .. Len(p)
    BY <2>1
  <2> QED
    BY <2>2, <2>3 DEF Rising
<1> QED
  BY <1>1, AlwaysPublished, PTL
--------------------------------------------------------------------------------
(***************************************************************************)
(* KeepsTheNewest: the files of the series whose sinks are alone.          *)
(***************************************************************************)
LEMMA FileTasksStay ==
  ASSUME Lasting, NEW q, NEW t \in Id, FileTask(t, q)
  PROVE  FileTask(t, q)'
BY DEF Lasting, FileTask, Retention, SeriesOf

LEMMA SweepersStay ==
  ASSUME Lasting, NEW q, NEW t \in Sweepers(q)
  PROVE  t \in Sweepers(q)' /\ KeepOf(Sink(t))' = KeepOf(Sink(t))
BY DEF Sweepers, Retention, KeepOf, Lasting, SeriesOf

\* Sinks are not taken back: who is alone was alone before.
LEMMA LoneBefore ==
  ASSUME Lasting, NEW q, Lone(q)'
  PROVE  Lone(q)
<1>1. ASSUME NEW t \in Id, Retention(t)
      PROVE  Retention(t)' /\ Sink(t)' = Sink(t)
  BY <1>1 DEF Lasting, Retention
<1> QED
  BY <1>1 DEF Lone, SeriesOf

\* Whose sweeps match files of a lone series is a sink of that series.
LEMMA LoneSweeper ==
  ASSUME NEW q, Lone(q), NEW t \in Id, Retention(t),
         q[1] \in Covers[Sink(t).prefix] \/ Sink(t).prefix \in Covers[q[1]]
  PROVE  SeriesOf(Sink(t)) = q
BY DEF Lone

LEMMA FileSink ==
  ASSUME Typed, Placed, NEW t \in Id, Retention(t)
  PROVE  /\ SeriesOf(Sink(t)) \in Series /\ KeepOf(Sink(t)) \in Nat \cup {None}
         /\ Sink(t).prefix \in Prefix /\ SeriesOf(Sink(t))[1] = Sink(t).prefix
<1>1. Sink(t) \in SinkConfig /\ Sink(t).kind = "file"
  BY IdShape DEF Retention, Placed, Typed, Sink, Sinks
<1>2. SeriesOf(Sink(t)) \in Series /\ KeepOf(Sink(t)) \in Nat \cup {None}
  BY <1>1, Kinds
<1> QED
  BY <1>2 DEF SeriesOf, Series

LEMMA KeepNumber ==
  ASSUME Typed, Placed, NEW q, NEW t \in Sweepers(q)
  PROVE  KeepOf(Sink(t)) \in Nat /\ q \in Series /\ t \in Id
BY FileSink DEF Sweepers

\* Sweeps stay in order while no file is forgotten.
LEMMA SweepsStay ==
  ASSUME Typed, Placed, Sweeps, Lasting,
         \A t \in Id : tasks'[t].sweep \subseteq tasks[t].sweep,
         \A q \in Series : rolled'[q] >= rolled[q] /\ rolled'[q] \in Nat
  PROVE  Sweeps'
<1> SUFFICES ASSUME NEW t \in Id, NEW f \in tasks'[t].sweep, Lone(f.series)'
             PROVE  /\ t \in Sweepers(f.series)'
                    /\ f.n + KeepOf(Sink(t))' <= rolled'[f.series]
  BY DEF Sweeps, SweepOK
<1>1. f \in tasks[t].sweep /\ f \in LogFile
  BY DEF Typed, Task
<1>2. t \in Sweepers(f.series) /\ f.n + KeepOf(Sink(t)) <= rolled[f.series]
  BY <1>1, LoneBefore DEF Sweeps, SweepOK
<1>3. f.series \in Series /\ f.n \in Nat /\ rolled[f.series] \in Nat
  BY <1>1 DEF LogFile, Typed
<1>4. t \in Sweepers(f.series)' /\ KeepOf(Sink(t))' = KeepOf(Sink(t))
  BY <1>2, SweepersStay
<1>5. KeepOf(Sink(t)) \in Nat
  BY <1>2, KeepNumber
<1> QED
  BY <1>2, <1>3, <1>4, <1>5

\* The newest files are what they were, when no file is removed.
LEMMA NewestStay ==
  ASSUME Published, Published', Kept, Lasting, NEW r \in Series, Lone(r)',
         NEW k \in 1 .. rolled[r], rolled'[r] >= rolled[r],
         \A t \in Sweepers(r)' : k + KeepOf(Sink(t))' > rolled'[r]
  PROVE  \E f \in files : f.series = r /\ f.n = k
<1>1. rolled[r] \in Nat /\ rolled'[r] \in Nat /\ k \in Nat
  BY DEF Published, Typed
<1>2. \A t \in Sweepers(r) : k + KeepOf(Sink(t)) > rolled[r]
  <2> TAKE t \in Sweepers(r)
  <2>1. KeepOf(Sink(t)) \in Nat
    BY KeepNumber DEF Published
  <2>2. k + KeepOf(Sink(t)) > rolled'[r]
    BY SweepersStay
  <2> QED
    BY <1>1, <2>1, <2>2
<1>3. Lone(r)
  BY LoneBefore
<1> QED
  BY <1>2, <1>3 DEF Kept, KeepsTheNewest

\* A step that touches no file.
LEMMA SameFiles ==
  ASSUME Published, Published', Kept, Lasting,
         files' = files, rolled' = rolled, clock' = clock,
         \A t \in Id : tasks'[t].sweep \subseteq tasks[t].sweep
  PROVE  Kept'
<1>1. Numbered' /\ rolled \in [Series -> Nat]
  BY DEF Kept, Numbered, Published, Typed
<1>2. Made'
  BY FileTasksStay DEF Kept, Made
<1>3. Sweeps'
  BY <1>1, SweepsStay DEF Kept, Published
<1>4. ASSUME NEW r \in Series, Lone(r)', NEW k \in 1 .. rolled[r],
             \A t \in Sweepers(r)' : k + KeepOf(Sink(t))' > rolled[r]
      PROVE  \E f \in files : f.series = r /\ f.n = k
  BY <1>1, <1>4, NewestStay
<1> QED
  BY <1>1, <1>2, <1>3, <1>4 DEF Kept, KeepsTheNewest

\* A file is made for the newest period of its series: there was none, a new
\* period begins, or the file was removed.
LEMMA NewFile ==
  ASSUME Published, Published', Kept, Lasting, NEW q \in Series, NEW n \in Period(q),
         \A f \in files : f.series # q \/ f.n # n,
         files' = files \cup {[series |-> q, n |-> n, mtime |-> clock + 1]},
         rolled' = [rolled EXCEPT ![q] = n], clock' = clock + 1,
         \A t \in Id : tasks'[t].sweep \subseteq tasks[t].sweep,
         \E t \in Id : FileTask(t, q)'
  PROVE  Kept'
<1> DEFINE new == [series |-> q, n |-> n, mtime |-> clock + 1]
<1>1. /\ rolled'[q] = n /\ (\A r \in Series : r # q => rolled'[r] = rolled[r])
      /\ rolled \in [Series -> Nat] /\ clock \in Nat /\ files \subseteq LogFile
  BY DEF Published, Typed
<1>2. n \in Nat /\ n >= 1 /\ rolled[q] \in Nat /\ (n = rolled[q] \/ n = rolled[q] + 1)
  BY Periods DEF Published
<1>3. \A r \in Series : rolled'[r] >= rolled[r] /\ rolled'[r] \in Nat
  BY <1>1, <1>2
<1>4. new.series = q /\ new.n = n /\ new.mtime = clock + 1 /\ new \in files'
  OBVIOUS
<1>5. \A f \in files : /\ f.n \in Nat /\ f.mtime \in Nat /\ f.series \in Series
                       /\ f.n <= rolled[f.series] /\ f.n >= 1 /\ f.mtime <= clock
  BY <1>1 DEF Kept, Numbered, LogFile
<1>6. \A f \in files : f.series = q => f.n < n
  BY <1>2, <1>5
<1>7. files' = files \cup {new}
  OBVIOUS
<1> HIDE DEF new
<1>8. Numbered'
  <2>1. ASSUME NEW f \in files'
        PROVE  f.n \in 1 .. rolled'[f.series] /\ f.mtime <= clock'
    <3>1. CASE f = new
      BY <1>1, <1>2, <1>4, <3>1
    <3>2. CASE f \in files
      <4>1. f.n <= rolled'[f.series]
        BY <1>1, <1>3, <1>5, <3>2
      <4> QED
        BY <1>1, <1>3, <1>5, <3>2, <4>1
    <3> QED
      BY <1>7, <2>1, <3>1, <3>2
  <2>2. ASSUME NEW f \in files', NEW g \in files', f.series = g.series
        PROVE  (f.n < g.n => f.mtime < g.mtime) /\ (f.n = g.n => f = g)
    <3>1. CASE f \in files /\ g \in files
      BY <2>2, <3>1 DEF Kept, Numbered
    <3>2. CASE f \in files /\ g = new
      BY <1>1, <1>2, <1>4, <1>5, <1>6, <2>2, <3>2
    <3>3. CASE f = new /\ g \in files
      BY <1>1, <1>2, <1>4, <1>5, <1>6, <2>2, <3>3
    <3>4. CASE f = new /\ g = new
      BY <1>2, <1>4, <3>4
    <3> QED
      BY <1>7, <2>2, <3>1, <3>2, <3>3, <3>4
  <2> QED
    BY <2>1, <2>2 DEF Numbered
<1>9. Made'
  BY <1>4, <1>7, FileTasksStay DEF Kept, Made
<1>10. Sweeps'
  BY <1>3, SweepsStay DEF Kept, Published
<1>11. ASSUME NEW r \in Series, Lone(r)', NEW k \in 1 .. rolled'[r],
              \A t \in Sweepers(r)' : k + KeepOf(Sink(t))' > rolled'[r]
       PROVE  \E f \in files' : f.series = r /\ f.n = k
  <2>1. CASE r = q /\ k = n
    BY <1>4, <2>1
  <2>2. CASE ~(r = q /\ k = n)
    <3>1. k \in 1 .. rolled[r]
      BY <1>1, <1>2, <2>2
    <3>2. \E f \in files : f.series = r /\ f.n = k
      BY <1>3, <1>11, <3>1, NewestStay
    <3> QED
      BY <1>7, <3>2
  <2> QED
    BY <2>1, <2>2
<1> QED
  BY <1>8, <1>9, <1>10, <1>11 DEF Kept, KeepsTheNewest

\* The file of the current period is written to, if it is there.
LEMMA Touched ==
  ASSUME Published, Published', Kept, Lasting, NEW q \in Series,
         files' = {IF f.series = q /\ f.n = rolled[q] THEN [f EXCEPT !.mtime = clock'] ELSE f :
                     f \in files},
         rolled' = rolled, clock' = clock + 1,
         \A t \in Id : tasks'[t].sweep \subseteq tasks[t].sweep
  PROVE  Kept'
<1> DEFINE New(f) == IF f.series = q /\ f.n = rolled[q] THEN [f EXCEPT !.mtime = clock'] ELSE f
<1>1. rolled \in [Series -> Nat] /\ clock \in Nat /\ files \subseteq LogFile
  BY DEF Published, Typed
<1>2. files' = {New(f) : f \in files}
  OBVIOUS
<1>3. \A f \in files :
        /\ New(f).series = f.series /\ New(f).n = f.n
        /\ New(f).mtime = IF f.series = q /\ f.n = rolled[q] THEN clock + 1 ELSE f.mtime
  BY <1>1 DEF LogFile
<1>4. \A f \in files : /\ f.n \in Nat /\ f.mtime \in Nat /\ f.series \in Series
                       /\ f.n <= rolled[f.series] /\ f.n >= 1 /\ f.mtime <= clock
  BY <1>1 DEF Kept, Numbered, LogFile
<1> HIDE DEF New
<1>5. ASSUME NEW f \in files, NEW g \in files, f.series = g.series
      PROVE  /\ f.n < g.n => New(f).mtime < New(g).mtime
             /\ f.n = g.n => f = g
             /\ f.n \in 1 .. rolled[f.series] /\ New(f).mtime <= clock'
  <2>1. (f.n < g.n => f.mtime < g.mtime) /\ (f.n = g.n => f = g)
    BY <1>5 DEF Kept, Numbered
  <2> QED
    BY <1>1, <1>3, <1>4, <1>5, <2>1
<1>6. Numbered'
  BY <1>2, <1>3, <1>5 DEF Numbered
<1>7. Made'
  BY <1>2, <1>3, FileTasksStay DEF Kept, Made
<1>8. Sweeps'
  BY <1>1, SweepsStay DEF Kept, Published
<1>9. ASSUME NEW r \in Series, Lone(r)', NEW k \in 1 .. rolled[r],
             \A t \in Sweepers(r)' : k + KeepOf(Sink(t))' > rolled[r]
      PROVE  \E f \in files' : f.series = r /\ f.n = k
  <2>1. PICK f \in files : f.series = r /\ f.n = k
    BY <1>1, <1>9, NewestStay
  <2> QED
    BY <1>2, <1>3, <2>1
<1> QED
  BY <1>6, <1>7, <1>8, <1>9 DEF Kept, KeepsTheNewest

LEMMA WriteKeeps ==
  ASSUME Published, Published', Kept, Lasting, NEW u \in Id, Write(u)
  PROVE  Kept'
<1>0. PICK q : q = SeriesOf(Sink(u))
  OBVIOUS
<1>1. FileTask(u, q) /\ q \in Series /\ tasks' = tasks
  <2>1. Retention(u)
    BY DEF Write, Of, Retention
  <2> QED
    BY <1>0, <2>1, FileSink DEF Write, FileTask, Published
<1>2. PICK n \in Period(q) : WriteTo(q, n)
  BY <1>0 DEF Write
<1>3. FileTask(u, q)'
  BY <1>1, FileTasksStay
<1>4. CASE n = rolled[q]
  <2>1. rolled' = rolled
    BY <1>1, <1>2, <1>4 DEF WriteTo, Published, Typed
  <2>2. files' = {IF f.series = q /\ f.n = rolled[q] THEN [f EXCEPT !.mtime = clock'] ELSE f :
                    f \in files}
    BY <1>2, <1>4 DEF WriteTo
  <2>3. clock' = clock + 1
    BY <1>2 DEF WriteTo
  <2> QED
    BY <1>1, <2>1, <2>2, <2>3, Touched
<1>5. CASE n # rolled[q]
  <2>1. n = rolled[q] + 1 /\ rolled[q] \in Nat
    BY <1>1, <1>5, Periods DEF Published
  <2>2. \A f \in files : f.series # q \/ f.n # n
    BY <2>1 DEF Kept, Numbered
  <2>3. /\ files' = files \cup {[series |-> q, n |-> n, mtime |-> clock + 1]}
        /\ rolled' = [rolled EXCEPT ![q] = n] /\ clock' = clock + 1
    BY <1>2, <1>5 DEF WriteTo
  <2> QED
    BY <1>1, <1>2, <1>3, <2>2, <2>3, NewFile
<1> QED
  BY <1>4, <1>5

LEMMA BuildSinkKeeps ==
  ASSUME Published, Published', Kept, Lasting, NEW i \in Caller, BuildSink(i)
  PROVE  Kept'
<1>0. PICK k, s, q : k = callers[i].built + 1 /\ s = Sinks(i)[k] /\ q = SeriesOf(s)
  OBVIOUS
<1>1. s \in SinkConfig /\ k \in 1 .. Len(Sinks(i))
  BY <1>0 DEF BuildSink, Published, Typed, Sinks
<1>2. ASSUME NEW u \in Id
      PROVE  tasks'[u].sweep \subseteq tasks[u].sweep
  <2>1. tasks'[u] = tasks[u] \/ tasks'[u] = [tasks[u] EXCEPT !.state = "waiting"]
    BY BuildSinkTasks DEF Published
  <2> QED
    BY <2>1 DEF Published, Typed, Task
<1>3. CASE s.ok /\ s.kind = "file"
  <2>1. q \in Series
    BY <1>0, <1>1, <1>3, Kinds
  <2>2. PICK n \in Period(q) : Open(q, n)
    BY <1>0, <1>3 DEF BuildSink
  <2>3. \E t \in Id : FileTask(t, q)'
    <3> DEFINE t == <<i, k>>
    <3>1. t \in Id
      BY <1>1, PlaceOfSink DEF Published
    <3>2. tasks' = [tasks EXCEPT ![t].state = "waiting"]
      BY <1>0, <1>3 DEF BuildSink
    <3>3. tasks'[t].state = "waiting"
      BY <3>1, <3>2 DEF Published, Typed, Task
    <3>4. callers'[i].cfg = callers[i].cfg
      BY BuildSinkTyped DEF Published, CallersGoOn
    <3>5. t[1] = i /\ t[2] = k
      OBVIOUS
    <3> HIDE DEF t
    <3>6. Sink(t)' = s
      BY <1>0, <3>4, <3>5 DEF Sink, Sinks
    <3> QED
      BY <1>0, <1>3, <3>1, <3>3, <3>6 DEF FileTask, Retention, Exists, SeriesOf
  <2>4. CASE \E f \in files : f.series = q /\ f.n = n
    <3>1. UNCHANGED <<files, clock>> /\ rolled' = [rolled EXCEPT ![q] = n]
      BY <2>2, <2>4 DEF Open
    <3>2. n = rolled[q]
      <4>1. n <= rolled[q]
        BY <2>4 DEF Kept, Numbered, Published, Typed, LogFile
      <4> QED
        BY <2>1, <2>2, <4>1, Periods DEF Published
    <3>3. rolled' = rolled
      BY <2>1, <3>1, <3>2 DEF Published, Typed
    <3> QED
      BY <1>2, <3>1, <3>3, SameFiles
  <2>5. CASE ~\E f \in files : f.series = q /\ f.n = n
    <3>1. /\ rolled' = [rolled EXCEPT ![q] = n] /\ clock' = clock + 1
          /\ files' = files \cup {[series |-> q, n |-> n, mtime |-> clock + 1]}
      BY <2>2, <2>5 DEF Open
    <3> QED
      BY <1>2, <2>1, <2>2, <2>3, <2>5, <3>1, NewFile
  <2> QED
    BY <2>4, <2>5
<1>4. CASE ~(s.ok /\ s.kind = "file")
  <2>1. UNCHANGED <<files, rolled, clock>>
    BY <1>0, <1>4 DEF BuildSink
  <2> QED
    BY <1>2, <2>1, SameFiles
<1> QED
  BY <1>3, <1>4

\* The files that a sweep finds in excess are as many periods old as it keeps, in
\* a series whose sinks are alone.
LEMMA ExcessIsOld ==
  ASSUME Published, Kept, NEW q \in Series, Lone(q), NEW keep \in Nat,
         NEW f \in Excess(q[1], keep), f.series = q
  PROVE  f.n + keep <= rolled[q]
<1> DEFINE matching == {g \in files : g.series[1] \in Covers[q[1]]}
           newer == {g \in matching : Newer(g, f)}
           room == (f.n + 1) .. rolled[q]
<1>1. f \in files /\ Cardinality(newer) >= keep
  BY DEF Excess
<1>2. ASSUME NEW g \in newer
      PROVE  g \in files /\ g.series = q /\ g.mtime > f.mtime
  <2>1. g \in files /\ g.series[1] \in Covers[q[1]] /\ g.mtime > f.mtime
    BY <1>2 DEF Newer
  <2>2. PICK t \in Id : FileTask(t, g.series)
    BY <2>1 DEF Kept, Made
  <2>3. Sink(t).prefix = g.series[1]
    BY <2>2, FileSink DEF FileTask, Published
  <2> QED
    BY <2>1, <2>2, <2>3, LoneSweeper DEF FileTask
<1>3. /\ f \in LogFile /\ f.n \in 1 .. rolled[q] /\ rolled[q] \in Nat /\ f.mtime \in Nat
      /\ f.n \in Nat
  BY <1>1 DEF Kept, Numbered, Published, Typed, LogFile
<1>4. ASSUME NEW g \in newer
      PROVE  g.n \in room
  <2>1. g \in LogFile /\ g.n \in 1 .. rolled[q] /\ g.mtime \in Nat /\ g.mtime > f.mtime
    BY <1>2, <1>4 DEF Kept, Numbered, Published, Typed, LogFile
  <2>2. (g.n < f.n => g.mtime < f.mtime) /\ (g.n = f.n => g = f)
    BY <1>1, <1>2, <1>4 DEF Kept, Numbered
  <2> QED
    BY <1>3, <2>1, <2>2
<1>5. \A g, h \in newer : g.n = h.n => g = h
  BY <1>2 DEF Kept, Numbered
<1>6. IsFiniteSet(room) /\ Cardinality(room) = rolled[q] - f.n
  <2>1. f.n + 1 \in Int /\ rolled[q] \in Int
    BY <1>3
  <2>2. /\ IsFiniteSet(room)
        /\ Cardinality(room) = IF f.n + 1 > rolled[q] THEN 0 ELSE rolled[q] - (f.n + 1) + 1
    BY <2>1, FS_Interval
  <2> QED
    BY <1>3, <2>2
<1> HIDE DEF newer, room
<1>7. [g \in newer |-> g.n] \in Injection(newer, room)
  BY <1>4, <1>5 DEF Injection, IsInjective
<1>8. Cardinality(newer) <= Cardinality(room) /\ IsFiniteSet(newer)
  BY <1>6, <1>7, FS_Injection DEF ExistsInjection
<1>9. Cardinality(newer) \in Nat
  BY <1>8, FS_CardinalityType
<1> QED
  BY <1>1, <1>3, <1>6, <1>8, <1>9

LEMMA BeginSweepKeeps ==
  ASSUME Published, Published', Kept, Lasting, NEW u \in Id, BeginSweep(u)
  PROVE  Kept'
<1>0. PICK s, keep : s = Sink(u) /\ keep = KeepOf(s)
  OBVIOUS
<1>1. /\ Retention(u) /\ keep # None
      /\ tasks' = [tasks EXCEPT ![u].state = "busy", ![u].sweep = Excess(s.prefix, keep)]
      /\ files' = files /\ rolled' = rolled /\ clock' = clock
  BY <1>0 DEF BeginSweep
<1>2. keep \in Nat /\ SeriesOf(s)[1] = s.prefix /\ SeriesOf(s) \in Series /\ s.prefix \in Prefix
  BY <1>0, <1>1, FileSink DEF Published
<1>3. tasks'[u].sweep = Excess(s.prefix, keep) /\ \A t \in Id : t # u => tasks'[t] = tasks[t]
  BY <1>1 DEF Published, Typed, Task
<1>4. ASSUME NEW t \in Id, NEW f \in tasks'[t].sweep, Lone(f.series)'
      PROVE  /\ t \in Sweepers(f.series)'
             /\ f.n + KeepOf(Sink(t))' <= rolled'[f.series]
  <2>0. Lone(f.series)
    BY <1>4, LoneBefore
  <2>1. CASE t = u
    <3>1. f \in Excess(s.prefix, keep) /\ f.series[1] \in Covers[s.prefix]
      BY <1>3, <1>4, <2>1 DEF Excess
    <3>2. SeriesOf(s) = f.series
      BY <1>0, <1>1, <2>0, <3>1, LoneSweeper
    <3>3. f.n + keep <= rolled[f.series]
      BY <1>2, <2>0, <3>1, <3>2, ExcessIsOld
    <3>4. u \in Sweepers(f.series)
      BY <1>0, <1>1, <3>2 DEF Sweepers
    <3>5. u \in Sweepers(f.series)' /\ KeepOf(Sink(u))' = keep
      BY <1>0, <3>4, SweepersStay
    <3> QED
      BY <1>1, <2>1, <3>3, <3>5
  <2>2. CASE t # u
    <3>1. f \in tasks[t].sweep
      BY <1>3, <1>4, <2>2
    <3>2. t \in Sweepers(f.series) /\ f.n + KeepOf(Sink(t)) <= rolled[f.series]
      BY <2>0, <3>1 DEF Kept, Sweeps, SweepOK
    <3> QED
      BY <1>1, <3>2, SweepersStay
  <2> QED
    BY <2>1, <2>2
<1>5. Sweeps'
  BY <1>4 DEF Sweeps, SweepOK
<1>6. Numbered' /\ rolled \in [Series -> Nat]
  BY <1>1 DEF Kept, Numbered, Published, Typed
<1>7. Made'
  BY <1>1, FileTasksStay DEF Kept, Made
<1>8. ASSUME NEW r \in Series, Lone(r)', NEW k \in 1 .. rolled[r],
             \A t \in Sweepers(r)' : k + KeepOf(Sink(t))' > rolled[r]
      PROVE  \E f \in files : f.series = r /\ f.n = k
  BY <1>1, <1>6, <1>8, NewestStay
<1> QED
  BY <1>1, <1>5, <1>6, <1>7, <1>8 DEF Kept, KeepsTheNewest

LEMMA RemoveFileKeeps ==
  ASSUME Published, Published', Kept, Lasting, NEW u \in Id, RemoveFile(u)
  PROVE  Kept'
<1>1. PICK f \in tasks[u].sweep :
        /\ files' = {g \in files : g.series # f.series \/ g.n # f.n} \/ files' = files
        /\ tasks' = [tasks EXCEPT ![u].sweep = @ \ {f}]
        /\ UNCHANGED <<callers, subscriber, logged, rolled, clock>>
  BY DEF RemoveFile
<1>2. ASSUME NEW t \in Id
      PROVE  tasks'[t].sweep \subseteq tasks[t].sweep
  BY <1>1 DEF Published, Typed, Task
<1>3. files' \subseteq files /\ rolled' = rolled /\ clock' = clock /\ rolled \in [Series -> Nat]
  BY <1>1 DEF Published, Typed
<1>4. Numbered'
  BY <1>3 DEF Kept, Numbered
<1>5. Made'
  BY <1>3, FileTasksStay DEF Kept, Made
<1>6. Sweeps'
  BY <1>2, <1>3, SweepsStay DEF Kept, Published
<1>7. f \in LogFile /\ f.n \in Nat /\ f.series \in Series
  BY <1>1 DEF Published, Typed, Task, LogFile
<1>8. ASSUME NEW r \in Series, Lone(r)', NEW k \in 1 .. rolled[r],
             \A t \in Sweepers(r)' : k + KeepOf(Sink(t))' > rolled[r]
      PROVE  \E g \in files' : g.series = r /\ g.n = k
  <2>1. PICK g \in files : g.series = r /\ g.n = k
    BY <1>3, <1>8, NewestStay
  <2>2. ~(r = f.series /\ k = f.n)
    <3> SUFFICES ASSUME r = f.series, k = f.n PROVE FALSE
      OBVIOUS
    <3>1. u \in Sweepers(r) /\ k + KeepOf(Sink(u)) <= rolled[r]
      BY <1>1, <1>8, LoneBefore DEF Kept, Sweeps, SweepOK
    <3>2. KeepOf(Sink(u)) \in Nat /\ k + KeepOf(Sink(u)) > rolled[r]
      BY <1>8, <3>1, SweepersStay, KeepNumber DEF Published
    <3> QED
      BY <1>3, <3>1, <3>2
  <2> QED
    BY <1>1, <2>1, <2>2
<1> QED
  BY <1>3, <1>4, <1>5, <1>6, <1>8 DEF Kept, KeepsTheNewest

LEMMA StepKept ==
  ASSUME Published, Published', Kept, Lasting, [Next]_vars
  PROVE  Kept'
<1>1. CASE \E t \in Id : BeginSweep(t)
  BY <1>1, BeginSweepKeeps
<1>2. CASE \E t \in Id : RemoveFile(t)
  BY <1>2, RemoveFileKeeps
<1>3. CASE \E t \in Id : Write(t)
  BY <1>3, WriteKeeps
<1>4. CASE \E i \in Caller : BuildSink(i)
  BY <1>4, BuildSinkKeeps
<1>5. CASE ~(\/ \E t \in Id : BeginSweep(t) \/ RemoveFile(t) \/ Write(t)
             \/ \E i \in Caller : BuildSink(i))
  <2>1. \A t \in Id : tasks'[t].sweep \subseteq tasks[t].sweep
    BY <1>5, SweepsShrink DEF Published
  <2>2. files' = files /\ rolled' = rolled /\ clock' = clock
    <3>1. CASE UNCHANGED vars
      BY <3>1 DEF vars
    <3>2. ASSUME NEW i \in Caller,
                 \/ \E cfg \in Configs : BeginInit(i, cfg)
                 \/ Register(i) \/ Await(i)
                 \/ \E multiThread \in BOOLEAN : DropGuard(i, multiThread)
          PROVE  <2>2
      BY <3>2 DEF BeginInit, Register, Await, DropGuard
    <3>3. CASE Log
      BY <3>3 DEF Log
    <3>4. ASSUME NEW t \in Id, Work(t) \/ EndSweep(t)
          PROVE  <2>2
      BY <3>4 DEF Work, Receive, Publish, ReturnFromLoop, Cancelled, EndSweep
    <3> QED
      BY <1>5, <3>1, <3>2, <3>3, <3>4 DEF Next
  <2> QED
    BY <2>1, <2>2, SameFiles
<1> QED
  BY <1>1, <1>2, <1>3, <1>4, <1>5

LEMMA InitKept == Init => Kept
<1> SUFFICES ASSUME Init PROVE Kept
  OBVIOUS
<1>1. \A t \in Id : tasks[t].sweep = {}
  BY DEF Init, NoTask
<1>2. files = {} /\ rolled = [q \in Series |-> 0]
  BY DEF Init
<1> QED
  BY <1>1, <1>2 DEF Kept, Numbered, Made, Sweeps, SweepOK, KeepsTheNewest

\* Sweeps never remove one of the newest files of a series, as many as every
\* sink with that series keeps, however they overlap with writes, rotations,
\* aborts and each other; for any callers, configurations, prefixes and
\* rotations, so long as the sinks whose prefixes cover each other have one
\* prefix and one rotation (Lone, in KeepsTheNewest).
THEOREM SweepsKeepTheNewest == Spec => []KeepsTheNewest
<1>1. Init => Kept
  BY InitKept
<1>2. Published /\ Published' /\ Kept /\ [Next]_vars => Kept'
  BY StepPublished, StepKept
<1>3. Kept => KeepsTheNewest
  BY DEF Kept
<1> QED
  BY <1>1, <1>2, <1>3, AlwaysPublished, PTL DEF Spec
================================================================================
