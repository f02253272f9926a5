------------------------------ MODULE Container ------------------------------
(***************************************************************************)
(* Resolution of services by the dependency-injection container            *)
(* (src/framework/di/container.rs, scope.rs, entry.rs).                    *)
(*                                                                         *)
(* Tasks are the Tokio tasks that resolve concurrently: HTTP requests,     *)
(* console commands, spawned work.  A resolve call runs the factory of the *)
(* entry it finds, the factory resolves its own dependencies (one after    *)
(* the other or joined), and so on: the live calls form a forest.  A call  *)
(* is identified by its task and by the requests on its way down from the  *)
(* task's own code; the service keys of those requests are the immutable   *)
(* chain RESOLVING_STACK hands down.                                       *)
(***************************************************************************)
EXTENDS Naturals, Sequences, FiniteSets, SequencesExt

CONSTANTS
  Task,         \* Tokio tasks
  ScopedTask,   \* those that handle a request behind ScopeMiddleware
  Type, Tag,    \* service types; strings used as tags and as group names
  EntryId,      \* registrations
  Lifecycle,    \* EntryId -> the variant of enum Entry
  Singular,     \* service key -> EntryId: Container::entries
  Groups,       \* service key -> sequence of EntryId: Container::groups
  Deps,         \* EntryId -> requests its factory resolves
  Fallible,     \* entries whose factory may fail by itself
  Wanted,       \* requests made by the tasks' own code
  MaxRoots,     \* bound: requests made by one task's own code
  Process,      \* owner of the singletons' cells
  None

ServiceKey == [type : Type, tag : Tag \cup {None}]
Request    == [kind : {"one", "all"}, key : ServiceKey]
Call       == Task \X Seq(Request)
Instance   == EntryId \X Nat

ASSUME ContainerAssumption ==
  /\ ScopedTask \subseteq Task
  /\ Process \notin Task
  /\ Lifecycle \in [EntryId -> {"value", "singleton", "transient", "scoped"}]
  /\ DOMAIN Singular \subseteq ServiceKey
  /\ \A k \in DOMAIN Singular : Singular[k] \in EntryId
  /\ DOMAIN Groups \subseteq ServiceKey
  /\ \A k \in DOMAIN Groups : Groups[k] \in Seq(EntryId) /\ Groups[k] # <<>>
  /\ Deps \in [EntryId -> SUBSET Request]
  /\ Fallible \subseteq EntryId
  /\ Wanted \subseteq Request
  /\ MaxRoots \in Nat
  /\ None \notin Instance \cup Call

VARIABLES
  calls,   \* live calls -> where they are and what they have got so far
  cells,   \* OnceCells: <<Process, entry>> and <<task, slot>> -> Cell
  built,   \* EntryId -> successful factory runs; numbers the instances
  roots    \* Task -> requests made by its own code so far

vars == <<calls, cells, built, roots>>

\* The permit of an OnceCell's initializer and its published value.
Cell  == [by : Call \cup {None}, val : Instance \cup {None}]
Empty == [by |-> None, val |-> None]

Reason  == {"", "cycle", "unregistered", "no scope", "factory"}
Error   == [why : Reason, at : Call \cup {None}]   \* at: the call it arose in
NoError == [why |-> "", at |-> None]

Progress == [pc  : {"entry", "insert", "cell", "build", "done", "failed"},
             i   : Nat \ {0},         \* position in the entries asked for
             got : Seq(Instance),     \* instances of the ones before it
             err : Error]
-----------------------------------------------------------------------------
(***************************************************************************)
(* Reading the registrations.                                              *)
(***************************************************************************)
\* The entries a request resolves, in order.
EntriesOf(r) == IF r.kind = "one" THEN <<Singular[r.key]>> ELSE Groups[r.key]

Registered(r) == r.key \in DOMAIN (IF r.kind = "one" THEN Singular ELSE Groups)

\* Scope::cache's key for the i-th entry of a request: the service key, or
\* the synthesized __multibind:{label}:{index} key of a group member.
Label(tag) == IF tag = None THEN "" ELSE tag

\* Mutant of SlotKey: the members of a group share a slot.
SlotKeyOfGroup(r, i) ==
  IF r.kind = "one" THEN <<r.key.type, r.key.tag>>
                    ELSE <<r.key.type, Label(r.key.tag)>>

SlotKey(r, i) ==
  IF r.kind = "one" THEN <<r.key.type, r.key.tag>>
                    ELSE <<r.key.type, Label(r.key.tag), i>>

ReqOf(c)   == Last(c[2])
EntryAt(c, i) == EntriesOf(ReqOf(c))[i]
Entry(c)   == EntryAt(c, calls[c].i)
Kind(c)    == Lifecycle[Entry(c)]

\* Mutant of CellAt: one scope for all requests, which nobody's end drops.
CellOfProcess(c, i) ==
  IF Lifecycle[EntryAt(c, i)] = "singleton" THEN <<Process, EntryAt(c, i)>>
                                            ELSE <<None, SlotKey(ReqOf(c), i)>>

\* The cell behind the i-th entry of call c.
CellAt(c, i) ==
  IF Lifecycle[EntryAt(c, i)] = "singleton" THEN <<Process, EntryAt(c, i)>>
                                            ELSE <<c[1], SlotKey(ReqOf(c), i)>>
CellOf(c) == CellAt(c, calls[c].i)

Child(c, r) == <<c[1], Append(c[2], r)>>
Below(c)    == {d \in DOMAIN calls : d[1] = c[1] /\ IsStrictPrefix(c[2], d[2])}

\* Mutant of Ancestors: one shared set instead of an immutable chain.
InProgress(path) == {Last(d[2]).key : d \in DOMAIN calls}

\* The chain handed down to the last request of path.
Ancestors(path) == {path[k].key : k \in 1..Len(path) - 1}
-----------------------------------------------------------------------------
(***************************************************************************)
(* A call's life.                                                          *)
(***************************************************************************)
Failed(e)   == [pc |-> "failed", i |-> 1, got |-> <<>>, err |-> e]
Entering    == [pc |-> "entry",  i |-> 1, got |-> <<>>, err |-> NoError]
EmptyResult == [pc |-> "done",   i |-> 1, got |-> <<>>, err |-> NoError]

\* A resolve call up to its first entry: resolve_with_tag checks the chain,
\* then the map; resolve_group the map, then the chain.
Opened(c) ==
  LET r == ReqOf(c) IN
  IF r.kind = "all" /\ ~Registered(r) THEN EmptyResult
  ELSE IF r.key \in Ancestors(c[2])   THEN Failed([why |-> "cycle", at |-> c])
  ELSE IF ~Registered(r)              THEN Failed([why |-> "unregistered", at |-> c])
  ELSE Entering

\* The call's current entry is resolved to v: on to the next one, if any.
Advanced(c, v) ==
  LET at   == calls[c].i
      last == at = Len(EntriesOf(ReqOf(c)))
  IN  [pc  |-> IF last THEN "done" ELSE "entry",
       i   |-> IF last THEN at ELSE at + 1,
       got |-> Append(calls[c].got, v),
       err |-> NoError]

\* Mutant of Released: whoever is dropped keeps its permit.
Unreleased(gone) == cells

\* Futures that go away are dropped with everything below them, and a
\* dropped initializer gives its permit back.
Survivors(gone) == Restrict(calls, DOMAIN calls \ gone)
Released(gone)  == [a \in DOMAIN cells |->
                      IF cells[a].by \in gone THEN [cells[a] EXCEPT !.by = None]
                                              ELSE cells[a]]

\* A new call joins the live ones.
Spawned(c) == [d \in DOMAIN calls \cup {c} |-> IF d = c THEN Opened(c) ELSE calls[d]]

\* Mutant of WithSlot: insert instead of entry.
WithNewSlot(a) == [b \in DOMAIN cells \cup {a} |-> IF b = a THEN Empty ELSE cells[b]]

\* Scope::cache's entry(key).or_insert_with(OnceCell::new).
WithSlot(a) == [b \in DOMAIN cells \cup {a} |->
                  IF b \in DOMAIN cells THEN cells[b] ELSE Empty]

\* Task t's own code asks for r.
Resolve(t, r) ==
  /\ roots[t] < MaxRoots
  /\ <<t, <<r>>>> \notin DOMAIN calls
  /\ roots' = [roots EXCEPT ![t] = @ + 1]
  /\ calls' = Spawned(<<t, <<r>>>>)
  /\ UNCHANGED <<cells, built>>

\* The factory that call c runs asks for one of its dependencies.
ResolveDependency(c, r) ==
  /\ calls[c].pc = "build"
  /\ r \in Deps[Entry(c)]
  /\ Child(c, r) \notin DOMAIN calls
  /\ calls' = Spawned(Child(c, r))
  /\ UNCHANGED <<cells, built, roots>>

\* Entry::Value.
UseValue(c) ==
  /\ calls[c].pc = "entry" /\ Kind(c) = "value"
  /\ calls' = [calls EXCEPT ![c] = Advanced(c, <<Entry(c), 0>>)]
  /\ UNCHANGED <<cells, built, roots>>

\* Entry::Scoped: the ambient scope's cache is looked up under its read lock.
FindSlot(c) ==
  /\ calls[c].pc = "entry" /\ Kind(c) = "scoped"
  /\ calls' = [calls EXCEPT ![c] =
       IF c[1] \notin ScopedTask
         THEN Failed([why |-> "no scope", at |-> c])
         ELSE [@ EXCEPT !.pc = IF CellOf(c) \in DOMAIN cells THEN "cell" ELSE "insert"]]
  /\ UNCHANGED <<cells, built, roots>>

\* On a miss, the write lock: another call may have inserted meanwhile.
InsertSlot(c) ==
  /\ calls[c].pc = "insert"
  /\ cells' = WithSlot(CellOf(c))
  /\ calls' = [calls EXCEPT ![c].pc = "cell"]
  /\ UNCHANGED <<built, roots>>

\* In OnceCell::get_or_try_init.
AtCell(c) == \/ calls[c].pc = "cell"
             \/ calls[c].pc = "entry" /\ Kind(c) = "singleton"

\* The cell is published: its value is the answer, no factory runs.
ReuseCell(c) ==
  /\ AtCell(c)
  /\ cells[CellOf(c)].val # None
  /\ calls' = [calls EXCEPT ![c] = Advanced(c, cells[CellOf(c)].val)]
  /\ UNCHANGED <<cells, built, roots>>

\* Mutant of Vacant: whoever gets the permit builds.
Unlocked(cell) == cell.by = None

\* The permit is free: run the factory.  Transient entries just run it.
Vacant(cell) == cell.val = None /\ cell.by = None

BeginBuild(c) ==
  /\ \/ /\ AtCell(c) /\ Vacant(cells[CellOf(c)])
        /\ cells' = [cells EXCEPT ![CellOf(c)].by = c]
     \/ /\ calls[c].pc = "entry" /\ Kind(c) = "transient"
        /\ cells' = cells
  /\ calls' = [calls EXCEPT ![c].pc = "build"]
  /\ UNCHANGED <<built, roots>>

\* All dependencies are there: the factory returns a new instance, which is
\* published unless the entry is transient.
Publish(c, v, cs) ==
  IF Kind(c) = "transient" THEN cs
  ELSE [cs EXCEPT ![CellOf(c)] = [by |-> None, val |-> v]]

FinishBuild(c) ==
  /\ calls[c].pc = "build"
  /\ \A r \in Deps[Entry(c)] : Child(c, r) \in DOMAIN calls /\ calls[Child(c, r)].pc = "done"
  /\ LET v == <<Entry(c), built[Entry(c)] + 1>> IN
       /\ built' = [built EXCEPT ![Entry(c)] = @ + 1]
       /\ calls' = [Survivors(Below(c)) EXCEPT ![c] = Advanced(c, v)]
       /\ cells' = Publish(c, v, Released(Below(c)))
  /\ UNCHANGED roots

\* The factory fails by itself, or passes on the error of a dependency and
\* drops the ones still being resolved.  The cell stays unpublished.
FactoryErrors(c) ==
  {calls[d].err : d \in {Child(c, r) : r \in Deps[Entry(c)]} \cap {d \in DOMAIN calls : calls[d].pc = "failed"}}
  \cup (IF Entry(c) \in Fallible THEN {[why |-> "factory", at |-> c]} ELSE {})

AllButItself(c) == Below(c)   \* mutant of Abandoned: its own permit is kept
Abandoned(c)    == Below(c) \cup {c}

\* Mutant of FailBuild: whoever waits for the cell is handed the same error.
FailWaiters(c) ==
  /\ calls[c].pc = "build"
  /\ \E e \in FactoryErrors(c) :
       calls' = [d \in DOMAIN calls \ Below(c) |->
                   IF d = c \/ (AtCell(d) /\ CellOf(d) = CellOf(c)) THEN Failed(e)
                                                                ELSE calls[d]]
  /\ cells' = Released(Abandoned(c))
  /\ UNCHANGED <<built, roots>>

FailBuild(c) ==
  /\ calls[c].pc = "build"
  /\ \E e \in FactoryErrors(c) :
       calls' = [Survivors(Below(c)) EXCEPT ![c] = Failed(e)]
  /\ cells' = Released(Abandoned(c))
  /\ UNCHANGED <<built, roots>>

\* The task's own code takes the result of its call, or stops waiting for it
\* (select!, timeout, a client that went away) and drops the future.
DropCall(c) ==
  /\ Len(c[2]) = 1
  /\ calls' = Survivors(Abandoned(c))
  /\ cells' = Released(Abandoned(c))
  /\ UNCHANGED <<built, roots>>

\* The request task t handles ends and its Scope is dropped; t's next
\* request gets a new one.
EndRequest(t) ==
  /\ \A c \in DOMAIN calls : c[1] # t
  /\ cells' = Restrict(cells, {a \in DOMAIN cells : a[1] # t})
  /\ UNCHANGED <<calls, built, roots>>
-----------------------------------------------------------------------------
Init ==
  /\ calls = <<>>
  /\ cells = [a \in {<<Process, e>> : e \in {x \in EntryId : Lifecycle[x] = "singleton"}} |-> Empty]
  /\ built = [e \in EntryId |-> 0]
  /\ roots = [t \in Task |-> 0]

\* What polling task t's future may do next to one of its calls.
Poll(c) ==
  \/ \E r \in Request : ResolveDependency(c, r)
  \/ UseValue(c)
  \/ FindSlot(c)
  \/ InsertSlot(c)
  \/ ReuseCell(c)
  \/ BeginBuild(c)
  \/ FinishBuild(c)
  \/ FailBuild(c)

Next ==
  \/ \E t \in Task, r \in Wanted : Resolve(t, r)
  \/ \E c \in DOMAIN calls : Poll(c) \/ DropCall(c)
  \/ \E t \in ScopedTask : EndRequest(t)

Spec == Init /\ [][Next]_vars

\* The runtime polls every task that can make progress, and factories end.
\* Nothing forces a task to ask for something or to give up waiting.
Fairness == \A t \in Task : WF_vars(\E c \in DOMAIN calls : c[1] = t /\ Poll(c))

FairSpec == Spec /\ Fairness
-----------------------------------------------------------------------------
(***************************************************************************)
(* Properties.                                                             *)
(***************************************************************************)
\* Live calls, cells and counters have the shape the code gives them.
TypeOK ==
  /\ DOMAIN calls \subseteq Call
  /\ \A c \in DOMAIN calls : calls[c] \in Progress
  /\ \A a \in DOMAIN cells : cells[a] \in Cell
  /\ built \in [EntryId -> Nat]
  /\ roots \in [Task -> 0..MaxRoots]

\* "A cell's permit belongs to the live call that is running the factory, and
\* only while nothing is published": whatever is dropped, cancelled or fails,
\* no OnceCell is left locked by a call that no longer exists
\* (get_or_try_init in resolve_entry and Scope::resolve_for).
PermitHeldByBuilder ==
  \A a \in DOMAIN cells : cells[a].by # None =>
    /\ cells[a].by \in DOMAIN calls
    /\ calls[cells[a].by].pc = "build"
    /\ CellOf(cells[a].by) = a
    /\ cells[a].val = None

Cached(e) == Lifecycle[e] \in {"singleton", "scoped"}

\* "Everyone who resolves a singleton, and everyone who resolves a scoped
\* entry within one request, has the published instance": concurrent first
\* calls, retries after a failed factory and inserts racing for a slot
\* included (the contract of Entry::Singleton and Entry::Scoped, entry.rs).
HasPublished(c) ==
  \A j \in DOMAIN calls[c].got : Cached(EntryAt(c, j)) =>
    /\ CellAt(c, j) \in DOMAIN cells
    /\ cells[CellAt(c, j)].val = calls[c].got[j]

Agreement == \A c \in DOMAIN calls : HasPublished(c)

\* "A singleton's factory succeeds at most once in the process", however many
\* tasks ask for it first and however many runs failed or were cancelled
\* (entry.rs, Entry::Singleton).
BuiltAtMostOnce ==
  \A e \in EntryId : Lifecycle[e] = "singleton" => built[e] <= 1

\* "A scoped instance is never seen by two requests at once" (scope.rs,
\* CURRENT_SCOPE).
ScopesAreIsolated ==
  \A c, d \in DOMAIN calls : c[1] # d[1] =>
    \A j \in DOMAIN calls[c].got, k \in DOMAIN calls[d].got :
      Lifecycle[EntryAt(c, j)] = "scoped" => calls[c].got[j] # calls[d].got[k]

\* "A call only ever gets instances of the entries it asked for, one for each
\* and in registration order": resolve_group's Vec, its per-member slot keys
\* and its fail-fast rule.
GotWhatWasAskedFor ==
  \A c \in DOMAIN calls :
    /\ \A j \in DOMAIN calls[c].got : calls[c].got[j][1] = EntryAt(c, j)
    /\ calls[c].pc = "done" /\ Registered(ReqOf(c)) =>
         Len(calls[c].got) = Len(EntriesOf(ReqOf(c)))

\* "No factory runs below itself": the service keys above a call that has not
\* been refused are distinct, so the recursion is bounded by the number of
\* keys, even in a cyclic graph (container.rs, RESOLVING_STACK).
ChainsAreDistinct ==
  \A c \in DOMAIN calls : calls[c].pc # "failed" /\ Registered(ReqOf(c)) =>
    \A j, k \in DOMAIN c[2] : j # k => c[2][j].key # c[2][k].key

\* "CircularDependency is reported for a genuine cycle only": the request
\* that was refused is already being resolved above itself; siblings that
\* share a dependency are not a cycle (container.rs, RESOLVING_STACK).
CyclesAreGenuine ==
  \A c \in DOMAIN calls : calls[c].err.why = "cycle" =>
    LET at == calls[c].err.at[2] IN \E k \in 1..Len(at) - 1 : at[k] = Last(at)

\* "A call fails only by an error that arose in its own task, at or below
\* itself": a waiter on an OnceCell is not failed by the factory run it waited
\* for, be it another task's on the very same path, it runs the factory again
\* (container.rs, get_or_try_init in resolve_entry).
ErrorsAreOwn ==
  \A c \in DOMAIN calls : calls[c].pc = "failed" =>
    LET origin == calls[c].err.at IN origin[1] = c[1] /\ IsPrefix(c[2], origin[2])

Ended(c) == c \in DOMAIN calls => calls[c].pc \in {"done", "failed"}

\* c waits for the permit of a call that d, itself waiting, works for.
Waiting(c) == AtCell(c) /\ cells[CellOf(c)].by # None
WaitsFor(c, d) ==
  /\ Waiting(c) /\ Waiting(d)
  /\ LET h == cells[CellOf(c)].by IN h[1] = d[1] /\ IsPrefix(h[2], d[2])

\* "A cycle is returned as an error instead of an OnceCell deadlock"
\* (container.rs:16-18): no two calls, and no call with itself, wait for each
\* other.
NoMutualWait ==
  \A c, d \in DOMAIN calls : ~(WaitsFor(c, d) /\ WaitsFor(d, c))

\* Polling c's task can take c further: c has no permit to wait for, or it builds
\* and has not asked for everything yet, has all it asked for, or can fail.
Ready(c) ==
  \/ calls[c].pc = "entry" /\ Kind(c) # "singleton"
  \/ calls[c].pc = "insert"
  \/ AtCell(c) /\ ~Waiting(c)
  \/ /\ calls[c].pc = "build"
     /\ \/ \E r \in Deps[Entry(c)] : Child(c, r) \notin DOMAIN calls
        \/ \A r \in Deps[Entry(c)] : calls[Child(c, r)].pc = "done"
        \/ FactoryErrors(c) # {}

\* "Resolution never comes to a standstill": as long as a call is neither done
\* nor refused, some call has its next step, so no set of tasks, however many,
\* waits in a circle for each other's permits (container.rs:16-18).
NoStandstill ==
  (\E c \in DOMAIN calls : ~Ended(c)) => \E c \in DOMAIN calls : Ready(c)

\* The caches implement their abstract specification.
Once == INSTANCE BuildOnce
          WITH value <- [a \in DOMAIN cells |-> cells[a].val],
               held  <- UNION {{<<c, CellAt(c, j), calls[c].got[j]>> :
                                  j \in {k \in DOMAIN calls[c].got : Cached(EntryAt(c, k))}} :
                               c \in DOMAIN calls}

\* Resolution is a publish-once cache per singleton and per request: every
\* step publishes an empty cell, reads a published one, lets go, or does
\* nothing to the caches.
ImplementsBuildOnce == Once!Spec

\* "Every resolve ends", with a value or an error: no permit is lost, no
\* waiter is forgotten when an initializer fails or is cancelled.
EveryResolveEnds ==
  \A t \in Task, r \in Wanted : ~Ended(<<t, <<r>>>>) ~> Ended(<<t, <<r>>>>)
-----------------------------------------------------------------------------
(***************************************************************************)
(* The inductive invariant behind TypeOK, PermitHeldByBuilder, Agreement   *)
(* and BuiltAtMostOnce (proved in ContainerProofs): what holds of each     *)
(* call, of each cell and of each singleton.                               *)
(***************************************************************************)
Active(c) == calls[c].pc \in {"entry", "insert", "cell", "build"}

\* A call stands at one of its entries and has an instance of each before it.
WellPlaced(c) ==
  /\ calls[c].got # <<>> => /\ Registered(ReqOf(c))
                            /\ Len(calls[c].got) <= Len(EntriesOf(ReqOf(c)))
  /\ Active(c) => /\ Registered(ReqOf(c))
                  /\ calls[c].i <= Len(EntriesOf(ReqOf(c)))
                  /\ Len(calls[c].got) = calls[c].i - 1

\* Where a call stands agrees with the lifecycle and with the cells.
HasItsCell(c) ==
  /\ calls[c].pc = "insert" => Kind(c) = "scoped"
  /\ calls[c].pc = "cell" => Kind(c) = "scoped" /\ CellOf(c) \in DOMAIN cells
  /\ calls[c].pc = "build" =>
       /\ Kind(c) # "value"
       /\ Cached(Entry(c)) => CellOf(c) \in DOMAIN cells /\ cells[CellOf(c)].by = c

CallOK(c) ==
  /\ c \in Call /\ c[2] # <<>>
  /\ calls[c] \in Progress
  /\ WellPlaced(c)
  /\ HasItsCell(c)
  /\ HasPublished(c)

CellOK(a) ==
  /\ cells[a] \in Cell
  /\ cells[a].by # None =>
       /\ cells[a].by \in DOMAIN calls
       /\ calls[cells[a].by].pc = "build"
       /\ CellOf(cells[a].by) = a
       /\ Cached(Entry(cells[a].by))
       /\ cells[a].val = None

SingletonOK(e) ==
  Lifecycle[e] = "singleton" =>
    /\ <<Process, e>> \in DOMAIN cells
    /\ built[e] <= 1
    /\ cells[<<Process, e>>].val = None => built[e] = 0

\* "Calls, cells and singletons are in step": the conjunction that every
\* action of the container preserves.
IInv ==
  /\ \A c \in DOMAIN calls : CallOK(c)
  /\ \A a \in DOMAIN cells : CellOK(a)
  /\ \A e \in EntryId : SingletonOK(e)
  /\ built \in [EntryId -> Nat]
  /\ roots \in [Task -> 0..MaxRoots]
=============================================================================
