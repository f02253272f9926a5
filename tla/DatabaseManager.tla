--------------------------- MODULE DatabaseManager ---------------------------
(***************************************************************************)
(* The connection manager (database/manager.rs): named pools, opened on    *)
(* first use and kept in two caches, one of typed pools and one of         *)
(* driver-agnostic ones.  A use looks in the cache under the read lock,    *)
(* lets go of it, builds a pool, and asks for the write lock to insert it; *)
(* whoever comes second drops its own pool and takes the one that is       *)
(* there.  Each cache has its own lock, tokio's fair RwLock: requests      *)
(* stand in line in the order they came.                                   *)
(***************************************************************************)
EXTENDS Naturals, Sequences, FiniteSets, SequencesExt

CONSTANTS
  Caller,     \* the tasks that use the database, the logging worker included
  Name,       \* connection names that somebody asks for
  Configs,    \* the `database` sections somebody may install
  None        \* "no value"

Driver == {"postgres", "mysql", "sqlite"}
Cache  == {"typed", "any"}
Mode   == {"read", "write"}

\* What an operation wants: any connection, the default one, a driver-agnostic
\* pool, or a pool of one driver.
Operation == {"connection", "default", "any"} \cup Driver

\* A connection's entry: its driver, the parsers that accept its url (None when
\* it has none), whether host and database are there, and whether the address
\* made of its parts is a URL (credentials are put into it as they are).
ConnectionConfig ==
  [driver: Driver, url: {None} \cup SUBSET Cache, addressed: BOOLEAN, urlSafe: BOOLEAN]

\* A pool is known by its driver and by who built it: a caller whose pool got
\* into the cache finds it there ever after, and drops the others it built.
Pool == [driver: Driver \cup {"any"}, by: Caller]

Errors == {"AlreadyInstalled", "NotInstalled", "NoDefault", "UnknownConnection",
           "MissingField", "InvalidUrl", "DriverMismatch"}

CallRecord ==
  [pc: {"idle", "installed", "look", "build", "insert", "got", "failed"},
   op: Operation \cup {None}, name: Name \cup {None},
   pool: Pool \cup {None}, error: Errors \cup {None}]

ASSUME ManagerAssumption ==
  /\ None \notin Name /\ None \notin Configs /\ None \notin Pool
  /\ None \notin Errors /\ None \notin Operation
  /\ \A cfg \in Configs :
       /\ cfg.default \in Name \cup {None}
       /\ DOMAIN cfg.connections \subseteq Name
       /\ \A n \in DOMAIN cfg.connections : cfg.connections[n] \in ConnectionConfig

VARIABLES
  global,     \* the installed section, or None: the set-once GLOBAL
  pools,      \* pools[<<cache, name>>]: the cached pool, or None
  line,       \* line[cache]: who has its lock, or waits for it, oldest first
  anyDrivers, \* sqlx's drivers for `any` pools are registered
  calls       \* what each caller is doing

vars == <<global, pools, line, anyDrivers, calls>>

Cell == Cache \X Name

Idle == [pc |-> "idle", op |-> None, name |-> None, pool |-> None, error |-> None]

CacheOf(op) == IF op = "any" THEN "any" ELSE "typed"
CellOf(call) == <<CacheOf(call.op), call.name>>

-----------------------------------------------------------------------------
\* What the drivers make of an entry: None, or the error they report.
MissingAddress(entry) ==
  entry.url = None /\ (entry.driver = "sqlite" \/ ~entry.addressed)

TypedOptions(entry) ==
  IF MissingAddress(entry) THEN "MissingField"
  ELSE IF entry.url # None /\ "typed" \notin entry.url THEN "InvalidUrl" ELSE None

AnyUrl(entry) ==
  IF MissingAddress(entry) THEN "MissingField"
  ELSE IF (IF entry.url = None THEN entry.urlSafe ELSE "any" \in entry.url)
       THEN None ELSE "InvalidUrl"

\* The error of a first use of connection n through a cache, None if it works.
BuildError(cache, n) ==
  IF n \notin DOMAIN global.connections THEN "UnknownConnection"
  ELSE IF cache = "any" THEN AnyUrl(global.connections[n])
       ELSE TypedOptions(global.connections[n])

DriverOf(cache, n) ==
  IF cache = "any" THEN "any" ELSE global.connections[n].driver

\* Mutant of Accepts: the driver of a cached pool is taken on trust.
AcceptsEverything(op, pool) == TRUE
\* postgres_pool_for and its likes refuse a pool of another driver.
Accepts(op, pool) == op \in Driver => pool.driver = op

\* A call comes back with an error, or with the pool of its cell.
Fail(call, error) ==
  [call EXCEPT !.pc = "failed", !.pool = None, !.error = error]
Deliver(call, pool) ==
  IF Accepts(call.op, pool) THEN [call EXCEPT !.pc = "got", !.pool = pool]
  ELSE Fail(call, "DriverMismatch")

-----------------------------------------------------------------------------
(***************************************************************************)
(* tokio's RwLock.                                                         *)
(***************************************************************************)
\* The i-th in line has the lock: a reader when no writer came before it, a
\* writer when nobody is before it.
Has(cache, i) ==
  \A j \in 1 .. i - 1 : line[cache][i][2] = "read" /\ line[cache][j][2] = "read"

\* A request, granted at once when the line allows.
Request(cache, c, mode) == line' = [line EXCEPT ![cache] = Append(@, <<c, mode>>)]

\* Its guard is dropped, or its wait is given up.
LetGo(cache, i) == line' = [line EXCEPT ![cache] = RemoveAt(@, i)]

\* What c runs under the guard it asked for, which it then drops.
UnderLock(c, mode) ==
  LET cache == CacheOf(calls[c].op) IN
  \E i \in DOMAIN line[cache] :
    line[cache][i] = <<c, mode>> /\ Has(cache, i) /\ LetGo(cache, i)

-----------------------------------------------------------------------------
Init ==
  /\ global = None
  /\ pools = [cell \in Cell |-> None]
  /\ line = [cache \in Cache |-> <<>>]
  /\ anyDrivers = FALSE
  /\ calls = [c \in Caller |-> Idle]

\* install_with: the first section stays, with two empty caches; a later one is
\* refused.  install_global reads the section first, nothing of which is shared.
InstallWith(c, cfg) ==
  /\ calls[c].pc = "idle"
  /\ global' = IF global = None THEN cfg ELSE global
  /\ calls' = [calls EXCEPT ![c] =
       IF global = None THEN [Idle EXCEPT !.pc = "installed"]
                        ELSE Fail(Idle, "AlreadyInstalled")]
  /\ UNCHANGED <<pools, line, anyDrivers>>

\* A use begins: without a manager it panics, without a default name it fails;
\* otherwise it asks for the read lock.
Ask(c, op, n) ==
  /\ calls[c].pc = "idle"
  /\ LET call == [Idle EXCEPT !.pc = "look", !.op = op, !.name = n]
     IN calls' = [calls EXCEPT ![c] =
          IF global = None THEN Fail(call, "NotInstalled")
          ELSE IF op # "default" THEN call
          ELSE IF global.default = None THEN Fail(call, "NoDefault")
               ELSE [call EXCEPT !.name = global.default]]
  /\ IF calls'[c].pc = "look" THEN Request(CacheOf(op), c, "read") ELSE UNCHANGED line
  /\ UNCHANGED <<global, pools, anyDrivers>>

\* Mutant of LookUp: a read guard that lives until the function returns, on the
\* way to the write lock.
LookUpKeepingGuard(c) ==
  /\ calls[c].pc = "look"
  /\ LET cached == pools[CellOf(calls[c])]
     IN /\ calls' = [calls EXCEPT ![c] =
             IF cached = None THEN [@ EXCEPT !.pc = "build"] ELSE Deliver(@, cached)]
        /\ IF cached = None THEN UNCHANGED line ELSE UnderLock(c, "read")
  /\ UNCHANGED <<global, pools, anyDrivers>>

\* Under the read lock: take the cached pool, or go and build one.
LookUp(c) ==
  /\ calls[c].pc = "look"
  /\ UnderLock(c, "read")
  /\ LET cached == pools[CellOf(calls[c])]
     IN calls' = [calls EXCEPT ![c] =
          IF cached = None THEN [@ EXCEPT !.pc = "build"] ELSE Deliver(@, cached)]
  /\ UNCHANGED <<global, pools, anyDrivers>>

\* Outside the locks: look the entry up and build the pool, which opens nothing;
\* then ask for the write lock.
Build(c) ==
  /\ calls[c].pc = "build"
  /\ LET cache == CacheOf(calls[c].op)
         n     == calls[c].name
         error == BuildError(cache, n)
     IN /\ calls' = [calls EXCEPT ![c] =
             IF error # None THEN Fail(@, error)
             ELSE [@ EXCEPT !.pc = "insert",
                            !.pool = [driver |-> DriverOf(cache, n), by |-> c]]]
        /\ anyDrivers' = (anyDrivers \/ (/\ cache = "any"
                                         /\ n \in DOMAIN global.connections
                                         /\ ~MissingAddress(global.connections[n])))
        /\ IF error = None THEN Request(cache, c, "write") ELSE UNCHANGED line
  /\ UNCHANGED <<global, pools>>

\* Mutant of Kept: insert() instead of entry().or_insert().
KeptNewer(cached, new) == new
\* entry().or_insert(): what is there stays.
Kept(cached, new) == IF cached = None THEN new ELSE cached

\* Mutant of TakenBack: the caller leaves with the pool it built.
TakenBackOwn(cached, new) == new
\* The clone of what the entry holds after the insertion.
TakenBack(cached, new) == Kept(cached, new)

\* Under the write lock.
Insert(c) ==
  /\ calls[c].pc = "insert"
  /\ UnderLock(c, "write")
  /\ LET cell == CellOf(calls[c])
         new  == calls[c].pool
     IN /\ pools' = [pools EXCEPT ![cell] = Kept(@, new)]
        /\ calls' = [calls EXCEPT ![c] = Deliver(@, TakenBack(pools[cell], new))]
  /\ UNCHANGED <<global, anyDrivers>>

\* The caller lets go of the result.
Drop(c) ==
  /\ calls[c].pc \in {"installed", "got", "failed"}
  /\ calls' = [calls EXCEPT ![c] = Idle]
  /\ UNCHANGED <<global, pools, line, anyDrivers>>

\* Its future is dropped while it waits for a lock: it leaves the line, with the
\* pool in its hands.
Cancel(c) ==
  LET cache == CacheOf(calls[c].op) IN
  /\ calls[c].pc \in {"look", "insert"}
  /\ \E i \in DOMAIN line[cache] : line[cache][i][1] = c /\ LetGo(cache, i)
  /\ calls' = [calls EXCEPT ![c] = Idle]
  /\ UNCHANGED <<global, pools, anyDrivers>>

Proceed(c) == LookUp(c) \/ Build(c) \/ Insert(c)

Next ==
  \E c \in Caller :
    \/ \E cfg \in Configs : InstallWith(c, cfg)
    \/ \E op \in Operation, n \in Name : Ask(c, op, n)
    \/ Proceed(c)
    \/ Drop(c)
    \/ Cancel(c)

Spec == Init /\ [][Next]_vars

\* The runtime polls a task whose turn in line has come.
FairSpec == Spec /\ \A c \in Caller : WF_vars(Proceed(c))

-----------------------------------------------------------------------------
\* Types of the five variables.
TypeOK ==
  /\ global \in Configs \cup {None}
  /\ anyDrivers \in BOOLEAN
  /\ pools \in [Cell -> Pool \cup {None}]
  /\ line \in [Cache -> Seq(Caller \X Mode)]
  /\ calls \in [Caller -> CallRecord]

\* Whoever uses a connection holds the cached pool: two first users that both
\* built one end up with the same, so that its limits hold for the process.
Agreement ==
  \A c \in Caller :
    calls[c].pc = "got" => calls[c].pool = pools[CellOf(calls[c])]

\* What the configuration alone says of an operation.
Deserved(op, n) ==
  LET cache == CacheOf(op)
      error == BuildError(cache, n)
  IN IF error # None THEN error
     ELSE IF Accepts(op, [driver |-> DriverOf(cache, n)]) THEN None ELSE "DriverMismatch"

\* The outcome of a use depends on the installed configuration and on nothing
\* else: not on who came first, which cache was warm, or whose pool was dropped.
\* A pool has the driver asked for, and an error is the one the entry deserves.
OutcomeIsConfigured ==
  \A c \in Caller :
    LET call == calls[c] IN
    /\ call.pc = "got" =>
         /\ Deserved(call.op, call.name) = None
         /\ call.op \in Driver => call.pool.driver = call.op
         /\ call.op = "any" => anyDrivers
    /\ call.pc = "failed" /\ call.op # None /\ call.error \notin {"NotInstalled", "NoDefault"} =>
         call.error = Deserved(call.op, call.name)

\* A pool is worth caching when its entry is in order, it has the entry's driver
\* and, for an `any` pool, the drivers are registered.
Sound(cell, pool) ==
  /\ global # None
  /\ BuildError(cell[1], cell[2]) = None
  /\ pool \in Pool /\ pool.driver = DriverOf(cell[1], cell[2])
  /\ cell[1] = "any" => anyDrivers

\* A caller past its first step has a manager and a name; a pool it is about to
\* insert is sound, one it was given is the cached one; an error is deserved.
CallOK(c) ==
  LET call == calls[c] IN
  /\ call.pc \in {"look", "build", "insert", "got"} =>
       global # None /\ call.op \in Operation /\ call.name \in Name
  /\ call.pc = "insert" => Sound(CellOf(call), call.pool)
  /\ call.pc = "got" => /\ call.pool \in Pool /\ call.pool = pools[CellOf(call)]
                        /\ Accepts(call.op, call.pool)
  /\ call.pc = "failed" /\ call.op # None /\ call.error \notin {"NotInstalled", "NoDefault"} =>
       /\ global # None /\ call.op \in Operation
       /\ call.error = Deserved(call.op, call.name)

\* What makes the properties above inductive: every cached pool is sound, and
\* every call is in order.
IInv ==
  /\ TypeOK
  /\ \A cell \in Cell : pools[cell] # None => Sound(cell, pools[cell])
  /\ \A c \in Caller : CallOK(c)

\* The two caches are publish-once cells: a pool that was handed out is never
\* replaced, and every holder holds what its cell published.
Once == INSTANCE BuildOnce
          WITH value <- pools,
               held  <- {<<c, CellOf(calls[c]), calls[c].pool>> :
                           c \in {d \in Caller : calls[d].pc = "got"}}
ImplementsBuildOnce == Once!Spec

\* Every use ends, with a pool or an error, however many race for the locks: no
\* caller waits for a guard that it, or somebody who waits for it, keeps.
EveryUseEnds ==
  \A c \in Caller :
    calls[c].pc = "look" ~> calls[c].pc \in {"idle", "got", "failed"}
=============================================================================
