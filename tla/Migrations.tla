------------------------------ MODULE Migrations ------------------------------
(***************************************************************************)
(* Migrations (database/migrate.rs, the migration commands, the boot of    *)
(* bootstrap/app.rs): processes of several releases apply and revert       *)
(* migrations of the same databases at the same time.  A process only      *)
(* chooses the connection, the directory and, for a rollback, the version  *)
(* to go back to; sqlx does the rest, under the database's migration lock  *)
(* where its driver has one (Locking), one migration per step.  A command  *)
(* may fail and a process may die anywhere; either may leave a half-run    *)
(* migration in a database whose DDL is not transactional.                 *)
(***************************************************************************)
EXTENDS Naturals, FiniteSets

CONSTANTS
  Process,        \* the processes: consoles, and servers of several releases
  Conn,           \* the connection names somebody may ask for
  Position,       \* Position[c]: where c is in alphabetical order
  Configured,     \* those that the configuration has
  Default,        \* the default connection, or None
  OwnPath,        \* OwnPath[c]: the connection's migrations_path, or None
  GlobalPath,     \* the global migrations_path
  Files,          \* Files[p][path]: the versions in p's copy of a directory, or None
  Reversible,     \* the versions that have a down file
  Locking,        \* connections whose driver has a migration lock (all but sqlite)
  Transactional,  \* connections whose DDL is transactional (all but mysql)
  None            \* "no value"

Version == Nat \ {0}

ASSUME MigrationsAssumption ==
  /\ None \notin Process /\ None \notin Conn
  /\ Configured \cup Locking \cup Transactional \subseteq Conn
  /\ Default \in Conn \cup {None}
  /\ Position \in [Conn -> Nat]

VARIABLES
  applied,  \* applied[c]: the versions in c's _sqlx_migrations
  dirty,    \* dirty[c]: those among them that did not run to their end
  holder,   \* holder[c]: the process that holds c's migration lock, or None
  procs     \* what each process is doing

vars == <<applied, dirty, holder, procs>>

\* A process at pc, with the connections that its command has to deal with.
At(pc, command, waiting) ==
  [pc |-> pc, command |-> command, target |-> None, waiting |-> waiting,
   seen |-> {}, downTo |-> 0, todo |-> {}, undone |-> {}]

Off == At("off", None, {})

Target(p) == procs[p].target
Rollback(p) == procs[p].command = "rollback"

-----------------------------------------------------------------------------
\* migrations_path_for: the connection's own directory, else the global one.
PathFor(c) == IF c \in Configured /\ OwnPath[c] # None THEN OwnPath[c] ELSE GlobalPath

Directory(p, c) == Files[p][PathFor(c)]

ASSUME FilesAssumption ==
  \A p \in Process, c \in Conn : Directory(p, c) = None \/ Directory(p, c) \subseteq Version

\* auto_migrate_targets: the default, and those with a path of their own.
AutoTargets ==
  {c \in Conn : c = Default \/ (c \in Configured /\ OwnPath[c] # None)}

\* They are taken in turn, the default first and the rest by name.
Precedes(c, d) == c = Default \/ (d # Default /\ Position[c] <= Position[d])

\* Mutant of GoesBackTo: the third newest is taken for the second.
GoesTwoBackTo(versions, v) ==
  Cardinality({w \in versions : w > v}) = (IF Cardinality(versions) = 1 THEN 1 ELSE 2)
\* The version a rollback goes back to, of those it listed or 0: all but the
\* newest one stay.
GoesBackTo(versions, v) == Cardinality({w \in versions : w > v}) = 1

-----------------------------------------------------------------------------
Init ==
  /\ applied = [c \in Conn |-> {}]
  /\ dirty = [c \in Conn |-> {}]
  /\ holder = [c \in Conn |-> None]
  /\ procs = [p \in Process |-> Off]

Step(p, pc) == procs' = [procs EXCEPT ![p].pc = pc]

\* A command names its connection or takes the default, and fails without one.
RunCommand(p, command, requested) ==
  /\ procs[p].pc = "off"
  /\ LET name == IF requested = None THEN Default ELSE requested
     IN procs' = [procs EXCEPT ![p] =
          At(IF name = None THEN "failed" ELSE "open", command, {name} \ {None})]
  /\ UNCHANGED <<applied, dirty, holder>>

\* A server that boots with auto_migrate on goes through its targets in turn.
Boot(p) ==
  /\ procs[p].pc = "off"
  /\ procs' = [procs EXCEPT ![p] =
       At(IF AutoTargets = {} THEN "done" ELSE "open", "boot", AutoTargets)]
  /\ UNCHANGED <<applied, dirty, holder>>

\* The directory is read first, then the connection is looked up.
Open(p) ==
  /\ procs[p].pc = "open"
  /\ \E c \in procs[p].waiting :
       /\ \A d \in procs[p].waiting : Precedes(c, d)
       /\ procs' = [procs EXCEPT
            ![p].target = c,
            ![p].waiting = @ \ {c},
            ![p].pc = IF Directory(p, c) = None \/ c \notin Configured THEN "failed"
                      ELSE IF Rollback(p) THEN "list" ELSE "lock"]
  /\ UNCHANGED <<applied, dirty, holder>>

\* last_applied_versions, with no lock held: what a rollback decides from.
List(p) ==
  /\ procs[p].pc = "list"
  /\ LET versions == applied[Target(p)] IN
     IF versions = {} THEN Step(p, "done")
     ELSE \E v \in versions \cup {0} :
            /\ GoesBackTo(versions, v)
            /\ procs' = [procs EXCEPT ![p].pc = "lock", ![p].seen = versions, ![p].downTo = v]
  /\ UNCHANGED <<applied, dirty, holder>>

\* Mutant of Free: the lock is not waited for.
FreeOrNot(c) == TRUE
Free(c) == holder[c] = None

\* sqlx's migration lock; the drivers without one go on at once.
Lock(p) ==
  /\ procs[p].pc = "lock"
  /\ Target(p) \in Locking => Free(Target(p))
  /\ holder' = IF Target(p) \in Locking THEN [holder EXCEPT ![Target(p)] = p] ELSE holder
  /\ Step(p, "load")
  /\ UNCHANGED <<applied, dirty>>

\* What there is to do: the pending versions, or the applied ones to be undone.
\* A dirty version, or one the directory does not have, is an error.
Load(p) ==
  /\ procs[p].pc = "load"
  /\ LET c == Target(p)
         files == Directory(p, c)
         todo == IF Rollback(p)
                 THEN {v \in applied[c] \cap Reversible : v > procs[p].downTo}
                 ELSE files \ applied[c]
     IN IF dirty[c] # {} \/ ~(applied[c] \subseteq files)
        THEN Step(p, "failed")
        ELSE procs' = [procs EXCEPT ![p].pc = "work", ![p].todo = todo]
  /\ UNCHANGED <<applied, dirty, holder>>

\* The next migration: the lowest pending version, or the newest to be undone.
Current(p, v) ==
  /\ procs[p].pc = "work" /\ v \in procs[p].todo
  /\ \A w \in procs[p].todo : IF Rollback(p) THEN w <= v ELSE v <= w

\* One migration runs and is recorded, which its primary key allows once.
Apply(p) ==
  /\ ~Rollback(p)
  /\ \E v \in procs[p].todo :
       /\ Current(p, v)
       /\ v \notin applied[Target(p)]
       /\ applied' = [applied EXCEPT ![Target(p)] = @ \cup {v}]
       /\ procs' = [procs EXCEPT ![p].todo = @ \ {v}]
  /\ UNCHANGED <<dirty, holder>>

\* One down file runs and its row is deleted, if another process has not yet.
Revert(p) ==
  /\ Rollback(p)
  /\ \E v \in procs[p].todo :
       /\ Current(p, v)
       /\ applied' = [applied EXCEPT ![Target(p)] = @ \ {v}]
       /\ procs' = [procs EXCEPT ![p].todo = @ \ {v},
                                 ![p].undone = @ \cup (applied[Target(p)] \cap {v})]
  /\ UNCHANGED <<dirty, holder>>

\* Without transactions the current migration may be left half done: applied
\* in part, or reverted in part, and recorded as dirty.
LeftBehind(p) ==
  \/ UNCHANGED <<applied, dirty>>
  \/ /\ Target(p) \notin Transactional
     /\ \E v \in procs[p].todo :
          /\ Current(p, v)
          /\ Rollback(p) <=> v \in applied[Target(p)]
          /\ applied' = [applied EXCEPT ![Target(p)] = @ \cup {v}]
          /\ dirty' = [dirty EXCEPT ![Target(p)] = @ \cup {v}]

\* The database cannot be reached, or refuses a query that changes nothing.
QueryFails(p) ==
  /\ procs[p].pc \in {"list", "lock", "load"}
  /\ Step(p, "failed")
  /\ UNCHANGED <<applied, dirty, holder>>

\* A statement of a migration fails: its error ends the command, the lock still held.
StatementFails(p) ==
  /\ procs[p].pc = "work" /\ procs[p].todo # {}
  /\ LeftBehind(p)
  /\ Step(p, "failed")
  /\ UNCHANGED holder

Unlocked(p) == [c \in Conn |-> IF holder[c] = p THEN None ELSE holder[c]]

\* All done: the lock is given back, and a boot goes on to its next target.
Unlock(p) ==
  /\ procs[p].pc = "work" /\ procs[p].todo = {}
  /\ holder' = Unlocked(p)
  /\ Step(p, IF procs[p].waiting = {} THEN "done" ELSE "open")
  /\ UNCHANGED <<applied, dirty>>

\* Mutant of Gone: the failed session keeps its lock.
GoneWithLocks(p) == holder
\* What a process leaves when its connections close.
Gone(p) == Unlocked(p)

\* The command is over, with success or an error; a server that could not boot
\* ends in the same way, one that did serves until it is stopped.
Exit(p) ==
  /\ procs[p].pc \in {"done", "failed"}
  /\ holder' = Gone(p)
  /\ procs' = [procs EXCEPT ![p] = Off]
  /\ UNCHANGED <<applied, dirty>>

\* The process dies.
Crash(p) ==
  /\ procs[p].pc \notin {"off", "done", "failed"}
  /\ LeftBehind(p)
  /\ holder' = Gone(p)
  /\ procs' = [procs EXCEPT ![p] = Off]

Proceed(p) ==
  \/ Open(p) \/ List(p) \/ Lock(p) \/ Load(p)
  \/ Apply(p) \/ Revert(p) \/ StatementFails(p) \/ Unlock(p)

Start(p) ==
  \/ \E command \in {"migrate", "rollback"}, c \in Conn \cup {None} : RunCommand(p, command, c)
  \/ Boot(p)

Next == \E p \in Process : Start(p) \/ Proceed(p) \/ QueryFails(p) \/ Exit(p) \/ Crash(p)

Spec == Init /\ [][Next]_vars

\* A process gets on, ends when its command has, and is not overtaken for ever
\* in the queue of a lock; no query has to fail.
FairSpec ==
  Spec /\ \A p \in Process : SF_vars(Proceed(p)) /\ WF_vars(Exit(p) /\ procs[p].pc = "failed")

-----------------------------------------------------------------------------
ProcRecord ==
  [pc: {"off", "open", "list", "lock", "load", "work", "done", "failed"},
   command: {None, "migrate", "rollback", "boot"},
   target: Conn \cup {None}, waiting: SUBSET Conn,
   seen: SUBSET Version, downTo: Nat, todo: SUBSET Version, undone: SUBSET Version]

\* Types of the four variables.
TypeOK ==
  /\ applied \in [Conn -> SUBSET Version] /\ dirty \in [Conn -> SUBSET Version]
  /\ holder \in [Conn -> Process \cup {None}]
  /\ procs \in [Process -> ProcRecord]

\* The versions of connection c that some release knows.
Known(c) == UNION {Directory(p, c) : p \in {q \in Process : Directory(q, c) # None}}

\* Releases are points of one history, and every migration can be reverted:
\* what documentations/database.md asks of the files.
LinearHistory ==
  \A p \in Process, c \in Locking : Directory(p, c) # None =>
    /\ Directory(p, c) \subseteq Reversible
    /\ \A v \in Directory(p, c), w \in Known(c) : w < v => w \in Directory(p, c)

\* Where every process migrates under the lock, a database is always at a point
\* of the history: a version is applied only with all that come before it,
\* whatever commands run side by side, fail or die.
NoHoles ==
  \A c \in Locking : \A v \in applied[c] : \A w \in Known(c) :
    w < v => w \in applied[c]

\* A migrate that is about to succeed leaves the database at its own release:
\* what its directory has, no less and no more, all of it run to the end.
MigratedMeansReleased ==
  \A p \in Process :
    /\ procs[p].pc = "work" /\ procs[p].todo = {} /\ ~Rollback(p) /\ Target(p) \in Locking
    => applied[Target(p)] = Directory(p, Target(p)) /\ dirty[Target(p)] = {}

\* Whatever happened since it listed the versions, a rollback reverts none of
\* those it saw except the newest.
RollbackSparesTheRest ==
  \A p \in Process : \A v \in procs[p].undone \cap procs[p].seen :
    \A w \in procs[p].seen : w <= v

\* Every command comes to an end, and with it its hold on the lock.
EveryCommandEnds ==
  \A p \in Process : procs[p].pc # "off" ~> procs[p].pc \in {"off", "done"}

\* A rollback that succeeds reverts exactly one migration, if there is one:
\* documentations/database.md on migration:rollback.
RevertsExactlyOne ==
  \A p \in Process :
    procs[p].pc = "done" /\ Rollback(p) /\ procs[p].seen # {} =>
      Cardinality(procs[p].undone) = 1

\* A process that has opened its connection has a directory for it.
Opened(p) ==
  procs[p].pc \in {"list", "lock", "load", "work"} =>
    Target(p) \in Conn /\ Directory(p, Target(p)) # None

Typed == TypeOK /\ \A p \in Process : Opened(p)

\* What a process that runs migrations knows of its database.
ProcOK(p) ==
  LET c == Target(p) IN
  /\ procs[p].pc \in {"load", "work"} /\ c \in Locking => holder[c] = p
  /\ procs[p].pc = "work" /\ c \in Locking =>
       /\ dirty[c] = {}
       /\ Rollback(p) => /\ applied[c] \subseteq Directory(p, c)
                         /\ procs[p].todo = {v \in applied[c] : v > procs[p].downTo}
       /\ ~Rollback(p) => applied[c] \cup procs[p].todo = Directory(p, c)

\* The inductive invariant, where the history is linear.
IInv == Typed /\ NoHoles /\ \A p \in Process : ProcOK(p)

\* What a rollback has decided, and the part of it that it has carried out.
RollbackOK(p) ==
  LET me == procs[p] IN
  /\ Rollback(p) => IF me.pc = "open" THEN \E c \in Conn : me.waiting = {c} ELSE me.waiting = {}
  /\ (me.pc \in {"open", "list", "lock", "load"} \/ ~Rollback(p)) => me.undone = {}
  /\ (me.pc \in {"lock", "load", "work"} /\ Rollback(p)) \/ me.undone # {}
       => IsFiniteSet(me.seen) /\ GoesBackTo(me.seen, me.downTo)
  /\ me.pc = "work" /\ Rollback(p) => \A v \in me.todo : v > me.downTo
  /\ \A v \in me.undone : v > me.downTo

\* The inductive invariant of rollbacks, whatever the releases are.
RollbackInv ==
  /\ Typed
  /\ \A c \in Conn : IsFiniteSet(applied[c])
  /\ \A p \in Process : RollbackOK(p)
=============================================================================
