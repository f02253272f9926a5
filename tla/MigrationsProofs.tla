---------------------------- MODULE MigrationsProofs ----------------------------
(***************************************************************************)
(* For any processes, releases, connections and drivers: under the lock a  *)
(* database stays at a point of the history, a migrate that succeeds       *)
(* leaves it at its own release, and a rollback spares what it saw.        *)
(***************************************************************************)
EXTENDS Migrations, FiniteSetTheorems, TLAPS

\* A process changes its own record only.
OnlyProc(p) == procs' = [procs EXCEPT ![p] = procs'[p]]

LEMMA InitType == Init => Typed
  BY MigrationsAssumption DEF Init, Typed, TypeOK, ProcRecord, Off, At, Opened

\* A step that gives its process a typed record, opened if need be.
LEMMA RecordType ==
  ASSUME Typed, NEW p \in Process, NEW rec \in ProcRecord,
         procs' = [procs EXCEPT ![p] = rec],
         rec.pc \in {"list", "lock", "load", "work"} =>
           rec.target \in Conn /\ Directory(p, rec.target) # None,
         applied' \in [Conn -> SUBSET Version], dirty' \in [Conn -> SUBSET Version],
         holder' \in [Conn -> Process \cup {None}]
  PROVE  Typed' /\ OnlyProc(p) /\ procs'[p] = rec
<1>1. procs \in [Process -> ProcRecord]
  BY DEF Typed, TypeOK
<1>2. TypeOK' /\ OnlyProc(p) /\ procs'[p] = rec
  BY <1>1 DEF TypeOK, OnlyProc
<1>3. ASSUME NEW q \in Process PROVE Opened(q)'
  <2>1. CASE q = p
    BY <1>2, <2>1 DEF Opened, Target
  <2>2. CASE q # p
    BY <1>1, <2>2 DEF Opened, Target, Typed
  <2> QED
    BY <2>1, <2>2
<1> QED
  BY <1>2, <1>3 DEF Typed

\* Every action changes the record of its own process, and keeps all typed.
LEMMA StartType ==
  ASSUME Typed, NEW p \in Process, Start(p)
  PROVE  /\ Typed' /\ OnlyProc(p) /\ UNCHANGED <<applied, dirty, holder>>
         /\ procs'[p].pc \in {"open", "failed", "done"} /\ procs'[p].undone = {}
         /\ Rollback(p)' => IF procs'[p].pc = "open"
                            THEN \E c \in Conn : procs'[p].waiting = {c}
                            ELSE procs'[p].waiting = {}
<1>0. /\ applied \in [Conn -> SUBSET Version] /\ dirty \in [Conn -> SUBSET Version]
      /\ holder \in [Conn -> Process \cup {None}]
  BY DEF Typed, TypeOK
<1>1. AutoTargets \subseteq Conn
  BY DEF AutoTargets
<1>2. ASSUME NEW command \in {"migrate", "rollback"}, NEW c \in Conn \cup {None},
             RunCommand(p, command, c)
      PROVE  /\ Typed' /\ OnlyProc(p) /\ UNCHANGED <<applied, dirty, holder>>
             /\ procs'[p].pc \in {"open", "failed"} /\ procs'[p].undone = {}
             /\ IF procs'[p].pc = "open"
                THEN \E d \in Conn : procs'[p].waiting = {d}
                ELSE procs'[p].waiting = {}
  <2> DEFINE name == IF c = None THEN Default ELSE c
  <2> DEFINE rec == At(IF name = None THEN "failed" ELSE "open", command, {name} \ {None})
  <2>1. name \in Conn \cup {None}
    BY MigrationsAssumption
  <2>2. procs' = [procs EXCEPT ![p] = rec] /\ UNCHANGED <<applied, dirty, holder>>
    BY <1>2 DEF RunCommand
  <2> HIDE DEF name
  <2>3. rec \in ProcRecord
    BY <2>1 DEF ProcRecord, At
  <2>4. Typed' /\ OnlyProc(p) /\ procs'[p] = rec
    <3>1. rec.pc \in {"open", "failed"}
      BY DEF At
    <3> HIDE DEF rec
    <3> QED
      BY <1>0, <2>2, <2>3, <3>1, RecordType
  <2>5. CASE name = None
    BY <2>2, <2>4, <2>5 DEF At
  <2>6. CASE name # None
    BY <2>1, <2>2, <2>4, <2>6, MigrationsAssumption DEF At
  <2> QED
    BY <2>5, <2>6
<1>3. CASE Boot(p)
  <2> DEFINE rec == At(IF AutoTargets = {} THEN "done" ELSE "open", "boot", AutoTargets)
  <2>1. procs' = [procs EXCEPT ![p] = rec] /\ UNCHANGED <<applied, dirty, holder>>
    BY <1>3 DEF Boot
  <2>2. rec \in ProcRecord
    BY <1>1 DEF ProcRecord, At
  <2>3. Typed' /\ OnlyProc(p) /\ procs'[p] = rec
    <3>1. rec.pc \in {"open", "done"}
      BY DEF At
    <3> HIDE DEF rec
    <3> QED
      BY <1>0, <2>1, <2>2, <3>1, RecordType
  <2> QED
    BY <2>1, <2>3 DEF Rollback, At
<1> QED
  BY <1>2, <1>3 DEF Start

\* What the assignments of a step come to, field by field.
LEMMA StepType ==
  ASSUME Typed, NEW p \in Process,
         NEW pc \in {"off", "open", "list", "lock", "load", "work", "done", "failed"},
         Step(p, pc), procs[p].pc \in {"list", "lock", "load", "work"},
         applied' \in [Conn -> SUBSET Version], dirty' \in [Conn -> SUBSET Version],
         holder' \in [Conn -> Process \cup {None}]
  PROVE  Typed' /\ OnlyProc(p) /\ procs'[p] = [procs[p] EXCEPT !.pc = pc]
<1>1. procs[p] \in ProcRecord /\ Opened(p)
  BY DEF Typed, TypeOK
<1>2. [procs[p] EXCEPT !.pc = pc] \in ProcRecord
  BY <1>1 DEF ProcRecord
<1>3. [procs[p] EXCEPT !.pc = pc].target = procs[p].target
  BY <1>1 DEF ProcRecord
<1>4. procs' = [procs EXCEPT ![p] = [procs[p] EXCEPT !.pc = pc]]
  BY DEF Step
<1> QED
  BY <1>1, <1>2, <1>3, <1>4, RecordType DEF Opened, Target

LEMMA OpenType ==
  ASSUME Typed, NEW p \in Process, Open(p)
  PROVE  /\ Typed' /\ OnlyProc(p) /\ UNCHANGED <<applied, dirty, holder>>
         /\ procs'[p].pc \in {"failed", "list", "lock"}
         /\ (procs'[p].pc = "lock" => ~Rollback(p))
         /\ procs'[p].command = procs[p].command /\ procs'[p].undone = procs[p].undone
         /\ \E c \in procs[p].waiting : procs'[p].waiting = procs[p].waiting \ {c}
<1>1. procs \in [Process -> ProcRecord] /\ \A q \in Process : Opened(q)
  BY DEF Typed, TypeOK
<1>2. PICK c \in procs[p].waiting :
        procs' = [procs EXCEPT
            ![p].target = c,
            ![p].waiting = @ \ {c},
            ![p].pc = IF Directory(p, c) = None \/ c \notin Configured THEN "failed"
                      ELSE IF Rollback(p) THEN "list" ELSE "lock"]
  BY DEF Open
<1>3. /\ procs'[p] \in ProcRecord /\ OnlyProc(p)
      /\ procs'[p].pc \in {"failed", "list", "lock"}
      /\ (procs'[p].pc = "lock" => ~Rollback(p))
      /\ procs'[p].command = procs[p].command /\ procs'[p].undone = procs[p].undone
      /\ procs'[p].waiting = procs[p].waiting \ {c}
      /\ procs'[p].target = c /\ c \in Conn
      /\ procs'[p].pc # "failed" => Directory(p, c) # None
  BY <1>1, <1>2 DEF ProcRecord, OnlyProc
<1>4. UNCHANGED <<applied, dirty, holder>>
  BY DEF Open
<1>5. Typed'
  BY <1>3, <1>4, RecordType DEF Typed, TypeOK, OnlyProc
<1> QED
  BY <1>2, <1>3, <1>4, <1>5

LEMMA ListType ==
  ASSUME Typed, NEW p \in Process, List(p)
  PROVE  /\ Typed' /\ OnlyProc(p) /\ UNCHANGED <<applied, dirty, holder>>
         /\ procs'[p].command = procs[p].command /\ procs'[p].undone = procs[p].undone
         /\ procs'[p].waiting = procs[p].waiting
         /\ \/ procs'[p].pc = "done"
            \/ /\ procs'[p].pc = "lock" /\ procs'[p].seen = applied[Target(p)]
               /\ GoesBackTo(procs'[p].seen, procs'[p].downTo)
<1>1. /\ procs \in [Process -> ProcRecord] /\ Opened(p) /\ procs[p].pc = "list"
      /\ UNCHANGED <<applied, dirty, holder>>
  BY DEF Typed, TypeOK, List
<1>2. /\ Target(p) \in Conn /\ applied[Target(p)] \subseteq Version
      /\ Directory(p, Target(p)) # None
  BY <1>1 DEF Opened, Typed, TypeOK
<1>3. CASE applied[Target(p)] = {}
  <2>1. Step(p, "done")
    BY <1>3 DEF List
  <2>2. Typed' /\ OnlyProc(p) /\ procs'[p] = [procs[p] EXCEPT !.pc = "done"]
    BY <1>1, <2>1, StepType DEF Typed, TypeOK
  <2> QED
    BY <1>1, <2>2 DEF ProcRecord
<1>4. CASE applied[Target(p)] # {}
  <2> DEFINE versions == applied[Target(p)]
  <2>1. PICK v \in versions \cup {0} :
          /\ GoesBackTo(versions, v)
          /\ procs' = [procs EXCEPT ![p].pc = "lock", ![p].seen = versions, ![p].downTo = v]
    BY <1>4 DEF List
  <2>2. v \in Nat /\ versions \subseteq Version
    BY <1>2 DEF Version
  <2> HIDE DEF versions
  <2>3. /\ procs'[p] \in ProcRecord /\ OnlyProc(p)
        /\ procs'[p].pc = "lock" /\ procs'[p].seen = versions /\ procs'[p].downTo = v
        /\ procs'[p].command = procs[p].command /\ procs'[p].undone = procs[p].undone
        /\ procs'[p].waiting = procs[p].waiting /\ procs'[p].target = procs[p].target
    BY <1>1, <2>1, <2>2 DEF ProcRecord, OnlyProc
  <2>4. Typed'
    BY <1>1, <1>2, <2>3, RecordType DEF Typed, TypeOK, OnlyProc, Target
  <2> QED
    BY <1>1, <2>1, <2>3, <2>4 DEF versions
<1> QED
  BY <1>3, <1>4

LEMMA LockType ==
  ASSUME Typed, NEW p \in Process, Lock(p)
  PROVE  /\ Typed' /\ OnlyProc(p) /\ UNCHANGED <<applied, dirty>>
         /\ procs'[p] = [procs[p] EXCEPT !.pc = "load"]
<1>1. holder' \in [Conn -> Process \cup {None}]
  BY DEF Lock, Typed, TypeOK
<1>2. Step(p, "load") /\ UNCHANGED <<applied, dirty>> /\ procs[p].pc = "lock"
  BY DEF Lock
<1> QED
  BY <1>1, <1>2, StepType DEF Typed, TypeOK

LEMMA QueryFailsType ==
  ASSUME Typed, NEW p \in Process, QueryFails(p)
  PROVE  /\ Typed' /\ OnlyProc(p) /\ UNCHANGED <<applied, dirty, holder>>
         /\ procs'[p] = [procs[p] EXCEPT !.pc = "failed"]
         /\ procs[p].pc \in {"list", "lock", "load"}
<1>1. Step(p, "failed") /\ UNCHANGED <<applied, dirty, holder>>
  BY DEF QueryFails
<1>2. procs[p].pc \in {"list", "lock", "load"}
  BY DEF QueryFails
<1> QED
  BY <1>1, <1>2, StepType DEF Typed, TypeOK

LEMMA LoadType ==
  ASSUME Typed, NEW p \in Process, Load(p)
  PROVE  LET c == Target(p) IN
         /\ Typed' /\ OnlyProc(p) /\ UNCHANGED <<applied, dirty, holder>>
         /\ procs'[p].target = c
         /\ procs'[p].command = procs[p].command /\ procs'[p].undone = procs[p].undone
         /\ procs'[p].waiting = procs[p].waiting
         /\ procs'[p].seen = procs[p].seen /\ procs'[p].downTo = procs[p].downTo
         /\ \/ procs'[p].pc = "failed"
            \/ /\ procs'[p].pc = "work" /\ dirty[c] = {} /\ applied[c] \subseteq Directory(p, c)
               /\ procs'[p].todo = IF Rollback(p)
                    THEN {v \in applied[c] \cap Reversible : v > procs[p].downTo}
                    ELSE Directory(p, c) \ applied[c]
<1> DEFINE c == Target(p)
<1>1. /\ procs \in [Process -> ProcRecord] /\ Opened(p) /\ procs[p].pc = "load"
      /\ UNCHANGED <<applied, dirty, holder>>
  BY DEF Typed, TypeOK, Load
<1>2. /\ c \in Conn /\ applied[c] \subseteq Version /\ Directory(p, c) # None
      /\ Directory(p, c) \subseteq Version
  BY <1>1, FilesAssumption DEF Opened, Typed, TypeOK
<1>3. CASE dirty[c] # {} \/ ~(applied[c] \subseteq Directory(p, c))
  <2>1. Step(p, "failed")
    BY <1>3 DEF Load
  <2>2. Typed' /\ OnlyProc(p) /\ procs'[p] = [procs[p] EXCEPT !.pc = "failed"]
    BY <1>1, <2>1, StepType DEF Typed, TypeOK
  <2> QED
    BY <1>1, <2>2 DEF ProcRecord, Target
<1>4. CASE dirty[c] = {} /\ applied[c] \subseteq Directory(p, c)
  <2> DEFINE todo == IF Rollback(p)
                     THEN {v \in applied[c] \cap Reversible : v > procs[p].downTo}
                     ELSE Directory(p, c) \ applied[c]
  <2>1. procs' = [procs EXCEPT ![p].pc = "work", ![p].todo = todo]
    BY <1>4 DEF Load
  <2>2. todo \in SUBSET Version
    BY <1>2
  <2> HIDE DEF todo
  <2>3. /\ procs'[p] \in ProcRecord /\ OnlyProc(p)
        /\ procs'[p].pc = "work" /\ procs'[p].todo = todo
        /\ procs'[p].seen = procs[p].seen /\ procs'[p].downTo = procs[p].downTo
        /\ procs'[p].command = procs[p].command /\ procs'[p].undone = procs[p].undone
        /\ procs'[p].waiting = procs[p].waiting /\ procs'[p].target = procs[p].target
    BY <1>1, <2>1, <2>2 DEF ProcRecord, OnlyProc
  <2>4. Typed'
    BY <1>1, <1>2, <2>3, RecordType DEF Typed, TypeOK, OnlyProc, Target
  <2> QED
    BY <1>1, <1>4, <2>3, <2>4 DEF todo, Target
<1> QED
  BY <1>3, <1>4

\* One version of the connection's history is added or removed, or none.
LEMMA ApplyType ==
  ASSUME Typed, NEW p \in Process, Apply(p)
  PROVE  /\ Typed' /\ OnlyProc(p) /\ UNCHANGED <<dirty, holder>>
         /\ Target(p) \in Conn /\ ~Rollback(p) /\ procs[p].pc = "work"
         /\ \E v \in procs[p].todo :
              /\ Current(p, v)
              /\ applied' = [applied EXCEPT ![Target(p)] = @ \cup {v}]
              /\ procs'[p] = [procs[p] EXCEPT !.todo = @ \ {v}]
<1>1. PICK v \in procs[p].todo :
        /\ Current(p, v)
        /\ applied' = [applied EXCEPT ![Target(p)] = @ \cup {v}]
        /\ procs' = [procs EXCEPT ![p].todo = @ \ {v}]
  BY DEF Apply
<1>2. /\ procs \in [Process -> ProcRecord] /\ Opened(p) /\ procs[p].pc = "work"
      /\ UNCHANGED <<dirty, holder>> /\ ~Rollback(p)
  BY <1>1 DEF Typed, TypeOK, Apply, Current
<1>3. Target(p) \in Conn /\ v \in Version /\ Directory(p, Target(p)) # None
  BY <1>2 DEF Opened, ProcRecord
<1>4. /\ procs'[p] = [procs[p] EXCEPT !.todo = @ \ {v}] /\ OnlyProc(p)
      /\ procs'[p] \in ProcRecord /\ procs'[p].target = procs[p].target
  BY <1>1, <1>2 DEF ProcRecord, OnlyProc
<1>5. applied' \in [Conn -> SUBSET Version]
  BY <1>1, <1>3 DEF Typed, TypeOK
<1>6. Typed'
  BY <1>2, <1>3, <1>4, <1>5, RecordType DEF Typed, TypeOK, OnlyProc, Target
<1> QED
  BY <1>1, <1>2, <1>3, <1>4, <1>6

LEMMA RevertType ==
  ASSUME Typed, NEW p \in Process, Revert(p)
  PROVE  /\ Typed' /\ OnlyProc(p) /\ UNCHANGED <<dirty, holder>>
         /\ Target(p) \in Conn /\ Rollback(p) /\ procs[p].pc = "work"
         /\ \E v \in procs[p].todo :
              /\ Current(p, v)
              /\ applied' = [applied EXCEPT ![Target(p)] = @ \ {v}]
              /\ procs'[p] = [procs[p] EXCEPT !.todo = @ \ {v},
                                              !.undone = @ \cup (applied[Target(p)] \cap {v})]
<1>1. PICK v \in procs[p].todo :
        /\ Current(p, v)
        /\ applied' = [applied EXCEPT ![Target(p)] = @ \ {v}]
        /\ procs' = [procs EXCEPT ![p].todo = @ \ {v},
                                  ![p].undone = @ \cup (applied[Target(p)] \cap {v})]
  BY DEF Revert
<1>2. /\ procs \in [Process -> ProcRecord] /\ Opened(p) /\ procs[p].pc = "work"
      /\ UNCHANGED <<dirty, holder>> /\ Rollback(p)
  BY <1>1 DEF Typed, TypeOK, Revert, Current
<1>3. Target(p) \in Conn /\ v \in Version /\ Directory(p, Target(p)) # None
  BY <1>2 DEF Opened, ProcRecord
<1>4. /\ procs'[p] = [procs[p] EXCEPT !.todo = @ \ {v},
                                      !.undone = @ \cup (applied[Target(p)] \cap {v})]
      /\ OnlyProc(p)
      /\ procs'[p] \in ProcRecord /\ procs'[p].target = procs[p].target
  BY <1>1, <1>2, <1>3 DEF ProcRecord, OnlyProc
<1>5. applied' \in [Conn -> SUBSET Version]
  BY <1>1, <1>3 DEF Typed, TypeOK
<1>6. Typed'
  BY <1>2, <1>3, <1>4, <1>5, RecordType DEF Typed, TypeOK, OnlyProc, Target
<1> QED
  BY <1>1, <1>2, <1>3, <1>4, <1>6

\* What may be left behind is typed, and is the current version or nothing.
LEMMA LeftBehindType ==
  ASSUME Typed, NEW p \in Process, LeftBehind(p)
  PROVE  /\ applied' \in [Conn -> SUBSET Version] /\ dirty' \in [Conn -> SUBSET Version]
         /\ \/ UNCHANGED <<applied, dirty>>
            \/ /\ procs[p].pc = "work" /\ Target(p) \in Conn
               /\ \E v \in procs[p].todo :
                    /\ Current(p, v)
                    /\ Rollback(p) <=> v \in applied[Target(p)]
                    /\ applied' = [applied EXCEPT ![Target(p)] = @ \cup {v}]
                    /\ dirty' = [dirty EXCEPT ![Target(p)] = @ \cup {v}]
<1>1. CASE UNCHANGED <<applied, dirty>>
  BY <1>1 DEF Typed, TypeOK
<1>2. CASE ~UNCHANGED <<applied, dirty>>
  <2>1. PICK v \in procs[p].todo :
          /\ Current(p, v)
          /\ Rollback(p) <=> v \in applied[Target(p)]
          /\ applied' = [applied EXCEPT ![Target(p)] = @ \cup {v}]
          /\ dirty' = [dirty EXCEPT ![Target(p)] = @ \cup {v}]
    BY <1>2 DEF LeftBehind
  <2>2. procs[p].pc = "work" /\ Target(p) \in Conn /\ v \in Version
    BY <2>1 DEF Current, Typed, TypeOK, Opened, ProcRecord
  <2> QED
    BY <2>1, <2>2 DEF Typed, TypeOK
<1> QED
  BY <1>1, <1>2

LEMMA FailsType ==
  ASSUME Typed, NEW p \in Process, StatementFails(p)
  PROVE  /\ Typed' /\ OnlyProc(p) /\ UNCHANGED holder
         /\ procs'[p] = [procs[p] EXCEPT !.pc = "failed"] /\ procs[p].pc = "work"
  BY LeftBehindType, StepType DEF StatementFails, Typed, TypeOK

LEMMA UnlockType ==
  ASSUME Typed, NEW p \in Process, Unlock(p)
  PROVE  /\ Typed' /\ OnlyProc(p) /\ UNCHANGED <<applied, dirty>>
         /\ \E pc \in {"done", "open"} :
              /\ pc = "open" => procs[p].waiting # {}
              /\ procs'[p] = [procs[p] EXCEPT !.pc = pc]
<1> DEFINE pc == IF procs[p].waiting = {} THEN "done" ELSE "open"
<1>1. /\ Step(p, pc) /\ UNCHANGED <<applied, dirty>> /\ procs[p].pc = "work"
  BY DEF Unlock
<1>2. holder' \in [Conn -> Process \cup {None}]
  BY DEF Unlock, Unlocked, Typed, TypeOK
<1>3. pc \in {"done", "open"} /\ (pc = "open" => procs[p].waiting # {})
  OBVIOUS
<1> HIDE DEF pc
<1>4. Typed' /\ OnlyProc(p) /\ procs'[p] = [procs[p] EXCEPT !.pc = pc]
  BY <1>1, <1>2, <1>3, StepType DEF Typed, TypeOK
<1> QED
  BY <1>1, <1>3, <1>4

LEMMA ExitType ==
  ASSUME Typed, NEW p \in Process, Exit(p) \/ Crash(p)
  PROVE  Typed' /\ OnlyProc(p) /\ procs'[p] = Off
<1>1. Off \in ProcRecord /\ Off.pc = "off"
  BY DEF Off, At, ProcRecord
<1>2. applied' \in [Conn -> SUBSET Version] /\ dirty' \in [Conn -> SUBSET Version]
  BY LeftBehindType DEF Exit, Crash, Typed, TypeOK
<1>3. holder' \in [Conn -> Process \cup {None}] /\ procs' = [procs EXCEPT ![p] = Off]
  BY DEF Exit, Crash, Gone, Unlocked, Typed, TypeOK
<1> QED
  BY <1>1, <1>2, <1>3, RecordType

\* The other processes' records stay as they are.
LEMMA OthersKept ==
  ASSUME Typed, NEW p \in Process, OnlyProc(p), NEW q \in Process, q # p
  PROVE  procs'[q] = procs[q]
  BY DEF OnlyProc, Typed, TypeOK

-----------------------------------------------------------------------------
\* Rollbacks.

\* It is enough to look at the process that steps, and at the tables.
LEMMA RollbackStep ==
  ASSUME RollbackInv, NEW p \in Process, Typed', OnlyProc(p), RollbackOK(p)',
         \A c \in Conn : IsFiniteSet(applied'[c])
  PROVE  RollbackInv'
<1>1. ASSUME NEW q \in Process, q # p PROVE RollbackOK(q)'
  BY <1>1, OthersKept DEF RollbackInv, RollbackOK, Rollback
<1> QED
  BY <1>1 DEF RollbackInv

\* A table changes by one version at a time.
LEMMA OneVersion ==
  ASSUME \A c \in Conn : IsFiniteSet(applied[c]), applied \in [Conn -> SUBSET Version],
         NEW d \in Conn, NEW v,
         \/ applied' = [applied EXCEPT ![d] = @ \cup {v}]
         \/ applied' = [applied EXCEPT ![d] = @ \ {v}]
  PROVE  \A c \in Conn : IsFiniteSet(applied'[c])
<1>1. \A c \in Conn : \/ applied'[c] = applied[c]
                      \/ applied'[c] = applied[c] \cup {v}
                      \/ applied'[c] = applied[c] \ {v}
  OBVIOUS
<1>2. \A c \in Conn : IsFiniteSet(applied[c] \cup {v}) /\ IsFiniteSet(applied[c] \ {v})
  BY FS_AddElement, FS_RemoveElement
<1> QED
  BY <1>1, <1>2

LEMMA FiniteLeft ==
  ASSUME RollbackInv, NEW p \in Process, LeftBehind(p)
  PROVE  \A c \in Conn : IsFiniteSet(applied'[c])
<1>1. Typed /\ applied \in [Conn -> SUBSET Version] /\ \A c \in Conn : IsFiniteSet(applied[c])
  BY DEF RollbackInv, Typed, TypeOK
<1>2. CASE UNCHANGED <<applied, dirty>>
  BY <1>1, <1>2
<1>3. CASE ~UNCHANGED <<applied, dirty>>
  BY <1>1, <1>3, LeftBehindType, OneVersion
<1> QED
  BY <1>2, <1>3

\* Steps that leave the tables alone.
LEMMA QuietRollback ==
  ASSUME RollbackInv, NEW p \in Process,
         Start(p) \/ Open(p) \/ List(p) \/ Lock(p) \/ Load(p) \/ Unlock(p) \/ QueryFails(p)
  PROVE  RollbackInv'
<1> DEFINE me == procs[p]  you == procs'[p]
<1>0. Typed /\ RollbackOK(p) /\ me \in ProcRecord /\ \A c \in Conn : IsFiniteSet(applied[c])
  BY DEF RollbackInv, Typed, TypeOK
<1>1. CASE Start(p)
  <2>1. RollbackOK(p)'
    BY <1>0, <1>1, StartType DEF RollbackOK
  <2> QED
    BY <1>0, <1>1, <2>1, StartType, RollbackStep
<1>2. CASE Open(p)
  <2>1. me.pc = "open"
    BY <1>2 DEF Open
  <2>2. RollbackOK(p)'
    BY <1>0, <1>2, <2>1, OpenType DEF RollbackOK, Rollback
  <2> QED
    BY <1>0, <1>2, <2>2, OpenType, RollbackStep
<1>3. CASE List(p)
  <2>1. me.pc = "list" /\ (Opened(p))
    BY <1>0, <1>3 DEF List, Typed
  <2>2. IsFiniteSet(applied[Target(p)])
    BY <1>0, <2>1 DEF Opened
  <2>3. RollbackOK(p)'
    BY <1>0, <1>3, <2>1, <2>2, ListType DEF RollbackOK, Rollback
  <2> QED
    BY <1>0, <1>3, <2>3, ListType, RollbackStep
<1>4. CASE Lock(p)
  <2>1. me.pc = "lock"
    BY <1>4 DEF Lock
  <2>2. RollbackOK(p)'
    BY <1>0, <1>4, <2>1, LockType DEF RollbackOK, Rollback, ProcRecord
  <2> QED
    BY <1>0, <1>4, <2>2, LockType, RollbackStep
<1>5. CASE Load(p)
  <2>1. me.pc = "load"
    BY <1>5 DEF Load
  <2>2. RollbackOK(p)'
    BY <1>0, <1>5, <2>1, LoadType DEF RollbackOK, Rollback
  <2> QED
    BY <1>0, <1>5, <2>2, LoadType, RollbackStep
<1>6. CASE Unlock(p)
  <2>1. me.pc = "work"
    BY <1>6 DEF Unlock
  <2>2. RollbackOK(p)'
    BY <1>0, <1>6, <2>1, UnlockType DEF RollbackOK, Rollback, ProcRecord
  <2> QED
    BY <1>0, <1>6, <2>2, UnlockType, RollbackStep
<1>7. CASE QueryFails(p)
  <2>1. RollbackOK(p)'
    BY <1>0, <1>7, QueryFailsType DEF RollbackOK, Rollback, ProcRecord
  <2> QED
    BY <1>0, <1>7, <2>1, QueryFailsType, RollbackStep
<1> QED
  BY <1>1, <1>2, <1>3, <1>4, <1>5, <1>6, <1>7

\* Steps that change a table, or end the command.
LEMMA BusyRollback ==
  ASSUME RollbackInv, NEW p \in Process,
         Apply(p) \/ Revert(p) \/ StatementFails(p) \/ Exit(p) \/ Crash(p)
  PROVE  RollbackInv'
<1>0. /\ Typed /\ RollbackOK(p) /\ procs[p] \in ProcRecord
      /\ \A c \in Conn : IsFiniteSet(applied[c])
      /\ applied \in [Conn -> SUBSET Version]
  BY DEF RollbackInv, Typed, TypeOK
<1>1. CASE Apply(p)
  <2>1. RollbackOK(p)'
    BY <1>0, <1>1, ApplyType DEF RollbackOK, Rollback, ProcRecord
  <2>2. \A c \in Conn : IsFiniteSet(applied'[c])
    BY <1>0, <1>1, ApplyType, OneVersion
  <2> QED
    BY <1>0, <1>1, <2>1, <2>2, ApplyType, RollbackStep
<1>2. CASE Revert(p)
  <2>1. PICK v \in procs[p].todo :
          procs'[p] = [procs[p] EXCEPT !.todo = @ \ {v},
                                       !.undone = @ \cup (applied[Target(p)] \cap {v})]
    BY <1>0, <1>2, RevertType
  <2>2. procs[p].pc = "work" /\ Rollback(p)
    BY <1>0, <1>2, RevertType
  <2>3. RollbackOK(p)'
    <3> DEFINE gone == applied[Target(p)] \cap {v}
    <3>1. v > procs[p].downTo /\ (gone \subseteq {v})
      BY <1>0, <2>2 DEF RollbackOK
    <3> HIDE DEF gone
    <3>2. procs'[p] = [procs[p] EXCEPT !.todo = @ \ {v}, !.undone = @ \cup gone]
      BY <2>1 DEF gone
    <3>3. /\ procs'[p].pc = "work" /\ procs'[p].command = procs[p].command
          /\ procs'[p].waiting = procs[p].waiting
          /\ procs'[p].seen = procs[p].seen /\ procs'[p].downTo = procs[p].downTo
          /\ procs'[p].todo = procs[p].todo \ {v} /\ procs'[p].undone = procs[p].undone \cup gone
      BY <1>0, <2>2, <3>2 DEF ProcRecord
    <3> QED
      BY <1>0, <2>2, <3>1, <3>3 DEF RollbackOK, Rollback
  <2>4. \A c \in Conn : IsFiniteSet(applied'[c])
    BY <1>0, <1>2, RevertType, OneVersion
  <2> QED
    BY <1>0, <1>2, <2>3, <2>4, RevertType, RollbackStep
<1>3. CASE StatementFails(p)
  <2>0. procs'[p] = [procs[p] EXCEPT !.pc = "failed"] /\ procs[p].pc = "work"
    BY <1>0, <1>3, FailsType
  <2>1. /\ procs'[p].pc = "failed" /\ procs'[p].command = procs[p].command
        /\ procs'[p].waiting = procs[p].waiting /\ procs'[p].undone = procs[p].undone
        /\ procs'[p].seen = procs[p].seen /\ procs'[p].downTo = procs[p].downTo
        /\ procs[p].pc = "work"
    BY <1>0, <2>0 DEF ProcRecord
  <2>2. RollbackOK(p)'
    BY <1>0, <2>1 DEF RollbackOK, Rollback
  <2> QED
    BY <1>0, <1>3, <2>2, FailsType, FiniteLeft, RollbackStep DEF StatementFails
<1>4. CASE Exit(p) \/ Crash(p)
  <2>1. RollbackOK(p)'
    BY <1>0, <1>4, ExitType DEF RollbackOK, Rollback, Off, At
  <2>2. \A c \in Conn : IsFiniteSet(applied'[c])
    BY <1>0, <1>4, FiniteLeft DEF Exit, Crash
  <2> QED
    BY <1>0, <1>4, <2>1, <2>2, ExitType, RollbackStep
<1> QED
  BY <1>1, <1>2, <1>3, <1>4

\* A rollback that lists and then undoes, with anything in between, reverts none
\* of the versions it saw but the newest (migrate.rs, rollback).
THEOREM RollbackSpares == Spec => []RollbackSparesTheRest
<1>1. Init => RollbackInv
  BY InitType, FS_EmptySet, MigrationsAssumption
  DEF Init, RollbackInv, RollbackOK, Rollback, Off, At
<1>2. RollbackInv /\ [Next]_vars => RollbackInv'
  <2>1. ASSUME RollbackInv, UNCHANGED vars PROVE RollbackInv'
    BY <2>1 DEF vars, RollbackInv, Typed, TypeOK, Opened, Target, RollbackOK, Rollback
  <2> QED
    BY <2>1, QuietRollback, BusyRollback DEF Next, Proceed
<1>3. RollbackInv => RollbackSparesTheRest
  <2> SUFFICES ASSUME RollbackInv, NEW p \in Process,
                      NEW v \in procs[p].undone, v \in procs[p].seen,
                      NEW w \in procs[p].seen
               PROVE  w <= v
    BY DEF RollbackSparesTheRest
  <2> DEFINE newer == {u \in procs[p].seen : u > procs[p].downTo}
  <2>1. /\ IsFiniteSet(procs[p].seen) /\ GoesBackTo(procs[p].seen, procs[p].downTo)
        /\ v > procs[p].downTo /\ v \in Nat /\ w \in Nat /\ procs[p].downTo \in Nat
    BY DEF RollbackInv, RollbackOK, Typed, TypeOK, ProcRecord, Version
  <2>2. IsFiniteSet(newer) /\ Cardinality(newer) = 1
    BY <2>1, FS_Subset DEF GoesBackTo
  <2>3. PICK u : newer = {u}
    BY <2>2, FS_Singleton
  <2> QED
    BY <2>1, <2>3
<1> QED
  BY <1>1, <1>2, <1>3, PTL DEF Spec

-----------------------------------------------------------------------------
\* The history of a database.

\* It is enough to look at the process that steps, if the tables and locks that
\* others hold stay as they are.
LEMMA HistoryStep ==
  ASSUME IInv, NEW p \in Process, Typed', OnlyProc(p), ProcOK(p)', NoHoles',
         \A c \in Locking : holder[c] # p /\ holder[c] # None =>
           holder'[c] = holder[c] /\ applied'[c] = applied[c] /\ dirty'[c] = dirty[c]
  PROVE  IInv'
<1>1. ASSUME NEW q \in Process, q # p PROVE ProcOK(q)'
  <2>1. procs'[q] = procs[q] /\ ProcOK(q)
    BY <1>1, OthersKept DEF IInv
  <2>2. CASE procs[q].pc \in {"load", "work"} /\ Target(q) \in Locking
    <3>1. holder[Target(q)] = q /\ q # None
      BY <2>1, <2>2, MigrationsAssumption DEF ProcOK
    <3>2. /\ holder'[Target(q)] = q /\ applied'[Target(q)] = applied[Target(q)]
          /\ dirty'[Target(q)] = dirty[Target(q)]
      BY <1>1, <2>2, <3>1
    <3> QED
      BY <2>1, <3>2 DEF ProcOK, Target, Rollback
  <2>3. CASE ~(procs[q].pc \in {"load", "work"} /\ Target(q) \in Locking)
    BY <2>1, <2>3 DEF ProcOK, Target
  <2> QED
    BY <2>2, <2>3
<1> QED
  BY <1>1 DEF IInv

LEMMA UnlockedKeeps ==
  ASSUME IInv, NEW p \in Process, holder' = Unlocked(p)
  PROVE  \A c \in Locking : holder[c] # p => holder'[c] = holder[c]
  BY MigrationsAssumption DEF Unlocked

\* Steps that leave the tables alone.
LEMMA QuietHistory ==
  ASSUME IInv, LinearHistory, NEW p \in Process,
         Start(p) \/ Open(p) \/ List(p) \/ Lock(p) \/ Load(p) \/ Unlock(p)
         \/ QueryFails(p) \/ Exit(p)
  PROVE  IInv'
<1>0. Typed /\ procs[p] \in ProcRecord /\ NoHoles /\ holder \in [Conn -> Process \cup {None}]
  BY DEF IInv, Typed, TypeOK
<1>1. applied' = applied => NoHoles'
  BY <1>0 DEF NoHoles
<1>2. CASE Start(p)
  <2>1. ProcOK(p)'
    BY <1>0, <1>2, StartType DEF ProcOK
  <2> QED
    BY <1>0, <1>1, <1>2, <2>1, StartType, HistoryStep
<1>3. CASE Open(p)
  <2>1. ProcOK(p)'
    BY <1>0, <1>3, OpenType DEF ProcOK
  <2> QED
    BY <1>0, <1>1, <1>3, <2>1, OpenType, HistoryStep
<1>4. CASE List(p)
  <2>1. ProcOK(p)'
    BY <1>0, <1>4, ListType DEF ProcOK
  <2> QED
    BY <1>0, <1>1, <1>4, <2>1, ListType, HistoryStep
<1>5. CASE Lock(p)
  <2>1. procs'[p] = [procs[p] EXCEPT !.pc = "load"] /\ UNCHANGED <<applied, dirty>>
    BY <1>0, <1>5, LockType
  <2>2. procs'[p].pc = "load" /\ procs'[p].target = procs[p].target
    BY <1>0, <2>1 DEF ProcRecord
  <2>3. /\ Target(p) \in Locking => holder'[Target(p)] = p
        /\ \A c \in Locking : holder[c] # None => holder'[c] = holder[c]
    BY <1>0, <1>5, MigrationsAssumption DEF Lock, Free
  <2>4. ProcOK(p)'
    BY <2>2, <2>3 DEF ProcOK, Target
  <2> QED
    BY <1>0, <1>1, <1>5, <2>1, <2>3, <2>4, LockType, HistoryStep
<1>6. CASE Load(p)
  <2> DEFINE c == Target(p)
  <2>1. /\ procs'[p].target = c /\ procs'[p].command = procs[p].command
        /\ procs'[p].downTo = procs[p].downTo /\ UNCHANGED <<applied, dirty, holder>>
        /\ \/ procs'[p].pc = "failed"
           \/ /\ procs'[p].pc = "work" /\ dirty[c] = {} /\ applied[c] \subseteq Directory(p, c)
              /\ procs'[p].todo = IF Rollback(p)
                   THEN {v \in applied[c] \cap Reversible : v > procs[p].downTo}
                   ELSE Directory(p, c) \ applied[c]
    BY <1>0, <1>6, LoadType
  <2>2. c \in Locking => holder[c] = p
    BY <1>6 DEF Load, IInv, ProcOK
  <2>3. Directory(p, c) # None
    BY <1>6 DEF Load, IInv, Typed, Opened
  <2>4. c \in Locking => Directory(p, c) \subseteq Reversible
    BY <2>3 DEF LinearHistory
  <2> HIDE DEF c
  <2>5. ProcOK(p)'
    BY <2>1, <2>2, <2>4 DEF ProcOK, Target, Rollback
  <2> QED
    BY <1>0, <1>1, <1>6, <2>1, <2>5, LoadType, HistoryStep
<1>7. CASE Unlock(p)
  <2>1. procs'[p].pc \in {"done", "open"} /\ UNCHANGED <<applied, dirty>>
    BY <1>0, <1>7, UnlockType DEF ProcRecord
  <2>2. ProcOK(p)'
    BY <2>1 DEF ProcOK
  <2>3. \A c \in Locking : holder[c] # p => holder'[c] = holder[c]
    BY <1>7, UnlockedKeeps DEF Unlock
  <2> QED
    BY <1>0, <1>1, <1>7, <2>1, <2>2, <2>3, UnlockType, HistoryStep
<1>8. CASE Exit(p)
  <2>1. procs'[p] = Off /\ UNCHANGED <<applied, dirty>>
    BY <1>0, <1>8, ExitType DEF Exit
  <2>2. ProcOK(p)'
    BY <2>1 DEF ProcOK, Off, At
  <2>3. \A c \in Locking : holder[c] # p => holder'[c] = holder[c]
    BY <1>8, UnlockedKeeps DEF Exit, Gone
  <2> QED
    BY <1>0, <1>1, <1>8, <2>1, <2>2, <2>3, ExitType, HistoryStep
<1>9. CASE QueryFails(p)
  <2>1. procs'[p].pc = "failed" /\ UNCHANGED <<applied, dirty, holder>>
    BY <1>0, <1>9, QueryFailsType DEF ProcRecord
  <2>2. ProcOK(p)'
    BY <2>1 DEF ProcOK
  <2> QED
    BY <1>0, <1>1, <1>9, <2>1, <2>2, QueryFailsType, HistoryStep
<1> QED
  BY <1>2, <1>3, <1>4, <1>5, <1>6, <1>7, <1>8, <1>9

\* What a step of a worker may touch: its own connection, which nobody else holds.
LEMMA OwnTable ==
  ASSUME IInv, NEW p \in Process, procs[p].pc = "work",
         \A c \in Conn : c # Target(p) => applied'[c] = applied[c] /\ dirty'[c] = dirty[c]
  PROVE  \A c \in Locking : holder[c] # p => applied'[c] = applied[c] /\ dirty'[c] = dirty[c]
<1>1. Locking \subseteq Conn
  BY MigrationsAssumption
<1>2. Target(p) \in Locking => holder[Target(p)] = p
  BY DEF IInv, ProcOK
<1> QED
  BY <1>1, <1>2

\* The lowest pending version follows all that come before it.
LEMMA AddedInOrder ==
  ASSUME IInv, LinearHistory, NEW p \in Process, ~Rollback(p),
         NEW v \in procs[p].todo, Current(p, v),
         applied' = [applied EXCEPT ![Target(p)] = @ \cup {v}]
  PROVE  NoHoles'
<1> DEFINE d == Target(p)
<1>1. /\ procs[p].pc = "work" /\ d \in Conn /\ Directory(p, d) # None
      /\ applied \in [Conn -> SUBSET Version] /\ procs[p].todo \subseteq Version
      /\ \A w \in procs[p].todo : v <= w
  BY DEF Current, IInv, Typed, TypeOK, Opened, ProcRecord
<1>2. Locking \subseteq Conn
  BY MigrationsAssumption
<1>3. \A c \in Conn : Known(c) \subseteq Version
  BY FilesAssumption DEF Known
<1>4. SUFFICES ASSUME NEW c \in Locking, NEW u \in applied'[c], NEW w \in Known(c), w < u
               PROVE  w \in applied'[c]
  BY DEF NoHoles, Known, Directory, PathFor
<1>5. CASE u \in applied[c]
  BY <1>1, <1>2, <1>4, <1>5 DEF IInv, NoHoles
<1>6. CASE u \notin applied[c]
  <2>1. c = d /\ u = v
    BY <1>1, <1>2, <1>6
  <2>2. applied[d] \cup procs[p].todo = Directory(p, d)
    BY <1>1, <2>1 DEF IInv, ProcOK
  <2>3. w \in Directory(p, d)
    BY <1>1, <1>4, <2>1, <2>2 DEF LinearHistory
  <2>4. w \notin procs[p].todo
    BY <1>1, <1>2, <1>3, <1>4, <2>1 DEF Version
  <2> QED
    BY <1>1, <1>2, <2>1, <2>2, <2>3, <2>4
<1> QED
  BY <1>5, <1>6

LEMMA ApplyHistory ==
  ASSUME IInv, LinearHistory, NEW p \in Process, Apply(p)
  PROVE  IInv'
<1> DEFINE d == Target(p)
<1>0. Typed /\ procs[p] \in ProcRecord /\ applied \in [Conn -> SUBSET Version]
  BY DEF IInv, Typed, TypeOK
<1>1. /\ Typed' /\ OnlyProc(p) /\ UNCHANGED <<dirty, holder>>
      /\ d \in Conn /\ ~Rollback(p) /\ procs[p].pc = "work"
  BY <1>0, ApplyType
<1>2. PICK v \in procs[p].todo :
        /\ Current(p, v)
        /\ applied' = [applied EXCEPT ![d] = @ \cup {v}]
        /\ procs'[p] = [procs[p] EXCEPT !.todo = @ \ {v}]
  BY <1>0, ApplyType
<1>3. NoHoles'
  BY <1>1, <1>2, AddedInOrder
<1>4. /\ procs'[p].pc = "work" /\ procs'[p].target = d /\ procs'[p].todo = procs[p].todo \ {v}
      /\ procs'[p].command = procs[p].command /\ applied'[d] = applied[d] \cup {v}
  BY <1>0, <1>1, <1>2 DEF ProcRecord, Target
<1>5. d \in Locking => holder[d] = p /\ dirty[d] = {}
                       /\ applied[d] \cup procs[p].todo = Directory(p, d)
  BY <1>1 DEF IInv, ProcOK
<1> HIDE DEF d
<1>6. ProcOK(p)'
  BY <1>1, <1>2, <1>4, <1>5 DEF ProcOK, Target, Rollback
<1>7. \A c \in Locking : holder[c] # p => applied'[c] = applied[c] /\ dirty'[c] = dirty[c]
  BY <1>0, <1>1, <1>2, OwnTable DEF d
<1> QED
  BY <1>1, <1>3, <1>6, <1>7, HistoryStep

LEMMA RevertHistory ==
  ASSUME IInv, LinearHistory, NEW p \in Process, Revert(p)
  PROVE  IInv'
<1> DEFINE d == Target(p)
<1>0. Typed /\ procs[p] \in ProcRecord /\ applied \in [Conn -> SUBSET Version]
  BY DEF IInv, Typed, TypeOK
<1>1. /\ Typed' /\ OnlyProc(p) /\ UNCHANGED <<dirty, holder>>
      /\ d \in Conn /\ Rollback(p) /\ procs[p].pc = "work"
  BY <1>0, RevertType
<1>2. PICK v \in procs[p].todo :
        /\ Current(p, v)
        /\ applied' = [applied EXCEPT ![d] = @ \ {v}]
        /\ procs'[p] = [procs[p] EXCEPT !.todo = @ \ {v},
                                        !.undone = @ \cup (applied[d] \cap {v})]
  BY <1>0, RevertType
<1>3. d \in Locking => /\ holder[d] = p /\ dirty[d] = {} /\ applied[d] \subseteq Directory(p, d)
                       /\ procs[p].todo = {u \in applied[d] : u > procs[p].downTo}
  BY <1>1 DEF IInv, ProcOK
<1>4. /\ procs[p].downTo \in Nat /\ applied[d] \subseteq Version /\ v \in Version
      /\ \A w \in procs[p].todo : w <= v
  BY <1>0, <1>1, <1>2 DEF ProcRecord, Current
<1>5. /\ procs'[p].pc = "work" /\ procs'[p].target = d /\ procs'[p].todo = procs[p].todo \ {v}
      /\ procs'[p].command = procs[p].command /\ procs'[p].downTo = procs[p].downTo
      /\ applied'[d] = applied[d] \ {v}
  <2> DEFINE gone == applied[d] \cap {v}
  <2>1. procs'[p] = [procs[p] EXCEPT !.todo = @ \ {v}, !.undone = @ \cup gone]
    BY <1>2
  <2> HIDE DEF gone
  <2> QED
    BY <1>0, <1>1, <1>2, <2>1 DEF ProcRecord, Target
<1>6. NoHoles'
  <2>1. SUFFICES ASSUME NEW c \in Locking, NEW u \in applied'[c], NEW w \in Known(c), w < u
                 PROVE  w \in applied'[c]
    BY DEF NoHoles, Known, Directory, PathFor
  <2>2. Locking \subseteq Conn
    BY MigrationsAssumption
  <2>3. u \in applied[c] /\ w \in applied[c]
    BY <1>0, <1>1, <1>2, <2>1, <2>2 DEF IInv, NoHoles
  <2>4. CASE c # d
    BY <1>0, <1>1, <1>2, <2>2, <2>3, <2>4
  <2>5. CASE c = d
    <3>1. w # v
      <4>1. SUFFICES ASSUME w = v PROVE FALSE
        OBVIOUS
      <4>2. u \in Nat /\ v \in Nat /\ u > v /\ v > procs[p].downTo
        BY <1>2, <1>3, <1>4, <2>1, <2>3, <2>5, <4>1 DEF Version
      <4>3. u \in procs[p].todo
        BY <1>3, <1>4, <2>3, <2>5, <4>2
      <4> QED
        BY <1>4, <4>2, <4>3
    <3> QED
      BY <1>5, <2>3, <2>5, <3>1
  <2> QED
    BY <2>4, <2>5
<1> HIDE DEF d
<1>7. ProcOK(p)'
  BY <1>1, <1>2, <1>3, <1>5 DEF ProcOK, Target, Rollback
<1>8. \A c \in Locking : holder[c] # p => applied'[c] = applied[c] /\ dirty'[c] = dirty[c]
  BY <1>0, <1>1, <1>2, OwnTable DEF d
<1> QED
  BY <1>1, <1>6, <1>7, <1>8, HistoryStep

\* What a failed or dead worker leaves behind makes no hole either.
LEMMA LeftHistory ==
  ASSUME IInv, LinearHistory, NEW p \in Process, LeftBehind(p)
  PROVE  /\ NoHoles'
         /\ \A c \in Locking : holder[c] # p => applied'[c] = applied[c] /\ dirty'[c] = dirty[c]
<1>0. Typed /\ applied \in [Conn -> SUBSET Version] /\ dirty \in [Conn -> SUBSET Version]
  BY DEF IInv, Typed, TypeOK
<1>1. CASE UNCHANGED <<applied, dirty>>
  BY <1>1 DEF IInv, NoHoles
<1>2. CASE ~UNCHANGED <<applied, dirty>>
  <2>1. PICK v \in procs[p].todo :
          /\ Current(p, v)
          /\ Rollback(p) <=> v \in applied[Target(p)]
          /\ applied' = [applied EXCEPT ![Target(p)] = @ \cup {v}]
          /\ dirty' = [dirty EXCEPT ![Target(p)] = @ \cup {v}]
    BY <1>0, <1>2, LeftBehindType
  <2>2. procs[p].pc = "work" /\ Target(p) \in Conn
    BY <1>0, <1>2, LeftBehindType
  <2>3. \A c \in Locking : holder[c] # p => applied'[c] = applied[c] /\ dirty'[c] = dirty[c]
    BY <1>0, <2>1, <2>2, OwnTable
  <2>4. CASE Rollback(p)
    <3>1. applied' = applied
      BY <1>0, <2>1, <2>2, <2>4
    <3> QED
      BY <2>3, <3>1 DEF IInv, NoHoles
  <2>5. CASE ~Rollback(p)
    BY <2>1, <2>3, <2>5, AddedInOrder
  <2> QED
    BY <2>4, <2>5
<1> QED
  BY <1>1, <1>2

LEMMA FailureHistory ==
  ASSUME IInv, LinearHistory, NEW p \in Process, StatementFails(p) \/ Crash(p)
  PROVE  IInv'
<1>0. Typed /\ procs[p] \in ProcRecord
  BY DEF IInv, Typed, TypeOK
<1>1. LeftBehind(p)
  BY DEF StatementFails, Crash
<1>2. CASE StatementFails(p)
  <2>1. procs'[p] = [procs[p] EXCEPT !.pc = "failed"] /\ Typed' /\ OnlyProc(p)
    BY <1>0, <1>2, FailsType
  <2>2. procs'[p].pc = "failed"
    BY <1>0, <2>1 DEF ProcRecord
  <2>3. ProcOK(p)'
    BY <2>2 DEF ProcOK
  <2> QED
    BY <1>1, <1>2, <2>1, <2>3, LeftHistory, HistoryStep DEF StatementFails
<1>3. CASE Crash(p)
  <2>1. procs'[p] = Off /\ Typed' /\ OnlyProc(p)
    BY <1>0, <1>3, ExitType
  <2>2. ProcOK(p)'
    BY <2>1 DEF ProcOK, Off, At
  <2>3. \A c \in Locking : holder[c] # p => holder'[c] = holder[c]
    BY <1>3, UnlockedKeeps DEF Crash, Gone
  <2> QED
    BY <1>1, <2>1, <2>2, <2>3, LeftHistory, HistoryStep
<1> QED
  BY <1>2, <1>3

\* The invariant is inductive, whatever the releases, drivers and failures.
THEOREM Invariance == LinearHistory => (Spec => []IInv)
<1>1. Init => IInv
  BY InitType, MigrationsAssumption DEF Init, IInv, NoHoles, ProcOK, Off, At
<1>2. LinearHistory /\ IInv /\ [Next]_vars => IInv'
  <2>1. ASSUME IInv, UNCHANGED vars PROVE IInv'
    BY <2>1 DEF vars, IInv, Typed, TypeOK, Opened, NoHoles, ProcOK, Rollback, Target
  <2> QED
    BY <2>1, QuietHistory, ApplyHistory, RevertHistory, FailureHistory DEF Next, Proceed
<1>3. CASE LinearHistory
  <2>1. IInv /\ [Next]_vars => IInv'
    BY <1>2, <1>3
  <2> QED
    BY <1>1, <2>1, PTL DEF Spec
<1> QED
  BY <1>3

\* A database with a migration lock has no holes (migrate.rs, run_against).
THEOREM HistoryIsWhole == LinearHistory => (Spec => []NoHoles)
<1>1. IInv => NoHoles
  BY DEF IInv
<1> QED
  BY <1>1, Invariance, PTL

\* A migrate that succeeds leaves the database at its own release.
THEOREM ReleaseIsReached == LinearHistory => (Spec => []MigratedMeansReleased)
<1>1. IInv => MigratedMeansReleased
  BY DEF IInv, ProcOK, MigratedMeansReleased
<1> QED
  BY <1>1, Invariance, PTL
=============================================================================
