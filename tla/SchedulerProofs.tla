---------------------------- MODULE SchedulerProofs ----------------------------
(***************************************************************************)
(* Proofs about Scheduler, for every schedule, bounds and sequence of      *)
(* delays, failures and signals: the discipline of the overlap locks, and  *)
(* when an occurrence is found due again or missed; and about ScheduleRun. *)
(***************************************************************************)
EXTENDS Scheduler, ScheduleRun, WellFoundedInduction, TLAPS

Statuses == {"ok", "failed", "panicked"}

\* A set of numbers has a least one.
LEMMA Least ==
  ASSUME NEW S \in SUBSET Nat, S # {}
  PROVE  \E x \in S : \A y \in S : x <= y
<1>1. PICK x \in S : \A y \in S : ~(<<y, x>> \in OpToRel(<, Nat))
  BY NatLessThanWellFounded, WFMin
<1>2. \A y \in S : ~(y < x)
  BY <1>1 DEF OpToRel
<1> QED
  BY <1>2

LEMMA MinIsLeast ==
  ASSUME NEW S \in SUBSET Nat, S # {}
  PROVE  Min(S) \in S /\ \A y \in S : Min(S) <= y
  BY Least DEF Min

-----------------------------------------------------------------------------
\* Types.

LEMMA InitEmpty == Init => DOMAIN locks = {} /\ DOMAIN runs = {}
<1>1. DOMAIN <<>> = {}
  OBVIOUS
<1> QED
  BY <1>1 DEF Init

LEMMA InitType == Init => Numbered
<1> SUFFICES ASSUME Init PROVE Numbered
  OBVIOUS
<1>1. DOMAIN locks = {} /\ DOMAIN runs = {}
  BY InitEmpty
<1>2. spawned \in [Event -> Nat]
  BY DEF Init
<1>3. /\ now \in Nat /\ since \in Nat /\ wake \in Nat /\ pc = "plan" /\ due = {}
      /\ stop \in BOOLEAN /\ inflight = {} /\ readings = {}
  BY DEF Init
<1> QED
  BY <1>1, <1>2, <1>3 DEF Numbered, TypeOK

LEMMA OccurrencesTyped ==
  /\ Occurrences \in SUBSET Nat
  /\ \A o : o \in Occurrences <=> \E e \in Event : o \in Occurs[e]
  BY SchedulerAssumption, DueAssumption DEF Occurrences, Range

LEMMA UntilNextType ==
  ASSUME NEW t \in Nat
  PROVE  UntilNext(t) \in Nat
<1> DEFINE next == {o \in Occurrences : o > t}
<1>1. next \in SUBSET Nat
  BY OccurrencesTyped
<1>2. CASE next = {}
  BY <1>2, SchedulerAssumption, DueAssumption DEF UntilNext
<1>3. CASE next # {}
  <2>1. Min(next) \in next
    BY <1>1, <1>3, MinIsLeast
  <2>2. Min(next) - t \in Nat
    BY <1>1, <2>1
  <2> QED
    BY <1>3, <2>2, SchedulerAssumption, DueAssumption DEF UntilNext
<1> QED
  BY <1>2, <1>3

\* What a dispatch makes of the runs and of the locks.
LEMMA DispatchFacts ==
  ASSUME Numbered, NEW e \in Event, Dispatch(e)
  PROVE  LET r == <<e, spawned[e] + 1>>
         IN  /\ r \notin DOMAIN runs /\ r \in Event \X Nat
             /\ DOMAIN runs' = DOMAIN runs \cup {r}
             /\ \A s \in DOMAIN runs : runs'[s] = runs[s]
             /\ runs'[r] = [at |-> now, status |-> "running"]
             /\ e \in Exclusive => /\ DOMAIN locks' = DOMAIN locks \cup {Id[e]}
                                   /\ locks'[Id[e]] = now
                                   /\ \A id \in DOMAIN locks \ {Id[e]} : locks'[id] = locks[id]
             /\ e \notin Exclusive => locks' = locks
             /\ inflight' = inflight \cup {r}
             /\ spawned'[e] = spawned[e] + 1 /\ spawned' \in [Event -> Nat]
             /\ \A f \in Event \ {e} : spawned'[f] = spawned[f]
<1> DEFINE r == <<e, spawned[e] + 1>>
<1>1. spawned \in [Event -> Nat] /\ \A s \in DOMAIN runs : s[2] <= spawned[s[1]]
  BY DEF Numbered, TypeOK
<1>2. r \notin DOMAIN runs /\ r \in Event \X Nat
  BY <1>1
<1>3. /\ runs' = [s \in DOMAIN runs \cup {r} |->
                    IF s = r THEN [at |-> now, status |-> "running"] ELSE runs[s]]
      /\ locks' = IF e \in Exclusive THEN Acquire(Id[e]) ELSE locks
      /\ inflight' = inflight \cup {r}
      /\ spawned' = [spawned EXCEPT ![e] = @ + 1]
  BY DEF Dispatch
<1> HIDE DEF r
<1>4. /\ DOMAIN runs' = DOMAIN runs \cup {r}
      /\ \A s \in DOMAIN runs : runs'[s] = runs[s]
      /\ runs'[r] = [at |-> now, status |-> "running"]
  BY <1>2, <1>3
<1>5. /\ e \in Exclusive => /\ DOMAIN locks' = DOMAIN locks \cup {Id[e]}
                            /\ locks'[Id[e]] = now
                            /\ \A id \in DOMAIN locks \ {Id[e]} : locks'[id] = locks[id]
      /\ e \notin Exclusive => locks' = locks
  BY <1>3 DEF Acquire
<1>6. /\ spawned'[e] = spawned[e] + 1 /\ spawned' \in [Event -> Nat]
      /\ \A f \in Event \ {e} : spawned'[f] = spawned[f]
  BY <1>1, <1>3
<1> QED
  BY <1>2, <1>3, <1>4, <1>5, <1>6 DEF r

LEMMA PassFacts ==
  ASSUME NEW e \in Event, Skip(e) \/ Dispatch(e)
  PROVE  /\ pc = "dispatch" /\ pc' \in {"plan", "dispatch"}
         /\ e \in due /\ due' = due \ {e}
         /\ now' = now /\ since' = since /\ wake' = wake /\ stop' = stop /\ readings' = readings
  BY DEF Skip, Dispatch, PassOn

LEMMA DispatchType ==
  ASSUME Numbered, NEW e \in Event, Dispatch(e)
  PROVE  Numbered'
<1> DEFINE r == <<e, spawned[e] + 1>>
<1>0. TypeOK /\ \A s \in DOMAIN runs : s[2] \in 1..spawned[s[1]]
  BY DEF Numbered
<1>1. /\ r \in Event \X Nat /\ r[1] = e /\ r[2] = spawned[e] + 1
      /\ DOMAIN runs' = DOMAIN runs \cup {r}
      /\ \A s \in DOMAIN runs : runs'[s] = runs[s]
      /\ runs'[r] = [at |-> now, status |-> "running"]
      /\ inflight' = inflight \cup {r}
      /\ spawned'[e] = spawned[e] + 1 /\ spawned' \in [Event -> Nat]
      /\ \A f \in Event \ {e} : spawned'[f] = spawned[f]
  BY DispatchFacts
<1>2. /\ now' \in Nat /\ since' \in Nat /\ wake' \in Nat /\ stop' \in BOOLEAN
      /\ pc' \in {"plan", "dispatch"} /\ due' \subseteq Event /\ readings' \subseteq Nat
  BY <1>0, PassFacts DEF TypeOK
<1> HIDE DEF r
<1>3. \A id \in DOMAIN locks' : locks'[id] \in Nat
  <2>1. /\ e \in Exclusive => /\ DOMAIN locks' = DOMAIN locks \cup {Id[e]}
                              /\ locks'[Id[e]] = now
                              /\ \A id \in DOMAIN locks \ {Id[e]} : locks'[id] = locks[id]
        /\ e \notin Exclusive => locks' = locks
    BY DispatchFacts
  <2>2. now \in Nat /\ \A id \in DOMAIN locks : locks[id] \in Nat
    BY <1>0 DEF TypeOK
  <2> QED
    BY <2>1, <2>2
<1>4. \A s \in DOMAIN runs' : /\ s \in Event \X Nat /\ s[2] \in 1..spawned'[s[1]]
                              /\ runs'[s] \in [at : Nat, status : {"running"} \cup Statuses]
  <2> SUFFICES ASSUME NEW s \in DOMAIN runs'
               PROVE  /\ s \in Event \X Nat /\ s[2] \in 1..spawned'[s[1]]
                      /\ runs'[s] \in [at : Nat, status : {"running"} \cup Statuses]
    OBVIOUS
  <2>1. spawned \in [Event -> Nat] /\ now \in Nat
    BY <1>0 DEF TypeOK
  <2>2. CASE s \in DOMAIN runs
    <3>1. s \in Event \X Nat /\ s[2] \in 1..spawned[s[1]] /\ runs'[s] = runs[s]
      BY <1>0, <1>1, <2>2 DEF TypeOK
    <3>2. runs[s] \in [at : Nat, status : {"running"} \cup Statuses]
      BY <1>0, <2>2 DEF TypeOK, Statuses
    <3>3. spawned[s[1]] <= spawned'[s[1]] /\ spawned'[s[1]] \in Nat /\ spawned[s[1]] \in Nat
      BY <1>1, <2>1, <3>1
    <3> QED
      BY <3>1, <3>2, <3>3
  <2>3. CASE s = r
    <3>1. spawned[e] \in Nat
      BY <2>1
    <3> QED
      BY <1>1, <2>1, <2>3, <3>1
  <2> QED
    BY <1>1, <2>2, <2>3
<1>5. inflight' \subseteq Event \X Nat
  BY <1>0, <1>1 DEF TypeOK
<1> QED
  BY <1>1, <1>2, <1>3, <1>4, <1>5 DEF Numbered, TypeOK, Statuses

LEMMA JoinFacts ==
  ASSUME NEW r \in DOMAIN runs, Join(r)
  PROVE  /\ DOMAIN runs' = DOMAIN runs \ {r} /\ \A s \in DOMAIN runs' : runs'[s] = runs[s]
         /\ DOMAIN locks' = DOMAIN locks \ Freed(r)
         /\ \A id \in DOMAIN locks' : locks'[id] = locks[id]
  BY DEF Join, Release, Restrict

LEMMA FinishFacts ==
  ASSUME Numbered, NEW r \in DOMAIN runs, NEW status \in Statuses, Finish(r, status)
  PROVE  /\ DOMAIN runs' = DOMAIN runs /\ \A s \in DOMAIN runs \ {r} : runs'[s] = runs[s]
         /\ runs'[r].at = runs[r].at /\ runs'[r].status = status
         /\ runs'[r] \in [at : Nat, status : {"running"} \cup Statuses]
  BY DEF Finish, Numbered, TypeOK, Statuses

LEMMA TypeStep == Numbered /\ [Next]_vars => Numbered'
<1> SUFFICES ASSUME Numbered, [Next]_vars PROVE Numbered'
  OBVIOUS
<1> USE DEF Numbered, TypeOK
<1>1. CASE Plan
  BY <1>1, UntilNextType DEF Plan
<1>2. ASSUME NEW e \in Event, Dispatch(e) PROVE Numbered'
  BY <1>2, DispatchType
<1>3. ASSUME NEW e \in Event, Skip(e) PROVE Numbered'
  BY <1>3, PassFacts DEF Skip
<1>4. CASE Wake \/ Shutdown \/ Stop \/ Signal
  BY <1>4 DEF Wake, Shutdown, Stop, Signal, loop
<1>5. CASE Reaped \/ Look
  BY <1>5 DEF Reaped, Look
<1>6. CASE Tick
  BY <1>6 DEF Tick, loop
<1>7. ASSUME NEW r \in DOMAIN runs, Join(r) PROVE Numbered'
  BY <1>7, JoinFacts DEF Join, loop
<1>8. ASSUME NEW r \in DOMAIN runs, NEW status \in Statuses, Finish(r, status) PROVE Numbered'
  BY <1>8, FinishFacts DEF Finish, loop, Statuses
<1>9. CASE UNCHANGED vars
  BY <1>9 DEF vars, loop
<1> QED
  BY <1>1, <1>2, <1>3, <1>4, <1>5, <1>6, <1>7, <1>8, <1>9 DEF Next, LoopStep, Statuses

\* Clocks, locks, runs and counters always have the shape scheduler.rs and
\* lock.rs give them, and a run is never numbered beyond its event's counter.
THEOREM TypeCorrect == Spec => []TypeOK
<1>1. Numbered => TypeOK
  BY DEF Numbered
<1> QED
  BY <1>1, InitType, TypeStep, PTL DEF Spec

-----------------------------------------------------------------------------
(***************************************************************************)
(* Locks and their owners.                                                 *)
(***************************************************************************)
LEMMA OwnInit == Init => OwnInv
  BY InitType, InitEmpty DEF OwnInv, LocksAreOwned, Init

LEMMA OwnDispatch ==
  ASSUME OwnInv, NEW e \in Event, Dispatch(e)
  PROVE  OwnInv'
<1> DEFINE r == <<e, spawned[e] + 1>>
<1>0. Numbered /\ LocksAreOwned /\ inflight = DOMAIN runs
  BY PassFacts DEF OwnInv
<1>1. /\ DOMAIN runs' = DOMAIN runs \cup {r} /\ r[1] = e /\ inflight' = inflight \cup {r}
      /\ \A s \in DOMAIN runs : runs'[s] = runs[s]
      /\ runs'[r] = [at |-> now, status |-> "running"]
  BY <1>0, DispatchFacts
<1>2. /\ e \in Exclusive => /\ DOMAIN locks' = DOMAIN locks \cup {Id[e]}
                            /\ locks'[Id[e]] = now
                            /\ \A id \in DOMAIN locks \ {Id[e]} : locks'[id] = locks[id]
      /\ e \notin Exclusive => locks' = locks
  BY <1>0, DispatchFacts
<1> HIDE DEF r
<1>3. \A s \in DOMAIN runs' : Locking(s) => runs'[s].status # "panicked"
  BY <1>1 DEF OwnInv
<1>4. ASSUME NEW id \in DOMAIN locks'
      PROVE  \E s \in DOMAIN runs' : Locking(s) /\ IdOf(s) = id /\ runs'[s].at = locks'[id]
  <2>1. CASE e \in Exclusive /\ id = Id[e]
    <3>1. Locking(r) /\ IdOf(r) = id /\ runs'[r].at = locks'[id]
      BY <1>1, <1>2, <2>1 DEF Locking, IdOf
    <3> QED
      BY <1>1, <3>1
  <2>2. CASE ~(e \in Exclusive /\ id = Id[e])
    <3>1. id \in DOMAIN locks /\ locks'[id] = locks[id]
      BY <1>2, <1>4, <2>2
    <3>2. PICK s \in DOMAIN runs : Locking(s) /\ IdOf(s) = id /\ runs[s].at = locks[id]
      BY <1>0, <3>1 DEF LocksAreOwned
    <3> QED
      BY <1>1, <3>1, <3>2
  <2> QED
    BY <2>1, <2>2
<1>5. Numbered'
  BY <1>0, DispatchType
<1>6. inflight' = DOMAIN runs'
  BY <1>0, <1>1
<1> QED
  BY <1>3, <1>4, <1>5, <1>6 DEF OwnInv, LocksAreOwned, Locking, IdOf

LEMMA OwnJoin ==
  ASSUME OwnInv, Numbered', NEW r \in DOMAIN runs, Join(r)
  PROVE  OwnInv'
<1>0. LocksAreOwned /\ pc' \notin {"look", "dispatch"}
  BY DEF OwnInv, Join, loop
<1>1. /\ DOMAIN runs' = DOMAIN runs \ {r} /\ \A s \in DOMAIN runs' : runs'[s] = runs[s]
      /\ DOMAIN locks' = DOMAIN locks \ Freed(r)
      /\ \A id \in DOMAIN locks' : locks'[id] = locks[id]
  BY JoinFacts
<1>2. \A id \in DOMAIN locks' : ~(Locking(r) /\ IdOf(r) = id)
  BY <1>1 DEF Freed, OwnInv
<1>3. ASSUME NEW id \in DOMAIN locks'
      PROVE  \E s \in DOMAIN runs' : Locking(s) /\ IdOf(s) = id /\ runs'[s].at = locks'[id]
  <2>1. id \in DOMAIN locks /\ locks'[id] = locks[id]
    BY <1>1, <1>3
  <2>2. PICK s \in DOMAIN runs : Locking(s) /\ IdOf(s) = id /\ runs[s].at = locks[id]
    BY <1>0, <2>1 DEF LocksAreOwned
  <2>3. s \in DOMAIN runs' /\ runs'[s] = runs[s]
    BY <1>1, <1>2, <1>3, <2>2
  <2> QED
    BY <2>1, <2>2, <2>3
<1> QED
  BY <1>0, <1>1, <1>3 DEF OwnInv, LocksAreOwned, Locking, IdOf

LEMMA OwnFinish ==
  ASSUME NoExclusivePanic, OwnInv, Numbered', NEW r \in DOMAIN runs,
         NEW status \in Statuses, Finish(r, status)
  PROVE  OwnInv'
<1>0. Numbered /\ LocksAreOwned
  BY DEF OwnInv
<1>1. /\ DOMAIN runs' = DOMAIN runs /\ \A s \in DOMAIN runs \ {r} : runs'[s] = runs[s]
      /\ runs'[r].at = runs[r].at /\ runs'[r].status = status
  BY <1>0, FinishFacts
<1>2. Locking(r) => status # "panicked"
  BY DEF Finish, NoExclusivePanic, Locking
<1>3. locks' = locks /\ pc' = pc /\ inflight' = inflight
  BY DEF Finish, loop
<1>4. \A s \in DOMAIN runs' : Locking(s) => runs'[s].status # "panicked"
  BY <1>1, <1>2 DEF OwnInv, Locking
<1>5. \A s \in DOMAIN runs' : runs'[s].at = runs[s].at
  BY <1>1
<1>6. LocksAreOwned'
  BY <1>0, <1>1, <1>3, <1>5 DEF LocksAreOwned, Locking, IdOf
<1> QED
  BY <1>1, <1>3, <1>4, <1>6 DEF OwnInv, Locking

LEMMA OwnStep == NoExclusivePanic /\ OwnInv /\ [Next]_vars => OwnInv'
<1> SUFFICES ASSUME NoExclusivePanic, OwnInv, [Next]_vars PROVE OwnInv'
  OBVIOUS
<1>0. Numbered /\ Numbered' /\ LocksAreOwned
  BY TypeStep DEF OwnInv
<1>1. CASE UNCHANGED <<locks, runs>> /\ pc' \notin {"look", "dispatch"}
  BY <1>0, <1>1 DEF OwnInv, LocksAreOwned, Locking, IdOf
<1>2. CASE UNCHANGED <<locks, runs, inflight>> /\ (pc' \in {"look", "dispatch"} => pc \in {"look", "dispatch"})
  BY <1>0, <1>2 DEF OwnInv, LocksAreOwned, Locking, IdOf
<1>3. CASE Reaped
  <2>1. locks' = locks /\ runs' = runs /\ inflight' = DOMAIN runs
    BY <1>3 DEF Reaped, Ended
  <2> QED
    BY <1>0, <2>1 DEF OwnInv, LocksAreOwned, Locking, IdOf
<1>4. ASSUME NEW e \in Event, Dispatch(e) PROVE OwnInv'
  BY <1>4, OwnDispatch
<1>5. ASSUME NEW e \in Event, Skip(e) PROVE OwnInv'
  <2>1. pc = "dispatch" /\ UNCHANGED <<locks, runs, inflight>>
    BY <1>5, PassFacts DEF Skip
  <2> QED
    BY <1>2, <2>1
<1>6. ASSUME NEW r \in DOMAIN runs, Join(r) PROVE OwnInv'
  BY <1>0, <1>6, OwnJoin
<1>7. ASSUME NEW r \in DOMAIN runs, NEW status \in Statuses, Finish(r, status) PROVE OwnInv'
  BY <1>0, <1>7, OwnFinish
<1>8. CASE Plan \/ Wake \/ Shutdown \/ Stop
  BY <1>1, <1>8 DEF Plan, Wake, Shutdown, Stop
<1>9. CASE Look \/ Signal \/ Tick \/ UNCHANGED vars
  BY <1>2, <1>9 DEF Look, Signal, Tick, vars, loop
<1> QED
  BY <1>3, <1>4, <1>5, <1>6, <1>7, <1>8, <1>9 DEF Next, LoopStep, Statuses

\* Unless an exclusive task panics, every lock in the store belongs to a run that
\* has not been reaped: dispatch_due locks what it spawns, and handle_join
\* releases what has ended (scheduler.rs).
THEOREM LocksOwned == NoExclusivePanic => (Spec => []LocksAreOwned)
<1> SUFFICES ASSUME NoExclusivePanic PROVE Spec => []LocksAreOwned
  OBVIOUS
<1>1. Init => OwnInv
  BY OwnInit
<1>2. OwnInv /\ [Next]_vars => OwnInv'
  BY OwnStep
<1>3. OwnInv => LocksAreOwned
  BY DEF OwnInv
<1> QED
  BY <1>1, <1>2, <1>3, PTL DEF Spec

\* An event that the pass leaves behind without a run is skipped for its lock, and
\* the lock's owner is among the runs that the reaping left or the pass spawned.
LEMMA SkippedStep ==
  ASSUME OwnInv, [Next]_vars, NEW e \in due \ due', pc = "dispatch", spawned'[e] = spawned[e]
  PROVE  \E r \in inflight : Locking(r) /\ IdOf(r) = Id[e]
<1>0. Numbered /\ TypeOK /\ inflight = DOMAIN runs /\ LocksAreOwned /\ e \in Event
  BY DEF OwnInv, Numbered, TypeOK
<1>1. PICK f \in Event : Skip(f) \/ Dispatch(f)
  BY DEF Next, LoopStep, vars, loop, Plan, Wake, Shutdown, Reaped, Look, Stop, Signal, Tick,
         Join, Finish
<1>2. f = e
  BY <1>1, PassFacts
<1>3. ~Dispatch(e)
  <2> SUFFICES ASSUME Dispatch(e) PROVE FALSE
    OBVIOUS
  <2>1. spawned'[e] = spawned[e] + 1 /\ spawned[e] \in Nat
    BY <1>0, DispatchFacts DEF TypeOK
  <2> QED
    BY <2>1
<1>4. Id[e] \in DOMAIN locks
  BY <1>1, <1>2, <1>3 DEF Skip, Free
<1> QED
  BY <1>0, <1>4 DEF LocksAreOwned

\* Unless an exclusive task panics, an event is skipped because of its lock only
\* for a run of its task that was in progress when the reaping before the pass
\* ended, or that the pass itself spawned, whenever tasks end during the pass
\* (reap, dispatch_due and handle_join, scheduler.rs).
THEOREM SkippedForARun == NoExclusivePanic => (Spec => SkippedOnlyForARun)
<1> SUFFICES ASSUME NoExclusivePanic PROVE Spec => SkippedOnlyForARun
  OBVIOUS
<1>1. OwnInv /\ [Next]_vars => OwnInv'
  BY OwnStep
<1>2. OwnInv /\ [Next]_vars =>
        [\A e \in due \ due' : pc = "dispatch" /\ spawned'[e] = spawned[e] =>
           \E r \in inflight : Locking(r) /\ IdOf(r) = Id[e]]_vars
  BY SkippedStep
<1> QED
  BY <1>1, <1>2, OwnInit, PTL DEF Spec, SkippedOnlyForARun

\* Unless an exclusive task panics, a stopped loop leaves neither a run nor a
\* lock behind (Scheduler::work drains the tasks in flight before it returns).
THEOREM DrainedClean == NoExclusivePanic => (Spec => []StoppedIsClean)
<1> SUFFICES ASSUME NoExclusivePanic PROVE Spec => []StoppedIsClean
  OBVIOUS
<1> DEFINE I == OwnInv /\ (pc = "stopped" => DOMAIN runs = {})
<1>1. Init => I
  BY OwnInit DEF Init
<1>2. I /\ [Next]_vars => I'
  <2> SUFFICES ASSUME I, [Next]_vars, pc' = "stopped" PROVE DOMAIN runs' = {}
    BY OwnStep
  <2>1. CASE Stop
    BY <2>1 DEF Stop
  <2>2. ASSUME NEW e \in Event, Skip(e) \/ Dispatch(e) PROVE FALSE
    BY <2>2, PassFacts
  <2>3. CASE UNCHANGED <<pc, runs>>
    BY <2>3
  <2>4. ASSUME NEW r \in DOMAIN runs, Join(r) \/ \E s \in Statuses : Finish(r, s) PROVE FALSE
    BY <2>4 DEF Join, Finish, loop
  <2> QED
    BY <2>1, <2>2, <2>3, <2>4
    DEF Next, LoopStep, Statuses, vars, loop, Plan, Wake, Shutdown, Reaped, Look, Signal, Tick
<1>3. I => StoppedIsClean
  BY DEF OwnInv, LocksAreOwned, StoppedIsClean
<1> QED
  BY <1>1, <1>2, <1>3, PTL DEF Spec

-----------------------------------------------------------------------------
(***************************************************************************)
(* Runs of one task do not overlap.                                        *)
(***************************************************************************)
LEMMA LockInit == Init => LockInv
<1> SUFFICES ASSUME Init PROVE LockInv
  OBVIOUS
<1>1. now = 0 /\ since = 0 /\ pc = "plan"
  BY DEF Init
<1> QED
  BY <1>1, InitType, InitEmpty, SchedulerAssumption, DueAssumption DEF LockInv

\* Between the end of the reaping and the end of the pass no run is so old that
\* its lock has expired.
LEMMA HeldInPass ==
  ASSUME ShortRuns, LockInv, pc = "dispatch", NEW r \in DOMAIN runs, Locking(r)
  PROVE  ~Free(IdOf(r))
<1>1. /\ now \in Nat /\ since \in Nat /\ runs[r].at \in Nat
      /\ IdOf(r) \in DOMAIN locks /\ locks[IdOf(r)] = runs[r].at
      /\ since <= runs[r].at + MaxRun /\ now <= since + MaxGap
  BY DEF LockInv, Awake, Numbered, TypeOK
<1>2. ~(now - runs[r].at >= Ttl)
  BY <1>1, SchedulerAssumption, DueAssumption DEF ShortRuns
<1> QED
  BY <1>1, <1>2 DEF Free

\* The lock of a run that was not reaped is not free, so its id is not taken again.
LEMMA LockDispatch ==
  ASSUME ShortRuns, LockInv, NEW e \in Event, Dispatch(e)
  PROVE  LockInv'
<1> DEFINE r == <<e, spawned[e] + 1>>
<1>0. Numbered /\ TypeOK /\ pc = "dispatch"
  BY PassFacts DEF LockInv, Numbered
<1>1. /\ DOMAIN runs' = DOMAIN runs \cup {r} /\ r[1] = e /\ r \notin DOMAIN runs
      /\ \A s \in DOMAIN runs : runs'[s] = runs[s]
      /\ runs'[r] = [at |-> now, status |-> "running"]
  BY <1>0, DispatchFacts
<1>2. /\ e \in Exclusive => /\ DOMAIN locks' = DOMAIN locks \cup {Id[e]}
                            /\ locks'[Id[e]] = now
                            /\ \A id \in DOMAIN locks \ {Id[e]} : locks'[id] = locks[id]
      /\ e \notin Exclusive => locks' = locks
  BY <1>0, DispatchFacts
<1>3. /\ now' = now /\ since' = since /\ now \in Nat /\ since \in Nat
      /\ since <= now /\ now <= since + MaxGap
  BY <1>0, PassFacts DEF LockInv, Awake, TypeOK
<1> HIDE DEF r
<1>4. ASSUME NEW s \in DOMAIN runs, Locking(s), e \in Exclusive PROVE IdOf(s) # Id[e]
  <2>1. Free(Id[e])
    BY <1>4 DEF Dispatch
  <2> QED
    BY <1>0, <1>4, <2>1, HeldInPass
<1>5. Locking(r) <=> e \in Exclusive
  BY <1>1 DEF Locking
<1>6. IdOf(r) = Id[e] /\ runs'[r].at = now /\ runs'[r].status = "running"
  BY <1>1 DEF IdOf
<1>7. \A s \in DOMAIN runs' : Locking(s) =>
        IdOf(s) \in DOMAIN locks' /\ locks'[IdOf(s)] = runs'[s].at
  <2>1. ASSUME NEW s \in DOMAIN runs, Locking(s)
        PROVE  IdOf(s) \in DOMAIN locks' /\ locks'[IdOf(s)] = runs'[s].at
    <3>1. IdOf(s) \in DOMAIN locks /\ locks[IdOf(s)] = runs[s].at
      BY <2>1 DEF LockInv
    <3> QED
      BY <1>1, <1>2, <1>4, <2>1, <3>1
  <2> QED
    BY <1>1, <1>2, <1>5, <1>6, <2>1
<1>8. \A s, t \in DOMAIN runs' : Locking(s) /\ Locking(t) /\ IdOf(s) = IdOf(t) => s = t
  <2>1. \A s, t \in DOMAIN runs : Locking(s) /\ Locking(t) /\ IdOf(s) = IdOf(t) => s = t
    BY DEF LockInv
  <2> QED
    BY <1>1, <1>4, <1>5, <1>6, <2>1
<1>9. \A s \in DOMAIN runs' : /\ runs'[s].status = "running" => now' <= runs'[s].at + MaxRun
                              /\ since' <= runs'[s].at + MaxRun
  <2>1. now <= now + MaxRun /\ since <= now + MaxRun
    BY <1>3, SchedulerAssumption, DueAssumption
  <2>2. \A s \in DOMAIN runs : /\ runs[s].status = "running" => now <= runs[s].at + MaxRun
                               /\ since <= runs[s].at + MaxRun
    BY <1>0 DEF LockInv, Running
  <2> QED
    BY <1>1, <1>3, <1>6, <2>1, <2>2
<1>10. Numbered'
  BY <1>0, DispatchType
<1> QED
  BY <1>3, <1>7, <1>8, <1>9, <1>10 DEF LockInv, Locking, IdOf, Running

LEMMA LockJoin ==
  ASSUME LockInv, Numbered', NEW r \in DOMAIN runs, Join(r)
  PROVE  LockInv'
<1>1. /\ DOMAIN runs' = DOMAIN runs \ {r} /\ \A s \in DOMAIN runs' : runs'[s] = runs[s]
      /\ DOMAIN locks' = DOMAIN locks \ Freed(r)
      /\ \A id \in DOMAIN locks' : locks'[id] = locks[id]
  BY JoinFacts
<1>2. \A s \in DOMAIN runs' : Locking(s) => IdOf(s) \notin Freed(r)
  BY <1>1 DEF Freed, LockInv
<1>3. now' = now /\ since' = since /\ pc' = pc
  BY DEF Join, loop
<1> QED
  BY <1>1, <1>2, <1>3 DEF LockInv, Locking, IdOf, Running, Awake

\* A step that leaves runs and locks alone.
LEMMA LockQuiet ==
  ASSUME LockInv, Numbered', UNCHANGED <<locks, runs>>,
         since' <= now', Awake' => now' <= since' + MaxGap,
         \A r \in DOMAIN runs : Running(r) => now' <= runs[r].at + MaxRun,
         pc' \in {"look", "dispatch"} => \A r \in DOMAIN runs : since' <= runs[r].at + MaxRun
  PROVE  LockInv'
<1>1. \A r \in DOMAIN runs' : Locking(r)' <=> Locking(r)
  BY DEF Locking
<1>2. \A r \in DOMAIN runs' : IdOf(r)' = IdOf(r) /\ (Running(r)' <=> Running(r))
  BY DEF IdOf, Running
<1> QED
  BY <1>1, <1>2 DEF LockInv

LEMMA LockStep == ShortRuns /\ LockInv /\ [Next]_vars => LockInv'
<1> SUFFICES ASSUME ShortRuns, LockInv, [Next]_vars PROVE LockInv'
  OBVIOUS
<1>0. /\ Numbered /\ Numbered' /\ TypeOK /\ now \in Nat /\ since \in Nat /\ since <= now
      /\ \A r \in DOMAIN runs : runs[r].at \in Nat
      /\ \A r \in DOMAIN runs : Running(r) => now <= runs[r].at + MaxRun
      /\ MaxGap \in Nat /\ MaxRun \in Nat
  BY TypeStep, SchedulerAssumption, DueAssumption DEF LockInv, Numbered, TypeOK
<1>1. ASSUME UNCHANGED <<now, since, locks, runs>>, Awake' => Awake,
             pc' \in {"look", "dispatch"} => pc \in {"look", "dispatch"}
      PROVE  LockInv'
  <2>1. Awake' => now' <= since' + MaxGap
    BY <1>1 DEF LockInv
  <2>2. pc' \in {"look", "dispatch"} => \A r \in DOMAIN runs : since' <= runs[r].at + MaxRun
    BY <1>1 DEF LockInv
  <2>3. \A r \in DOMAIN runs : Running(r) => now' <= runs[r].at + MaxRun
    BY <1>0, <1>1
  <2>4. since' <= now'
    BY <1>0, <1>1
  <2> QED
    BY <1>0, <1>1, <2>1, <2>2, <2>3, <2>4, LockQuiet
<1>2. ASSUME NEW e \in Event, Dispatch(e) PROVE LockInv'
  BY <1>2, LockDispatch
<1>3. CASE Tick
  <2>1. /\ now' = now + 1 /\ since' = since /\ pc' = pc /\ locks' = locks /\ runs' = runs
        /\ Awake => now < since + MaxGap
        /\ \A r \in DOMAIN runs : Running(r) => now < runs[r].at + MaxRun
    BY <1>3 DEF Tick, loop
  <2>2. \A r \in DOMAIN runs : Running(r) => now' <= runs[r].at + MaxRun
    BY <1>0, <2>1
  <2>3. since' <= now' /\ (Awake' => now' <= since' + MaxGap)
    BY <1>0, <2>1 DEF Awake
  <2>4. pc' \in {"look", "dispatch"} => \A r \in DOMAIN runs : since' <= runs[r].at + MaxRun
    BY <2>1 DEF LockInv
  <2> QED
    BY <1>0, <2>1, <2>2, <2>3, <2>4, LockQuiet
<1>4. ASSUME NEW r \in DOMAIN runs, Join(r) PROVE LockInv'
  BY <1>0, <1>4, LockJoin
<1>5. ASSUME NEW r \in DOMAIN runs, NEW status \in Statuses, Finish(r, status) PROVE LockInv'
  <2>1. /\ DOMAIN runs' = DOMAIN runs /\ \A s \in DOMAIN runs \ {r} : runs'[s] = runs[s]
        /\ runs'[r].at = runs[r].at /\ runs'[r].status = status
    BY <1>0, <1>5, FinishFacts
  <2>2. now' = now /\ since' = since /\ pc' = pc /\ locks' = locks /\ Running(r)
    BY <1>5 DEF Finish, loop
  <2>3. \A s \in DOMAIN runs' : /\ runs'[s].at = runs[s].at
                               /\ runs'[s].status = "running" => Running(s)
    BY <2>1, <2>2 DEF Running
  <2> QED
    BY <1>0, <2>1, <2>2, <2>3 DEF LockInv, Locking, IdOf, Running, Awake
<1>6. CASE Plan \/ Wake
  <2>1. /\ now' = now /\ since' = now /\ pc' \in {"sleep", "reap"} /\ locks' = locks /\ runs' = runs
    BY <1>6 DEF Plan, Wake
  <2>2. since' <= now' /\ now' <= since' + MaxGap
    BY <1>0, <2>1
  <2>3. \A r \in DOMAIN runs : Running(r) => now' <= runs[r].at + MaxRun
    BY <1>0, <2>1
  <2> QED
    BY <1>0, <2>1, <2>2, <2>3, LockQuiet
<1>7. CASE Reaped
  <2>1. /\ now' = now /\ since' = since /\ pc = "reap" /\ locks' = locks /\ runs' = runs
        /\ \A r \in DOMAIN runs : Running(r)
    BY <1>7 DEF Reaped, Ended
  <2>2. \A r \in DOMAIN runs : now' <= runs[r].at + MaxRun /\ since' <= runs[r].at + MaxRun
    BY <1>0, <2>1
  <2>3. Awake' => now' <= since' + MaxGap
    BY <2>1 DEF LockInv, Awake
  <2> QED
    BY <1>0, <2>1, <2>2, <2>3, LockQuiet
<1>8. ASSUME NEW e \in Event, Skip(e) PROVE LockInv'
  <2>1. pc = "dispatch" /\ UNCHANGED <<now, since, locks, runs>>
    BY <1>8, PassFacts DEF Skip
  <2> QED
    BY <1>1, <2>1 DEF Awake
<1>9. CASE Look \/ Shutdown \/ Stop \/ Signal \/ UNCHANGED vars
  BY <1>1, <1>9 DEF Look, Shutdown, Stop, Signal, vars, loop, Awake
<1> QED
  BY <1>2, <1>3, <1>4, <1>5, <1>6, <1>7, <1>8, <1>9 DEF Next, LoopStep, Statuses

\* If every run, and the turn of the loop it ends in, is over before LOCK_TTL, two
\* runs of a without_overlapping task never overlap, whichever of its events
\* spawned them, whenever they end, and however they fail or panic
\* (dispatch_due, handle_join and InMemoryLockStore).
THEOREM RunsDoNotOverlap == ShortRuns => (Spec => []NoOverlap)
<1> SUFFICES ASSUME ShortRuns PROVE Spec => []NoOverlap
  OBVIOUS
<1>1. LockInv /\ [Next]_vars => LockInv'
  BY LockStep
<1>2. LockInv => NoOverlap
  BY DEF LockInv, NoOverlap
<1> QED
  BY <1>1, <1>2, LockInit, PTL DEF Spec

-----------------------------------------------------------------------------
(***************************************************************************)
(* Occurrences.                                                            *)
(***************************************************************************)
\* Of two multiples of a minute the later one is a minute later.
LEMMA Multiples ==
  ASSUME NEW a \in Nat, NEW b \in Nat, NEW M \in Nat, a < b
  PROVE  a * M + M <= b * M
<1>1. PICK d \in Nat : b = a + 1 + d
  <2>1. b - (a + 1) \in Nat /\ b = a + 1 + (b - (a + 1))
    OBVIOUS
  <2> QED
    BY <2>1
<1>2. d * M \in Nat
  OBVIOUS
<1>3. (a + 1 + d) * M = a * M + M + d * M
  OBVIOUS
<1> QED
  BY <1>1, <1>2, <1>3

\* So are two occurrences on whole minutes.
LEMMA MinuteApart ==
  ASSUME WholeMinutes, NEW o \in Occurrences, NEW n \in Occurrences, o < n
  PROVE  o + Minute <= n
<1>0. Minute \in Nat /\ o \in Nat /\ n \in Nat
  BY OccurrencesTyped, DueAssumption
<1>1. PICK k \in 0..o : o = k * Minute
  BY OccurrencesTyped DEF WholeMinutes
<1>2. PICK m \in 0..n : n = m * Minute
  BY OccurrencesTyped DEF WholeMinutes
<1>3. ~(m < k)
  <2> SUFFICES ASSUME m < k PROVE FALSE
    OBVIOUS
  <2>1. m * Minute + Minute <= k * Minute
    BY <1>0, Multiples
  <2> QED
    BY <1>0, <1>1, <1>2, <2>1
<1>4. m # k
  BY <1>0, <1>1, <1>2
<1>5. k * Minute + Minute <= m * Minute
  BY <1>0, <1>3, <1>4, Multiples
<1> QED
  BY <1>1, <1>2, <1>5

\* num_milliseconds rounds down.
LEMMA Floor ==
  ASSUME NEW d \in Nat, NEW m \in Nat, m > 0
  PROVE  (d \div m) * m \in Nat /\ (d \div m) * m <= d /\ d < (d \div m) * m + m
  BY SMT

\* The deadline of the sleep: the next occurrence of any event, if there is one,
\* rounded down.
LEMMA PlanFacts ==
  ASSUME TypeOK, Plan
  PROVE  /\ since' = now /\ now' = now /\ pc' = "sleep" /\ readings' = readings /\ wake' \in Nat
         /\ now <= wake'
         /\ \/ /\ wake' = now + Minute
               /\ \A o \in Occurrences : o <= now
            \/ \E n \in Occurrences : /\ wake' <= n /\ n < wake' + Ms /\ now < n
                                      /\ \A o \in Occurrences : now < o => n <= o
<1> DEFINE next == {o \in Occurrences : o > now}
<1>1. next \in SUBSET Nat /\ now \in Nat /\ Minute \in Nat /\ Ms \in Nat /\ Ms > 0
  BY OccurrencesTyped, SchedulerAssumption, DueAssumption DEF TypeOK
<1>2. wake' = now + UntilNext(now) /\ since' = now /\ now' = now /\ pc' = "sleep"
      /\ readings' = readings
  BY DEF Plan
<1>3. CASE next = {}
  <2>1. \A o \in Occurrences : o <= now
    BY <1>1, <1>3, OccurrencesTyped
  <2>2. wake' = now + Minute
    BY <1>2, <1>3 DEF UntilNext
  <2> QED
    BY <1>1, <1>2, <2>1, <2>2
<1>4. CASE next # {}
  <2>1. Min(next) \in next /\ \A o \in next : Min(next) <= o
    BY <1>1, <1>4, MinIsLeast
  <2>2. /\ Min(next) \in Nat /\ now < Min(next) /\ Min(next) - now \in Nat
        /\ Min(next) \in Occurrences /\ \A o \in Occurrences : now < o => Min(next) <= o
    BY <1>1, <2>1, OccurrencesTyped
  <2>3. wake' = now + ((Min(next) - now) \div Ms) * Ms
    BY <1>2, <1>4 DEF UntilNext
  <2> HIDE DEF next
  <2> DEFINE d == ((Min(next) - now) \div Ms) * Ms
  <2>4. d \in Nat /\ d <= Min(next) - now /\ Min(next) - now < d + Ms
    BY <1>1, <2>2, Floor
  <2> HIDE DEF d
  <2>5. wake' \in Nat /\ now <= wake' /\ wake' <= Min(next) /\ Min(next) < wake' + Ms
    <3>1. wake' = now + d
      BY <2>3 DEF d
    <3> QED
      BY <1>1, <2>2, <2>4, <3>1
  <2> QED
    BY <1>2, <2>2, <2>5
<1> QED
  BY <1>3, <1>4

\* A step after which the loop sleeps or wakes as before, or no longer does.
LEMMA TurnQuiet ==
  ASSUME TurnInv, TypeOK', readings' = readings, now <= now', wake' = wake,
         pc' \in {"sleep", "reap", "look"} => pc \in {"sleep", "reap", "look"},
         pc' \in {"reap", "look"} => wake <= now'
  PROVE  TurnInv'
<1>1. \A t \in readings : t <= now'
  BY DEF TurnInv, TypeOK
<1> QED
  BY <1>1 DEF TurnInv, SleepsFor

LEMMA TurnStep == TurnInv /\ [Next]_vars /\ TypeOK' => TurnInv'
<1> SUFFICES ASSUME TurnInv, [Next]_vars, TypeOK' PROVE TurnInv'
  OBVIOUS
<1>0. /\ TypeOK /\ now \in Nat /\ wake \in Nat /\ readings \subseteq Nat /\ Minute \in Nat
      /\ \A t \in readings : t <= now
  BY DueAssumption DEF TurnInv, TypeOK
<1>1. CASE Plan
  <2>1. /\ now' = now /\ pc' = "sleep" /\ readings' = readings
        /\ \/ wake' = now + Minute
           \/ \E n \in Occurrences : wake' <= n /\ n < wake' + Ms /\ now < n
    BY <1>0, <1>1, PlanFacts
  <2>2. CASE wake' = now + Minute
    <3>1. \A t \in readings' : t + Minute <= wake'
      BY <1>0, <2>1, <2>2
    <3> QED
      BY <1>0, <2>1, <3>1 DEF TurnInv
  <2>3. CASE \E n \in Occurrences : wake' <= n /\ n < wake' + Ms /\ now < n
    <3>1. PICK n \in Occurrences : wake' <= n /\ n < wake' + Ms /\ now < n
      BY <2>3
    <3>2. n \in Nat /\ now < n
      BY <3>1, OccurrencesTyped
    <3>3. \A t \in readings : t < n
      BY <1>0, <3>2
    <3>4. \A t \in readings' : t < n
      BY <2>1, <3>3
    <3> QED
      BY <1>0, <2>1, <3>1, <3>4 DEF TurnInv, SleepsFor
  <2> QED
    BY <2>1, <2>2, <2>3
<1>2. CASE Look
  <2>1. now' = now /\ readings' = readings \cup {now} /\ pc' \in {"plan", "dispatch"}
    BY <1>2 DEF Look
  <2>2. \A t \in readings' : t <= now'
    BY <1>0, <2>1
  <2> QED
    BY <2>1, <2>2 DEF TurnInv
<1>3. CASE Wake
  BY <1>0, <1>3, TurnQuiet DEF Wake
<1>4. CASE Reaped
  BY <1>0, <1>4, TurnQuiet DEF Reaped, TurnInv
<1>5. CASE Tick
  <2>1. now' = now + 1 /\ pc' = pc /\ wake' = wake /\ readings' = readings
    BY <1>5 DEF Tick, loop
  <2>2. now <= now' /\ (pc' \in {"reap", "look"} => wake <= now')
    BY <1>0, <2>1 DEF TurnInv
  <2> QED
    BY <2>1, <2>2, TurnQuiet
<1>6. ASSUME NEW e \in Event, Skip(e) \/ Dispatch(e) PROVE TurnInv'
  <2>1. /\ now' = now /\ wake' = wake /\ readings' = readings /\ pc' \in {"plan", "dispatch"}
    BY <1>6, PassFacts
  <2> QED
    BY <1>0, <2>1, TurnQuiet
<1>7. CASE UNCHANGED <<now, wake, readings>> /\ pc' \in {pc, "drain", "stopped"}
  <2>1. now <= now' /\ (pc' \in {"reap", "look"} => wake <= now')
    BY <1>0, <1>7 DEF TurnInv
  <2> QED
    BY <1>7, <2>1, TurnQuiet
<1> QED
  BY <1>1, <1>2, <1>3, <1>4, <1>5, <1>6, <1>7
  DEF Next, LoopStep, vars, loop, Shutdown, Stop, Signal, Join, Finish

LEMMA RepeatStep ==
  ASSUME WholeMinutes, TurnInv, NEW e \in Event, Repeats(e)
  PROVE  Early(now)
<1>1. PICK o \in Window(e, now) : Covered(e, o)
  BY DEF Repeats
<1>2. PICK t \in readings : o \in Window(e, t)
  BY <1>1 DEF Covered
<1>3. /\ o \in Occurrences /\ o \in Nat /\ now \in Nat /\ wake \in Nat /\ t \in Nat
      /\ Minute \in Nat /\ Ms \in Nat
      /\ o <= t /\ now < o + Minute /\ wake <= now
  BY <1>1, <1>2, OccurrencesTyped, SchedulerAssumption, DueAssumption
  DEF Window, Repeats, TurnInv, TypeOK
<1>4. CASE \A u \in readings : u + Minute <= wake
  <2>1. t + Minute <= wake
    BY <1>4
  <2> QED
    BY <1>3, <2>1
<1>5. CASE \E n \in Occurrences : SleepsFor(n) /\ \A u \in readings : u < n
  <2>1. PICK n \in Occurrences : SleepsFor(n) /\ \A u \in readings : u < n
    BY <1>5
  <2>2. n \in Nat /\ t < n /\ n < wake + Ms
    BY <2>1, OccurrencesTyped DEF SleepsFor
  <2>3. o + Minute <= n
    BY <1>3, <2>2, MinuteApart
  <2>4. now < n /\ n < now + Ms
    BY <1>3, <2>2, <2>3
  <2> QED
    BY <2>4 DEF Early
<1> QED
  BY <1>4, <1>5 DEF TurnInv, Repeats

\* When every occurrence is on a whole minute, a pass finds an event due again, for
\* an occurrence that an earlier pass found, only if it looks at the clock less
\* than a millisecond before the next occurrence: what millis_until_next drops is
\* all that repeats (Scheduler::work, is_due_with and millis_until_next).
THEOREM DueOnce == WholeMinutes => (Spec => RepeatedOnlyWhenEarly)
<1> SUFFICES ASSUME WholeMinutes PROVE Spec => RepeatedOnlyWhenEarly
  OBVIOUS
<1> DEFINE I == Numbered /\ TurnInv
<1>1. Init => I
  <2> SUFFICES ASSUME Init PROVE I
    OBVIOUS
  <2>1. Numbered /\ TypeOK /\ pc = "plan" /\ readings = {}
    BY InitType DEF Numbered, Init
  <2> QED
    BY <2>1 DEF TurnInv
<1>2. I /\ [Next]_vars => I'
  BY TypeStep, TurnStep DEF Numbered
<1>3. I /\ [Next]_vars => [(\E e \in Event : Repeats(e)) => Early(now)]_vars
  BY RepeatStep
<1> QED
  BY <1>1, <1>2, <1>3, PTL DEF Spec, RepeatedOnlyWhenEarly

\* What is known of an occurrence stays known.
LEMMA KnownGrows ==
  ASSUME readings \subseteq readings'
  PROVE  /\ \A n : KnownBelow(n) => KnownBelow(n)'
         /\ AllKnown => AllKnown'
<1>1. \A e, o : Known(e, o) => Known(e, o)'
  BY DEF Known, Covered
<1> QED
  BY <1>1 DEF KnownBelow, AllKnown

LEMMA CoverInit == SmallDelays /\ WholeMinutes /\ Init => CoverInv
<1> SUFFICES ASSUME SmallDelays, WholeMinutes, Init PROVE CoverInv
  OBVIOUS
<1>0. /\ Minute \in Nat \ {0} /\ MaxGap \in Nat /\ Ms \in Nat /\ MaxLate \in Nat
  BY SchedulerAssumption, DueAssumption
<1>1. TypeOK /\ now = 0 /\ since = 0 /\ pc = "plan"
  BY InitType DEF Numbered, Init
<1>2. since <= now /\ now <= since + MaxGap
  BY <1>0, <1>1
<1>3. KnownBelow(Minute)
  <2> SUFFICES ASSUME NEW e \in Event, NEW o \in Occurs[e], 0 < o, o < Minute PROVE FALSE
    BY DEF KnownBelow
  <2>1. PICK k \in 0..o : o = k * Minute
    BY DEF WholeMinutes
  <2>2. o \in Nat /\ k \in Nat
    BY DueAssumption
  <2>3. CASE k = 0
    BY <1>0, <2>1, <2>3
  <2>4. CASE 0 < k
    <3>1. 0 * Minute + Minute <= k * Minute
      BY <1>0, <2>2, <2>4, Multiples
    <3> QED
      BY <1>0, <2>1, <2>2, <3>1
  <2> QED
    BY <2>2, <2>3, <2>4
<1>4. Minute \in 0 .. since + Ms + Minute /\ since + MaxGap < Minute
  BY <1>0, <1>1 DEF SmallDelays
<1> QED
  BY <1>1, <1>2, <1>3, <1>4 DEF CoverInv

LEMMA CoverPlan ==
  ASSUME CoverInv, Plan, TypeOK'
  PROVE  CoverInv'
<1>1. /\ TypeOK /\ now \in Nat /\ since \in Nat /\ pc = "plan" /\ now <= since + MaxGap
      /\ MaxLate \in Nat /\ MaxGap \in Nat
  BY SchedulerAssumption, DueAssumption DEF CoverInv, Plan, TypeOK, Awake
<1>2. /\ since' = now /\ now' = now /\ pc' = "sleep" /\ readings' = readings /\ wake' \in Nat
      /\ now <= wake'
      /\ \/ /\ wake' = now + Minute
            /\ \A o \in Occurrences : o <= now
         \/ \E n \in Occurrences : /\ wake' <= n /\ n < wake' + Ms /\ now < n
                                   /\ \A o \in Occurrences : now < o => n <= o
  BY <1>1, PlanFacts
<1>3. \A e \in Event : \A o \in Occurs[e] : 0 < o /\ o <= now => Known(e, o)
  <2>1. CASE AllKnown
    BY <2>1 DEF AllKnown
  <2>2. CASE \E n \in 0 .. since + Ms + Minute : since + MaxGap < n /\ KnownBelow(n)
    <3>1. PICK n \in Nat : since + MaxGap < n /\ KnownBelow(n)
      BY <1>1, <2>2, SchedulerAssumption, DueAssumption
    <3>2. \A e \in Event : \A o \in Occurs[e] : o <= now => o < n
      BY <1>1, <3>1, DueAssumption
    <3> QED
      BY <3>1, <3>2 DEF KnownBelow
  <2> QED
    BY <1>1, <2>1, <2>2 DEF CoverInv
<1>4. since' <= now' /\ now' <= wake' + MaxLate
  <2>1. now \in Nat /\ wake' \in Nat /\ MaxLate \in Nat /\ now <= wake'
    BY <1>1, <1>2, SchedulerAssumption
  <2>2. \A m, w, d \in Nat : m <= w => m <= m /\ m <= w + d
    OBVIOUS
  <2>3. now <= now /\ now <= wake' + MaxLate
    BY <2>1, <2>2
  <2> QED
    BY <1>2, <2>3
<1>5. CASE \A o \in Occurrences : o <= now
  <2>1. AllKnown
    BY <1>3, <1>5, OccurrencesTyped DEF AllKnown
  <2>2. AllKnown'
    BY <1>2, <2>1, KnownGrows
  <2> QED
    BY <1>2, <1>4, <2>2 DEF CoverInv, Awake
<1>6. CASE \E n \in Occurrences : /\ wake' <= n /\ n < wake' + Ms /\ now < n
                                  /\ \A o \in Occurrences : now < o => n <= o
  <2>1. PICK n \in Occurrences : /\ wake' <= n /\ n < wake' + Ms /\ now < n
                                 /\ \A o \in Occurrences : now < o => n <= o
    BY <1>6
  <2>2. KnownBelow(n)
    <3>1. \A o \in Occurrences : o < n => o <= now
      BY <1>1, <2>1, OccurrencesTyped
    <3> QED
      BY <1>3, <3>1, OccurrencesTyped DEF KnownBelow
  <2>3. KnownBelow(n)'
    BY <1>2, <2>2, KnownGrows
  <2> QED
    BY <1>2, <1>4, <2>1, <2>3 DEF CoverInv, SleepsFor, Awake
<1> QED
  BY <1>2, <1>5, <1>6

\* A pass finds the occurrence it was for, or looks just before it; the next one
\* comes after the next planning.
LEMMA CoverLook ==
  ASSUME WholeMinutes, SmallDelays, CoverInv, Look, TypeOK'
  PROVE  CoverInv'
<1>1. /\ TypeOK /\ now \in Nat /\ since \in Nat /\ wake \in Nat /\ pc = "look"
      /\ MaxLate \in Nat /\ MaxGap \in Nat /\ Ms \in Nat /\ Minute \in Nat
      /\ since <= now /\ now <= since + MaxGap /\ wake <= since /\ since <= wake + MaxLate
  BY SchedulerAssumption, DueAssumption DEF CoverInv, Look, TypeOK, Awake
<1>2. /\ now' = now /\ since' = since /\ pc' \in {"plan", "dispatch"}
      /\ readings' = readings \cup {now}
  BY DEF Look
<1>3. since' <= now' /\ now' <= since' + MaxGap
  BY <1>1, <1>2
<1>4. CASE AllKnown
  <2>1. AllKnown'
    BY <1>2, <1>4, KnownGrows
  <2> QED
    BY <1>2, <1>3, <2>1 DEF CoverInv
<1>5. CASE \E n \in Occurrences : SleepsFor(n) /\ KnownBelow(n)
  <2>1. PICK n \in Occurrences : SleepsFor(n) /\ KnownBelow(n)
    BY <1>5
  <2>2. n \in Nat /\ wake <= n /\ n < wake + Ms
    BY <2>1, OccurrencesTyped DEF SleepsFor
  <2>3. ASSUME NEW e \in Event, NEW o \in Occurs[e], 0 < o, o < n + Minute
        PROVE  Known(e, o)'
    <3>1. o \in Nat /\ o \in Occurrences
      BY OccurrencesTyped
    <3>2. CASE o < n
      BY <1>2, <2>1, <2>3, <3>2, KnownGrows DEF KnownBelow
    <3>3. CASE o = n /\ now < n
      <4>1. now < o /\ o < now + Ms
        BY <1>1, <2>2, <3>3
      <4> QED
        BY <1>2, <4>1 DEF Known
    <3>4. CASE o = n /\ n <= now
      <4>1. o <= now /\ now < o + Minute
        BY <1>1, <2>2, <3>4 DEF SmallDelays
      <4>2. o \in Window(e, now)
        BY <4>1 DEF Window
      <4>3. Covered(e, o)'
        BY <1>2, <4>2 DEF Covered, Window
      <4> QED
        BY <4>3 DEF Known
    <3>5. ~(n < o)
      <4> SUFFICES ASSUME n < o PROVE FALSE
        OBVIOUS
      <4>1. n + Minute <= o
        BY <2>1, <3>1, MinuteApart
      <4> QED
        BY <1>1, <2>2, <2>3, <3>1, <4>1
    <3> QED
      BY <1>1, <2>2, <3>1, <3>2, <3>3, <3>4, <3>5
  <2>4. KnownBelow(n + Minute)'
    BY <2>3 DEF KnownBelow
  <2>5. n + Minute \in 0 .. since' + Ms + Minute /\ since' + MaxGap < n + Minute
    BY <1>1, <1>2, <2>2 DEF SmallDelays
  <2> QED
    BY <1>2, <1>3, <2>4, <2>5 DEF CoverInv
<1> QED
  BY <1>1, <1>4, <1>5 DEF CoverInv

\* A step that only moves on within the sleep, the turn after it, or the pass.
LEMMA CoverQuiet ==
  ASSUME CoverInv, TypeOK', readings' = readings, wake' = wake, since' <= now',
         Awake' => now' <= since' + MaxGap,
         pc' = "sleep" => now' <= wake + MaxLate,
         pc' \in {"reap", "look"} => wake <= since' /\ since' <= wake + MaxLate,
         pc' \in {"sleep", "reap", "look"} => pc \in {"sleep", "reap", "look"},
         pc' \in {"dispatch", "plan"} => pc \in {"dispatch", "plan"} /\ since' = since
  PROVE  CoverInv'
<1>1. \A n : KnownBelow(n) => KnownBelow(n)'
  BY KnownGrows
<1>2. AllKnown => AllKnown'
  BY KnownGrows
<1>3. pc' \in {"sleep", "reap", "look"} =>
        \/ \E n \in Occurrences : SleepsFor(n)' /\ KnownBelow(n)'
        \/ AllKnown'
  BY <1>1, <1>2 DEF CoverInv, SleepsFor
<1>4. pc' \in {"dispatch", "plan"} =>
        \/ \E n \in 0 .. since' + Ms + Minute : since' + MaxGap < n /\ KnownBelow(n)'
        \/ AllKnown'
  BY <1>1, <1>2 DEF CoverInv
<1> QED
  BY <1>3, <1>4 DEF CoverInv

LEMMA CoverStep ==
  WholeMinutes /\ SmallDelays /\ CoverInv /\ [Next]_vars /\ TypeOK' => CoverInv'
<1> SUFFICES ASSUME WholeMinutes, SmallDelays, CoverInv, [Next]_vars, TypeOK'
             PROVE  CoverInv'
  OBVIOUS
<1>0. /\ now \in Nat /\ since \in Nat /\ wake \in Nat /\ since <= now
      /\ MaxLate \in Nat /\ MaxGap \in Nat
      /\ Awake => now <= since + MaxGap
      /\ pc = "sleep" => now <= wake + MaxLate
      /\ pc \in {"reap", "look"} => wake <= since /\ since <= wake + MaxLate
  BY SchedulerAssumption, DueAssumption DEF CoverInv, TypeOK
<1>1. CASE Plan
  BY <1>1, CoverPlan
<1>2. CASE Look
  BY <1>2, CoverLook
<1>3. CASE Wake
  <2>1. /\ pc = "sleep" /\ pc' = "reap" /\ now' = now /\ since' = now /\ wake' = wake
        /\ readings' = readings /\ wake <= now
    BY <1>0, <1>3 DEF Wake
  <2>2. since' <= now' /\ now' <= since' + MaxGap /\ wake <= since' /\ since' <= wake + MaxLate
    BY <1>0, <2>1
  <2> QED
    BY <2>1, <2>2, CoverQuiet
<1>4. CASE Reaped
  <2>1. /\ pc = "reap" /\ pc' = "look" /\ UNCHANGED <<now, since, wake, readings>>
    BY <1>4 DEF Reaped
  <2> QED
    BY <1>0, <2>1, CoverQuiet DEF Awake
<1>5. CASE Tick
  <2>1. /\ now' = now + 1 /\ UNCHANGED <<pc, since, wake, readings>>
        /\ pc = "sleep" => now < wake + MaxLate
        /\ Awake => now < since + MaxGap
    BY <1>5 DEF Tick, loop
  <2>2. /\ since' <= now' /\ (Awake' => now' <= since' + MaxGap)
        /\ (pc' = "sleep" => now' <= wake + MaxLate)
    BY <1>0, <2>1 DEF Awake
  <2> QED
    BY <1>0, <2>1, <2>2, CoverQuiet
<1>6. ASSUME NEW e \in Event, Skip(e) \/ Dispatch(e) PROVE CoverInv'
  <2>1. /\ pc = "dispatch" /\ pc' \in {"plan", "dispatch"}
        /\ UNCHANGED <<now, since, wake, readings>>
    BY <1>6, PassFacts
  <2> QED
    BY <1>0, <2>1, CoverQuiet DEF Awake
<1>7. CASE Shutdown \/ Stop
  <2>1. pc' \in {"drain", "stopped"} /\ UNCHANGED <<now, since, wake, readings>>
    BY <1>7 DEF Shutdown, Stop
  <2> QED
    BY <1>0, <2>1, CoverQuiet DEF Awake
<1>8. CASE UNCHANGED <<now, pc, since, wake, readings>>
  BY <1>0, <1>8, CoverQuiet DEF Awake
<1> QED
  BY <1>1, <1>2, <1>3, <1>4, <1>5, <1>6, <1>7, <1>8
  DEF Next, LoopStep, vars, loop, Signal, Join, Finish

\* When every occurrence is on a whole minute and the delays of a turn of the loop
\* are less than a minute together, every occurrence is found due while the loop
\* runs, unless a pass looked at the clock less than a millisecond before it:
\* Scheduler::work, is_due_with and millis_until_next.
THEOREM NoneLost == WholeMinutes /\ SmallDelays => (Spec => []NoOccurrenceLost)
<1> SUFFICES ASSUME WholeMinutes, SmallDelays PROVE Spec => []NoOccurrenceLost
  OBVIOUS
<1> DEFINE I == Numbered /\ CoverInv
<1>1. Init => I
  BY InitType, CoverInit
<1>2. I /\ [Next]_vars => I'
  BY TypeStep, CoverStep DEF Numbered
<1>3. I => NoOccurrenceLost
  <2> SUFFICES ASSUME I, pc \notin {"drain", "stopped"}, NEW e \in Event, NEW o \in Occurs[e],
                      0 < o, o + MaxLate + MaxGap < now
               PROVE  Known(e, o)
    BY DEF NoOccurrenceLost, Known
  <2>1. /\ now \in Nat /\ since \in Nat /\ wake \in Nat /\ o \in Nat
        /\ MaxLate \in Nat /\ MaxGap \in Nat /\ Ms \in Nat /\ Minute \in Nat
    BY SchedulerAssumption, DueAssumption DEF CoverInv, TypeOK
  <2>2. CASE AllKnown
    BY <2>2 DEF AllKnown
  <2>3. CASE /\ pc \in {"sleep", "reap", "look"}
             /\ \E n \in Occurrences : SleepsFor(n) /\ KnownBelow(n)
    <3>1. PICK n \in Occurrences : SleepsFor(n) /\ KnownBelow(n)
      BY <2>3
    <3>2. n \in Nat /\ wake <= n
      BY <3>1, OccurrencesTyped DEF SleepsFor
    <3>3. now <= wake + MaxLate + MaxGap
      BY <2>1, <2>3 DEF CoverInv, Awake
    <3>4. o < n
      BY <2>1, <3>2, <3>3
    <3> QED
      BY <3>1, <3>4 DEF KnownBelow
  <2>4. CASE /\ pc \in {"dispatch", "plan"}
             /\ \E n \in 0 .. since + Ms + Minute : since + MaxGap < n /\ KnownBelow(n)
    <3>1. PICK n \in Nat : since + MaxGap < n /\ KnownBelow(n)
      BY <2>1, <2>4
    <3>2. now <= since + MaxGap
      BY <2>4 DEF CoverInv, Awake
    <3>3. o < n
      BY <2>1, <3>1, <3>2
    <3> QED
      BY <3>1, <3>3 DEF KnownBelow
  <2> QED
    BY <2>2, <2>3, <2>4 DEF CoverInv, TypeOK
<1> QED
  BY <1>1, <1>2, <1>3, PTL DEF Spec

-----------------------------------------------------------------------------
(***************************************************************************)
(* schedule:run: a process keeps to its minute, holds a lock only while a  *)
(* task executes, and runs whatever it passes that is due.                 *)
(***************************************************************************)
\* A whole-minute occurrence in the window of a process is that of its minute.
LEMMA MinuteOfWindow ==
  ASSUME NEW a \in Nat, NEW b \in Nat, NEW t \in Nat, Minute \in Nat \ {0},
         a * Minute <= t, t < a * Minute + Minute,
         b * Minute <= t, t < b * Minute + Minute
  PROVE  a = b
<1>1. ASSUME NEW x \in Nat, NEW y \in Nat, x < y PROVE x * Minute + Minute <= y * Minute
  <2>1. PICK d \in Nat : y = x + 1 + d
    <3>1. y - x - 1 \in Nat /\ y = x + 1 + (y - x - 1)
      BY <1>1
    <3> QED BY <3>1
  <2>2. y * Minute = x * Minute + Minute + d * Minute
    BY <2>1
  <2>3. d * Minute \in Nat
    OBVIOUS
  <2>4. x * Minute \in Nat /\ y * Minute \in Nat
    OBVIOUS
  <2> QED
    BY <2>2, <2>3, <2>4
<1>2. ~(a < b)
  BY <1>1
<1>3. ~(b < a)
  BY <1>1
<1> QED
  BY <1>2, <1>3

\* The invariant holds at the start.
LEMMA InitPasses == RunInit => PassInv
<1> SUFFICES ASSUME RunInit PROVE PassInv
  OBVIOUS
<1>1. RunTypeOK
  BY DEF RunInit, RunTypeOK
<1>2. \A k \in Pass : InOrder(k)
  BY DEF RunInit, InOrder
<1> QED
  BY <1>1, <1>2 DEF PassInv

\* A step of one process leaves the others as they are.
LEMMA OtherPasses ==
  ASSUME PassInv, NEW k \in Pass, NEW j \in Pass, j # k,
         Start(k) \/ PassOver(k) \/ Execute(k) \/ Complete(k) \/ Die(k) \/ Exit(k)
  PROVE  InOrder(j)'
<1>1. /\ stage'[j] = stage[j] /\ started'[j] = started[j] /\ at'[j] = at[j] /\ store'[j] = store[j]
      /\ \A e \in Event : <<j, e>> \in ran' <=> <<j, e>> \in ran
  BY DEF PassInv, RunTypeOK, Start, PassOver, Execute, Complete, Die, Exit
<1>2. InOrder(j)
  BY DEF PassInv
<1> QED
  BY <1>1, <1>2 DEF InOrder

\* Every action preserves the invariant of the process that takes it.
LEMMA PassStep ==
  ASSUME PassInv, NEW k \in Pass,
         Start(k) \/ PassOver(k) \/ Execute(k) \/ Complete(k) \/ Die(k) \/ Exit(k)
  PROVE  RunTypeOK' /\ InOrder(k)'
<1> USE DEF PassInv, Pass, Event
<1>0. InOrder(k) /\ k \in Nat /\ Minute \in Nat \ {0} /\ k * Minute \in Nat
  BY ScheduleRunAssumption, DueAssumption
<1>1. CASE Start(k)
  <2>1. PICK late \in 0 .. Minute - 1 : started' = [started EXCEPT ![k] = k * Minute + late]
    BY <1>1 DEF Start
  <2>2. /\ stage'[k] = "deciding" /\ at'[k] = at[k] /\ store'[k] = store[k] /\ ran' = ran
        /\ started'[k] = k * Minute + late
    BY <1>1, <2>1 DEF Start, RunTypeOK
  <2>3. RunTypeOK'
    <3>1. started'[k] \in Nat
      BY <1>0, <2>1, <2>2
    <3>2. started' \in [Pass -> Nat]
      BY <2>1, <3>1 DEF RunTypeOK
    <3> QED
      BY <1>1, <3>2 DEF RunTypeOK, Start
  <2>4. InOrder(k)'
    BY <1>0, <1>1, <2>2, ScheduleRunAssumption, DueAssumption DEF InOrder, Start
  <2> QED
    BY <2>3, <2>4
<1>2. CASE PassOver(k)
  <2>1. /\ stage'[k] = "deciding" /\ stage[k] = "deciding" /\ at'[k] = at[k] + 1 /\ at[k] \in Event
        /\ started'[k] = started[k] /\ store'[k] = store[k] /\ ran' = ran
    BY <1>2 DEF PassOver, Deciding, RunTypeOK
  <2>2. RunTypeOK'
    BY <1>2 DEF RunTypeOK, PassOver, Deciding
  <2>3. ~Fires(at[k], started[k]) \/ Id[at[k]] \notin Led
    BY <1>0, <1>2 DEF PassOver, Locked, InOrder, Deciding
  <2>4. InOrder(k)'
    BY <1>0, <2>1, <2>3 DEF InOrder
  <2> QED
    BY <2>2, <2>4
<1>3. CASE Execute(k)
  <2>1. /\ stage'[k] = "executing" /\ stage[k] = "deciding" /\ at'[k] = at[k] /\ at[k] \in Event
        /\ started'[k] = started[k] /\ ran' = ran \cup {<<k, at[k]>>}
    BY <1>3 DEF Execute, Deciding, RunTypeOK
  <2>4. store'[k] = IF at[k] \in Exclusive THEN {Id[at[k]]} ELSE {}
    <3>1. store[k] = {} /\ store \in [Pass -> SUBSET {Id[e] : e \in Event}]
      BY <1>0, <2>1 DEF InOrder, RunTypeOK
    <3> QED
      BY <1>3, <3>1 DEF Execute
  <2>2. RunTypeOK'
    BY <1>3 DEF RunTypeOK, Execute, Deciding
  <2>3. InOrder(k)'
    BY <1>0, <2>1, <2>4 DEF InOrder
  <2> QED
    BY <2>2, <2>3
<1>4. CASE Complete(k)
  <2>1. /\ stage'[k] = "deciding" /\ stage[k] = "executing" /\ at'[k] = at[k] + 1 /\ at[k] \in Event
        /\ started'[k] = started[k] /\ ran' = ran /\ store'[k] = {}
    BY <1>0, <1>4 DEF Complete, RunTypeOK, InOrder, LocksLeft
  <2>2. RunTypeOK'
    BY <1>4, <2>1 DEF RunTypeOK, Complete, LocksLeft
  <2>3. InOrder(k)'
    BY <1>0, <2>1 DEF InOrder
  <2> QED
    BY <2>2, <2>3
<1>5. CASE Die(k)
  BY <1>0, <1>5 DEF Die, RunTypeOK, InOrder
<1>6. CASE Exit(k)
  BY <1>0, <1>6 DEF Exit, RunTypeOK, InOrder
<1> QED
  BY <1>1, <1>2, <1>3, <1>4, <1>5, <1>6

\* The inductive invariant: a process keeps to its minute, holds a lock only
\* while a task executes, and runs whatever it passes that is due.
THEOREM PassInvariance == RunSpec => []PassInv
<1>1. PassInv /\ [RunNext]_runVars => PassInv'
  <2> SUFFICES ASSUME PassInv, [RunNext]_runVars PROVE PassInv'
    OBVIOUS
  <2>1. ASSUME NEW k \in Pass,
               Start(k) \/ PassOver(k) \/ Execute(k) \/ Complete(k) \/ Die(k) \/ Exit(k)
        PROVE  PassInv'
    BY <2>1, PassStep, OtherPasses DEF PassInv
  <2>2. CASE UNCHANGED runVars
    BY <2>2 DEF PassInv, RunTypeOK, InOrder, Fires, Window, runVars
  <2> QED
    BY <2>1, <2>2 DEF RunNext
<1> QED
  BY <1>1, InitPasses, PTL DEF RunSpec

\* No occurrence is run by two processes.
THEOREM RunsOnce == WholeMinutes => (RunSpec => []OnePassPerOccurrence)
<1> SUFFICES ASSUME WholeMinutes PROVE RunSpec => []OnePassPerOccurrence
  OBVIOUS
<1>1. PassInv => OnePassPerOccurrence
  <2> SUFFICES ASSUME PassInv, NEW e \in Event, NEW o \in Occurs[e],
                      NEW j \in RanFor(e, o), NEW k \in RanFor(e, o)
               PROVE  j = k
    BY DEF OnePassPerOccurrence
  <2>1. /\ j \in Nat /\ k \in Nat /\ stage[j] # "none" /\ stage[k] # "none"
        /\ started[j] \in Nat /\ started[k] \in Nat /\ o \in Nat /\ Minute \in Nat \ {0}
    <3>1. j \in Pass /\ k \in Pass /\ <<j, e>> \in ran /\ <<k, e>> \in ran
      BY DEF RanFor
    <3>2. stage[j] # "none" /\ stage[k] # "none" /\ started[j] \in Nat /\ started[k] \in Nat
      BY <3>1 DEF PassInv, InOrder, RunTypeOK
    <3> QED
      BY <3>1, <3>2, ScheduleRunAssumption, DueAssumption DEF Pass
  <2>2. PICK m \in Nat : o = m * Minute
    BY DEF WholeMinutes
  <2>3. ASSUME NEW i \in RanFor(e, o) PROVE i = m
    <3>1. /\ i * Minute <= started[i] /\ started[i] < i * Minute + Minute
          /\ o <= started[i] /\ started[i] < o + Minute /\ i \in Nat /\ started[i] \in Nat
      <4>1. i \in Pass /\ <<i, e>> \in ran /\ o \in Window(e, started[i])
        BY DEF RanFor
      <4>2. stage[i] # "none" /\ started[i] \in Nat /\ InOrder(i)
        BY <4>1 DEF PassInv, InOrder, RunTypeOK
      <4> QED
        BY <4>1, <4>2, ScheduleRunAssumption, DueAssumption DEF InOrder, Window, Pass
    <3> QED
      BY <2>1, <2>2, <3>1, MinuteOfWindow
  <2> QED
    BY <2>3
<1> QED
  BY <1>1, PassInvariance, PTL

\* No occurrence of a minute is missed by a process that came to its end.
THEOREM RunsAll == RunSpec => []NoPassMisses
<1>1. PassInv => NoPassMisses
  <2> SUFFICES ASSUME PassInv, NEW e \in Event \ Invalid, NEW o \in Occurs[e], NEW k \in Pass,
                      o = k * Minute, stage[k] \in {"ok", "failed"}, Id[e] \in Led
               PROVE  RanFor(e, o) # {}
    BY DEF NoPassMisses
  <2>1. InOrder(k) /\ at[k] \in Nat \ {0} /\ at[k] \notin Event /\ N \in Nat
    BY ScheduleRunAssumption, DueAssumption DEF PassInv, RunTypeOK, InOrder
  <2>2. e < at[k]
    BY <2>1 DEF Event
  <2>3. o \in Window(e, started[k])
    BY <2>1 DEF InOrder, Window
  <2>4. <<k, e>> \in ran
    BY <2>1, <2>2, <2>3 DEF InOrder, Fires, IsDue
  <2> QED
    BY <2>3, <2>4 DEF RanFor
<1> QED
  BY <1>1, PassInvariance, PTL
=============================================================================
