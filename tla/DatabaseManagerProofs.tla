------------------------ MODULE DatabaseManagerProofs ------------------------
(***************************************************************************)
(* For any callers, connection names and database sections: the caches of  *)
(* DatabaseManager are publish-once cells, whoever uses a connection holds *)
(* its one cached pool, and outcomes depend on the configuration alone.    *)
(***************************************************************************)
EXTENDS DatabaseManager, TLAPS

Lines == [Cache -> Seq(Caller \X Mode)]

\* The lines of the locks are lines of requests, whoever joins or leaves them.
LEMMA LineTyped ==
  ASSUME line \in Lines, NEW cache \in Cache
  PROVE  /\ \A c \in Caller, mode \in Mode : Request(cache, c, mode) => line' \in Lines
         /\ \A i \in DOMAIN line[cache] : LetGo(cache, i) => line' \in Lines
<1>1. line[cache] \in Seq(Caller \X Mode)
  BY DEF Lines
<1>2. ASSUME NEW c \in Caller, NEW mode \in Mode, Request(cache, c, mode)
      PROVE  line' \in Lines
  <2>1. Append(line[cache], <<c, mode>>) \in Seq(Caller \X Mode)
    BY <1>1
  <2> QED
    BY <1>2, <2>1 DEF Request, Lines
<1>3. ASSUME NEW i \in DOMAIN line[cache], LetGo(cache, i)
      PROVE  line' \in Lines
  <2> DEFINE q == line[cache]
  <2>1. q \in Seq(Caller \X Mode) /\ i \in 1 .. Len(q)
    BY <1>1
  <2> HIDE DEF q
  <2>2. SubSeq(q, 1, i - 1) \in Seq(Caller \X Mode)
    BY <2>1
  <2>3. SubSeq(q, i + 1, Len(q)) \in Seq(Caller \X Mode)
    BY <2>1
  <2>4. RemoveAt(q, i) \in Seq(Caller \X Mode)
    BY <2>2, <2>3 DEF RemoveAt
  <2> QED
    BY <1>3, <2>4 DEF LetGo, Lines, q
<1> QED
  BY <1>2, <1>3

\* The same for what runs under a lock.
LEMMA UnderLockTyped ==
  ASSUME line \in Lines, NEW c \in Caller, NEW mode, UnderLock(c, mode)
  PROVE  line' \in Lines
  BY LineTyped DEF UnderLock, CacheOf, Cache

\* Deserved outcomes change with the manager only.
LEMMA DeservedStable ==
  ASSUME global' = global
  PROVE  \A op, n : Deserved(op, n)' = Deserved(op, n)
  BY DEF Deserved, BuildError, DriverOf

\* A pool that is delivered leaves the call in order.
LEMMA DeliverOK ==
  ASSUME NEW call \in CallRecord, call.op \in Operation, call.name \in Name,
         NEW pool \in Pool, Sound(CellOf(call), pool)
  PROVE  LET after == Deliver(call, pool) IN
         /\ after \in CallRecord /\ after.op = call.op /\ after.name = call.name
         /\ \/ after.pc = "got" /\ after.pool = pool /\ Accepts(call.op, pool)
            \/ after.pc = "failed" /\ after.error = Deserved(call.op, call.name)
<1>1. CASE Accepts(call.op, pool)
  BY <1>1 DEF Deliver, CallRecord
<1>2. CASE ~Accepts(call.op, pool)
  <2>1. Deserved(call.op, call.name) = "DriverMismatch"
    BY <1>2 DEF Deserved, Accepts, Sound, CellOf
  <2> QED
    BY <1>2, <2>1 DEF Deliver, Fail, Errors, CallRecord
<1> QED
  BY <1>1, <1>2

\* The connection operations' cells.
LEMMA CellTyped ==
  ASSUME NEW call, call.name \in Name
  PROVE  CellOf(call) \in Cell /\ CellOf(call) = <<CacheOf(call.op), call.name>>
  BY DEF CellOf, CacheOf, Cell, Cache

\* The initial state satisfies the invariant.
LEMMA InitInv == Init => IInv
<1> SUFFICES ASSUME Init PROVE IInv
  OBVIOUS
<1>1. TypeOK
  <2>1. <<>> \in Seq(Caller \X Mode)
    OBVIOUS
  <2> QED
    BY <2>1 DEF Init, TypeOK, CallRecord, Idle
<1>2. \A cell \in Cell : pools[cell] = None
  BY DEF Init
<1>3. ASSUME NEW c \in Caller PROVE CallOK(c)
  BY <1>3 DEF Init, CallOK, Idle
<1> QED
  BY <1>1, <1>2, <1>3 DEF IInv

\* Calls that a step does not touch stay in order: the caches only grow, the
\* manager stays, and drivers once registered remain so.
LEMMA OthersOK ==
  ASSUME IInv, NEW d \in Caller, calls'[d] = calls[d],
         global' = global \/ global = None,
         \A cell \in Cell : pools[cell] # None => pools'[cell] = pools[cell],
         anyDrivers => anyDrivers'
  PROVE  CallOK(d)'
<1>0. CallOK(d) /\ TypeOK
  BY DEF IInv
<1> DEFINE call == calls[d]
<1>1. calls'[d] = call
  OBVIOUS
<1>2. CASE global = None
  BY <1>0, <1>1, <1>2 DEF CallOK
<1>3. CASE global # None
  <2>1. global' = global
    BY <1>3
  <2>2. call.pc = "insert" => Sound(CellOf(call), call.pool)'
    BY <1>0, <1>1, <2>1 DEF CallOK, Sound, BuildError, DriverOf, CellOf
  <2>3. call.pc = "got" => call.pool = pools'[CellOf(call)]
    BY <1>0, <1>1, CellTyped, ManagerAssumption DEF CallOK
  <2>4. \A op, n : Deserved(op, n)' = Deserved(op, n)
    BY <2>1, DeservedStable
  <2> QED
    BY <1>0, <1>1, <2>1, <2>2, <2>3, <2>4 DEF CallOK, CellOf
<1> QED
  BY <1>2, <1>3

\* Installing.
LEMMA InstallOK ==
  ASSUME IInv, NEW c \in Caller, NEW cfg \in Configs, InstallWith(c, cfg)
  PROVE  IInv'
<1>1. TypeOK'
  BY DEF InstallWith, IInv, TypeOK, CallRecord, Idle, Fail, Errors
<1>2. ASSUME NEW cell \in Cell, pools'[cell] # None
      PROVE  Sound(cell, pools[cell])'
  BY <1>2 DEF InstallWith, IInv, Sound, BuildError, DriverOf
<1>3. CallOK(c)'
  BY DEF InstallWith, IInv, TypeOK, CallRecord, Idle, Fail, CallOK
<1>4. ASSUME NEW d \in Caller, d # c PROVE CallOK(d)'
  BY <1>4, OthersOK DEF InstallWith, IInv, TypeOK
<1> QED
  BY <1>1, <1>2, <1>3, <1>4 DEF IInv

\* Steps that leave the manager and the caches alone, and change one call.
LEMMA CallStepOK ==
  ASSUME IInv, NEW c \in Caller, UNCHANGED <<global, pools, anyDrivers>>,
         TypeOK', CallOK(c)', \A d \in Caller \ {c} : calls'[d] = calls[d]
  PROVE  IInv'
<1>1. ASSUME NEW cell \in Cell, pools'[cell] # None
      PROVE  Sound(cell, pools[cell])'
  BY <1>1 DEF IInv, Sound, BuildError, DriverOf
<1>2. ASSUME NEW d \in Caller, d # c PROVE CallOK(d)'
  BY <1>2, OthersOK DEF IInv
<1> QED
  BY <1>1, <1>2 DEF IInv

\* The first step of a use.
LEMMA AskOK ==
  ASSUME IInv, NEW c \in Caller, NEW op \in Operation, NEW n \in Name, Ask(c, op, n)
  PROVE  IInv'
<1>1. calls \in [Caller -> CallRecord]
  BY DEF IInv, TypeOK
<1>2. global # None => global.default \in Name \cup {None}
  BY ManagerAssumption DEF IInv, TypeOK
<1>3. /\ calls' = [calls EXCEPT ![c] = calls'[c]]
      /\ UNCHANGED <<global, pools, anyDrivers>>
      /\ Request(CacheOf(op), c, "read") \/ UNCHANGED line
  BY <1>1 DEF Ask
<1>4. /\ calls'[c] \in CallRecord
      /\ calls'[c].op = op /\ calls'[c].name \in Name
      /\ \/ calls'[c].pc = "look" /\ global # None
         \/ calls'[c].pc = "failed" /\ calls'[c].error \in {"NotInstalled", "NoDefault"}
  BY <1>1, <1>2 DEF Ask, Idle, Fail, CallRecord, Errors
<1>5. TypeOK'
  <2>1. line' \in Lines
    BY <1>3, LineTyped DEF IInv, TypeOK, Lines, CacheOf, Cache, Mode
  <2> QED
    BY <1>1, <1>3, <1>4, <2>1 DEF IInv, TypeOK, Lines
<1>6. CallOK(c)'
  BY <1>3, <1>4 DEF CallOK
<1> QED
  BY <1>1, <1>3, <1>5, <1>6, CallStepOK

\* A caller that takes the pool its cell holds after the step is in order.
LEMMA DeliveryOK ==
  ASSUME IInv, NEW c \in Caller, NEW pool \in Pool,
         calls[c].op \in Operation, calls[c].name \in Name, global # None,
         Sound(CellOf(calls[c]), pool), pools'[CellOf(calls[c])] = pool,
         UNCHANGED <<global, anyDrivers>>,
         calls' = [calls EXCEPT ![c] = Deliver(@, pool)]
  PROVE  calls' \in [Caller -> CallRecord] /\ CallOK(c)'
<1> DEFINE after == Deliver(calls[c], pool)
<1>1. calls \in [Caller -> CallRecord]
  BY DEF IInv, TypeOK
<1>2. /\ after \in CallRecord /\ after.op = calls[c].op /\ after.name = calls[c].name
      /\ \/ after.pc = "got" /\ after.pool = pool /\ Accepts(calls[c].op, pool)
         \/ after.pc = "failed" /\ after.error = Deserved(calls[c].op, calls[c].name)
  BY <1>1, DeliverOK
<1> HIDE DEF after
<1>3. calls'[c] = after /\ calls' \in [Caller -> CallRecord]
  BY <1>1, <1>2 DEF after
<1>4. CellOf(calls'[c]) = CellOf(calls[c])
  BY <1>2, <1>3 DEF CellOf
<1>5. CallOK(c)'
  BY <1>2, <1>3, <1>4, DeservedStable DEF CallOK
<1> QED
  BY <1>3, <1>5

\* A hit ends the use in order, a miss starts a build.
LEMMA LookUpOK ==
  ASSUME IInv, NEW c \in Caller, LookUp(c)
  PROVE  IInv'
<1> DEFINE cell == CellOf(calls[c])
<1>1. /\ TypeOK /\ CallOK(c) /\ calls[c].pc = "look"
      /\ global # None /\ calls[c].op \in Operation /\ calls[c].name \in Name
      /\ cell \in Cell /\ UNCHANGED <<global, pools, anyDrivers>>
      /\ line' \in Lines
  BY CellTyped, UnderLockTyped DEF IInv, LookUp, CallOK, TypeOK, Lines
<1>2. \A d \in Caller \ {c} : calls'[d] = calls[d]
  BY <1>1 DEF LookUp, TypeOK
<1>3. CASE pools[cell] = None
  <2>1. calls' = [calls EXCEPT ![c] = [calls[c] EXCEPT !.pc = "build"]]
    BY <1>3 DEF LookUp
  <2>2. TypeOK'
    BY <1>1, <2>1 DEF TypeOK, CallRecord, Lines
  <2>3. CallOK(c)'
    BY <1>1, <2>1 DEF CallOK, TypeOK, CallRecord
  <2> QED
    BY <1>1, <1>2, <2>2, <2>3, CallStepOK
<1>4. CASE pools[cell] # None
  <2>1. pools[cell] \in Pool /\ Sound(cell, pools[cell])
    BY <1>1, <1>4 DEF IInv, Sound
  <2>2. calls' = [calls EXCEPT ![c] = Deliver(@, pools[cell])]
    BY <1>4 DEF LookUp
  <2>3. calls' \in [Caller -> CallRecord] /\ CallOK(c)'
    BY <1>1, <2>1, <2>2, DeliveryOK
  <2> QED
    BY <1>1, <1>2, <2>3, CallStepOK DEF TypeOK, Lines
<1> QED
  BY <1>3, <1>4

\* A build that works yields a sound pool.
LEMMA BuildOK ==
  ASSUME IInv, NEW c \in Caller, Build(c)
  PROVE  IInv'
<1> DEFINE cache == CacheOf(calls[c].op)
           n     == calls[c].name
           error == BuildError(cache, n)
           pool  == [driver |-> DriverOf(cache, n), by |-> c]
<1>1. /\ TypeOK /\ CallOK(c) /\ calls[c].pc = "build"
      /\ global # None /\ calls[c].op \in Operation /\ n \in Name
      /\ cache \in Cache /\ UNCHANGED <<global, pools>>
  BY DEF IInv, Build, CallOK, CacheOf, Cache
<1>2. calls \in [Caller -> CallRecord] /\ \A d \in Caller \ {c} : calls'[d] = calls[d]
  BY <1>1 DEF Build, TypeOK
<1>3. anyDrivers' \in BOOLEAN /\ (anyDrivers => anyDrivers') /\ line' \in Lines
  <2>1. line' \in Lines
    BY <1>1, LineTyped DEF Build, TypeOK, Lines, Mode
  <2> QED
    BY <1>1, <2>1 DEF Build, TypeOK
<1>4. ASSUME NEW cell \in Cell, pools'[cell] # None
      PROVE  Sound(cell, pools[cell])'
  BY <1>1, <1>3, <1>4 DEF IInv, Sound, BuildError, DriverOf
<1>5. ASSUME NEW d \in Caller, d # c PROVE CallOK(d)'
  BY <1>1, <1>2, <1>3, <1>5, OthersOK
<1>6. CASE error # None
  <2>1. error \in Errors
    BY <1>6 DEF BuildError, TypedOptions, AnyUrl, Errors
  <2>2. calls' = [calls EXCEPT ![c] = Fail(calls[c], error)]
    BY <1>6 DEF Build
  <2>3. Deserved(calls[c].op, n) = error
    BY <1>6 DEF Deserved
  <2>4. /\ calls'[c] \in CallRecord /\ calls'[c].pc = "failed"
        /\ calls'[c].op = calls[c].op /\ calls'[c].name = n /\ calls'[c].error = error
    BY <1>2, <2>1, <2>2 DEF Fail, CallRecord
  <2>5. TypeOK'
    BY <1>1, <1>2, <1>3, <2>2, <2>4 DEF TypeOK, Lines
  <2>6. CallOK(c)'
    BY <1>1, <2>3, <2>4, DeservedStable DEF CallOK
  <2> QED
    BY <1>4, <1>5, <2>5, <2>6 DEF IInv
<1>7. CASE error = None
  <2>1. n \in DOMAIN global.connections /\ global.connections[n] \in ConnectionConfig
    BY <1>1, <1>7, ManagerAssumption DEF BuildError, TypeOK, Errors
  <2>2. pool \in Pool
    BY <2>1 DEF DriverOf, Pool, ConnectionConfig
  <2>3. cache = "any" => anyDrivers'
    <3>1. ASSUME cache = "any" PROVE ~MissingAddress(global.connections[n])
      BY <1>7, <2>1, <3>1, ManagerAssumption DEF BuildError, AnyUrl, Errors
    <3> QED
      BY <2>1, <3>1 DEF Build
  <2>4. calls' = [calls EXCEPT ![c] = [calls[c] EXCEPT !.pc = "insert", !.pool = pool]]
    BY <1>7 DEF Build
  <2> HIDE DEF pool
  <2>5. /\ calls'[c] \in CallRecord /\ calls'[c].pc = "insert" /\ calls'[c].pool = pool
        /\ calls'[c].op = calls[c].op /\ calls'[c].name = n
    BY <1>2, <2>2, <2>4 DEF CallRecord
  <2>6. TypeOK'
    BY <1>1, <1>2, <1>3, <2>4, <2>5 DEF TypeOK, Lines
  <2>7. CellOf(calls'[c]) = <<cache, n>>
    BY <2>5 DEF CellOf
  <2>8. Sound(CellOf(calls[c]), calls[c].pool)'
    BY <1>1, <1>7, <2>2, <2>3, <2>5, <2>7 DEF Sound, BuildError, DriverOf, pool
  <2>9. CallOK(c)'
    BY <1>1, <2>5, <2>8 DEF CallOK
  <2> QED
    BY <1>4, <1>5, <2>6, <2>9 DEF IInv
<1> QED
  BY <1>6, <1>7

\* An insertion publishes an empty cell or takes what is there.
LEMMA InsertOK ==
  ASSUME IInv, NEW c \in Caller, Insert(c)
  PROVE  IInv'
<1> DEFINE cell == CellOf(calls[c])
           pool == Kept(pools[cell], calls[c].pool)
<1>1. /\ TypeOK /\ CallOK(c) /\ calls[c].pc = "insert"
      /\ global # None /\ calls[c].op \in Operation /\ calls[c].name \in Name
      /\ cell \in Cell /\ UNCHANGED <<global, anyDrivers>>
      /\ Sound(cell, calls[c].pool)
      /\ line' \in Lines
  BY CellTyped, UnderLockTyped DEF IInv, Insert, CallOK, TypeOK, Lines
<1>2. pool \in Pool /\ Sound(cell, pool)
  BY <1>1 DEF IInv, Sound, Kept
<1>3. /\ pools' = [pools EXCEPT ![cell] = pool]
      /\ calls' = [calls EXCEPT ![c] = Deliver(@, pool)]
  BY DEF Insert, TakenBack
<1>4. \A k \in Cell : pools[k] # None => pools'[k] = pools[k]
  BY <1>1, <1>3 DEF TypeOK, Kept
<1> HIDE DEF pool
<1>5. pools' \in [Cell -> Pool \cup {None}] /\ pools'[cell] = pool
  BY <1>1, <1>2, <1>3 DEF TypeOK
<1>6. calls' \in [Caller -> CallRecord] /\ CallOK(c)'
  BY <1>1, <1>2, <1>3, <1>5, DeliveryOK
<1>7. ASSUME NEW k \in Cell, pools'[k] # None PROVE Sound(k, pools[k])'
  BY <1>1, <1>2, <1>3, <1>7 DEF IInv, TypeOK, Sound, BuildError, DriverOf
<1>8. ASSUME NEW d \in Caller, d # c PROVE CallOK(d)'
  BY <1>1, <1>3, <1>4, <1>8, OthersOK DEF TypeOK
<1> QED
  BY <1>1, <1>5, <1>6, <1>7, <1>8 DEF IInv, TypeOK, Lines

\* Letting go.
LEMMA DropOK ==
  ASSUME IInv, NEW c \in Caller, Drop(c)
  PROVE  IInv'
<1>1. /\ TypeOK' /\ \A d \in Caller \ {c} : calls'[d] = calls[d]
      /\ calls'[c] = Idle /\ UNCHANGED <<global, pools, anyDrivers>>
  BY DEF Drop, IInv, TypeOK, Idle, CallRecord
<1>2. CallOK(c)'
  BY <1>1 DEF CallOK, Idle
<1> QED
  BY <1>1, <1>2, CallStepOK

\* Giving up.
LEMMA CancelOK ==
  ASSUME IInv, NEW c \in Caller, Cancel(c)
  PROVE  IInv'
<1>1. line' \in Lines
  BY LineTyped DEF Cancel, IInv, TypeOK, Lines, CacheOf, Cache
<1>2. /\ TypeOK' /\ \A d \in Caller \ {c} : calls'[d] = calls[d]
      /\ calls'[c] = Idle /\ UNCHANGED <<global, pools, anyDrivers>>
  BY <1>1 DEF Cancel, IInv, TypeOK, Idle, CallRecord, Lines
<1>3. CallOK(c)'
  BY <1>2 DEF CallOK, Idle
<1> QED
  BY <1>2, <1>3, CallStepOK

\* IInv holds in every state of the manager: every cached pool fits its entry
\* and every call in flight or ended is in order.
THEOREM Invariance == Spec => []IInv
<1>1. IInv /\ [Next]_vars => IInv'
  <2> SUFFICES ASSUME IInv, [Next]_vars PROVE IInv'
    OBVIOUS
  <2>1. ASSUME NEW c \in Caller, NEW cfg \in Configs, InstallWith(c, cfg) PROVE IInv'
    BY <2>1, InstallOK
  <2>2. ASSUME NEW c \in Caller, NEW op \in Operation, NEW n \in Name, Ask(c, op, n)
        PROVE  IInv'
    BY <2>2, AskOK
  <2>3. ASSUME NEW c \in Caller, Proceed(c) PROVE IInv'
    BY <2>3, LookUpOK, BuildOK, InsertOK DEF Proceed
  <2>4. ASSUME NEW c \in Caller, Drop(c) PROVE IInv'
    BY <2>4, DropOK
  <2>6. ASSUME NEW c \in Caller, Cancel(c) PROVE IInv'
    BY <2>6, CancelOK
  <2>5. CASE UNCHANGED vars
    BY <2>5 DEF vars, IInv, TypeOK, CallOK, Sound, BuildError, DriverOf, Deserved, CellOf
  <2> QED
    BY <2>1, <2>2, <2>3, <2>4, <2>5, <2>6 DEF Next
<1> QED
  BY <1>1, InitInv, PTL DEF Spec

\* Whoever uses a connection holds its cached pool (Agreement), for any number
\* of racing first users.
THEOREM UsersAgree == Spec => []Agreement
<1>1. IInv => Agreement
  BY DEF IInv, CallOK, Agreement
<1> QED
  BY <1>1, Invariance, PTL

\* What a use returns follows from the installed section alone.
THEOREM OutcomesAreConfigured == Spec => []OutcomeIsConfigured
<1>1. IInv => OutcomeIsConfigured
  <2> SUFFICES ASSUME IInv, NEW c \in Caller
               PROVE  LET call == calls[c] IN
                      /\ call.pc = "got" =>
                           /\ Deserved(call.op, call.name) = None
                           /\ call.op \in Driver => call.pool.driver = call.op
                           /\ call.op = "any" => anyDrivers
                      /\ call.pc = "failed" /\ call.op # None
                         /\ call.error \notin {"NotInstalled", "NoDefault"} =>
                           call.error = Deserved(call.op, call.name)
    BY DEF OutcomeIsConfigured
  <2>1. CallOK(c)
    BY DEF IInv
  <2>2. ASSUME calls[c].pc = "got"
        PROVE  Sound(CellOf(calls[c]), calls[c].pool) /\ Accepts(calls[c].op, calls[c].pool)
    BY <2>1, <2>2, CellTyped, ManagerAssumption DEF IInv, CallOK
  <2>3. ASSUME calls[c].pc = "got"
        PROVE  Deserved(calls[c].op, calls[c].name) = None
    BY <2>2, <2>3 DEF Sound, CellOf, Deserved, Accepts
  <2>4. ASSUME calls[c].pc = "got", calls[c].op = "any" PROVE anyDrivers
    BY <2>2, <2>4 DEF Sound, CellOf, CacheOf
  <2> QED
    BY <2>1, <2>2, <2>3, <2>4 DEF CallOK, Accepts
<1> QED
  BY <1>1, Invariance, PTL

\* The manager implements BuildOnce: a step publishes an empty cell and hands
\* its content out, or takes published pools, or lets go; a pool that was built
\* in vain never shows.
THEOREM PublishesOnce == Spec => ImplementsBuildOnce
<1> DEFINE heldNow == {<<c, CellOf(calls[c]), calls[c].pool>> :
                         c \in {d \in Caller : calls[d].pc = "got"}}
<1>1. Init => Once!Init
  BY DEF Init, Once!Init, Idle
<1>2. IInv /\ IInv' /\ [Next]_vars => [Once!Next]_(Once!onceVars)
  <2> SUFFICES ASSUME IInv, IInv', [Next]_vars PROVE Once!Next \/ UNCHANGED Once!onceVars
    OBVIOUS
  <2>1. ASSUME NEW h \in heldNow'
        PROVE  h[2] \in DOMAIN pools' /\ h[3] = pools'[h[2]] /\ pools'[h[2]] # None
    <3>1. PICK c \in Caller : calls'[c].pc = "got" /\ h = <<c, CellOf(calls'[c]), calls'[c].pool>>
      OBVIOUS
    <3>2. CellOf(calls'[c]) \in Cell /\ pools' \in [Cell -> Pool \cup {None}]
      BY <3>1 DEF IInv, CallOK, TypeOK, CellOf, CacheOf, Cell, Cache
    <3>3. calls'[c].pool = pools'[CellOf(calls'[c])] /\ calls'[c].pool \in Pool
      BY <3>1 DEF IInv, CallOK, CellOf
    <3> QED
      BY <3>1, <3>2, <3>3, ManagerAssumption
  <2>2. CASE pools' = pools
    <3>1. Once!Obtain
      BY <2>1, <2>2 DEF Once!Obtain
    <3> QED
      BY <3>1 DEF Once!Next
  <2>3. ASSUME NEW c \in Caller, Insert(c), pools[CellOf(calls[c])] = None
        PROVE  Once!Next
    <3> DEFINE cell == CellOf(calls[c])
    <3>1. cell \in Cell /\ calls[c].pool \in Pool /\ pools \in [Cell -> Pool \cup {None}]
      BY <2>3, CellTyped DEF IInv, TypeOK, CallOK, Insert, Sound
    <3>2. pools' = [pools EXCEPT ![cell] = calls[c].pool]
      BY <2>3 DEF Insert, Kept
    <3>3. \A d \in Caller \ {c} : calls'[d] = calls[d]
      BY <2>3 DEF Insert, IInv, TypeOK
    <3>4. CellOf(calls'[c]) = cell
      BY <2>3 DEF Insert, Deliver, Fail, CellOf, IInv, TypeOK, CallRecord
    <3>5. \A h \in heldNow' \ heldNow : h[2] = cell
      BY <3>3, <3>4
    <3>6. Once!Publish
      BY <2>1, <2>3, <3>1, <3>2, <3>5, ManagerAssumption DEF Once!Publish
    <3> QED
      BY <3>6 DEF Once!Next
  <2>4. ASSUME NEW c \in Caller, Insert(c), pools[CellOf(calls[c])] # None
        PROVE  pools' = pools
    BY <2>4 DEF Insert, Kept, IInv, TypeOK
  <2>5. ASSUME NEW c \in Caller, NEW cfg \in Configs, InstallWith(c, cfg) PROVE pools' = pools
    BY <2>5 DEF InstallWith
  <2>6. ASSUME NEW c \in Caller, NEW op \in Operation, NEW n \in Name, Ask(c, op, n)
        PROVE  pools' = pools
    BY <2>6 DEF Ask
  <2>7. ASSUME NEW c \in Caller, LookUp(c) \/ Build(c) \/ Drop(c) \/ Cancel(c)
        PROVE  pools' = pools
    BY <2>7 DEF LookUp, Build, Drop, Cancel
  <2>8. CASE UNCHANGED vars
    BY <2>2, <2>8 DEF vars
  <2> QED
    BY <2>2, <2>3, <2>4, <2>5, <2>6, <2>7, <2>8 DEF Next, Proceed
<1> QED
  BY <1>1, <1>2, Invariance, PTL DEF Spec, ImplementsBuildOnce, Once!Spec
=============================================================================
