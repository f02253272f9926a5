--------------------------- MODULE ContainerProofs ---------------------------
(***************************************************************************)
(* The caches of Container are publish-once, and its calls get what they   *)
(* asked for, for every set of tasks, every registration graph (cyclic     *)
(* ones included) and every number of requests; where the graph is acyclic *)
(* they never wait in a circle.                                            *)
(***************************************************************************)
EXTENDS ContainerBuilder, FiniteSetTheorems, WellFoundedInduction, TLAPS

(***************************************************************************)
(* Lemmas about the operators the actions are built from.                  *)
(***************************************************************************)
\* A registered request leads to at least one entry.
LEMMA EntriesTyped ==
  ASSUME NEW r \in Request, Registered(r)
  PROVE  EntriesOf(r) \in Seq(EntryId) /\ EntriesOf(r) # <<>>
  BY ContainerAssumption DEF Request, Registered, EntriesOf, ServiceKey

\* The request of a call, and a dependency's call.
LEMMA CallTyped ==
  ASSUME NEW c \in Call, c[2] # <<>>
  PROVE  /\ ReqOf(c) \in Request
         /\ c[1] \in Task /\ c[2] \in Seq(Request)
         /\ \A r \in Request : /\ Child(c, r) \in Call
                               /\ Child(c, r)[2] # <<>>
                               /\ Child(c, r)[1] = c[1]
                               /\ Child(c, r)[2] = Append(c[2], r)
                               /\ ReqOf(Child(c, r)) = r
<1>1. c[1] \in Task /\ c[2] \in Seq(Request) /\ Len(c[2]) \in Nat \ {0}
  BY DEF Call
<1>2. ReqOf(c) \in Request
  BY <1>1 DEF ReqOf, Last
<1>3. ASSUME NEW r \in Request
      PROVE  /\ Child(c, r) \in Call
             /\ Child(c, r)[2] # <<>>
             /\ Child(c, r)[1] = c[1]
             /\ Child(c, r)[2] = Append(c[2], r)
             /\ ReqOf(Child(c, r)) = r
  <2>1. /\ Append(c[2], r) \in Seq(Request)
        /\ Len(Append(c[2], r)) = Len(c[2]) + 1
        /\ Append(c[2], r)[Len(c[2]) + 1] = r
    BY <1>1
  <2>2. Append(c[2], r) # <<>>
    BY <1>1, <2>1
  <2> QED
    BY <1>1, <2>1, <2>2 DEF Child, Call, ReqOf, Last
<1> QED
  BY <1>1, <1>2, <1>3

\* Dropping futures only ever frees permits.
LEMMA ReleasedFacts ==
  ASSUME NEW gone, \A a \in DOMAIN cells : cells[a] \in Cell
  PROVE  /\ DOMAIN Released(gone) = DOMAIN cells
         /\ \A a \in DOMAIN cells :
              /\ Released(gone)[a] \in Cell
              /\ Released(gone)[a].val = cells[a].val
              /\ Released(gone)[a].by \in {cells[a].by, None}
              /\ cells[a].by \in gone => Released(gone)[a].by = None
              /\ cells[a].by \notin gone => Released(gone)[a].by = cells[a].by
  BY DEF Released, Cell

\* Error records.
LEMMA ErrorTyped ==
  /\ NoError \in Error
  /\ \A w \in Reason, c \in Call : [why |-> w, at |-> c] \in Error
  BY DEF NoError, Error, Reason

LEMMA BelowFacts ==
  ASSUME NEW c
  PROVE  Below(c) \subseteq DOMAIN calls /\ c \notin Below(c)
  BY DEF Below, IsStrictPrefix

\* The same singleton is always in the same cell; scoped slots are elsewhere.
LEMMA CellAddress ==
  ASSUME NEW c \in Call, NEW i
  PROVE  /\ Lifecycle[EntryAt(c, i)] = "singleton" => CellAt(c, i) = <<Process, EntryAt(c, i)>>
         /\ Lifecycle[EntryAt(c, i)] # "singleton" =>
              CellAt(c, i)[1] = c[1] /\ c[1] \in Task /\ c[1] # Process
                /\ \A e : CellAt(c, i) # <<Process, e>>
  BY ContainerAssumption DEF CellAt, Call
-----------------------------------------------------------------------------
(***************************************************************************)
(* How a call's part of the invariant survives a step.                     *)
(***************************************************************************)
\* What a step must leave alone in the cells that call d can see.
KeepsCellsOf(d) ==
  \A a \in DOMAIN cells : a[1] \in {d[1], Process} =>
    /\ a \in DOMAIN cells'
    /\ cells[a].val # None => cells'[a].val = cells[a].val
    /\ cells[a].by = d => cells'[a].by = d

KeepsValues ==
  \A a \in DOMAIN cells : /\ a \in DOMAIN cells'
                          /\ cells[a].val # None => cells'[a].val = cells[a].val

LEMMA EntryTyped ==
  ASSUME NEW c \in Call, c[2] # <<>>, Registered(ReqOf(c)),
         NEW j \in 1..Len(EntriesOf(ReqOf(c)))
  PROVE  EntryAt(c, j) \in EntryId
<1>1. ReqOf(c) \in Request
  BY CallTyped
<1> QED
  BY <1>1, EntriesTyped DEF EntryAt

LEMMA OtherCallKeeps ==
  ASSUME NEW d, CallOK(d), calls'[d] = calls[d], KeepsCellsOf(d)
  PROVE  CallOK(d)'
<1>1. d \in Call /\ \A i : CellAt(d, i)[1] \in {d[1], Process}
  BY CellAddress, Zenon DEF CallOK, CellAt
<1>2. WellPlaced(d)'
  BY DEF CallOK, WellPlaced, Active
<1>3. HasItsCell(d)'
  <2>1. CellOf(d)' = CellOf(d) /\ Kind(d)' = Kind(d) /\ Entry(d)' = Entry(d)
    BY DEF CellOf, Kind, Entry
  <2>2. calls[d].pc = "cell" => CellOf(d) \in DOMAIN cells'
    BY <1>1 DEF CallOK, HasItsCell, CellOf, KeepsCellsOf
  <2>3. calls[d].pc = "build" /\ Cached(Entry(d)) =>
          CellOf(d) \in DOMAIN cells' /\ cells'[CellOf(d)].by = d
    BY <1>1 DEF CallOK, HasItsCell, CellOf, KeepsCellsOf
  <2> QED
    BY <2>1, <2>2, <2>3 DEF CallOK, HasItsCell, Cached
<1>4. HasPublished(d)'
  <2> SUFFICES ASSUME NEW j \in DOMAIN calls[d].got, Cached(EntryAt(d, j))
               PROVE  /\ CellAt(d, j) \in DOMAIN cells'
                      /\ cells'[CellAt(d, j)].val = calls[d].got[j]
    BY DEF HasPublished
  <2>1. CellAt(d, j) \in DOMAIN cells /\ cells[CellAt(d, j)].val = calls[d].got[j]
    BY DEF CallOK, HasPublished
  <2>2. calls[d].got[j] # None
    BY ContainerAssumption DEF CallOK, Progress
  <2> QED
    BY <1>1, <2>1, <2>2 DEF KeepsCellsOf
<1> QED
  BY <1>2, <1>3, <1>4 DEF CallOK

\* A call that moves on with v, whose cell, if it has one, now holds v.
LEMMA AdvancedKeeps ==
  ASSUME NEW c, CallOK(c), Active(c), KeepsValues, NEW v \in Instance,
         calls'[c] = Advanced(c, v),
         Cached(Entry(c)) => CellOf(c) \in DOMAIN cells' /\ cells'[CellOf(c)].val = v
  PROVE  CallOK(c)'
<1> DEFINE n == Len(EntriesOf(ReqOf(c)))
           i == calls[c].i
<1>1. /\ c \in Call /\ c[2] # <<>> /\ calls[c] \in Progress
      /\ Registered(ReqOf(c)) /\ ReqOf(c) \in Request
      /\ n \in Nat \ {0} /\ i \in 1..n /\ Len(calls[c].got) = i - 1
      /\ calls[c].got \in Seq(Instance)
  BY CallTyped, EntriesTyped DEF CallOK, WellPlaced, Progress
<1>2. /\ calls'[c].got = Append(calls[c].got, v)
      /\ calls'[c].i = (IF i = n THEN i ELSE i + 1)
      /\ calls'[c].pc = (IF i = n THEN "done" ELSE "entry")
      /\ calls'[c] \in Progress
  <2>1. calls'[c] = [pc  |-> IF i = n THEN "done" ELSE "entry",
                     i   |-> IF i = n THEN i ELSE i + 1,
                     got |-> Append(calls[c].got, v),
                     err |-> NoError]
    BY DEF Advanced
  <2>2. Append(calls[c].got, v) \in Seq(Instance)
    BY <1>1
  <2> HIDE DEF n, i
  <2> QED
    BY <1>1, <2>1, <2>2, ErrorTyped DEF Progress
<1>3. /\ Len(calls'[c].got) = i
      /\ \A j \in 1..i : calls'[c].got[j] = (IF j = i THEN v ELSE calls[c].got[j])
      /\ calls'[c].got \in Seq(Instance)
  <2> HIDE DEF n
  <2> DEFINE g == calls[c].got
  <2>1. g \in Seq(Instance) /\ Len(g) = i - 1 /\ i \in Nat
    BY <1>1
  <2> HIDE DEF g, i
  <2>2. /\ Len(Append(g, v)) = i
        /\ \A j \in 1..i : Append(g, v)[j] = (IF j = i THEN v ELSE g[j])
        /\ Append(g, v) \in Seq(Instance)
    BY <2>1
  <2> QED
    BY <2>2, <1>2 DEF g
<1>4. WellPlaced(c)'
  BY <1>1, <1>2, <1>3 DEF WellPlaced, Active
<1>5. HasItsCell(c)'
  BY <1>2 DEF HasItsCell
<1>6. HasPublished(c)'
  <2> SUFFICES ASSUME NEW j \in 1..i, Cached(EntryAt(c, j))
               PROVE  /\ CellAt(c, j) \in DOMAIN cells'
                      /\ cells'[CellAt(c, j)].val = calls'[c].got[j]
    BY <1>1, <1>3 DEF HasPublished
  <2>1. CASE j = i
    BY <2>1, <1>3, <1>1 DEF Entry, CellOf
  <2>2. CASE j # i
    <3>1. j \in DOMAIN calls[c].got /\ calls[c].got[j] # None
      BY <2>2, <1>1, ContainerAssumption
    <3>2. CellAt(c, j) \in DOMAIN cells /\ cells[CellAt(c, j)].val = calls[c].got[j]
      BY <3>1 DEF CallOK, HasPublished
    <3> QED
      BY <3>1, <3>2, <1>3, <2>2 DEF KeepsValues
  <2> QED
    BY <2>1, <2>2
<1> QED
  BY <1>1, <1>2, <1>4, <1>5, <1>6 DEF CallOK

\* A call that starts, or that fails, holds nothing.
LEMMA OpenedOK ==
  ASSUME NEW c \in Call, c[2] # <<>>, calls'[c] = Opened(c)
  PROVE  CallOK(c)'
<1>1. ReqOf(c) = Last(c[2]) /\ ReqOf(c) \in Request /\ c[2] \in Seq(Request)
  BY CallTyped DEF ReqOf
<1>2. Opened(c) \in Progress /\ Opened(c).got = <<>> /\ Opened(c).i = 1
  <2>1. /\ [why |-> "cycle", at |-> c] \in Error
        /\ [why |-> "unregistered", at |-> c] \in Error
        /\ NoError \in Error
    BY <1>1, ErrorTyped DEF Reason
  <2>2. <<>> \in Seq(Instance)
    OBVIOUS
  <2>3. Entering \in Progress /\ EmptyResult \in Progress
    BY <2>1, <2>2 DEF Entering, EmptyResult, Progress
  <2>4. \A e \in Error : Failed(e) \in Progress
    BY <2>2 DEF Failed, Progress
  <2> QED
    BY <2>1, <2>3, <2>4 DEF Opened, Entering, EmptyResult, Failed
<1>3. Opened(c).pc \in {"entry", "done", "failed"}
  BY DEF Opened, Entering, EmptyResult, Failed
<1>4. Opened(c).pc = "entry" => Registered(ReqOf(c))
  BY <1>1 DEF Opened, Entering, EmptyResult, Failed
<1>5. WellPlaced(c)'
  <2>1. Registered(ReqOf(c)) => Len(EntriesOf(ReqOf(c))) \in Nat \ {0}
    BY <1>1, EntriesTyped
  <2> QED
    BY <1>2, <1>3, <1>4, <2>1 DEF WellPlaced, Active
<1> QED
  BY <1>2, <1>3, <1>5 DEF CallOK, HasItsCell, HasPublished

LEMMA FailedOK ==
  ASSUME NEW c \in Call, c[2] # <<>>, NEW e \in Error, calls'[c] = Failed(e)
  PROVE  CallOK(c)'
  BY DEF CallOK, WellPlaced, HasItsCell, HasPublished, Active, Failed, Progress
-----------------------------------------------------------------------------
(***************************************************************************)
(* The steps.                                                              *)
(***************************************************************************)
LEMMA InitInv == Init => IInv
<1> SUFFICES ASSUME Init PROVE IInv
  OBVIOUS
<1>1. Empty \in Cell /\ Empty.by = None /\ Empty.val = None
  BY DEF Empty, Cell
<1>2. DOMAIN calls = {}
  BY DEF Init
<1>3. \A a \in DOMAIN cells : CellOK(a)
  BY <1>1 DEF Init, CellOK
<1>4. \A e \in EntryId : SingletonOK(e)
  BY <1>1 DEF Init, SingletonOK
<1> QED
  BY <1>2, <1>3, <1>4, ContainerAssumption DEF Init, IInv

\* Steps that touch no cell and leave no factory run: only call c changes,
\* or comes into being.
LEMMA QuietStep ==
  ASSUME IInv, NEW c,
         c \in DOMAIN calls => calls[c].pc # "build",
         DOMAIN calls' = DOMAIN calls \cup {c},
         \A d \in DOMAIN calls \ {c} : calls'[d] = calls[d],
         cells' = cells, built' = built, roots' \in [Task -> 0..MaxRoots],
         CallOK(c)'
  PROVE  IInv'
<1>1. \A d \in DOMAIN calls' : CallOK(d)'
  <2> SUFFICES ASSUME NEW d \in DOMAIN calls \ {c} PROVE CallOK(d)'
    OBVIOUS
  <2> QED
    BY OtherCallKeeps DEF IInv, KeepsCellsOf
<1>2. \A a \in DOMAIN cells' : CellOK(a)'
  BY DEF IInv, CellOK, CellOf, Entry, Cached
<1>3. \A e \in EntryId : SingletonOK(e)'
  BY DEF IInv, SingletonOK
<1> QED
  BY <1>1, <1>2, <1>3 DEF IInv

LEMMA ResolveStep ==
  ASSUME IInv, NEW t \in Task, NEW r \in Wanted, Resolve(t, r)
  PROVE  IInv'
<1> DEFINE c == <<t, <<r>>>>
<1>1. c \in Call /\ c[2] # <<>> /\ r \in Request
  BY ContainerAssumption DEF Call
<1>2. /\ c \notin DOMAIN calls
      /\ DOMAIN calls' = DOMAIN calls \cup {c}
      /\ \A d \in DOMAIN calls \ {c} : calls'[d] = calls[d]
      /\ calls'[c] = Opened(c)
      /\ cells' = cells /\ built' = built
  BY DEF Resolve, Spawned
<1>3. roots' \in [Task -> 0..MaxRoots]
  BY ContainerAssumption DEF Resolve, IInv
<1> HIDE DEF c
<1> QED
  BY <1>1, <1>2, <1>3, OpenedOK, QuietStep

LEMMA ResolveDependencyStep ==
  ASSUME IInv, NEW c \in DOMAIN calls, NEW r \in Request, ResolveDependency(c, r)
  PROVE  IInv'
<1> DEFINE d == Child(c, r)
<1>1. d \in Call /\ d[2] # <<>>
  BY CallTyped DEF IInv, CallOK
<1>2. /\ d \notin DOMAIN calls
      /\ DOMAIN calls' = DOMAIN calls \cup {d}
      /\ \A x \in DOMAIN calls \ {d} : calls'[x] = calls[x]
      /\ calls'[d] = Opened(d)
      /\ cells' = cells /\ built' = built
  BY DEF ResolveDependency, Spawned
<1>3. roots' \in [Task -> 0..MaxRoots]
  BY DEF ResolveDependency, IInv
<1> HIDE DEF d
<1> QED
  BY <1>1, <1>2, <1>3, OpenedOK, QuietStep

\* What the invariant says of a call at one of its entries.
LEMMA ActiveCall ==
  ASSUME IInv, NEW c \in DOMAIN calls, Active(c)
  PROVE  /\ CallOK(c) /\ c \in Call /\ c[2] # <<>> /\ calls[c] \in Progress
         /\ c[2] \in Seq(Request)
         /\ Registered(ReqOf(c))
         /\ calls[c].i \in 1..Len(EntriesOf(ReqOf(c)))
         /\ Entry(c) \in EntryId
         /\ Kind(c) \in {"value", "singleton", "transient", "scoped"}
<1>1. CallOK(c)
  BY DEF IInv
<1>2. /\ c \in Call /\ c[2] # <<>> /\ calls[c] \in Progress
      /\ Registered(ReqOf(c)) /\ ReqOf(c) \in Request /\ c[2] \in Seq(Request)
      /\ calls[c].i <= Len(EntriesOf(ReqOf(c)))
  BY <1>1, CallTyped DEF CallOK, WellPlaced
<1>3. calls[c].i \in 1..Len(EntriesOf(ReqOf(c)))
  BY <1>2, EntriesTyped DEF Progress
<1>4. Entry(c) \in EntryId
  BY <1>2, <1>3, EntryTyped DEF Entry
<1> QED
  BY <1>1, <1>2, <1>3, <1>4, ContainerAssumption DEF Kind

LEMMA UseValueStep ==
  ASSUME IInv, NEW c \in DOMAIN calls, UseValue(c)
  PROVE  IInv'
<1>1. Active(c) /\ Kind(c) = "value" /\ calls[c].pc # "build"
  BY DEF UseValue, Active
<1>2. CallOK(c) /\ Entry(c) \in EntryId /\ ~Cached(Entry(c))
  BY <1>1, ActiveCall DEF Cached, Kind
<1>3. /\ DOMAIN calls' = DOMAIN calls \cup {c}
      /\ \A d \in DOMAIN calls \ {c} : calls'[d] = calls[d]
      /\ calls'[c] = Advanced(c, <<Entry(c), 0>>)
      /\ cells' = cells /\ built' = built /\ roots' = roots
  BY DEF UseValue
<1>4. CallOK(c)'
  <2>1. <<Entry(c), 0>> \in Instance
    BY <1>2 DEF Instance
  <2>2. KeepsValues
    BY <1>3 DEF KeepsValues
  <2> QED
    BY <1>1, <1>2, <1>3, <2>1, <2>2, AdvancedKeeps
<1>5. roots' \in [Task -> 0..MaxRoots]
  BY <1>3 DEF IInv
<1> QED
  BY <1>1, <1>3, <1>4, <1>5, QuietStep

LEMMA FindSlotStep ==
  ASSUME IInv, NEW c \in DOMAIN calls, FindSlot(c)
  PROVE  IInv'
<1>1. Active(c) /\ Kind(c) = "scoped" /\ calls[c].pc = "entry"
  BY DEF FindSlot, Active
<1>2. CallOK(c) /\ c \in Call /\ c[2] # <<>> /\ c[2] \in Seq(Request)
  BY <1>1, ActiveCall
<1>3. /\ DOMAIN calls' = DOMAIN calls \cup {c}
      /\ \A d \in DOMAIN calls \ {c} : calls'[d] = calls[d]
      /\ cells' = cells /\ built' = built /\ roots' = roots
  BY DEF FindSlot
<1>4. CallOK(c)'
  <2>1. CASE c[1] \notin ScopedTask
    <3>1. [why |-> "no scope", at |-> c] \in Error
      BY <1>2, ErrorTyped DEF Reason
    <3>2. calls'[c] = Failed([why |-> "no scope", at |-> c])
      BY <2>1 DEF FindSlot
    <3> QED
      BY <1>2, <3>1, <3>2, FailedOK
  <2>2. CASE c[1] \in ScopedTask
    <3>1. calls'[c] = [calls[c] EXCEPT !.pc = IF CellOf(c) \in DOMAIN cells THEN "cell" ELSE "insert"]
      BY <2>2 DEF FindSlot
    <3>2. calls[c] \in Progress
      BY <1>2 DEF CallOK
    <3>3. /\ calls'[c].pc = (IF CellOf(c) \in DOMAIN cells THEN "cell" ELSE "insert")
          /\ calls'[c].i = calls[c].i /\ calls'[c].got = calls[c].got
          /\ calls'[c] \in Progress
      BY <3>1, <3>2 DEF Progress
    <3>4. WellPlaced(c)'
      BY <1>1, <1>2, <3>3 DEF CallOK, WellPlaced, Active
    <3>5. HasItsCell(c)'
      <4>1. Entry(c)' = Entry(c) /\ CellOf(c)' = CellOf(c) /\ Kind(c)' = Kind(c)
        BY <3>3 DEF Entry, CellOf, Kind
      <4> QED
        BY <1>1, <1>3, <3>3, <4>1 DEF HasItsCell
    <3>6. HasPublished(c)'
      BY <1>2, <1>3, <3>3 DEF CallOK, HasPublished
    <3> QED
      BY <1>2, <3>3, <3>4, <3>5, <3>6 DEF CallOK
  <2> QED
    BY <2>1, <2>2
<1>5. roots' \in [Task -> 0..MaxRoots]
  BY <1>3 DEF IInv
<1> QED
  BY <1>1, <1>3, <1>4, <1>5, QuietStep

\* A call in get_or_try_init has a cell, and only cached entries have one.
LEMMA AtCellHasCell ==
  ASSUME IInv, NEW c \in DOMAIN calls, AtCell(c)
  PROVE  CellOf(c) \in DOMAIN cells /\ Cached(Entry(c)) /\ Active(c)
<1>1. Active(c)
  BY DEF AtCell, Active
<1>2. CallOK(c) /\ c \in Call /\ Entry(c) \in EntryId
  BY <1>1, ActiveCall
<1>3. CASE calls[c].pc = "cell"
  BY <1>1, <1>2, <1>3 DEF CallOK, HasItsCell, Cached, Kind
<1>4. CASE calls[c].pc = "entry" /\ Kind(c) = "singleton"
  <2>1. CellOf(c) = <<Process, Entry(c)>>
    BY <1>4, <1>2, CellAddress DEF CellOf, Entry, Kind
  <2> QED
    BY <1>1, <2>1, <1>4, <1>2 DEF IInv, SingletonOK, Kind, Cached
<1> QED
  BY <1>3, <1>4 DEF AtCell

LEMMA ReuseCellStep ==
  ASSUME IInv, NEW c \in DOMAIN calls, ReuseCell(c)
  PROVE  IInv'
<1>1. Active(c) /\ calls[c].pc # "build" /\ AtCell(c)
  BY DEF ReuseCell, AtCell, Active
<1>2. CallOK(c) /\ c \in Call /\ Entry(c) \in EntryId
  BY <1>1, ActiveCall
<1> DEFINE v == cells[CellOf(c)].val
<1>3. /\ DOMAIN calls' = DOMAIN calls \cup {c}
      /\ \A d \in DOMAIN calls \ {c} : calls'[d] = calls[d]
      /\ calls'[c] = Advanced(c, v)
      /\ cells' = cells /\ built' = built /\ roots' = roots
      /\ v # None
  BY DEF ReuseCell
<1>4. CellOf(c) \in DOMAIN cells
  BY <1>1, AtCellHasCell
<1>5. v \in Instance
  BY <1>3, <1>4 DEF IInv, CellOK, Cell
<1>6. KeepsValues
  BY <1>3 DEF KeepsValues
<1>7. roots' \in [Task -> 0..MaxRoots]
  BY <1>3 DEF IInv
<1> HIDE DEF v
<1>8. cells'[CellOf(c)].val = v /\ CellOf(c) \in DOMAIN cells'
  BY <1>3, <1>4 DEF v
<1>9. CallOK(c)'
  BY <1>1, <1>2, <1>3, <1>5, <1>6, <1>8, AdvancedKeeps
<1> QED
  BY <1>1, <1>3, <1>9, <1>7, QuietStep

\* Steps that drop a set of futures and free what they held.
LEMMA ReleaseStep ==
  ASSUME IInv, NEW gone,
         cells' = Released(gone), built' = built, roots' = roots,
         DOMAIN calls \ gone \subseteq DOMAIN calls',
         \A d \in DOMAIN calls' \ gone : d \in DOMAIN calls /\ calls'[d] = calls[d],
         \A d \in DOMAIN calls' \cap gone : CallOK(d)'
  PROVE  IInv'
<1>1. /\ DOMAIN cells' = DOMAIN cells
      /\ \A a \in DOMAIN cells :
           /\ cells'[a] \in Cell /\ cells'[a].val = cells[a].val
           /\ cells'[a].by \in {cells[a].by, None}
           /\ cells[a].by \in gone => cells'[a].by = None
           /\ cells[a].by \notin gone => cells'[a].by = cells[a].by
  BY ReleasedFacts, Zenon DEF IInv, CellOK
<1>2. \A d \in DOMAIN calls' : CallOK(d)'
  <2> SUFFICES ASSUME NEW d \in DOMAIN calls' \ gone PROVE CallOK(d)'
    OBVIOUS
  <2>1. CallOK(d) /\ calls'[d] = calls[d]
    BY DEF IInv
  <2>2. KeepsCellsOf(d)
    BY <1>1 DEF KeepsCellsOf
  <2> QED
    BY <2>1, <2>2, OtherCallKeeps
<1>3. \A a \in DOMAIN cells' : CellOK(a)'
  <2> SUFFICES ASSUME NEW a \in DOMAIN cells, NEW h, h = cells[a].by,
                      cells'[a].by # None
               PROVE  CellOK(a)'
    BY <1>1 DEF CellOK
  <2>1. h # None /\ h \notin gone /\ cells'[a].by = h
    BY <1>1
  <2>2. /\ h \in DOMAIN calls /\ calls[h].pc = "build" /\ CellOf(h) = a
        /\ Cached(Entry(h)) /\ cells[a].val = None
    BY <2>1 DEF IInv, CellOK
  <2>3. h \in DOMAIN calls' /\ calls'[h] = calls[h]
    BY <2>1, <2>2
  <2>4. CellOf(h)' = CellOf(h) /\ Entry(h)' = Entry(h)
    BY <2>3 DEF CellOf, Entry
  <2> QED
    BY <1>1, <2>1, <2>2, <2>3, <2>4 DEF CellOK, Cached
<1>4. \A e \in EntryId : SingletonOK(e)'
  BY <1>1 DEF IInv, SingletonOK
<1> QED
  BY <1>2, <1>3, <1>4 DEF IInv

LEMMA DropCallStep ==
  ASSUME IInv, NEW c \in DOMAIN calls, DropCall(c)
  PROVE  IInv'
<1> DEFINE gone == Abandoned(c)
<1>1. /\ DOMAIN calls' = DOMAIN calls \ gone
      /\ \A d \in DOMAIN calls' : calls'[d] = calls[d]
  BY DEF DropCall, Survivors, Restrict
<1>2. cells' = Released(gone) /\ built' = built /\ roots' = roots
  BY DEF DropCall
<1> HIDE DEF gone
<1> QED
  BY <1>1, <1>2, ReleaseStep

LEMMA FailBuildStep ==
  ASSUME IInv, NEW c \in DOMAIN calls, FailBuild(c)
  PROVE  IInv'
<1>1. Active(c)
  BY DEF FailBuild, Active
<1>2. c \in Call /\ c[2] # <<>> /\ c[2] \in Seq(Request) /\ Entry(c) \in EntryId
  BY <1>1, ActiveCall
<1>3. FactoryErrors(c) \subseteq Error
  <2>1. \A d \in DOMAIN calls : calls[d].err \in Error
    BY DEF IInv, CallOK, Progress
  <2>2. [why |-> "factory", at |-> c] \in Error
    BY <1>2, ErrorTyped DEF Reason
  <2> QED
    BY <2>1, <2>2 DEF FactoryErrors
<1>4. PICK e \in FactoryErrors(c) :
        calls' = [Survivors(Below(c)) EXCEPT ![c] = Failed(e)]
  BY DEF FailBuild
<1> DEFINE gone == Abandoned(c)
<1>5. c \notin Below(c) /\ gone = Below(c) \cup {c} /\ c \in gone
  BY BelowFacts DEF Abandoned
<1>6. /\ DOMAIN calls' = DOMAIN calls \ Below(c)
      /\ calls'[c] = Failed(e)
      /\ \A d \in DOMAIN calls' \ {c} : calls'[d] = calls[d]
  BY <1>4, <1>5 DEF Survivors, Restrict
<1>7. cells' = Released(gone) /\ built' = built /\ roots' = roots
  BY DEF FailBuild
<1>8. CallOK(c)'
  BY <1>2, <1>3, <1>6, FailedOK
<1> HIDE DEF gone
<1>9. /\ DOMAIN calls \ gone \subseteq DOMAIN calls'
      /\ \A d \in DOMAIN calls' \ gone : d \in DOMAIN calls /\ calls'[d] = calls[d]
      /\ \A d \in DOMAIN calls' \cap gone : d = c
  BY <1>5, <1>6
<1>10. \A d \in DOMAIN calls' \cap gone : CallOK(d)'
  BY <1>8, <1>9
<1> QED
  BY <1>7, <1>9, <1>10, ReleaseStep

LEMMA EndRequestStep ==
  ASSUME IInv, NEW t \in ScopedTask, EndRequest(t)
  PROVE  IInv'
<1>1. /\ DOMAIN cells' = {a \in DOMAIN cells : a[1] # t}
      /\ \A a \in DOMAIN cells' : cells'[a] = cells[a]
      /\ calls' = calls /\ built' = built /\ roots' = roots
  BY DEF EndRequest, Restrict
<1>2. t # Process
  BY ContainerAssumption
<1>3. \A d \in DOMAIN calls' : CallOK(d)'
  <2> SUFFICES ASSUME NEW d \in DOMAIN calls PROVE CallOK(d)'
    BY <1>1
  <2>1. d[1] # t
    BY DEF EndRequest
  <2>2. KeepsCellsOf(d)
    BY <1>1, <1>2, <2>1 DEF KeepsCellsOf
  <2>3. CallOK(d)
    BY DEF IInv
  <2> QED
    BY <1>1, <2>2, <2>3, OtherCallKeeps
<1>4. \A a \in DOMAIN cells' : CellOK(a)'
  BY <1>1 DEF IInv, CellOK, CellOf, Entry, Cached
<1>5. \A e \in EntryId : SingletonOK(e)'
  BY <1>1, <1>2 DEF IInv, SingletonOK
<1> QED
  BY <1>1, <1>3, <1>4, <1>5 DEF IInv

\* c leaves its position unchanged but for the program counter.
LEMMA RepositionKeeps ==
  ASSUME NEW c, CallOK(c), Active(c), KeepsCellsOf(c),
         NEW p \in {"cell", "build"}, calls'[c] = [calls[c] EXCEPT !.pc = p],
         HasItsCell(c)'
  PROVE  CallOK(c)'
<1>1. calls[c] \in Progress /\ c \in Call
  BY DEF CallOK
<1>2. /\ calls'[c].pc = p /\ calls'[c].i = calls[c].i /\ calls'[c].got = calls[c].got
      /\ calls'[c] \in Progress
  BY <1>1 DEF Progress
<1>3. WellPlaced(c)'
  BY <1>2 DEF CallOK, WellPlaced, Active
<1>4. HasPublished(c)'
  <2> SUFFICES ASSUME NEW j \in DOMAIN calls[c].got, Cached(EntryAt(c, j))
               PROVE  /\ CellAt(c, j) \in DOMAIN cells'
                      /\ cells'[CellAt(c, j)].val = calls[c].got[j]
    BY <1>2 DEF HasPublished
  <2>1. CellAt(c, j) \in DOMAIN cells /\ cells[CellAt(c, j)].val = calls[c].got[j]
    BY DEF CallOK, HasPublished
  <2>2. calls[c].got[j] # None
    BY <1>1, ContainerAssumption DEF Progress
  <2>3. CellAt(c, j)[1] \in {c[1], Process}
    BY <1>1, CellAddress, Zenon DEF CellAt
  <2> QED
    BY <2>1, <2>2, <2>3 DEF KeepsCellsOf
<1> QED
  BY <1>2, <1>3, <1>4 DEF CallOK

LEMMA InsertSlotStep ==
  ASSUME IInv, NEW c \in DOMAIN calls, InsertSlot(c)
  PROVE  IInv'
<1>1. Active(c) /\ calls[c].pc = "insert"
  BY DEF InsertSlot, Active
<1>2. CallOK(c) /\ c \in Call /\ Kind(c) = "scoped" /\ calls[c] \in Progress
  BY <1>1, ActiveCall DEF CallOK, HasItsCell
<1>3. /\ DOMAIN calls' = DOMAIN calls
      /\ \A d \in DOMAIN calls \ {c} : calls'[d] = calls[d]
      /\ calls'[c] = [calls[c] EXCEPT !.pc = "cell"]
      /\ DOMAIN cells' = DOMAIN cells \cup {CellOf(c)}
      /\ \A a \in DOMAIN cells : cells'[a] = cells[a]
      /\ \A a \in DOMAIN cells' \ DOMAIN cells : cells'[a] = Empty
      /\ built' = built /\ roots' = roots
  BY DEF InsertSlot, WithSlot
<1>4. \A d : KeepsCellsOf(d)
  BY <1>3 DEF KeepsCellsOf
<1>5. calls'[c].pc = "cell" /\ calls'[c].i = calls[c].i
  BY <1>2, <1>3 DEF Progress
<1>6. HasItsCell(c)'
  <2>1. CellOf(c)' = CellOf(c) /\ Kind(c)' = Kind(c)
    BY <1>5 DEF CellOf, Kind, Entry
  <2> QED
    BY <2>1, <1>2, <1>3, <1>5 DEF HasItsCell
<1>7. \A d \in DOMAIN calls' : CallOK(d)'
  <2>1. CallOK(c)'
    BY <1>1, <1>2, <1>3, <1>4, <1>6, RepositionKeeps
  <2>2. ASSUME NEW d \in DOMAIN calls \ {c} PROVE CallOK(d)'
    BY <1>3, <1>4, OtherCallKeeps DEF IInv
  <2> QED
    BY <2>1, <2>2, <1>3
<1>8. \A a \in DOMAIN cells' : CellOK(a)'
  <2>1. ASSUME NEW a \in DOMAIN cells PROVE CellOK(a)'
    BY <1>1, <1>3 DEF IInv, CellOK, CellOf, Entry, Cached
  <2>2. ASSUME NEW a \in DOMAIN cells' \ DOMAIN cells PROVE CellOK(a)'
    BY <1>3 DEF CellOK, Empty, Cell
  <2> QED
    BY <2>1, <2>2
<1>9. \A e \in EntryId : SingletonOK(e)'
  BY <1>3 DEF IInv, SingletonOK
<1> QED
  BY <1>3, <1>7, <1>8, <1>9 DEF IInv

LEMMA BeginBuildStep ==
  ASSUME IInv, NEW c \in DOMAIN calls, BeginBuild(c)
  PROVE  IInv'
<1>1. Active(c) /\ calls[c].pc # "build"
  BY DEF BeginBuild, Active, AtCell
<1>2. CallOK(c) /\ c \in Call /\ calls[c] \in Progress
  BY <1>1, ActiveCall
<1>3. /\ DOMAIN calls' = DOMAIN calls
      /\ \A d \in DOMAIN calls \ {c} : calls'[d] = calls[d]
      /\ calls'[c] = [calls[c] EXCEPT !.pc = "build"]
      /\ built' = built /\ roots' = roots
  BY DEF BeginBuild
<1>4. calls'[c].pc = "build" /\ calls'[c].i = calls[c].i
  BY <1>2, <1>3 DEF Progress
<1>5. CellOf(c)' = CellOf(c) /\ Kind(c)' = Kind(c) /\ Entry(c)' = Entry(c)
  BY <1>4 DEF CellOf, Kind, Entry
<1>6. CASE calls[c].pc = "entry" /\ Kind(c) = "transient" /\ cells' = cells
  <2>1. HasItsCell(c)'
    BY <1>4, <1>5, <1>6 DEF HasItsCell, Cached, Kind
  <2>2. KeepsCellsOf(c)
    BY <1>6 DEF KeepsCellsOf
  <2>3. CallOK(c)'
    BY <1>1, <1>2, <1>3, <2>1, <2>2, RepositionKeeps
  <2>4. roots' \in [Task -> 0..MaxRoots]
    BY <1>3 DEF IInv
  <2> QED
    BY <1>1, <1>3, <1>6, <2>3, <2>4, QuietStep
<1>7. CASE /\ AtCell(c) /\ Vacant(cells[CellOf(c)])
           /\ cells' = [cells EXCEPT ![CellOf(c)].by = c]
  <2>1. CellOf(c) \in DOMAIN cells /\ Cached(Entry(c)) /\ Kind(c) # "value"
    BY <1>7, AtCellHasCell DEF Cached, Kind
  <2>2. /\ DOMAIN cells' = DOMAIN cells
        /\ \A a \in DOMAIN cells \ {CellOf(c)} : cells'[a] = cells[a]
        /\ cells'[CellOf(c)] \in Cell
        /\ cells'[CellOf(c)].by = c
        /\ cells'[CellOf(c)].val = None
        /\ cells[CellOf(c)].by = None /\ cells[CellOf(c)].val = None
    BY <1>2, <1>7, <2>1 DEF Vacant, IInv, CellOK, Cell
  <2>3. \A d \in Call : KeepsCellsOf(d)
    BY <2>2, ContainerAssumption DEF KeepsCellsOf
  <2>4. HasItsCell(c)'
    BY <1>4, <1>5, <2>1, <2>2 DEF HasItsCell
  <2>5. \A d \in DOMAIN calls' : CallOK(d)'
    <3>1. CallOK(c)'
      BY <1>1, <1>2, <1>3, <2>3, <2>4, RepositionKeeps
    <3>2. ASSUME NEW d \in DOMAIN calls \ {c} PROVE CallOK(d)'
      <4>1. CallOK(d) /\ d \in Call
        BY DEF IInv, CallOK
      <4> QED
        BY <1>3, <2>3, <4>1, OtherCallKeeps
    <3> QED
      BY <3>1, <3>2, <1>3
  <2>6. \A a \in DOMAIN cells' : CellOK(a)'
    <3>1. ASSUME NEW a \in DOMAIN cells \ {CellOf(c)} PROVE CellOK(a)'
      BY <1>1, <1>3, <2>2 DEF IInv, CellOK, CellOf, Entry, Cached
    <3>2. ASSUME NEW a, a = CellOf(c) PROVE CellOK(a)'
      <4>1. /\ cells'[a] \in Cell /\ cells'[a].by = c /\ cells'[a].val = None
            /\ CellOf(c)' = a /\ Cached(Entry(c))'
        BY <1>5, <2>1, <2>2, <3>2 DEF Cached
      <4> QED
        BY <4>1, <1>3, <1>4 DEF CellOK
    <3> QED
      BY <3>1, <3>2, <2>2
  <2>7. \A e \in EntryId : SingletonOK(e)'
    BY <1>3, <2>2 DEF IInv, SingletonOK
  <2> QED
    BY <1>3, <2>5, <2>6, <2>7 DEF IInv
<1> QED
  BY <1>6, <1>7 DEF BeginBuild

LEMMA FinishBuildStep ==
  ASSUME IInv, NEW c \in DOMAIN calls, FinishBuild(c)
  PROVE  IInv'
<1> DEFINE v == <<Entry(c), built[Entry(c)] + 1>>
           freed == Released(Below(c))
<1>1. Active(c) /\ calls[c].pc = "build"
  BY DEF FinishBuild, Active
<1>2. /\ CallOK(c) /\ c \in Call /\ Entry(c) \in EntryId
      /\ Kind(c) \in {"singleton", "transient", "scoped"}
      /\ Cached(Entry(c)) <=> Kind(c) # "transient"
  BY <1>1, ActiveCall DEF CallOK, HasItsCell, Cached, Kind
<1>3. v \in Instance /\ v # None /\ built \in [EntryId -> Nat]
  BY <1>2, ContainerAssumption DEF IInv, Instance
<1>4. /\ c \notin Below(c)
      /\ DOMAIN calls' = DOMAIN calls \ Below(c)
      /\ calls'[c] = Advanced(c, v)
      /\ \A d \in DOMAIN calls' \ {c} : calls'[d] = calls[d]
  BY BelowFacts DEF FinishBuild, Survivors, Restrict
<1>5. /\ built' = [built EXCEPT ![Entry(c)] = @ + 1]
      /\ roots' = roots
      /\ cells' = Publish(c, v, freed)
  BY DEF FinishBuild
<1> HIDE DEF v
\* Only c's own cell, which was still empty, gets a value.
<1>6. Cached(Entry(c)) => /\ CellOf(c) \in DOMAIN cells
                          /\ cells[CellOf(c)].by = c
                          /\ cells[CellOf(c)].val = None
  <2>1. Cached(Entry(c)) => CellOf(c) \in DOMAIN cells /\ cells[CellOf(c)].by = c
    BY <1>1, <1>2 DEF CallOK, HasItsCell
  <2>2. c # None
    BY <1>2, ContainerAssumption
  <2> QED
    BY <2>1, <2>2 DEF IInv, CellOK
<1>7. /\ DOMAIN freed = DOMAIN cells
      /\ \A a \in DOMAIN cells :
           /\ freed[a] \in Cell /\ freed[a].val = cells[a].val
           /\ freed[a].by \in {cells[a].by, None}
           /\ cells[a].by \in Below(c) => freed[a].by = None
           /\ cells[a].by \notin Below(c) => freed[a].by = cells[a].by
  BY ReleasedFacts, Zenon DEF IInv, CellOK
<1> HIDE DEF freed
<1>8. /\ DOMAIN cells' = DOMAIN cells
      /\ \A a \in DOMAIN cells :
           IF Cached(Entry(c)) /\ a = CellOf(c)
           THEN cells'[a] = [by |-> None, val |-> v]
           ELSE cells'[a] = freed[a]
  BY <1>2, <1>5, <1>6, <1>7 DEF Publish
<1>9. \A d \in Call \ {c} : d \notin Below(c) => KeepsCellsOf(d)
  BY <1>6, <1>7, <1>8 DEF KeepsCellsOf
<1>10. \A d \in DOMAIN calls' : CallOK(d)'
  <2>1. CallOK(c)'
    <3>1. Cached(Entry(c)) => CellOf(c) \in DOMAIN cells' /\ cells'[CellOf(c)].val = v
      BY <1>6, <1>8
    <3>2. KeepsValues
      BY <1>6, <1>7, <1>8 DEF KeepsValues
    <3> QED
      BY <1>1, <1>2, <1>3, <1>4, <3>1, <3>2, AdvancedKeeps
  <2>2. ASSUME NEW d \in DOMAIN calls' \ {c} PROVE CallOK(d)'
    <3>1. d \in DOMAIN calls /\ d \notin Below(c) /\ CallOK(d) /\ d \in Call
      BY <1>4 DEF IInv, CallOK
    <3> QED
      BY <1>4, <1>9, <3>1, OtherCallKeeps
  <2> QED
    BY <2>1, <2>2
<1>11. \A a \in DOMAIN cells' : CellOK(a)'
  <2> SUFFICES ASSUME NEW a \in DOMAIN cells, NEW h, h = cells[a].by
               PROVE  CellOK(a)'
    BY <1>8
  <2>1. CASE Cached(Entry(c)) /\ a = CellOf(c)
    BY <2>1, <1>3, <1>8 DEF CellOK, Cell
  <2>2. CASE ~(Cached(Entry(c)) /\ a = CellOf(c))
    <3>1. cells'[a] = freed[a] /\ cells'[a] \in Cell
      BY <2>2, <1>7, <1>8
    <3>2. CASE cells'[a].by = None
      BY <3>1, <3>2 DEF CellOK
    <3>3. CASE cells'[a].by # None
      <4>1. h \notin Below(c) /\ cells'[a].by = h /\ h # None
        BY <3>1, <3>3, <1>7
      <4>2. /\ h \in DOMAIN calls /\ calls[h].pc = "build" /\ CellOf(h) = a
            /\ Cached(Entry(h)) /\ cells[a].val = None
        BY <4>1 DEF IInv, CellOK
      <4>3. h # c
        BY <4>2, <2>2
      <4>4. h \in DOMAIN calls' /\ calls'[h] = calls[h]
        BY <4>1, <4>2, <4>3, <1>4
      <4>5. CellOf(h)' = CellOf(h) /\ Entry(h)' = Entry(h)
        BY <4>4 DEF CellOf, Entry
      <4> QED
        BY <3>1, <4>1, <4>2, <4>4, <4>5, <1>7 DEF CellOK, Cached
    <3> QED
      BY <3>2, <3>3
  <2> QED
    BY <2>1, <2>2
<1>12. \A e \in EntryId : SingletonOK(e)'
  <2> SUFFICES ASSUME NEW e \in EntryId, Lifecycle[e] = "singleton"
               PROVE  SingletonOK(e)'
    BY DEF SingletonOK
  <2>1. SingletonOK(e)
    BY DEF IInv
  <2>2. CASE e = Entry(c)
    <3>1. CellOf(c) = <<Process, e>> /\ Cached(Entry(c))
      BY <2>2, <1>2, CellAddress DEF CellOf, Entry, Kind, Cached
    <3>2. built[e] = 0 /\ built'[e] = 1
      BY <2>1, <2>2, <3>1, <1>3, <1>5, <1>6 DEF SingletonOK
    <3>3. <<Process, e>> \in DOMAIN cells' /\ cells'[<<Process, e>>].val = v
      BY <3>1, <1>6, <1>8
    <3> QED
      BY <3>2, <3>3, <1>3 DEF SingletonOK
  <2>3. CASE e # Entry(c)
    <3>1. built'[e] = built[e]
      BY <2>3, <1>3, <1>5
    <3>2. Cached(Entry(c)) => CellOf(c) # <<Process, e>>
      BY <2>3, <1>2, CellAddress DEF CellOf, Entry, Kind, Cached
    <3>3. /\ <<Process, e>> \in DOMAIN cells'
          /\ cells'[<<Process, e>>].val = cells[<<Process, e>>].val
      BY <2>1, <3>2, <1>7, <1>8 DEF SingletonOK
    <3> QED
      BY <2>1, <3>1, <3>3 DEF SingletonOK
  <2> QED
    BY <2>2, <2>3
<1>13. built' \in [EntryId -> Nat] /\ roots' \in [Task -> 0..MaxRoots]
  BY <1>2, <1>3, <1>5 DEF IInv
<1> QED
  BY <1>10, <1>11, <1>12, <1>13 DEF IInv

LEMMA StepInv == IInv /\ [Next]_vars => IInv'
<1> SUFFICES ASSUME IInv, [Next]_vars PROVE IInv'
  OBVIOUS
<1>1. ASSUME NEW t \in Task, NEW r \in Wanted, Resolve(t, r) PROVE IInv'
  BY <1>1, ResolveStep
<1>2. ASSUME NEW c \in DOMAIN calls, Poll(c) PROVE IInv'
  BY <1>2, ResolveDependencyStep, UseValueStep, FindSlotStep, InsertSlotStep,
     ReuseCellStep, BeginBuildStep, FinishBuildStep, FailBuildStep DEF Poll
<1>3. ASSUME NEW c \in DOMAIN calls, DropCall(c) PROVE IInv'
  BY <1>3, DropCallStep
<1>4. ASSUME NEW t \in ScopedTask, EndRequest(t) PROVE IInv'
  BY <1>4, EndRequestStep
<1>5. CASE UNCHANGED vars
  BY <1>5 DEF vars, IInv, CallOK, CellOK, SingletonOK, WellPlaced, Active,
     HasItsCell, HasPublished, Kind, Entry, CellOf, Cached
<1> QED
  BY <1>1, <1>2, <1>3, <1>4, <1>5 DEF Next

\* IInv is an invariant of the container.
THEOREM Invariance == Spec => []IInv
<1> QED
  BY InitInv, StepInv, PTL DEF Spec
-----------------------------------------------------------------------------
\* Calls, cells and counters always have the shape the code gives them.
THEOREM TypeCorrect == Spec => []TypeOK
<1>1. IInv => TypeOK
  BY DEF IInv, CallOK, CellOK, TypeOK
<1> QED
  BY <1>1, Invariance, PTL

\* No OnceCell is left locked by a call that is gone, failed or done:
\* cancellation and factory errors always return the permit.
THEOREM PermitsAreReturned == Spec => []PermitHeldByBuilder
<1>1. IInv => PermitHeldByBuilder
  BY DEF IInv, CellOK, PermitHeldByBuilder
<1> QED
  BY <1>1, Invariance, PTL

\* All holders of a singleton, and all holders of a scoped entry within a
\* request, hold the published instance.
THEOREM HoldersAgree == Spec => []Agreement
<1>1. IInv => Agreement
  BY DEF IInv, CallOK, Agreement
<1> QED
  BY <1>1, Invariance, PTL

\* A singleton's factory succeeds at most once in the process.
THEOREM SingletonsAreBuiltOnce == Spec => []BuiltAtMostOnce
<1>1. IInv => BuiltAtMostOnce
  BY DEF IInv, SingletonOK, BuiltAtMostOnce
<1> QED
  BY <1>1, Invariance, PTL
-----------------------------------------------------------------------------
(***************************************************************************)
(* The caches implement BuildOnce.                                         *)
(***************************************************************************)
\* What clients hold through cells, and what the cells hold.
HeldNow  == UNION {{<<c, CellAt(c, j), calls[c].got[j]>> :
                      j \in {k \in DOMAIN calls[c].got : Cached(EntryAt(c, k))}} :
                   c \in DOMAIN calls}
ValueNow == [a \in DOMAIN cells |-> cells[a].val]

LEMMA HeldFacts ==
  ASSUME NEW h
  PROVE  h \in HeldNow <=>
           \E c \in DOMAIN calls : \E j \in DOMAIN calls[c].got :
             Cached(EntryAt(c, j)) /\ h = <<c, CellAt(c, j), calls[c].got[j]>>
  BY DEF HeldNow

HeldIsPublished ==
  \A h \in HeldNow : h[2] \in DOMAIN cells /\ h[3] = cells[h[2]].val /\ h[3] # None

\* Clients hold what is published.
LEMMA HoldersSound == IInv => HeldIsPublished
<1> SUFFICES ASSUME IInv, NEW h \in HeldNow
             PROVE  h[2] \in DOMAIN cells /\ h[3] = cells[h[2]].val /\ h[3] # None
  BY DEF HeldIsPublished
<1>1. PICK c \in DOMAIN calls : \E j \in DOMAIN calls[c].got :
        Cached(EntryAt(c, j)) /\ h = <<c, CellAt(c, j), calls[c].got[j]>>
  BY HeldFacts
<1>2. PICK j \in DOMAIN calls[c].got :
        Cached(EntryAt(c, j)) /\ h = <<c, CellAt(c, j), calls[c].got[j]>>
  BY <1>1
<1>3. CallOK(c)
  BY DEF IInv
<1>4. calls[c].got[j] \in Instance
  BY <1>3 DEF CallOK, Progress
<1>5. CellAt(c, j) \in DOMAIN cells /\ cells[CellAt(c, j)].val = calls[c].got[j]
  BY <1>2, <1>3 DEF CallOK, HasPublished
<1> QED
  BY <1>2, <1>4, <1>5, ContainerAssumption

\* Calls that go away, or move without an instance more, give nobody anything.
LEMMA HeldNoMore ==
  ASSUME \A c \in DOMAIN calls' : c \in DOMAIN calls /\ calls'[c].got = calls[c].got
  PROVE  HeldNow' \subseteq HeldNow
<1> SUFFICES ASSUME NEW h \in HeldNow' PROVE h \in HeldNow
  OBVIOUS
<1>1. \E c \in DOMAIN calls' : \E j \in DOMAIN calls'[c].got :
        Cached(EntryAt(c, j)) /\ h = <<c, CellAt(c, j), calls'[c].got[j]>>
  BY DEF HeldNow, Cached
<1> QED
  BY <1>1, HeldFacts

\* The caches stay as they are: whatever is held afterwards is published.
LEMMA ObtainStep ==
  ASSUME HeldIsPublished', ValueNow' = ValueNow
  PROVE  Once!Next
<1>1. \A h \in HeldNow' : h[2] \in DOMAIN cells' /\ h[3] = cells'[h[2]].val /\ h[3] # None
  BY DEF HeldIsPublished
<1>2. \A h \in HeldNow' : h[2] \in DOMAIN ValueNow /\ h[3] = ValueNow[h[2]] /\ ValueNow[h[2]] # None
  BY <1>1 DEF ValueNow
<1>3. Once!Obtain
  BY <1>2 DEF Once!Obtain, HeldNow, ValueNow
<1> QED
  BY <1>3 DEF Once!Next

LEMMA InsertSlotOpens ==
  ASSUME IInv, NEW c \in DOMAIN calls, InsertSlot(c)
  PROVE  Once!Next
<1>1. calls[c] \in Progress
  BY DEF IInv, CallOK
<1>2. /\ DOMAIN calls' = DOMAIN calls
      /\ \A d \in DOMAIN calls : calls'[d].got = calls[d].got
      /\ cells' = WithSlot(CellOf(c))
  BY <1>1 DEF InsertSlot, Progress
<1>3. HeldNow' = HeldNow
  BY <1>2 DEF HeldNow
<1>4. /\ DOMAIN ValueNow \subseteq DOMAIN ValueNow'
      /\ \A a \in DOMAIN ValueNow' :
           ValueNow'[a] = IF a \in DOMAIN ValueNow THEN ValueNow[a] ELSE None
  BY <1>2 DEF ValueNow, WithSlot, Empty
<1>5. Once!Open
  BY <1>3, <1>4 DEF Once!Open, HeldNow, ValueNow
<1> QED
  BY <1>5 DEF Once!Next

LEMMA EndRequestCloses ==
  ASSUME HeldIsPublished', NEW t \in ScopedTask, EndRequest(t)
  PROVE  Once!Next
<1>1. /\ DOMAIN cells' = {a \in DOMAIN cells : a[1] # t}
      /\ \A a \in DOMAIN cells' : cells'[a] = cells[a]
      /\ calls' = calls
  BY DEF EndRequest, Restrict
<1>2. HeldNow' = HeldNow
  BY <1>1 DEF HeldNow
<1>3. \A h \in HeldNow : h[2] \in DOMAIN ValueNow'
  BY <1>2 DEF HeldIsPublished, ValueNow
<1>4. /\ DOMAIN ValueNow' \subseteq DOMAIN ValueNow
      /\ \A a \in DOMAIN ValueNow' : ValueNow'[a] = ValueNow[a]
  BY <1>1 DEF ValueNow
<1>5. Once!Close
  BY <1>2, <1>3, <1>4 DEF Once!Close, HeldNow, ValueNow
<1> QED
  BY <1>5 DEF Once!Next

\* Only the cell of the entry that was built gets a value.
LEMMA FinishBuildValues ==
  ASSUME IInv, NEW c \in DOMAIN calls, FinishBuild(c),
         NEW v, v = <<Entry(c), built[Entry(c)] + 1>>
  PROVE  /\ CallOK(c) /\ calls[c] \in Progress /\ Entry(c) \in EntryId /\ Active(c)
         /\ v \in Instance /\ v # None
         /\ calls'[c] = Advanced(c, v)
         /\ \A d \in DOMAIN calls' \ {c} : d \in DOMAIN calls /\ calls'[d] = calls[d]
         /\ Kind(c) = "transient" => ValueNow' = ValueNow
         /\ Kind(c) # "transient" =>
              /\ Cached(Entry(c))
              /\ DOMAIN ValueNow' = DOMAIN ValueNow /\ CellOf(c) \in DOMAIN ValueNow
              /\ ValueNow[CellOf(c)] = None /\ ValueNow'[CellOf(c)] = v
              /\ \A a \in DOMAIN ValueNow \ {CellOf(c)} : ValueNow'[a] = ValueNow[a]
<1> DEFINE freed == Released(Below(c))
<1>1. /\ CallOK(c) /\ calls[c] \in Progress /\ Entry(c) \in EntryId /\ c # None
      /\ calls[c].pc = "build" /\ Active(c)
  BY ActiveCall, ContainerAssumption DEF FinishBuild, Active
<1>2. v \in Instance /\ v # None
  BY <1>1, ContainerAssumption DEF IInv, Instance
<1>3. /\ DOMAIN freed = DOMAIN cells
      /\ \A a \in DOMAIN cells : freed[a].val = cells[a].val
  BY ReleasedFacts, Zenon DEF IInv, CellOK
<1>4. /\ cells' = Publish(c, v, freed)
      /\ DOMAIN calls' = DOMAIN calls \ Below(c) /\ c \notin Below(c)
      /\ calls'[c] = Advanced(c, v)
      /\ \A d \in DOMAIN calls' \ {c} : calls'[d] = calls[d]
  BY BelowFacts DEF FinishBuild, Survivors, Restrict
<1> HIDE DEF freed
<1>5. Kind(c) = "transient" => ValueNow' = ValueNow
  BY <1>3, <1>4 DEF ValueNow, Publish
<1>6. ASSUME Kind(c) # "transient"
      PROVE  /\ Cached(Entry(c))
             /\ DOMAIN ValueNow' = DOMAIN ValueNow /\ CellOf(c) \in DOMAIN ValueNow
             /\ ValueNow[CellOf(c)] = None /\ ValueNow'[CellOf(c)] = v
             /\ \A a \in DOMAIN ValueNow \ {CellOf(c)} : ValueNow'[a] = ValueNow[a]
  <2>1. Cached(Entry(c)) /\ CellOf(c) \in DOMAIN cells /\ cells[CellOf(c)].by = c
    BY <1>1, <1>6, ContainerAssumption DEF CallOK, HasItsCell, Cached, Kind
  <2>2. cells[CellOf(c)].val = None
    BY <1>1, <2>1 DEF IInv, CellOK
  <2> QED
    BY <1>3, <1>4, <1>6, <2>1, <2>2 DEF ValueNow, Publish
<1> QED
  BY <1>1, <1>2, <1>4, <1>5, <1>6

\* Only the call that built has one instance more.
LEMMA FinishBuildPublishes ==
  ASSUME IInv, HeldIsPublished', NEW c \in DOMAIN calls, FinishBuild(c)
  PROVE  Once!Next
<1> DEFINE v == <<Entry(c), built[Entry(c)] + 1>>
<1>1. /\ CallOK(c) /\ calls[c] \in Progress /\ Active(c)
      /\ v \in Instance /\ v # None /\ calls'[c] = Advanced(c, v)
      /\ \A d \in DOMAIN calls' \ {c} : d \in DOMAIN calls /\ calls'[d] = calls[d]
  BY FinishBuildValues
<1>2. CASE Kind(c) = "transient"
  BY <1>2, ObtainStep, FinishBuildValues
<1>3. CASE Kind(c) # "transient"
  <2>1. /\ DOMAIN ValueNow' = DOMAIN ValueNow /\ CellOf(c) \in DOMAIN ValueNow
        /\ ValueNow[CellOf(c)] = None /\ ValueNow'[CellOf(c)] = v
        /\ \A a \in DOMAIN ValueNow \ {CellOf(c)} : ValueNow'[a] = ValueNow[a]
    BY <1>3, FinishBuildValues
  <2> HIDE DEF v
  <2>2. ASSUME NEW h \in HeldNow' \ HeldNow PROVE h[2] = CellOf(c) /\ h[3] = v
    <3>1. \E d \in DOMAIN calls' : \E j \in DOMAIN calls'[d].got :
            Cached(EntryAt(d, j)) /\ h = <<d, CellAt(d, j), calls'[d].got[j]>>
      BY DEF HeldNow, Cached
    <3>2. PICK d \in DOMAIN calls' : \E j \in DOMAIN calls'[d].got :
            Cached(EntryAt(d, j)) /\ h = <<d, CellAt(d, j), calls'[d].got[j]>>
      BY <3>1
    <3>3. PICK j \in DOMAIN calls'[d].got :
            Cached(EntryAt(d, j)) /\ h = <<d, CellAt(d, j), calls'[d].got[j]>>
      BY <3>2
    <3>4. d = c
      BY <1>1, <3>3, HeldFacts
    <3>5. /\ calls'[c].got = Append(calls[c].got, v)
          /\ calls[c].got \in Seq(Instance) /\ Len(calls[c].got) = calls[c].i - 1
          /\ calls[c].i \in Nat
      BY <1>1 DEF Advanced, CallOK, WellPlaced, Progress
    <3>6. j \in 1..calls[c].i
      BY <1>1, <3>3, <3>4, <3>5
    <3>7. CASE j < calls[c].i
      <4>1. j \in DOMAIN calls[c].got /\ calls'[c].got[j] = calls[c].got[j]
        BY <1>1, <3>5, <3>6, <3>7
      <4> QED
        BY <3>3, <3>4, <4>1, HeldFacts
    <3>8. CASE j = calls[c].i
      <4>1. calls'[c].got[j] = v
        BY <1>1, <3>5, <3>8
      <4> QED
        BY <3>3, <3>4, <3>8, <4>1 DEF CellOf
    <3> QED
      BY <3>5, <3>6, <3>7, <3>8
  <2>3. Once!Publish
    BY <1>1, <2>1, <2>2 DEF Once!Publish, HeldNow, ValueNow
  <2> QED
    BY <2>3 DEF Once!Next
<1> QED
  BY <1>2, <1>3

\* The other steps leave the contents of the cells alone.
LEMMA ValuesStay ==
  ASSUME IInv, NEW c \in DOMAIN calls,
         \/ \E r \in Request : ResolveDependency(c, r)
         \/ UseValue(c) \/ FindSlot(c) \/ ReuseCell(c) \/ BeginBuild(c)
         \/ FailBuild(c) \/ DropCall(c)
  PROVE  ValueNow' = ValueNow
<1>1. \A a \in DOMAIN cells : cells[a] \in Cell
  BY DEF IInv, CellOK
<1>2. CASE cells' = cells
  BY <1>2 DEF ValueNow
<1>3. CASE cells' = [cells EXCEPT ![CellOf(c)].by = c]
  BY <1>1, <1>3 DEF ValueNow, Cell
<1>4. CASE cells' = Released(Abandoned(c))
  <2>1. /\ DOMAIN Released(Abandoned(c)) = DOMAIN cells
        /\ \A a \in DOMAIN cells : Released(Abandoned(c))[a].val = cells[a].val
    BY <1>1, ReleasedFacts, Zenon
  <2> QED
    BY <1>4, <2>1 DEF ValueNow
<1> QED
  BY <1>2, <1>3, <1>4
  DEF ResolveDependency, UseValue, FindSlot, ReuseCell, BeginBuild, FailBuild, DropCall

\* Container implements BuildOnce, for any registrations and tasks: cells come
\* into being empty, are published once and by the factory run that holds the
\* permit, and hand out what is published (resolve_entry, Scope::resolve_for).
THEOREM PublishesOnce == Spec => ImplementsBuildOnce
<1>1. Init => Once!Init
  <2> SUFFICES ASSUME Init PROVE Once!Init
    OBVIOUS
  <2>1. DOMAIN calls = {}
    BY DEF Init
  <2>2. HeldNow = {}
    BY <2>1 DEF HeldNow
  <2>3. \A a \in DOMAIN ValueNow : ValueNow[a] = None
    BY DEF Init, ValueNow, Empty
  <2> QED
    BY <2>2, <2>3 DEF Once!Init, HeldNow, ValueNow
<1>2. IInv /\ HeldIsPublished' /\ [Next]_vars => [Once!Next]_(Once!onceVars)
  <2> SUFFICES ASSUME IInv, HeldIsPublished', [Next]_vars PROVE Once!Next
    OBVIOUS
  <2>1. ASSUME NEW t \in Task, NEW r \in Wanted, Resolve(t, r) PROVE ValueNow' = ValueNow
    BY <2>1 DEF Resolve, ValueNow
  <2>2. CASE UNCHANGED vars
    BY <2>2, ObtainStep DEF vars, ValueNow
  <2> QED
    BY <2>1, <2>2, ObtainStep, ValuesStay, InsertSlotOpens, FinishBuildPublishes,
       EndRequestCloses DEF Next, Poll
<1> QED
  BY <1>1, <1>2, HoldersSound, Invariance, PTL DEF Spec, ImplementsBuildOnce, Once!Spec

-----------------------------------------------------------------------------
(***************************************************************************)
(* What a resolve call may rely on: its chain of keys, the errors it       *)
(* returns, and the instances it gets.                                     *)
(***************************************************************************)
\* "Nobody asks for the same key both alone and as a group": the chain does not
\* tell the two apart (the configuration ContainerComposite).
Requested == Wanted \cup UNION {Deps[e] : e \in EntryId}
KeysApart == \A r, s \in Requested : r.key = s.key => r = s

\* "No group is called by the empty string", which is the label of the default
\* group in a scope's slot keys.
GroupsAreNamed == "" \notin Tag
-----------------------------------------------------------------------------
(***************************************************************************)
(* How calls move.                                                         *)
(***************************************************************************)
\* c comes into being, as the task's own call or as a dependency's.
Opens(c) ==
  /\ calls'[c] = Opened(c)
  /\ \/ \E t \in Task : \E r \in Wanted : c = <<t, <<r>>>>
     \/ \E p \in DOMAIN calls :
          /\ calls[p].pc = "build"
          /\ \E r \in Deps[Entry(p)] : c = Child(p, r)

\* c gets an instance: one of its entry's factory or value, or the cell's.
Gets(c, v) ==
  /\ v \in Instance
  /\ v[1] = Entry(c) \/ (AtCell(c) /\ CellOf(c) \in DOMAIN cells /\ v = cells[CellOf(c)].val)
  /\ calls'[c] = Advanced(c, v)

Moves(c) ==
  /\ c \in DOMAIN calls /\ Active(c)
  /\ \/ \E p \in {"insert", "cell", "build"} : calls'[c] = [calls[c] EXCEPT !.pc = p]
     \/ \E v \in Instance : Gets(c, v)
     \/ calls'[c] = Failed([why |-> "no scope", at |-> c])
     \/ calls[c].pc = "build" /\ \E e \in FactoryErrors(c) : calls'[c] = Failed(e)

Stays(c) == c \in DOMAIN calls /\ calls'[c] = calls[c]

LEMMA PollMovement ==
  ASSUME IInv, NEW x \in DOMAIN calls, Poll(x), NEW c \in DOMAIN calls'
  PROVE  Stays(c) \/ Opens(c) \/ Moves(c)
<1>1. ASSUME NEW r \in Request, ResolveDependency(x, r) PROVE Stays(c) \/ Opens(c)
  BY <1>1 DEF ResolveDependency, Spawned, Stays, Opens
<1>2. CASE UseValue(x)
  <2>1. Active(x) /\ <<Entry(x), 0>> \in Instance
    BY <1>2, ActiveCall DEF UseValue, Active, Instance
  <2>2. calls' = [calls EXCEPT ![x] = Advanced(x, <<Entry(x), 0>>)]
    BY <1>2 DEF UseValue
  <2>3. c = x => Gets(c, <<Entry(x), 0>>)
    BY <2>1, <2>2 DEF Gets
  <2> QED
    BY <2>1, <2>2, <2>3 DEF Stays, Moves
<1>3. CASE FindSlot(x)
  <2>1. Active(x)
    BY <1>3 DEF FindSlot, Active
  <2>2. DOMAIN calls' = DOMAIN calls /\ \A d \in DOMAIN calls \ {x} : calls'[d] = calls[d]
    BY <1>3 DEF FindSlot
  <2>3. \/ calls'[x] = Failed([why |-> "no scope", at |-> x])
        \/ \E p \in {"insert", "cell"} : calls'[x] = [calls[x] EXCEPT !.pc = p]
    BY <1>3 DEF FindSlot
  <2> QED
    BY <2>1, <2>2, <2>3 DEF Stays, Moves
<1>4. CASE InsertSlot(x)
  <2>1. Active(x) /\ calls' = [calls EXCEPT ![x].pc = "cell"]
    BY <1>4 DEF InsertSlot, Active
  <2> QED
    BY <2>1 DEF Stays, Moves
<1>5. CASE ReuseCell(x)
  <2> DEFINE v == cells[CellOf(x)].val
  <2>1. Active(x) /\ AtCell(x) /\ v # None /\ calls' = [calls EXCEPT ![x] = Advanced(x, v)]
    BY <1>5 DEF ReuseCell, AtCell, Active
  <2>2. CellOf(x) \in DOMAIN cells
    BY <2>1, AtCellHasCell
  <2>3. v \in Instance
    BY <2>1, <2>2 DEF IInv, CellOK, Cell
  <2>4. c = x => Gets(c, v)
    BY <2>1, <2>2, <2>3 DEF Gets
  <2> QED
    BY <2>1, <2>3, <2>4 DEF Stays, Moves
<1>6. CASE BeginBuild(x)
  <2>1. Active(x) /\ calls' = [calls EXCEPT ![x].pc = "build"]
    BY <1>6 DEF BeginBuild, AtCell, Active
  <2> QED
    BY <2>1 DEF Stays, Moves
<1>7. CASE FinishBuild(x)
  <2> DEFINE v == <<Entry(x), built[Entry(x)] + 1>>
  <2>1. Active(x)
    BY <1>7 DEF FinishBuild, Active
  <2>2. v \in Instance
    BY <2>1, ActiveCall DEF IInv, Instance
  <2>3. /\ DOMAIN calls' \subseteq DOMAIN calls /\ x \notin Below(x)
        /\ calls'[x] = Advanced(x, v)
        /\ \A d \in DOMAIN calls' \ {x} : calls'[d] = calls[d]
    BY <1>7, BelowFacts DEF FinishBuild, Survivors, Restrict
  <2>4. c = x => Gets(c, v)
    BY <2>2, <2>3 DEF Gets
  <2> QED
    BY <2>1, <2>2, <2>3, <2>4 DEF Stays, Moves
<1>8. CASE FailBuild(x)
  <2>1. Active(x) /\ calls[x].pc = "build"
    BY <1>8 DEF FailBuild, Active
  <2>2. PICK e \in FactoryErrors(x) :
          calls' = [Survivors(Below(x)) EXCEPT ![x] = Failed(e)]
    BY <1>8 DEF FailBuild
  <2>3. /\ DOMAIN calls' \subseteq DOMAIN calls
        /\ calls'[x] = Failed(e)
        /\ \A d \in DOMAIN calls' \ {x} : calls'[d] = calls[d]
    BY <2>2, BelowFacts DEF Survivors, Restrict
  <2> QED
    BY <2>1, <2>3 DEF Stays, Moves
<1> QED
  BY <1>1, <1>2, <1>3, <1>4, <1>5, <1>6, <1>7, <1>8 DEF Poll

LEMMA Movement ==
  ASSUME IInv, [Next]_vars, NEW c \in DOMAIN calls'
  PROVE  Stays(c) \/ Opens(c) \/ Moves(c)
<1>1. ASSUME NEW t \in Task, NEW r \in Wanted, Resolve(t, r) PROVE Stays(c) \/ Opens(c)
  BY <1>1 DEF Resolve, Spawned, Stays, Opens
<1>2. ASSUME NEW x \in DOMAIN calls, Poll(x) PROVE Stays(c) \/ Opens(c) \/ Moves(c)
  BY <1>2, PollMovement
<1>3. ASSUME NEW x \in DOMAIN calls, DropCall(x) PROVE Stays(c)
  BY <1>3 DEF DropCall, Survivors, Restrict, Stays
<1>4. ASSUME NEW t \in ScopedTask, EndRequest(t) PROVE Stays(c)
  BY <1>4 DEF EndRequest, Stays
<1>5. CASE UNCHANGED vars
  BY <1>5 DEF vars, Stays
<1> QED
  BY <1>1, <1>2, <1>3, <1>4, <1>5 DEF Next
-----------------------------------------------------------------------------
(***************************************************************************)
(* Chains of keys and errors.                                              *)
(***************************************************************************)
ChainOK(c) ==
  calls[c].pc # "failed" /\ Registered(ReqOf(c)) =>
    \A j, k \in DOMAIN c[2] : j # k => c[2][j].key # c[2][k].key

\* An error of call c arose in call d.
ArisesFor(c, d) == d \in Call /\ d[1] = c[1] /\ IsPrefix(c[2], d[2])

ErrorOK(c) == calls[c].pc = "failed" => ArisesFor(c, calls[c].err.at)

PathOK(c) == \A k \in DOMAIN c[2] : c[2][k] \in Requested

CycleOK(c) ==
  calls[c].err.why = "cycle" =>
    LET at == calls[c].err.at[2] IN \E k \in 1..Len(at) - 1 : at[k] = Last(at)

LEMMA PrefixFacts ==
  ASSUME NEW s \in Seq(Request), NEW t \in Seq(Request)
  PROVE  /\ IsPrefix(s, s)
         /\ \A r \in Request : IsPrefix(Append(s, r), t) => IsPrefix(s, t)
<1>1. IsPrefix(s, t) <=> Len(s) <= Len(t) /\ \A i \in 1..Len(s) : s[i] = t[i]
  BY DEF IsPrefix
<1>2. IsPrefix(s, s)
  BY DEF IsPrefix
<1>3. ASSUME NEW r \in Request, IsPrefix(Append(s, r), t) PROVE IsPrefix(s, t)
  <2> DEFINE u == Append(s, r)
  <2>1. u \in Seq(Request) /\ Len(u) = Len(s) + 1 /\ \A i \in 1..Len(s) : u[i] = s[i]
    OBVIOUS
  <2>2. Len(u) <= Len(t) /\ \A i \in 1..Len(u) : u[i] = t[i]
    <3> HIDE DEF u
    <3>1. IsPrefix(u, t)
      BY <1>3 DEF u
    <3> QED
      BY <2>1, <3>1 DEF IsPrefix
  <2> HIDE DEF u
  <2> QED
    BY <1>1, <2>1, <2>2
<1> QED
  BY <1>2, <1>3

\* A call that comes into being: where it does, and what it is.
LEMMA OpensFacts ==
  ASSUME IInv, NEW c, Opens(c)
  PROVE  /\ c \in Call /\ c[2] # <<>> /\ calls'[c] = Opened(c)
         /\ \/ \E r \in Wanted : c[2] = <<r>>
            \/ \E p \in DOMAIN calls :
                 /\ calls[p].pc = "build" /\ CallOK(p) /\ Active(p) /\ Entry(p) \in EntryId
                 /\ \E r \in Deps[Entry(p)] : r \in Request /\ c[2] = Append(p[2], r)
<1>1. CASE \E t \in Task : \E r \in Wanted : c = <<t, <<r>>>>
  <2>1. PICK t \in Task : \E r \in Wanted : c = <<t, <<r>>>>
    BY <1>1
  <2>2. PICK r \in Wanted : c = <<t, <<r>>>>
    BY <2>1
  <2>3. c[2] = <<r>> /\ r \in Request
    BY <2>2, ContainerAssumption
  <2>4. c \in Call /\ c[2] # <<>>
    BY <2>2, <2>3 DEF Call
  <2> QED
    BY <2>2, <2>3, <2>4 DEF Opens
<1>2. CASE \E p \in DOMAIN calls :
             calls[p].pc = "build" /\ \E r \in Deps[Entry(p)] : c = Child(p, r)
  <2>1. PICK p \in DOMAIN calls :
          calls[p].pc = "build" /\ \E r \in Deps[Entry(p)] : c = Child(p, r)
    BY <1>2
  <2>2. PICK r \in Deps[Entry(p)] : c = Child(p, r)
    BY <2>1
  <2>3. Active(p) /\ CallOK(p) /\ Entry(p) \in EntryId /\ p \in Call /\ p[2] # <<>>
    BY <2>1, ActiveCall DEF Active
  <2>4. r \in Request
    BY <2>2, <2>3, ContainerAssumption
  <2> QED
    BY <2>1, <2>2, <2>3, <2>4, CallTyped DEF Opens
<1> QED
  BY <1>1, <1>2 DEF Opens

LEMMA OpenedFacts ==
  ASSUME NEW c \in Call, c[2] # <<>>
  PROVE  /\ Opened(c) = EmptyResult => ~Registered(ReqOf(c))
         /\ Opened(c).pc = "failed" =>
              /\ Opened(c).err.at = c
              /\ Opened(c).err.why = "cycle" => ReqOf(c).key \in Ancestors(c[2])
         /\ Opened(c).pc # "failed" =>
              /\ Opened(c).err = NoError
              /\ Registered(ReqOf(c)) => ReqOf(c).key \notin Ancestors(c[2])
  BY DEF Opened, ReqOf, EmptyResult, Failed, Entering, NoError, Request

LEMMA FailedFacts ==
  ASSUME NEW e
  PROVE  Failed(e).pc = "failed" /\ Failed(e).err = e
  BY DEF Failed

LEMMA NoScopeFacts ==
  ASSUME NEW p, NEW x, x = Failed([why |-> "no scope", at |-> p])
  PROVE  x.pc = "failed" /\ x.err.at = p /\ x.err.why # "cycle"
<1> DEFINE e == [why |-> "no scope", at |-> p]
<1>1. e.at = p /\ e.why # "cycle"
  BY Zenon
<1>2. x = Failed(e)
  OBVIOUS
<1> HIDE DEF e
<1> QED
  BY <1>1, <1>2, FailedFacts

LEMMA NoErrorFacts == NoError.why # "cycle"
  BY Zenon DEF NoError

\* What a call that moves keeps, and where its error comes from.
LEMMA MovesFacts ==
  ASSUME IInv, NEW c, Moves(c)
  PROVE  /\ c \in DOMAIN calls /\ calls[c].pc # "failed" /\ CallOK(c)
         /\ \/ calls'[c].pc # "failed" /\ calls'[c].err = calls[c].err
            \/ calls'[c].pc # "failed" /\ calls'[c].err = NoError
            \/ /\ calls'[c].pc = "failed" /\ calls'[c].err.at = c
               /\ calls'[c].err.why # "cycle"
            \/ /\ calls'[c].pc = "failed"
               /\ \E r \in Request : \E d \in DOMAIN calls :
                    /\ d[1] = c[1] /\ d[2] = Append(c[2], r) /\ calls[d].pc = "failed"
                    /\ calls'[c].err = calls[d].err
<1>1. /\ c \in DOMAIN calls /\ Active(c) /\ CallOK(c) /\ calls[c] \in Progress
      /\ calls[c].pc # "failed" /\ Entry(c) \in EntryId /\ c \in Call /\ c[2] # <<>>
  BY ActiveCall DEF Moves, Active
<1>2. ASSUME NEW p \in {"insert", "cell", "build"}, calls'[c] = [calls[c] EXCEPT !.pc = p]
      PROVE  calls'[c].pc # "failed" /\ calls'[c].err = calls[c].err
  BY <1>1, <1>2 DEF Progress
<1>3. ASSUME NEW v, Gets(c, v)
      PROVE  calls'[c].pc # "failed" /\ calls'[c].err = NoError
  BY <1>3 DEF Gets, Advanced
<1>4. ASSUME calls'[c] = Failed([why |-> "no scope", at |-> c])
      PROVE  /\ calls'[c].pc = "failed" /\ calls'[c].err.at = c
             /\ calls'[c].err.why # "cycle"
  BY <1>4, NoScopeFacts, Zenon
<1>5. ASSUME NEW e \in FactoryErrors(c), calls'[c] = Failed(e)
      PROVE  /\ calls'[c].pc = "failed"
             /\ \/ calls'[c].err.at = c /\ calls'[c].err.why # "cycle"
                \/ \E r \in Request : \E d \in DOMAIN calls :
                     /\ d[1] = c[1] /\ d[2] = Append(c[2], r) /\ calls[d].pc = "failed"
                     /\ calls'[c].err = calls[d].err
  <2>1. calls'[c].pc = "failed" /\ calls'[c].err = e
    BY <1>5 DEF Failed
  <2>2. CASE e = [why |-> "factory", at |-> c]
    BY <2>1, <2>2
  <2>3. CASE \E r \in Deps[Entry(c)] :
               Child(c, r) \in DOMAIN calls /\ calls[Child(c, r)].pc = "failed"
               /\ e = calls[Child(c, r)].err
    <3>1. PICK r \in Deps[Entry(c)] :
            Child(c, r) \in DOMAIN calls /\ calls[Child(c, r)].pc = "failed"
            /\ e = calls[Child(c, r)].err
      BY <2>3
    <3>2. /\ r \in Request
          /\ Child(c, r)[1] = c[1] /\ Child(c, r)[2] = Append(c[2], r)
      BY <1>1, <3>1, CallTyped, ContainerAssumption
    <3> QED
      BY <2>1, <3>1, <3>2
  <2> QED
    BY <2>2, <2>3 DEF FactoryErrors
<1> QED
  BY <1>1, <1>2, <1>3, <1>4, <1>5 DEF Moves

\* The chain of a call that comes into being.
LEMMA OpensPath ==
  ASSUME IInv, \A p \in DOMAIN calls : ChainOK(p) /\ PathOK(p), NEW c, Opens(c)
  PROVE  ChainOK(c)' /\ PathOK(c)
<1>1. c \in Call /\ c[2] # <<>> /\ c[2] \in Seq(Request) /\ calls'[c] = Opened(c)
  BY OpensFacts DEF Call
<1>2. CASE \E r \in Wanted : c[2] = <<r>>
  <2>1. PICK r \in Wanted : c[2] = <<r>>
    BY <1>2
  <2>2. DOMAIN c[2] = {1} /\ c[2][1] = r /\ r \in Requested
    BY <2>1 DEF Requested
  <2> QED
    BY <2>2 DEF ChainOK, PathOK
<1>3. CASE \E p \in DOMAIN calls :
             /\ calls[p].pc = "build" /\ CallOK(p) /\ Active(p) /\ Entry(p) \in EntryId
             /\ \E r \in Deps[Entry(p)] : r \in Request /\ c[2] = Append(p[2], r)
  <2>1. PICK p \in DOMAIN calls :
             /\ calls[p].pc = "build" /\ CallOK(p) /\ Active(p) /\ Entry(p) \in EntryId
             /\ \E r \in Deps[Entry(p)] : r \in Request /\ c[2] = Append(p[2], r)
    BY <1>3
  <2>2. PICK r \in Deps[Entry(p)] : r \in Request /\ c[2] = Append(p[2], r)
    BY <2>1
  <2>3. p[2] \in Seq(Request) /\ r \in Requested
    BY <2>1, <2>2 DEF CallOK, Call, Requested
  <2>4. /\ Len(c[2]) = Len(p[2]) + 1 /\ c[2][Len(p[2]) + 1] = r
        /\ \A k \in 1..Len(p[2]) : c[2][k] = p[2][k]
        /\ DOMAIN p[2] = 1..Len(p[2]) /\ DOMAIN c[2] = 1..Len(p[2]) + 1
        /\ Len(p[2]) \in Nat
    BY <2>2, <2>3
  <2>5. PathOK(c)
    <3>1. \A k \in 1..Len(p[2]) : p[2][k] \in Requested
      BY <2>4 DEF PathOK
    <3> QED
      BY <2>3, <2>4, <3>1 DEF PathOK
  <2>6. ASSUME Opened(c).pc # "failed", Registered(ReqOf(c)),
               NEW j \in DOMAIN c[2], NEW k \in DOMAIN c[2], j < k
        PROVE  c[2][j].key # c[2][k].key
    <3>1. Registered(ReqOf(p)) /\ calls[p].pc # "failed"
      BY <2>1 DEF CallOK, WellPlaced
    <3>2. \A x, y \in 1..Len(p[2]) : x # y => p[2][x].key # p[2][y].key
      BY <2>4, <3>1 DEF ChainOK
    <3>3. CASE k \in 1..Len(p[2])
      BY <2>4, <2>6, <3>2, <3>3
    <3>4. CASE k = Len(p[2]) + 1
      <4>1. ReqOf(c).key \notin Ancestors(c[2])
        BY <1>1, <2>6, OpenedFacts
      <4>2. j \in 1..Len(c[2]) - 1 /\ k = Len(c[2])
        BY <2>4, <2>6, <3>4
      <4> QED
        BY <4>1, <4>2 DEF Ancestors, ReqOf, Last
    <3> QED
      BY <2>4, <3>3, <3>4
  <2>7. ChainOK(c)'
    <3> SUFFICES ASSUME Opened(c).pc # "failed", Registered(ReqOf(c)),
                        NEW j \in DOMAIN c[2], NEW k \in DOMAIN c[2], j # k
                 PROVE  c[2][j].key # c[2][k].key
      BY <1>1 DEF ChainOK
    <3>1. j < k \/ k < j
      BY <2>4
    <3> QED
      BY <2>6, <3>1
  <2> QED
    BY <2>5, <2>7
<1> QED
  BY <1>2, <1>3, OpensFacts

PathInv == \A c \in DOMAIN calls : ChainOK(c) /\ PathOK(c) /\ ErrorOK(c)

LEMMA PathStep == IInv /\ PathInv /\ [Next]_vars => PathInv'
<1> SUFFICES ASSUME IInv, PathInv, [Next]_vars, NEW c \in DOMAIN calls'
             PROVE  ChainOK(c)' /\ PathOK(c) /\ ErrorOK(c)'
  BY DEF PathInv, PathOK
<1>1. CASE Stays(c)
  BY <1>1 DEF Stays, PathInv, ChainOK, ErrorOK
<1>2. CASE Opens(c)
  <2>1. c \in Call /\ c[2] # <<>> /\ c[2] \in Seq(Request) /\ calls'[c] = Opened(c)
    BY <1>2, OpensFacts DEF Call
  <2>2. IsPrefix(c[2], c[2])
    BY <2>1, PrefixFacts
  <2>3. ErrorOK(c)'
    BY <2>1, <2>2, OpenedFacts DEF ErrorOK, ArisesFor
  <2> QED
    BY <1>2, <2>3, OpensPath DEF PathInv
<1>3. CASE Moves(c)
  <2>1. c \in DOMAIN calls /\ calls[c].pc # "failed" /\ CallOK(c) /\ c[2] \in Seq(Request)
    BY <1>3, MovesFacts DEF CallOK, Call
  <2>2. ChainOK(c)' /\ PathOK(c)
    BY <2>1 DEF PathInv, ChainOK
  <2>3. CASE calls'[c].pc # "failed"
    BY <2>2, <2>3 DEF ErrorOK
  <2>4. CASE calls'[c].err.at = c
    BY <2>1, <2>2, <2>4, PrefixFacts DEF ErrorOK, ArisesFor, CallOK
  <2>5. CASE \E r \in Request : \E d \in DOMAIN calls :
               /\ d[1] = c[1] /\ d[2] = Append(c[2], r) /\ calls[d].pc = "failed"
               /\ calls'[c].err = calls[d].err
    <3>1. PICK r \in Request : \E d \in DOMAIN calls :
               /\ d[1] = c[1] /\ d[2] = Append(c[2], r) /\ calls[d].pc = "failed"
               /\ calls'[c].err = calls[d].err
      BY <2>5
    <3>2. PICK d \in DOMAIN calls :
               /\ d[1] = c[1] /\ d[2] = Append(c[2], r) /\ calls[d].pc = "failed"
               /\ calls'[c].err = calls[d].err
      BY <3>1
    <3>3. ArisesFor(d, calls[d].err.at)
      BY <3>2 DEF PathInv, ErrorOK
    <3>4. calls[d].err.at[2] \in Seq(Request)
      BY <3>3 DEF ArisesFor, Call
    <3>5. ArisesFor(c, calls'[c].err.at)
      BY <2>1, <3>2, <3>3, <3>4, PrefixFacts DEF ArisesFor
    <3> QED
      BY <2>2, <3>5 DEF ErrorOK
  <2> QED
    BY <1>3, <2>3, <2>4, <2>5, MovesFacts
<1> QED
  BY <1>1, <1>2, <1>3, Movement

LEMMA InitCalls == Init => DOMAIN calls = {}
<1>1. DOMAIN <<>> = {}
  OBVIOUS
<1> QED
  BY <1>1 DEF Init

LEMMA PathInvariance == Spec => [](IInv /\ PathInv)
<1>1. Init => PathInv
  BY InitCalls DEF PathInv
<1> QED
  BY <1>1, PathStep, Invariance, PTL DEF Spec

\* The keys above a call that was not refused are distinct, whatever the graph
\* of dependencies: the recursion is never deeper than there are keys
\* (RESOLVING_STACK, container.rs).
THEOREM RecursionEnds == Spec => []ChainsAreDistinct
<1>1. PathInv => ChainsAreDistinct
  BY DEF PathInv, ChainOK, ChainsAreDistinct
<1> QED
  BY <1>1, PathInvariance, PTL

\* A call fails only by an error that arose in its own task, at or below
\* itself: no failure of the factory run another task's call waits for, though
\* it be on the same path, and no sibling's, is returned to it
\* (get_or_try_init in resolve_entry and Scope::resolve_for).
THEOREM NobodyElsesErrors == Spec => []ErrorsAreOwn
<1>1. PathInv => ErrorsAreOwn
  BY DEF PathInv, ErrorOK, ArisesFor, ErrorsAreOwn
<1> QED
  BY <1>1, PathInvariance, PTL

\* Where no key is asked for both alone and as a group, CircularDependency is
\* reported for genuine cycles only, however requests share what they need
\* (container.rs, RESOLVING_STACK).
THEOREM NoFalseCycles == KeysApart => (Spec => []CyclesAreGenuine)
<1> SUFFICES ASSUME KeysApart PROVE Spec => []CyclesAreGenuine
  OBVIOUS
<1>1. Init => CyclesAreGenuine
  BY InitCalls DEF CyclesAreGenuine
<1>2. IInv /\ PathInv /\ PathInv' /\ CyclesAreGenuine /\ [Next]_vars => CyclesAreGenuine'
  <2> SUFFICES ASSUME IInv, PathInv, PathInv', CyclesAreGenuine, [Next]_vars,
                      NEW c \in DOMAIN calls'
               PROVE  CycleOK(c)'
    BY DEF CyclesAreGenuine, CycleOK
  <2>0. \A d \in DOMAIN calls : CycleOK(d)
    BY DEF CyclesAreGenuine, CycleOK
  <2>1. CASE Stays(c)
    BY <2>0, <2>1 DEF Stays, CycleOK
  <2>2. CASE Opens(c)
    <3>1. c \in Call /\ c[2] # <<>> /\ c[2] \in Seq(Request) /\ calls'[c] = Opened(c)
      BY <2>2, OpensFacts DEF Call
    <3>2. CASE Opened(c).pc # "failed"
      BY <3>1, <3>2, OpenedFacts, NoErrorFacts DEF CycleOK
    <3>3. CASE Opened(c).pc = "failed" /\ Opened(c).err.why = "cycle"
      <4>1. ReqOf(c).key \in Ancestors(c[2]) /\ calls'[c].err.at = c
        BY <3>1, <3>3, OpenedFacts
      <4>2. PICK k \in 1..Len(c[2]) - 1 : c[2][k].key = Last(c[2]).key
        BY <4>1 DEF Ancestors, ReqOf
      <4>3. k \in DOMAIN c[2] /\ Len(c[2]) \in DOMAIN c[2]
        BY <3>1, <4>2
      <4>4. c[2][k] = Last(c[2])
        BY <4>2, <4>3 DEF PathInv, PathOK, KeysApart, Last
      <4> QED
        BY <4>1, <4>2, <4>4 DEF CycleOK
    <3>4. CASE Opened(c).err.why # "cycle"
      BY <3>1, <3>4 DEF CycleOK
    <3> QED
      BY <3>2, <3>3, <3>4
  <2>3. CASE Moves(c)
    <3>1. c \in DOMAIN calls
      BY <2>3, MovesFacts
    <3>2. CASE calls'[c].err = calls[c].err
      BY <2>0, <3>1, <3>2 DEF CycleOK
    <3>3. CASE calls'[c].err = NoError \/ calls'[c].err.why # "cycle"
      BY <3>3, NoErrorFacts DEF CycleOK
    <3>4. CASE \E d \in DOMAIN calls : calls'[c].err = calls[d].err
      BY <2>0, <3>4 DEF CycleOK
    <3> QED
      BY <2>3, <3>2, <3>3, <3>4, MovesFacts
  <2> QED
    BY <2>1, <2>2, <2>3, Movement
<1> QED
  BY <1>1, <1>2, PathInvariance, PTL DEF Spec
-----------------------------------------------------------------------------
(***************************************************************************)
(* What a call gets.                                                       *)
(***************************************************************************)
\* The i-th entry of a registered request of call c is cached in cell a.
Addressed(c, i, a) ==
  /\ c \in Call /\ c[2] # <<>> /\ Registered(ReqOf(c))
  /\ i \in 1..Len(EntriesOf(ReqOf(c)))
  /\ Cached(EntryAt(c, i)) /\ CellAt(c, i) = a

LEMMA LabelsDiffer ==
  ASSUME GroupsAreNamed, NEW t \in Tag \cup {None}, NEW u \in Tag \cup {None},
         Label(t) = Label(u)
  PROVE  t = u
  BY Zenon DEF GroupsAreNamed, Label

\* A slot belongs to one entry.
LEMMA SlotsDiffer ==
  ASSUME GroupsAreNamed, NEW r \in Request, NEW s \in Request, NEW i, NEW j,
         SlotKey(r, i) = SlotKey(s, j)
  PROVE  r = s /\ (r.kind = "all" => i = j)
<1>1. /\ r.key.type \in Type /\ r.key.tag \in Tag \cup {None}
      /\ s.key.type \in Type /\ s.key.tag \in Tag \cup {None}
      /\ r.kind \in {"one", "all"} /\ s.kind \in {"one", "all"}
  BY DEF Request, ServiceKey
<1>2. r.key.type = s.key.type /\ r.key.tag = s.key.tag => r.key = s.key
  BY DEF Request, ServiceKey
<1>3. r.kind = s.kind /\ r.key = s.key => r = s
  BY DEF Request
<1>4. CASE r.kind = "one" /\ s.kind = "one"
  BY <1>2, <1>3, <1>4 DEF SlotKey
<1>5. CASE r.kind = "all" /\ s.kind = "all"
  <2>1. r.key.type = s.key.type /\ Label(r.key.tag) = Label(s.key.tag) /\ i = j
    BY <1>5 DEF SlotKey
  <2> QED
    BY <1>1, <1>2, <1>3, <1>5, <2>1, LabelsDiffer
<1>6. ASSUME NEW x, NEW y, NEW z, NEW u, NEW w PROVE <<x, y>> # <<z, u, w>>
  OBVIOUS
<1>7. CASE r.kind # s.kind
  BY <1>1, <1>6, <1>7 DEF SlotKey
<1> QED
  BY <1>1, <1>4, <1>5, <1>7

LEMMA OneEntryPerCell ==
  ASSUME GroupsAreNamed, NEW c, NEW d, NEW i, NEW j, NEW a,
         Addressed(c, i, a), Addressed(d, j, a)
  PROVE  EntryAt(c, i) = EntryAt(d, j)
<1>1. /\ c \in Call /\ d \in Call /\ ReqOf(c) \in Request /\ ReqOf(d) \in Request
      /\ CellAt(c, i) = CellAt(d, j)
  BY CallTyped DEF Addressed
<1>2. CASE Lifecycle[EntryAt(c, i)] = "singleton"
  BY <1>1, <1>2, CellAddress
<1>3. CASE Lifecycle[EntryAt(d, j)] = "singleton"
  BY <1>1, <1>3, CellAddress
<1>4. CASE Lifecycle[EntryAt(c, i)] # "singleton" /\ Lifecycle[EntryAt(d, j)] # "singleton"
  <2>1. SlotKey(ReqOf(c), i) = SlotKey(ReqOf(d), j)
    BY <1>1, <1>4 DEF CellAt
  <2>2. ReqOf(c) = ReqOf(d) /\ (ReqOf(c).kind = "all" => i = j)
    BY <1>1, <2>1, SlotsDiffer
  <2>3. CASE ReqOf(c).kind = "all"
    BY <2>2, <2>3 DEF EntryAt
  <2>4. CASE ReqOf(c).kind = "one"
    <3>1. i = 1 /\ j = 1
      BY <2>2, <2>4 DEF Addressed, EntriesOf
    <3> QED
      BY <2>2, <3>1 DEF EntryAt
  <2> QED
    BY <1>1, <2>3, <2>4 DEF Request
<1> QED
  BY <1>2, <1>3, <1>4

\* The instance in a cell is of the cell's entry, and numbered by its counter.
OriginOK(a) ==
  cells[a].val # None =>
    /\ \E c \in Call : \E i \in Nat : Addressed(c, i, a) /\ cells[a].val[1] = EntryAt(c, i)
    /\ cells[a].val[2] <= built[cells[a].val[1]]

GotOK(c) ==
  /\ \A j \in DOMAIN calls[c].got : calls[c].got[j][1] = EntryAt(c, j)
  /\ calls[c].pc = "done" /\ Registered(ReqOf(c)) =>
       Len(calls[c].got) = Len(EntriesOf(ReqOf(c)))

OriginInv ==
  /\ \A a \in DOMAIN cells : OriginOK(a)
  /\ \A a, b \in DOMAIN cells :
       cells[a].val # None /\ cells[a].val = cells[b].val => a = b
  /\ \A c \in DOMAIN calls : GotOK(c)

\* How cells move: one may be published, with the next instance of its entry.
CellsStay ==
  \A a \in DOMAIN cells' : cells'[a].val # None =>
    a \in DOMAIN cells /\ cells'[a].val = cells[a].val

Published(c) ==
  LET v == <<Entry(c), built[Entry(c)] + 1>> IN
  /\ Active(c) /\ Entry(c) \in EntryId /\ CellOf(c) \in DOMAIN cells'
  /\ Cached(Entry(c))
  /\ built'[Entry(c)] = built[Entry(c)] + 1
  /\ cells'[CellOf(c)].val = v
  /\ \A a \in DOMAIN cells' \ {CellOf(c)} : a \in DOMAIN cells /\ cells'[a].val = cells[a].val

LEMMA CellMovement ==
  ASSUME IInv, [Next]_vars
  PROVE  /\ \A e \in EntryId : built[e] <= built'[e]
         /\ CellsStay \/ \E c \in DOMAIN calls : Published(c)
<1>0. built \in [EntryId -> Nat]
  BY DEF IInv
<1>1. CASE ValueNow' = ValueNow /\ built' = built
  <2>1. CellsStay
    BY <1>1 DEF ValueNow, CellsStay
  <2> QED
    BY <1>0, <1>1, <2>1
<1>2. ASSUME NEW c \in DOMAIN calls, InsertSlot(c)
      PROVE  CellsStay /\ built' = built
  BY <1>2 DEF InsertSlot, WithSlot, Empty, CellsStay
<1>3. ASSUME NEW t \in ScopedTask, EndRequest(t)
      PROVE  CellsStay /\ built' = built
  BY <1>3 DEF EndRequest, Restrict, CellsStay
<1>4. ASSUME NEW c \in DOMAIN calls, FinishBuild(c)
      PROVE  /\ \A e \in EntryId : built[e] <= built'[e]
             /\ CellsStay \/ Published(c)
  <2> DEFINE v == <<Entry(c), built[Entry(c)] + 1>>
  <2>1. Entry(c) \in EntryId /\ built' = [built EXCEPT ![Entry(c)] = @ + 1]
    BY <1>4, FinishBuildValues DEF FinishBuild
  <2>2. built'[Entry(c)] = built[Entry(c)] + 1 /\ \A e \in EntryId : built[e] <= built'[e]
    BY <1>0, <2>1
  <2>3. CASE Kind(c) = "transient"
    BY <1>4, <2>2, <2>3, FinishBuildValues DEF ValueNow, CellsStay
  <2>4. CASE Kind(c) # "transient"
    <3>1. /\ Cached(Entry(c)) /\ Active(c) /\ Entry(c) \in EntryId
          /\ DOMAIN ValueNow' = DOMAIN ValueNow /\ CellOf(c) \in DOMAIN ValueNow
          /\ ValueNow'[CellOf(c)] = v
          /\ \A a \in DOMAIN ValueNow \ {CellOf(c)} : ValueNow'[a] = ValueNow[a]
      BY <1>4, <2>4, FinishBuildValues
    <3>2. Published(c)
      BY <2>2, <3>1 DEF ValueNow, Published
    <3> QED
      BY <2>2, <3>2
  <2> QED
    BY <2>3, <2>4
<1>5. ASSUME NEW t \in Task, NEW r \in Wanted, Resolve(t, r)
      PROVE  ValueNow' = ValueNow /\ built' = built
  BY <1>5 DEF Resolve, ValueNow
<1>6. CASE UNCHANGED vars
  BY <1>1, <1>6 DEF vars, ValueNow
<1>7. ASSUME NEW c \in DOMAIN calls,
             \/ \E r \in Request : ResolveDependency(c, r)
             \/ UseValue(c) \/ FindSlot(c) \/ ReuseCell(c) \/ BeginBuild(c)
             \/ FailBuild(c) \/ DropCall(c)
      PROVE  ValueNow' = ValueNow /\ built' = built
  <2>1. built' = built
    BY <1>7 DEF ResolveDependency, UseValue, FindSlot, ReuseCell, BeginBuild, FailBuild, DropCall
  <2> QED
    BY <1>7, <2>1, ValuesStay
<1> QED
  BY <1>0, <1>1, <1>2, <1>3, <1>4, <1>5, <1>6, <1>7 DEF Next, Poll

LEMMA ActiveAddressed ==
  ASSUME IInv, NEW c \in DOMAIN calls, Active(c), Cached(Entry(c))
  PROVE  Addressed(c, calls[c].i, CellOf(c)) /\ calls[c].i \in Nat /\ c \in Call
  BY ActiveCall DEF Addressed, Entry, CellOf, Progress

LEMMA OriginCells ==
  ASSUME IInv, OriginInv, [Next]_vars
  PROVE  /\ \A a \in DOMAIN cells' : OriginOK(a)'
         /\ \A a, b \in DOMAIN cells' :
              cells'[a].val # None /\ cells'[a].val = cells'[b].val => a = b
<1>0. /\ built \in [EntryId -> Nat] /\ built' \in [EntryId -> Nat]
      /\ \A e \in EntryId : built[e] <= built'[e]
      /\ \A a \in DOMAIN cells : cells[a].val # None => cells[a].val \in Instance
  BY StepInv, CellMovement DEF IInv, CellOK, Cell
<1>1. ASSUME NEW a \in DOMAIN cells', a \in DOMAIN cells, cells'[a].val = cells[a].val
      PROVE  OriginOK(a)'
  <2> SUFFICES ASSUME cells[a].val # None
               PROVE  /\ \E c \in Call : \E i \in Nat :
                           Addressed(c, i, a) /\ cells[a].val[1] = EntryAt(c, i)
                      /\ cells[a].val[2] <= built'[cells[a].val[1]]
    BY <1>1 DEF OriginOK, Addressed, Cached
  <2>1. /\ \E c \in Call : \E i \in Nat :
              Addressed(c, i, a) /\ cells[a].val[1] = EntryAt(c, i)
        /\ cells[a].val[2] <= built[cells[a].val[1]]
    BY <1>1 DEF OriginInv, OriginOK
  <2>2. cells[a].val[1] \in EntryId /\ cells[a].val[2] \in Nat
    BY <1>0, <1>1 DEF Instance
  <2>3. cells[a].val[2] <= built'[cells[a].val[1]]
    BY <1>0, <2>1, <2>2
  <2> QED
    BY <2>1, <2>3
<1>2. CASE CellsStay
  <2>1. \A a \in DOMAIN cells' : OriginOK(a)'
    <3> SUFFICES ASSUME NEW a \in DOMAIN cells', cells'[a].val # None PROVE OriginOK(a)'
      BY DEF OriginOK
    <3> QED
      BY <1>1, <1>2 DEF CellsStay
  <2> QED
    BY <1>2, <2>1 DEF CellsStay, OriginInv
<1>3. ASSUME NEW c \in DOMAIN calls, Published(c)
      PROVE  /\ \A a \in DOMAIN cells' : OriginOK(a)'
             /\ \A a, b \in DOMAIN cells' :
                  cells'[a].val # None /\ cells'[a].val = cells'[b].val => a = b
  <2> DEFINE v == <<Entry(c), built[Entry(c)] + 1>>
  <2>1. /\ Entry(c) \in EntryId /\ cells'[CellOf(c)].val = v
        /\ built'[Entry(c)] = built[Entry(c)] + 1 /\ built[Entry(c)] \in Nat
        /\ \A a \in DOMAIN cells' \ {CellOf(c)} :
             a \in DOMAIN cells /\ cells'[a].val = cells[a].val
    BY <1>0, <1>3 DEF Published
  <2>2. Addressed(c, calls[c].i, CellOf(c)) /\ calls[c].i \in Nat /\ c \in Call
    BY <1>3, ActiveAddressed DEF Published
  <2>3. ASSUME NEW a, a = CellOf(c) PROVE OriginOK(a)'
    <3>1. v[1] = EntryAt(c, calls[c].i) /\ v[2] <= built'[v[1]]
      BY <2>1 DEF Entry
    <3>2. cells'[a].val = v /\ Addressed(c, calls[c].i, a)
      BY <2>1, <2>2, <2>3
    <3> HIDE DEF v
    <3>3. \E x \in Call : \E i \in Nat : Addressed(x, i, a) /\ cells'[a].val[1] = EntryAt(x, i)
      BY <2>2, <3>1, <3>2
    <3>4. cells'[a].val[2] <= built'[cells'[a].val[1]]
      BY <3>1, <3>2
    <3> QED
      BY <3>3, <3>4 DEF OriginOK, Addressed, Cached
  <2>4. ASSUME NEW a \in DOMAIN cells' \ {CellOf(c)} PROVE cells'[a].val # v
    <3>1. a \in DOMAIN cells /\ cells'[a].val = cells[a].val
      BY <2>1
    <3>2. v # None
      BY <2>1, ContainerAssumption DEF Instance
    <3>3. cells[a].val # None => cells[a].val[2] <= built[cells[a].val[1]]
      BY <3>1 DEF OriginInv, OriginOK
    <3>4. v[1] = Entry(c) /\ ~(v[2] <= built[Entry(c)])
      BY <2>1
    <3> QED
      BY <3>1, <3>2, <3>3, <3>4
  <2> HIDE DEF v
  <2>5. \A a \in DOMAIN cells' : OriginOK(a)'
    <3> SUFFICES ASSUME NEW a \in DOMAIN cells', a # CellOf(c) PROVE OriginOK(a)'
      BY <2>3
    <3> QED
      BY <1>1, <2>1
  <2>6. \A a, b \in DOMAIN cells' :
          cells'[a].val # None /\ cells'[a].val = cells'[b].val => a = b
    BY <2>1, <2>4 DEF OriginInv
  <2> QED
    BY <2>5, <2>6
<1> QED
  BY <1>2, <1>3, CellMovement

LEMMA OpenedGotNothing ==
  ASSUME NEW c \in Call, c[2] # <<>>
  PROVE  /\ Opened(c).got = <<>>
         /\ Opened(c).pc = "done" => ~Registered(ReqOf(c))
  BY DEF Opened, ReqOf, EmptyResult, Failed, Entering

LEMMA FailedGotNothing ==
  ASSUME NEW e
  PROVE  Failed(e).got = <<>> /\ Failed(e).pc = "failed"
  BY DEF Failed

LEMMA OriginCalls ==
  ASSUME GroupsAreNamed, IInv, OriginInv, [Next]_vars, NEW c \in DOMAIN calls'
  PROVE  GotOK(c)'
<1>0. DOMAIN <<>> = {}
  OBVIOUS
<1>1. CASE Stays(c)
  BY <1>1 DEF Stays, OriginInv, GotOK
<1>2. CASE Opens(c)
  <2>1. c \in Call /\ c[2] # <<>> /\ calls'[c] = Opened(c)
    BY <1>2, OpensFacts
  <2> QED
    BY <1>0, <2>1, OpenedGotNothing DEF GotOK
<1>3. CASE Moves(c)
  <2>1. /\ c \in DOMAIN calls /\ Active(c) /\ CallOK(c) /\ calls[c] \in Progress
        /\ GotOK(c) /\ Registered(ReqOf(c))
        /\ calls[c].i \in 1..Len(EntriesOf(ReqOf(c)))
    BY <1>3, ActiveCall DEF Moves, OriginInv
  <2>2. ASSUME NEW p \in {"insert", "cell", "build"}, calls'[c] = [calls[c] EXCEPT !.pc = p]
        PROVE  GotOK(c)'
    <3>1. calls'[c].pc = p /\ calls'[c].got = calls[c].got
      BY <2>1, <2>2 DEF Progress
    <3> QED
      BY <2>1, <3>1 DEF GotOK
  <2>3. ASSUME NEW e, calls'[c] = Failed(e) PROVE GotOK(c)'
    BY <1>0, <2>3, FailedGotNothing DEF GotOK
  <2>4. ASSUME NEW v \in Instance, Gets(c, v) PROVE GotOK(c)'
    <3>1. v[1] = Entry(c)
      <4>1. ASSUME AtCell(c), CellOf(c) \in DOMAIN cells, v = cells[CellOf(c)].val
            PROVE  v[1] = Entry(c)
        <5>1. v # None
          BY ContainerAssumption
        <5>2. PICK d \in Call : \E i \in Nat :
                Addressed(d, i, CellOf(c)) /\ v[1] = EntryAt(d, i)
          BY <4>1, <5>1 DEF OriginInv, OriginOK
        <5>3. PICK i \in Nat : Addressed(d, i, CellOf(c)) /\ v[1] = EntryAt(d, i)
          BY <5>2
        <5>4. Addressed(c, calls[c].i, CellOf(c))
          BY <2>1, <4>1, AtCellHasCell, ActiveAddressed DEF Cached, Kind
        <5> QED
          BY <5>3, <5>4, OneEntryPerCell DEF Entry
      <4> QED
        BY <2>4, <4>1 DEF Gets
    <3>2. /\ calls'[c].got = Append(calls[c].got, v)
          /\ calls'[c].pc = "done" => calls[c].i = Len(EntriesOf(ReqOf(c)))
      BY <2>4 DEF Gets, Advanced
    <3>3. /\ calls[c].got \in Seq(Instance) /\ calls[c].i \in Nat
          /\ Len(calls[c].got) = calls[c].i - 1
      BY <2>1 DEF CallOK, WellPlaced, Progress
    <3>4. Len(calls'[c].got) = calls[c].i
      BY <3>2, <3>3
    <3>5. ASSUME NEW j \in DOMAIN calls'[c].got PROVE calls'[c].got[j][1] = EntryAt(c, j)
      <4>1. j \in 1..calls[c].i
        BY <3>2, <3>3, <3>5
      <4>2. CASE j = calls[c].i
        <5>1. calls'[c].got[j] = v
          BY <3>2, <3>3, <4>2
        <5> QED
          BY <3>1, <4>2, <5>1 DEF Entry
      <4>3. CASE j # calls[c].i
        <5>1. j \in DOMAIN calls[c].got /\ calls'[c].got[j] = calls[c].got[j]
          BY <3>2, <3>3, <4>1, <4>3
        <5> QED
          BY <2>1, <5>1 DEF GotOK
      <4> QED
        BY <4>2, <4>3
    <3> QED
      BY <3>2, <3>4, <3>5 DEF GotOK
  <2> QED
    BY <1>3, <2>2, <2>3, <2>4 DEF Moves
<1> QED
  BY <1>1, <1>2, <1>3, Movement

LEMMA OriginInvariance == GroupsAreNamed => (Spec => [](IInv /\ OriginInv))
<1> SUFFICES ASSUME GroupsAreNamed PROVE Spec => [](IInv /\ OriginInv)
  OBVIOUS
<1>1. Init => OriginInv
  <2> SUFFICES ASSUME Init PROVE OriginInv
    OBVIOUS
  <2>1. \A a \in DOMAIN cells : cells[a].val = None
    BY DEF Init, Empty
  <2> QED
    BY <2>1, InitCalls DEF OriginInv, OriginOK
<1>2. IInv /\ OriginInv /\ [Next]_vars => OriginInv'
  BY OriginCells, OriginCalls DEF OriginInv
<1> QED
  BY <1>1, <1>2, Invariance, PTL DEF Spec

\* Unless a group is called by the empty string, a call only gets instances of
\* the entries it asked for, one for each and in the order of registration,
\* from caches too (resolve_group and its members' slot keys).
THEOREM GetsWhatItAskedFor == GroupsAreNamed => (Spec => []GotWhatWasAskedFor)
<1>1. OriginInv => GotWhatWasAskedFor
  BY DEF OriginInv, GotOK, GotWhatWasAskedFor
<1> QED
  BY <1>1, OriginInvariance, PTL

\* A scoped instance is never seen by two requests at once, whatever they ask
\* for (CURRENT_SCOPE and Scope::resolve_for).
THEOREM RequestsDoNotShare == GroupsAreNamed => (Spec => []ScopesAreIsolated)
<1>1. IInv /\ OriginInv => ScopesAreIsolated
  <2> SUFFICES ASSUME IInv, OriginInv,
                      NEW c \in DOMAIN calls, NEW d \in DOMAIN calls, c[1] # d[1],
                      NEW j \in DOMAIN calls[c].got, NEW k \in DOMAIN calls[d].got,
                      Lifecycle[EntryAt(c, j)] = "scoped", calls[c].got[j] = calls[d].got[k]
               PROVE  FALSE
    BY DEF ScopesAreIsolated
  <2>1. /\ CallOK(c) /\ CallOK(d) /\ c \in Call /\ d \in Call
        /\ calls[c].got[j] \in Instance
    BY DEF IInv, CallOK, Progress
  <2>2. EntryAt(c, j) = EntryAt(d, k)
    BY DEF OriginInv, GotOK
  <2>3. /\ CellAt(c, j) \in DOMAIN cells /\ cells[CellAt(c, j)].val = calls[c].got[j]
        /\ CellAt(d, k) \in DOMAIN cells /\ cells[CellAt(d, k)].val = calls[d].got[k]
    BY <2>1, <2>2 DEF CallOK, HasPublished, Cached
  <2>4. CellAt(c, j)[1] = c[1] /\ CellAt(d, k)[1] = d[1]
    BY <2>1, <2>2, CellAddress
  <2>5. CellAt(c, j) = CellAt(d, k)
    BY <2>1, <2>3, ContainerAssumption DEF OriginInv
  <2> QED
    BY <2>4, <2>5
<1> QED
  BY <1>1, OriginInvariance, PTL
-----------------------------------------------------------------------------
(***************************************************************************)
(* The builder: what a call gets is what was registered, in order.         *)
(***************************************************************************)
UpTo(S, i) == {j \in S : j <= i}

\* How many places of S there are up to i: one to one.
LEMMA Ranks ==
  ASSUME NEW S \in SUBSET Nat, IsFiniteSet(S)
  PROVE  /\ \A i \in S : Cardinality(UpTo(S, i)) \in 1 .. Cardinality(S)
         /\ \A i, k \in S : i < k => Cardinality(UpTo(S, i)) < Cardinality(UpTo(S, k))
<1>1. \A i \in S : /\ UpTo(S, i) \in SUBSET S /\ i \in UpTo(S, i)
                   /\ IsFiniteSet(UpTo(S, i)) /\ Cardinality(UpTo(S, i)) \in Nat
                   /\ Cardinality(UpTo(S, i)) <= Cardinality(S)
  <2> SUFFICES ASSUME NEW i \in S
               PROVE  /\ UpTo(S, i) \in SUBSET S /\ i \in UpTo(S, i)
                      /\ IsFiniteSet(UpTo(S, i)) /\ Cardinality(UpTo(S, i)) \in Nat
                      /\ Cardinality(UpTo(S, i)) <= Cardinality(S)
    OBVIOUS
  <2>1. UpTo(S, i) \in SUBSET S /\ i \in UpTo(S, i)
    BY DEF UpTo
  <2>2. IsFiniteSet(UpTo(S, i)) /\ Cardinality(UpTo(S, i)) <= Cardinality(S)
    BY <2>1, FS_Subset
  <2> QED
    BY <2>1, <2>2, FS_CardinalityType
<1>2. Cardinality(S) \in Nat
  BY FS_CardinalityType
<1>3. ASSUME NEW i \in S PROVE Cardinality(UpTo(S, i)) \in 1 .. Cardinality(S)
  <2>1. Cardinality(UpTo(S, i)) # 0
    BY <1>1, FS_EmptySet
  <2> QED
    BY <1>1, <1>2, <2>1
<1>4. ASSUME NEW i \in S, NEW k \in S, i < k
      PROVE  Cardinality(UpTo(S, i)) < Cardinality(UpTo(S, k))
  <2>0. i \in Nat /\ k \in Nat /\ \A j \in S : j \in Nat
    OBVIOUS
  <2>1. UpTo(S, i) \in SUBSET UpTo(S, k) /\ k \notin UpTo(S, i)
    <3>1. ~(k <= i) /\ \A j \in S : j <= i => j <= k
      BY <1>4, <2>0
    <3> QED
      BY <3>1 DEF UpTo
  <2>2. IsFiniteSet(UpTo(S, k)) /\ k \in UpTo(S, k) /\ UpTo(S, k) # UpTo(S, i)
    BY <1>1, <2>1
  <2>3. Cardinality(UpTo(S, i)) <= Cardinality(UpTo(S, k))
    BY <2>1, <2>2, FS_Subset
  <2>4. Cardinality(UpTo(S, k)) # Cardinality(UpTo(S, i))
    BY <2>1, <2>2, FS_Subset
  <2>5. Cardinality(UpTo(S, i)) \in Nat /\ Cardinality(UpTo(S, k)) \in Nat
    BY <1>1
  <2> QED
    BY <2>3, <2>4, <2>5
<1> QED
  BY <1>3, <1>4

\* The n-th place is one of them, later ones come later, and each is some n-th.
LEMMA PushedInOrder ==
  ASSUME NEW S \in SUBSET Nat, IsFiniteSet(S)
  PROVE  /\ \A n \in 1 .. Cardinality(S) :
              Pushed(S, n) \in S /\ Cardinality(UpTo(S, Pushed(S, n))) = n
         /\ \A n, m \in 1 .. Cardinality(S) : n < m => Pushed(S, n) < Pushed(S, m)
         /\ \A i \in S : \E n \in 1 .. Cardinality(S) : Pushed(S, n) = i
<1> DEFINE N == Cardinality(S)
           rank == [i \in S |-> Cardinality(UpTo(S, i))]
<1>1. N \in Nat /\ IsFiniteSet(1 .. N) /\ Cardinality(1 .. N) = N
  <2>1. N \in Nat
    BY FS_CardinalityType
  <2>2. 1 \in Int /\ N \in Int
    BY <2>1
  <2>3. IsFiniteSet(1 .. N) /\ Cardinality(1 .. N) = IF 1 > N THEN 0 ELSE N - 1 + 1
    BY <2>2, FS_Interval
  <2> QED
    BY <2>1, <2>3
<1>2. \A i, k \in S : rank[i] = rank[k] => i = k
  <2> TAKE i, k \in S
  <2>1. /\ rank[i] = Cardinality(UpTo(S, i)) /\ rank[k] = Cardinality(UpTo(S, k))
        /\ rank[i] \in Nat /\ rank[k] \in Nat
    BY <1>1, Ranks
  <2>2. (i < k => rank[i] < rank[k]) /\ (k < i => rank[k] < rank[i])
    BY <2>1, Ranks
  <2> QED
    BY <2>1, <2>2
<1>3. rank \in Injection(S, 1 .. N)
  BY <1>2, Ranks DEF Injection, IsInjective
<1>4. rank \in Surjection(S, 1 .. N)
  BY <1>1, <1>3, FS_Injection
<1>5. \A n \in 1 .. N : \E i \in S : Cardinality(UpTo(S, i)) = n
  BY <1>4 DEF Surjection
<1>6. ASSUME NEW n \in 1 .. N
      PROVE  Pushed(S, n) \in S /\ Cardinality(UpTo(S, Pushed(S, n))) = n
  BY <1>5 DEF Pushed, UpTo
<1>7. ASSUME NEW n \in 1 .. N, NEW m \in 1 .. N, n < m
      PROVE  Pushed(S, n) < Pushed(S, m)
  <2>1. /\ Pushed(S, n) \in S /\ Cardinality(UpTo(S, Pushed(S, n))) = n
        /\ Pushed(S, m) \in S /\ Cardinality(UpTo(S, Pushed(S, m))) = m
    BY <1>6
  <2>2. Pushed(S, m) < Pushed(S, n) => m < n
    BY <2>1, Ranks
  <2>3. n \in Nat /\ m \in Nat /\ Pushed(S, n) \in Nat /\ Pushed(S, m) \in Nat
    <3>1. n \in Nat /\ m \in Nat
      BY <1>1
    <3> QED
      BY <2>1, <3>1
  <2>4. Pushed(S, m) # Pushed(S, n)
    BY <1>7, <2>1, <2>3
  <2> QED
    BY <1>7, <2>2, <2>3, <2>4
<1>8. ASSUME NEW i \in S PROVE \E n \in 1 .. N : Pushed(S, n) = i
  <2>1. rank[i] \in 1 .. N
    BY Ranks
  <2>2. Pushed(S, rank[i]) \in S /\ Cardinality(UpTo(S, Pushed(S, rank[i]))) = rank[i]
    BY <1>6, <2>1
  <2>3. rank[Pushed(S, rank[i])] = rank[i]
    BY <2>2
  <2> HIDE DEF rank
  <2>4. Pushed(S, rank[i]) = i
    BY <1>2, <2>2, <2>3
  <2> QED
    BY <2>1, <2>4
<1> QED
  BY <1>6, <1>7, <1>8

LEMMA MaxFacts ==
  ASSUME NEW S \in SUBSET Nat, IsFiniteSet(S), S # {}
  PROVE  Max(S) \in S /\ \A i \in S : i <= Max(S)
<1> DEFINE N == Cardinality(S)
<1>1. N \in 1 .. N
  BY FS_CardinalityType, FS_EmptySet
<1>2. Pushed(S, N) \in S /\ \A i \in S : i <= Pushed(S, N)
  <2>1. Pushed(S, N) \in S /\ Cardinality(UpTo(S, Pushed(S, N))) = N
    BY <1>1, PushedInOrder
  <2>2. UpTo(S, Pushed(S, N)) \in SUBSET S
    BY DEF UpTo
  <2>3. UpTo(S, Pushed(S, N)) = S
    BY <2>1, <2>2, FS_Subset
  <2> QED
    BY <2>1, <2>3 DEF UpTo
<1> QED
  BY <1>2 DEF Max

\* Where the places that a request is for are in the list of registrations.
Mine(r) == {i \in DOMAIN Regs : Regs[i].key = r.key /\ Regs[i].multi = (r.kind = "all")}

LEMMA PlacesOfRequest ==
  ASSUME NEW r \in Request
  PROVE  /\ Mine(r) \in SUBSET Nat /\ IsFiniteSet(Mine(r)) /\ Mine(r) \subseteq DOMAIN Regs
         /\ r.kind = "one" => /\ Mine(r) = Bound(Regs, r.key)
                              /\ Registered(r) <=> Mine(r) # {}
         /\ r.kind = "all" => /\ Mine(r) = Multibound(Regs, r.key)
                              /\ Registered(r) <=> Mine(r) # {}
<1>1. /\ Regs \in Seq([multi : BOOLEAN, key : ServiceKey, entry : EntryId,
                       life : {"value", "singleton", "transient", "scoped"},
                       deps : SUBSET Request])
      /\ Singular = BuildEntries(Regs) /\ Groups = BuildGroups(Regs)
  BY BuilderAssumption DEF BuilderAssumption
<1> DEFINE Reg == [multi : BOOLEAN, key : ServiceKey, entry : EntryId,
                   life : {"value", "singleton", "transient", "scoped"},
                   deps : SUBSET Request]
<1>2. DOMAIN Regs = 1 .. Len(Regs) /\ Len(Regs) \in Nat
      /\ \A i \in DOMAIN Regs : Regs[i].multi \in BOOLEAN
  <2>1. Regs \in Seq(Reg)
    BY <1>1
  <2>2. \A reg \in Reg : reg.multi \in BOOLEAN
    OBVIOUS
  <2> HIDE DEF Reg
  <2>3. DOMAIN Regs = 1 .. Len(Regs) /\ Len(Regs) \in Nat /\ \A i \in DOMAIN Regs : Regs[i] \in Reg
    BY <2>1
  <2> QED
    BY <2>2, <2>3
<1>3. IsFiniteSet(1 .. Len(Regs))
  <2>1. 1 \in Int /\ Len(Regs) \in Int
    BY <1>2
  <2> QED
    BY <2>1, FS_Interval
<1>4. Mine(r) \in SUBSET (1 .. Len(Regs))
  BY <1>2 DEF Mine
<1>5. IsFiniteSet(Mine(r)) /\ Mine(r) \in SUBSET Nat
  BY <1>3, <1>4, FS_Subset
<1>6. CASE r.kind = "one"
  <2>1. Mine(r) = Bound(Regs, r.key)
    BY <1>2, <1>6 DEF Mine, Bound
  <2>2. DOMAIN Singular = {Regs[i].key : i \in {j \in DOMAIN Regs : ~Regs[j].multi}}
    BY <1>1 DEF BuildEntries
  <2>3. Registered(r) <=> r.key \in DOMAIN Singular
    BY <1>6 DEF Registered
  <2>4. Registered(r) <=> Mine(r) # {}
    BY <2>1, <2>2, <2>3 DEF Bound
  <2> QED
    BY <1>4, <1>2, <1>5, <1>6, <2>1, <2>4
<1>7. CASE r.kind = "all"
  <2>1. Mine(r) = Multibound(Regs, r.key)
    BY <1>2, <1>7 DEF Mine, Multibound
  <2>2. DOMAIN Groups = {Regs[i].key : i \in {j \in DOMAIN Regs : Regs[j].multi}}
    BY <1>1 DEF BuildGroups
  <2>3. Registered(r) <=> r.key \in DOMAIN Groups
    BY <1>7 DEF Registered
  <2>4. Registered(r) <=> Mine(r) # {}
    BY <2>1, <2>2, <2>3 DEF Multibound
  <2> QED
    BY <1>4, <1>2, <1>5, <1>7, <2>1, <2>4
<1> QED
  BY <1>2, <1>4, <1>5, <1>6, <1>7 DEF Request

LEMMA OneIsLast ==
  ASSUME NEW r \in Request, r.kind = "one", Registered(r)
  PROVE  /\ Len(EntriesOf(r)) = 1 /\ EntriesOf(r)[1] = Regs[Max(Mine(r))].entry
         /\ Max(Mine(r)) \in Mine(r) /\ \A i \in Mine(r) : i <= Max(Mine(r))
<1>1. /\ Mine(r) = Bound(Regs, r.key) /\ Mine(r) # {}
      /\ Mine(r) \in SUBSET Nat /\ IsFiniteSet(Mine(r))
  BY PlacesOfRequest
<1>2. Singular = BuildEntries(Regs) /\ r.key \in DOMAIN Singular
  BY BuilderAssumption DEF BuilderAssumption, Registered
<1>3. Singular[r.key] = Regs[Max(Bound(Regs, r.key))].entry
  BY <1>2 DEF BuildEntries
<1> QED
  BY <1>1, <1>3, MaxFacts DEF EntriesOf

LEMMA GroupIsInOrder ==
  ASSUME NEW r \in Request, r.kind = "all", Registered(r)
  PROVE  /\ Len(EntriesOf(r)) = Cardinality(Mine(r)) /\ Cardinality(Mine(r)) \in Nat
         /\ \A n \in 1 .. Cardinality(Mine(r)) :
              EntriesOf(r)[n] = Regs[Pushed(Mine(r), n)].entry
<1>1. /\ Mine(r) = Multibound(Regs, r.key) /\ IsFiniteSet(Mine(r))
  BY PlacesOfRequest
<1>2. Groups = BuildGroups(Regs) /\ r.key \in DOMAIN Groups /\ EntriesOf(r) = Groups[r.key]
  BY BuilderAssumption DEF BuilderAssumption, Registered, EntriesOf
<1>3. Groups[r.key] = [n \in 1 .. Cardinality(Multibound(Regs, r.key)) |->
                         Regs[Pushed(Multibound(Regs, r.key), n)].entry]
  BY <1>2 DEF BuildGroups
<1>4. Cardinality(Mine(r)) \in Nat
  BY <1>1, FS_CardinalityType
<1>5. Groups[r.key] \in Seq(EntryId)
  BY <1>2, ContainerAssumption DEF ContainerAssumption
<1>6. Len(Groups[r.key]) \in Nat /\ 1 .. Len(Groups[r.key]) = 1 .. Cardinality(Mine(r))
  <2>1. DOMAIN Groups[r.key] = 1 .. Cardinality(Mine(r))
    BY <1>1, <1>3
  <2>2. Len(Groups[r.key]) \in Nat /\ DOMAIN Groups[r.key] = 1 .. Len(Groups[r.key])
    BY <1>5
  <2> QED
    BY <2>1, <2>2
<1>7. Len(Groups[r.key]) = Cardinality(Mine(r))
  BY <1>4, <1>6
<1> QED
  BY <1>1, <1>2, <1>3, <1>4, <1>7

\* Nothing registered is a result for a group only.
DoneOK(c) == calls[c].pc = "done" /\ ~Registered(ReqOf(c)) => ReqOf(c).kind = "all"

LEMMA DoneInvariance == Spec => [](\A c \in DOMAIN calls : DoneOK(c))
<1>1. Init => \A c \in DOMAIN calls : DoneOK(c)
  BY InitCalls
<1>2. ASSUME IInv, \A c \in DOMAIN calls : DoneOK(c), [Next]_vars, NEW c \in DOMAIN calls'
      PROVE  DoneOK(c)'
  <2>1. CASE Stays(c)
    BY <1>2, <2>1 DEF Stays, DoneOK
  <2>2. CASE Opens(c)
    BY <2>2 DEF Opens, Opened, Failed, Entering, DoneOK, ReqOf
  <2>3. CASE Moves(c)
    BY <1>2, <2>3, ActiveCall DEF Moves, DoneOK
  <2> QED
    BY <1>2, <2>1, <2>2, <2>3, Movement
<1>3. IInv /\ (\A c \in DOMAIN calls : DoneOK(c)) /\ [Next]_vars
        => (\A c \in DOMAIN calls : DoneOK(c))'
  BY <1>2
<1> QED
  BY <1>1, <1>3, Invariance, PTL DEF Spec

LEMMA DoneIsHonoured ==
  ASSUME IInv, OriginInv, NEW c \in DOMAIN calls, calls[c].pc = "done", DoneOK(c)
  PROVE  LET r == ReqOf(c)
             got == calls[c].got
             gave(k) == CHOOSE i \in Mine(r) : Regs[i].entry = got[k][1]
             places == [k \in DOMAIN got |-> gave(k)]
         IN  IF r.kind = "one" THEN \A i \in Mine(r) : i <= places[1]
             ELSE /\ Range(places) = Mine(r)
                  /\ \A j, k \in DOMAIN places : j < k => places[j] < places[k]
<1> DEFINE r == ReqOf(c)
           got == calls[c].got
           gave(k) == CHOOSE i \in Mine(r) : Regs[i].entry = got[k][1]
           places == [k \in DOMAIN got |-> gave(k)]
<1>1. /\ c \in Call /\ c[2] # <<>> /\ got \in Seq(Instance) /\ DOMAIN got = 1 .. Len(got)
      /\ got # <<>> => Registered(r)
  BY DEF IInv, CallOK, WellPlaced, Progress
<1>2. r \in Request
  BY <1>1 DEF ReqOf, Last, Call
<1>3. \A k \in DOMAIN got : got[k][1] = EntriesOf(r)[k]
  BY DEF OriginInv, GotOK, EntryAt
<1>4. Registered(r) => Len(got) = Len(EntriesOf(r))
  BY DEF OriginInv, GotOK
<1>5. \A i \in Mine(r) : \A k \in DOMAIN got : got[k][1] = Regs[i].entry => gave(k) = i
  <2> TAKE i \in Mine(r)
  <2> TAKE k \in DOMAIN got
  <2> HAVE got[k][1] = Regs[i].entry
  <2>1. \A j \in Mine(r) : Regs[j].entry = Regs[i].entry => j = i
    BY <1>2, PlacesOfRequest, BuilderAssumption DEF BuilderAssumption
  <2> QED
    BY <2>1
<1> HIDE DEF r, got, gave
<1>6. CASE r.kind = "one"
  <2>1. Registered(r)
    BY <1>6 DEF DoneOK, r
  <2>2. 1 \in DOMAIN got /\ got[1][1] = Regs[Max(Mine(r))].entry
    BY <1>1, <1>2, <1>3, <1>4, <1>6, <2>1, OneIsLast
  <2>3. places[1] = Max(Mine(r))
    BY <1>2, <1>5, <1>6, <2>1, <2>2, OneIsLast
  <2> QED
    BY <1>2, <1>6, <2>1, <2>3, OneIsLast DEF r, got, gave
<1>7. CASE r.kind = "all" /\ Registered(r)
  <2>1. /\ DOMAIN places = 1 .. Cardinality(Mine(r)) /\ DOMAIN got = 1 .. Cardinality(Mine(r))
        /\ Mine(r) \in SUBSET Nat /\ IsFiniteSet(Mine(r))
    BY <1>1, <1>2, <1>4, <1>7, GroupIsInOrder, PlacesOfRequest
  <2>2. \A k \in 1 .. Cardinality(Mine(r)) : places[k] = Pushed(Mine(r), k)
    <3> TAKE k \in 1 .. Cardinality(Mine(r))
    <3>1. got[k][1] = Regs[Pushed(Mine(r), k)].entry
      BY <1>2, <1>3, <1>7, <2>1, GroupIsInOrder
    <3>2. Pushed(Mine(r), k) \in Mine(r)
      BY <2>1, PushedInOrder
    <3> QED
      BY <1>5, <2>1, <3>1, <3>2
  <2> HIDE DEF places
  <2>3. Range(places) = Mine(r)
    <3>1. Range(places) = {places[k] : k \in 1 .. Cardinality(Mine(r))}
      BY <2>1 DEF Range
    <3> QED
      BY <2>1, <2>2, <3>1, PushedInOrder
  <2>4. \A j, k \in DOMAIN places : j < k => places[j] < places[k]
    BY <2>1, <2>2, PushedInOrder
  <2> QED
    BY <1>7, <2>3, <2>4 DEF r, got, gave, places
<1>8. CASE r.kind = "all" /\ ~Registered(r)
  <2>1. DOMAIN places = {} /\ Mine(r) = {}
    BY <1>1, <1>2, <1>8, PlacesOfRequest
  <2> HIDE DEF places
  <2>2. Range(places) = {}
    BY <2>1 DEF Range
  <2> QED
    BY <1>8, <2>1, <2>2 DEF r, got, gave, places
<1> QED
  BY <1>2, <1>6, <1>7, <1>8 DEF Request

\* Unless a group is called by the empty string, a resolve that is done got what
\* was registered: of a service the last registration, of a group all of them in
\* their order; for any list of registrations (ContainerBuilder::build).
THEOREM GivesWhatWasRegistered == GroupsAreNamed => (Spec => []RegistrationsAreHonoured)
<1>1. IInv /\ OriginInv /\ (\A c \in DOMAIN calls : DoneOK(c)) => RegistrationsAreHonoured
  BY DoneIsHonoured DEF RegistrationsAreHonoured, Mine
<1> QED
  BY <1>1, OriginInvariance, DoneInvariance, PTL
-----------------------------------------------------------------------------
(***************************************************************************)
(* Freedom from deadlock: where registrations do not need each other in a  *)
(* circle, calls do not wait in one.                                       *)
(***************************************************************************)
\* "No service needs itself": entries can be ranked so that a factory only asks
\* for entries of lower ranks.
RankedBy(rank) ==
  /\ rank \in [EntryId -> Nat]
  /\ \A e \in EntryId : \A r \in Deps[e] : Registered(r) =>
       \A j \in DOMAIN EntriesOf(r) : rank[EntriesOf(r)[j]] < rank[e]

Acyclic == \E rank \in [EntryId -> Nat] : RankedBy(rank)

\* A set of numbers has a least one.
LEMMA LeastFacts ==
  ASSUME NEW S \in SUBSET Nat, S # {}
  PROVE  \E x \in S : \A y \in S : x <= y
<1>1. PICK x \in S : \A y \in S : ~(<<y, x>> \in OpToRel(<, Nat))
  BY NatLessThanWellFounded, WFMin
<1>2. \A y \in S : ~(y < x)
  BY <1>1 DEF OpToRel
<1> QED
  BY <1>2

\* Whoever holds the permit that a call waits for runs the factory of the same
\* entry.
LEMMA HolderFacts ==
  ASSUME GroupsAreNamed, IInv, NEW c \in DOMAIN calls, Waiting(c)
  PROVE  LET h == cells[CellOf(c)].by IN
           /\ Active(c) /\ h \in DOMAIN calls /\ calls[h].pc = "build" /\ Active(h)
           /\ Entry(h) = Entry(c)
<1> DEFINE h == cells[CellOf(c)].by
<1>1. CellOf(c) \in DOMAIN cells /\ Active(c) /\ Cached(Entry(c))
  BY AtCellHasCell, ActiveCall DEF Waiting, AtCell, Active, IInv, CallOK, HasItsCell, Cached, Kind
<1>2. /\ h \in DOMAIN calls /\ calls[h].pc = "build" /\ Active(h)
      /\ CellOf(h) = CellOf(c) /\ Cached(Entry(h))
  BY <1>1 DEF Waiting, IInv, CellOK, Active
<1>3. /\ Addressed(c, calls[c].i, CellOf(c))
      /\ Addressed(h, calls[h].i, CellOf(c))
  <2> HIDE DEF h
  <2> QED
    BY <1>1, <1>2, ActiveAddressed
<1>4. EntryAt(c, calls[c].i) = EntryAt(h, calls[h].i)
  <2> HIDE DEF h
  <2> QED
    BY <1>3, OneEntryPerCell
<1> QED
  BY <1>1, <1>2, <1>4 DEF Entry

\* A factory either has its next step, or one of its dependencies is still being
\* resolved, at an entry of a lower rank.
LEMMA BuilderFacts ==
  ASSUME IInv, NEW rank, RankedBy(rank), NEW c \in DOMAIN calls, calls[c].pc = "build"
  PROVE  \/ Ready(c)
         \/ \E d \in DOMAIN calls : Active(d) /\ rank[Entry(d)] < rank[Entry(c)]
<1>1. Active(c) /\ Entry(c) \in EntryId /\ c \in Call /\ c[2] # <<>>
  BY ActiveCall DEF Active
<1> SUFFICES ASSUME ~Ready(c)
             PROVE  \E d \in DOMAIN calls : Active(d) /\ rank[Entry(d)] < rank[Entry(c)]
  OBVIOUS
<1>2. PICK r \in Deps[Entry(c)] : calls[Child(c, r)].pc # "done"
  BY DEF Ready
<1> DEFINE d == Child(c, r)
<1>3. d \in DOMAIN calls /\ FactoryErrors(c) = {}
  BY DEF Ready
<1>4. calls[d].pc # "failed"
  BY <1>3, Zenon DEF FactoryErrors
<1>5. calls[d] \in Progress
  BY <1>3 DEF IInv, CallOK
<1>6. Active(d)
  BY <1>2, <1>4, <1>5 DEF Active, Progress
<1>7. ReqOf(d) = r
  BY <1>1, CallTyped, ContainerAssumption
<1>8. Registered(r) /\ calls[d].i \in DOMAIN EntriesOf(r) /\ Entry(d) = EntriesOf(r)[calls[d].i]
  <2>1. /\ Registered(ReqOf(d)) /\ calls[d].i \in 1..Len(EntriesOf(ReqOf(d)))
        /\ ReqOf(d) \in Request
    BY <1>3, <1>6, ActiveCall, CallTyped
  <2>2. EntriesOf(r) \in Seq(EntryId)
    BY <1>7, <2>1, EntriesTyped
  <2> QED
    BY <1>7, <2>1, <2>2 DEF Entry, EntryAt
<1>9. rank[Entry(d)] < rank[Entry(c)]
  BY <1>1, <1>8 DEF RankedBy
<1> QED
  BY <1>3, <1>6, <1>9

\* Where no service needs itself, resolution never comes to a standstill: among
\* the calls that are neither done nor refused, one at an entry of the least rank
\* waits for nobody, or for a factory of the same rank that waits for nobody
\* (get_or_try_init in resolve_entry and Scope::resolve_for).
THEOREM NeverAtAStandstill == Acyclic /\ GroupsAreNamed => (Spec => []NoStandstill)
<1> SUFFICES ASSUME Acyclic, GroupsAreNamed PROVE Spec => []NoStandstill
  OBVIOUS
<1>1. IInv => NoStandstill
  <2> SUFFICES ASSUME IInv, NEW b \in DOMAIN calls, ~Ended(b)
               PROVE  \E c \in DOMAIN calls : Ready(c)
    BY DEF NoStandstill
  <2>1. PICK rank \in [EntryId -> Nat] : RankedBy(rank)
    BY DEF Acyclic
  <2> DEFINE live == {c \in DOMAIN calls : Active(c)}
             used == {rank[Entry(c)] : c \in live}
  <2>2. \A c \in live : rank[Entry(c)] \in Nat
    BY ActiveCall
  <2>3. calls[b] \in Progress
    BY DEF IInv, CallOK
  <2>4. b \in live
    BY <2>3 DEF Ended, Progress, Active
  <2>5. used \in SUBSET Nat /\ used # {}
    BY <2>2, <2>4
  <2>6. PICK least \in used : \A n \in used : least <= n
    <3> HIDE DEF used
    <3> QED
      BY <2>5, LeastFacts
  <2>7. PICK c \in live : rank[Entry(c)] = least
    OBVIOUS
  <2>8. \A d \in live : ~(rank[Entry(d)] < least)
    BY <2>2, <2>6
  <2>9. ASSUME NEW d \in live, calls[d].pc = "build", rank[Entry(d)] = least
        PROVE  Ready(d)
    BY <2>1, <2>8, <2>9, BuilderFacts
  <2>10. CASE calls[c].pc = "build"
    BY <2>7, <2>9, <2>10
  <2>11. CASE Waiting(c)
    <3> DEFINE h == cells[CellOf(c)].by
    <3>1. h \in live /\ calls[h].pc = "build" /\ Entry(h) = Entry(c)
      BY <2>11, HolderFacts
    <3> QED
      BY <2>7, <2>9, <3>1
  <2>12. CASE calls[c].pc # "build" /\ ~Waiting(c)
    <3>1. calls[c].pc \in {"entry", "insert", "cell"}
      BY <2>12 DEF Active
    <3> QED
      BY <2>12, <3>1 DEF Ready, AtCell
  <2> QED
    BY <2>10, <2>11, <2>12
<1> QED
  BY <1>1, Invariance, PTL

\* One path above another: every request of it, and then some.
LEMMA StrictPrefixFacts ==
  ASSUME NEW s \in Seq(Request), NEW t \in Seq(Request)
  PROVE  /\ IsStrictPrefix(s, t) <=>
              Len(s) < Len(t) /\ \A i \in 1..Len(s) : s[i] = t[i]
         /\ IsPrefix(s, t) => s = t \/ IsStrictPrefix(s, t)
<1>1. IsPrefix(s, t) <=> Len(s) <= Len(t) /\ \A i \in 1..Len(s) : s[i] = t[i]
  BY DEF IsPrefix
<1>2. ASSUME Len(s) = Len(t), \A i \in 1..Len(s) : s[i] = t[i] PROVE s = t
  BY <1>2
<1>3. Len(s) \in Nat /\ Len(t) \in Nat
  OBVIOUS
<1> QED
  BY <1>1, <1>2, <1>3 DEF IsStrictPrefix

LEMMA PathsNest ==
  ASSUME NEW s \in Seq(Request), NEW t \in Seq(Request)
  PROVE  /\ \A u \in Seq(Request) :
              IsStrictPrefix(s, t) /\ IsStrictPrefix(t, u) => IsStrictPrefix(s, u)
         /\ \A r \in Request : IsStrictPrefix(s, Append(t, r)) => s = t \/ IsStrictPrefix(s, t)
         /\ \A r \in Request : IsStrictPrefix(s, <<r>>) => s = <<>>
         /\ ~IsStrictPrefix(s, s)
<1>1. \A u \in Seq(Request) :
        IsStrictPrefix(s, t) /\ IsStrictPrefix(t, u) => IsStrictPrefix(s, u)
  BY StrictPrefixFacts
<1>2. ASSUME NEW r \in Request, IsStrictPrefix(s, Append(t, r))
      PROVE  s = t \/ IsStrictPrefix(s, t)
  <2> DEFINE u == Append(t, r)
  <2>1. u \in Seq(Request) /\ Len(u) = Len(t) + 1 /\ \A i \in 1..Len(t) : u[i] = t[i]
    OBVIOUS
  <2>2. Len(s) < Len(u) /\ \A i \in 1..Len(s) : s[i] = u[i]
    <3> HIDE DEF u
    <3>1. IsStrictPrefix(s, u)
      BY <1>2 DEF u
    <3> QED
      BY <2>1, <3>1, StrictPrefixFacts
  <2> HIDE DEF u
  <2>3. IsPrefix(s, t)
    BY <2>1, <2>2 DEF IsPrefix
  <2> QED
    BY <2>3, StrictPrefixFacts
<1>3. ASSUME NEW r \in Request, IsStrictPrefix(s, <<r>>) PROVE s = <<>>
  <2>1. <<r>> \in Seq(Request) /\ Len(<<r>>) = 1
    OBVIOUS
  <2>2. Len(s) < 1
    BY <1>3, <2>1, StrictPrefixFacts
  <2> QED
    BY <2>2
<1>4. ~IsStrictPrefix(s, s)
  BY DEF IsStrictPrefix
<1> QED
  BY <1>1, <1>2, <1>3, <1>4

\* Whatever a call stands below is alive.
Supported ==
  \A d \in DOMAIN calls : \A q \in Seq(Request) :
    q # <<>> /\ IsStrictPrefix(q, d[2]) => <<d[1], q>> \in DOMAIN calls

\* A call with calls below it runs a factory, of a higher rank than theirs.
Descends(rank, c, d) ==
  /\ calls[c].pc = "build"
  /\ Registered(ReqOf(d)) =>
       \A j \in DOMAIN EntriesOf(ReqOf(d)) : rank[EntriesOf(ReqOf(d))[j]] < rank[Entry(c)]

Descent(rank) ==
  /\ Supported
  /\ \A c \in DOMAIN calls : \A d \in Below(c) : Descends(rank, c, d)

\* The calls of a state have paths.
LEMMA PathTyped ==
  ASSUME IInv, NEW c \in DOMAIN calls
  PROVE  c \in Call /\ c[1] \in Task /\ c[2] \in Seq(Request) /\ c[2] # <<>> /\ c = <<c[1], c[2]>>
  BY DEF IInv, CallOK, Call

\* At most one call is new, and then the others stay as they are.
LEMMA NewCall ==
  ASSUME IInv, [Next]_vars, NEW d \in DOMAIN calls', d \notin DOMAIN calls
  PROVE  /\ Opens(d)
         /\ DOMAIN calls' = DOMAIN calls \cup {d}
         /\ \A x \in DOMAIN calls : calls'[x] = calls[x]
<1>1. Opens(d)
  BY Movement DEF Stays, Moves
<1>2. ASSUME NEW t \in Task, NEW r \in Wanted, Resolve(t, r)
      PROVE  /\ DOMAIN calls' = DOMAIN calls \cup {d}
             /\ \A x \in DOMAIN calls : calls'[x] = calls[x]
  BY <1>2 DEF Resolve, Spawned
<1>3. ASSUME NEW x \in DOMAIN calls, NEW r \in Request, ResolveDependency(x, r)
      PROVE  /\ DOMAIN calls' = DOMAIN calls \cup {d}
             /\ \A y \in DOMAIN calls : calls'[y] = calls[y]
  BY <1>3 DEF ResolveDependency, Spawned
<1>4. ASSUME NEW x \in DOMAIN calls,
             \/ UseValue(x) \/ FindSlot(x) \/ InsertSlot(x) \/ ReuseCell(x) \/ BeginBuild(x)
      PROVE  DOMAIN calls' = DOMAIN calls
  BY <1>4 DEF UseValue, FindSlot, InsertSlot, ReuseCell, BeginBuild
<1>5. ASSUME NEW x \in DOMAIN calls, FinishBuild(x) \/ FailBuild(x) \/ DropCall(x)
      PROVE  DOMAIN calls' \subseteq DOMAIN calls
  BY <1>5 DEF FinishBuild, FailBuild, DropCall, Survivors, Restrict
<1>6. ASSUME NEW t \in ScopedTask, EndRequest(t) PROVE calls' = calls
  BY <1>6 DEF EndRequest
<1>7. UNCHANGED vars => calls' = calls
  BY DEF vars
<1> QED
  BY <1>1, <1>2, <1>3, <1>4, <1>5, <1>6, <1>7 DEF Next, Poll

\* A call that goes away takes all calls below it along.
LEMMA SubtreesGo ==
  ASSUME IInv, [Next]_vars, NEW a \in DOMAIN calls, a \notin DOMAIN calls', NEW d \in Below(a)
  PROVE  d \notin DOMAIN calls'
<1>1. d \in DOMAIN calls /\ d[1] = a[1] /\ IsStrictPrefix(a[2], d[2])
  BY DEF Below
<1>2. ASSUME NEW x \in DOMAIN calls, a \in Below(x) PROVE d \in Below(x)
  <2>1. x[1] = a[1] /\ IsStrictPrefix(x[2], a[2])
    BY <1>2 DEF Below
  <2>2. IsStrictPrefix(x[2], d[2])
    BY <1>1, <2>1, PathTyped, PathsNest
  <2> QED
    BY <1>1, <2>1, <2>2 DEF Below
<1>3. ASSUME NEW x \in DOMAIN calls, FinishBuild(x) \/ FailBuild(x)
      PROVE  d \notin DOMAIN calls'
  <2>1. DOMAIN calls' = DOMAIN calls \ Below(x)
    BY <1>3 DEF FinishBuild, FailBuild, Survivors, Restrict
  <2> QED
    BY <1>2, <2>1
<1>4. ASSUME NEW x \in DOMAIN calls, DropCall(x) PROVE d \notin DOMAIN calls'
  <2>1. DOMAIN calls' = DOMAIN calls \ (Below(x) \cup {x})
    BY <1>4 DEF DropCall, Survivors, Abandoned, Restrict
  <2> QED
    BY <1>2, <2>1
<1>5. ASSUME NEW x \in DOMAIN calls,
             \/ \E r \in Request : ResolveDependency(x, r)
             \/ UseValue(x) \/ FindSlot(x) \/ InsertSlot(x) \/ ReuseCell(x) \/ BeginBuild(x)
      PROVE  FALSE
  BY <1>5 DEF ResolveDependency, Spawned, UseValue, FindSlot, InsertSlot, ReuseCell, BeginBuild
<1>6. ASSUME NEW t \in Task, NEW r \in Wanted, Resolve(t, r) PROVE FALSE
  BY <1>6 DEF Resolve, Spawned
<1>7. ASSUME NEW t \in ScopedTask, EndRequest(t) PROVE FALSE
  BY <1>7 DEF EndRequest
<1>8. ~UNCHANGED vars
  BY DEF vars
<1> QED
  BY <1>3, <1>4, <1>5, <1>6, <1>7, <1>8 DEF Next, Poll

LEMMA SupportedStep ==
  ASSUME IInv, Supported, [Next]_vars
  PROVE  Supported'
<1> SUFFICES ASSUME NEW d \in DOMAIN calls', NEW q \in Seq(Request),
                    q # <<>>, IsStrictPrefix(q, d[2])
             PROVE  <<d[1], q>> \in DOMAIN calls'
  BY DEF Supported
<1> DEFINE a == <<d[1], q>>
<1>1. CASE d \in DOMAIN calls
  <2>1. a \in DOMAIN calls
    BY <1>1 DEF Supported
  <2>2. d \in Below(a)
    BY <1>1 DEF Below
  <2> HIDE DEF a
  <2>3. a \in DOMAIN calls'
    BY <2>1, <2>2, SubtreesGo
  <2> QED
    BY <2>3 DEF a
<1>2. CASE d \notin DOMAIN calls
  <2>1. Opens(d) /\ DOMAIN calls' = DOMAIN calls \cup {d}
    BY <1>2, NewCall
  <2>2. CASE \E t \in Task : \E r \in Wanted : d = <<t, <<r>>>>
    BY <2>2, PathsNest, ContainerAssumption
  <2>3. ASSUME NEW p \in DOMAIN calls, calls[p].pc = "build",
               NEW r \in Deps[Entry(p)], d = Child(p, r)
        PROVE  a \in DOMAIN calls
    <3>1. Active(p) /\ p[2] \in Seq(Request) /\ p = <<p[1], p[2]>> /\ Entry(p) \in EntryId
      BY <2>3, ActiveCall, PathTyped DEF Active
    <3>2. d[1] = p[1] /\ d[2] = Append(p[2], r) /\ r \in Request
      BY <2>3, <3>1, ContainerAssumption DEF Child
    <3>3. q = p[2] \/ IsStrictPrefix(q, p[2])
      BY <3>1, <3>2, PathsNest
    <3> QED
      BY <3>1, <3>2, <3>3 DEF Supported
  <2> QED
    BY <2>1, <2>2, <2>3 DEF Opens
<1> QED
  BY <1>1, <1>2

\* A call with calls below it, before and after a step, is not the one that moved.
LEMMA AncestorStays ==
  ASSUME IInv, [Next]_vars, NEW c \in DOMAIN calls, c \in DOMAIN calls',
         NEW d \in Below(c), d \in DOMAIN calls', calls[c].pc = "build"
  PROVE  calls'[c] = calls[c]
<1>1. ASSUME NEW t \in Task, NEW r \in Wanted, Resolve(t, r) PROVE calls'[c] = calls[c]
  BY <1>1 DEF Resolve, Spawned
<1>2. ASSUME NEW x \in DOMAIN calls, NEW r \in Request, ResolveDependency(x, r)
      PROVE  calls'[c] = calls[c]
  BY <1>2 DEF ResolveDependency, Spawned
<1>3. ASSUME NEW x \in DOMAIN calls,
             \/ UseValue(x) \/ FindSlot(x) \/ InsertSlot(x) \/ ReuseCell(x) \/ BeginBuild(x)
      PROVE  calls'[c] = calls[c]
  <2>1. calls[x].pc # "build"
    BY <1>3 DEF UseValue, FindSlot, InsertSlot, ReuseCell, BeginBuild, AtCell
  <2>2. x # c
    BY <2>1
  <2> QED
    BY <1>3, <2>2 DEF UseValue, FindSlot, InsertSlot, ReuseCell, BeginBuild
<1>4. ASSUME NEW x \in DOMAIN calls, FinishBuild(x) \/ FailBuild(x)
      PROVE  calls'[c] = calls[c]
  <2>1. DOMAIN calls' = DOMAIN calls \ Below(x)
    BY <1>4 DEF FinishBuild, FailBuild, Survivors, Restrict
  <2>2. x # c
    BY <2>1
  <2> QED
    BY <1>4, <2>1, <2>2 DEF FinishBuild, FailBuild, Survivors, Restrict
<1>5. ASSUME NEW x \in DOMAIN calls, DropCall(x) PROVE calls'[c] = calls[c]
  BY <1>5 DEF DropCall, Survivors, Restrict
<1>6. ASSUME NEW t \in ScopedTask, EndRequest(t) PROVE calls'[c] = calls[c]
  BY <1>6 DEF EndRequest
<1>7. UNCHANGED vars => calls'[c] = calls[c]
  BY DEF vars
<1> QED
  BY <1>1, <1>2, <1>3, <1>4, <1>5, <1>6, <1>7 DEF Next, Poll

LEMMA DescentStep ==
  ASSUME IInv, NEW rank, RankedBy(rank), Descent(rank), [Next]_vars
  PROVE  Descent(rank)'
<1>1. Supported'
  BY SupportedStep DEF Descent
<1> SUFFICES ASSUME NEW c \in DOMAIN calls', NEW d \in DOMAIN calls',
                    d[1] = c[1], IsStrictPrefix(c[2], d[2])
             PROVE  Descends(rank, c, d)'
  BY <1>1 DEF Descent, Below
<1>2. CASE c \in DOMAIN calls /\ d \in DOMAIN calls
  <2>1. d \in Below(c) /\ Descends(rank, c, d)
    BY <1>2 DEF Below, Descent
  <2>2. calls'[c] = calls[c]
    BY <1>2, <2>1, AncestorStays DEF Descends
  <2> QED
    BY <2>1, <2>2 DEF Descends, Entry
<1>3. CASE d \notin DOMAIN calls
  <2>1. Opens(d) /\ DOMAIN calls' = DOMAIN calls \cup {d}
        /\ \A x \in DOMAIN calls : calls'[x] = calls[x]
    BY <1>3, NewCall
  <2>2. d \in Call /\ d[2] # <<>> /\ d[2] \in Seq(Request)
    BY <2>1, OpensFacts, CallTyped
  <2>3. c \in DOMAIN calls /\ calls'[c] = calls[c] /\ c[2] \in Seq(Request) /\ c[2] # <<>>
    BY <2>1, <2>2, PathsNest, PathTyped
  <2>4. ~\E t \in Task : \E r \in Wanted : d = <<t, <<r>>>>
    BY <2>3, PathsNest, ContainerAssumption
  <2>5. ASSUME NEW p \in DOMAIN calls, calls[p].pc = "build",
               NEW r \in Deps[Entry(p)], d = Child(p, r)
        PROVE  Descends(rank, c, d)
    <3>1. /\ Active(p) /\ p[2] \in Seq(Request) /\ p = <<p[1], p[2]>> /\ Entry(p) \in EntryId
          /\ Registered(ReqOf(p)) /\ calls[p].i \in 1..Len(EntriesOf(ReqOf(p)))
          /\ p \in Call /\ p[2] # <<>> /\ ReqOf(p) \in Request
      BY <2>5, ActiveCall, PathTyped, CallTyped DEF Active
    <3>2. d[1] = p[1] /\ d[2] = Append(p[2], r) /\ r \in Request /\ ReqOf(d) = r
      BY <2>5, <3>1, CallTyped, ContainerAssumption DEF Child
    <3>3. c[2] = p[2] \/ IsStrictPrefix(c[2], p[2])
      BY <2>3, <3>1, <3>2, PathsNest
    <3>4. c = <<c[1], c[2]>>
      BY <2>3, PathTyped
    <3>5. ASSUME Registered(r), NEW j \in DOMAIN EntriesOf(r)
          PROVE  rank[EntriesOf(r)[j]] < rank[Entry(p)] /\ EntriesOf(r)[j] \in EntryId
      BY <3>1, <3>2, <3>5, EntriesTyped DEF RankedBy
    <3>6. CASE c[2] = p[2]
      <4>1. c = p
        BY <3>1, <3>2, <3>4, <3>6
      <4> QED
        BY <2>5, <3>2, <3>5, <4>1 DEF Descends
    <3>7. CASE IsStrictPrefix(c[2], p[2])
      <4>1. Descends(rank, c, p)
        BY <2>3, <3>2, <3>7 DEF Descent, Below
      <4>2. rank[Entry(p)] < rank[Entry(c)]
        <5>1. calls[p].i \in DOMAIN EntriesOf(ReqOf(p))
          BY <3>1, EntriesTyped
        <5> QED
          BY <3>1, <4>1, <5>1 DEF Descends, Entry, EntryAt
      <4>3. Active(c) /\ Entry(c) \in EntryId
        BY <2>3, <4>1, ActiveCall DEF Descends, Active
      <4> QED
        BY <3>1, <3>2, <3>5, <4>1, <4>2, <4>3 DEF Descends, RankedBy
    <3> QED
      BY <3>3, <3>6, <3>7
  <2>6. Descends(rank, c, d)
    <3>1. PICK p \in DOMAIN calls :
            calls[p].pc = "build" /\ \E r \in Deps[Entry(p)] : d = Child(p, r)
      BY <2>1, <2>4 DEF Opens
    <3>2. PICK r \in Deps[Entry(p)] : d = Child(p, r)
      BY <3>1
    <3> QED
      BY <2>5, <3>1, <3>2
  <2> QED
    BY <2>3, <2>6 DEF Descends, Entry
<1>4. CASE c \notin DOMAIN calls /\ d \in DOMAIN calls
  <2>1. c \in Call /\ c[2] # <<>> /\ c[2] \in Seq(Request) /\ c = <<c[1], c[2]>>
    <3>1. Opens(c)
      BY <1>4, NewCall
    <3>2. c \in Call /\ c[2] # <<>>
      BY <3>1, OpensFacts
    <3> QED
      BY <3>2 DEF Call
  <2>2. c \in DOMAIN calls
    BY <1>4, <2>1 DEF Descent, Supported
  <2> QED
    BY <1>4, <2>2
<1> QED
  BY <1>2, <1>3, <1>4

LEMMA DescentInvariance ==
  ASSUME NEW rank, RankedBy(rank)
  PROVE  Spec => [](IInv /\ Descent(rank))
<1>1. Init => Descent(rank)
  BY InitCalls DEF Descent, Supported
<1>2. IInv /\ Descent(rank) /\ [Next]_vars => Descent(rank)'
  BY DescentStep
<1> QED
  BY <1>1, <1>2, Invariance, PTL DEF Spec

\* Waiting goes down the ranks: the calls that wait for each other's permits form
\* no circle.
LEMMA WaitsDescend ==
  ASSUME GroupsAreNamed, IInv, NEW rank, RankedBy(rank), Descent(rank),
         NEW c \in DOMAIN calls, NEW d \in DOMAIN calls, WaitsFor(c, d)
  PROVE  /\ rank[Entry(c)] \in Nat /\ rank[Entry(d)] \in Nat
         /\ rank[Entry(d)] < rank[Entry(c)]
<1> DEFINE h == cells[CellOf(c)].by
<1>1. /\ Active(c) /\ h \in DOMAIN calls /\ calls[h].pc = "build"
      /\ Active(h) /\ Entry(h) = Entry(c)
  BY HolderFacts DEF WaitsFor
<1>2. Active(d) /\ calls[d].pc # "build" /\ h[1] = d[1] /\ IsPrefix(h[2], d[2])
  BY HolderFacts DEF WaitsFor, Waiting, AtCell
<1> HIDE DEF h
<1>3. h # d /\ h = <<h[1], h[2]>> /\ d = <<d[1], d[2]>>
      /\ h[2] \in Seq(Request) /\ d[2] \in Seq(Request)
  BY <1>1, <1>2, PathTyped
<1>4. IsStrictPrefix(h[2], d[2])
  BY <1>2, <1>3, StrictPrefixFacts
<1>5. Descends(rank, h, d)
  BY <1>1, <1>2, <1>4 DEF Descent, Below
<1>6. Registered(ReqOf(d)) /\ calls[d].i \in DOMAIN EntriesOf(ReqOf(d))
  <2>1. /\ Registered(ReqOf(d)) /\ calls[d].i \in 1..Len(EntriesOf(ReqOf(d)))
        /\ ReqOf(d) \in Request
    BY <1>2, ActiveCall, CallTyped
  <2> QED
    BY <2>1, EntriesTyped
<1>7. rank[Entry(d)] < rank[Entry(h)]
  BY <1>5, <1>6 DEF Descends, Entry, EntryAt
<1>8. Entry(c) \in EntryId /\ Entry(d) \in EntryId
  BY <1>1, <1>2, ActiveCall
<1> QED
  BY <1>1, <1>7, <1>8 DEF RankedBy

\* Where no service needs itself, no two calls wait for each other, and none for
\* itself: what the chain of ancestors cannot see across tasks, the cells' waiters
\* do not meet (RESOLVING_STACK and get_or_try_init, container.rs).
THEOREM NobodyWaitsInACircle == Acyclic /\ GroupsAreNamed => (Spec => []NoMutualWait)
<1> SUFFICES ASSUME Acyclic, GroupsAreNamed PROVE Spec => []NoMutualWait
  OBVIOUS
<1>1. PICK rank \in [EntryId -> Nat] : RankedBy(rank)
  BY DEF Acyclic
<1>2. IInv /\ Descent(rank) => NoMutualWait
  <2> SUFFICES ASSUME IInv, Descent(rank),
                      NEW c \in DOMAIN calls, NEW d \in DOMAIN calls,
                      WaitsFor(c, d), WaitsFor(d, c)
               PROVE  FALSE
    BY DEF NoMutualWait
  <2>1. /\ rank[Entry(c)] \in Nat /\ rank[Entry(d)] \in Nat
        /\ rank[Entry(d)] < rank[Entry(c)] /\ rank[Entry(c)] < rank[Entry(d)]
    BY <1>1, WaitsDescend
  <2> QED
    BY <2>1
<1>3. Spec => [](IInv /\ Descent(rank))
  BY <1>1, DescentInvariance
<1> QED
  BY <1>2, <1>3, PTL
==============================================================================
