----------------------------- MODULE ConfigProofs -----------------------------
(***************************************************************************)
(* Proofs about Config, for any files, variables and order of either: what *)
(* is built is a tree, and it is the files overlaid with the variables.    *)
(***************************************************************************)
EXTENDS Config, SequenceTheorems, TLAPS

TreePath == Seq(STRING) \ {<<>>}

\* What is read of the files so far, unchanged, in the tree.
Merged ==
  /\ unread \subseteq Section
  /\ \A s \in Section \ unread : \A p \in DOMAIN Files[s] : p \in DOMAIN root
  /\ \A p \in DOMAIN root : /\ p[1] \in Section \ unread /\ p \in DOMAIN Files[p[1]]
                           /\ root[p] = Files[p[1]][p]

\* The variables that are written over them already.
Written == Overrides \ unread

\* The node is as its variable, the variables below it, or its file want it.
NodeOK(p) ==
  \/ \E x \in Written : Path[x] = p
  \/ root[p] = Table /\ \E x \in Written : StrictlyAbove(p, Path[x])
  \/ /\ \A x \in Written : ~Below(Path[x], p) /\ ~StrictlyAbove(p, Path[x])
     /\ p[1] \in Section /\ p \in DOMAIN Files[p[1]] /\ root[p] = Files[p[1]][p]

Overlaid ==
  /\ \A x \in Written : Path[x] \in DOMAIN root /\ root[Path[x]] = Env[x]
  /\ \A p \in DOMAIN root : NodeOK(p)
  /\ \A s \in Section : \A p \in DOMAIN Files[s] :
       (\A x \in Written : ~Below(Path[x], p)) => p \in DOMAIN root

\* The inductive invariant: of the tree alone, then of what it says.
Shaped ==
  /\ pc \in {"files", "variables", "loaded", "failed"}
  /\ given \in Environments
  /\ DOMAIN root \subseteq TreePath
  /\ IsTree(root)
  /\ pc = "files" => Merged

Told ==
  /\ pc \in {"variables", "loaded"} /\ Apart => Overlaid
  /\ pc = "variables" => unread \subseteq DOMAIN Env
  /\ pc = "loaded" => unread = {}

\* The nodes above a path.
Nodes(p) == {SubSeq(p, 1, n) : n \in 1 .. Len(p) - 1}

-----------------------------------------------------------------------------
(***************************************************************************)
(* Prefixes.                                                               *)
(***************************************************************************)
LEMMA PrefixShape ==
  ASSUME NEW p \in TreePath, NEW n \in 1 .. Len(p)
  PROVE  /\ SubSeq(p, 1, n) \in TreePath /\ Len(SubSeq(p, 1, n)) = n
         /\ \A i \in 1 .. n : SubSeq(p, 1, n)[i] = p[i]
<1>1. \A i \in 1 .. n : p[i] \in STRING
  BY DEF TreePath
<1>2. n \in Int /\ 1 <= n
  OBVIOUS
<1>3. /\ SubSeq(p, 1, n) \in Seq(STRING) /\ Len(SubSeq(p, 1, n)) = n
      /\ \A i \in 1 .. n : SubSeq(p, 1, n)[i] = p[i]
  BY <1>1, <1>2, SubSeqProperties
<1> QED
  BY <1>2, <1>3 DEF TreePath

\* A prefix agrees with the path in every place.
LEMMA PrefixMeaning ==
  ASSUME NEW p \in TreePath, NEW q \in TreePath
  PROVE  IsPrefix(p, q) <=> Len(p) <= Len(q) /\ \A i \in 1 .. Len(p) : p[i] = q[i]
<1>1. Len(p) \in Nat \ {0} /\ Len(q) \in Nat \ {0}
  BY DEF TreePath
<1>2. CASE Len(p) <= Len(q)
  <2>1. Len(p) \in 1 .. Len(p) /\ Len(p) \in 1 .. Len(q)
    BY <1>1, <1>2
  <2> DEFINE a == SubSeq(p, 1, Len(p))
             b == SubSeq(q, 1, Len(p))
  <2>2. /\ a \in TreePath /\ Len(a) = Len(p) /\ \A i \in 1 .. Len(p) : a[i] = p[i]
        /\ b \in TreePath /\ Len(b) = Len(p) /\ \A i \in 1 .. Len(p) : b[i] = q[i]
    BY <2>1, PrefixShape
  <2> HIDE DEF a, b
  <2>3. a = b <=> \A i \in 1 .. Len(p) : a[i] = b[i]
    BY <2>2 DEF TreePath
  <2> QED
    BY <1>2, <2>2, <2>3 DEF IsPrefix, a, b
<1>3. CASE ~(Len(p) <= Len(q))
  BY <1>3 DEF IsPrefix
<1> QED
  BY <1>2, <1>3

LEMMA SamePath ==
  ASSUME NEW p \in TreePath, NEW q \in TreePath, Len(p) = Len(q),
         \A i \in 1 .. Len(p) : p[i] = q[i]
  PROVE  p = q
  BY DEF TreePath

LEMMA NodesArePaths ==
  ASSUME NEW p \in TreePath, NEW q \in Nodes(p)
  PROVE  q \in TreePath
<1>1. Len(p) \in Nat \ {0}
  BY DEF TreePath
<1>2. PICK n \in 1 .. Len(p) - 1 : q = SubSeq(p, 1, n)
  BY DEF Nodes
<1>3. n \in 1 .. Len(p)
  BY <1>1
<1> QED
  BY <1>2, <1>3, PrefixShape

\* What is strictly above a path are its nodes.
LEMMA NodesAreAbove ==
  ASSUME NEW p \in TreePath, NEW q \in TreePath
  PROVE  q \in Nodes(p) <=> StrictlyAbove(q, p)
<1>1. Len(p) \in Nat \ {0} /\ Len(q) \in Nat \ {0}
  BY DEF TreePath
<1>2. ASSUME NEW n \in 1 .. Len(p) - 1, q = SubSeq(p, 1, n) PROVE StrictlyAbove(q, p)
  <2>1. n \in 1 .. Len(p)
    BY <1>1
  <2>2. Len(q) = n /\ \A i \in 1 .. n : q[i] = p[i]
    BY <1>2, <2>1, PrefixShape
  <2>3. IsPrefix(q, p)
    BY <1>1, <2>1, <2>2, PrefixMeaning
  <2>4. q # p
    BY <1>1, <2>2
  <2> QED
    BY <2>3, <2>4 DEF StrictlyAbove, IsStrictPrefix
<1>3. ASSUME StrictlyAbove(q, p) PROVE q \in Nodes(p)
  <2>1. Len(q) <= Len(p) /\ q # p /\ \A i \in 1 .. Len(q) : q[i] = p[i]
    BY <1>3, PrefixMeaning DEF StrictlyAbove, IsStrictPrefix
  <2>2. Len(q) # Len(p)
    BY <2>1, SamePath
  <2>3. Len(q) \in 1 .. Len(p) - 1 /\ Len(q) \in 1 .. Len(p)
    BY <1>1, <2>1, <2>2
  <2>4. /\ SubSeq(p, 1, Len(q)) \in TreePath /\ Len(SubSeq(p, 1, Len(q))) = Len(q)
        /\ \A i \in 1 .. Len(q) : SubSeq(p, 1, Len(q))[i] = p[i]
    BY <2>3, PrefixShape
  <2>5. q = SubSeq(p, 1, Len(q))
    BY <2>1, <2>4, SamePath
  <2> QED
    BY <2>3, <2>5 DEF Nodes
<1> QED
  BY <1>2, <1>3 DEF Nodes

LEMMA PrefixTransitive ==
  ASSUME NEW p \in TreePath, NEW q \in TreePath, NEW r \in TreePath, IsPrefix(p, q), IsPrefix(q, r)
  PROVE  IsPrefix(p, r) /\ p[1] = q[1] /\ (p = r => p = q)
<1>1. Len(p) \in Nat \ {0} /\ Len(q) \in Nat \ {0} /\ Len(r) \in Nat \ {0}
  BY DEF TreePath
<1>2. /\ Len(p) <= Len(q) /\ \A i \in 1 .. Len(p) : p[i] = q[i]
      /\ Len(q) <= Len(r) /\ \A i \in 1 .. Len(q) : q[i] = r[i]
  BY PrefixMeaning
<1>3. IsPrefix(p, r)
  BY <1>1, <1>2, PrefixMeaning
<1>4. p = r => p = q
  BY <1>1, <1>2, SamePath
<1> QED
  BY <1>1, <1>2, <1>3, <1>4

\* A tree, said with the paths above.
LEMMA TreeMeaning ==
  ASSUME NEW t, DOMAIN t \subseteq TreePath
  PROVE  IsTree(t) <=>
           \A p \in DOMAIN t : \A q \in Nodes(p) : q \in DOMAIN t /\ t[q] = Table
  BY DEF IsTree, Nodes

LEMMA PathsAreTyped ==
  /\ \A x \in DOMAIN Path : Path[x] \in TreePath
  /\ \A s \in Section : /\ IsTree(Files[s]) /\ DOMAIN Files[s] \subseteq TreePath
                        /\ \A p \in DOMAIN Files[s] : p[1] = s
  BY ConfigAssumption DEF TreePath
-----------------------------------------------------------------------------
(***************************************************************************)
(* set_path: what it leaves of a tree and what it makes.                   *)
(***************************************************************************)
LEMMA SetPathMeaning ==
  ASSUME NEW t, NEW p, NEW v
  PROVE  SetPath(t, p, v) = [q \in Displaced(t, p) \cup Nodes(p) \cup {p} |->
                               IF q = p THEN v
                               ELSE IF q \in Displaced(t, p) THEN t[q] ELSE Table]
BY DEF SetPath, Nodes

LEMMA SetPathParts ==
  ASSUME NEW t, DOMAIN t \subseteq TreePath, NEW p \in TreePath
  PROVE  /\ \A q \in Displaced(t, p) : q \in DOMAIN t /\ q # p
         /\ \A q \in Nodes(p) : q \in TreePath /\ q # p /\ q \notin Displaced(t, p)
<1>1. \A q \in Nodes(p) : q \in TreePath /\ StrictlyAbove(q, p)
  BY NodesArePaths, NodesAreAbove
<1>2. IsPrefix(p, p)
  BY PrefixMeaning
<1> QED
  BY <1>1, <1>2 DEF StrictlyAbove, IsStrictPrefix, Displaced, Below

LEMMA SetPathIsTree ==
  ASSUME NEW t, DOMAIN t \subseteq TreePath, IsTree(t), NEW p \in TreePath, NEW v
  PROVE  DOMAIN SetPath(t, p, v) \subseteq TreePath /\ IsTree(SetPath(t, p, v))
<1> DEFINE u == SetPath(t, p, v)
<1>1. /\ DOMAIN u = Displaced(t, p) \cup Nodes(p) \cup {p}
      /\ \A q \in Displaced(t, p) : u[q] = t[q]
      /\ \A q \in Nodes(p) : q \in TreePath /\ u[q] = Table
  BY SetPathMeaning, SetPathParts
<1> HIDE DEF u
<1>2. DOMAIN u \subseteq TreePath
  BY <1>1 DEF Displaced
<1>3. ASSUME NEW q \in DOMAIN u, NEW r \in Nodes(q) PROVE r \in DOMAIN u /\ u[r] = Table
  <2>1. q \in TreePath /\ r \in TreePath /\ StrictlyAbove(r, q)
    <3>1. q \in TreePath
      BY <1>2
    <3>2. r \in TreePath
      BY <3>1, NodesArePaths
    <3> QED
      BY <3>1, <3>2, NodesAreAbove
  <2>2. CASE q = p
    BY <1>1, <2>2
  <2>3. CASE q \in Nodes(p)
    <3>1. StrictlyAbove(q, p)
      BY <2>1, <2>3, NodesAreAbove
    <3>2. StrictlyAbove(r, p)
      BY <2>1, <3>1, PrefixTransitive DEF StrictlyAbove, IsStrictPrefix
    <3>3. r \in Nodes(p)
      BY <2>1, <3>2, NodesAreAbove
    <3> QED
      BY <1>1, <3>3
  <2>4. CASE q \in Displaced(t, p)
    <3>1. q \in DOMAIN t /\ ~IsPrefix(p, q)
      BY <2>4 DEF Displaced, Below
    <3>2. r \in DOMAIN t /\ t[r] = Table
      BY <3>1, TreeMeaning
    <3>3. ~IsPrefix(p, r)
      BY <2>1, <3>1, PrefixTransitive DEF StrictlyAbove, IsStrictPrefix
    <3>4. CASE StrictlyAbove(r, p)
      <4>1. r \in Nodes(p)
        BY <2>1, <3>4, NodesAreAbove
      <4> QED
        BY <1>1, <4>1
    <3>5. CASE ~StrictlyAbove(r, p)
      <4>1. r \in Displaced(t, p)
        BY <3>2, <3>3, <3>5 DEF Displaced, Below
      <4> QED
        BY <1>1, <3>2, <4>1
    <3> QED
      BY <3>4, <3>5
  <2> QED
    BY <1>1, <2>2, <2>3, <2>4
<1>4. IsTree(u)
  BY <1>2, <1>3, TreeMeaning
<1> QED
  BY <1>2, <1>4 DEF u

-----------------------------------------------------------------------------
(***************************************************************************)
(* The tree.                                                               *)
(***************************************************************************)
LEMMA InitShaped == Init => Shaped
<1> SUFFICES ASSUME Init PROVE Shaped
  OBVIOUS
<1>1. DOMAIN root = {}
  BY DEF Init
<1>2. Merged
  BY <1>1 DEF Init, Merged
<1> QED
  BY <1>1, <1>2 DEF Init, Shaped, IsTree

\* A file adds the nodes of its section, which no other file has.
LEMMA ReadFileShaped ==
  ASSUME Shaped, NEW s \in Section, ReadFile(s)
  PROVE  Shaped'
<1>1. CASE pc' = "failed" /\ UNCHANGED <<unread, root>>
  BY <1>1 DEF Shaped, ReadFile, IsTree
<1>2. CASE /\ root' = [p \in DOMAIN root \cup DOMAIN Files[s] |->
                         IF p \in DOMAIN root THEN root[p] ELSE Files[s][p]]
           /\ unread' = unread \ {s}
           /\ UNCHANGED pc
  <2>1. pc = "files" /\ s \in unread /\ given' = given /\ Merged
    BY DEF ReadFile, Shaped
  <2>2. \A p \in DOMAIN Files[s] : p \notin DOMAIN root /\ p[1] = s
    BY <2>1, PathsAreTyped DEF Merged
  <2>3. /\ DOMAIN root' = DOMAIN root \cup DOMAIN Files[s]
        /\ \A p \in DOMAIN root : root'[p] = root[p]
        /\ \A p \in DOMAIN Files[s] : root'[p] = Files[s][p]
    BY <1>2, <2>2
  <2>4. DOMAIN root' \subseteq TreePath
    BY <2>3, PathsAreTyped DEF Shaped
  <2>5. IsTree(root')
    <3>1. ASSUME NEW p \in DOMAIN root', NEW q \in Nodes(p)
          PROVE  q \in DOMAIN root' /\ root'[q] = Table
      <4>1. CASE p \in DOMAIN root
        <5>1. q \in DOMAIN root /\ root[q] = Table
          BY <4>1, TreeMeaning DEF Shaped
        <5> QED
          BY <2>3, <5>1
      <4>2. CASE p \in DOMAIN Files[s]
        <5>1. q \in DOMAIN Files[s] /\ Files[s][q] = Table
          BY <4>2, PathsAreTyped, TreeMeaning
        <5> QED
          BY <2>3, <5>1
      <4> QED
        BY <2>3, <4>1, <4>2
    <3> QED
      BY <2>4, <3>1, TreeMeaning
  <2>6. Merged'
    <3>1. unread' \subseteq Section /\ Section \ unread' = (Section \ unread) \cup {s}
      BY <1>2, <2>1 DEF Merged
    <3>2. \A r \in Section \ unread' : \A p \in DOMAIN Files[r] : p \in DOMAIN root'
      BY <2>1, <2>3, <3>1 DEF Merged
    <3>3. ASSUME NEW p \in DOMAIN root'
          PROVE  /\ p[1] \in Section \ unread' /\ p \in DOMAIN Files[p[1]]
                 /\ root'[p] = Files[p[1]][p]
      BY <2>1, <2>2, <2>3, <3>1 DEF Merged
    <3> QED
      BY <3>1, <3>2, <3>3 DEF Merged
  <2> QED
    BY <1>2, <2>1, <2>4, <2>5, <2>6 DEF Shaped
<1> QED
  BY <1>1, <1>2 DEF ReadFile

LEMMA StepShaped == Shaped /\ [Next]_vars => Shaped'
<1> SUFFICES ASSUME Shaped, [Next]_vars PROVE Shaped'
  OBVIOUS
<1>1. ASSUME NEW s \in Section, ReadFile(s) PROVE Shaped'
  BY <1>1, ReadFileShaped
<1>2. CASE BeginOverrides
  BY <1>2 DEF BeginOverrides, Shaped, IsTree
<1>3. ASSUME NEW x \in DOMAIN Path, Override(x) PROVE Shaped'
  <2>1. pc' = "variables" /\ given' = given
    BY <1>3 DEF Override
  <2>2. CASE Known(x)
    <3>1. root' = SetPath(root, Path[x], Env[x])
      BY <1>3, <2>2 DEF Override
    <3> QED
      BY <2>1, <3>1, SetPathIsTree, PathsAreTyped DEF Shaped
  <2>3. CASE ~Known(x)
    BY <1>3, <2>1, <2>3 DEF Override, Shaped, IsTree
  <2> QED
    BY <2>2, <2>3
<1>4. CASE Install
  BY <1>4 DEF Install, Shaped, IsTree
<1>5. ASSUME NEW s \in DOMAIN Schema, ReadSection(s) PROVE Shaped'
  BY <1>5 DEF ReadSection, Shaped, IsTree
<1>6. CASE UNCHANGED vars
  BY <1>6 DEF vars, Shaped, IsTree, Merged
<1> QED
  BY <1>1, <1>2, <1>3, <1>4, <1>5, <1>6 DEF Next

\* What look-ups walk is a tree, however files and variables clash
\* (Config::load, set_path).
THEOREM RootIsATree == Spec => []StaysATree
<1>1. Shaped => StaysATree
  BY DEF Shaped, StaysATree
<1> QED
  BY <1>1, InitShaped, StepShaped, PTL DEF Spec

-----------------------------------------------------------------------------
(***************************************************************************)
(* What the tree says.                                                     *)
(***************************************************************************)
LEMMA InitTold == Init => Told
  BY DEF Init, Told

\* One variable more, which meets none of those before.
LEMMA OverrideTold ==
  ASSUME Shaped, Told, NEW x \in DOMAIN Path, Override(x)
  PROVE  Told'
<1>1. /\ pc = "variables" /\ pc' = "variables" /\ x \in unread /\ given' = given
      /\ unread' = unread \ {x}
  BY DEF Override
<1>2. /\ Env' = Env /\ Overrides' = Overrides /\ Apart' = Apart
  BY <1>1 DEF Env, Overrides, Apart
<1> SUFFICES ASSUME Apart PROVE Overlaid'
  BY <1>1, <1>2 DEF Told
<1>0. x \in DOMAIN Env
  BY <1>1 DEF Told
<1>3. Overlaid
  BY <1>1 DEF Told
<1>4. /\ \A y \in DOMAIN Env : y \in DOMAIN Path
      /\ Written \subseteq Overrides /\ x \notin Written
      /\ \A y \in Overrides : y \in DOMAIN Env /\ Path[y] \in TreePath
  <2>1. \A y \in DOMAIN Env : y \in DOMAIN Path
    BY ConfigAssumption DEF Env, Environment, Shaped
  <2> QED
    BY <1>1, <2>1, PathsAreTyped DEF Written, Overrides
<1>5. CASE x \notin Overrides
  <2>1. root' = root /\ Written' = Written
    <3>1. root' = root
      <4>1. CASE Known(x)
          BY <1>0, <1>5, <4>1 DEF Overrides
      <4> QED
        BY <4>1 DEF Override
    <3> QED
      BY <1>1, <1>2, <1>5, <3>1 DEF Written
  <2> QED
    BY <1>2, <1>3, <2>1 DEF Overlaid, NodeOK
<1>6. CASE x \in Overrides
  <2> DEFINE p == Path[x]
  <2>1. root' = SetPath(root, p, Env[x]) /\ p \in TreePath /\ Written' = Written \cup {x}
    <3>1. Known(x) /\ p \in TreePath
      BY <1>4, <1>6 DEF Overrides
    <3>2. root' = SetPath(root, p, Env[x])
      BY <3>1 DEF Override
    <3>3. Written' = Written \cup {x}
      BY <1>1, <1>2, <1>6 DEF Written
    <3> QED
      BY <3>1, <3>2, <3>3
  <2>2. /\ DOMAIN root' = Displaced(root, p) \cup Nodes(p) \cup {p}
        /\ root'[p] = Env[x]
        /\ \A q \in Displaced(root, p) : q \in DOMAIN root /\ root'[q] = root[q]
        /\ \A q \in Nodes(p) : q \in TreePath /\ root'[q] = Table
    <3>1. DOMAIN root \subseteq TreePath
      BY DEF Shaped
    <3>2. root' = [q \in Displaced(root, p) \cup Nodes(p) \cup {p} |->
                     IF q = p THEN Env[x]
                     ELSE IF q \in Displaced(root, p) THEN root[q] ELSE Table]
      BY <2>1, SetPathMeaning
    <3> QED
      BY <2>1, <3>1, <3>2, SetPathParts
  <2>3. \A y \in Written : ~Below(p, Path[y]) /\ ~Below(Path[y], p)
    BY <1>4, <1>6 DEF Apart, Clash
  <2>4. \A y \in Written' : Path[y] \in DOMAIN root' /\ root'[Path[y]] = Env'[y]
    <3>1. ASSUME NEW y \in Written PROVE Path[y] \in DOMAIN root' /\ root'[Path[y]] = Env[y]
      <4>1. Path[y] \in DOMAIN root /\ root[Path[y]] = Env[y]
        BY <1>3 DEF Overlaid
      <4>2. Path[y] \in Displaced(root, p)
        BY <2>3, <4>1 DEF Displaced, StrictlyAbove, IsStrictPrefix, Below
      <4> QED
        BY <2>2, <4>1, <4>2
    <3> QED
      BY <1>2, <2>1, <2>2, <3>1
  <2>5. ASSUME NEW q \in DOMAIN root' PROVE NodeOK(q)'
    <3>1. CASE q = p
      BY <2>1, <3>1 DEF NodeOK
    <3>2. CASE q \in Nodes(p)
      <4>1. StrictlyAbove(q, p) /\ root'[q] = Table
        BY <2>1, <2>2, <3>2, NodesAreAbove
      <4> QED
        BY <2>1, <4>1 DEF NodeOK
    <3>3. CASE q \in Displaced(root, p)
      <4>1. NodeOK(q) /\ root'[q] = root[q]
        BY <1>3, <2>2, <3>3 DEF Overlaid
      <4>2. ~Below(p, q) /\ ~StrictlyAbove(q, p)
        BY <3>3 DEF Displaced
      <4> QED
        BY <2>1, <4>1, <4>2 DEF NodeOK
    <3> QED
      BY <2>2, <3>1, <3>2, <3>3
  <2>6. ASSUME NEW s \in Section, NEW q \in DOMAIN Files[s],
               \A y \in Written' : ~Below(Path[y], q)
        PROVE  q \in DOMAIN root'
    <3>1. q \in DOMAIN root /\ ~Below(p, q)
      BY <1>3, <2>1, <2>6 DEF Overlaid
    <3>2. CASE StrictlyAbove(q, p)
      BY <2>1, <2>2, <3>2, NodesAreAbove, PathsAreTyped
    <3>3. CASE ~StrictlyAbove(q, p)
      BY <2>2, <3>1, <3>3 DEF Displaced
    <3> QED
      BY <3>2, <3>3
  <2> QED
    BY <2>4, <2>5, <2>6 DEF Overlaid
<1> QED
  BY <1>5, <1>6

\* The files alone are what no variable has been written over yet.
LEMMA BeginTold ==
  ASSUME Shaped, BeginOverrides
  PROVE  Told'
<1>1. /\ Merged /\ unread = {} /\ root' = root /\ pc' = "variables"
      /\ given' = given /\ unread' = DOMAIN Env
  BY DEF BeginOverrides, Shaped
<1>2. Env' = Env /\ Overrides' = Overrides
  BY <1>1 DEF Env, Overrides
<1>3. Written' = {}
  BY <1>1, <1>2 DEF Written, Overrides
<1>4. Overlaid'
  BY <1>1, <1>3 DEF Overlaid, NodeOK, Merged
<1> QED
  BY <1>1, <1>2, <1>4 DEF Told

LEMMA StepTold == Shaped /\ Told /\ [Next]_vars => Told'
<1> SUFFICES ASSUME Shaped, Told, [Next]_vars PROVE Told'
  OBVIOUS
<1>1. ASSUME NEW s \in Section, ReadFile(s) PROVE Told'
  BY <1>1 DEF ReadFile, Told
<1>2. CASE BeginOverrides
  BY <1>2, BeginTold
<1>3. ASSUME NEW x \in DOMAIN Path, Override(x) PROVE Told'
  BY <1>3, OverrideTold
<1>4. ASSUME UNCHANGED <<given, unread, root>>, pc' \in {pc, "loaded"},
             pc' # pc => pc = "variables" /\ unread = {}
      PROVE  Told'
  <2>1. /\ Env' = Env /\ Overrides' = Overrides /\ Apart' = Apart /\ Written' = Written
    BY <1>4 DEF Env, Overrides, Apart, Written
  <2>2. Overlaid => Overlaid'
    BY <1>4, <2>1 DEF Overlaid, NodeOK
  <2> QED
    BY <1>4, <2>1, <2>2 DEF Told
<1>5. CASE Install
  BY <1>4, <1>5 DEF Install
<1>6. ASSUME NEW s \in DOMAIN Schema, ReadSection(s) PROVE Told'
  BY <1>4, <1>6 DEF ReadSection
<1>7. CASE UNCHANGED vars
  BY <1>4, <1>7 DEF vars
<1> QED
  BY <1>1, <1>2, <1>3, <1>5, <1>6, <1>7 DEF Next

\* The tree that is installed is the files overlaid with the variables, node by
\* node, whatever the order of either, unless two variables meet (Config::load).
THEOREM LoadsTheOverlay == Spec => []LoadedIsOverlay
<1>1. Shaped /\ Told => LoadedIsOverlay
  <2> SUFFICES ASSUME Shaped, Told, pc = "loaded", Apart PROVE LoadedIsOverlay
    BY DEF LoadedIsOverlay
  <2>1. Overlaid /\ Written = Overrides
    BY DEF Told, Written
  <2>2. \A x \in Overrides : Env[x] = Wanted(x)
    BY DEF Overrides, Env, Environment, Wanted, Process, DotEnv
  <2>3. \A x \in Overrides : Path[x] \in DOMAIN root /\ root[Path[x]] = Wanted(x)
    BY <2>1, <2>2 DEF Overlaid
  <2>4. ASSUME NEW p \in DOMAIN root
        PROVE  \/ \E x \in Overrides : Path[x] = p
               \/ Under(p) # {} /\ root[p] = Table
               \/ /\ Above(p) = {} /\ Under(p) = {} /\ p # <<>>
                  /\ p[1] \in Section /\ p \in DOMAIN Files[p[1]] /\ root[p] = Files[p[1]][p]
    <3>1. NodeOK(p) /\ p # <<>>
      BY <2>1 DEF Overlaid, Shaped, TreePath
    <3> QED
      BY <2>1, <3>1 DEF NodeOK, Above, Under
  <2>5. ASSUME NEW s \in Section, NEW p \in DOMAIN Files[s], Above(p) = {}
        PROVE  p \in DOMAIN root
    BY <2>1, <2>5 DEF Overlaid, Above
  <2> QED
    BY <2>3, <2>4, <2>5 DEF LoadedIsOverlay
<1> QED
  BY <1>1, InitShaped, StepShaped, InitTold, StepTold, PTL DEF Spec
=============================================================================
