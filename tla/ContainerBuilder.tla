-------------------------- MODULE ContainerBuilder --------------------------
(***************************************************************************)
(* What ContainerBuilder::build makes of the calls that preceded it        *)
(* (src/framework/di/builder.rs), and the Container that resolves from it. *)
(* A registration is a record                                              *)
(*                                                                         *)
(*    [multi, key, entry, life, deps]                                      *)
(*                                                                         *)
(* where multi says whether it came from a multibind* method, life is the  *)
(* variant of Entry and deps are the requests its factory makes.  The      *)
(* builder only appends; build freezes the registrations into the two maps *)
(* that Container resolves from.  No factory runs here.                    *)
(***************************************************************************)
EXTENDS Container, FiniteSetsExt

CONSTANT Regs   \* the registrations, in the order of the builder's calls

\* singleton, singleton_factory, transient, scoped and their _tagged forms.
Bind(type, tag, entry, life, deps) ==
  [multi |-> FALSE, key |-> [type |-> type, tag |-> tag],
   entry |-> entry, life |-> life, deps |-> deps]

\* multibind, multibind_factory, multibind_transient, multibind_scoped and
\* their _group forms.
Multibind(type, group, entry, life, deps) ==
  [multi |-> TRUE, key |-> [type |-> type, tag |-> group],
   entry |-> entry, life |-> life, deps |-> deps]

\* The places of a key in the two Vecs.
Bound(regs, k)      == {i \in DOMAIN regs : ~regs[i].multi /\ regs[i].key = k}
Multibound(regs, k) == {i \in DOMAIN regs : regs[i].multi /\ regs[i].key = k}

\* The entries Vec is collected into a HashMap: a later singular
\* registration of a key replaces an earlier one.
BuildEntries(regs) ==
  [k \in {regs[i].key : i \in {j \in DOMAIN regs : ~regs[j].multi}} |->
     regs[Max(Bound(regs, k))].entry]

\* The n-th of some places to be pushed.
Pushed(places, n) == CHOOSE i \in places : Cardinality({j \in places : j <= i}) = n

\* Mutant of BuildGroups: the latest registration comes first.
LatestFirst(regs) ==
  [k \in {regs[i].key : i \in {j \in DOMAIN regs : regs[j].multi}} |->
     LET members == Multibound(regs, k)
     IN  [n \in 1 .. Cardinality(members) |->
            regs[Pushed(members, Cardinality(members) + 1 - n)].entry]]

\* Multibindings are pushed, in registration order, onto their key's Vec.
BuildGroups(regs) ==
  [k \in {regs[i].key : i \in {j \in DOMAIN regs : regs[j].multi}} |->
     LET members == Multibound(regs, k)
     IN  [n \in 1 .. Cardinality(members) |-> regs[Pushed(members, n)].entry]]

\* Every registration is an entry of its own, and the container is the built one.
ASSUME BuilderAssumption ==
  /\ Regs \in Seq([multi : BOOLEAN, key : ServiceKey, entry : EntryId,
                   life : {"value", "singleton", "transient", "scoped"},
                   deps : SUBSET Request])
  /\ \A i, j \in DOMAIN Regs : Regs[i].entry = Regs[j].entry => i = j
  /\ \A i \in DOMAIN Regs : /\ Lifecycle[Regs[i].entry] = Regs[i].life
                            /\ Deps[Regs[i].entry] = Regs[i].deps
  /\ Singular = BuildEntries(Regs) /\ Groups = BuildGroups(Regs)

\* "What resolve returns is what was registered": the last singular
\* registration of a key wins, group members come in the order of their
\* registration (builder.rs, ContainerBuilder::build), told from the list of
\* registrations itself.
RegistrationsAreHonoured ==
  \A c \in DOMAIN calls : calls[c].pc = "done" =>
    LET r == ReqOf(c)
        mine == {i \in DOMAIN Regs : Regs[i].key = r.key /\ Regs[i].multi = (r.kind = "all")}
        gave(k) == CHOOSE i \in mine : Regs[i].entry = calls[c].got[k][1]
        places  == [k \in DOMAIN calls[c].got |-> gave(k)]
    IN  IF r.kind = "one"
        THEN \A i \in mine : i <= places[1]
        ELSE /\ Range(places) = mine
             /\ \A j, k \in DOMAIN places : j < k => places[j] < places[k]
=============================================================================
