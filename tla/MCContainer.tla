----------------------------- MODULE MCContainer -----------------------------
(***************************************************************************)
(* Small applications for Container: what a provider registers, in order.  *)
(* Each cfg picks one by name.                                             *)
(***************************************************************************)
EXTENDS ContainerBuilder

CONSTANT Application   \* the name of one of the Applications

Key(type, tag) == [type |-> type, tag |-> tag]
One(type)      == [kind |-> "one", key |-> Key(type, None)]
Tagged(type, tag) == [kind |-> "one", key |-> Key(type, tag)]
All(type)      == [kind |-> "all", key |-> Key(type, None)]
AllOf(type, group) == [kind |-> "all", key |-> Key(type, group)]

Applications ==
  [ \* a needs b and c, which share d; d may fail, and is replaced by a later
    \* registration of the same key; e and f form a cycle with one way in, and
    \* f also needs a scoped service
    diamond |->
      [regs |-> << Bind("A", None, "a", "singleton", {One("B"), One("C")}),
                   Bind("B", None, "b", "singleton", {One("D")}),
                   Bind("C", None, "c", "singleton", {One("D")}),
                   Bind("D", None, "old", "value", {}),
                   Bind("D", None, "d", "singleton", {}),
                   Bind("E", None, "e", "singleton", {One("F")}),
                   Bind("F", None, "f", "transient", {One("E"), One("G")}),
                   Bind("G", None, "g", "scoped", {}) >>,
       fallible |-> {"d"}, wanted |-> {One("A"), One("E")}],
    \* a handler joins a scoped service and a group; two members are scoped,
    \* one of them needs that service, the other another group; the service
    \* replaces an earlier registration of its key
    requests |->
      [regs |-> << Bind("A", None, "a", "transient", {One("C"), All("D")}),
                   Bind("C", None, "old", "value", {}),
                   Bind("C", None, "c", "scoped", {}),
                   Multibind("D", None, "v", "value", {}),
                   Multibind("D", None, "s", "scoped", {One("C")}),
                   Multibind("D", "x", "t", "singleton", {All("B")}),
                   Multibind("D", None, "n", "scoped", {AllOf("D", "x")}) >>,
       fallible |-> {"c", "t"}, wanted |-> {One("A"), One("B")}],
    \* two singletons that need each other
    pair |->
      [regs |-> << Bind("A", None, "a", "singleton", {One("B")}),
                   Bind("B", None, "b", "singleton", {One("A")}) >>,
       fallible |-> {}, wanted |-> {One("A"), One("B")}],
    \* a composite: the default A is made of all the multibound As
    composite |->
      [regs |-> << Bind("A", None, "a", "singleton", {All("A")}),
                   Multibind("A", None, "x", "value", {}),
                   Multibind("A", None, "y", "singleton", {One("B")}),
                   Bind("B", None, "b", "scoped", {}) >>,
       fallible |-> {}, wanted |-> {One("A"), All("A")}] ]

App == Applications[Application]
RegOf(e) == CHOOSE r \in Range(App.regs) : r.entry = e

MCRegs      == App.regs
MCTypes     == {"A", "B", "C", "D", "E", "F", "G"}
MCTags      == {"x"}
MCEntryId   == {App.regs[i].entry : i \in DOMAIN App.regs}
MCLifecycle == [e \in MCEntryId |-> RegOf(e).life]
MCSingular  == BuildEntries(MCRegs)
MCGroups    == BuildGroups(MCRegs)
MCDeps      == [e \in MCEntryId |-> RegOf(e).deps]
MCFallible  == App.fallible
MCWanted    == App.wanted
=============================================================================
