------------------------------ MODULE BuildOnce ------------------------------
(***************************************************************************)
(* What the container's caches promise, with the way they are built left   *)
(* out.  A cell (the process-wide one of a singleton, or the slot of a     *)
(* scoped registration in one request) is published at most once while it  *)
(* exists, and whoever holds a value obtained through a cell holds the     *)
(* published one.  A cell disappears only when nobody holds its value      *)
(* through it.                                                             *)
(***************************************************************************)
EXTENDS FiniteSets

CONSTANT None        \* the content of a cell that is not published yet

VARIABLES value,     \* value[a]: what cell a holds; DOMAIN value: the cells
          held       \* triples <<client, cell, value>> in somebody's hands

onceVars == <<value, held>>

Init ==
  /\ \A a \in DOMAIN value : value[a] = None
  /\ held = {}

\* Cells come into being empty; existing ones are untouched.
Open ==
  /\ DOMAIN value \subseteq DOMAIN value'
  /\ \A a \in DOMAIN value' :
        value'[a] = IF a \in DOMAIN value THEN value[a] ELSE None
  /\ held' = held

\* The initializer publishes and leaves with the value; any holder may let
\* go of what it holds at the same moment.
Publish ==
  \E a \in DOMAIN value :
    /\ value[a] = None
    /\ DOMAIN value' = DOMAIN value
    /\ value'[a] # None
    /\ \A b \in DOMAIN value \ {a} : value'[b] = value[b]
    /\ \A h \in held' \ held : h[2] = a /\ h[3] = value'[a]

\* Readers take published values; holders let go.
Obtain ==
  /\ UNCHANGED value
  /\ \A h \in held' \ held : h[2] \in DOMAIN value /\ h[3] = value[h[2]]
                             /\ value[h[2]] # None

\* A request ends and its cells go with it.
Close ==
  /\ DOMAIN value' \subseteq DOMAIN value
  /\ \A a \in DOMAIN value' : value'[a] = value[a]
  /\ held' = held
  /\ \A h \in held : h[2] \in DOMAIN value'

Next == Open \/ Publish \/ Obtain \/ Close

Spec == Init /\ [][Next]_onceVars

\* What a client of the cache relies on: two holders of the same cell's
\* value hold the same value.
Agreement ==
  \A g, h \in held : g[2] = h[2] => g[3] = h[3]
=============================================================================
