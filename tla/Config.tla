-------------------------------- MODULE Config --------------------------------
(***************************************************************************)
(* The configuration (config/config.rs): Config::load reads the files of a *)
(* directory, each a section of one tree, and writes environment variables *)
(* over them, in whatever order the system lists files and variables; the  *)
(* tree is then installed for good and read by path or by section.  A tree *)
(* is a function from paths to values; its inner nodes are tables.         *)
(***************************************************************************)
EXTENDS Naturals, Sequences, SequencesExt, FiniteSets

CONSTANTS
  Files,         \* Files[s]: the tree of section s
  Path,          \* Path[x]: variable x split at "__", in lower case
  Environments,  \* pairs: what .env says, and what the process was given
  Schema,        \* Schema[s]: the types of the fields of s when it is read as a
                 \* struct, and which of them their table must have
  Table          \* the value of an inner node

Section == DOMAIN Files

\* A tree is closed under prefixes, and only tables have anything below them.
IsTree(t) ==
  \A p \in DOMAIN t : \A n \in 1 .. Len(p) - 1 :
    SubSeq(p, 1, n) \in DOMAIN t /\ t[SubSeq(p, 1, n)] = Table

\* Every scalar is [type, text]; the text of a variable decides its type
\* (parse_env_value): a variable holds the value already.
ASSUME ConfigAssumption ==
  /\ \A x \in DOMAIN Path : Path[x] \in Seq(STRING) \ {<<>>}
  /\ \A s \in Section :
       /\ IsTree(Files[s])
       /\ \A p \in DOMAIN Files[s] : p \in Seq(STRING) \ {<<>>} /\ p[1] = s
  /\ \A sources \in Environments :
       DOMAIN sources[1] \subseteq DOMAIN Path /\ DOMAIN sources[2] \subseteq DOMAIN Path

VARIABLES
  pc,         \* "files", "variables", "loaded", or "failed"
  given,      \* <<dotenv, process>>: the sources, as they were
  unread,     \* the files, and then the variables, that are left
  root,       \* the tree
  sections    \* sections[s]: how a typed read of section s went

vars == <<pc, given, unread, root, sections>>

-----------------------------------------------------------------------------
Below(p, q) == IsPrefix(p, q)
StrictlyAbove(q, p) == IsStrictPrefix(q, p)

\* Mutant of Displaced: what is above the path stays if it is there.
DisplacedTables(t, p) == {q \in DOMAIN t : ~Below(p, q)}
\* The nodes that set_path leaves as they are: a value above the path gives way
\* to a table, and what was at the path or below it goes.
Displaced(t, p) == {q \in DOMAIN t : ~Below(p, q) /\ ~StrictlyAbove(q, p)}

SetPath(t, p, value) ==
  LET above == {SubSeq(p, 1, n) : n \in 1 .. Len(p) - 1}
      kept  == Displaced(t, p)
  IN [q \in kept \cup above \cup {p} |->
        IF q = p THEN value ELSE IF q \in kept THEN t[q] ELSE Table]

\* Mutant of Environment: the file wins.
EnvironmentOfFile(dotenv, process) ==
  [x \in DOMAIN dotenv \cup DOMAIN process |->
     IF x \in DOMAIN dotenv THEN dotenv[x] ELSE process[x]]
\* dotenvy sets the variables of .env that the process does not have.
Environment(dotenv, process) ==
  [x \in DOMAIN dotenv \cup DOMAIN process |->
     IF x \in DOMAIN process THEN process[x] ELSE dotenv[x]]

Env == Environment(given[1], given[2])

\* Only variables with a "__", within the sections there are, override.
Known(x) == Len(Path[x]) >= 2 /\ Path[x][1] \in Section

-----------------------------------------------------------------------------
Init ==
  /\ pc = "files"
  /\ given \in Environments
  /\ unread = Section
  /\ root = <<>>
  /\ sections = [s \in DOMAIN Schema |-> "unread"]

\* One file of the directory, in the order the system gives them; one that
\* cannot be read or parsed ends the load.
ReadFile(s) ==
  /\ pc = "files" /\ s \in unread
  /\ \/ /\ root' = [p \in DOMAIN root \cup DOMAIN Files[s] |->
                      IF p \in DOMAIN root THEN root[p] ELSE Files[s][p]]
        /\ unread' = unread \ {s}
        /\ UNCHANGED pc
     \/ pc' = "failed" /\ UNCHANGED <<unread, root>>
  /\ UNCHANGED <<given, sections>>

\* The files are read; the variables follow.
BeginOverrides ==
  /\ pc = "files" /\ unread = {}
  /\ pc' = "variables"
  /\ unread' = DOMAIN Env
  /\ UNCHANGED <<given, root, sections>>

\* One variable, in the order the system gives them.
Override(x) ==
  /\ pc = "variables" /\ x \in unread
  /\ unread' = unread \ {x}
  /\ root' = IF Known(x) THEN SetPath(root, Path[x], Env[x]) ELSE root
  /\ UNCHANGED <<pc, given, sections>>

\* The snapshot is complete and is installed: nothing changes it any more.
Install ==
  /\ pc = "variables" /\ unread = {}
  /\ pc' = "loaded"
  /\ UNCHANGED <<given, unread, root, sections>>

TypeOf(value) == IF value = Table THEN Table ELSE value.type

\* Whether a tree can be read as the struct of section s.
Fits(t, s) ==
  /\ <<s>> \in DOMAIN t /\ t[<<s>>] = Table
  /\ \A p \in DOMAIN t \cap DOMAIN Schema[s].types : TypeOf(t[p]) = Schema[s].types[p]
  /\ \A p \in Schema[s].required : Front(p) \in DOMAIN t => p \in DOMAIN t

\* try_value: one field that does not fit, and nothing of the section is read.
ReadSection(s) ==
  /\ pc = "loaded" /\ sections[s] = "unread"
  /\ sections' = [sections EXCEPT ![s] = IF Fits(root, s) THEN "read" ELSE "default"]
  /\ UNCHANGED <<pc, given, unread, root>>

Next ==
  \/ \E s \in Section : ReadFile(s)
  \/ BeginOverrides
  \/ \E x \in DOMAIN Path : Override(x)
  \/ Install
  \/ \E s \in DOMAIN Schema : ReadSection(s)

Spec == Init /\ [][Next]_vars

-----------------------------------------------------------------------------
\* Whatever the order of the files and the variables, and however they clash,
\* what path look-ups walk is a tree.
StaysATree == IsTree(root)

\* The variables that count, and whether no two of them meet.
Overrides == {x \in DOMAIN Env : Known(x)}
Clash(x, y) == Below(Path[x], Path[y]) \/ Below(Path[y], Path[x])
Apart == \A x, y \in Overrides : x # y => ~Clash(x, y)

\* What the documentation says of a path: the process wins over .env, which
\* wins over the files; a value given below it makes it a table.
Process == given[2]
DotEnv == given[1]
Wanted(x) == IF x \in DOMAIN Process THEN Process[x] ELSE DotEnv[x]
Above(p) == {x \in Overrides : Below(Path[x], p)}
Under(p) == {x \in Overrides : StrictlyAbove(p, Path[x])}

\* The tree that is installed is the files overlaid with the variables, node by
\* node, and does not depend on the order in which either was listed, unless
\* two variables meet.
LoadedIsOverlay ==
  pc = "loaded" /\ Apart =>
    LET file(p) == /\ p # <<>> /\ p[1] \in Section
                   /\ p \in DOMAIN Files[p[1]]
    IN /\ \A x \in Overrides : Path[x] \in DOMAIN root /\ root[Path[x]] = Wanted(x)
       /\ \A p \in DOMAIN root :
            \/ \E x \in Overrides : Path[x] = p
            \/ Under(p) # {} /\ root[p] = Table
            \/ Above(p) = {} /\ Under(p) = {} /\ file(p) /\ root[p] = Files[p[1]][p]
       /\ \A s \in Section : \A p \in DOMAIN Files[s] :
            Above(p) = {} => p \in DOMAIN root

\* An override never makes a section unreadable that its file alone would give:
\* documentations/configuration.md says any value can be overridden.
OverridesAreLocal ==
  \A s \in DOMAIN Schema :
    sections[s] = "default" => s \notin Section \/ ~Fits(Files[s], s)
=============================================================================
