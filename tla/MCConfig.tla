------------------------------- MODULE MCConfig -------------------------------
(* Two sections and seven variables, in .env and in the process, for Config. *)
EXTENDS Config

Value(type, text) == [type |-> type, text |-> text]
Text(text) == Value("string", text)
Number(text) == Value("integer", text)

\* config/app.toml and config/database.toml, cut down.
Sections ==
  [app |-> [p \in {<<"app">>, <<"app", "port">>} |->
              IF p = <<"app">> THEN Table ELSE Number("3000")],
   database |-> [p \in {<<"database">>, <<"database", "pg">>,
                        <<"database", "pg", "driver">>, <<"database", "pg", "password">>} |->
              CASE Len(p) < 3 -> Table
                [] Last(p) = "driver" -> Text("postgres")
                [] OTHER -> Text("secret")]]

Structs ==
  [database |->
     [types |-> [p \in {<<"database">>} \cup {<<"database", c>> : c \in {"pg", "new"}}
                       \cup {<<"database", c, f>> : c \in {"pg", "new"},
                                                    f \in {"driver", "password"}} |->
                   IF Len(p) < 3 THEN Table ELSE "string"],
      required |-> {<<"database", c, "driver">> : c \in {"pg", "new"}}]]

\* Two spellings of one path, a path below it, a value in and outside a table
\* that is there, a section that is not, and a variable without a "__".
Paths ==
  [APP__PORT           |-> <<"app", "port">>,
   app__port           |-> <<"app", "port">>,
   APP__PORT__TLS      |-> <<"app", "port", "tls">>,
   DATABASE__PG__PASSWORD  |-> <<"database", "pg", "password">>,
   DATABASE__NEW__PASSWORD |-> <<"database", "new", "password">>,
   FOO__BAR            |-> <<"foo", "bar">>,
   HOME                |-> <<"home">>]

Given(names, text) == {[x \in S |-> text] : S \in SUBSET names}

\* Every choice of variables; .env gives numbers, the process gives texts.
Sources ==
  Given({"APP__PORT", "DATABASE__PG__PASSWORD", "FOO__BAR"}, Number("42"))
  \X Given(DOMAIN Paths, Text("localhost"))
=============================================================================
