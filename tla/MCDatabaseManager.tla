-------------------------- MODULE MCDatabaseManager --------------------------
(* Two database sections for DatabaseManager. *)
EXTENDS DatabaseManager

CONSTANTS Main, Stats, Ghost   \* two connections, and a name nobody configured

Entry(driver, url, addressed, urlSafe) ==
  [driver |-> driver, url |-> url, addressed |-> addressed, urlSafe |-> urlSafe]

\* The first has a default with a password that is no URL, and a connection with
\* a url that only its own driver reads; the second has neither default nor host.
Sections ==
  { [default |-> Main,
     connections |-> [n \in {Main, Stats} |->
        IF n = Main THEN Entry("mysql", None, TRUE, FALSE)
                    ELSE Entry("sqlite", {"typed", "any"}, FALSE, TRUE)]],
    [default |-> None,
     connections |-> [n \in {Main, Stats} |->
        IF n = Main THEN Entry("postgres", None, TRUE, TRUE)
                    ELSE Entry("sqlite", {"any"}, FALSE, TRUE)]] }

Names == {Main, Stats, Ghost}
=============================================================================
