------------------------------- MODULE MCLogging -------------------------------
(* Configurations for Logging. *)
EXTENDS Logging

CONSTANT App

Worker_(kind, ok) ==
  [kind |-> kind, ok |-> ok, prefix |-> None, rotation |-> None, keep |-> None]
File(rotation, keep) ==
  [kind |-> "file", ok |-> TRUE, prefix |-> App, rotation |-> rotation, keep |-> keep]

\* Nobody; a queue whose neighbour fails; a file and both kinds of worker.
Several ==
  { <<>>,
    <<Worker_("queue", TRUE), File("daily", 1), Worker_("database", FALSE)>>,
    <<File("daily", 2), Worker_("queue", TRUE), Worker_("database", TRUE)>> }

\* One file sink that says nothing of keep_files.
DefaultFile == { <<File("daily", Omitted)>> }

\* Two file sinks with one prefix and different rotations.
Mixed == { <<File("daily", 1), File("hourly", 1)>> }

Alone == [p \in {App} |-> {App}]
=============================================================================
