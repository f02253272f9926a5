----------------------------- MODULE MCMigrations -----------------------------
(* Two databases with their own directories, and two releases, for Migrations. *)
EXTENDS Migrations

CONSTANTS Main, Archive, Ghost, MainDir, ArchiveDir, SharedDir, Old, New

Alphabet == [c \in {Archive, Ghost, Main} |->
               CASE c = Archive -> 1 [] c = Ghost -> 2 [] c = Main -> 3]

Paths == [c \in {Main, Archive} |-> IF c = Main THEN MainDir ELSE ArchiveDir]

\* The new release adds two migrations; nobody has a shared directory.
Releases ==
  [p \in {Old, New} |->
     [path \in {MainDir, ArchiveDir, SharedDir} |->
        CASE path = MainDir    -> IF p = New THEN {1, 2, 3} ELSE {1}
          [] path = ArchiveDir -> {1, 4}
          [] path = SharedDir  -> None]]

ASSUME LinearHistory
=============================================================================
