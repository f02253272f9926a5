----------------------------- MODULE MCSchedule -----------------------------
(***************************************************************************)
(* Raw expressions for Schedule: the thirty-minutes one of the builder and *)
(* a five-field one.                                                       *)
(***************************************************************************)
EXTENDS Schedule

HalfHours == <<{0}, {0}, Hour, Day, Month, Dow>>
FiveField == <<{0}, {1}, Day, Month, {1}>>

MCRawExpr == {HalfHours, FiveField, Refused}
=============================================================================
