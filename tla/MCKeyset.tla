------------------------------- MODULE MCKeyset -------------------------------
(* Sort fields of three values each. *)
EXTENDS KeysetPredicate

Values3 == 0..2
=============================================================================
