------------------------------- MODULE MCParams -------------------------------
(* Two conditions, two columns and two lists for ParamsBuilding. *)
EXTENDS ParamsBuilding
Lists2 == {{"a"}, {"b"}}
===============================================================================
