------------------------------- MODULE MCOffset -------------------------------
(* Small tables for OffsetPagination. *)
EXTENDS OffsetPagination

Row3 == {"a", "b", "c"}
Key3 == [r \in Row3 |-> CASE r = "a" -> 1 [] r = "b" -> 2 [] r = "c" -> 3]
=============================================================================
