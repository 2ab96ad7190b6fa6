------------------------------- MODULE MCCursor -------------------------------
(* Small tables for CursorPagination: rows with distinct keys. *)
EXTENDS CursorPagination

Row4 == {"a", "b", "c", "d"}
Key4 == [r \in Row4 |-> CASE r = "a" -> 1 [] r = "b" -> 2 [] r = "c" -> 3 [] r = "d" -> 4]
Row3 == {"a", "b", "c"}
Key3 == [r \in Row3 |-> CASE r = "a" -> 1 [] r = "b" -> 2 [] r = "c" -> 3]
=============================================================================
