----------------------------- MODULE MCParseCache -----------------------------
(* Texts that parse and texts that do not, and fingerprints that tell them apart. *)
EXTENDS ParseCache

Texts == {"select", "", "select; update", "garbage"}
Keys == 1..4
Distinct == [s \in Texts |-> CASE s = "select" -> 1 [] s = "" -> 2
                               [] s = "select; update" -> 3 [] s = "garbage" -> 4]
=============================================================================
