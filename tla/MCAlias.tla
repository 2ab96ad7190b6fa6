------------------------------- MODULE MCAlias --------------------------------
(* A few aliases for AliasSubstitution. *)
EXTENDS AliasSubstitution, TLC

Aliases3 == {"a", "b", "c"}
Aliases2 == {"a", "b"}
=============================================================================
