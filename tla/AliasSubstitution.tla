-------------------------- MODULE AliasSubstitution --------------------------
(***************************************************************************)
(* AliasManager::substitute_aliases                                        *)
(* (sqlx-data-macros/src/alias_system.rs): the {{name}} of a query become  *)
(* the contents of the alias of that name, which may hold {{name}}s again. *)
(*                                                                         *)
(* The loop goes over a HashMap, whose order differs from one compilation  *)
(* to the next: it is chosen in Init.  String::replace replaces every      *)
(* occurrence at once, so that a text is the set of the names in it.       *)
(***************************************************************************)
EXTENDS Integers, Sequences, FiniteSets, Functions

CONSTANTS
    Alias,      \* the names that have an alias
    Unknown     \* names that have none

ASSUME AliasAssumption == IsFiniteSet(Alias)
ASSUME UnknownAssumption == Unknown \cap Alias = {}

Name == Alias \cup Unknown

VARIABLES
    contents,       \* the names in the contents of each alias
    order,          \* the order in which the HashMap is iterated
    sql,            \* the names in the query
    result,         \* the names in the text so far
    substituted,    \* the aliases substituted so far
    at,             \* how many aliases this pass over the map has seen
    changed,        \* has it substituted one?
    pc              \* "loop", or how the function returned

vars == <<contents, order, sql, result, substituted, at, changed, pc>>

Orders == Bijection(1..Cardinality(Alias), Alias)

Init ==
    /\ contents \in [Alias -> SUBSET Name]
    /\ order \in Orders
    /\ sql \in SUBSET Name
    /\ result = sql
    /\ substituted = {}
    /\ at = 0
    /\ changed = FALSE
    /\ pc = "loop"

\* alias_name of this turn of the for loop
alias_name == order[at + 1]

InPass == pc = "loop" /\ at < Len(order)

\* The text does not contain it.
Skip ==
    /\ InPass
    /\ alias_name \notin result
    /\ at' = at + 1
    /\ UNCHANGED <<contents, order, sql, result, substituted, changed, pc>>

\* Mutant: what was substituted is not recorded.
SubstituteUnrecorded ==
    /\ InPass
    /\ alias_name \in result \ substituted
    /\ result' = (result \ {alias_name}) \cup contents[alias_name]
    /\ changed' = TRUE
    /\ at' = at + 1
    /\ UNCHANGED <<contents, order, sql, substituted, pc>>

\* Mutant: the flag is not set, and one pass is all there is.
SubstituteOnce ==
    /\ InPass
    /\ alias_name \in result \ substituted
    /\ substituted' = substituted \cup {alias_name}
    /\ result' = (result \ {alias_name}) \cup contents[alias_name]
    /\ at' = at + 1
    /\ UNCHANGED <<contents, order, sql, changed, pc>>

\* replace: its contents may hold the name itself.
Substitute ==
    /\ InPass
    /\ alias_name \in result \ substituted
    /\ substituted' = substituted \cup {alias_name}
    /\ result' = (result \ {alias_name}) \cup contents[alias_name]
    /\ changed' = TRUE
    /\ at' = at + 1
    /\ UNCHANGED <<contents, order, sql, pc>>

\* Mutant: a second occurrence is passed over.
CircularIgnored ==
    /\ InPass
    /\ alias_name \in result \cap substituted
    /\ result' = result \ {alias_name}
    /\ at' = at + 1
    /\ UNCHANGED <<contents, order, sql, substituted, changed, pc>>

\* "Circular alias reference detected"
Circular ==
    /\ InPass
    /\ alias_name \in result \cap substituted
    /\ pc' = "circular"
    /\ UNCHANGED <<contents, order, sql, result, substituted, at, changed>>

\* Mutant: the iterator is not made anew.
AgainOn ==
    /\ pc = "loop" /\ at = Len(order) /\ changed
    /\ at' = at + 1
    /\ changed' = FALSE
    /\ UNCHANGED <<contents, order, sql, result, substituted, pc>>

\* The pass changed the text: another one.
Again ==
    /\ pc = "loop" /\ at = Len(order) /\ changed
    /\ at' = 0
    /\ changed' = FALSE
    /\ UNCHANGED <<contents, order, sql, result, substituted, pc>>

\* validate_no_unresolved_aliases: a {{name}} is left in the text.
Unresolved(text) == text # {}

Return ==
    /\ pc = "loop" /\ at = Len(order) /\ ~changed
    /\ pc' = IF Unresolved(result) THEN "unresolved" ELSE "ok"
    /\ UNCHANGED <<contents, order, sql, result, substituted, at, changed>>

Next == Skip \/ Substitute \/ Circular \/ Again \/ Return

\* The function runs: nothing but its own return stops it.
Spec == Init /\ [][Next]_vars /\ WF_vars(Next)

-----------------------------------------------------------------------------
(* Properties                                                              *)

TypeOK ==
    /\ contents \in [Alias -> SUBSET Name]
    /\ order \in Orders
    /\ sql \subseteq Name /\ result \subseteq Name
    /\ substituted \subseteq Alias
    /\ at \in 0..Len(order)
    /\ changed \in BOOLEAN
    /\ pc \in {"loop", "circular", "unresolved", "ok"}

\* With a set of names, everything their contents bring in.
Closed(S) == \A a \in S \cap Alias : contents[a] \subseteq S

Reach == {n \in Name : \A S \in SUBSET Name : sql \subseteq S /\ Closed(S) => n \in S}

\* Some alias that the query needs is part of its own contents, through others.
IsCircular ==
    \E C \in SUBSET (Reach \cap Alias) : C # {} /\ \A a \in C : contents[a] \cap C # {}

\* The function returns a query only if every name it needs, however deep,
\* has an alias, and says "unresolved" only if one has not.
UnknownReported ==
    /\ pc = "ok" => Reach \subseteq Alias
    /\ pc = "unresolved" => Reach \cap Unknown # {}

\* No alias that refers to itself is ever returned as resolved, in whatever
\* order the map is iterated.
CirclesReported == pc \in {"ok", "unresolved"} => ~IsCircular

\* Every compilation comes to an end, circles or not.
Returns == <>(pc # "loop")
=============================================================================
