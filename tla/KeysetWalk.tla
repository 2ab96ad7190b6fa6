------------------------------ MODULE KeysetWalk ------------------------------
(***************************************************************************)
(* What a forward walk through a table by cursors promises its client,     *)
(* without pages, tokens or statements: rows arrive in the order of their  *)
(* keys, none twice; a row that stays in the table is not jumped over, and *)
(* is there when the walk says it is done.  A row that comes or goes while *)
(* the walk is on may be delivered or not.                                 *)
(***************************************************************************)
EXTENDS Integers

CONSTANTS
    Row,        \* identities of rows
    Key,        \* the sort key of each row
    Asc         \* the direction of the sort

VARIABLES
    table,      \* the rows in the table
    on,         \* is a walk on?
    delivered,  \* the rows it has delivered
    stable,     \* the rows that have been in the table since it began
    done        \* has it said that nothing is left?

vars == <<table, on, delivered, stable, done>>

Precedes(k, l) == IF Asc THEN k < l ELSE l < k

Init ==
    /\ table \in SUBSET Row
    /\ on = FALSE
    /\ delivered = {}
    /\ stable = {}
    /\ done = FALSE

Begin ==
    /\ on' = TRUE
    /\ delivered' = {}
    /\ stable' = table
    /\ done' = FALSE
    /\ UNCHANGED table

Deliver ==
    /\ on /\ ~done
    /\ \E S \in SUBSET (Row \ delivered) :
         /\ \A r \in delivered, s \in S : Precedes(Key[r], Key[s])
         /\ delivered' = delivered \cup S
    /\ \A r \in delivered', s \in stable \ delivered' : Precedes(Key[r], Key[s])
    /\ done' \in BOOLEAN
    /\ done' => stable \subseteq delivered'
    /\ UNCHANGED <<table, on, stable>>

Leave ==
    /\ on' = FALSE
    /\ delivered' = {}
    /\ stable' = {}
    /\ done' = FALSE
    /\ UNCHANGED table

Write ==
    /\ table' \in SUBSET Row
    /\ stable' = stable \cap table'
    /\ UNCHANGED <<on, delivered, done>>

Next == Begin \/ Deliver \/ Leave \/ Write

Spec == Init /\ [][Next]_vars
=============================================================================
