---------------------------- MODULE KeysetPredicate ----------------------------
(***************************************************************************)
(* The condition a cursor over several sort fields becomes, from the       *)
(* recursion that builds it and binds its values to the rows the database  *)
(* selects by it.                                                          *)
(*                                                                         *)
(*   process_select                     sqlx-data-parser/src/dynamic/      *)
(*   build_cursor_condition_recursive     builder.rs                       *)
(*                                                                         *)
(* For fields f, g, h it is                                                *)
(*     f > $1 OR (f = $1 AND (g > $2 OR (g = $2 AND h > $3)))              *)
(* where a MySQL build has a ? for each $n, binds a value once more for    *)
(* the equality, and leaves it to the database to give the values to the   *)
(* placeholders in the order in which both stand.                          *)
(*                                                                         *)
(* A condition is kept as its levels, outermost first; level i of the text *)
(* holds the placeholders 2i-1 (comparison) and 2i (equality, not on the   *)
(* last level).  CursorPagination takes the order of the rows as a rank;   *)
(* this module says when the condition stands for such a rank.             *)
(***************************************************************************)
EXTENDS Integers, Sequences

CONSTANTS
    Value,          \* values of the sort fields; none of them NULL
    MaxFields,      \* sort fields of a query (validate_fields allows 10)
    Reuse           \* may a placeholder stand twice?  FALSE for MySQL

ASSUME ValueAssumption == Value \subseteq Int
ASSUME MaxFieldsAssumption == MaxFields \in Nat
ASSUME ReuseAssumption == Reuse \in BOOLEAN

VARIABLES
    sorts,      \* sorts[i]: is_asc of sort field i; no field stands for no sort_by
    values,     \* CursorParams::values
    direction,  \* CursorParams::direction
    stage,      \* the step the build has come to
    index,      \* the sort field the recursion has come to
    levels,     \* the condition below that field, outermost level first
    slots,      \* slots[i]: the placeholder bound for the comparison of field i
    binds,      \* values bound, in order
    chosen      \* rows that satisfy the levels read so far

kvars == <<sorts, values, direction, stage, index, levels, slots, binds, chosen>>
request == <<sorts, values, direction>>

Fields == DOMAIN sorts
Depth  == Len(sorts)
Rows   == [Fields -> Value]

Tuples(S) == UNION {[1..n -> S] : n \in 0..MaxFields}

-----------------------------------------------------------------------------
\* Mutants: the direction of the first field is used for all of them;
\* rows equal to the cursor are included.
OperatorOfFirst(i) == IF (direction = "After") = sorts[1] THEN "Gt" ELSE "Lt"
OperatorOrEqual(i) == IF (direction = "After") = sorts[i] THEN "GtEq" ELSE "LtEq"

Operator(i) == IF (direction = "After") = sorts[i] THEN "Gt" ELSE "Lt"

Compare(op, l, r) == IF op = "Gt" THEN l > r ELSE l < r

\* The value the database puts for a placeholder: the one its number names, or
\* without numbers the one of its rank among the placeholders of the text.
Argument(slot, rank) == binds[IF Reuse THEN slot ELSE rank]

-----------------------------------------------------------------------------
KInit ==
    /\ sorts \in Tuples(BOOLEAN)
    /\ values \in Tuples(Value)
    /\ direction \in {"None", "After", "Before"}
    /\ stage = "start"
    /\ index = 0
    /\ levels = <<>> /\ slots = <<>> /\ binds = <<>>
    /\ chosen = {}

\* an empty cursor adds no condition
NoCursor ==
    /\ stage = "start" /\ values = <<>>
    /\ chosen' = Rows
    /\ stage' = "done"
    /\ UNCHANGED <<request, index, levels, slots, binds>>

\* there is a sort_by, of as many fields as there are values, and a direction
Fits == sorts # <<>> /\ Len(sorts) = Len(values) /\ direction # "None"

Reject ==
    /\ stage = "start" /\ values # <<>> /\ ~Fits
    /\ stage' = "error"
    /\ UNCHANGED <<request, index, levels, slots, binds, chosen>>

Accept ==
    /\ stage = "start" /\ values # <<>> /\ Fits
    /\ index' = 1
    /\ stage' = "descend"
    /\ UNCHANGED <<request, levels, slots, binds, chosen>>

\* On the way in, the value of each field is bound for its comparison; the
\* last field is that comparison and nothing else.
Descend ==
    /\ stage = "descend"
    /\ binds' = Append(binds, values[index])
    /\ slots' = Append(slots, Len(binds) + 1)
    /\ IF index = Depth
       THEN /\ levels' = <<[op |-> Operator(index), opSlot |-> Len(binds) + 1, eqSlot |-> 0]>>
            /\ stage' = "ascend"
            /\ UNCHANGED index
       ELSE /\ index' = index + 1
            /\ UNCHANGED <<levels, stage>>
    /\ UNCHANGED <<request, chosen>>

\* the placeholder of the equality: the comparison's once more, or a new one
Equality(i) ==
    IF Reuse THEN [slot |-> slots[i], bound |-> binds]
    ELSE [slot |-> Len(binds) + 1, bound |-> Append(binds, values[i])]

\* On the way out, the equality of the field before is put around the rest.
Ascend ==
    /\ stage = "ascend" /\ index > 1
    /\ index' = index - 1
    /\ levels' = <<[op |-> Operator(index - 1), opSlot |-> slots[index - 1],
                    eqSlot |-> Equality(index - 1).slot]>> \o levels
    /\ binds' = Equality(index - 1).bound
    /\ UNCHANGED <<request, stage, slots, chosen>>

\* The statement goes to the database, which understands the text from the
\* innermost level outwards.
Send ==
    /\ stage = "ascend" /\ index = 1
    /\ chosen' = {r \in Rows : Compare(levels[Depth].op, r[Depth],
                                       Argument(levels[Depth].opSlot, 2 * Depth - 1))}
    /\ index' = Depth
    /\ stage' = IF Depth = 1 THEN "done" ELSE "read"
    /\ UNCHANGED <<request, levels, slots, binds>>

Read ==
    /\ stage = "read"
    /\ LET i == index - 1
           l == levels[i]
       IN  /\ chosen' = {r \in Rows :
                 \/ Compare(l.op, r[i], Argument(l.opSlot, 2 * i - 1))
                 \/ r[i] = Argument(l.eqSlot, 2 * i) /\ r \in chosen}
           /\ index' = i
           /\ stage' = IF i = 1 THEN "done" ELSE "read"
    /\ UNCHANGED <<request, levels, slots, binds>>

KNext == NoCursor \/ Reject \/ Accept \/ Descend \/ Ascend \/ Send \/ Read

KSpec == KInit /\ [][KNext]_kvars

-----------------------------------------------------------------------------
(* Properties                                                              *)

ConditionTypeOK ==
    /\ sorts \in Seq(BOOLEAN) /\ values \in Seq(Value)
    /\ direction \in {"None", "After", "Before"}
    /\ stage \in {"start", "error", "descend", "ascend", "read", "done"}
    /\ index \in 0..Depth
    /\ levels \in Seq([op : {"Gt", "Lt"}, opSlot : Nat, eqSlot : Nat])
    /\ slots \in Seq(Nat) /\ binds \in Seq(Value)
    /\ chosen \subseteq Rows

\* x comes strictly before y in field i of the order the client asked for
Earlier(i, x, y) == IF sorts[i] THEN x < y ELSE y < x

\* row r lies on the side of the cursor that is asked for, judged by the fields
\* from i on
Beyond(r, i) ==
    \E j \in Fields :
        /\ j >= i
        /\ \A k \in Fields : i <= k /\ k < j => r[k] = values[k]
        /\ IF direction = "After" THEN Earlier(j, values[j], r[j])
                                  ELSE Earlier(j, r[j], values[j])

\* Whatever the directions of the fields, the rows selected are those that come
\* after (before) the cursor's values in the order of ORDER BY, in which fields
\* to the left weigh more.
SelectsBeyond ==
    stage = "done" /\ values # <<>> => chosen = {r \in Rows : Beyond(r, 1)}
=============================================================================
