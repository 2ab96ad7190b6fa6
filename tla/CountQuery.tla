------------------------------ MODULE CountQuery ------------------------------
(***************************************************************************)
(* generate_count_query (sqlx-data-parser/src/core/parser_count.rs): the   *)
(* statement that WhereConditions built is turned into one that counts its *)
(* rows, for the total of a Serial or a Slice.                             *)
(*                                                                         *)
(* A SELECT is what the choice between the strategies looks at: its items  *)
(* ("*", a column, "expr", "agg" for an aggregate, "window"), DISTINCT,    *)
(* GROUP BY (by the column Grouping), HAVING COUNT( * ) > 1, a joined      *)
(* table that holds two rows for each of this one's, a derived table.  TOP *)
(* .. WITH TIES is left out: none of the three databases has it.           *)
(* Executing the two statements is modelled as far as the number of their  *)
(* rows goes.                                                              *)
(***************************************************************************)
EXTENDS WhereConditions, FiniteSets

CONSTANT Grouping       \* the column of GROUP BY

SelectBody ==
    [select : BOOLEAN, items : Seq(Column \cup {"*", "expr", "agg", "window"}), distinct : BOOLEAN,
     group : BOOLEAN, having : BOOLEAN, joins : BOOLEAN, derived : {"none", "simple", "complex"}]

Statements == [with : BOOLEAN, all : BOOLEAN, selects : Seq(SelectBody) \ {<<>>}]

ASSUME CountAssumption == IsFiniteSet(Row) /\ \A c \in Calls : c.statement \in Statements

VARIABLES
    count_sql,      \* the count statement, <<>> before it is generated
    total           \* its answer, <<>> before

cvars == <<vars, count_sql, total>>

-----------------------------------------------------------------------------
(* How many rows a statement has.                                          *)

Items(sel) == ToSet(sel.items)

Joined(sel) == IF sel.joins THEN 2 ELSE 1

Groups(sel, S) ==
    LET Key(g) == {row \in S : row[Grouping] = g}
    IN  {g \in {row[Grouping] : row \in S} : sel.having => Cardinality(Key(g)) * Joined(sel) > 1}

ItemOf(item, row) ==
    CASE item = "*"         -> row
      [] item \in Column    -> row[item]
      [] OTHER              -> item

\* An aggregate or a HAVING without GROUP BY makes one group of all rows.
Whole(sel) == ~sel.group /\ (sel.having \/ "agg" \in Items(sel))

Tuples(sel, S) == {[i \in DOMAIN sel.items |-> ItemOf(sel.items[i], row)] : row \in S}

\* The rows of one SELECT over the rows S that its WHERE keeps
RowsOf(sel, S) ==
    CASE ~sel.select                              -> 1
      [] sel.select /\ sel.group                  -> Cardinality(Groups(sel, S))
      [] sel.select /\ Whole(sel) ->
           IF sel.having => Cardinality(S) * Joined(sel) > 1 THEN 1 ELSE 0
      [] sel.select /\ ~sel.group /\ ~Whole(sel) ->
           IF sel.distinct THEN Cardinality(Tuples(sel, S)) ELSE Cardinality(S) * Joined(sel)

\* UNION drops what is there twice, UNION ALL does not.
RowsOfAll(q, S) ==
    IF Len(q.selects) = 1 \/ q.all
    THEN Cardinality(UNION {{i} \X (1..RowsOf(q.selects[i], S[i])) : i \in DOMAIN S})
    ELSE Cardinality(UNION {IF q.selects[i].select THEN Tuples(q.selects[i], S[i])
                                                   ELSE {<<"values">>} : i \in DOMAIN S})

-----------------------------------------------------------------------------
(* analyze_query                                                           *)

Wrapped == [how |-> "Subquery"]

\* analyze_distinct: "*" is filtered out of what is counted.
AnalyzeDistinct(sel) ==
    LET exprs == {i \in DOMAIN sel.items : sel.items[i] # "*"}
    IN  IF exprs = {} THEN Wrapped ELSE [how |-> "Distinct", exprs |-> exprs]

\* A primary key is never given: a join is counted by a subquery.
Analysis(q) ==
    LET sel == q.selects[1]
        plain == /\ ~q.with /\ ~sel.group /\ ~sel.having
                 /\ "window" \notin Items(sel) /\ sel.derived = "none"
    IN  CASE Len(q.selects) > 1 \/ ~sel.select -> Wrapped
          [] Len(q.selects) = 1 /\ sel.select /\ ~plain -> Wrapped
          [] Len(q.selects) = 1 /\ sel.select /\ plain /\ sel.distinct -> AnalyzeDistinct(sel)
          [] Len(q.selects) = 1 /\ sel.select /\ plain /\ ~sel.distinct ->
               IF sel.joins THEN Wrapped ELSE [how |-> "Simple"]

-----------------------------------------------------------------------------
(* generate_count_query: ORDER BY, LIMIT and FETCH are gone.               *)

\* Mutant: a DISTINCT is replaced as well.
Select1Always(sel) == ~sel.group /\ ~sel.having /\ "window" \notin Items(sel)

\* can_optimize_to_select_1
Select1(sel) ==
    ~sel.distinct /\ ~sel.group /\ ~sel.having /\ "window" \notin Items(sel) /\ sel.derived # "complex"

\* The statement within COUNT( * ) FROM (..)
Inner(q) ==
    IF Len(q.selects) = 1 /\ q.selects[1].select /\ Select1(q.selects[1])
    THEN [q EXCEPT !.selects[1].items = <<"expr">>] ELSE q

CountSql(q) ==
    LET a == Analysis(q)
    IN  CASE a.how = "Simple" -> [how |-> "Simple", q |-> q]
          [] a.how = "Distinct" /\ Cardinality(a.exprs) = 1 ->
               [how |-> "Distinct", q |-> q, expr |-> q.selects[1].items[CHOOSE i \in a.exprs : TRUE]]
          [] a.how = "Distinct" /\ Cardinality(a.exprs) # 1 -> [how |-> "Subquery", q |-> q]
          [] a.how = "Subquery" -> [how |-> "Subquery", q |-> Inner(q)]

\* What the database answers.  COUNT(DISTINCT x) passes over NULL.
Answer(sql, S) ==
    CASE sql.how = "Simple"   -> Cardinality(S[1]) * Joined(sql.q.selects[1])
      [] sql.how = "Distinct" -> Cardinality({ItemOf(sql.expr, row) : row \in S[1]} \ {Null})
      [] sql.how = "Subquery" -> RowsOfAll(sql.q, S)

Kept == [i \in DOMAIN wheres |-> Selects(wheres[i], bind_values)]

CInit ==
    /\ Init
    /\ count_sql = <<>>
    /\ total = <<>>

Build ==
    /\ Where
    /\ UNCHANGED <<count_sql, total>>

\* build_count_query_from_sql
Generate ==
    /\ pc = "built" /\ count_sql = <<>>
    /\ count_sql' = <<CountSql(statement)>>
    /\ UNCHANGED <<vars, total>>

\* query_scalar_with(count_sql, ..).fetch_one
Count ==
    /\ count_sql # <<>> /\ total = <<>>
    /\ total' = <<Answer(count_sql[1], Kept)>>
    /\ UNCHANGED <<vars, count_sql>>

CNext == Build \/ Generate \/ Count

CSpec == CInit /\ [][CNext]_cvars

-----------------------------------------------------------------------------
(* Properties.                                                             *)

TypeOK ==
    /\ DOMAIN wheres = DOMAIN statement.selects /\ DOMAIN written = DOMAIN wheres
    /\ at \in 0..Len(statement.selects)
    /\ pc \in {"where", "built", "error"}
    /\ pc = "built" => at = Len(statement.selects)
    /\ count_sql # <<>> => count_sql[1].how \in {"Simple", "Distinct", "Subquery"}
    /\ total # <<>> => total[1] \in Nat

\* An aggregate without GROUP BY and HAVING is one row, which the count takes for
\* as many as it aggregates; DISTINCT *, x is counted by x alone.
CountedOtherwise(sel) ==
    \/ sel.select /\ "agg" \in Items(sel) /\ ~sel.group /\ ~sel.having
    \/ sel.select /\ sel.distinct /\ "*" \in Items(sel) /\ Len(sel.items) > 1

\* The NULL that COUNT(DISTINCT x) passes over, a row of SELECT DISTINCT x
NullLost ==
    LET sel == statement.selects[1]
    IN  IF /\ Analysis(statement).how = "Distinct" /\ Len(sel.items) = 1
           /\ \E row \in Kept[1] : ItemOf(sel.items[1], row) = Null
        THEN 1 ELSE 0

\* The total is the number of rows the statement has without LIMIT and OFFSET,
\* whatever the strategy: the pages of a Serial come out even.  SELECT DISTINCT
\* of one column that is NULL in some row is counted one short.
TotalExact ==
    total # <<>> /\ (\A sel \in ToSet(statement.selects) : ~CountedOtherwise(sel)) =>
        total[1] = RowsOfAll(statement, Kept) - NullLost
=============================================================================
