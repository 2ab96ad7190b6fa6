--------------------------- MODULE GeneratedMethod ---------------------------
(***************************************************************************)
(* What #[dml] generates for a method (code_generator.rs, type_analyzer.rs) *)
(* and what a call of it does: the return type chooses the generator and   *)
(* how rows are fetched, the rows the database answers are decoded and     *)
(* cast to the return type; a list of tuples becomes an INSERT of many     *)
(* rows; a paginated method sends a second statement that counts.          *)
(*                                                                         *)
(* A return type is its wrappers from outside in (Result, Vec, Option,     *)
(* Serial, Slice, Cursor, Stream), what they end in ("scalar", "tuple",    *)
(* "struct", "QueryResult", "()") and the types of its cells.  Integers of *)
(* the database are wider than those of the type "u8", which end at MaxU8, *)
(* and booleans are 0 and 1.  What build_dynamic_sql adds to a paginated   *)
(* statement is in WhereConditions and PlaceholderBinding.                 *)
(***************************************************************************)
EXTENDS MethodText

CONSTANTS
    Null,
    Bad,            \* a value that does not decode
    MaxU8,          \* the greatest value of the type "u8"
    Answers,        \* what a statement may return: sequences of rows
    Inputs          \* lists of tuples a caller passes

ASSUME MaxU8Assumption == MaxU8 \in Nat

\* Rows hold integers and NULL; what does not decode is no value.
ASSUME AnswersAssumption ==
    /\ Answers \subseteq Seq(Seq(Int \cup {Null}))
    /\ Bad \notin Int \cup {Null}

VARIABLES
    gen,            \* the generator that emit_sqlx_call chose, "" before
    input,          \* the caller's list of tuples
    sent,           \* the statements sent
    answer,         \* the rows of the first one
    result          \* what the method returns, <<>> before

mvars == <<tvars, gen, input, sent, answer, result>>

Ret == decl.returns

-----------------------------------------------------------------------------
(* analyze_type, determine_query_strategy, determine_fetch_method          *)

Pages == {"Serial", "Slice", "Cursor"}

\* A page stands in Result and nowhere else; other types do not compile.
ASSUME ReturnsAssumption ==
    \A m \in Methods :
        LET wraps == m.returns.wraps
        IN  /\ wraps \in Seq({"Result", "Vec", "Option", "Stream"} \cup Pages)
            /\ \A i \in DOMAIN wraps : wraps[i] \in Pages => wraps = <<"Result", wraps[i]>>
            /\ m.returns.base \in {"scalar", "tuple", "struct", "QueryResult", "()"}

\* A tuple has an element for each of the VALUES; the database refuses others.
ASSUME InputsAssumption ==
    /\ Inputs \subseteq Seq(Seq(Int))
    /\ \A m \in Methods, tuples \in Inputs :
        (\E p \in ToSet(m.params) : p.type # "one") =>
            \A r \in DOMAIN tuples : DOMAIN tuples[r] = DOMAIN m.values

Wrapped(w) == w \in ToSet(Ret.wraps)

\* The first wrapper that is not Result
Outer ==
    LET i == SelectInSeq(Ret.wraps, LAMBDA w : w # "Result")
    IN  IF i = 0 THEN "" ELSE Ret.wraps[i]

Strategy ==
    CASE \E w \in Pages : Wrapped(w)              -> "QueryAs"
      [] Ret.base = "scalar" /\ \A w \in Pages : ~Wrapped(w) -> "QueryScalar"
      [] Ret.base \in {"tuple", "struct", "QueryResult"} /\ \A w \in Pages : ~Wrapped(w) -> "QueryAs"
      [] OTHER                                    -> "Query"

Fetch ==
    CASE Outer \in Pages \cup {"Vec"} -> "FetchAll"
      [] Outer = "Option"             -> "FetchOptional"
      [] Outer = "Stream"             -> "Fetch"
      [] Outer = ""                   -> IF Ret.base \in {"()", "QueryResult"} THEN "Execute" ELSE "FetchOne"

\* check_is_pagination looks at the first type argument only.
IsPage == Len(Ret.wraps) > 1 /\ Ret.wraps[2] \in Pages

IsTuple == Ret.base = "tuple"

-----------------------------------------------------------------------------
(* emit_sqlx_call and what the generators refuse to compile.               *)

\* is_tuple_iterable_type
TupleParams == Kept(Args, {i \in DOMAIN Args : Args[i].type # "one"})

IsMulti == decl.multi \/ (kind = "Insert" /\ TupleParams # <<>>)

Generator ==
    CASE IsMulti                          -> "multi"
      [] ~IsMulti /\ IsStream             -> "stream"
      [] ~IsMulti /\ ~IsStream /\ IsPage  -> "page"
      [] OTHER                            -> Strategy

\* infer_columns_from_stmt
ColumnsWrong ==
    \/ kind = "Unknown" \/ (kind = "Select" /\ decl.body # "select")
    \/ kind # "Select" /\ decl.columns = <<>>
    \/ \E c \in ToSet(decl.columns) : c.how # "plain"

\* A stream may have fewer columns than its tuple.
TupleWrong ==
    IsTuple /\ (\/ ColumnsWrong
                \/ Len(decl.columns) > Len(Ret.elems)
                \/ ~IsStream /\ Len(decl.columns) < Len(Ret.elems))

NoDynamic == ~\E i \in DOMAIN Params : Params[i].role = "dynamic"

\* has_complex_sql_functions_in_values: 0 stands for what is no placeholder
ValuesWrong == 0 \in ToSet(decl.values)

Refused ==
    CASE Generator = "multi"  -> TupleParams = <<>> \/ kind # "Insert" \/ ValuesWrong
                                 \/ (IsTuple /\ ColumnsWrong)
      [] Generator = "stream" -> TupleWrong
      [] Generator = "page"   -> TupleWrong \/ NoDynamic
      [] Generator = "QueryAs" -> TupleWrong
      [] OTHER                -> FALSE

Generate ==
    /\ pc = "built"
    /\ IF Refused THEN pc' = "error" /\ UNCHANGED gen
                  ELSE pc' = "ready" /\ gen' = Generator
    /\ UNCHANGED <<decl, hidden, managers, sql, kind, input, sent, answer, result>>

-----------------------------------------------------------------------------
(* Decoding and casting.                                                   *)

Fits(type, v) == type = "u8" => v \in 0..MaxU8

As(type, v) == IF type = "bool" /\ v # 0 THEN 1 ELSE v

\* value as T, value != 0
Cast(type, v) == IF type = "u8" THEN v % (MaxU8 + 1) ELSE As(type, v)

Read(type, v) == IF Fits(type, v) THEN As(type, v) ELSE Bad

\* TypeCastingAnalyzer::needs_casting: SQLite's integers and booleans are read
\* as i64.
NeedsCasting(type) == decl.build = "sqlite" /\ type # "i64"

Cell(type, opt, casts, v) ==
    IF v = Null THEN (IF opt THEN Null ELSE Bad)
    ELSE IF casts THEN Cast(type, v) ELSE Read(type, v)

\* has_explicit_sqlx_type
Explicit(i) == i \in DOMAIN decl.columns /\ decl.columns[i].cast

\* The scalar generator casts checked queries, the tuple generators all; structs
\* and streams are decoded by sqlx.
Casts(i) ==
    /\ NeedsCasting(Ret.elems[i].type) /\ ~Explicit(i)
    /\ \/ gen = "QueryScalar" /\ ~decl.unchecked
       \/ gen \in {"QueryAs", "page"} /\ IsTuple

\* Mutant: the Option around a nullable scalar is not asked for.
NeverNullable(i) == Ret.elems[i].opt

\* A checked Option<T> is fetched as Option<Option<T>>.
Nullable(i) ==
    Ret.elems[i].opt \/ (gen = "QueryScalar" /\ Fetch = "FetchOptional" /\ ~decl.unchecked)

Converted(row) ==
    [i \in DOMAIN Ret.elems |->
        IF i \in DOMAIN row THEN Cell(Ret.elems[i].type, Nullable(i), Casts(i), row[i]) ELSE Bad]

Ok(items) == [ok |-> TRUE, items |-> items]
Err == [ok |-> FALSE, items |-> <<>>]

OrErr(items) == IF \E i \in DOMAIN items : Bad \in ToSet(items[i]) THEN Err ELSE Ok(items)

\* value.flatten(), unless the type is Option<Option<T>>
Flattened(items) ==
    IF gen = "QueryScalar" /\ ~Ret.elems[1].opt /\ items = <<<<Null>>>> THEN <<>> ELSE items

AtMostOne(rows) == IF rows = <<>> THEN <<>> ELSE <<rows[1]>>

Outcome(rows) ==
    LET items == [i \in DOMAIN rows |-> Converted(rows[i])]
        first == AtMostOne(items)
    IN  CASE Fetch = "Execute"       -> Ok(<<>>)
          [] Fetch = "Fetch"         -> Ok(items)
          [] Fetch = "FetchAll"      -> OrErr(items)
          [] Fetch = "FetchOne"      -> IF rows = <<>> THEN Err ELSE OrErr(first)
          [] Fetch = "FetchOptional" -> IF OrErr(first) = Err THEN Err ELSE Ok(Flattened(first))

-----------------------------------------------------------------------------
(* A call.                                                                 *)

\* Mutant: the pool although an executor was passed.
AlwaysPool == "get_pool"

\* generate_pool_expr
PoolExpr == IF Pools = {} THEN "get_pool" ELSE Params[CHOOSE i \in Pools : TRUE].name

Statement(what, clauses, rows) == [to |-> PoolExpr, what |-> what, clauses |-> clauses, rows |-> rows]

\* sqlx::query*!(sql, params..).fetch_*(executor)
Send ==
    /\ pc = "ready" /\ gen # "multi"
    /\ \E rows \in Answers :
         /\ answer' = rows
         /\ IF gen = "page" /\ Outcome(rows).ok
            THEN pc' = "page" /\ UNCHANGED result
            ELSE pc' = "done" /\ result' = <<Outcome(rows)>>
         /\ sent' = <<Statement("data", sql, <<>>)>>
    /\ UNCHANGED <<decl, hidden, managers, sql, kind, gen, input>>

\* The count: its select list is gone unless the rows are grouped.
IsGrouped == sql.group_by # <<>> \/ sql.having # <<>>

CountClauses == IF IsGrouped THEN sql ELSE [sql EXCEPT !.select = <<>>]

\* Serial and Slice; Cursor counts nothing, and of a Slice one may ask no count.
Respond ==
    /\ pc = "page"
    /\ sent' \in IF Outer = "Cursor" THEN {sent}
                 ELSE {Append(sent, Statement("count", CountClauses, <<>>))}
                      \cup IF Outer = "Slice" THEN {sent} ELSE {}
    /\ result' = <<Outcome(answer)>>
    /\ pc' = "done"
    /\ UNCHANGED <<decl, hidden, managers, sql, kind, gen, input, answer>>

\* Mutant: no list is looked at.
EmptySent(tuples) == FALSE

\* No check for impl IntoIterator and generic parameters, nor where one row is due
EmptyReturns(tuples) == tuples = <<>> /\ TupleParams[1].type # "generic" /\ Fetch # "FetchOne"

\* push_values: element i of a tuple goes to column i of the INSERT.
Insert ==
    /\ pc = "ready" /\ gen = "multi"
    /\ \E tuples \in Inputs :
         /\ input' = tuples
         /\ IF EmptyReturns(tuples)
            THEN result' = <<Ok(<<>>)>> /\ UNCHANGED <<sent, answer>>
            ELSE /\ sent' = <<Statement("insert", sql, tuples)>>
                 /\ answer' = IF decl.columns = <<>> THEN <<>> ELSE tuples
                 /\ result' = <<IF tuples = <<>> THEN Err ELSE Outcome(answer')>>
    /\ pc' = "done"
    /\ UNCHANGED <<decl, hidden, managers, sql, kind, gen>>

MInit ==
    /\ TInit
    /\ gen = "" /\ input = <<>> /\ sent = <<>> /\ answer = <<>> /\ result = <<>>

Text == TNext /\ UNCHANGED <<gen, input, sent, answer, result>>

MNext == Text \/ Generate \/ Send \/ Respond \/ Insert

MSpec == MInit /\ [][MNext]_mvars

-----------------------------------------------------------------------------
(* Properties.                                                             *)

TypeOK ==
    /\ pc \in {"repo", "extract", "aliases", "scopes", "named", "detect", "built",
               "ready", "page", "done", "error"}
    /\ kind \in {"", "Unknown", "DDL"} \cup Crud
    /\ DOMAIN sql = ToSet(Clause)
    /\ \A c \in DOMAIN sql : \A i \in DOMAIN sql[c] : sql[c][i].by = "$" => sql[c][i].k > 0
    /\ gen \in {"", "multi", "stream", "page", "QueryAs", "QueryScalar", "Query"}
    /\ Len(sent) <= 2
    /\ pc = "done" => Len(result) <= 1

\* Only an Option may be NULL, and no value is wider than the type.
CellFits(i, v) ==
    IF v = Null THEN Ret.elems[i].opt \/ (Ret.base = "scalar" /\ Outer = "Option" /\ ~decl.unchecked)
                ELSE Fits(Ret.elems[i].type, v)

RowFits(row) == DOMAIN Ret.elems \subseteq DOMAIN row /\ \A i \in DOMAIN Ret.elems : CellFits(i, row[i])

\* The rows that the return type has room for
Wanted ==
    CASE Outer \in Pages \cup {"Vec", "Stream"} -> answer
      [] Outer = "" /\ Ret.base \in {"()", "QueryResult"} -> <<>>
      [] OTHER                                  -> AtMostOne(answer)

Value(row) == [i \in DOMAIN Ret.elems |-> IF row[i] = Null THEN Null ELSE As(Ret.elems[i].type, row[i])]

\* A method returns the rows of the answer, in their order, each value as it
\* stands in the database: the only one, the first if there is one, or all.  It
\* fails where one row is due and there is none, and never because of a NULL or
\* of no row where its type is an Option.  Values wider than the type are left
\* out (a cast cuts them), and the NULL of an unchecked Option<T>, an error.
Delivered ==
    result # <<>> /\ gen # "multi" /\ (\A row \in ToSet(Wanted) : RowFits(row)) =>
        IF Outer = "" /\ Ret.base \notin {"()", "QueryResult"} /\ answer = <<>>
        THEN ~result[1].ok
        ELSE /\ result[1].ok
             /\ LET items == [i \in DOMAIN Wanted |-> Value(Wanted[i])]
                IN  result[1].items =
                        IF /\ Ret.base = "scalar" /\ Outer = "Option" /\ ~Ret.elems[1].opt
                           /\ items = <<<<Null>>>>
                        THEN <<>> ELSE items

\* Where the VALUES of the statement say each element goes
Placed(tuple) == [i \in DOMAIN decl.values |-> tuple[decl.values[i]]]

\* An INSERT of many rows stores what the VALUES of the statement say, once for
\* each tuple, in the caller's order; a list without tuples is no error and sends
\* nothing, unless one row is due or the list is an iterator.  VALUES that name
\* the placeholders in another order than the tuple are not followed.
InsertedAsWritten ==
    gen = "multi" /\ result # <<>> /\ (\A i \in DOMAIN decl.values : decl.values[i] = i) =>
        /\ result[1].ok => [s \in DOMAIN sent |-> sent[s].rows] =
                              IF input = <<>> THEN <<>> ELSE <<[r \in DOMAIN input |-> Placed(input[r])]>>
        /\ input = <<>> /\ Fetch # "FetchOne" /\ TupleParams[1].type # "generic" => result[1].ok /\ sent = <<>>

\* Data and count are asked of one executor, the caller's if one was passed, and
\* with the same arguments, so that both see one transaction and one condition.
\* On ? alone a placeholder of the select list shifts those of the count.
CountAsksSame ==
    Len(sent) = 2 /\ (Asked(sql.select) = {} \/ IsGrouped) =>
        /\ \A s \in 1..2 : \A p \in ToSet(Params) : p.role = "pool" => sent[s].to = p.name
        /\ \A c \in {"where", "having"} : \A i \in DOMAIN sql[c] :
              sql[c][i].t = "eq" => BoundTo(sent[2].clauses, c, i) = BoundTo(sent[1].clauses, c, i)
=============================================================================
