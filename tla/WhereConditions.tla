--------------------------- MODULE WhereConditions ---------------------------
(***************************************************************************)
(* process_set_expr and process_select                                     *)
(* (sqlx-data-parser/src/dynamic/builder.rs): the filters, the search and  *)
(* the cursor of a request become conditions of every SELECT of the        *)
(* method's statement, beside the WHERE that is written there.             *)
(*                                                                         *)
(* A condition is written without its parentheses as AND binds tighter     *)
(* than OR: a sequence of disjuncts, each a sequence of atoms.  An atom is *)
(* a comparison or Expr::Nested, a condition in parentheses.  What a       *)
(* condition selects is read off that text by the three truth values of    *)
(* SQL.  Placeholders are positions in bind_values; their numbers in the   *)
(* text are in PlaceholderBinding, cursors of more columns in              *)
(* KeysetPredicate, where the order of MySQL's arguments is.               *)
(***************************************************************************)
EXTENDS Integers, Sequences, SequencesExt

CONSTANTS
    Row,            \* rows of the table: [Column -> Value \cup {Null}]
    Column,
    Null,           \* NULL
    Less(_, _),     \* the order of values
    Like(_, _),     \* the database's LIKE: a value and a pattern
    Lower(_),       \* LOWER and to_lowercase
    Wrap(_),        \* %..%
    Literal(_),     \* the pattern that matches a text as it stands: % and _ escaped
    Postgres,       \* is the feature "postgres" on?
    UserArgs,       \* the arguments of the method itself
    Calls           \* [statement, wheres, params]: a statement [selects, ..], the
                    \* SELECTs of a UNION, with the WHERE of each, <<>> for none,
                    \* and a request [filters, search, sorts, cursor]

Comparison ==
    [op : {"IsNull", "IsNotNull", "In", "Between", "Eq", "Ne", "Gt", "Gte", "Lt", "Lte", "Like", "LoweredLike", "LowerLike"},
     field : Column, not : BOOLEAN, ph : Seq(Nat)]

\* A condition: see above
Text == Seq(Seq(Comparison \cup [op : {"Nested"}, text : Seq(Seq(Comparison))]))

\* The placeholders of an atom, of a conjunction and of a condition, as printed
PlaceholdersOf(atom) ==
    IF atom.op = "Nested"
    THEN FlattenSeq([d \in DOMAIN atom.text |->
           FlattenSeq([k \in DOMAIN atom.text[d] |-> atom.text[d][k].ph])])
    ELSE atom.ph

PlaceholdersIn(conj) == FlattenSeq([k \in DOMAIN conj |-> PlaceholdersOf(conj[k])])

Placeholders(text) == FlattenSeq([d \in DOMAIN text |-> PlaceholdersIn(text[d])])

IsSequence(s) == Len(s) \in Nat /\ s = [i \in 1..Len(s) |-> s[i]]

ASSUME PostgresAssumption == Postgres \in BOOLEAN

\* A filter: [op, field, value, not].  Its value is [array, of]: an array of
\* values or one.  An array for any other operator is bound as one argument,
\* where it panics.
FilterOperator ==
    {"Eq", "Ne", "Gt", "Gte", "Lt", "Lte", "Like", "ILike", "UnsafeLike", "In", "NotIn",
     "IsNull", "IsNotNull", "Between", "Contains"}

IsFilter(f) ==
    /\ f.op \in FilterOperator /\ f.not \in BOOLEAN
    /\ IsSequence(f.value.of)
    /\ f.value.array => f.op \in {"In", "NotIn", "Between", "Contains"}
    /\ ~f.value.array => Len(f.value.of) = 1

ASSUME ArgsAssumption == IsSequence(UserArgs)

ASSUME CallsAssumption ==
    \A c \in Calls :
        /\ c.wheres \in Seq(Text)
        /\ DOMAIN c.wheres = DOMAIN c.statement.selects
        /\ IsSequence(c.params.filters) /\ IsSequence(c.params.sorts)
        /\ IsSequence(c.params.search.fields) /\ IsSequence(c.params.cursor.values)
        /\ \A f \in ToSet(c.params.filters) : IsFilter(f)
        /\ \A s \in ToSet(c.params.sorts) : s.asc \in BOOLEAN

\* The placeholders of the method's own text are numbers of its own arguments.
ASSUME WrittenAssumption ==
    \A c \in Calls : \A i \in DOMAIN c.wheres :
        ToSet(Placeholders(c.wheres[i])) \subseteq 1..Len(UserArgs)

\* A pattern is a text, and so are its lower case and what stands between %.
ASSUME PatternAssumption ==
    \A c \in Calls :
        /\ \A f \in ToSet(c.params.filters) :
              LET v == f.value.of[1]
              IN  ~f.value.array /\ v # Null =>
                    /\ f.op = "Contains" => Wrap(v) # Null
                    /\ f.op = "ILike" => Lower(v) # Null
        /\ c.params.search.on /\ c.params.search.query # "" =>
              c.params.search.query # Null /\ Wrap(c.params.search.query) # Null

\* Of a cursor's value and a row's, one comes first, or they are the same.
ASSUME OrderAssumption ==
    \A c \in Calls : \A i \in DOMAIN c.params.sorts \cap DOMAIN c.params.cursor.values, row \in Row :
        LET v == c.params.cursor.values[i]
            w == row[c.params.sorts[i].field]
        IN  Null \notin {v, w} => (Less(v, w) <=> v # w /\ ~Less(w, v))

VARIABLES
    statement,      \* the method's statement
    wheres,         \* the WHERE of each SELECT
    written,        \* as the method was written (history)
    params,         \* the request
    bind_values,    \* what is bound, the method's own arguments first
    at,             \* SELECTs done
    pc              \* "where", then "built" or "error"

vars == <<statement, wheres, written, params, bind_values, at, pc>>

-----------------------------------------------------------------------------
(* Conditions.                                                             *)

Atom(op, field, not, ph) == [op |-> op, field |-> field, not |-> not, ph |-> ph]

Nested(text) == <<<<[op |-> "Nested", text |-> text]>>>>

\* Printed side by side, the last disjunct of one text and the first of the
\* other become one.
and(l, r) == Front(l) \o <<Last(l) \o Head(r)>> \o Tail(r)

contains_or(text) == Len(text) > 1

Grouped(text) == IF contains_or(text) THEN Nested(text) ELSE text

\* Mutant: the parentheses are forgotten.
AndUngrouped(l, r) == and(l, r)

grouped_and(l, r) == and(Grouped(l), Grouped(r))

-----------------------------------------------------------------------------
(* What a condition selects.  0, 1, 2: false, unknown, true.               *)

Truth(b) == IF b THEN 2 ELSE 0
Least(S) == CASE 0 \in S -> 0 [] 0 \notin S /\ 1 \in S -> 1 [] OTHER -> 2
Greatest(S) == CASE 2 \in S -> 2 [] 2 \notin S /\ 1 \in S -> 1 [] OTHER -> 0

\* A comparison of column value c with argument v; none is true of NULL.
Compare(op, c, v) ==
    IF Null \in {c, v} THEN 1
    ELSE Truth(CASE op = "Eq"  -> c = v
                 [] op = "Ne"  -> c # v
                 [] op = "Gt"  -> Less(v, c)
                 [] op = "Gte" -> ~Less(c, v)
                 [] op = "Lt"  -> Less(c, v)
                 [] op = "Lte" -> ~Less(v, c)
                 [] op = "Like" -> Like(c, v)
                 [] op = "LoweredLike" -> Like(Lower(c), v)
                 [] op = "LowerLike" -> Like(Lower(c), Lower(v)))

\* vals: the arguments of the atom's placeholders
Evaluated(op, c, vals) ==
    CASE op = "IsNull"    -> Truth(c = Null)
      [] op = "IsNotNull" -> Truth(c # Null)
      [] op = "In"        -> Greatest({Compare("Eq", c, v) : v \in ToSet(vals)})
      [] op = "Between"   -> Least({Compare("Gte", c, vals[1]), Compare("Lte", c, vals[2])})
      [] OTHER            -> Compare(op, c, vals[1])

Holds(atom, row, binds) ==
    LET t == Evaluated(atom.op, row[atom.field], [i \in DOMAIN atom.ph |-> binds[atom.ph[i]]])
    IN  IF atom.not THEN 2 - t ELSE t

\* A disjunction of conjunctions of comparisons
HoldsFlat(text, row, binds) ==
    Greatest({Least({Holds(atom, row, binds) : atom \in ToSet(conj)}) : conj \in ToSet(text)})

HoldsText(text, row, binds) ==
    LET Value(atom) == IF atom.op = "Nested" THEN HoldsFlat(atom.text, row, binds)
                       ELSE Holds(atom, row, binds)
    IN  Greatest({Least({Value(atom) : atom \in ToSet(conj)}) : conj \in ToSet(text)})

\* The rows a WHERE keeps; all of them when there is none
Selects(text, binds) == {row \in Row : text = <<>> \/ HoldsText(text, row, binds) = 2}

-----------------------------------------------------------------------------
(* Filters.                                                                *)

Wrong(f) ==
    \/ f.op \in {"In", "NotIn"} /\ (~f.value.array \/ f.value.of = <<>>)
    \/ f.op = "Between" /\ (~f.value.array \/ Len(f.value.of) # 2)
    \/ f.op = "Contains" /\ (f.value.array \/ f.value.of[1] = Null)

\* What is bound for it
FilterBinds(f) ==
    CASE f.op \in {"IsNull", "IsNotNull"} -> <<>>
      [] f.op = "Contains"                -> <<Wrap(f.value.of[1])>>
      [] f.op = "ILike" /\ ~Postgres /\ f.value.of[1] # Null -> <<Lower(f.value.of[1])>>
      [] OTHER                            -> f.value.of

\* The condition of a filter.  NotIn prints IN, as In does, and not() makes
\* either one NOT IN; ILIKE outside PostgreSQL, where it is LIKE of LOWER(column),
\* the comparisons and IS NULL take no notice of not().
FilterAtom(f, ph) ==
    CASE f.op \in {"Like", "UnsafeLike", "Contains"} -> Atom("Like", f.field, f.not, ph)
      [] f.op = "ILike" /\ Postgres                  -> Atom("LowerLike", f.field, f.not, ph)
      [] f.op = "ILike" /\ ~Postgres                 -> Atom("LoweredLike", f.field, FALSE, ph)
      [] f.op \in {"In", "NotIn"}                    -> Atom("In", f.field, f.not, ph)
      [] f.op = "Between"                            -> Atom("Between", f.field, f.not, ph)
      [] OTHER                                       -> Atom(f.op, f.field, FALSE, ph)

\* What the first n filters bind, and how much that is
FiltersBound(n) == FlattenSeq([i \in 1..n |-> FilterBinds(params.filters[i])])

Taken(n) == Len(FiltersBound(n))

\* reduce(and) of the filters, when bound arguments are bound before theirs
FilterCond(bound) ==
    <<[i \in DOMAIN params.filters |->
        FilterAtom(params.filters[i],
                   [k \in DOMAIN FilterBinds(params.filters[i]) |-> bound + Taken(i - 1) + k])]>>

-----------------------------------------------------------------------------
(* Search and cursor.                                                      *)

Searching == params.search.on /\ params.search.fields # <<>> /\ params.search.query # ""

Pattern == IF params.search.exact THEN params.search.query ELSE Wrap(params.search.query)

SearchCond(bound) ==
    [i \in DOMAIN params.search.fields |->
        <<Atom(IF params.search.case_sensitive THEN "Like" ELSE "LowerLike",
               params.search.fields[i], FALSE, <<bound + i>>)>>]

Seeking == params.cursor.values # <<>>

CursorWrong ==
    Seeking /\ \/ params.cursor.error
               \/ Len(params.sorts) # Len(params.cursor.values)
               \/ params.cursor.direction = "None"

Operator(i) == IF (params.cursor.direction = "After") = params.sorts[i].asc THEN "Gt" ELSE "Lt"

\* first > v1, or first = v1 and second > v2, ..
CursorCond(bound) ==
    [i \in DOMAIN params.sorts |->
        [j \in 1..i |-> Atom(IF j = i THEN Operator(i) ELSE "Eq",
                             params.sorts[j].field, FALSE, <<bound + j>>)]]

-----------------------------------------------------------------------------
(* process_select                                                          *)

Errs == (\E f \in ToSet(params.filters) : Wrong(f)) \/ CursorWrong

\* Mutant: all fields of a search share one argument.
BoundOnce ==
    FiltersBound(Len(params.filters))
      \o (IF Searching THEN <<Pattern>> ELSE <<>>)
      \o params.cursor.values

\* bind(..): the arguments of one SELECT, in the order of its text
Bound ==
    FiltersBound(Len(params.filters))
      \o (IF Searching THEN [i \in DOMAIN params.search.fields |-> Pattern] ELSE <<>>)
      \o params.cursor.values

\* The parts that there are
Parts(bound) ==
    LET n == bound + Taken(Len(params.filters))
        m == IF Searching THEN Len(params.search.fields) ELSE 0
    IN  (IF params.filters # <<>> THEN <<FilterCond(bound)>> ELSE <<>>)
          \o (IF Searching THEN <<SearchCond(n)>> ELSE <<>>)
          \o (IF Seeking THEN <<CursorCond(n + m)>> ELSE <<>>)

\* reduce(grouped_and)
Reduced(parts) ==
    CASE Len(parts) = 1 -> parts[1]
      [] Len(parts) = 2 -> grouped_and(parts[1], parts[2])
      [] Len(parts) = 3 -> grouped_and(grouped_and(parts[1], parts[2]), parts[3])

\* The conditions of the request, in parentheses if they join a WHERE and hold an OR
Dynamic(existing, parts) ==
    IF existing # <<>> /\ contains_or(Reduced(parts)) THEN Nested(Reduced(parts)) ELSE Reduced(parts)

\* Mutant: the conditions of the request take the place of the method's own.
CombinedAlone(existing, parts) ==
    IF parts = <<>> THEN existing ELSE Dynamic(existing, parts)

Combined(existing, parts) ==
    CASE parts = <<>>                       -> existing
      [] parts # <<>> /\ existing = <<>>    -> Dynamic(existing, parts)
      [] OTHER                              -> and(existing, Dynamic(existing, parts))

Init ==
    /\ \E c \in Calls : statement = c.statement /\ wheres = c.wheres /\ params = c.params
    /\ written = wheres
    /\ bind_values = UserArgs
    /\ at = 0
    /\ pc = "where"

Body == statement.selects[at + 1]

InBody == pc = "where" /\ at < Len(statement.selects)

Select ==
    /\ InBody /\ Body.select /\ ~Errs
    /\ wheres' = [wheres EXCEPT ![at + 1] = Combined(@, Parts(Len(bind_values)))]
    /\ bind_values' = bind_values \o Bound
    /\ at' = at + 1
    /\ UNCHANGED <<statement, written, params, pc>>

\* SetExpr::Values and SetExpr::Table have no WHERE.
Pass ==
    /\ InBody /\ ~Body.select
    /\ at' = at + 1
    /\ UNCHANGED <<statement, wheres, written, params, bind_values, pc>>

Fail ==
    /\ InBody /\ Body.select /\ Errs
    /\ pc' = "error"
    /\ UNCHANGED <<statement, wheres, written, params, bind_values, at>>

\* Mutant: only the first SELECT of a UNION is processed.
FinishEarly ==
    /\ pc = "where" /\ at > 0
    /\ pc' = "built"
    /\ UNCHANGED <<statement, wheres, written, params, bind_values, at>>

Finish ==
    /\ pc = "where" /\ at = Len(statement.selects)
    /\ pc' = "built"
    /\ UNCHANGED <<statement, wheres, written, params, bind_values, at>>

Where == Select \/ Pass \/ Fail \/ Finish

-----------------------------------------------------------------------------
(* Properties.                                                             *)

\* What the caller means by a filter, a search and a cursor, said of one row
\* and without SQL: the row's value is there, and compares as asked.  Only the
\* pattern of an UnsafeLike has wildcards, FilterOperator says.
Meant(f, row) ==
    LET c == row[f.field]
        V == ToSet(f.value.of)
        v == f.value.of[1]
        w == f.value.of[2]
        Compares ==
            CASE f.op = "Eq"  -> c = v
              [] f.op = "Ne"  -> v # Null /\ c # v
              [] f.op = "Gt"  -> v # Null /\ Less(v, c)
              [] f.op = "Gte" -> v # Null /\ ~Less(c, v)
              [] f.op = "Lt"  -> v # Null /\ Less(c, v)
              [] f.op = "Lte" -> v # Null /\ ~Less(v, c)
              [] f.op = "UnsafeLike" -> v # Null /\ (Like(c, v) <=> ~f.not)
              [] f.op = "Like"     -> v # Null /\ (Like(c, Literal(v)) <=> ~f.not)
              [] f.op = "ILike"    -> v # Null /\ (Like(Lower(c), Lower(Literal(v))) <=> ~f.not)
              [] f.op = "Contains" -> Like(c, Wrap(Literal(v))) <=> ~f.not
              [] f.op = "In"       -> IF f.not THEN V \cap {c, Null} = {} ELSE c \in V
              [] f.op = "NotIn"    -> V \cap {c, Null} = {}
              [] f.op = "Between"  ->
                   IF f.not THEN (v # Null /\ Less(c, v)) \/ (w # Null /\ Less(w, c))
                            ELSE Null \notin {v, w} /\ ~Less(c, v) /\ ~Less(w, c)
    IN  CASE f.op = "IsNull"    -> c = Null
          [] f.op = "IsNotNull" -> c # Null
          [] OTHER              -> c # Null /\ Compares

MeantSearch(row) ==
    Searching =>
        \E i \in DOMAIN params.search.fields :
            LET c == row[params.search.fields[i]]
            IN  /\ c # Null
                /\ IF params.search.case_sensitive THEN Like(c, Pattern)
                                                   ELSE Like(Lower(c), Lower(Pattern))

\* The row comes strictly after the cursor, or before it, in the order of the sort.
MeantCursor(row) ==
    LET Beyond(i) == /\ row[params.sorts[i].field] # Null
                     /\ LET c == row[params.sorts[i].field]
                            v == params.cursor.values[i]
                            later == IF params.sorts[i].asc THEN Less(v, c) ELSE Less(c, v)
                        IN  c # v /\ (later <=> params.cursor.direction = "After")
    IN  Seeking =>
            \E i \in DOMAIN params.sorts :
                /\ Beyond(i)
                /\ \A j \in 1..(i - 1) : row[params.sorts[j].field] = params.cursor.values[j]

\* NotIn, not() of an ILIKE that is a LIKE, and a % or _ in what is to be taken
\* literally, are left out here: see README.
Faithful(f) ==
    /\ f.op # "NotIn"
    /\ ~(f.op = "ILike" /\ f.not /\ ~Postgres)
    /\ f.op \in {"Like", "ILike", "Contains"} /\ f.value.of[1] # Null =>
          Literal(f.value.of[1]) = f.value.of[1]

\* A SELECT without an OR outside parentheses returns exactly the rows of its own
\* WHERE for which every filter, the search and the cursor hold, whichever of
\* them there are and in every SELECT of a UNION.  A cursor that holds NULL is
\* left out: nothing comes before or after NULL.
SelectsAsAsked ==
    pc = "built" /\ (\A f \in ToSet(params.filters) : Faithful(f)) /\ Null \notin ToSet(params.cursor.values) =>
        \A i \in DOMAIN wheres :
            statement.selects[i].select /\ ~contains_or(written[i]) =>
                Selects(wheres[i], bind_values) =
                    {row \in Selects(written[i], bind_values) :
                        /\ \A f \in ToSet(params.filters) : Meant(f, row)
                        /\ MeantSearch(row) /\ MeantCursor(row)}

\* Whatever the caller asks for, and however the WHERE is written, no row comes
\* back that the method's own WHERE excludes.
NeverMoreThanWritten ==
    pc = "built" =>
        \A i \in DOMAIN wheres :
            Selects(wheres[i], bind_values) \subseteq Selects(written[i], bind_values)

\* No row comes back for which a filter does not hold: not_in keeps out the rows
\* of its list, and like, ilike and contains take % and _ literally.
FiltersReachEveryRow ==
    pc = "built" =>
        \A i \in DOMAIN wheres :
            statement.selects[i].select =>
                \A row \in Selects(wheres[i], bind_values) :
                    \A f \in ToSet(params.filters) : Meant(f, row)

\* Every argument bound for the request has its placeholder, and those stand in
\* the text in the order in which they are bound, as a dialect without numbers
\* and renumber_placeholders_with_binds need; a number is repeated only where a
\* cursor compares the same value twice.
BoundInTextOrder ==
    pc = "built" =>
        LET text == FlattenSeq([i \in DOMAIN wheres |-> Placeholders(wheres[i])])
            n == Len(UserArgs)
        IN  /\ {p \in ToSet(text) : p > n} = (n + 1)..Len(bind_values)
            /\ \A i, j \in DOMAIN text :
                  i < j /\ n < text[j] /\ text[j] < text[i] => \E k \in 1..(i - 1) : text[k] = text[j]
=============================================================================
