----------------------------- MODULE MCStatement -----------------------------
(* Two columns of three and four values, patterns as names. *)
EXTENDS CountQuery

Columns == {"a", "t"}
Rows == {[a |-> n, t |-> x] : n \in {Null, 1, 2}, x \in {Null, "x", "X", "xy"}}

LessOf(v, w) == v # Null /\ w # Null /\ v < w

LikeOf(c, p) ==
    c \in CASE p = "x"   -> {"x"}
            [] p = "X"   -> {"X"}
            [] p = "%x%" -> {"x", "xy"}
            [] p = "%X%" -> {"X"}
            [] p \in {"x_", "%x_%"}     -> {"xy"}
            [] p \in {"x\\_", "%x\\_%"} -> {}

LowerOf(v) == CASE v = "X" -> "x" [] v = "%X%" -> "%x%" [] OTHER -> v
WrapOf(v) ==
    CASE v = "x" -> "%x%" [] v = "X" -> "%X%" [] v = "x_" -> "%x_%" [] v = "x\\_" -> "%x\\_%"
LiteralOf(v) == IF v = "x_" THEN "x\\_" ELSE v

A1 == Atom("Eq", "a", FALSE, <<1>>)
A2 == Atom("Ne", "t", FALSE, <<2>>)
Args == <<1, "x">>
NoWhere == <<>>
AllBases == {NoWhere, <<<<A1>>>>, <<<<A1>>, <<A2>>>>, Nested(<<<<A1>>, <<A2>>>>), <<<<A1, A2>>>>}

One(v) == [array |-> FALSE, of |-> <<v>>]
Many(vs) == [array |-> TRUE, of |-> vs]
F(op, field, value, not) == [op |-> op, field |-> field, value |-> value, not |-> not]

\* Each operator, with and without not(), and values that do not fit
Filters ==
    {F(op, "a", One(v), FALSE) : op \in {"Eq", "Ne", "Gt", "Gte", "Lt", "Lte"}, v \in {1, Null}}
    \cup {F(op, "a", Many(vs), not) :
            op \in {"In", "Between"}, vs \in {<<1>>, <<1, 2>>, <<2, 1>>, <<1, Null>>}, not \in BOOLEAN}
    \cup {F(op, "t", One(v), not) :
            op \in {"Like", "UnsafeLike", "ILike", "Contains"}, v \in {"X", "x_", Null}, not \in BOOLEAN}
    \cup {F("IsNull", "a", One(Null), FALSE), F("IsNotNull", "t", One(Null), TRUE),
          F("In", "a", Many(<<>>), FALSE)}

NoSearch == [on |-> FALSE, query |-> "x", fields |-> <<>>, exact |-> FALSE, case_sensitive |-> FALSE]
Searches ==
    {NoSearch} \cup [on : {TRUE}, query : {"", "X"}, fields : {<<"t">>, <<"t", "t">>},
                     exact : BOOLEAN, case_sensitive : BOOLEAN]

Order(field, asc) == [field |-> field, asc |-> asc]
Cur(values, direction, error) == [values |-> values, direction |-> direction, error |-> error]
NoSeek == [sorts |-> <<>>, cursor |-> Cur(<<>>, "None", FALSE)]
Seeks ==
    {NoSeek}
    \cup {[sorts |-> <<Order("a", asc)>>, cursor |-> Cur(<<1>>, d, FALSE)]
             : asc \in BOOLEAN, d \in {"After", "Before", "None"}}
    \cup {[sorts |-> <<Order("a", TRUE), Order("a", FALSE)>>, cursor |-> Cur(<<1, 2>>, "After", FALSE)],
          [sorts |-> <<Order("a", TRUE)>>, cursor |-> Cur(<<>>, "After", TRUE)],
          [sorts |-> <<Order("a", TRUE)>>, cursor |-> Cur(<<1>>, "After", TRUE)],
          [sorts |-> <<>>, cursor |-> Cur(<<1>>, "After", FALSE)]}

Req(fs, search, seek) ==
    [filters |-> fs, search |-> search, sorts |-> seek.sorts, cursor |-> seek.cursor]

\* Two filters alone, and one filter with a search and a cursor
AllRequests ==
    {Req(<<f, g>>, NoSearch, NoSeek) : f, g \in Filters}
    \cup {Req(fs, search, seek) : fs \in {<<>>} \cup {<<F("Ne", "a", One(2), FALSE)>>, <<F("In", "a", Many(<<1>>), TRUE)>>},
                                 search \in Searches, seek \in Seeks}

Sel(items, distinct, group, having, joins, derived) ==
    [select |-> TRUE, items |-> items, distinct |-> distinct, group |-> group,
     having |-> having, joins |-> joins, derived |-> derived]
Plain(items) == Sel(items, FALSE, FALSE, FALSE, FALSE, "none")
ValuesBody == [Plain(<<"expr">>) EXCEPT !.select = FALSE]
Stmt(with, all, selects) == [with |-> with, all |-> all, selects |-> selects]
Single(sel) == Stmt(FALSE, TRUE, <<sel>>)

AllStatements ==
    {Single(Sel(items, distinct, FALSE, FALSE, joins, derived)) :
        items \in {<<"*">>, <<"t">>, <<"a", "t">>, <<"window">>},
        distinct \in BOOLEAN, joins \in BOOLEAN, derived \in {"none", "simple", "complex"}}
    \cup {Single(Sel(<<"a", "agg">>, FALSE, TRUE, having, joins, "none")) :
             having \in BOOLEAN, joins \in BOOLEAN}
    \cup {Single(Sel(<<"agg">>, distinct, FALSE, TRUE, joins, "none")) :
             distinct \in BOOLEAN, joins \in BOOLEAN}
    \cup {Single(Plain(<<"agg">>)), Single(Sel(<<"*", "a">>, TRUE, FALSE, FALSE, FALSE, "none")),
          Stmt(TRUE, TRUE, <<Sel(<<"t">>, TRUE, FALSE, FALSE, FALSE, "none")>>),
          Stmt(FALSE, TRUE, <<Plain(<<"t">>), Plain(<<"t">>)>>),
          Stmt(FALSE, FALSE, <<Plain(<<"t">>), Plain(<<"t">>)>>),
          Stmt(FALSE, FALSE, <<Plain(<<"t">>), ValuesBody>>)}

Call(st, ws, req) == [statement |-> st, wheres |-> ws, params |-> req]

\* Every request for SELECT t, every statement for a few requests
AllCalls ==
    {Call(Single(Plain(<<"t">>)), <<base>>, req) : base \in AllBases, req \in AllRequests}
    \cup UNION {{Call(st, ws, Req(fs, NoSearch, NoSeek)) :
                   ws \in [DOMAIN st.selects -> AllBases \ {<<<<A1>>, <<A2>>>>}],
                   fs \in {<<>>, <<F("Ne", "a", One(2), FALSE)>>, <<F("IsNotNull", "t", One(Null), TRUE)>>,
                          <<F("In", "a", Many(<<>>), FALSE)>>}}
                : st \in AllStatements}

\* .not_in("a", [1])
NotInCalls ==
    {Call(Single(Plain(<<"t">>)), <<base>>,
          Req(<<F("NotIn", "a", Many(vs), FALSE)>>, NoSearch, seek)) :
        base \in {NoWhere, <<<<A2>>>>}, vs \in {<<1>>, <<1, 2>>}, seek \in Seeks}

\* .like("t", "x_"), and so on
LikeCalls ==
    {Call(Single(Plain(<<"t">>)), <<base>>, Req(<<F(op, "t", One("x_"), FALSE)>>, NoSearch, seek)) :
        op \in {"Like", "ILike", "Contains"}, base \in {NoWhere, <<<<A2>>>>}, seek \in Seeks}
=============================================================================
