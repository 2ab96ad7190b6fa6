------------------------------ MODULE MCMethod ------------------------------
(* Methods of a trait with the parameters a and b and the flag d. *)
EXTENDS GeneratedMethod

Rows == [a : {1, 2}, b : {1, 2}, d : BOOLEAN]
GivenOf(p) == IF p = "a" THEN 1 ELSE 2

Param(n, role, type) == [name |-> n, role |-> role, type |-> type]
PA == Param("a", "arg", "one")
PB == Param("b", "arg", "one")
Pool == Param("pool", "pool", "one")
Req == Param("params", "dynamic", "one")

Clauses(select, where, group, having) ==
    [select |-> select, from |-> <<Item("t")>>, where |-> where, group_by |-> group,
     having |-> having, order_by |-> <<Item("o")>>]

CellOf(type, opt) == [type |-> type, opt |-> opt]
Returning(wraps, base, elems) == [wraps |-> wraps, base |-> base, elems |-> elems]
Struct == Returning(<<"Result", "Vec">>, "struct", <<CellOf("i64", FALSE)>>)
Column(how, cast) == [how |-> how, cast |-> cast]

Method ==
    [build |-> "postgres", variant |-> "", clauses |-> Clauses(<<Item("x")>>, <<>>, <<>>, <<>>),
     readable |-> TRUE, kind |-> "Select", body |-> "select", params |-> <<>>,
     aliases |-> {}, scopes |-> {}, ignored |-> {}, async |-> TRUE, unchecked |-> FALSE,
     multi |-> FALSE, returns |-> Struct, columns |-> <<Column("plain", FALSE)>>, values |-> <<>>]

Scope(n, text, target) == [name |-> <<Name(n)>>, text |-> text, target |-> target]
AliasDef(text) == {[name |-> <<Name("al")>>, text |-> text]}

Wheres ==
    {<<>>, <<Is("d")>>, <<Eq("b", "@", 0), And, Eq("a", "@", 0)>>, <<Eq("a", "?", 0), And, Eq("b", "?", 0)>>,
     <<Eq("a", "$", 1), And, Is("d")>>, <<Eq("a", "@", 0), Or, Is("d")>>,
     <<Alias("al"), And, Eq("a", "@", 0)>>}

AliasSets == {{}, AliasDef(<<Is("d")>>), AliasDef(<<Is("d"), Mark(";"), Eq("b", "@", 0)>>)}

Scopes ==
    {Scope("active", <<Is("d")>>, "where"), Scope("tenant", <<Eq("b", "@", 0)>>, "where"),
     Scope("either", <<Eq("a", "@", 0), Or, Is("d")>>, "having"), Scope("of", <<Alias("al")>>, "having"),
     Scope("semi", <<Is("d"), Mark(";")>>, "where"), Scope("pipe", <<Is("d"), Mark("|")>>, "where"),
     Scope("colon", <<Is("d"), Mark(":"), Mark("=")>>, "where"), Scope("extra", <<Item("y")>>, "select"),
     Scope("two", <<Item("y"), Item("z")>>, "select"), Scope("more", <<Item("u")>>, "from"),
     Scope("joined", <<Join("j")>>, "join"), Scope("grouped", <<Item("g")>>, "group_by"),
     Scope("sorted", <<Item("o1"), Item("o2")>>, "order_by"), Scope("sorted2", <<Item("o3")>>, "order_by"),
     Scope("quoted", <<Item("o4"), Mark(";")>>, "order_by")}

\* No scope, one or two, one of them ignored or none
ScopeChoices ==
    {[scopes |-> ss, ignored |-> ig] :
        ss \in {{}} \cup {{s, u} : s, u \in Scopes}, ig \in {{}, {<<Name("active")>>}, {<<Name("semi")>>}}}

WithText(where, having, ps, as, ch, b) ==
    [Method EXCEPT !.clauses.where = where, !.clauses.having = having, !.params = ps, !.aliases = as,
                   !.scopes = ch.scopes, !.ignored = ch.ignored, !.build = b]

TextMethods ==
    {WithText(where, <<>>, <<PA, PB>>, {}, ch, "mysql") : where \in Wheres, ch \in ScopeChoices}
    \cup {WithText(where, having, ps, as, ch, "postgres") :
             where \in Wheres, having \in {<<>>, <<Is("d")>>}, ps \in {<<PA, PB>>, <<Pool, PB, PA>>, <<PB>>, <<Pool>>},
             as \in AliasSets, ch \in {x \in ScopeChoices : Cardinality(x.scopes) < 2}}

\* An alias that holds another one, alone, declared or in use: {bl} is what is
\* read back of {al}, or what is declared. One that ends at a separator.
Holding(text) == <<Is("d"), Mark(";"), Name("bl"), Mark("=")>> \o text

HeldAliases ==
    {AliasDef(text) \cup more :
        text \in {Holding(<<Is("d")>>), Holding(<<Is("d"), Mark(";")>>), <<Is("d"), Mark(";"), Name("bl")>>,
                  <<Is("d"), Mark(";")>>, <<Is("d"), Mark("="), Is("d"), Mark(";")>>},
        more \in {{}, {[name |-> <<Name("bl")>>, text |-> <<Eq("a", "@", 0)>>]}}}

\* A scope that holds the name of another to ignore, a list, or neither
HeldScopes ==
    {<<Is("d"), Mark(":"), Name(t), Mark("|"), Name(n)>> : t \in {"where", "x"}, n \in {"ignore", "scopes"}}
    \cup {<<Is("d"), Mark(":"), Name("where"), Mark("|"), Name("scopes"), Mark(":"), Name("sorted"), Mark("=")>>,
          <<Is("d"), Mark(":"), Name("where"), Mark(";")>>}

TornMethods ==
    {WithText(where, <<>>, <<PA, PB>>, as, ch, "postgres") :
        where \in {<<Alias("al")>>, <<Alias("bl")>>, <<Is("d")>>}, as \in HeldAliases,
        ch \in {[scopes |-> ss, ignored |-> {}] : ss \in {{}, {Scope("sorted", <<Item("o1")>>, "order_by")}}}}
    \cup {WithText(<<>>, <<>>, <<PA, PB>>, {}, [scopes |-> {Scope("held", text, "where")} \cup ss, ignored |-> ig], "postgres") :
             text \in HeldScopes, ss \in {{}, {Scope("sorted", <<Item("o1"), Item("o2")>>, "order_by")}},
             ig \in {{}, {<<Name("active")>>}}}

\* What is refused or not understood
OddMethods ==
    {[Method EXCEPT !.kind = k, !.readable = r, !.unchecked = un, !.scopes = ss,
                    !.returns = Returning(w, "()", <<>>)] :
        k \in {"Select", "Insert", "DDL", "Several"}, r \in BOOLEAN, un \in BOOLEAN,
        ss \in {{}, {Scope("active", <<Is("d")>>, "where")}}, w \in {<<"Result">>, <<"Result", "Vec">>}}
    \cup {[Method EXCEPT !.body = "setop", !.scopes = ss] : ss \in {{}, {Scope("active", <<Is("d")>>, "where")}}}

Scalars == {CellOf(type, FALSE) : type \in {"i64", "u8", "bool"}}
Wraps == {<<"Result">>, <<"Result", "Option">>, <<"Result", "Vec">>, <<"Stream", "Result">>}

ReturnTypes ==
    {Returning(w, "scalar", <<cell>>) : w \in Wraps, cell \in Scalars}
    \cup {Returning(<<"Result", w, "Option">>, "scalar", <<[cell EXCEPT !.opt = TRUE]>>) :
            w \in {"Vec", "Option"}, cell \in Scalars}
    \cup {Returning(w, base, <<CellOf("u8", TRUE), CellOf("bool", FALSE)>>) :
            w \in Wraps \cup {<<"Result", p>> : p \in Pages}, base \in {"tuple", "struct"}}
    \cup {Returning(<<"Result">>, "QueryResult", <<>>)}

ReturnMethods ==
    {[Method EXCEPT !.returns = r, !.build = b, !.unchecked = un, !.columns = cols, !.params = ps, !.variant = v,
                    !.async = r.wraps[1] # "Stream"] :
        r \in ReturnTypes, b \in {"postgres", "sqlite"}, un \in BOOLEAN,
        cols \in {<<Column("plain", cast), Column("plain", FALSE)>> : cast \in BOOLEAN}
                 \cup {<<Column("plain", FALSE)>>, <<Column("star", FALSE)>>},
        ps \in {<<Req>>}, v \in {"", "tx"}}
    \cup {[Method EXCEPT !.returns = Returning(<<"Stream", "Result">>, "scalar", <<CellOf("i64", FALSE)>>), !.async = as] :
            as \in BOOLEAN}

\* Pages with placeholders in every clause
PageMethods ==
    {[Method EXCEPT !.returns = Returning(<<"Result", p>>, "struct", <<CellOf("i64", FALSE)>>), !.build = b,
                    !.params = ps, !.variant = v, !.clauses = Clauses(select, where, group, <<Is("d")>>)] :
        p \in Pages, b \in {"postgres", "mysql"}, v \in {"", "tx"},
        ps \in {<<PA, PB>>, <<PA, Req, PB>>, <<Pool, PA, PB, Req>>},
        select \in {<<Item("x")>>, <<Eq("a", "@", 0)>>}, group \in {<<>>, <<Item("g")>>},
        where \in {<<Eq("a", "@", 0), And, Eq("b", "@", 0)>>, <<Eq("b", "@", 0)>>}}

InsertMethods ==
    {[Method EXCEPT !.kind = k, !.params = ps, !.returns = r, !.values = vs, !.multi = m, !.variant = v,
                    !.columns = IF r.base = "QueryResult" THEN <<>> ELSE <<Column("plain", FALSE)>>] :
        k \in {"Insert", "Update"}, m \in BOOLEAN, v \in {"", "conn"}, vs \in {<<1, 2>>, <<2, 1>>, <<1, 0>>},
        ps \in {<<Param("rows", "arg", type)>> : type \in {"one", "tuples", "generic"}},
        r \in {Returning(<<"Result">>, "QueryResult", <<>>)}
              \cup {Returning(w, "scalar", <<CellOf("i64", FALSE)>>) : w \in Wraps \ {<<"Stream", "Result">>}}}

AllMethods == TextMethods \cup TornMethods \cup OddMethods \cup ReturnMethods \cup PageMethods \cup InsertMethods

\* A wide integer, a NULL, no row, one or two
AllAnswers ==
    {<<>>} \cup {<<<<v, w>>>> : v, w \in {1, 5, Null}} \cup {<<<<2, 0>>, <<v, 1>>>> : v \in {0, Null}}

AllInputs == {<<>>, <<<<1, 2>>>>, <<<<2, 1>>, <<1, 1>>>>}

\* The scopes of the documentation: age >= ? of the method, tenant_id = ? of the
\* trait, and the tenant the first parameter
DocMethods ==
    {[Method EXCEPT !.build = "mysql", !.params = <<PB, PA>>, !.clauses.where = where,
                    !.scopes = {Scope("active", <<Is("d")>>, "where"), Scope("tenant", <<Eq("b", "?", 0)>>, "where")}] :
        where \in {<<Eq("a", "?", 0)>>, <<Eq("a", "?", 0), And, Is("d")>>}}
=============================================================================
