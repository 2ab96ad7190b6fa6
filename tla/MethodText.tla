------------------------------ MODULE MethodText ------------------------------
(***************************************************************************)
(* From the text of a #[dml] method to the statement it sends: #[repo]     *)
(* (repo_system.rs) writes the trait's aliases and scopes into hidden      *)
(* string attributes of the method, #[dml] (dml.rs) reads them back,       *)
(* substitutes the aliases, merges the scopes into the parsed statement    *)
(* (scope_system.rs) and turns @name into placeholders.                    *)
(*                                                                         *)
(* Text is a sequence of tokens: a condition on a column ("is"), a column  *)
(* compared with the parameter that bears its name ("eq", by "@", "?" or   *)
(* "$" with its number), a parameter alone ("arg"), "and", "or", an alias  *)
(* in braces, an item of a list, a joined table, and the characters the    *)
(* attributes are split at, which otherwise stand in literals and operators*)
(* of the text around them.                                                *)
(* The contents of an alias name no further alias (AliasSubstitution has   *)
(* those).                                                                 *)
(***************************************************************************)
EXTENDS Integers, Sequences, FiniteSets, SequencesExt

CONSTANTS
    Row,            \* what a WHERE decides about: functions from columns to values
    Given(_),       \* the argument the caller passes for a parameter
    Methods         \* the methods declared

VARIABLES
    decl,           \* the method as declared, with its trait's aliases and scopes,
                    \* and the database feature of the build
    pc,
    hidden,         \* #[sqlx_data_aliases = ..], #[sqlx_data_scopes = ..]
    managers,       \* AliasManager and ScopeManager as #[dml] reads them
    sql,            \* the statement, clause by clause
    kind            \* DmlMethod::kind, "" before it is detected

tvars == <<decl, pc, hidden, managers, sql, kind>>

\* PLACEHOLDER() is "$"
Numbered == decl.build # "mysql"

-----------------------------------------------------------------------------
(* Text.                                                                   *)

Tok(t, v, by, k) == [t |-> t, v |-> v, by |-> by, k |-> k]
Is(c) == Tok("is", c, "", 0)
Eq(c, by, k) == Tok("eq", c, by, k)
And == Tok("and", "", "", 0)
Or == Tok("or", "", "", 0)
Alias(n) == Tok("alias", n, "", 0)
Item(n) == Tok("item", n, "", 0)
Join(n) == Tok("join", n, "", 0)
Name(n) == Tok("name", n, "", 0)
Mark(m) == Tok("mark", m, "", 0)

Clause == <<"select", "from", "where", "group_by", "having", "order_by">>

Target == {"select", "from", "join", "where", "group_by", "having", "order_by"}

\* Every string, and those that are written here
Word == STRING \cup Target \cup {"", ";", ":", "=", "|", "\\", "scopes", "ignore", "__dummy__"}

\* Parameters stand in comparisons or alone. A number that is written out is
\* one of SQL: they begin with 1.
Token ==
    {tok \in [t : {"is", "eq", "arg", "and", "or", "alias", "item", "join", "name", "mark"}, v : Word,
              by : {"", "@", "?", "$"}, k : Nat] :
        /\ tok.by # "" <=> tok.t \in {"eq", "arg"}
        /\ tok.by = "$" => tok.k > 0}

Crud == {"Select", "Insert", "Update", "Delete"}

Parameter == [name : Word, role : {"arg", "pool", "dynamic"}, type : {"one", "tuples", "generic"}]

\* A Rust identifier
IsName(text) == text = <<Name(text[1].v)>> /\ text[1].v \in Word

\* What a trait may declare: aliases and scopes, one for each name, their texts,
\* and what sqlparser finds in them
ASSUME MethodsAssumption ==
    \A m \in Methods :
        /\ m.clauses \in [ToSet(Clause) -> Seq(Token)]
        /\ m.kind \in {"Unknown", "DDL", "Several"} \cup Crud
        /\ IsFiniteSet(m.aliases) /\ IsFiniteSet(m.scopes) /\ IsFiniteSet(m.ignored)
        /\ \A a \in m.aliases : IsName(a.name) /\ a.text \in Seq(Token) /\ a = [name |-> a.name, text |-> a.text]
        /\ \A s \in m.scopes : /\ IsName(s.name) /\ s.text \in Seq(Token) /\ s.target \in Target
                              /\ s = [name |-> s.name, text |-> s.text, target |-> s.target]
        /\ \A a, b \in m.aliases : a.name = b.name => a = b
        /\ \A s, u \in m.scopes : s.name = u.name => s = u
        /\ \A x \in m.ignored : IsName(x)
        /\ m.params \in Seq(Parameter) /\ m.variant \in Word
        /\ \A i \in DOMAIN m.params : m.params[i].name # ""

\* The items at some places, in their order
Kept(list, places) == FlattenSeq([i \in DOMAIN list |-> IF i \in places THEN <<list[i]>> ELSE <<>>])

\* split(m): what stands between two marks, or a mark and an end
Pieces(text, m) ==
    LET Ends == {0, Len(text) + 1} \cup {i \in DOMAIN text : text[i] = Mark(m)}
    IN  {SubSeq(text, p[1] + 1, p[2] - 1) :
            p \in {q \in Ends \X Ends : q[1] < q[2] /\ \A i \in Ends : i <= q[1] \/ i >= q[2]}}

JoinedBy(parts, m) ==
    FlattenSeq([i \in DOMAIN parts |-> IF i = 1 THEN parts[i] ELSE <<Mark(m)>> \o parts[i]])

\* replace(";", "\\;")
Escape(text) == FlattenSeq([i \in DOMAIN text |-> IF text[i] = Mark(";") THEN <<Mark("\\"), text[i]>>
                                                  ELSE <<text[i]>>])

\* An "=" of its own, or the one of a comparison
IsEquals(tok) == tok = Mark("=") \/ tok.t = "eq"
IsColon(tok) == tok = Mark(":")

Until(text, i) == SubSeq(text, 1, i - 1)
After(text, i) == SubSeq(text, i + 1, Len(text))

\* What sqlparser cannot read: braces, and the literal that a split tore open
Readable(text) == \A i \in DOMAIN text : text[i].t # "alias" /\ text[i] # Mark("\\")

-----------------------------------------------------------------------------
(* #[repo]: process_dml_method                                             *)

\* substitute_aliases, and what it leaves is an error
Substitute(text, aliases) ==
    FlattenSeq([i \in DOMAIN text |->
        IF text[i].t = "alias" /\ \E a \in aliases : a.name = <<Name(text[i].v)>>
        THEN (CHOOSE a \in aliases : a.name = <<Name(text[i].v)>>).text
        ELSE <<text[i]>>])

Unresolved(text) == \E i \in DOMAIN text : text[i].t = "alias"

Active(scopes, ignored) == {s \in scopes : s.name \notin ignored}

\* Every scope of the trait has its aliases substituted, an ignored one too.
Resolved(scopes, aliases) == {[s EXCEPT !.text = Substitute(@, aliases)] : s \in scopes}

SerializeAliases(list) ==
    JoinedBy([i \in DOMAIN list |-> list[i].name \o <<Mark("=")>> \o Escape(list[i].text)], ";")

SerializeScopes(list, ignored) ==
    LET scopes == <<Name("scopes"), Mark(":")>> \o
                  JoinedBy([i \in DOMAIN list |-> list[i].name \o <<Mark("=")>> \o Escape(list[i].text)
                                                  \o <<Mark(":"), Name(list[i].target)>>], ";")
        ignore == <<Name("ignore"), Mark(":")>> \o FlattenSeq(SetToSeq(ignored))
    IN  IF ignored = {} THEN scopes ELSE JoinedBy(<<scopes, ignore>>, "|")

Inject ==
    /\ pc = "repo"
    /\ LET scopes == Resolved(decl.scopes, decl.aliases)
       IN  IF \E s \in scopes : Unresolved(s.text)
           THEN pc' = "error" /\ UNCHANGED hidden
           ELSE /\ \E as \in SetToSeqs(decl.aliases), ss \in SetToSeqs(scopes) :
                      hidden' = [aliases |-> SerializeAliases(as),
                                 scopes  |-> IF Active(scopes, decl.ignored) = {} THEN <<>>
                                             ELSE SerializeScopes(ss, decl.ignored)]
                /\ pc' = "extract"
    /\ UNCHANGED <<decl, managers, sql, kind>>

-----------------------------------------------------------------------------
(* #[dml]: parse_dml_method_with_args                                      *)

Pairs(text) == {p \in Pieces(text, ";") : p # <<>>}

\* split_once('='), which cuts a comparison in two as well
AtEquals(text) ==
    LET i == SelectInSeq(text, IsEquals)
    IN  IF text[i].t = "eq"
        THEN [left  |-> Append(Until(text, i), Name(text[i].v)),
              right |-> <<[text[i] EXCEPT !.t = "arg"]>> \o After(text, i)]
        ELSE [left |-> Until(text, i), right |-> After(text, i)]

\* Of the entries of one name the map keeps the one that came last.
OneOfEach(entries) ==
    {kept \in SUBSET entries : /\ \A e \in entries : \E k \in kept : k.name = e.name
                               /\ \A e, k \in kept : e.name = k.name => e = k}

\* AliasManager::deserialize_from_injection
AliasOf(pair) == [name |-> AtEquals(pair).left, text |-> AtEquals(pair).right]

AliasesWrong(text) == \E p \in Pairs(text) : SelectInSeq(p, IsEquals) = 0

\* Mutant: and so is one without a target.
EntriesWithTarget(part) ==
    {e \in Pairs(After(part, SelectInSeq(part, IsColon))) :
        SelectInSeq(e, IsEquals) # 0 /\ SelectInSeq(e, IsColon) # 0}

\* ScopeManager::deserialize_from_injection: an entry without "=" is passed
\* over, the target stands after the last ':'
Entries(part) == {e \in Pairs(After(part, SelectInSeq(part, IsColon))) : SelectInSeq(e, IsEquals) # 0}

ScopeOf(entry) ==
    LET e == AtEquals(entry)
        j == SelectLastInSeq(e.right, IsColon)
    IN  [name |-> e.left, text |-> Until(e.right, j), target |-> After(e.right, j)]

Prefix(part) == Until(part, SelectInSeq(part, IsColon))

Targets == {<<Name(t)>> : t \in Target}

EntryWrong(entry) ==
    LET e == AtEquals(entry).right
    IN  SelectInSeq(e, IsColon) = 0 \/ After(e, SelectLastInSeq(e, IsColon)) \notin Targets

ScopesWrong(text) ==
    \E part \in Pieces(text, "|") :
        \/ SelectInSeq(part, IsColon) = 0
        \/ Prefix(part) \notin {<<Name("scopes")>>, <<Name("ignore")>>}
        \/ Prefix(part) = <<Name("scopes")>> /\ \E e \in Entries(part) : EntryWrong(e)

\* Mutant: the names to ignore are not read back.
NoneIgnored(text) == {}

IgnoredIn(text) ==
    UNION {{<<tok>> : tok \in ToSet(After(part, 2))} :
           part \in {p \in Pieces(text, "|") : Prefix(p) = <<Name("ignore")>>}}

ScopesIn(text) ==
    UNION {{ScopeOf(e) : e \in Entries(part)} : part \in {p \in Pieces(text, "|") : Prefix(p) = <<Name("scopes")>>}}

\* #[generate_versions]: a variant of the method takes an executor first.
Params ==
    IF decl.variant = "" THEN decl.params
    ELSE <<[name |-> decl.variant, role |-> "pool", type |-> "one"]>> \o decl.params

\* Parameters of role "pool" and "dynamic" are not bound.
Args == Kept(Params, {i \in DOMAIN Params : Params[i].role = "arg"})

\* The executors among them
Pools == {i \in DOMAIN Params : Params[i].role = "pool"}

IsStream == decl.returns.wraps # <<>> /\ decl.returns.wraps[1] = "Stream"

\* extract_from_method_attributes, extract_parameters, run_pre_parsing_validations
Extract ==
    /\ pc = "extract"
    /\ IF \/ AliasesWrong(hidden.aliases)
          \/ hidden.scopes # <<>> /\ ScopesWrong(hidden.scopes)
          \/ \E i, j \in Pools : i # j
          \/ IsStream /\ decl.async
       THEN pc' = "error" /\ UNCHANGED managers
       ELSE /\ \E as \in OneOfEach({AliasOf(p) : p \in Pairs(hidden.aliases)}),
                 ss \in OneOfEach(ScopesIn(hidden.scopes)) :
                    managers' = [aliases |-> as, scopes |-> ss, ignored |-> IgnoredIn(hidden.scopes)]
            /\ pc' = "aliases"
    /\ UNCHANGED <<decl, hidden, sql, kind>>

\* apply_aliases_if_needed
ApplyAliases ==
    /\ pc = "aliases"
    /\ sql' = IF managers.aliases = {} THEN decl.clauses
              ELSE [c \in DOMAIN decl.clauses |-> Substitute(decl.clauses[c], managers.aliases)]
    /\ pc' = IF managers.aliases # {} /\ \E c \in DOMAIN sql' : Unresolved(sql'[c])
             THEN "error" ELSE "scopes"
    /\ UNCHANGED <<decl, hidden, managers, kind>>

-----------------------------------------------------------------------------
(* apply_scopes_to_sql: the scopes of a target come in any order (HashMap). *)

Texts(list, target) ==
    LET of == Kept(list, {i \in DOMAIN list : list[i].target = <<Name(target)>>})
    IN  [i \in DOMAIN of |-> of[i].text]

\* combine_where_conditions: nothing is put in parentheses.
Combined(existing, conds) ==
    LET all == <<existing>> \o conds
        some == Kept(all, {i \in DOMAIN all : all[i] # <<>>})
    IN  FlattenSeq([i \in DOMAIN some |-> IF i = 1 THEN some[i] ELSE <<And>> \o some[i]])

\* A SELECT scope adds the first of its items.
FirstItem(text) == <<text[1]>>

Scoped(cl, list) ==
    LET from == cl.from \o FlattenSeq(Texts(list, "from"))
        joins == FlattenSeq(Texts(list, "join"))
        items == Texts(list, "select")
    IN  [cl EXCEPT
           !.where = Combined(@, Texts(list, "where")),
           !.having = Combined(@, Texts(list, "having")),
           !.select = @ \o FlattenSeq([i \in DOMAIN items |-> FirstItem(items[i])]),
           !.from = IF from = <<>> /\ joins # <<>> THEN <<Item("__dummy__")>> \o joins ELSE from \o joins,
           !.group_by = @ \o FlattenSeq(Texts(list, "group_by")),
           !.order_by = @ \o FlattenSeq(Texts(list, "order_by"))]

SqlReadable == decl.readable /\ \A c \in DOMAIN sql : Readable(sql[c])

ApplyScopes ==
    /\ pc = "scopes"
    /\ LET active == Active(managers.scopes, managers.ignored)
       IN  IF active = {} THEN pc' = "named" /\ UNCHANGED sql
           ELSE IF \/ ~SqlReadable \/ decl.kind # "Select" \/ decl.body # "select"
                   \/ \E s \in active : s.text = <<>> \/ ~Readable(s.text)
           THEN pc' = "error" /\ UNCHANGED sql
           ELSE /\ \E list \in SetToSeqs(active) : sql' = Scoped(sql, list)
                /\ pc' = "named"
    /\ UNCHANGED <<decl, hidden, managers, kind>>

-----------------------------------------------------------------------------
(* convert_named_to_positional_in_sql                                      *)

Index(name) == SelectInSeq(Args, LAMBDA p : p.name = name)

\* Mutant: enumerate() without the + 1
PositionalFrom0(tok) ==
    IF tok.by # "@" THEN tok
    ELSE IF Numbered THEN [tok EXCEPT !.by = "$", !.k = Index(tok.v) - 1]
    ELSE [tok EXCEPT !.by = "?"]

Positional(tok) ==
    IF tok.by # "@" THEN tok
    ELSE IF Numbered THEN [tok EXCEPT !.by = "$", !.k = Index(tok.v)]
    ELSE [tok EXCEPT !.by = "?"]

Named == {tok.v : tok \in {x \in UNION {ToSet(sql[c]) : c \in DOMAIN sql} : x.by = "@"}}

Convert ==
    /\ pc = "named"
    /\ IF Args = <<>> THEN pc' = "detect" /\ UNCHANGED sql
       ELSE IF \E name \in Named : Index(name) = 0 THEN pc' = "error" /\ UNCHANGED sql
       ELSE /\ sql' = [c \in DOMAIN sql |-> [i \in DOMAIN sql[c] |-> Positional(sql[c][i])]]
            /\ pc' = "detect"
    /\ UNCHANGED <<decl, hidden, managers, kind>>

-----------------------------------------------------------------------------
(* parse_sql, detect_sql_type, run_post_parsing_validations                *)

ReturnsUnit == decl.returns.base = "()" /\ decl.returns.wraps \in {<<>>, <<"Result">>}

Detected == IF SqlReadable THEN decl.kind ELSE "Unknown"

\* More than one statement is an error of parse_sql; DDL is refused with
\* "unchecked" as without.
Detect ==
    /\ pc = "detect"
    /\ kind' = IF Detected = "Several" THEN "" ELSE Detected
    /\ pc' = IF \/ Detected \in {"Several", "DDL"}
                \/ ReturnsUnit /\ Detected \in Crud /\ ~decl.unchecked
             THEN "error" ELSE "built"
    /\ UNCHANGED <<decl, hidden, managers, sql>>

TInit ==
    /\ decl \in Methods
    /\ pc = "repo"
    /\ hidden = [aliases |-> <<>>, scopes |-> <<>>]
    /\ managers = [aliases |-> {}, scopes |-> {}, ignored |-> {}]
    /\ sql = decl.clauses
    /\ kind = ""

TNext == Inject \/ Extract \/ ApplyAliases \/ ApplyScopes \/ Convert \/ Detect

-----------------------------------------------------------------------------
(* What the statement means to the database.                               *)

\* AND binds tighter than OR; holding: the places of the conditions that hold
Truth(text, holding) ==
    text = <<>> \/
    \E i \in 1..Len(text), j \in 1..Len(text) :
        /\ i <= j
        /\ i = 1 \/ text[i - 1] = Or
        /\ j = Len(text) \/ text[j + 1] = Or
        /\ \A k \in i..j : text[k] # Or /\ (text[k].t \in {"is", "eq"} => k \in holding)

\* The places of the ? that stand before place i of clause c
Asked(text) == {i \in DOMAIN text : text[i].by = "?"}

Place(c) == CHOOSE n \in DOMAIN Clause : Clause[n] = c

AskedBefore(cl, c, i) ==
    UNION {{<<d, j>> : j \in {x \in Asked(cl[d]) : d = c => x < i}} :
           d \in {e \in ToSet(Clause) : Place(e) <= Place(c)}}

\* The parameter whose argument the database puts there, "" for none
BoundTo(cl, c, i) ==
    LET tok == cl[c][i]
        k == CASE tok.by = "?" -> Cardinality(AskedBefore(cl, c, i)) + 1
               [] tok.by = "$" -> tok.k
               [] OTHER -> 0
    IN  IF k \in DOMAIN Args THEN Args[k].name ELSE ""

Executed(c, row) ==
    Truth(sql[c], {i \in DOMAIN sql[c] :
        LET tok == sql[c][i]
            p == BoundTo(sql, c, i)
        IN  \/ tok.t = "is" /\ row[tok.v]
            \/ tok.t = "eq" /\ p # "" /\ row[tok.v] = Given(p)})

\* What is written, its aliases replaced
Written(text) == Substitute(text, decl.aliases)

Meant(text, row) ==
    LET w == Written(text)
    IN  Truth(w, {i \in DOMAIN w : \/ w[i].t = "is" /\ row[w[i].v]
                                   \/ w[i].t = "eq" /\ row[w[i].v] = Given(w[i].v)})

Applied(target) ==
    {s \in Active(decl.scopes, decl.ignored) : s.target = target}

-----------------------------------------------------------------------------
(* Properties.                                                             *)

RowsMeant(row) ==
    /\ Meant(decl.clauses.where, row) /\ Meant(decl.clauses.having, row)
    /\ \A s \in Applied("where") \cup Applied("having") : Meant(s.text, row)

RowsExecuted(row) == Executed("where", row) /\ Executed("having", row)

OrFree(text) == Or \notin ToSet(Written(text))

ScopeTexts == {Written(s.text) : s \in Active(decl.scopes, decl.ignored)}

Unnumbered(tok) == tok.by = "?" \/ (tok.by = "@" /\ ~Numbered)

\* The clauses without scopes, a ? for every parameter that gets no number
Asking(text) == [i \in DOMAIN text |-> IF Unnumbered(text[i]) THEN [text[i] EXCEPT !.by = "?"] ELSE text[i]]

OwnAsking == [c \in ToSet(Clause) |-> Asking(Written(decl.clauses[c]))]

\* A number written out is that of its parameter, a name that of some parameter.
\* What is not numbered stands where the argument of its parameter is put when
\* no scope is merged, and none of it stands in a scope.
InOrder ==
    /\ \A text \in {Written(decl.clauses[c]) : c \in ToSet(Clause)} \cup ScopeTexts : \A tok \in ToSet(text) :
          /\ tok.by = "$" => tok.k = Index(tok.v)
          /\ tok.by # "" => Index(tok.v) # 0
    /\ \A c \in ToSet(Clause) : \A i \in Asked(OwnAsking[c]) :
          BoundTo(OwnAsking, c, i) = Written(decl.clauses[c])[i].v
    /\ \A text \in ScopeTexts : \A tok \in ToSet(text) : ~Unnumbered(tok)

Selecting == pc = "built" /\ kind = "Select"

\* Behind a ";" in an alias stands no "=", and in no scope a target and "|".
\* Otherwise the rest of the text is taken for an alias, or a list, of its own:
\* in every other text that a separator tears apart, the pieces are refused.
NoEntryInside ==
    /\ \A a \in decl.aliases : \A i, j \in DOMAIN a.text :
          i < j /\ a.text[i] = Mark(";") => ~IsEquals(a.text[j])
    /\ \A s \in decl.scopes :
          LET w == Written(s.text)
          IN  \A i \in 1..(Len(w) - 2) : w[i] = Mark(":") /\ <<w[i + 1]>> \in Targets => w[i + 2] # Mark("|")

\* A method that compiles finds the rows that meet what is written in it and in
\* every scope of its trait but the ignored ones: no scope is lost or doubled on
\* the way through the attributes, whatever their order, and each argument goes
\* to its place.  Not so when a condition beside another holds an OR (it is put
\* in no parentheses), when ? stand in another order than the arguments or in a
\* scope, or when a text can be taken for an entry of its own.
RowsAsMeant ==
    Selecting /\ NoEntryInside /\ InOrder /\ (\A s \in Applied("where") \cup Applied("having") :
                                              OrFree(s.text) /\ OrFree(decl.clauses[s.target])) =>
        \A row \in Row : RowsExecuted(row) = RowsMeant(row)

\* The documentation's example, without the premises above
ScopesReachEveryRow == Selecting => \A row \in Row : RowsExecuted(row) = RowsMeant(row)

Bare(text) == [i \in DOMAIN text |-> <<text[i].t, text[i].v>>]

\* What is added to a clause, in some order of the scopes
Added(target) ==
    {FlattenSeq([i \in DOMAIN list |-> Written(list[i].text)]) : list \in SetToSeqs(Applied(target))}

\* Every other clause is what is written in it and after that every scope of
\* its target, once and whole.  Of a SELECT scope with several items only the
\* first is added; joins come after the tables of FROM scopes.
ClausesExtended ==
    Selecting /\ NoEntryInside =>
        /\ \A c \in {"group_by", "order_by"} :
             \E more \in Added(c) : Bare(sql[c]) = Bare(Written(decl.clauses[c]) \o more)
        /\ (\A s \in Applied("select") : Len(Written(s.text)) = 1) =>
             \E more \in Added("select") : Bare(sql.select) = Bare(Written(decl.clauses.select) \o more)
        /\ Written(decl.clauses.from) # <<>> =>
             \E f \in Added("from"), j \in Added("join") :
                Bare(sql.from) = Bare(Written(decl.clauses.from) \o f \o j)
=============================================================================
