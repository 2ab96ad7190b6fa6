-------------------------- MODULE PlaceholderBinding --------------------------
(***************************************************************************)
(* From a query with placeholders and the arguments of its method to the   *)
(* statement that is sent: which value does each placeholder get?          *)
(*                                                                         *)
(*   generate_initial_binds   sqlx-data-macros/src/code_generator.rs       *)
(*   build_dynamic_sql        sqlx-data-parser/src/dynamic/builder.rs      *)
(*                                                                         *)
(* The arguments come in the order of the parameters.  Those of LIMIT and  *)
(* OFFSET are trimmed if the request brings its own; the conditions of the *)
(* request are put into the WHERE of every SELECT, and their values after  *)
(* all arguments; a last pass over the text numbers the placeholders anew  *)
(* in the order in which they stand, and reorders the values to match.     *)
(*                                                                         *)
(* A text is the sequence of its placeholders and of the places where      *)
(* conditions are put in.                                                  *)
(***************************************************************************)
EXTENDS Integers, FiniteSets, SequencesExt

CONSTANTS
    Uses,           \* the text of a method's query, whether the request brings a
                    \* limit or an offset, and the feature built with
    Values,         \* numbers of values a request's conditions may have
    MaxU8           \* the greatest u8, the type of the next number

Bare == -1          \* the number of a ? without one

Token == [at : {"body", "limit"}, ph : Int] \cup {[at |-> "where"]}

Use == [text : Seq(Token), paging : BOOLEAN, dialect : {"postgres", "sqlite", "mysql"}]

ASSUME UsesAssumption == Uses \subseteq Use
ASSUME ValuesAssumption == Values \subseteq Nat
ASSUME MaxU8Assumption == MaxU8 \in Nat

VARIABLES
    base,       \* the text the method was declared with
    count,      \* how many values the request's conditions have
    paging,     \* does the request bring a limit or an offset?
    dialect,    \* the database
    pc,         \* the step build_dynamic_sql has come to
    text,       \* the statement, so far
    means,      \* means[i]: the value token i of text stands for (history)
    binds,      \* bind_values
    original,   \* original_placeholder_numbers
    next,       \* the number the generator gives next
    pos,        \* how far the last pass has come
    oldToNew,   \* numbers it has met
    reordered   \* values in the order it met them

vars == <<base, count, paging, dialect, pc, text, means, binds, original, next, pos, oldToNew, reordered>>

Arg(n) == [from |-> "method", n |-> n]
Dyn(n) == [from |-> "request", n |-> n]
NoValue == [from |-> "nowhere", n |-> 0]

Question(t) == t.at # "where" /\ t.ph = Bare
Numbered(t) == t.at # "where" /\ t.ph # Bare

\* how many of the first i tokens are a ?
Rank(t, i) == Cardinality({j \in DOMAIN t : j <= i /\ Question(t[j])})

\* The value a placeholder of the declared query stands for: $n is the n-th
\* parameter of the method, a ? the one of its rank.
Meaning(t, i) == IF Numbered(t[i]) THEN Arg(t[i].ph)
                 ELSE IF Question(t[i]) THEN Arg(Rank(t, i)) ELSE NoValue

Numbers(t) == {t[i].ph : i \in {j \in DOMAIN t : Numbered(t[j])}}

\* parameters of a method with query t: as many as it has placeholders
Arity(t) == Cardinality(Numbers(t)) + Rank(t, Len(t))

\* the i-th of the positions P
Place(P, i) == CHOOSE p \in P : Cardinality({q \in P : q <= p}) = i

\* the elements of s at the positions P
At(s, P) == [i \in 1..Cardinality(P) |-> s[Place(P, i)]]

-----------------------------------------------------------------------------
Init ==
    /\ \E use \in Uses : base = use.text /\ paging = use.paging /\ dialect = use.dialect
    /\ count \in Values
    /\ pc = "trim"
    /\ text = base
    /\ means = [i \in DOMAIN base |-> Meaning(base, i)]
    /\ binds = [n \in 1..Arity(base) |-> Arg(n)]
    /\ original = <<>>
    /\ next = 0
    /\ pos = 0
    /\ oldToNew = [n \in {} |-> 0]
    /\ reordered = <<>>

request == <<base, count, paging, dialect>>

Limit(t) == {i \in DOMAIN t : t[i].at = "limit"}

\* the numbers of trimmed placeholders: none if they are ?
Trimmed == IF paging THEN {text[i].ph : i \in Limit(text)} \ {Bare} ELSE {}

\* A number that LIMIT and OFFSET share is taken out twice: the value behind it goes too.
Shared == {n \in Trimmed : \E i, j \in Limit(text) : i < j /\ text[i].ph = n /\ text[j].ph = n}

\* trim_limit_offset_placeholder_binds: by number, or as many from the end
Trim(b, t) ==
    IF Trimmed # {} THEN At(b, DOMAIN b \ (Trimmed \cup {n + 1 : n \in Shared}))
    ELSE SubSeq(b, 1, Len(b) - Cardinality(Limit(t)))

\* Mutant: numbers whose values are trimmed are collected too.
CollectAll(t) ==
    LET first == {i \in DOMAIN t : /\ Numbered(t[i])
                                   /\ \A j \in 1..(i - 1) : Numbered(t[j]) => t[j].ph # t[i].ph}
    IN  [i \in DOMAIN At(t, first) |-> At(t, first)[i].ph]

\* collect_numbered_placeholders: each number once, where it stands first, but
\* not the trimmed ones
Collect(t) ==
    LET first == {i \in DOMAIN t : /\ Numbered(t[i]) /\ t[i].ph \notin Trimmed
                                   /\ \A j \in 1..(i - 1) : Numbered(t[j]) => t[j].ph # t[i].ph}
    IN  [i \in DOMAIN At(t, first) |-> At(t, first)[i].ph]

MaxExisting == IF original = <<>> THEN 0 ELSE CHOOSE n \in ToSet(original) :
                                              \A m \in ToSet(original) : m <= n

\* Mutant: no width.
U8Wide(n) == n

U8(n) == n % (MaxU8 + 1)

Prepare ==
    /\ pc = "trim"
    /\ binds' = IF paging THEN Trim(binds, text) ELSE binds
    /\ original' = Collect(text)
    /\ pc' = "start"
    /\ UNCHANGED <<request, text, means, next, pos, oldToNew, reordered>>

\* make_generator: the greatest number in use, or the number of values, plus one
Start ==
    /\ pc = "start"
    /\ next' = U8(U8(IF MaxExisting > 0 THEN MaxExisting ELSE Len(binds)) + 1)
    /\ pc' = "bind"
    /\ UNCHANGED <<request, text, means, binds, original, pos, oldToNew, reordered>>

Generated(n) == IF dialect = "mysql" THEN Bare ELSE U8(n)

Next8 == U8(next + count)

\* s with the elements of x for its i-th
Put(s, i, x) == SubSeq(s, 1, i - 1) \o x \o SubSeq(s, i + 1, Len(s))

\* process_select: the conditions are put into the first WHERE that has none,
\* a placeholder and a value for each.
Conditions ==
    /\ pc = "bind"
    /\ \E i \in DOMAIN text :
         /\ text[i].at = "where"
         /\ \A j \in 1..(i - 1) : text[j].at # "where"
         /\ text' = Put(text, i, [k \in 1..count |-> [at |-> "body", ph |-> Generated(next + k - 1)]])
         /\ means' = Put(means, i, [k \in 1..count |-> Dyn(k)])
    /\ binds' = binds \o [k \in 1..count |-> Dyn(k)]
    /\ next' = Next8
    /\ UNCHANGED <<request, pc, original, pos, oldToNew, reordered>>

\* LIMIT and OFFSET of the request, which are literals, replace those of the query.
Page ==
    /\ pc = "bind"
    /\ \A i \in DOMAIN text : text[i].at # "where"
    /\ LET kept == IF paging THEN DOMAIN text \ Limit(text) ELSE DOMAIN text
       IN  text' = At(text, kept) /\ means' = At(means, kept)
    /\ pc' = "number"
    /\ UNCHANGED <<request, binds, original, next, pos, oldToNew, reordered>>

\* Mutant: a number that is not in the query counts from the start of the values.
BindPositionShifted(n) ==
    IF n \in ToSet(original) THEN CHOOSE p \in DOMAIN original : original[p] = n
    ELSE n - MaxExisting

\* where renumber_numbered_placeholders_with_binds finds the value of number n;
\* 0 where it looks for it beyond the end
BindPosition(n) ==
    IF n \in ToSet(original) THEN CHOOSE p \in DOMAIN original : original[p] = n
    ELSE IF n > MaxExisting THEN Len(original) + n - MaxExisting
    ELSE 0

Fresh(t) == Numbered(t) /\ t.ph \notin DOMAIN oldToNew

\* One $n: a number met before keeps its new number; another gets the next one,
\* and its value, if there is one, is the next value.
Renumber ==
    /\ pc = "number" /\ pos < Len(text)
    /\ pos' = pos + 1
    /\ IF Fresh(text[pos'])
       THEN LET n == text[pos'].ph IN
            /\ oldToNew' = [m \in DOMAIN oldToNew \cup {n} |->
                               IF m = n THEN Cardinality(DOMAIN oldToNew) + 1 ELSE oldToNew[m]]
            /\ reordered' = IF BindPosition(n) \in DOMAIN binds
                            THEN Append(reordered, binds[BindPosition(n)]) ELSE reordered
       ELSE UNCHANGED <<oldToNew, reordered>>
    /\ UNCHANGED <<request, pc, text, means, binds, original, next>>

\* Without a single value moved, text and values stay as they were.
Send ==
    /\ pc = "number" /\ pos = Len(text)
    /\ IF reordered = <<>> THEN UNCHANGED <<text, binds>>
       ELSE /\ text' = [i \in DOMAIN text |->
                 IF Numbered(text[i]) THEN [text[i] EXCEPT !.ph = oldToNew[@]] ELSE text[i]]
            /\ binds' = reordered
    /\ pc' = "sent"
    /\ UNCHANGED <<request, means, original, next, pos, oldToNew, reordered>>

Next == Prepare \/ Start \/ Conditions \/ Page \/ Renumber \/ Send

Spec == Init /\ [][Next]_vars

-----------------------------------------------------------------------------
\* The value the driver gives to token i: by its number, or by its rank among
\* those without.
Asks(i) == IF Numbered(text[i]) THEN text[i].ph ELSE Rank(text, i)

Given(i) ==
    IF Asks(i) \in DOMAIN binds THEN binds[Asks(i)] ELSE NoValue

-----------------------------------------------------------------------------
(* The queries for which the scheme is sound.                              *)

\* placeholders that LIMIT and OFFSET of the request replace, and the others
Gone(use) == IF use.paging THEN Limit(use.text) ELSE {}
Kept(use) == {i \in DOMAIN use.text : use.text[i].at # "where"} \ Gone(use)

\* The parameters are $1, ..., $m.  Those that stay come first in ascending
\* order; a number that goes stands nowhere else.
NumbersInOrder(use) ==
    LET t == use.text IN
    /\ use.dialect # "mysql"
    /\ \A i \in DOMAIN t : ~Question(t[i])
    /\ Numbers(t) = 1..Cardinality(Numbers(t))
    /\ \A i \in Kept(use) \cup Gone(use), j \in Gone(use) : i # j => t[i].ph # t[j].ph
    /\ \A i, j \in Kept(use) : t[i].ph < t[j].ph =>
                               \E k \in Kept(use) : k < j /\ t[k].ph = t[i].ph

\* A u8 holds the numbers of all conditions.
NumbersFit(use) ==
    LET t == use.text IN
    \A c \in Values : \A n \in {0} \cup {t[i].ph : i \in Kept(use)} :
        n + Cardinality({i \in DOMAIN t : t[i].at = "where"}) * c <= MaxU8

\* MySQL: every ? that stays stands before the conditions, every other in LIMIT
\* and OFFSET behind them.
QuestionsFirst(use) ==
    LET t == use.text IN
    /\ use.dialect = "mysql"
    /\ \A i \in DOMAIN t : ~Numbered(t[i])
    /\ \A i \in Kept(use) : 1..i \subseteq Kept(use)
    /\ \A i \in Gone(use), j \in DOMAIN t : i < j => j \in Gone(use)

Sound(use) == QuestionsFirst(use) \/ (NumbersInOrder(use) /\ NumbersFit(use))

-----------------------------------------------------------------------------
(* Properties.                                                             *)

TypeOK ==
    /\ [text |-> base, paging |-> paging, dialect |-> dialect] \in Use
    /\ count \in Values
    /\ pc \in {"trim", "start", "bind", "number", "sent"}
    /\ text \in Seq(Token)
    /\ DOMAIN means = DOMAIN text
    /\ next \in 0..MaxU8
    /\ pos \in 0..Len(text)
    /\ \A n \in DOMAIN oldToNew : oldToNew[n] \in Nat

\* Each placeholder of the statement that is sent gets the value it stands for:
\* the parameter its author named, or the value of the condition it belongs to.
BoundAsMeant ==
    pc = "sent" => \A i \in DOMAIN text : Given(i) = means[i]

\* Each value that is sent is asked for by a placeholder, and each placeholder
\* has a value: a database that counts the arguments accepts the statement.
ArgumentsMatch ==
    pc = "sent" =>
        DOMAIN binds = {Asks(i) : i \in DOMAIN text}
=============================================================================
