---------------------------- MODULE MCPlaceholders ----------------------------
(***************************************************************************)
(* Families of queries: one SELECT, or two in a UNION, with placeholders   *)
(* before the conditions (select list, joins, WHERE), after them (HAVING)  *)
(* and in LIMIT and OFFSET.                                                *)
(***************************************************************************)
EXTENDS PlaceholderBinding

Body(n)  == [at |-> "body", ph |-> n]
Page1(n) == [at |-> "limit", ph |-> n]
Where    == [at |-> "where"]

Upto(S, n) == UNION {[1..k -> S] : k \in 0..n}

Bodies(S) == {Body(n) : n \in S}
Limits(S) == {Page1(n) : n \in S}

\* one SELECT: up to b placeholders before the conditions, a after, l in LIMIT
Single(S, b, a, l) ==
    {x \o <<Where>> \o y \o z :
        x \in Upto(Bodies(S), b), y \in Upto(Bodies(S), a), z \in Upto(Limits(S), l)}

Union(S, l) ==
    {x \o <<Where>> \o y \o <<Where>> \o z :
        x \in Upto(Bodies(S), 2), y \in Upto(Bodies(S), 1), z \in Upto(Limits(S), l)}

\* LIMIT $1 OFFSET $2, and other numbers before them
LimitsFirst == {x \o <<Page1(1), Page1(2)>> : x \in Single(3..5, 3, 1, 0)}
QuestionsBefore == Single({Bare}, 3, 0, 2)

In(texts, pagings, d) == {[text |-> t, paging |-> p, dialect |-> d] : t \in texts, p \in pagings}

Numbers4 == Single(1..4, 2, 1, 2) \cup Union(1..4, 2)

\* What is bound as meant
SoundUses ==
    {use \in In(Numbers4, BOOLEAN, "postgres") \cup In(LimitsFirst, BOOLEAN, "sqlite")
               \cup In(QuestionsBefore, BOOLEAN, "mysql") : Sound(use)}

\* LIMIT $1 OFFSET $2 that stay
KeptLimits == In({t \in LimitsFirst : \E use \in SoundUses : use.text = t}, {FALSE}, "sqlite")

\* ? in SQLite
SqliteQuestions == In(QuestionsBefore, {TRUE}, "sqlite")

\* ? in HAVING
QuestionsBehind == In(Single({Bare}, 2, 1, 0), {TRUE}, "mysql")
=============================================================================
