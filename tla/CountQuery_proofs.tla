-------------------------- MODULE CountQuery_proofs --------------------------
(***************************************************************************)
(* What the conditions of a request leave of a method's own WHERE, which   *)
(* rows they select, and what the count statement counts, for every table, *)
(* statement and request.                                                  *)
(*                                                                         *)
(* A WHERE keeps its disjuncts, and each disjunct its atoms: the request   *)
(* adds to the last one, and nothing it adds is a disjunct of its own.     *)
(* That is OwnInv, and what it means to the database is lemma KeptNarrows. *)
(*                                                                         *)
(* A SELECT that is done has the conditions of the request with the        *)
(* arguments that they are about at their places (PlacedInv): where those  *)
(* are, FlattenAt says of sequences one after the other, and that each     *)
(* condition is true of the rows that are meant, FilterMeans, SearchMeans  *)
(* and CursorMeans.                                                        *)
(*                                                                         *)
(* The WHEREs that are done have between them, in the order of the text,   *)
(* one number for each argument that is bound for the request (OrderInv):  *)
(* a text goes on with the numbers of the one before it (OrderBeside), and *)
(* the parts of a request do so when they are joined (RequestInOrder).     *)
(***************************************************************************)
EXTENDS CountQuery, FiniteSetTheorems, SequenceTheorems, TLAPS

\* A conjunction, without an OR outside its parentheses
Conjunction(text) == \E V : \E c \in Seq(V) : text = <<c>>

\* A disjunction of conjunctions
Disjunction(text) == text # <<>> /\ \E V : text \in Seq(Seq(V))

\* What text is when it is own with more beside it: no disjunct is new, and
\* none has lost an atom.
KeepsOwn(text, own) ==
    own # <<>> =>
        /\ text # <<>>
        /\ DOMAIN text = DOMAIN own
        /\ \A d \in DOMAIN own : ToSet(own[d]) \subseteq ToSet(text[d])

-----------------------------------------------------------------------------
(* Texts.                                                                  *)

\* A disjunction is true when one of its parts is, a conjunction when all are.
LEMMA TruthValues ==
    ASSUME NEW S
    PROVE  /\ Greatest(S) = 2 <=> 2 \in S
           /\ Least(S) = 2 <=> 0 \notin S /\ 1 \notin S
<1>1. CASE 0 \in S
    BY <1>1 DEF Greatest, Least
<1>2. CASE 0 \notin S
    BY <1>2 DEF Greatest, Least
<1> QED BY <1>1, <1>2

\* A conjunction that grows is true of fewer rows, whatever is bound.
LEMMA KeptNarrows ==
    ASSUME NEW text, NEW own, NEW binds, KeepsOwn(text, own)
    PROVE  Selects(text, binds) \subseteq Selects(own, binds)
<1> SUFFICES ASSUME own # <<>>, NEW row \in Row, HoldsText(text, row, binds) = 2
             PROVE  HoldsText(own, row, binds) = 2
    BY DEF Selects, KeepsOwn
<1> DEFINE Value(atom) == IF atom.op = "Nested" THEN HoldsFlat(atom.text, row, binds)
                          ELSE Holds(atom, row, binds)
           Values(conj) == {Value(atom) : atom \in ToSet(conj)}
           Of(t) == {Least(Values(conj)) : conj \in ToSet(t)}
<1>1. HoldsText(text, row, binds) = Greatest(Of(text)) /\ HoldsText(own, row, binds) = Greatest(Of(own))
    BY DEF HoldsText
<1>2. 2 \in Of(text)
  <2> HIDE DEF Of
  <2> QED BY <1>1, TruthValues
<1>3. PICK d \in DOMAIN text : Least(Values(text[d])) = 2
    BY <1>2 DEF ToSet
<1>4. d \in DOMAIN own /\ Values(own[d]) \subseteq Values(text[d])
    BY <1>3 DEF KeepsOwn
<1> HIDE DEF Values
<1>5. 0 \notin Values(text[d]) /\ 1 \notin Values(text[d])
    BY <1>3, TruthValues
<1>6. Least(Values(own[d])) = 2
    BY <1>4, <1>5, TruthValues
<1>7. 2 \in Of(own)
    BY <1>4, <1>6 DEF ToSet
<1> HIDE DEF Of
<1> QED
    BY <1>1, <1>7, TruthValues

\* What stands on its own side by side with a conjunction keeps all it was.
LEMMA AndKeeps ==
    ASSUME NEW U, NEW own \in Seq(Seq(U)), own # <<>>, NEW text, Conjunction(text)
    PROVE  KeepsOwn(and(own, text), own)
<1>1. PICK V : \E c \in Seq(V) : text = <<c>>
    BY DEF Conjunction
<1>2. PICK c \in Seq(V) : text = <<c>>
    BY <1>1
<1> DEFINE W == U \cup V
           n == Len(own)
<1>3. own \in Seq(Seq(W)) /\ c \in Seq(W) /\ n \in Nat /\ n > 0
    BY SMT
<1>4. Head(text) = c /\ Tail(text) = <<>>
    BY <1>2
<1>5. own[n] \in Seq(W) /\ own[n] \o c \in Seq(W)
    BY <1>3
<1>6. Front(own) \in Seq(Seq(W)) /\ Len(Front(own)) = n - 1 /\ \A d \in 1..(n - 1) : Front(own)[d] = own[d]
  <2> HIDE DEF W, n
  <2>1. n - 1 \in 0..n
      BY <1>3
  <2>2. Len(own) = n
      BY DEF n
  <2> QED BY <1>3, <2>1, <2>2, Z3 DEF Front
<1>7. and(own, text) = Front(own) \o <<own[n] \o c>> \o <<>>
    BY <1>4 DEF and, Last
<1> DEFINE front == Front(own)
           last == own[n] \o c
           all == front \o <<last>> \o <<>>
<1>8. /\ all \in Seq(Seq(W)) /\ Len(all) = n
      /\ \A d \in 1..(n - 1) : all[d] = own[d]
      /\ all[n] = last
  <2>1. /\ front \in Seq(Seq(W)) /\ Len(front) = n - 1 /\ last \in Seq(W)
        /\ \A d \in 1..(n - 1) : front[d] = own[d]
      BY <1>5, <1>6
  <2> HIDE DEF front, last, W, n
  <2>2. <<last>> \in Seq(Seq(W)) /\ Len(<<last>>) = 1
      BY <2>1
  <2>3. front \o <<last>> \in Seq(Seq(W)) /\ Len(front \o <<last>>) = n
      BY <1>3, <2>1, <2>2
  <2>4. all = front \o <<last>>
      BY <2>3
  <2>5. (front \o <<last>>)[n] = last
      BY <1>3, <2>1, <2>2
  <2>6. \A d \in 1..(n - 1) : (front \o <<last>>)[d] = front[d]
      BY <1>3, <2>1, <2>2
  <2> QED BY <2>1, <2>3, <2>4, <2>5, <2>6
<1>9. ToSet(own[n]) \subseteq ToSet(last)
  <2> HIDE DEF W, n
  <2> SUFFICES ASSUME NEW i \in DOMAIN own[n] PROVE \E j \in DOMAIN last : last[j] = own[n][i]
      BY DEF ToSet
  <2>1. i \in 1..Len(own[n]) /\ i \in DOMAIN last /\ last[i] = own[n][i]
      BY <1>3, <1>5 DEF last
  <2> QED BY <2>1
<1>10. \A d \in DOMAIN own : ToSet(own[d]) \subseteq ToSet(all[d])
  <2> HIDE DEF all, last, W
  <2> TAKE d \in DOMAIN own
  <2>1. d \in 1..n
      BY <1>3
  <2>2. CASE d = n
    <3> HIDE DEF n
    <3> QED BY <2>2, <1>8, <1>9, Zenon
  <2>3. CASE d # n
    <3> HIDE DEF n
    <3>1. d \in 1..(n - 1)
        BY <2>1, <2>3, <1>3
    <3>2. all[d] = own[d]
        BY <3>1, <1>8
    <3> QED BY <3>2, Zenon
  <2> QED BY <2>2, <2>3
<1>11. DOMAIN all = DOMAIN own /\ all # <<>>
  <2> HIDE DEF all, last, W
  <2> QED BY <1>3, <1>8
<1> HIDE DEF all
<1> QED
    BY <1>7, <1>10, <1>11 DEF KeepsOwn, all

\* Parentheses leave one conjunction of any condition.
LEMMA GroupedIsOne ==
    ASSUME NEW text, Disjunction(text)
    PROVE  Conjunction(Grouped(text))
<1>1. PICK V : text \in Seq(Seq(V))
    BY DEF Disjunction
<1>2. CASE contains_or(text)
  <2> DEFINE atom == [op |-> "Nested", text |-> text]
  <2>1. Grouped(text) = <<<<atom>>>> /\ <<atom>> \in Seq({atom})
      BY <1>2 DEF Grouped, Nested
  <2> HIDE DEF atom
  <2> QED BY <2>1 DEF Conjunction
<1>3. CASE ~contains_or(text)
  <2>1. Len(text) = 1 /\ text[1] \in Seq(V)
    <3> DEFINE C == Seq(V)
    <3>1. text \in Seq(C) /\ text # <<>> /\ ~(Len(text) > 1)
        BY <1>1, <1>3 DEF contains_or, Disjunction
    <3> HIDE DEF C
    <3>2. Len(text) = 1 /\ text[1] \in C
        BY <3>1
    <3> QED BY <3>2 DEF C
  <2>2. text = <<text[1]>>
      BY <1>1, <2>1
  <2>3. Grouped(text) = text
      BY <1>3 DEF Grouped
  <2> QED BY <2>1, <2>2, <2>3 DEF Conjunction
<1> QED BY <1>2, <1>3

\* A conjunction is a condition, and beside another one conjunction.
LEMMA ConjunctionsJoin ==
    /\ \A t : Conjunction(t) => Disjunction(t)
    /\ \A s, t : Conjunction(s) /\ Conjunction(t) => Conjunction(and(s, t))
<1>1. ASSUME NEW t, Conjunction(t) PROVE Disjunction(t)
  <2>1. PICK V : \E c \in Seq(V) : t = <<c>>
      BY <1>1 DEF Conjunction
  <2> QED BY <2>1 DEF Disjunction
<1>2. ASSUME NEW s, NEW t, Conjunction(s), Conjunction(t) PROVE Conjunction(and(s, t))
  <2>1. PICK V : \E c \in Seq(V) : s = <<c>>
      BY <1>2 DEF Conjunction
  <2>2. PICK c \in Seq(V) : s = <<c>>
      BY <2>1
  <2>3. PICK W : \E e \in Seq(W) : t = <<e>>
      BY <1>2 DEF Conjunction
  <2>4. PICK e \in Seq(W) : t = <<e>>
      BY <2>3
  <2> DEFINE X == V \cup W
  <2>5. c \in Seq(X) /\ e \in Seq(X)
      OBVIOUS
  <2>6. Front(s) = <<>> /\ Last(s) = c /\ Head(t) = e /\ Tail(t) = <<>>
      BY <2>2, <2>4 DEF Front, Last
  <2>7. and(s, t) = <<>> \o <<c \o e>> \o <<>>
      BY <2>6 DEF and
  <2> HIDE DEF X
  <2>8. c \o e \in Seq(X)
      BY <2>5
  <2>9. <<>> \o <<c \o e>> \o <<>> = <<c \o e>>
      BY <2>8
  <2> QED BY <2>7, <2>8, <2>9 DEF Conjunction
<1> QED BY <1>1, <1>2

\* Whatever the parts of a request are, one conjunction joins a WHERE.
LEMMA DynamicIsOne ==
    ASSUME NEW existing, existing # <<>>, NEW parts, Len(parts) \in 1..3,
           \A i \in 1..Len(parts) : Disjunction(parts[i])
    PROVE  Conjunction(Dynamic(existing, parts))
<1>1. \A s, t : Disjunction(s) /\ Disjunction(t) => Conjunction(grouped_and(s, t))
    BY GroupedIsOne, ConjunctionsJoin DEF grouped_and
<1>2. Disjunction(Reduced(parts))
  <2>1. CASE Len(parts) = 1
      BY <2>1 DEF Reduced
  <2>2. CASE Len(parts) = 2
    <3>1. Reduced(parts) = grouped_and(parts[1], parts[2])
        BY <2>2 DEF Reduced
    <3> QED BY <2>2, <3>1, <1>1, ConjunctionsJoin
  <2>3. CASE Len(parts) = 3
    <3>1. Reduced(parts) = grouped_and(grouped_and(parts[1], parts[2]), parts[3])
        BY <2>3 DEF Reduced
    <3>2. Disjunction(grouped_and(parts[1], parts[2]))
        BY <2>3, <1>1, ConjunctionsJoin
    <3> QED BY <2>3, <3>1, <3>2, <1>1, ConjunctionsJoin
  <2> QED BY <2>1, <2>2, <2>3
<1>3. Dynamic(existing, parts) = Grouped(Reduced(parts))
    BY DEF Dynamic, Grouped
<1> QED BY <1>2, <1>3, GroupedIsOne

\* A sequence has a length and the places below it.
LEMMA Sequences ==
    ASSUME NEW s, IsSequence(s)
    PROVE  /\ Len(s) \in Nat
           /\ DOMAIN s = 1..Len(s)
           /\ s # <<>> <=> Len(s) # 0
           /\ s \in Seq(ToSet(s))
<1> DEFINE n == Len(s)
           S == ToSet(s)
<1>1. n \in Nat /\ s = [i \in 1..n |-> s[i]]
    BY DEF IsSequence
<1> HIDE DEF n
<1>2. DOMAIN s = 1..n
    BY <1>1
<1>3. \A i \in 1..n : s[i] \in S
    BY <1>2 DEF ToSet
<1> HIDE DEF S
<1>4. [i \in 1..n |-> s[i]] \in Seq(S)
    BY <1>1, <1>3
<1>5. s \in Seq(S)
    BY <1>1, <1>4
<1>6. s # <<>> <=> Len(s) # 0
    BY <1>5
<1> QED BY <1>1, <1>2, <1>5, <1>6 DEF n, S

\* A filter, a search and a cursor are conditions each.
LEMMA PartsAreDisjunctions ==
    ASSUME NEW bound,
           IsSequence(params.filters), IsSequence(params.sorts), IsSequence(params.search.fields),
           IsSequence(params.cursor.values), ~CursorWrong
    PROVE  /\ Len(Parts(bound)) \in 0..3
           /\ Parts(bound) # <<>> => Len(Parts(bound)) > 0
           /\ \A i \in 1..Len(Parts(bound)) : Disjunction(Parts(bound)[i])
<1>1. ASSUME params.filters # <<>> PROVE Disjunction(FilterCond(bound))
  <2> DEFINE At(i) == FilterAtom(params.filters[i],
                                 [k \in DOMAIN FilterBinds(params.filters[i]) |-> bound + Taken(i - 1) + k])
             n == Len(params.filters)
             V == {At(i) : i \in 1..n}
  <2>1. n \in Nat /\ DOMAIN params.filters = 1..n
      BY Sequences
  <2>2. FilterCond(bound) = <<[i \in DOMAIN params.filters |-> At(i)]>>
      BY DEF FilterCond
  <2>3. \A i \in 1..n : At(i) \in V
      OBVIOUS
  <2> HIDE DEF At, n, V
  <2>4. [i \in 1..n |-> At(i)] \in Seq(V)
      BY <2>1, <2>3
  <2>5. <<[i \in 1..n |-> At(i)]>> \in Seq(Seq(V)) /\ <<[i \in 1..n |-> At(i)]>> # <<>>
      BY <2>4
  <2>6. FilterCond(bound) = <<[i \in 1..n |-> At(i)]>>
      BY <2>1, <2>2
  <2> QED BY <2>5, <2>6 DEF Disjunction
<1>2. ASSUME NEW b, Searching PROVE Disjunction(SearchCond(b))
  <2> DEFINE At(i) == Atom(IF params.search.case_sensitive THEN "Like" ELSE "LowerLike",
                           params.search.fields[i], FALSE, <<b + i>>)
             n == Len(params.search.fields)
             V == {At(i) : i \in 1..n}
  <2>1. n \in Nat /\ DOMAIN params.search.fields = 1..n /\ n # 0
      BY <1>2, Sequences DEF Searching
  <2>2. SearchCond(b) = [i \in 1..n |-> <<At(i)>>]
      BY <2>1 DEF SearchCond
  <2>3. \A i \in 1..n : At(i) \in V
      OBVIOUS
  <2> HIDE DEF At, n, V
  <2>4. \A i \in 1..n : <<At(i)>> \in Seq(V)
      BY <2>3
  <2>5. SearchCond(b) \in Seq(Seq(V)) /\ Len(SearchCond(b)) = n
      BY <2>1, <2>2, <2>4
  <2> QED BY <2>1, <2>5 DEF Disjunction
<1>3. ASSUME NEW b, Seeking PROVE Disjunction(CursorCond(b))
  <2> DEFINE At(i, j) == Atom(IF j = i THEN Operator(i) ELSE "Eq", params.sorts[j].field, FALSE, <<b + j>>)
             n == Len(params.sorts)
             V == {At(i, j) : i \in 1..n, j \in 1..n}
  <2>1. n \in Nat /\ DOMAIN params.sorts = 1..n /\ n # 0
    <3>1. Len(params.cursor.values) # 0
        BY <1>3, Sequences DEF Seeking
    <3>2. Len(params.sorts) = Len(params.cursor.values)
        BY <1>3 DEF CursorWrong
    <3> QED BY <3>1, <3>2, Sequences
  <2>2. CursorCond(b) = [i \in 1..n |-> [j \in 1..i |-> At(i, j)]]
      BY <2>1 DEF CursorCond
  <2>3. \A i, j \in 1..n : At(i, j) \in V
    <3> HIDE DEF At, n
    <3> QED OBVIOUS
  <2> HIDE DEF At, n, V
  <2>4. ASSUME NEW i \in 1..n PROVE [j \in 1..i |-> At(i, j)] \in Seq(V)
      BY <2>1, <2>3
  <2>5. CursorCond(b) \in Seq(Seq(V)) /\ Len(CursorCond(b)) = n
    <3> DEFINE C == Seq(V)
               c(i) == [j \in 1..i |-> At(i, j)]
    <3>1. \A i \in 1..n : c(i) \in C
        BY <2>4
    <3> HIDE DEF C, c
    <3>2. [i \in 1..n |-> c(i)] \in Seq(C) /\ Len([i \in 1..n |-> c(i)]) = n
        BY <3>1, <2>1
    <3> QED BY <2>2, <3>2 DEF C, c
  <2> QED BY <2>1, <2>5 DEF Disjunction
<1> DEFINE n == bound + Taken(Len(params.filters))
           m == IF Searching THEN Len(params.search.fields) ELSE 0
           T == {t \in {FilterCond(bound), SearchCond(n), CursorCond(n + m)} : Disjunction(t)}
           x == IF params.filters # <<>> THEN <<FilterCond(bound)>> ELSE <<>>
           y == IF Searching THEN <<SearchCond(n)>> ELSE <<>>
           z == IF Seeking THEN <<CursorCond(n + m)>> ELSE <<>>
<1>4. Parts(bound) = x \o y \o z
    BY DEF Parts
<1>5. x \in Seq(T) /\ Len(x) \in 0..1
  <2>1. params.filters # <<>> => FilterCond(bound) \in T
      BY <1>1
  <2> HIDE DEF T
  <2>2. CASE params.filters # <<>>
      BY <2>1, <2>2
  <2>3. CASE params.filters = <<>>
      BY <2>3
  <2> QED BY <2>2, <2>3
<1>6. y \in Seq(T) /\ Len(y) \in 0..1
  <2>1. Searching => SearchCond(n) \in T
      BY <1>2
  <2> HIDE DEF T
  <2>2. CASE Searching
      BY <2>1, <2>2
  <2>3. CASE ~Searching
      BY <2>3
  <2> QED BY <2>2, <2>3
<1>7. z \in Seq(T) /\ Len(z) \in 0..1
  <2>1. Seeking => CursorCond(n + m) \in T
      BY <1>3
  <2> HIDE DEF T, n, m
  <2>2. CASE Seeking
      BY <2>1, <2>2
  <2>3. CASE ~Seeking
      BY <2>3
  <2> QED BY <2>2, <2>3
<1>8. \A t \in T : Disjunction(t)
    OBVIOUS
<1> HIDE DEF T, x, y, z
<1>9. x \o y \o z \in Seq(T) /\ Len(x \o y \o z) \in 0..3
  <2>1. x \o y \in Seq(T) /\ Len(x \o y) = Len(x) + Len(y)
      BY <1>5, <1>6
  <2>2. (x \o y) \o z \in Seq(T) /\ Len((x \o y) \o z) = Len(x \o y) + Len(z)
      BY <2>1, <1>7
  <2>3. Len(x) + Len(y) + Len(z) \in 0..3
    <3>1. \A a, b, c \in 0..1 : a + b + c \in 0..3
        OBVIOUS
    <3>2. Len(x) \in 0..1 /\ Len(y) \in 0..1 /\ Len(z) \in 0..1
        BY <1>5, <1>6, <1>7
    <3> QED BY <3>1, <3>2, Zenon
  <2>4. Len((x \o y) \o z) = Len(x) + Len(y) + Len(z)
      BY <2>1, <2>2
  <2>5. Len((x \o y) \o z) \in 0..3
      BY <2>3, <2>4
  <2> QED BY <2>2, <2>5
<1>10. \A i \in 1..Len(x \o y \o z) : (x \o y \o z)[i] \in T
    BY <1>9
<1>11. x \o y \o z # <<>> => Len(x \o y \o z) > 0
    BY <1>9
<1> QED
    BY <1>4, <1>8, <1>9, <1>10, <1>11

\* Whatever is asked for, a SELECT's own WHERE is kept.
LEMMA CombinedKeeps ==
    ASSUME NEW U, NEW own \in Seq(Seq(U)), NEW parts, Len(parts) \in 0..3,
           parts # <<>> => Len(parts) > 0,
           \A i \in 1..Len(parts) : Disjunction(parts[i])
    PROVE  KeepsOwn(Combined(own, parts), own)
<1>1. CASE own = <<>>
    BY <1>1 DEF KeepsOwn
<1>2. CASE own # <<>> /\ parts = <<>>
    BY <1>2 DEF KeepsOwn, Combined
<1>3. CASE own # <<>> /\ parts # <<>>
  <2>1. Conjunction(Dynamic(own, parts))
      BY <1>3, DynamicIsOne
  <2>2. Combined(own, parts) = and(own, Dynamic(own, parts))
      BY <1>3 DEF Combined
  <2> QED BY <1>3, <2>1, <2>2, AndKeeps
<1> QED BY <1>1, <1>2, <1>3

-----------------------------------------------------------------------------
(* The WHERE of each SELECT.                                               *)

\* What a call hands over, and where the work on it is
ShapeInv ==
    /\ statement \in Statements
    /\ IsSequence(params.filters) /\ IsSequence(params.sorts)
    /\ IsSequence(params.search.fields) /\ IsSequence(params.cursor.values)
    /\ written \in Seq(Text)
    /\ DOMAIN written = DOMAIN statement.selects
    /\ DOMAIN wheres = DOMAIN written
    /\ at \in 0..Len(statement.selects)
    /\ pc \in {"where", "built", "error"}
    /\ pc = "built" => at = Len(statement.selects)

\* A SELECT that is done has kept its WHERE, one that is not has it unchanged.
OwnInv ==
    /\ ShapeInv
    /\ \A i \in DOMAIN wheres : i > at => wheres[i] = written[i]
    /\ \A i \in DOMAIN wheres : KeepsOwn(wheres[i], written[i])

LEMMA OwnInit == Init => OwnInv
<1> SUFFICES ASSUME Init PROVE OwnInv
    OBVIOUS
<1>1. PICK c \in Calls : statement = c.statement /\ wheres = c.wheres /\ params = c.params
    BY DEF Init
<1>2. written = wheres /\ at = 0 /\ pc = "where"
    BY DEF Init
<1>3. statement \in Statements
    BY <1>1, CountAssumption
<1>4. /\ wheres \in Seq(Text) /\ DOMAIN wheres = DOMAIN statement.selects
      /\ IsSequence(params.filters) /\ IsSequence(params.sorts)
      /\ IsSequence(params.search.fields) /\ IsSequence(params.cursor.values)
    BY <1>1, CallsAssumption
<1>5. at \in 0..Len(statement.selects)
    BY <1>2, <1>3 DEF Statements
<1>6. \A i \in DOMAIN wheres : KeepsOwn(wheres[i], written[i])
    BY <1>2 DEF KeepsOwn
<1> QED
    BY <1>2, <1>3, <1>4, <1>5, <1>6 DEF OwnInv, ShapeInv

\* One SELECT is processed: its WHERE is own with the request's conditions beside it.
LEMMA OwnSelect == OwnInv /\ Select => OwnInv'
<1> SUFFICES ASSUME OwnInv, Select PROVE OwnInv'
    OBVIOUS
<1> DEFINE n == Len(statement.selects)
           parts == Parts(Len(bind_values))
           new == Combined(wheres[at + 1], parts)
<1>1. /\ pc = "where" /\ at < n /\ ~Errs
      /\ wheres' = [wheres EXCEPT ![at + 1] = new]
      /\ at' = at + 1
      /\ UNCHANGED <<statement, written, params, pc>>
    BY DEF Select, InBody
<1>2. n \in Nat /\ at \in 0..n /\ DOMAIN wheres = 1..n /\ DOMAIN written = 1..n
    BY DEF OwnInv, ShapeInv, Statements
<1>3. at + 1 \in 1..n /\ at' \in 0..n /\ at' = at + 1
    BY <1>1, <1>2
<1>4. KeepsOwn(new, written[at + 1])
  <2>1. wheres[at + 1] = written[at + 1]
      BY <1>2, <1>3 DEF OwnInv
  <2>2. written[at + 1] \in Text
      BY <1>2, <1>3 DEF OwnInv, ShapeInv
  <2>3. ~CursorWrong
      BY <1>1 DEF Errs
  <2> DEFINE own == written[at + 1]
             U == Comparison \cup [op : {"Nested"}, text : Seq(Seq(Comparison))]
  <2>4. own \in Seq(Seq(U))
      BY <2>2 DEF Text
  <2>5. /\ Len(parts) \in 0..3
        /\ parts # <<>> => Len(parts) > 0
        /\ \A i \in 1..Len(parts) : Disjunction(parts[i])
      BY <2>3, PartsAreDisjunctions DEF OwnInv, ShapeInv
  <2> HIDE DEF own, U, parts
  <2>6. KeepsOwn(Combined(own, parts), own)
      BY <2>4, <2>5, CombinedKeeps
  <2> QED BY <2>1, <2>6 DEF own
<1> HIDE DEF new, n
<1>5. DOMAIN wheres' = 1..n /\ wheres'[at + 1] = new /\ \A i \in 1..n : i # at + 1 => wheres'[i] = wheres[i]
    BY <1>1, <1>2
<1>6. ShapeInv'
    BY <1>1, <1>2, <1>3, <1>5 DEF OwnInv, ShapeInv, n
<1>7. ASSUME NEW i \in 1..n PROVE /\ i > at' => wheres'[i] = written'[i]
                                  /\ KeepsOwn(wheres'[i], written'[i])
  <2>1. i > at' => i > at /\ i # at + 1
      BY <1>2, <1>3
  <2>2. KeepsOwn(wheres[i], written[i]) /\ (i > at => wheres[i] = written[i])
      BY <1>2 DEF OwnInv
  <2>3. CASE i = at + 1
    <3>1. wheres'[i] = new /\ written'[i] = written[at + 1]
        BY <2>3, <1>1, <1>5
    <3> QED BY <3>1, <2>1, <2>3, <1>4
  <2>4. CASE i # at + 1
    <3>1. wheres'[i] = wheres[i] /\ written'[i] = written[i]
        BY <2>4, <1>1, <1>5
    <3> QED BY <3>1, <2>1, <2>2
  <2> QED BY <2>3, <2>4
<1> QED
    BY <1>5, <1>6, <1>7 DEF OwnInv

\* The other steps leave every WHERE alone.
LEMMA OwnStep == OwnInv /\ [Where]_vars => OwnInv'
<1> SUFFICES ASSUME OwnInv, [Where]_vars PROVE OwnInv'
    OBVIOUS
<1>1. CASE Select
    BY <1>1, OwnSelect
<1>2. CASE Pass
  <2>1. /\ at < Len(statement.selects) /\ at' = at + 1
        /\ UNCHANGED <<statement, wheres, written, params, pc>>
      BY <1>2 DEF Pass, InBody
  <2>2. Len(statement.selects) \in Nat /\ at \in 0..Len(statement.selects)
      BY DEF OwnInv, ShapeInv, Statements
  <2>3. at' \in 0..Len(statement.selects) /\ pc # "built"
      BY <1>2, <2>1, <2>2 DEF Pass, InBody
  <2>4. DOMAIN wheres = 1..Len(statement.selects)
      BY DEF OwnInv, ShapeInv, Statements
  <2>5. \A i \in DOMAIN wheres : i > at' => i > at
      BY <2>1, <2>2, <2>4
  <2>6. ShapeInv'
      BY <2>1, <2>3 DEF OwnInv, ShapeInv
  <2> QED BY <2>1, <2>5, <2>6 DEF OwnInv
<1>3. CASE Fail
  <2>1. UNCHANGED <<statement, wheres, written, params, at>> /\ pc' = "error"
      BY <1>3 DEF Fail
  <2> QED BY <2>1 DEF OwnInv, ShapeInv
<1>4. CASE Finish
  <2>1. UNCHANGED <<statement, wheres, written, params, at>> /\ pc' = "built" /\ at = Len(statement.selects)
      BY <1>4 DEF Finish
  <2> QED BY <2>1 DEF OwnInv, ShapeInv
<1>5. CASE UNCHANGED vars
    BY <1>5 DEF vars, OwnInv, ShapeInv
<1> QED
    BY <1>1, <1>2, <1>3, <1>4, <1>5 DEF Where

-----------------------------------------------------------------------------
(* The count.                                                              *)

CountInv ==
    /\ OwnInv
    /\ count_sql # <<>> => pc = "built" /\ count_sql = <<CountSql(statement)>>
    /\ total # <<>> => count_sql # <<>> /\ total = <<Answer(CountSql(statement), Kept)>>

LEMMA CountInit == CInit => CountInv
BY OwnInit DEF CInit, CountInv

\* A statement that is built stays as it is; its count is generated, then asked.
LEMMA CountStep == CountInv /\ [CNext]_cvars => CountInv'
<1> SUFFICES ASSUME CountInv, [CNext]_cvars PROVE CountInv'
    OBVIOUS
<1>1. CASE Build
  <2>1. pc # "built"
      BY <1>1 DEF Build, Where, Select, Pass, Fail, Finish, InBody
  <2>2. count_sql = <<>> /\ total = <<>> /\ count_sql' = <<>> /\ total' = <<>>
      BY <1>1, <2>1 DEF Build, CountInv
  <2>3. OwnInv'
      BY <1>1, OwnStep DEF Build, CountInv
  <2> QED BY <2>2, <2>3 DEF CountInv
<1>2. CASE Generate
  <2>1. pc = "built" /\ count_sql = <<>> /\ count_sql' = <<CountSql(statement)>> /\ UNCHANGED vars /\ total' = total
      BY <1>2 DEF Generate
  <2>2. OwnInv'
      BY <2>1, OwnStep DEF CountInv
  <2>3. pc' = pc /\ statement' = statement /\ total' = <<>>
      BY <2>1 DEF vars, CountInv
  <2> QED BY <2>1, <2>2, <2>3 DEF CountInv
<1>3. CASE Count
  <2>1. count_sql # <<>> /\ total' = <<Answer(count_sql[1], Kept)>> /\ UNCHANGED vars /\ count_sql' = count_sql
      BY <1>3 DEF Count
  <2>2. OwnInv'
      BY <2>1, OwnStep DEF CountInv
  <2>3. count_sql = <<CountSql(statement)>> /\ pc = "built"
      BY <2>1 DEF CountInv
  <2>4. pc' = pc /\ statement' = statement /\ Kept' = Kept
      BY <2>1 DEF vars, Kept
  <2>5. total' = <<Answer(CountSql(statement), Kept)>>
      BY <2>1, <2>3
  <2> QED BY <2>1, <2>2, <2>3, <2>4, <2>5 DEF CountInv
<1>4. CASE UNCHANGED cvars
  <2>1. UNCHANGED vars /\ count_sql' = count_sql /\ total' = total
      BY <1>4 DEF cvars
  <2>2. OwnInv'
      BY <2>1, OwnStep DEF CountInv
  <2>3. pc' = pc /\ statement' = statement /\ Kept' = Kept
      BY <2>1 DEF vars, Kept
  <2> QED BY <2>1, <2>2, <2>3 DEF CountInv
<1> QED
    BY <1>1, <1>2, <1>3, <1>4 DEF CNext

\* Every reachable state has the invariant.
LEMMA CountInvariant == CSpec => []CountInv
BY CountInit, CountStep, PTL DEF CSpec

\* Whatever the caller asks for, and however the WHERE is written, no row comes
\* back that the method's own WHERE excludes: for every table, every LIKE and
\* order of values, and requests of any length.
THEOREM OwnWhereStands == CSpec => []NeverMoreThanWritten
<1>1. CountInv => NeverMoreThanWritten
    BY KeptNarrows DEF CountInv, OwnInv, NeverMoreThanWritten
<1> QED
    BY <1>1, CountInvariant, PTL

-----------------------------------------------------------------------------
(* How many rows there are.                                                *)

\* The image of a finite set is finite.
LEMMA Images ==
    ASSUME NEW S, IsFiniteSet(S), NEW f
    PROVE  IsFiniteSet({f[x] : x \in S}) /\ Cardinality({f[x] : x \in S}) \in Nat
<1> DEFINE T == {f[x] : x \in S}
           g == [x \in S |-> f[x]]
<1>1. g \in Surjection(S, T)
    BY DEF Surjection
<1> HIDE DEF T, g
<1>2. IsFiniteSet(T) /\ Cardinality(T) \in Nat
    BY <1>1, FS_Surjection, FS_CardinalityType
<1> QED
    BY <1>2 DEF T

\* So is what DISTINCT leaves of it.
LEMMA TuplesAreFinite ==
    ASSUME NEW sel, NEW S, IsFiniteSet(S)
    PROVE  IsFiniteSet(Tuples(sel, S)) /\ Cardinality(Tuples(sel, S)) \in Nat
<1> DEFINE f == [row \in S |-> [i \in DOMAIN sel.items |-> ItemOf(sel.items[i], row)]]
<1>1. Tuples(sel, S) = {f[row] : row \in S}
    BY DEF Tuples
<1> HIDE DEF f
<1> QED
    BY <1>1, Images

\* A SELECT has a number of rows.
LEMMA RowsAreCounted ==
    ASSUME NEW sel \in SelectBody, NEW S, IsFiniteSet(S)
    PROVE  RowsOf(sel, S) \in Nat /\ Joined(sel) \in {1, 2}
<1>1. Joined(sel) \in {1, 2}
    BY DEF Joined
<1>2. Cardinality(S) * Joined(sel) \in Nat
  <2>1. Cardinality(S) \in Nat
      BY FS_CardinalityType
  <2>2. \A c \in Nat : c * 1 \in Nat /\ c * 2 \in Nat
      OBVIOUS
  <2> QED BY <2>1, <2>2, <1>1, Zenon
<1>3. Cardinality(Tuples(sel, S)) \in Nat
    BY TuplesAreFinite
<1>4. Cardinality(Groups(sel, S)) \in Nat
  <2> DEFINE keys == {row[Grouping] : row \in S}
             f == [row \in S |-> row[Grouping]]
  <2>1. IsFiniteSet(keys)
    <3>1. keys = {f[row] : row \in S}
        OBVIOUS
    <3> HIDE DEF f, keys
    <3> QED BY <3>1, Images
  <2>2. Groups(sel, S) \subseteq keys
      BY DEF Groups
  <2> QED BY <2>1, <2>2, FS_Subset, FS_CardinalityType
<1>5. sel.select \in BOOLEAN /\ sel.group \in BOOLEAN
    BY DEF SelectBody
<1>6. Whole(sel) \in BOOLEAN
    BY <1>5 DEF Whole
<1> QED
    BY <1>1, <1>2, <1>3, <1>4, <1>5, <1>6 DEF RowsOf

\* A statement has a number of rows, and one SELECT has its own.
LEMMA StatementIsCounted ==
    ASSUME NEW q \in Statements, NEW S, DOMAIN S = DOMAIN q.selects, \A i \in DOMAIN S : S[i] \subseteq Row
    PROVE  /\ RowsOfAll(q, S) \in Nat
           /\ Len(q.selects) = 1 => RowsOfAll(q, S) = RowsOf(q.selects[1], S[1])
<1> DEFINE n == Len(q.selects)
           rows(i) == RowsOf(q.selects[i], S[i])
           part(i) == {i} \X (1..rows(i))
           tuples(i) == IF q.selects[i].select THEN Tuples(q.selects[i], S[i]) ELSE {<<"values">>}
<1>1. n \in Nat /\ DOMAIN S = 1..n /\ \A i \in 1..n : q.selects[i] \in SelectBody /\ S[i] \subseteq Row
    BY DEF Statements
<1>2. \A i \in 1..n : IsFiniteSet(S[i])
    BY <1>1, CountAssumption, FS_Subset
<1>3. ASSUME NEW i \in 1..n
      PROVE  rows(i) \in Nat /\ IsFiniteSet(part(i)) /\ Cardinality(part(i)) = rows(i)
  <2>1. rows(i) \in Nat
      BY <1>1, <1>2, RowsAreCounted
  <2> HIDE DEF rows
  <2>2. IsFiniteSet(1..rows(i)) /\ Cardinality(1..rows(i)) = rows(i)
      BY <2>1, FS_Interval
  <2>3. IsFiniteSet({i}) /\ Cardinality({i}) = 1
      BY FS_Singleton
  <2>4. IsFiniteSet(part(i)) /\ Cardinality(part(i)) = Cardinality({i}) * Cardinality(1..rows(i))
      BY <2>2, <2>3, FS_Product
  <2> QED BY <2>1, <2>2, <2>3, <2>4
<1>4. IsFiniteSet(1..n)
    BY <1>1, FS_Interval
<1>5. Cardinality(UNION {part(i) : i \in 1..n}) \in Nat
  <2> HIDE DEF part
  <2> DEFINE f == [i \in 1..n |-> part(i)]
  <2>1. IsFiniteSet({part(i) : i \in 1..n})
    <3>1. {part(i) : i \in 1..n} = {f[i] : i \in 1..n}
        OBVIOUS
    <3> HIDE DEF f
    <3> QED BY <1>4, <3>1, Images
  <2>2. \A T \in {part(i) : i \in 1..n} : IsFiniteSet(T)
      BY <1>3
  <2> QED BY <2>1, <2>2, FS_UNION, FS_CardinalityType
<1>6. Cardinality(UNION {tuples(i) : i \in 1..n}) \in Nat
  <2>1. \A i \in 1..n : IsFiniteSet(tuples(i))
    <3> TAKE i \in 1..n
    <3>1. IsFiniteSet(Tuples(q.selects[i], S[i]))
        BY <1>2, TuplesAreFinite
    <3>2. IsFiniteSet({<<"values">>})
        BY FS_Singleton
    <3> QED BY <3>1, <3>2
  <2> HIDE DEF tuples
  <2> DEFINE f == [i \in 1..n |-> tuples(i)]
  <2>2. IsFiniteSet({tuples(i) : i \in 1..n})
    <3>1. {tuples(i) : i \in 1..n} = {f[i] : i \in 1..n}
        OBVIOUS
    <3> HIDE DEF f
    <3> QED BY <1>4, <3>1, Images
  <2>3. \A T \in {tuples(i) : i \in 1..n} : IsFiniteSet(T)
      BY <2>1
  <2> QED BY <2>2, <2>3, FS_UNION, FS_CardinalityType
<1>7. RowsOfAll(q, S) = IF n = 1 \/ q.all THEN Cardinality(UNION {part(i) : i \in 1..n})
                                         ELSE Cardinality(UNION {tuples(i) : i \in 1..n})
    BY <1>1 DEF RowsOfAll
<1>8. n = 1 => Cardinality(UNION {part(i) : i \in 1..n}) = rows(1)
  <2> SUFFICES ASSUME n = 1 PROVE Cardinality(UNION {part(i) : i \in 1..n}) = rows(1)
      OBVIOUS
  <2>1. 1 \in 1..n /\ 1..n = {1}
      OBVIOUS
  <2> HIDE DEF part, rows
  <2>2. UNION {part(i) : i \in {1}} = part(1)
      OBVIOUS
  <2> QED BY <2>1, <2>2, <1>3
<1> HIDE DEF n, part, tuples
<1> QED
    BY <1>5, <1>6, <1>7, <1>8 DEF n

-----------------------------------------------------------------------------
(* The strategies.                                                         *)

Exprs(sel) == {i \in DOMAIN sel.items : sel.items[i] # "*"}

\* One SELECT that needs no subquery
PlainOne(q) ==
    /\ Len(q.selects) = 1 /\ q.selects[1].select
    /\ ~q.selects[1].group /\ ~q.selects[1].having
    /\ "window" \notin Items(q.selects[1])

\* Which count statement there is, and of what
LEMMA Strategies ==
    ASSUME NEW q \in Statements
    PROVE  LET sel == q.selects[1]
               how == Analysis(q).how
           IN  \/ /\ how = "Simple" /\ CountSql(q) = [how |-> "Simple", q |-> q]
                  /\ PlainOne(q) /\ ~sel.distinct /\ ~sel.joins
               \/ /\ how = "Distinct" /\ PlainOne(q) /\ sel.distinct
                  /\ \E x \in DOMAIN sel.items :
                        /\ Exprs(sel) = {x}
                        /\ CountSql(q) = [how |-> "Distinct", q |-> q, expr |-> sel.items[x]]
               \/ /\ how = "Distinct" /\ CountSql(q) = [how |-> "Subquery", q |-> q]
                  /\ Exprs(sel) # {} /\ \A x : Exprs(sel) # {x}
               \/ how = "Subquery" /\ CountSql(q) = [how |-> "Subquery", q |-> Inner(q)]
<1> DEFINE sel == q.selects[1]
           a == Analysis(q)
<1>1. Len(q.selects) \in Nat /\ Len(q.selects) # 0 /\ sel \in SelectBody
  <2>1. q.selects \in Seq(SelectBody) /\ q.selects # <<>>
      BY DEF Statements
  <2> QED BY <2>1
<1>2. \/ Len(q.selects) > 1 /\ Len(q.selects) # 1
      \/ Len(q.selects) = 1 /\ ~(Len(q.selects) > 1)
  <2>1. \A k \in Nat : k # 0 => (k > 1 /\ k # 1) \/ (k = 1 /\ ~(k > 1))
      OBVIOUS
  <2> QED BY <1>1, <2>1, Zenon
<1>3. /\ sel.select \in BOOLEAN /\ sel.distinct \in BOOLEAN /\ sel.joins \in BOOLEAN
      /\ sel.items \in Seq(Column \cup {"*", "expr", "agg", "window"})
    BY <1>1 DEF SelectBody
<1>4. \/ a = Wrapped
      \/ a = [how |-> "Simple"] /\ PlainOne(q) /\ ~sel.distinct /\ ~sel.joins
      \/ a = AnalyzeDistinct(sel) /\ PlainOne(q) /\ sel.distinct
  <2> DEFINE plain == /\ ~q.with /\ ~sel.group /\ ~sel.having
                      /\ "window" \notin Items(sel) /\ sel.derived = "none"
  <2>1. CASE Len(q.selects) > 1 \/ ~sel.select
    <3>1. ~(Len(q.selects) = 1 /\ sel.select)
        BY <1>2, <2>1, Zenon
    <3> QED BY <2>1, <3>1, Zenon DEF Analysis
  <2>2. CASE Len(q.selects) = 1 /\ sel.select /\ ~plain
      BY <2>2 DEF Analysis
  <2>3. CASE Len(q.selects) = 1 /\ sel.select /\ plain /\ sel.distinct
      BY <2>3 DEF Analysis, PlainOne
  <2>4. CASE Len(q.selects) = 1 /\ sel.select /\ plain /\ ~sel.distinct
      BY <2>4 DEF Analysis, PlainOne
  <2> QED BY <1>2, <1>3, <2>1, <2>2, <2>3, <2>4
<1>5. CASE a = Wrapped
  <2>1. a.how = "Subquery"
      BY <1>5 DEF Wrapped
  <2> QED BY <2>1 DEF CountSql
<1>6. CASE a = [how |-> "Simple"] /\ PlainOne(q) /\ ~sel.distinct /\ ~sel.joins
  <2>1. a.how = "Simple"
      BY <1>6
  <2> QED BY <1>6, <2>1 DEF CountSql
<1>7. CASE a = AnalyzeDistinct(sel) /\ PlainOne(q) /\ sel.distinct
  <2>1. CASE Exprs(sel) = {}
    <3>1. a = Wrapped
        BY <1>7, <2>1 DEF AnalyzeDistinct, Exprs
    <3> QED BY <1>5, <3>1
  <2>2. CASE Exprs(sel) # {}
    <3>1. a = [how |-> "Distinct", exprs |-> Exprs(sel)]
        BY <1>7, <2>2 DEF AnalyzeDistinct, Exprs
    <3>2. a.how = "Distinct" /\ a.exprs = Exprs(sel)
        BY <3>1
    <3>3. IsFiniteSet(Exprs(sel))
      <4>1. DOMAIN sel.items = 1..Len(sel.items) /\ Len(sel.items) \in Nat
          BY <1>3
      <4>2. IsFiniteSet(1..Len(sel.items))
          BY <4>1, FS_Interval
      <4>3. Exprs(sel) \subseteq 1..Len(sel.items)
          BY <4>1 DEF Exprs
      <4> QED BY <4>2, <4>3, FS_Subset
    <3>4. Cardinality(Exprs(sel)) = 1 <=> \E x : Exprs(sel) = {x}
        BY <3>3, FS_Singleton
    <3>5. CASE Cardinality(Exprs(sel)) = 1
      <4>1. PICK x : Exprs(sel) = {x}
          BY <3>4, <3>5
      <4>2. x \in DOMAIN sel.items /\ (CHOOSE i \in Exprs(sel) : TRUE) = x
          BY <4>1 DEF Exprs
      <4>3. CountSql(q) = [how |-> "Distinct", q |-> q, expr |-> sel.items[CHOOSE i \in a.exprs : TRUE]]
          BY <3>2, <3>5 DEF CountSql
      <4> QED BY <1>7, <3>2, <4>1, <4>2, <4>3
    <3>6. CASE Cardinality(Exprs(sel)) # 1
      <4>1. CountSql(q) = [how |-> "Subquery", q |-> q]
          BY <3>2, <3>6 DEF CountSql
      <4> QED BY <2>2, <3>2, <3>4, <3>6, <4>1
    <3> QED BY <3>5, <3>6
  <2> QED BY <2>1, <2>2
<1> QED
    BY <1>4, <1>5, <1>6, <1>7

\* SELECT 1 has as many rows as the SELECT it replaces, unless that aggregates.
LEMMA InnerCounts ==
    ASSUME NEW q \in Statements, NEW S, DOMAIN S = DOMAIN q.selects, \A i \in DOMAIN S : S[i] \subseteq Row
    PROVE  /\ Inner(q) \in Statements /\ DOMAIN Inner(q).selects = DOMAIN q.selects
           /\ (\A sel \in ToSet(q.selects) : ~CountedOtherwise(sel)) =>
                 RowsOfAll(Inner(q), S) = RowsOfAll(q, S)
<1> DEFINE sel == q.selects[1]
           one == [sel EXCEPT !.items = <<"expr">>]
           short == [q.selects EXCEPT ![1] = one]
           in == [q EXCEPT !.selects = short]
<1>1. CASE Len(q.selects) = 1 /\ sel.select /\ Select1(sel)
  <2>1. Inner(q) = in
      BY <1>1 DEF Inner
  <2>2. sel \in SelectBody /\ q.selects \in Seq(SelectBody) /\ DOMAIN q.selects = {1}
      BY <1>1 DEF Statements
  <2>3. one \in SelectBody
    <3>1. <<"expr">> \in Seq(Column \cup {"*", "expr", "agg", "window"})
        OBVIOUS
    <3> QED BY <2>2, <3>1 DEF SelectBody
  <2>4. /\ one.select = sel.select /\ one.group = sel.group /\ one.distinct = sel.distinct
        /\ one.joins = sel.joins /\ one.having = sel.having /\ one.items = <<"expr">>
      BY <2>2 DEF SelectBody
  <2> HIDE DEF one
  <2>5. /\ short \in Seq(SelectBody) \ {<<>>} /\ Len(short) = 1 /\ DOMAIN short = {1} /\ short[1] = one
      BY <2>2, <2>3, <1>1
  <2> HIDE DEF short
  <2>6. in \in Statements /\ in.selects = short /\ in.all = q.all
      BY <2>5 DEF Statements
  <2>7. ASSUME ~CountedOtherwise(sel) PROVE RowsOf(one, S[1]) = RowsOf(sel, S[1])
    <3>1. ~sel.group /\ ~sel.distinct /\ ~sel.having /\ "agg" \notin Items(sel)
        BY <1>1, <2>7 DEF Select1, CountedOtherwise
    <3>2. "agg" \notin Items(one)
        BY <2>4 DEF Items, ToSet
    <3>4. ~Whole(one) /\ ~Whole(sel)
        BY <2>4, <3>1, <3>2 DEF Whole
    <3>3. Joined(one) = Joined(sel)
        BY <2>4 DEF Joined
    <3> QED BY <1>1, <2>4, <3>1, <3>3, <3>4 DEF RowsOf
  <2>8. RowsOfAll(in, S) = RowsOf(one, S[1])
      BY <2>2, <2>5, <2>6, StatementIsCounted
  <2>9. RowsOfAll(q, S) = RowsOf(sel, S[1])
      BY <1>1, StatementIsCounted
  <2>10. sel \in ToSet(q.selects)
      BY <2>2 DEF ToSet
  <2> HIDE DEF in
  <2> QED BY <2>1, <2>2, <2>5, <2>6, <2>7, <2>8, <2>9, <2>10
<1>2. CASE ~(Len(q.selects) = 1 /\ sel.select /\ Select1(sel))
  <2>1. Inner(q) = q
      BY <1>2 DEF Inner
  <2> QED BY <2>1
<1> QED BY <1>1, <1>2

\* COUNT(DISTINCT x) counts what SELECT DISTINCT x has but NULL.
LEMMA DistinctCounts ==
    ASSUME NEW sel, NEW S, IsFiniteSet(S), sel.items = <<sel.items[1]>>
    PROVE  LET x == sel.items[1]
               V == {ItemOf(x, row) : row \in S}
           IN  /\ IsFiniteSet(V) /\ Cardinality(V) \in Nat
               /\ Cardinality(Tuples(sel, S)) = Cardinality(V)
<1> DEFINE x == sel.items[1]
           V == {ItemOf(x, row) : row \in S}
           g == [row \in S |-> ItemOf(x, row)]
           h == [v \in V |-> [i \in {1} |-> v]]
           T == Tuples(sel, S)
<1>1. IsFiniteSet(V) /\ Cardinality(V) \in Nat
  <2>1. V = {g[row] : row \in S}
      OBVIOUS
  <2> HIDE DEF V, g
  <2> QED BY <2>1, Images
<1>2. T = {[i \in {1} |-> ItemOf(x, row)] : row \in S}
  <2>1. DOMAIN sel.items = {1}
      OBVIOUS
  <2>2. \A row : [i \in DOMAIN sel.items |-> ItemOf(sel.items[i], row)] = [i \in {1} |-> ItemOf(x, row)]
      BY <2>1
  <2> QED BY <2>2 DEF Tuples
<1> HIDE DEF T
<1>3. h \in Bijection(V, T)
  <2>1. h \in [V -> T]
      BY <1>2
  <2>2. \A v, w \in V : h[v] = h[w] => v = w
    <3> TAKE v, w \in V
    <3>1. h[v][1] = v /\ h[w][1] = w
      <4> HIDE DEF V
      <4> QED OBVIOUS
    <3> HIDE DEF h
    <3> QED BY <3>1
  <2>3. \A t \in T : \E v \in V : h[v] = t
      BY <1>2
  <2> HIDE DEF h, V
  <2>4. h \in Injection(V, T)
      BY <2>1, <2>2 DEF Injection, IsInjective
  <2>5. h \in Surjection(V, T)
      BY <2>1, <2>3 DEF Surjection
  <2> QED BY <2>4, <2>5 DEF Bijection
<1>4. Cardinality(T) = Cardinality(V)
  <2> HIDE DEF h, V
  <2>1. ExistsBijection(V, T)
      BY <1>3 DEF ExistsBijection
  <2> QED BY <1>1, <2>1, FS_Bijection
<1> HIDE DEF V
<1> QED
    BY <1>1, <1>4 DEF V, T

\* The SELECTs of a call and the rows their WHERE keeps
LEMMA KeptRows ==
    ASSUME ShapeInv
    PROVE  /\ DOMAIN Kept = DOMAIN statement.selects
           /\ \A i \in DOMAIN Kept : Kept[i] \subseteq Row /\ IsFiniteSet(Kept[i])
<1>1. DOMAIN Kept = DOMAIN statement.selects
    BY DEF Kept, ShapeInv
<1>2. \A i \in DOMAIN Kept : Kept[i] \subseteq Row
    BY DEF Kept, Selects
<1> QED
    BY <1>1, <1>2, CountAssumption, FS_Subset

\* The count of a statement is a number, and it is the number of its rows but a
\* NULL that is passed over.
LEMMA AnswerCounts ==
    ASSUME ShapeInv
    PROVE  /\ Answer(CountSql(statement), Kept) \in Nat
           /\ (\A sel \in ToSet(statement.selects) : ~CountedOtherwise(sel)) =>
                 Answer(CountSql(statement), Kept) = RowsOfAll(statement, Kept) - NullLost
<1> DEFINE q == statement
           sel == statement.selects[1]
           S == Kept
           how == Analysis(q).how
           Plainly == \A x \in ToSet(q.selects) : ~CountedOtherwise(x)
           a == Answer(CountSql(q), S)
<1>1. q \in Statements /\ DOMAIN S = DOMAIN q.selects
      /\ \A i \in DOMAIN S : S[i] \subseteq Row /\ IsFiniteSet(S[i])
    BY KeptRows DEF ShapeInv
<1>2. /\ 1 \in DOMAIN q.selects /\ sel \in SelectBody /\ sel \in ToSet(q.selects)
      /\ IsFiniteSet(S[1])
  <2>1. q.selects \in Seq(SelectBody) /\ q.selects # <<>>
      BY <1>1 DEF Statements
  <2>2. 1 \in DOMAIN q.selects /\ sel \in SelectBody
      BY <2>1
  <2> QED BY <1>1, <2>2 DEF ToSet
<1>3. RowsOfAll(q, S) \in Nat /\ (Len(q.selects) = 1 => RowsOfAll(q, S) = RowsOf(sel, S[1]))
    BY <1>1, StatementIsCounted
<1>4. how # "Distinct" => NullLost = 0
    BY DEF NullLost
<1>5. ASSUME how = "Simple", CountSql(q) = [how |-> "Simple", q |-> q],
             PlainOne(q), ~sel.distinct, ~sel.joins
      PROVE  a \in Nat /\ (Plainly => a = RowsOfAll(q, S) - NullLost)
  <2>1. a = Cardinality(S[1]) * Joined(sel) /\ Joined(sel) = 1
      BY <1>5 DEF Answer, Joined
  <2>2. a = Cardinality(S[1]) /\ a \in Nat
      BY <2>1, <1>2, FS_CardinalityType
  <2>3. ASSUME Plainly PROVE RowsOf(sel, S[1]) = a
    <3>1. sel.select /\ ~sel.group /\ ~Whole(sel)
        BY <1>2, <1>5, <2>3 DEF PlainOne, CountedOtherwise, Whole
    <3> QED BY <1>5, <2>1, <3>1 DEF RowsOf
  <2>4. NullLost = 0 /\ Len(q.selects) = 1
      BY <1>4, <1>5 DEF PlainOne
  <2> HIDE DEF q, sel, S, a, Plainly
  <2> QED BY <1>3, <2>2, <2>3, <2>4
<1>6. ASSUME how = "Distinct", PlainOne(q), sel.distinct, NEW x \in DOMAIN sel.items, Exprs(sel) = {x},
             CountSql(q) = [how |-> "Distinct", q |-> q, expr |-> sel.items[x]]
      PROVE  a \in Nat /\ (Plainly => a = RowsOfAll(q, S) - NullLost)
  <2> DEFINE V == {ItemOf(sel.items[x], row) : row \in S[1]}
             f == [row \in S[1] |-> ItemOf(sel.items[x], row)]
  <2>1. a = Cardinality(V \ {Null})
      BY <1>6 DEF Answer
  <2>2. IsFiniteSet(V) /\ Cardinality(V) \in Nat
    <3>1. V = {f[row] : row \in S[1]}
        OBVIOUS
    <3> HIDE DEF V, f, S
    <3> QED BY <1>2, <3>1, Images
  <2>3. a \in Nat /\ a = IF Null \in V THEN Cardinality(V) - 1 ELSE Cardinality(V)
    <3> HIDE DEF V, a
    <3> QED BY <2>1, <2>2, FS_RemoveElement, FS_CardinalityType
  <2>4. ASSUME Plainly PROVE a = RowsOfAll(q, S) - NullLost
    <3>1. ~Whole(sel) /\ ("*" \in Items(sel) => ~(Len(sel.items) > 1))
        BY <1>2, <1>6, <2>4 DEF PlainOne, CountedOtherwise, Whole
    <3>2. Len(sel.items) = 1 /\ x = 1 /\ sel.items = <<sel.items[1]>>
      <4>1. sel.items \in Seq(Column \cup {"*", "expr", "agg", "window"})
          BY <1>2 DEF SelectBody
      <4> DEFINE I == Column \cup {"*", "expr", "agg", "window"}
                 its == sel.items
                 n == Len(its)
      <4>2. its \in Seq(I) /\ n \in Nat /\ DOMAIN its = 1..n
          BY <4>1
      <4>3. x \in 1..n
          BY <4>2
      <4>4. \A i \in 1..n : its[i] # "*" <=> i = x
          BY <1>6, <4>2 DEF Exprs
      <4>5. (\E i \in 1..n : its[i] = "*") => ~(n > 1)
          BY <3>1, <4>2 DEF Items, ToSet
      <4> HIDE DEF its, n, I
      <4>6. n = 1 /\ x = 1
          BY <4>2, <4>3, <4>4, <4>5
      <4>7. its = <<its[1]>>
          BY <4>2, <4>6 DEF n
      <4> QED BY <4>6, <4>7 DEF n, its
    <3>3. Cardinality(Tuples(sel, S[1])) = Cardinality(V)
      <4>1. V = {ItemOf(sel.items[1], row) : row \in S[1]}
          BY <3>2
      <4> HIDE DEF V, S, sel
      <4> QED BY <1>2, <3>2, <4>1, DistinctCounts
    <3>4. RowsOfAll(q, S) = Cardinality(V)
        BY <1>3, <1>6, <3>1, <3>3 DEF PlainOne, RowsOf
    <3>5. NullLost = IF Null \in V THEN 1 ELSE 0
        BY <1>6, <3>2 DEF NullLost
    <3> HIDE DEF V, a
    <3> QED BY <2>2, <2>3, <3>4, <3>5
  <2> QED BY <2>3, <2>4
<1>7. ASSUME how = "Distinct", CountSql(q) = [how |-> "Subquery", q |-> q],
             Exprs(sel) # {}, \A x : Exprs(sel) # {x}
      PROVE  a \in Nat /\ (Plainly => a = RowsOfAll(q, S) - NullLost)
  <2>1. a = RowsOfAll(q, S)
      BY <1>7 DEF Answer
  <2>2. NullLost = 0
    <3>1. Len(sel.items) # 1
      <4> SUFFICES ASSUME Len(sel.items) = 1 PROVE FALSE
          OBVIOUS
      <4>1. DOMAIN sel.items = {1}
          BY <1>2 DEF SelectBody
      <4>2. Exprs(sel) \subseteq {1}
          BY <4>1 DEF Exprs
      <4> QED BY <1>7, <4>2
    <3> QED BY <3>1 DEF NullLost
  <2> HIDE DEF a
  <2> QED BY <1>3, <2>1, <2>2
<1>8. ASSUME how = "Subquery", CountSql(q) = [how |-> "Subquery", q |-> Inner(q)]
      PROVE  a \in Nat /\ (Plainly => a = RowsOfAll(q, S) - NullLost)
  <2>1. a = RowsOfAll(Inner(q), S)
      BY <1>8 DEF Answer
  <2>2. NullLost = 0
      BY <1>4, <1>8
  <2>3. /\ Inner(q) \in Statements /\ DOMAIN Inner(q).selects = DOMAIN q.selects
        /\ Plainly => RowsOfAll(Inner(q), S) = RowsOfAll(q, S)
      BY <1>1, InnerCounts
  <2>4. a \in Nat
      BY <1>1, <2>1, <2>3, StatementIsCounted
  <2> HIDE DEF a, Plainly
  <2> QED BY <1>3, <2>1, <2>2, <2>3, <2>4
<1> HIDE DEF a, Plainly
<1> QED
    BY <1>1, <1>5, <1>6, <1>7, <1>8, Strategies DEF a, Plainly

\* Types, for every table, statement and request.
THEOREM TypeCorrect == CSpec => []TypeOK
<1>1. CountInv => TypeOK
  <2> SUFFICES ASSUME CountInv PROVE TypeOK
      OBVIOUS
  <2>1. ShapeInv
      BY DEF CountInv, OwnInv
  <2>2. CountSql(statement).how \in {"Simple", "Distinct", "Subquery"}
    <3>1. statement \in Statements
        BY <2>1 DEF ShapeInv
    <3> QED BY <3>1, Strategies
  <2>3. count_sql # <<>> => count_sql[1].how \in {"Simple", "Distinct", "Subquery"}
      BY <2>2 DEF CountInv
  <2>4. total # <<>> => total[1] \in Nat
      BY <2>1, AnswerCounts DEF CountInv
  <2> QED BY <2>1, <2>3, <2>4 DEF TypeOK, ShapeInv
<1> QED
    BY <1>1, CountInvariant, PTL

\* The total is the number of rows the statement has without LIMIT and OFFSET, by
\* every strategy: for every table and every request, and whatever the SELECTs
\* of the statement are, but for the aggregates and the NULL that the property
\* sets apart.
THEOREM TotalsAreExact == CSpec => []TotalExact
<1>1. CountInv => TotalExact
    BY AnswerCounts DEF CountInv, OwnInv, TotalExact
<1> QED
    BY <1>1, CountInvariant, PTL

-----------------------------------------------------------------------------
(* Sequences one after the other.                                           *)

\* A set of numbers that holds 0, and with each number below n the next, holds
\* all of them: of those left out there would be a least.
LEMMA Upwards ==
    ASSUME NEW n \in Nat, NEW G, 0 \in G, \A i \in 0..(n - 1) : i \in G => i + 1 \in G
    PROVE  0..n \subseteq G
<1> SUFFICES ASSUME 0..n \ G # {} PROVE FALSE
    OBVIOUS
<1> DEFINE T == {1..i : i \in 0..n \ G}
<1>1. ASSUME NEW i \in Nat PROVE 1..i \in FiniteSubsetsOf(Nat)
  <2>1. IsFiniteSet(1..i)
      BY FS_Interval
  <2>2. 1..i \in SUBSET Nat
      OBVIOUS
  <2> QED BY <2>1, <2>2 DEF FiniteSubsetsOf
<1>2. T \subseteq FiniteSubsetsOf(Nat) /\ T # {}
    BY <1>1
<1>3. PICK x \in T : \A y \in T : <<y, x>> \notin StrictSubsetOrdering(Nat)
    BY <1>2, FS_StrictSubsetOrderingWellFounded, WFMin
<1>4. PICK i \in 0..n \ G : x = 1..i
    BY <1>3
<1>5. i \in Nat /\ i - 1 \in 0..(n - 1) /\ i \in 1..i /\ i \notin 1..(i - 1)
    BY <1>4
<1>6. i - 1 \notin G
    BY <1>4, <1>5
<1>7. 1..(i - 1) \in T
    BY <1>5, <1>6
<1>8. 1..(i - 1) \subseteq 1..i /\ 1..(i - 1) # 1..i /\ 1..i \in SUBSET Nat /\ 1..(i - 1) \in SUBSET Nat
    BY <1>5
<1>9. <<1..(i - 1), 1..i>> \in StrictSubsetOrdering(Nat)
    BY <1>8 DEF StrictSubsetOrdering
<1> QED BY <1>3, <1>4, <1>7, <1>9

First(s, n) == [i \in 1..n |-> s[i]]

\* What FlattenSeq computes: the sequences so far, joined.
Joins(f, s, V) ==
    /\ f = [i \in 1..Len(s) |-> IF i = 1 THEN s[i] ELSE f[i - 1] \o s[i]]
    /\ f \in [1..Len(s) -> Seq(V)]

LEMMA JoinsExist ==
    ASSUME NEW V, NEW s \in Seq(Seq(V))
    PROVE  \E f : Joins(f, s, V)
<1> DEFINE n == Len(s)
           H(i, f) == /\ f \in [1..i -> Seq(V)]
                      /\ \A j \in 1..i : f[j] = IF j = 1 THEN s[j] ELSE f[j - 1] \o s[j]
           G == {i \in 0..n : \E f : H(i, f)}
<1>1. n \in Nat /\ \A i \in 1..n : s[i] \in Seq(V)
    OBVIOUS
<1> HIDE DEF n
<1>2. 0 \in G
  <2>1. H(0, [i \in 1..0 |-> <<>>])
      OBVIOUS
  <2> HIDE DEF H
  <2> QED BY <1>1, <2>1
<1>3. ASSUME NEW i \in 0..(n - 1), i \in G PROVE i + 1 \in G
  <2>1. PICK f : H(i, f)
      BY <1>3
  <2> DEFINE x == IF i = 0 THEN s[1] ELSE f[i] \o s[i + 1]
             g == [j \in 1..(i + 1) |-> IF j <= i THEN f[j] ELSE x]
  <2>2. i + 1 \in 1..n /\ i + 1 \in 0..n /\ i \in Nat /\ (i # 0 => i \in 1..i)
      BY <1>1, <1>3
  <2>3. x \in Seq(V)
    <3>1. s[i + 1] \in Seq(V) /\ (i = 0 => s[1] \in Seq(V))
        BY <1>1, <2>2
    <3>2. i # 0 => f[i] \in Seq(V)
        BY <2>1, <2>2
    <3> QED BY <3>1, <3>2
  <2>4. g[i + 1] = IF i + 1 = 1 THEN s[i + 1] ELSE g[i] \o s[i + 1]
    <3> HIDE DEF H
    <3> QED BY <2>2
  <2>5. \A j \in 1..i : g[j] = f[j] /\ j \in 1..(i + 1) /\ (j # 1 => g[j - 1] = f[j - 1])
    <3> HIDE DEF H, x
    <3> QED BY <2>2
  <2>6. g \in [1..(i + 1) -> Seq(V)]
    <3>1. \A j \in 1..(i + 1) : j <= i => f[j] \in Seq(V)
        BY <2>1, <2>2
    <3> HIDE DEF x, H
    <3> QED BY <2>3, <3>1
  <2> HIDE DEF g, x
  <2>7. H(i + 1, g)
    <3> SUFFICES ASSUME NEW j \in 1..(i + 1) PROVE g[j] = IF j = 1 THEN s[j] ELSE g[j - 1] \o s[j]
        BY <2>6
    <3>1. CASE j \in 1..i
        BY <2>1, <2>5, <3>1
    <3>2. CASE j = i + 1
        BY <2>2, <2>4, <3>2
    <3> QED BY <2>2, <3>1, <3>2
  <2> HIDE DEF H
  <2> QED BY <2>2, <2>7
<1>4. n \in G
  <2> HIDE DEF G
  <2>1. 0..n \subseteq G
      BY <1>1, <1>2, <1>3, Upwards
  <2> QED BY <1>1, <2>1
<1>5. PICK f : H(n, f)
    BY <1>4
<1> QED BY <1>1, <1>5 DEF Joins, n

\* Each part is the one before with one sequence more.
Grows(f, s) == \A i \in 1..Len(s) : f[i] = IF i = 1 THEN s[i] ELSE f[i - 1] \o s[i]

LEMMA GrowthAgrees ==
    ASSUME NEW s, NEW t, NEW n \in Nat, Len(s) \in Nat, Len(t) \in Nat,
           n <= Len(s), n <= Len(t), \A i \in 1..n : s[i] = t[i],
           NEW f, NEW g, Grows(f, s), Grows(g, t)
    PROVE  \A i \in 1..n : f[i] = g[i]
<1> DEFINE G == {i \in 0..n : i # 0 => f[i] = g[i]}
<1>1. ASSUME NEW i \in 1..n
      PROVE  f[i] = (IF i = 1 THEN s[i] ELSE f[i - 1] \o s[i]) /\ g[i] = (IF i = 1 THEN s[i] ELSE g[i - 1] \o s[i])
  <2>1. i \in 1..Len(s) /\ i \in 1..Len(t) /\ s[i] = t[i]
      OBVIOUS
  <2> QED BY <2>1 DEF Grows
<1>2. 0 \in G
    OBVIOUS
<1>3. ASSUME NEW i \in 0..(n - 1), i \in G PROVE i + 1 \in G
  <2>1. i + 1 \in 1..n /\ i + 1 \in 0..n /\ (i + 1) - 1 = i /\ (i + 1 # 1 => f[i] = g[i])
      BY <1>3
  <2>2. f[i + 1] = g[i + 1]
    <3>1. /\ f[i + 1] = (IF i + 1 = 1 THEN s[i + 1] ELSE f[i] \o s[i + 1])
          /\ g[i + 1] = (IF i + 1 = 1 THEN s[i + 1] ELSE g[i] \o s[i + 1])
        BY <1>1, <2>1
    <3> QED BY <2>1, <3>1, Zenon
  <2> QED BY <2>1, <2>2
<1> HIDE DEF G
<1>4. 0..n \subseteq G
    BY <1>2, <1>3, Upwards
<1>5. \A i \in 1..n : i \in 0..n /\ i # 0
    OBVIOUS
<1> QED BY <1>4, <1>5 DEF G

LEMMA FlattenIs ==
    ASSUME NEW V, NEW s \in Seq(Seq(V)), Len(s) # 0, NEW f, Joins(f, s, V)
    PROVE  FlattenSeq(s) = f[Len(s)]
<1> DEFINE flatten[i \in 1..Len(s)] == IF i = 1 THEN s[i] ELSE flatten[i - 1] \o s[i]
<1>1. FlattenSeq(s) = flatten[Len(s)]
    BY DEF FlattenSeq
<1>2. \E g : g = [i \in 1..Len(s) |-> IF i = 1 THEN s[i] ELSE g[i - 1] \o s[i]]
    BY DEF Joins
<1>3. flatten = [i \in 1..Len(s) |-> IF i = 1 THEN s[i] ELSE flatten[i - 1] \o s[i]]
    BY <1>2
<1> HIDE DEF flatten
<1>4. Grows(flatten, s)
    BY <1>3 DEF Grows
<1>5. Grows(f, s)
    BY DEF Grows, Joins
<1>6. Len(s) \in Nat /\ Len(s) \in 1..Len(s) /\ Len(s) <= Len(s)
    OBVIOUS
<1>7. \A i \in 1..Len(s) : f[i] = flatten[i]
    BY <1>4, <1>5, <1>6, GrowthAgrees
<1> QED BY <1>1, <1>6, <1>7

\* FlattenSeq appends one sequence after the other.
LEMMA FlattenFirst ==
    ASSUME NEW V, NEW s \in Seq(Seq(V))
    PROVE  /\ FlattenSeq(First(s, 0)) = <<>>
           /\ \A i \in 1..Len(s) : FlattenSeq(First(s, i)) = FlattenSeq(First(s, i - 1)) \o s[i]
           /\ \A i \in 0..Len(s) : FlattenSeq(First(s, i)) \in Seq(V)
           /\ First(s, Len(s)) = s
<1>1. PICK f : Joins(f, s, V)
    BY JoinsExist
<1>2. Len(s) \in Nat /\ \A i \in 1..Len(s) : s[i] \in Seq(V) /\ f[i] \in Seq(V)
  <2> DEFINE C == Seq(V)
  <2>1. f \in [1..Len(s) -> C] /\ s \in Seq(C)
      BY <1>1 DEF Joins
  <2> HIDE DEF C
  <2>2. Len(s) \in Nat /\ \A i \in 1..Len(s) : s[i] \in C
      BY <2>1
  <2>3. \A i \in 1..Len(s) : f[i] \in C
      BY <2>1
  <2> QED BY <2>2, <2>3 DEF C
<1>3. ASSUME NEW i \in 1..Len(s) PROVE FlattenSeq(First(s, i)) = f[i]
  <2> DEFINE t == First(s, i)
             C == Seq(V)
  <2>1. t \in Seq(C) /\ Len(t) = i /\ \A j \in 1..i : t[j] = s[j]
    <3>1. i \in Nat /\ \A j \in 1..i : s[j] \in C
        BY <1>2
    <3> HIDE DEF C
    <3> QED BY <3>1 DEF First
  <2> HIDE DEF t
  <2>2. PICK g : Joins(g, t, V)
      BY <2>1, JoinsExist
  <2>3. FlattenSeq(t) = g[i]
    <3>1. Len(t) # 0
        BY <2>1
    <3> QED BY <2>1, <2>2, <3>1, FlattenIs
  <2>4. Grows(f, s)
      BY <1>1 DEF Joins, Grows
  <2>5. Grows(g, t)
      BY <2>2 DEF Joins, Grows
  <2>6. i \in Nat /\ i <= Len(s) /\ i <= Len(t) /\ Len(t) \in Nat /\ \A j \in 1..i : s[j] = t[j]
    <3>1. i \in Nat /\ i <= Len(s)
        BY <1>2
    <3> HIDE DEF C
    <3> QED BY <2>1, <3>1
  <2>7. \A j \in 1..i : f[j] = g[j]
      BY <1>2, <2>4, <2>5, <2>6, GrowthAgrees
  <2>8. i \in 1..i
      BY <2>6
  <2> QED BY <2>3, <2>7, <2>8 DEF t
<1>4. First(s, 0) = <<>> /\ FlattenSeq(First(s, 0)) = <<>>
    BY DEF First, FlattenSeq
<1>5. ASSUME NEW i \in 1..Len(s) PROVE f[i] = FlattenSeq(First(s, i - 1)) \o s[i]
  <2>1. f[i] = IF i = 1 THEN s[i] ELSE f[i - 1] \o s[i]
      BY <1>1 DEF Joins
  <2>2. CASE i = 1
    <3>1. <<>> \o s[i] = s[i]
        BY <1>2
    <3> QED BY <1>4, <2>1, <2>2, <3>1
  <2>3. CASE i # 1
    <3>1. i - 1 \in 1..Len(s)
        BY <2>3
    <3> QED BY <1>3, <2>1, <2>3, <3>1
  <2> QED BY <2>2, <2>3
<1>6. ASSUME NEW i \in 0..Len(s) PROVE FlattenSeq(First(s, i)) \in Seq(V)
  <2>1. CASE i = 0
    <3>1. <<>> \in Seq(V)
        OBVIOUS
    <3> QED BY <1>4, <2>1, <3>1
  <2>2. CASE i # 0
    <3>1. i \in 1..Len(s)
        BY <1>2, <2>2
    <3>2. f[i] \in Seq(V)
        BY <1>2, <3>1
    <3> QED BY <1>3, <3>1, <3>2, Zenon
  <2> QED BY <2>1, <2>2
<1>7. First(s, Len(s)) = s
    BY DEF First
<1> QED BY <1>3, <1>4, <1>5, <1>6, <1>7

\* Where the k-th element of the i-th sequence is.
LEMMA FlattenAt ==
    ASSUME NEW V, NEW s \in Seq(Seq(V)), NEW i \in 1..Len(s), NEW k \in 1..Len(s[i])
    PROVE  LET p == Len(FlattenSeq(First(s, i - 1))) + k
           IN  p \in 1..Len(FlattenSeq(s)) /\ FlattenSeq(s)[p] = s[i][k]
<1> DEFINE p == Len(FlattenSeq(First(s, i - 1))) + k
           n == Len(s)
           F(j) == FlattenSeq(First(s, j))
           G == {d \in 0..(n - i) : p \in 1..Len(F(i + d)) /\ F(i + d)[p] = s[i][k]}
<1>1. n \in Nat /\ i \in Nat /\ i <= n /\ n - i \in Nat /\ i \in 1..n /\ i - 1 \in 0..n
    OBVIOUS
<1>2. F(n) = FlattenSeq(s) /\ \A j \in 0..n : F(j) \in Seq(V)
    BY FlattenFirst
<1>3. \A j \in 1..n : F(j) = F(j - 1) \o s[j]
    BY FlattenFirst
<1>4. \A j \in 1..n : s[j] \in Seq(V)
  <2> DEFINE C == Seq(V)
  <2>1. s \in Seq(C)
      OBVIOUS
  <2> HIDE DEF C
  <2>2. \A j \in 1..n : s[j] \in C
      BY <2>1
  <2> QED BY <2>2 DEF C
<1> HIDE DEF F, n
<1>5. F(i - 1) \in Seq(V) /\ s[i] \in Seq(V) /\ F(i) = F(i - 1) \o s[i]
    BY <1>1, <1>2, <1>3, <1>4
<1>6. p \in 1..Len(F(i)) /\ F(i)[p] = s[i][k]
  <2> DEFINE a == F(i - 1)
             b == s[i]
  <2>1. a \in Seq(V) /\ b \in Seq(V) /\ k \in 1..Len(b)
      BY <1>5
  <2> HIDE DEF a, b
  <2>2. Len(a) + k \in 1..Len(a \o b) /\ (a \o b)[Len(a) + k] = b[k]
      BY <2>1
  <2>3. p = Len(a) + k
      BY DEF a, F
  <2> HIDE DEF p
  <2> QED BY <1>5, <2>2, <2>3 DEF a, b
<1> HIDE DEF p
<1>7. ASSUME NEW j \in 1..n, NEW x \in 1..Len(F(j - 1))
      PROVE  x \in 1..Len(F(j)) /\ F(j)[x] = F(j - 1)[x]
  <2> DEFINE a == F(j - 1)
             b == s[j]
  <2>1. a \in Seq(V) /\ b \in Seq(V) /\ x \in 1..Len(a)
    <3>1. j - 1 \in 0..n
        BY <1>1
    <3> QED BY <1>2, <1>4, <3>1
  <2>2. F(j) = a \o b
      BY <1>3
  <2> HIDE DEF a, b
  <2>3. x \in 1..Len(a \o b) /\ (a \o b)[x] = a[x]
      BY <2>1
  <2> QED BY <2>2, <2>3 DEF a
<1>8. 0 \in G
  <2>1. 0 \in 0..(n - i) /\ i + 0 = i
      BY <1>1
  <2> QED BY <1>6, <2>1
<1>9. ASSUME NEW d \in 0..((n - i) - 1), d \in G PROVE d + 1 \in G
  <2> DEFINE j == i + (d + 1)
  <2>1. j \in 1..n /\ j - 1 = i + d /\ d + 1 \in 0..(n - i)
      BY <1>1
  <2>2. p \in 1..Len(F(j - 1)) /\ F(j - 1)[p] = s[i][k]
    <3>1. p \in 1..Len(F(i + d)) /\ F(i + d)[p] = s[i][k]
        BY <1>9
    <3> HIDE DEF j
    <3> QED BY <2>1, <3>1
  <2>3. p \in 1..Len(F(j)) /\ F(j)[p] = s[i][k]
    <3> HIDE DEF j
    <3> QED BY <1>7, <2>1, <2>2
  <2> QED BY <2>1, <2>3
<1> HIDE DEF G
<1>10. 0..(n - i) \subseteq G
    BY <1>1, <1>8, <1>9, Upwards
<1>11. n - i \in G /\ i + (n - i) = n
    BY <1>1, <1>10
<1>12. p \in 1..Len(F(n)) /\ F(n)[p] = s[i][k]
    BY <1>11 DEF G
<1> QED BY <1>2, <1>12 DEF p, F, n

\* Sequences side by side
LEMMA SideBySide ==
    ASSUME NEW V, NEW a \in Seq(V), NEW b \in Seq(V)
    PROVE  /\ a \o b \in Seq(V) /\ Len(a \o b) = Len(a) + Len(b)
           /\ Len(a) \in Nat /\ Len(b) \in Nat
           /\ \A k \in 1..Len(a) : k \in 1..Len(a \o b) /\ (a \o b)[k] = a[k]
           /\ \A k \in 1..Len(b) : Len(a) + k \in 1..Len(a \o b) /\ (a \o b)[Len(a) + k] = b[k]
           /\ ToSet(a \o b) = ToSet(a) \cup ToSet(b)
<1>1. /\ a \o b \in Seq(V) /\ Len(a \o b) = Len(a) + Len(b)
      /\ Len(a) \in Nat /\ Len(b) \in Nat
    OBVIOUS
<1>2. \A k \in 1..Len(a) : k \in 1..Len(a \o b) /\ (a \o b)[k] = a[k]
    OBVIOUS
<1>3. \A k \in 1..Len(b) : Len(a) + k \in 1..Len(a \o b) /\ (a \o b)[Len(a) + k] = b[k]
    OBVIOUS
<1>4. ToSet(a \o b) = ToSet(a) \cup ToSet(b)
  <2> DEFINE c == a \o b
             m == Len(a)
             n == Len(b)
  <2>1. DOMAIN a = 1..m /\ DOMAIN b = 1..n /\ DOMAIN c = 1..(m + n) /\ m \in Nat /\ n \in Nat
      OBVIOUS
  <2>2. (\A k \in 1..m : c[k] = a[k]) /\ (\A k \in 1..n : c[m + k] = b[k])
      BY <1>2, <1>3
  <2>3. \A x : x \in ToSet(a) <=> \E k \in 1..m : x = a[k]
      BY <2>1 DEF ToSet
  <2>4. \A x : x \in ToSet(b) <=> \E k \in 1..n : x = b[k]
      BY <2>1 DEF ToSet
  <2>5. \A x : x \in ToSet(c) <=> \E k \in 1..(m + n) : x = c[k]
      BY <2>1 DEF ToSet
  <2> HIDE DEF c, m, n
  <2>6. \A k \in 1..(m + n) : k \in 1..m \/ (k - m \in 1..n /\ k = m + (k - m))
      BY <2>1
  <2>7. \A k \in 1..m : k \in 1..(m + n)
      BY <2>1
  <2>8. \A k \in 1..n : m + k \in 1..(m + n)
      BY <2>1
  <2>9. ASSUME NEW x \in ToSet(c) PROVE x \in ToSet(a) \cup ToSet(b)
    <3>1. PICK k \in 1..(m + n) : x = c[k]
        BY <2>5
    <3>2. CASE k \in 1..m
        BY <2>2, <2>3, <3>1, <3>2
    <3>3. CASE k - m \in 1..n /\ k = m + (k - m)
      <4>1. c[k] = b[k - m]
          BY <2>2, <3>3
      <4> QED BY <2>4, <3>1, <3>3, <4>1
    <3> QED BY <2>6, <3>2, <3>3
  <2>10. ASSUME NEW x \in ToSet(a) PROVE x \in ToSet(c)
      BY <2>2, <2>3, <2>5, <2>7
  <2>11. ASSUME NEW x \in ToSet(b) PROVE x \in ToSet(c)
      BY <2>2, <2>4, <2>5, <2>8
  <2> QED BY <2>9, <2>10, <2>11 DEF c
<1> QED BY <1>1, <1>2, <1>3, <1>4

-----------------------------------------------------------------------------
(* What a condition is true of.                                             *)

\* An atom is true of a row.
AtomTrue(atom, row, binds) ==
    (IF atom.op = "Nested" THEN HoldsFlat(atom.text, row, binds) ELSE Holds(atom, row, binds)) = 2

TextTrue(text, row, binds) == HoldsText(text, row, binds) = 2

\* Without parentheses
Plainly(text) == \A d \in DOMAIN text : \A k \in DOMAIN text[d] : text[d][k].op # "Nested"

\* There is no fourth truth value.
LEMMA ThreeValues ==
    ASSUME NEW row, NEW binds
    PROVE  /\ \A S : Greatest(S) \in {0, 1, 2} /\ Least(S) \in {0, 1, 2}
           /\ \A op, c, v : Compare(op, c, v) \in {0, 1, 2}
           /\ \A op, c, vals : Evaluated(op, c, vals) \in {0, 1, 2}
           /\ \A atom : Holds(atom, row, binds) \in {0, 1, 2}
<1>1. ASSUME NEW S PROVE Greatest(S) \in {0, 1, 2} /\ Least(S) \in {0, 1, 2}
  <2>1. Greatest(S) \in {0, 1, 2}
    <3>1. CASE 2 \in S
        BY <3>1 DEF Greatest
    <3>2. CASE 2 \notin S
        BY <3>2 DEF Greatest
    <3> QED BY <3>1, <3>2
  <2>2. Least(S) \in {0, 1, 2}
    <3>1. CASE 0 \in S
        BY <3>1 DEF Least
    <3>2. CASE 0 \notin S
        BY <3>2 DEF Least
    <3> QED BY <3>1, <3>2
  <2> QED BY <2>1, <2>2
<1>2. ASSUME NEW op, NEW c, NEW v PROVE Compare(op, c, v) \in {0, 1, 2}
    BY DEF Compare, Truth
<1>3. ASSUME NEW op, NEW c, NEW vals PROVE Evaluated(op, c, vals) \in {0, 1, 2}
  <2>1. CASE op \in {"IsNull", "IsNotNull"}
      BY <2>1 DEF Evaluated, Truth
  <2>2. CASE op \in {"In", "Between"}
    <3> QED BY <1>1, <2>2 DEF Evaluated
  <2>3. CASE op \notin {"IsNull", "IsNotNull", "In", "Between"}
    <3>1. Evaluated(op, c, vals) = Compare(op, c, vals[1])
        BY <2>3 DEF Evaluated
    <3> QED BY <1>2, <3>1
  <2> QED BY <2>1, <2>2, <2>3
<1>4. ASSUME NEW atom PROVE Holds(atom, row, binds) \in {0, 1, 2}
  <2> DEFINE t == Evaluated(atom.op, row[atom.field], [i \in DOMAIN atom.ph |-> binds[atom.ph[i]]])
  <2>1. t \in {0, 1, 2}
      BY <1>3
  <2>2. Holds(atom, row, binds) = IF atom.not THEN 2 - t ELSE t
      BY DEF Holds
  <2> HIDE DEF t
  <2>3. 2 - t \in {0, 1, 2}
      BY <2>1
  <2> QED BY <2>1, <2>2, <2>3
<1> QED BY <1>1, <1>2, <1>3, <1>4

\* A condition is true when all atoms of one of its disjuncts are.
LEMMA TextIsTrue ==
    ASSUME NEW text, NEW row, NEW binds
    PROVE  /\ TextTrue(text, row, binds) <=>
                \E d \in DOMAIN text : \A k \in DOMAIN text[d] : AtomTrue(text[d][k], row, binds)
           /\ HoldsFlat(text, row, binds) = 2 <=>
                \E d \in DOMAIN text : \A k \in DOMAIN text[d] : Holds(text[d][k], row, binds) = 2
<1>1. TextTrue(text, row, binds) <=>
        \E d \in DOMAIN text : \A k \in DOMAIN text[d] : AtomTrue(text[d][k], row, binds)
  <2> DEFINE Value(atom) == IF atom.op = "Nested" THEN HoldsFlat(atom.text, row, binds)
                            ELSE Holds(atom, row, binds)
             Values(conj) == {Value(atom) : atom \in ToSet(conj)}
             All == {Least(Values(conj)) : conj \in ToSet(text)}
  <2>1. HoldsText(text, row, binds) = Greatest(All)
      BY DEF HoldsText
  <2>2. \A atom : Value(atom) \in {0, 1, 2} /\ (AtomTrue(atom, row, binds) <=> Value(atom) = 2)
      BY ThreeValues DEF AtomTrue, HoldsFlat
  <2> HIDE DEF Value
  <2>3. ASSUME NEW conj PROVE Least(Values(conj)) = 2 <=> \A k \in DOMAIN conj : AtomTrue(conj[k], row, binds)
    <3>1. Least(Values(conj)) = 2 <=> 0 \notin Values(conj) /\ 1 \notin Values(conj)
        BY TruthValues
    <3>2. Values(conj) = {Value(conj[k]) : k \in DOMAIN conj}
        BY DEF ToSet
    <3> QED BY <2>2, <3>1, <3>2
  <2> HIDE DEF Values
  <2>4. All = {Least(Values(text[d])) : d \in DOMAIN text}
      BY DEF ToSet
  <2> HIDE DEF All
  <2>5. Greatest(All) = 2 <=> 2 \in All
      BY TruthValues
  <2> QED BY <2>1, <2>3, <2>4, <2>5 DEF TextTrue
<1>2. HoldsFlat(text, row, binds) = 2 <=>
        \E d \in DOMAIN text : \A k \in DOMAIN text[d] : Holds(text[d][k], row, binds) = 2
  <2> DEFINE Values(conj) == {Holds(atom, row, binds) : atom \in ToSet(conj)}
             All == {Least(Values(conj)) : conj \in ToSet(text)}
  <2>1. HoldsFlat(text, row, binds) = Greatest(All)
      BY DEF HoldsFlat
  <2>2. \A atom : Holds(atom, row, binds) \in {0, 1, 2}
      BY ThreeValues
  <2>3. ASSUME NEW conj PROVE Least(Values(conj)) = 2 <=> \A k \in DOMAIN conj : Holds(conj[k], row, binds) = 2
    <3>1. Least(Values(conj)) = 2 <=> 0 \notin Values(conj) /\ 1 \notin Values(conj)
        BY TruthValues
    <3>2. Values(conj) = {Holds(conj[k], row, binds) : k \in DOMAIN conj}
        BY DEF ToSet
    <3> QED BY <2>2, <3>1, <3>2
  <2> HIDE DEF Values
  <2>4. All = {Least(Values(text[d])) : d \in DOMAIN text}
      BY DEF ToSet
  <2> HIDE DEF All
  <2>5. Greatest(All) = 2 <=> 2 \in All
      BY TruthValues
  <2> QED BY <2>1, <2>3, <2>4, <2>5
<1> QED BY <1>1, <1>2

\* Parentheses change nothing, where there were none.
LEMMA GroupedMeans ==
    ASSUME NEW text, Plainly(text), NEW row, NEW binds
    PROVE  /\ TextTrue(Nested(text), row, binds) <=> TextTrue(text, row, binds)
           /\ TextTrue(Grouped(text), row, binds) <=> TextTrue(text, row, binds)
<1> DEFINE atom == [op |-> "Nested", text |-> text]
           one == <<<<atom>>>>
<1>1. Nested(text) = one
    BY DEF Nested
<1>2. atom.op = "Nested" /\ atom.text = text
    OBVIOUS
<1>3. DOMAIN one = {1} /\ DOMAIN one[1] = {1} /\ one[1][1] = atom
    OBVIOUS
<1> HIDE DEF atom, one
<1>4. TextTrue(one, row, binds) <=> AtomTrue(atom, row, binds)
    BY <1>3, TextIsTrue
<1>5. AtomTrue(atom, row, binds) <=> HoldsFlat(text, row, binds) = 2
    BY <1>2 DEF AtomTrue
<1>6. \A d \in DOMAIN text : \A k \in DOMAIN text[d] :
        AtomTrue(text[d][k], row, binds) <=> Holds(text[d][k], row, binds) = 2
    BY DEF AtomTrue, Plainly
<1>7. HoldsFlat(text, row, binds) = 2 <=> TextTrue(text, row, binds)
    BY <1>6, TextIsTrue
<1> QED BY <1>1, <1>4, <1>5, <1>7 DEF Grouped

\* AND of two conjunctions is the conjunction of both.
LEMMA AndMeans ==
    ASSUME NEW s, NEW t, Conjunction(s), Conjunction(t), NEW row, NEW binds
    PROVE  TextTrue(and(s, t), row, binds) <=> TextTrue(s, row, binds) /\ TextTrue(t, row, binds)
<1>1. PICK V : \E c \in Seq(V) : s = <<c>>
    BY DEF Conjunction
<1>2. PICK c \in Seq(V) : s = <<c>>
    BY <1>1
<1>3. PICK W : \E e \in Seq(W) : t = <<e>>
    BY DEF Conjunction
<1>4. PICK e \in Seq(W) : t = <<e>>
    BY <1>3
<1> DEFINE X == V \cup W
           both == c \o e
<1>5. c \in Seq(X) /\ e \in Seq(X)
    OBVIOUS
<1>6. Front(s) = <<>> /\ Last(s) = c /\ Head(t) = e /\ Tail(t) = <<>>
    BY <1>2, <1>4 DEF Front, Last
<1> HIDE DEF X
<1>7. and(s, t) = <<both>>
  <2>1. and(s, t) = <<>> \o <<both>> \o <<>>
      BY <1>6 DEF and
  <2>2. both \in Seq(X)
      BY <1>5
  <2> HIDE DEF both
  <2> QED BY <2>1, <2>2
<1>8. /\ Len(c) \in Nat /\ DOMAIN c = 1..Len(c) /\ DOMAIN e = 1..Len(e) /\ Len(e) \in Nat
      /\ DOMAIN both = 1..(Len(c) + Len(e))
      /\ \A k \in 1..Len(c) : both[k] = c[k]
      /\ \A k \in 1..Len(e) : both[Len(c) + k] = e[k]
    BY <1>5
<1> HIDE DEF both
<1>9. ASSUME NEW x PROVE TextTrue(<<x>>, row, binds) <=> \A k \in DOMAIN x : AtomTrue(x[k], row, binds)
  <2> DEFINE one == <<x>>
  <2>1. DOMAIN one = {1} /\ one[1] = x
      OBVIOUS
  <2> HIDE DEF one
  <2>2. TextTrue(one, row, binds) <=> \A k \in DOMAIN x : AtomTrue(x[k], row, binds)
      BY <2>1, TextIsTrue
  <2> QED BY <2>2 DEF one
<1>10. (\A k \in DOMAIN both : AtomTrue(both[k], row, binds)) <=>
         (\A k \in DOMAIN c : AtomTrue(c[k], row, binds)) /\ (\A k \in DOMAIN e : AtomTrue(e[k], row, binds))
  <2>1. \A k \in 1..(Len(c) + Len(e)) : k \in 1..Len(c) \/ (k - Len(c) \in 1..Len(e) /\ k = Len(c) + (k - Len(c)))
      BY <1>8
  <2>2. \A k \in 1..Len(c) : k \in 1..(Len(c) + Len(e))
      BY <1>8
  <2>3. \A k \in 1..Len(e) : Len(c) + k \in 1..(Len(c) + Len(e))
      BY <1>8
  <2>4. ASSUME \A k \in DOMAIN both : AtomTrue(both[k], row, binds)
        PROVE  (\A k \in DOMAIN c : AtomTrue(c[k], row, binds)) /\ (\A k \in DOMAIN e : AtomTrue(e[k], row, binds))
      BY <1>8, <2>2, <2>3, <2>4
  <2>5. ASSUME \A k \in DOMAIN c : AtomTrue(c[k], row, binds), \A k \in DOMAIN e : AtomTrue(e[k], row, binds),
               NEW k \in DOMAIN both
        PROVE  AtomTrue(both[k], row, binds)
    <3>1. k \in 1..(Len(c) + Len(e))
        BY <1>8
    <3>2. CASE k \in 1..Len(c)
        BY <1>8, <2>5, <3>2
    <3>3. CASE k - Len(c) \in 1..Len(e) /\ k = Len(c) + (k - Len(c))
      <4>1. both[k] = e[k - Len(c)]
          BY <1>8, <3>3
      <4> QED BY <1>8, <2>5, <3>3, <4>1
    <3> QED BY <2>1, <3>1, <3>2, <3>3
  <2> QED BY <2>4, <2>5
<1> QED BY <1>2, <1>4, <1>7, <1>9, <1>10

\* A condition without OR is a conjunction.
LEMMA OneDisjunct ==
    ASSUME NEW U, NEW text \in Seq(Seq(U)), text # <<>>, ~contains_or(text)
    PROVE  Conjunction(text)
<1> DEFINE C == Seq(U)
<1>1. text \in Seq(C) /\ text # <<>> /\ ~(Len(text) > 1)
    BY DEF contains_or
<1> HIDE DEF C
<1>2. Len(text) = 1 /\ text[1] \in C
  <2>1. Len(text) \in Nat /\ Len(text) # 0
      BY <1>1
  <2>2. Len(text) = 1
    <3>1. \A n \in Nat : n # 0 /\ ~(n > 1) => n = 1
        OBVIOUS
    <3> QED BY <1>1, <2>1, <3>1, Zenon
  <2>3. 1 \in 1..Len(text)
      BY <2>2
  <2>4. \A i \in 1..Len(text) : text[i] \in C
      BY <1>1
  <2> QED BY <2>2, <2>3, <2>4, Zenon
<1>3. text = <<text[1]>>
    BY <1>1, <1>2
<1> QED BY <1>2, <1>3 DEF Conjunction, C

\* What AND joins is true when all of it is.
LEMMA ReducedMeans ==
    ASSUME NEW parts, Len(parts) \in 1..3, NEW row, NEW binds,
           \A i \in 1..Len(parts) : Disjunction(parts[i]) /\ Plainly(parts[i])
    PROVE  /\ TextTrue(Reduced(parts), row, binds) <=> \A i \in 1..Len(parts) : TextTrue(parts[i], row, binds)
           /\ Conjunction(Reduced(parts)) \/ Plainly(Reduced(parts))
           /\ Disjunction(Reduced(parts))
<1> DEFINE T(text) == TextTrue(text, row, binds)
<1>1. ASSUME NEW i \in 1..Len(parts)
      PROVE  Conjunction(Grouped(parts[i])) /\ (T(Grouped(parts[i])) <=> T(parts[i]))
    BY GroupedIsOne, GroupedMeans
<1>2. ASSUME NEW s, NEW t, Conjunction(s), Conjunction(t)
      PROVE  Conjunction(and(s, t)) /\ (T(and(s, t)) <=> T(s) /\ T(t))
    BY <1>2, AndMeans, ConjunctionsJoin
<1>3. ASSUME NEW s, Conjunction(s) PROVE Grouped(s) = s
  <2>1. PICK V : \E c \in Seq(V) : s = <<c>>
      BY <1>3 DEF Conjunction
  <2> QED BY <2>1 DEF Grouped, contains_or
<1>4. CASE Len(parts) = 1
  <2>1. Reduced(parts) = parts[1]
      BY <1>4 DEF Reduced
  <2>2. 1 \in 1..Len(parts) /\ \A i \in 1..Len(parts) : i = 1
      BY <1>4
  <2> QED BY <2>1, <2>2
<1> HIDE DEF T
<1>5. ASSUME Len(parts) > 1
      PROVE  LET two == grouped_and(parts[1], parts[2])
             IN  Conjunction(two) /\ (T(two) <=> T(parts[1]) /\ T(parts[2]))
  <2>1. 1 \in 1..Len(parts) /\ 2 \in 1..Len(parts)
      BY <1>5
  <2>2. Conjunction(Grouped(parts[1])) /\ (T(Grouped(parts[1])) <=> T(parts[1]))
      BY <1>1, <2>1
  <2>3. Conjunction(Grouped(parts[2])) /\ (T(Grouped(parts[2])) <=> T(parts[2]))
      BY <1>1, <2>1
  <2> QED BY <1>2, <2>2, <2>3 DEF grouped_and
<1>6. CASE Len(parts) = 2
  <2>1. Reduced(parts) = grouped_and(parts[1], parts[2])
      BY <1>6 DEF Reduced
  <2>2. \A i : i \in 1..Len(parts) <=> i = 1 \/ i = 2
      BY <1>6
  <2>3. (\A i \in 1..Len(parts) : T(parts[i])) <=> T(parts[1]) /\ T(parts[2])
      BY <2>2, Zenon
  <2>4. Len(parts) > 1
      BY <1>6
  <2> QED BY <1>5, <2>1, <2>3, <2>4, ConjunctionsJoin DEF T
<1>7. CASE Len(parts) = 3
  <2> DEFINE two == grouped_and(parts[1], parts[2])
  <2>1. Reduced(parts) = grouped_and(two, parts[3])
      BY <1>7 DEF Reduced
  <2>2. Len(parts) > 1
      BY <1>7
  <2>3. Conjunction(two) /\ (T(two) <=> T(parts[1]) /\ T(parts[2]))
      BY <1>5, <2>2
  <2> HIDE DEF two
  <2>4. 3 \in 1..Len(parts)
      BY <1>7
  <2>5. Conjunction(Grouped(parts[3])) /\ (T(Grouped(parts[3])) <=> T(parts[3]))
      BY <1>1, <2>4
  <2>6. Grouped(two) = two
      BY <1>3, <2>3
  <2>7. Conjunction(Reduced(parts)) /\ (T(Reduced(parts)) <=> T(two) /\ T(parts[3]))
      BY <1>2, <2>1, <2>3, <2>5, <2>6 DEF grouped_and
  <2>8. \A i : i \in 1..Len(parts) <=> i = 1 \/ i = 2 \/ i = 3
      BY <1>7
  <2>9. (\A i \in 1..Len(parts) : T(parts[i])) <=> T(parts[1]) /\ T(parts[2]) /\ T(parts[3])
      BY <2>8, Zenon
  <2> QED BY <2>3, <2>7, <2>9, ConjunctionsJoin DEF T
<1> QED BY <1>4, <1>6, <1>7

\* A WHERE without an OR that stands alone, and what the request adds, both hold.
LEMMA CombinedMeans ==
    ASSUME NEW U, NEW own \in Seq(Seq(U)), ~contains_or(own),
           NEW parts, Len(parts) \in 0..3, parts # <<>> => Len(parts) > 0,
           \A i \in 1..Len(parts) : Disjunction(parts[i]) /\ Plainly(parts[i]),
           NEW binds, NEW row \in Row
    PROVE  row \in Selects(Combined(own, parts), binds) <=>
             /\ row \in Selects(own, binds)
             /\ \A i \in 1..Len(parts) : TextTrue(parts[i], row, binds)
<1> DEFINE All == \A i \in 1..Len(parts) : TextTrue(parts[i], row, binds)
<1>1. CASE parts = <<>>
  <2>1. Combined(own, parts) = own
      BY <1>1 DEF Combined
  <2>2. 1..Len(parts) = {}
      BY <1>1
  <2> QED BY <2>1, <2>2
<1>2. CASE parts # <<>>
  <2>1. Len(parts) \in 1..3
      BY <1>2
  <2>2. /\ TextTrue(Reduced(parts), row, binds) <=> All
        /\ Conjunction(Reduced(parts)) \/ Plainly(Reduced(parts))
        /\ Disjunction(Reduced(parts))
      BY <2>1, ReducedMeans
  <2>3. TextTrue(Dynamic(own, parts), row, binds) <=> All
    <3>1. ASSUME contains_or(Reduced(parts)) PROVE Plainly(Reduced(parts))
      <4>1. ASSUME Conjunction(Reduced(parts)) PROVE FALSE
        <5>1. PICK V : \E c \in Seq(V) : Reduced(parts) = <<c>>
            BY <4>1 DEF Conjunction
        <5> QED BY <3>1, <5>1 DEF contains_or
      <4> QED BY <2>2, <4>1
    <3>2. CASE own # <<>> /\ contains_or(Reduced(parts))
      <4>1. Dynamic(own, parts) = Nested(Reduced(parts))
          BY <3>2 DEF Dynamic
      <4> QED BY <2>2, <3>1, <3>2, <4>1, GroupedMeans
    <3>3. CASE ~(own # <<>> /\ contains_or(Reduced(parts)))
      <4>1. Dynamic(own, parts) = Reduced(parts)
          BY <3>3 DEF Dynamic
      <4> QED BY <2>2, <4>1
    <3> QED BY <3>2, <3>3
  <2>4. ASSUME NEW text, text # <<>> PROVE row \in Selects(text, binds) <=> TextTrue(text, row, binds)
      BY <2>4 DEF Selects, TextTrue
  <2>5. CASE own = <<>>
    <3>1. Combined(own, parts) = Dynamic(own, parts) /\ Dynamic(own, parts) = Reduced(parts)
        BY <1>2, <2>5 DEF Combined, Dynamic
    <3>2. row \in Selects(own, binds)
        BY <2>5 DEF Selects
    <3>3. Reduced(parts) # <<>>
        BY <2>2 DEF Disjunction
    <3> QED BY <2>3, <2>4, <3>1, <3>2, <3>3
  <2>6. CASE own # <<>>
    <3>1. Conjunction(own)
        BY <2>6, OneDisjunct
    <3>2. Conjunction(Dynamic(own, parts))
        BY <2>1, <2>6, DynamicIsOne
    <3>3. Combined(own, parts) = and(own, Dynamic(own, parts))
        BY <1>2, <2>6 DEF Combined
    <3>4. Conjunction(and(own, Dynamic(own, parts)))
        BY <3>1, <3>2, ConjunctionsJoin
    <3>5. and(own, Dynamic(own, parts)) # <<>>
        BY <3>4, ConjunctionsJoin DEF Disjunction
    <3>6. TextTrue(and(own, Dynamic(own, parts)), row, binds) <=>
            TextTrue(own, row, binds) /\ TextTrue(Dynamic(own, parts), row, binds)
        BY <3>1, <3>2, AndMeans
    <3> QED BY <2>3, <2>4, <2>6, <3>3, <3>5, <3>6
  <2> QED BY <2>5, <2>6
<1> QED BY <1>1, <1>2

-----------------------------------------------------------------------------
(* What is bound, and which conditions there are.                           *)

\* What comes of a request: its filters, its search and its cursor, as there are.
LEMMA PartsMean ==
    ASSUME NEW b, NEW row, NEW binds
    PROVE  LET n == b + Taken(Len(params.filters))
               m == IF Searching THEN Len(params.search.fields) ELSE 0
           IN  /\ \A t : t \in ToSet(Parts(b)) <=>
                     \/ params.filters # <<>> /\ t = FilterCond(b)
                     \/ Searching /\ t = SearchCond(n)
                     \/ Seeking /\ t = CursorCond(n + m)
               /\ \E V : Parts(b) \in Seq(V)
<1> DEFINE n == b + Taken(Len(params.filters))
           m == IF Searching THEN Len(params.search.fields) ELSE 0
           f == FilterCond(b)
           s == SearchCond(n)
           c == CursorCond(n + m)
           V == {f, s, c}
           x == IF params.filters # <<>> THEN <<f>> ELSE <<>>
           y == IF Searching THEN <<s>> ELSE <<>>
           z == IF Seeking THEN <<c>> ELSE <<>>
<1>1. Parts(b) = x \o y \o z
    BY DEF Parts
<1> HIDE DEF n, m, f, s, c
<1>2. x \in Seq(V) /\ y \in Seq(V) /\ z \in Seq(V)
  <2>1. f \in V /\ s \in V /\ c \in V
      OBVIOUS
  <2> HIDE DEF V
  <2>2. x \in Seq(V)
      BY <2>1
  <2>3. y \in Seq(V)
      BY <2>1
  <2>4. z \in Seq(V)
      BY <2>1
  <2> QED BY <2>2, <2>3, <2>4
<1>3. ASSUME NEW v PROVE ToSet(<<v>>) = {v} /\ ToSet(<<>>) = {}
    BY DEF ToSet
<1>4. /\ ToSet(x) = IF params.filters # <<>> THEN {f} ELSE {}
      /\ ToSet(y) = IF Searching THEN {s} ELSE {}
      /\ ToSet(z) = IF Seeking THEN {c} ELSE {}
    BY <1>3
<1> HIDE DEF x, y, z, V
<1>5. x \o y \in Seq(V) /\ ToSet(x \o y) = ToSet(x) \cup ToSet(y)
  <2>1. x \o y \in Seq(V)
      BY <1>2
  <2>2. ToSet(x \o y) = ToSet(x) \cup ToSet(y)
      BY <1>2, SideBySide
  <2> QED BY <2>1, <2>2
<1>6. ToSet((x \o y) \o z) = ToSet(x \o y) \cup ToSet(z)
  <2> DEFINE xy == x \o y
  <2>1. xy \in Seq(V)
      BY <1>5
  <2> HIDE DEF xy
  <2>2. ToSet(xy \o z) = ToSet(xy) \cup ToSet(z)
      BY <1>2, <2>1, SideBySide
  <2> QED BY <2>2 DEF xy
<1>7. \A t : t \in ToSet(Parts(b)) <=>
         \/ params.filters # <<>> /\ t = f
         \/ Searching /\ t = s
         \/ Seeking /\ t = c
    BY <1>1, <1>4, <1>5, <1>6
<1>8. Parts(b) \in Seq(V)
    BY <1>1, <1>2, <1>5
<1> QED BY <1>7, <1>8 DEF f, s, c, n, m

\* The arguments of a request, as its filters, its search and its cursor take them
LEMMA FilterBindsMany ==
    ASSUME NEW f, IsFilter(f)
    PROVE  IsSequence(FilterBinds(f))
<1>1. ASSUME NEW x PROVE IsSequence(<<x>>)
  <2> DEFINE s == <<x>>
  <2>1. Len(s) = 1 /\ s = [i \in 1..1 |-> s[i]]
      OBVIOUS
  <2> HIDE DEF s
  <2>2. IsSequence(s)
      BY <2>1 DEF IsSequence
  <2> QED BY <2>2 DEF s
<1>2. IsSequence(<<>>)
  <2> DEFINE s == <<>>
  <2>1. Len(s) = 0 /\ s = [i \in 1..0 |-> s[i]]
      OBVIOUS
  <2> HIDE DEF s
  <2>2. IsSequence(s)
      BY <2>1 DEF IsSequence
  <2> QED BY <2>2 DEF s
<1>3. IsSequence(f.value.of)
    BY DEF IsFilter
<1>4. CASE f.op \in {"IsNull", "IsNotNull"}
  <2>1. FilterBinds(f) = <<>>
      BY <1>4 DEF FilterBinds
  <2> QED BY <1>2, <2>1
<1>5. CASE f.op = "Contains"
  <2>1. FilterBinds(f) = <<Wrap(f.value.of[1])>>
      BY <1>5 DEF FilterBinds
  <2> QED BY <1>1, <2>1
<1>6. CASE f.op = "ILike" /\ ~Postgres /\ f.value.of[1] # Null
  <2>1. FilterBinds(f) = <<Lower(f.value.of[1])>>
      BY <1>6 DEF FilterBinds
  <2> QED BY <1>1, <2>1
<1>7. CASE ~(f.op \in {"IsNull", "IsNotNull"}) /\ ~(f.op = "Contains") /\ ~(f.op = "ILike" /\ ~Postgres /\ f.value.of[1] # Null)
  <2>1. FilterBinds(f) = f.value.of
      BY <1>7 DEF FilterBinds
  <2> QED BY <1>3, <2>1
<1> QED BY <1>4, <1>5, <1>6, <1>7

\* Where the arguments of the filters, the search and the cursor stand in what is bound
LEMMA BoundAt ==
    ASSUME IsSequence(params.filters), IsSequence(params.search.fields), IsSequence(params.cursor.values),
           \A f \in ToSet(params.filters) : IsFilter(f)
    PROVE  LET n == Taken(Len(params.filters))
               m == IF Searching THEN Len(params.search.fields) ELSE 0
           IN  /\ n \in Nat /\ m \in Nat
               /\ \E V : Bound \in Seq(V)
               /\ \A i \in 1..Len(params.filters) :
                     /\ Taken(i - 1) \in Nat
                     /\ \A k \in 1..Len(FilterBinds(params.filters[i])) :
                           /\ Taken(i - 1) + k \in 1..Len(Bound)
                           /\ Bound[Taken(i - 1) + k] = FilterBinds(params.filters[i])[k]
               /\ Searching => \A i \in 1..Len(params.search.fields) :
                                  n + i \in 1..Len(Bound) /\ Bound[n + i] = Pattern
               /\ \A j \in 1..Len(params.cursor.values) :
                     n + m + j \in 1..Len(Bound) /\ Bound[n + m + j] = params.cursor.values[j]
<1> DEFINE F == params.filters
           l == Len(F)
           s == [i \in 1..l |-> FilterBinds(F[i])]
           W == UNION {ToSet(s[i]) : i \in 1..l}
           V == W \cup {Pattern} \cup ToSet(params.cursor.values)
           fb == FiltersBound(l)
           sb == IF Searching THEN [i \in DOMAIN params.search.fields |-> Pattern] ELSE <<>>
           cb == params.cursor.values
           m == IF Searching THEN Len(params.search.fields) ELSE 0
<1>1. l \in Nat /\ DOMAIN F = 1..l
    BY Sequences
<1>2. \A i \in 1..l : IsSequence(s[i])
  <2> TAKE i \in 1..l
  <2>1. F[i] \in ToSet(F)
      BY <1>1 DEF ToSet
  <2>2. IsFilter(F[i])
      BY <2>1
  <2> QED BY <2>2, FilterBindsMany
<1>3. s \in Seq(Seq(V)) /\ Len(s) = l
  <2>1. ASSUME NEW i \in 1..l PROVE s[i] \in Seq(V)
    <3>1. s[i] \in Seq(ToSet(s[i]))
        BY <1>2, Sequences
    <3>2. ToSet(s[i]) \subseteq V
        OBVIOUS
    <3> HIDE DEF s, V
    <3> QED BY <3>1, <3>2
  <2> DEFINE C == Seq(V)
  <2>2. \A i \in 1..l : FilterBinds(F[i]) \in C
      BY <2>1
  <2> HIDE DEF C, l, V, F
  <2>3. s \in Seq(C) /\ Len(s) = l
      BY <1>1, <2>2
  <2> QED BY <2>3 DEF C
<1>4. cb \in Seq(V)
  <2>1. cb \in Seq(ToSet(cb))
      BY Sequences
  <2> HIDE DEF W
  <2>2. ToSet(cb) \subseteq V
      OBVIOUS
  <2> HIDE DEF cb, V
  <2> QED BY <2>1, <2>2
<1>5. sb \in Seq(V) /\ Len(sb) = m /\ m \in Nat /\ (Searching => \A i \in 1..Len(params.search.fields) : sb[i] = Pattern)
  <2>1. Len(params.search.fields) \in Nat /\ DOMAIN params.search.fields = 1..Len(params.search.fields)
      BY Sequences
  <2> HIDE DEF W
  <2>2. Pattern \in V
      OBVIOUS
  <2> HIDE DEF V
  <2>3. CASE Searching
      BY <2>1, <2>2, <2>3
  <2>4. CASE ~Searching
      BY <2>4
  <2> QED BY <2>3, <2>4
<1>6. \A j \in 0..l : FiltersBound(j) = FlattenSeq(First(s, j))
  <2> TAKE j \in 0..l
  <2>1. First(s, j) = [i \in 1..j |-> FilterBinds(F[i])]
    <3>1. \A i \in 1..j : s[i] = FilterBinds(F[i])
      <4>1. \A i \in 1..j : i \in 1..l
          BY <1>1
      <4> QED BY <4>1
    <3> HIDE DEF s, F
    <3> QED BY <3>1 DEF First
  <2> QED BY <2>1 DEF FiltersBound
<1>7. fb \in Seq(V) /\ fb = FlattenSeq(s)
  <2>1. l \in 0..l
      BY <1>1
  <2>2. FiltersBound(l) = FlattenSeq(First(s, l))
      BY <1>6, <2>1
  <2> HIDE DEF s, V
  <2>3. First(s, Len(s)) = s
      BY <1>3, FlattenFirst
  <2>4. \A i \in 0..Len(s) : FlattenSeq(First(s, i)) \in Seq(V)
      BY <1>3, FlattenFirst
  <2> QED BY <1>3, <2>1, <2>2, <2>3, <2>4
<1>8. Bound = (fb \o sb) \o cb
    BY DEF Bound
<1>9. Len(fb) = Taken(l)
    BY DEF Taken
<1>10. ASSUME NEW i \in 1..l
       PROVE  /\ Taken(i - 1) \in Nat
              /\ \A k \in 1..Len(FilterBinds(F[i])) :
                    Taken(i - 1) + k \in 1..Len(fb) /\ fb[Taken(i - 1) + k] = FilterBinds(F[i])[k]
  <2>1. i - 1 \in 0..l /\ i \in 1..Len(s) /\ s[i] = FilterBinds(F[i])
      BY <1>1, <1>3
  <2>2. Taken(i - 1) = Len(FlattenSeq(First(s, i - 1)))
      BY <1>6, <2>1 DEF Taken
  <2>3. FlattenSeq(First(s, i - 1)) \in Seq(V)
    <3> HIDE DEF s, V
    <3> QED BY <1>3, <2>1, FlattenFirst
  <2> HIDE DEF s, V, fb, F
  <2>4. Taken(i - 1) \in Nat
      BY <2>2, <2>3
  <2>5. ASSUME NEW k \in 1..Len(s[i])
        PROVE  LET p == Len(FlattenSeq(First(s, i - 1))) + k
               IN  p \in 1..Len(FlattenSeq(s)) /\ FlattenSeq(s)[p] = s[i][k]
      BY <1>3, <2>1, FlattenAt
  <2> QED BY <1>7, <2>1, <2>2, <2>4, <2>5
<1> DEFINE both == fb \o sb
<1> HIDE DEF fb, sb, cb, V, s, l, F, m
<1>11. /\ both \in Seq(V) /\ Len(both) = Len(fb) + Len(sb) /\ Len(fb) \in Nat
       /\ \A k \in 1..Len(fb) : k \in 1..Len(both) /\ both[k] = fb[k]
       /\ \A k \in 1..Len(sb) : Len(fb) + k \in 1..Len(both) /\ both[Len(fb) + k] = sb[k]
  <2>1. fb \in Seq(V) /\ sb \in Seq(V)
      BY <1>5, <1>7
  <2>2. fb \o sb \in Seq(V) /\ Len(fb \o sb) = Len(fb) + Len(sb) /\ Len(fb) \in Nat
      BY <2>1
  <2>3. \A k \in 1..Len(fb) : k \in 1..Len(fb \o sb) /\ (fb \o sb)[k] = fb[k]
      BY <2>1, SideBySide
  <2>4. \A k \in 1..Len(sb) : Len(fb) + k \in 1..Len(fb \o sb) /\ (fb \o sb)[Len(fb) + k] = sb[k]
      BY <2>1, SideBySide
  <2> QED BY <2>2, <2>3, <2>4
<1> HIDE DEF both
<1>12. /\ both \o cb \in Seq(V)
       /\ \A k \in 1..Len(both) : k \in 1..Len(both \o cb) /\ (both \o cb)[k] = both[k]
       /\ \A k \in 1..Len(cb) : Len(both) + k \in 1..Len(both \o cb) /\ (both \o cb)[Len(both) + k] = cb[k]
    BY <1>4, <1>11, SideBySide
<1>13. Bound = both \o cb
    BY <1>8 DEF both
<1>14. ASSUME NEW i \in 1..l
       PROVE  /\ Taken(i - 1) \in Nat
              /\ \A k \in 1..Len(FilterBinds(F[i])) :
                    Taken(i - 1) + k \in 1..Len(Bound) /\ Bound[Taken(i - 1) + k] = FilterBinds(F[i])[k]
    BY <1>10, <1>11, <1>12, <1>13
<1>15. ASSUME Searching, NEW i \in 1..Len(params.search.fields)
       PROVE  Taken(l) + i \in 1..Len(Bound) /\ Bound[Taken(l) + i] = Pattern
  <2>1. i \in 1..Len(sb) /\ sb[i] = Pattern
      BY <1>5, <1>15 DEF m
  <2> QED BY <1>9, <1>11, <1>12, <1>13, <2>1
<1>16. ASSUME NEW j \in 1..Len(cb)
       PROVE  Taken(l) + m + j \in 1..Len(Bound) /\ Bound[Taken(l) + m + j] = cb[j]
    BY <1>5, <1>9, <1>11, <1>12, <1>13
<1>17. Taken(l) \in Nat /\ Bound \in Seq(V)
    BY <1>9, <1>11, <1>12, <1>13
<1> QED BY <1>5, <1>14, <1>15, <1>16, <1>17 DEF l, F, cb, m

-----------------------------------------------------------------------------
(* The conditions of a request are true of the rows it means.               *)

\* When a comparison is true, and when it is false: neither, of NULL.
LEMMA Comparisons ==
    ASSUME NEW c, NEW v
    PROVE  /\ \A op : c = Null \/ v = Null => Compare(op, c, v) = 1
           /\ c # Null /\ v # Null =>
                /\ Compare("Eq", c, v) = IF c = v THEN 2 ELSE 0
                /\ Compare("Ne", c, v) = IF c # v THEN 2 ELSE 0
                /\ Compare("Gt", c, v) = IF Less(v, c) THEN 2 ELSE 0
                /\ Compare("Gte", c, v) = IF ~Less(c, v) THEN 2 ELSE 0
                /\ Compare("Lt", c, v) = IF Less(c, v) THEN 2 ELSE 0
                /\ Compare("Lte", c, v) = IF ~Less(v, c) THEN 2 ELSE 0
                /\ Compare("Like", c, v) = IF Like(c, v) THEN 2 ELSE 0
                /\ Compare("LoweredLike", c, v) = IF Like(Lower(c), v) THEN 2 ELSE 0
                /\ Compare("LowerLike", c, v) = IF Like(Lower(c), Lower(v)) THEN 2 ELSE 0
<1>1. \A op : c = Null \/ v = Null => Compare(op, c, v) = 1
    BY DEF Compare
<1>2. ASSUME c # Null, v # Null
      PROVE  /\ Compare("Eq", c, v) = IF c = v THEN 2 ELSE 0
             /\ Compare("Ne", c, v) = IF c # v THEN 2 ELSE 0
             /\ Compare("Gt", c, v) = IF Less(v, c) THEN 2 ELSE 0
             /\ Compare("Gte", c, v) = IF ~Less(c, v) THEN 2 ELSE 0
             /\ Compare("Lt", c, v) = IF Less(c, v) THEN 2 ELSE 0
             /\ Compare("Lte", c, v) = IF ~Less(v, c) THEN 2 ELSE 0
             /\ Compare("Like", c, v) = IF Like(c, v) THEN 2 ELSE 0
             /\ Compare("LoweredLike", c, v) = IF Like(Lower(c), v) THEN 2 ELSE 0
             /\ Compare("LowerLike", c, v) = IF Like(Lower(c), Lower(v)) THEN 2 ELSE 0
  <2>1. Null \notin {c, v}
      BY <1>2
  <2> QED BY <2>1 DEF Compare, Truth
<1> QED BY <1>1, <1>2

\* What an atom's placeholders stand for decides what it is.
LEMMA AtomMeans ==
    ASSUME NEW op, NEW field, NEW not \in BOOLEAN, NEW ph, NEW row, NEW binds, NEW vals,
           vals = [i \in DOMAIN ph |-> binds[ph[i]]]
    PROVE  LET t == Evaluated(op, row[field], vals)
           IN  Holds(Atom(op, field, not, ph), row, binds) = 2 <=> IF not THEN t = 0 ELSE t = 2
<1> DEFINE atom == Atom(op, field, not, ph)
           t == Evaluated(op, row[field], vals)
<1>1. atom.op = op /\ atom.field = field /\ atom.not = not /\ atom.ph = ph
    BY DEF Atom
<1> HIDE DEF atom
<1>2. Holds(atom, row, binds) = IF not THEN 2 - t ELSE t
    BY <1>1 DEF Holds
<1>3. t \in {0, 1, 2}
    BY ThreeValues
<1> HIDE DEF t
<1> QED BY <1>2, <1>3 DEF t, atom

\* No pattern is NULL.
Patterned(f) ==
    ~f.value.array /\ f.value.of[1] # Null =>
        (f.op = "Contains" => Wrap(f.value.of[1]) # Null) /\ (f.op = "ILike" => Lower(f.value.of[1]) # Null)

\* A filter's condition is true of the rows the filter means.
LEMMA FilterMeans ==
    ASSUME NEW f, IsFilter(f), ~Wrong(f), Faithful(f),
           Patterned(f), NEW ph, NEW row, NEW binds,
           FilterBinds(f) = [i \in DOMAIN ph |-> binds[ph[i]]]
    PROVE  /\ Holds(FilterAtom(f, ph), row, binds) = 2 <=> Meant(f, row)
           /\ FilterAtom(f, ph).op # "Nested"
<1> DEFINE c == row[f.field]
           vals == f.value.of
           v == vals[1]
           w == vals[2]
           V == ToSet(vals)
           is(op, not, bound) == IF not THEN Evaluated(op, c, bound) = 0 ELSE Evaluated(op, c, bound) = 2
<1>1. /\ f.op \in FilterOperator /\ f.not \in BOOLEAN
      /\ f.value.array => f.op \in {"In", "NotIn", "Between", "Contains"}
      /\ ~f.value.array => Len(vals) = 1
      /\ Len(vals) \in Nat /\ DOMAIN vals = 1..Len(vals)
    BY Sequences DEF IsFilter
<1>2. ASSUME NEW op, NEW not \in BOOLEAN, FilterAtom(f, ph) = Atom(op, f.field, not, ph), op # "Nested"
      PROVE  /\ Holds(FilterAtom(f, ph), row, binds) = 2 <=> is(op, not, FilterBinds(f))
             /\ FilterAtom(f, ph).op # "Nested"
  <2>1. Holds(FilterAtom(f, ph), row, binds) = 2 <=> is(op, not, FilterBinds(f))
      BY <1>2, AtomMeans
  <2>2. FilterAtom(f, ph).op = op
      BY <1>2 DEF Atom
  <2> QED BY <1>2, <2>1, <2>2
<1>3. ASSUME NEW op, op \notin {"IsNull", "IsNotNull", "In", "Between"}, NEW bound
      PROVE  Evaluated(op, c, bound) = Compare(op, c, bound[1])
    BY <1>3 DEF Evaluated
<1>13. f.op \in {"Like", "ILike", "Contains"} /\ v # Null => Literal(v) = v
    BY DEF Faithful
<1>4. ASSUME NEW op \in {"Eq", "Ne", "Gt", "Gte", "Lt", "Lte"}, f.op = op
      PROVE  /\ Holds(FilterAtom(f, ph), row, binds) = 2 <=> Meant(f, row)
             /\ FilterAtom(f, ph).op # "Nested"
  <2>1. FilterAtom(f, ph) = Atom(op, f.field, FALSE, ph) /\ op # "Nested"
      BY <1>4 DEF FilterAtom
  <2>2. FilterBinds(f) = vals
      BY <1>4 DEF FilterBinds
  <2>3. /\ Holds(FilterAtom(f, ph), row, binds) = 2 <=> Compare(op, c, v) = 2
        /\ FilterAtom(f, ph).op # "Nested"
    <3> HIDE DEF c
    <3>1. Evaluated(op, c, vals) = Compare(op, c, v)
        BY <1>3
    <3> QED BY <1>2, <2>1, <2>2, <3>1
  <2>4. Compare(op, c, v) = 2 <=> Meant(f, row)
    <3> DEFINE Is == CASE op = "Eq"  -> c = v
                       [] op = "Ne"  -> v # Null /\ c # v
                       [] op = "Gt"  -> v # Null /\ Less(v, c)
                       [] op = "Gte" -> v # Null /\ ~Less(c, v)
                       [] op = "Lt"  -> v # Null /\ Less(c, v)
                       [] op = "Lte" -> v # Null /\ ~Less(v, c)
    <3>1. Meant(f, row) <=> c # Null /\ Is
      <4>1. CASE op = "Eq"
          BY <1>4, <4>1 DEF Meant
      <4>2. CASE op = "Ne"
          BY <1>4, <4>2 DEF Meant
      <4>3. CASE op = "Gt"
          BY <1>4, <4>3 DEF Meant
      <4>4. CASE op = "Gte"
          BY <1>4, <4>4 DEF Meant
      <4>5. CASE op = "Lt"
          BY <1>4, <4>5 DEF Meant
      <4>6. CASE op = "Lte"
          BY <1>4, <4>6 DEF Meant
      <4> QED BY <4>1, <4>2, <4>3, <4>4, <4>5, <4>6
    <3> HIDE DEF c, v
    <3>2. Compare(op, c, v) = 2 <=> c # Null /\ Is
      <4>1. CASE op = "Eq"
        <5>1. Is <=> c = v
            BY <4>1
        <5> HIDE DEF Is
        <5> QED BY <4>1, <5>1, Comparisons
      <4>2. CASE op = "Ne"
        <5>1. Is <=> v # Null /\ c # v
            BY <4>2
        <5> HIDE DEF Is
        <5> QED BY <4>2, <5>1, Comparisons
      <4>3. CASE op = "Gt"
        <5>1. Is <=> v # Null /\ Less(v, c)
            BY <4>3
        <5> HIDE DEF Is
        <5> QED BY <4>3, <5>1, Comparisons
      <4>4. CASE op = "Gte"
        <5>1. Is <=> v # Null /\ ~Less(c, v)
            BY <4>4
        <5> HIDE DEF Is
        <5> QED BY <4>4, <5>1, Comparisons
      <4>5. CASE op = "Lt"
        <5>1. Is <=> v # Null /\ Less(c, v)
            BY <4>5
        <5> HIDE DEF Is
        <5> QED BY <4>5, <5>1, Comparisons
      <4>6. CASE op = "Lte"
        <5>1. Is <=> v # Null /\ ~Less(v, c)
            BY <4>6
        <5> HIDE DEF Is
        <5> QED BY <4>6, <5>1, Comparisons
      <4> HIDE DEF Is
      <4> QED BY <4>1, <4>2, <4>3, <4>4, <4>5, <4>6
    <3> QED BY <3>1, <3>2
  <2> QED BY <2>3, <2>4
<1>5. ASSUME f.op \in {"Like", "UnsafeLike"}
      PROVE  /\ Holds(FilterAtom(f, ph), row, binds) = 2 <=> Meant(f, row)
             /\ FilterAtom(f, ph).op # "Nested"
  <2>1. FilterAtom(f, ph) = Atom("Like", f.field, f.not, ph)
      BY <1>5 DEF FilterAtom
  <2>2. FilterBinds(f) = vals
      BY <1>5 DEF FilterBinds
  <2>3. Meant(f, row) <=> c # Null /\ v # Null /\ (Like(c, v) <=> ~f.not)
    <3>1. CASE f.op = "UnsafeLike"
        BY <3>1 DEF Meant
    <3>2. CASE f.op = "Like"
      <4>1. Meant(f, row) <=> c # Null /\ v # Null /\ (Like(c, Literal(v)) <=> ~f.not)
          BY <3>2 DEF Meant
      <4> HIDE DEF c, v
      <4> QED BY <3>2, <4>1, <1>13
    <3> QED BY <1>5, <3>1, <3>2
  <2> HIDE DEF c, v
  <2>4. /\ Holds(FilterAtom(f, ph), row, binds) = 2 <=>
             IF f.not THEN Compare("Like", c, v) = 0 ELSE Compare("Like", c, v) = 2
        /\ FilterAtom(f, ph).op # "Nested"
    <3>1. Evaluated("Like", c, vals) = Compare("Like", c, v)
        BY <1>3 DEF v
    <3> QED BY <1>1, <1>2, <2>1, <2>2, <3>1
  <2>5. CASE c = Null \/ v = Null
      BY <2>3, <2>4, <2>5, Comparisons
  <2>6. CASE c # Null /\ v # Null
      BY <1>1, <2>3, <2>4, <2>6, Comparisons
  <2> QED BY <2>5, <2>6
<1>6. ASSUME f.op = "Contains"
      PROVE  /\ Holds(FilterAtom(f, ph), row, binds) = 2 <=> Meant(f, row)
             /\ FilterAtom(f, ph).op # "Nested"
  <2> DEFINE p == Wrap(v)
             bound == <<p>>
  <2>1. FilterAtom(f, ph) = Atom("Like", f.field, f.not, ph)
      BY <1>6 DEF FilterAtom
  <2>2. FilterBinds(f) = bound
      BY <1>6 DEF FilterBinds
  <2>9. ~f.value.array /\ v # Null
      BY <1>6 DEF Wrong
  <2>3. Meant(f, row) <=> c # Null /\ (Like(c, p) <=> ~f.not)
    <3>1. Meant(f, row) <=> c # Null /\ (Like(c, Wrap(Literal(v))) <=> ~f.not)
        BY <1>6 DEF Meant
    <3> HIDE DEF c, v
    <3> QED BY <1>6, <1>13, <2>9, <3>1
  <2>4. p # Null
      BY <1>6, <2>9 DEF Patterned
  <2> HIDE DEF c, p
  <2>5. bound[1] = p
      OBVIOUS
  <2> HIDE DEF bound
  <2>6. /\ Holds(FilterAtom(f, ph), row, binds) = 2 <=>
             IF f.not THEN Compare("Like", c, p) = 0 ELSE Compare("Like", c, p) = 2
        /\ FilterAtom(f, ph).op # "Nested"
    <3>1. Evaluated("Like", c, bound) = Compare("Like", c, p)
        BY <1>3, <2>5
    <3> QED BY <1>1, <1>2, <2>1, <2>2, <3>1
  <2>7. CASE c = Null
      BY <2>3, <2>6, <2>7, Comparisons
  <2>8. CASE c # Null
      BY <1>1, <2>3, <2>4, <2>6, <2>8, Comparisons
  <2> QED BY <2>7, <2>8
<1>7. ASSUME f.op = "ILike", Postgres
      PROVE  /\ Holds(FilterAtom(f, ph), row, binds) = 2 <=> Meant(f, row)
             /\ FilterAtom(f, ph).op # "Nested"
  <2>1. FilterAtom(f, ph) = Atom("LowerLike", f.field, f.not, ph)
      BY <1>7 DEF FilterAtom
  <2>2. FilterBinds(f) = vals
      BY <1>7 DEF FilterBinds
  <2>3. Meant(f, row) <=> c # Null /\ v # Null /\ (Like(Lower(c), Lower(v)) <=> ~f.not)
    <3>1. Meant(f, row) <=> c # Null /\ v # Null /\ (Like(Lower(c), Lower(Literal(v))) <=> ~f.not)
        BY <1>7 DEF Meant
    <3> HIDE DEF c, v
    <3> QED BY <1>7, <1>13, <3>1
  <2> HIDE DEF c, v
  <2>4. /\ Holds(FilterAtom(f, ph), row, binds) = 2 <=>
             IF f.not THEN Compare("LowerLike", c, v) = 0 ELSE Compare("LowerLike", c, v) = 2
        /\ FilterAtom(f, ph).op # "Nested"
    <3>1. Evaluated("LowerLike", c, vals) = Compare("LowerLike", c, v)
        BY <1>3 DEF v
    <3> QED BY <1>1, <1>2, <2>1, <2>2, <3>1
  <2>5. CASE c = Null \/ v = Null
      BY <2>3, <2>4, <2>5, Comparisons
  <2>6. CASE c # Null /\ v # Null
      BY <1>1, <2>3, <2>4, <2>6, Comparisons
  <2> QED BY <2>5, <2>6
<1>8. ASSUME f.op = "ILike", ~Postgres
      PROVE  /\ Holds(FilterAtom(f, ph), row, binds) = 2 <=> Meant(f, row)
             /\ FilterAtom(f, ph).op # "Nested"
  <2> DEFINE p == IF v # Null THEN Lower(v) ELSE v
  <2>1. FilterAtom(f, ph) = Atom("LoweredLike", f.field, FALSE, ph)
      BY <1>8 DEF FilterAtom
  <2>2. FilterBinds(f)[1] = p
    <3>1. CASE v # Null
      <4>1. FilterBinds(f) = <<Lower(v)>>
          BY <1>8, <3>1 DEF FilterBinds
      <4> QED BY <3>1, <4>1
    <3>2. CASE v = Null
      <4>1. FilterBinds(f) = vals
          BY <1>8, <3>2 DEF FilterBinds
      <4> QED BY <3>2, <4>1
    <3> QED BY <3>1, <3>2
  <2>3. ~f.not
      BY <1>1, <1>8 DEF Faithful
  <2>4. Meant(f, row) <=> c # Null /\ v # Null /\ (Like(Lower(c), Lower(v)) <=> ~f.not)
    <3>1. Meant(f, row) <=> c # Null /\ v # Null /\ (Like(Lower(c), Lower(Literal(v))) <=> ~f.not)
        BY <1>8 DEF Meant
    <3> HIDE DEF c, v
    <3> QED BY <1>8, <1>13, <3>1
  <2>5. v # Null => p # Null /\ p = Lower(v)
      BY <1>1, <1>8 DEF Patterned
  <2>6. v = Null => p = Null
      OBVIOUS
  <2> HIDE DEF c, v, p
  <2>7. /\ Holds(FilterAtom(f, ph), row, binds) = 2 <=> Compare("LoweredLike", c, p) = 2
        /\ FilterAtom(f, ph).op # "Nested"
    <3>1. Evaluated("LoweredLike", c, FilterBinds(f)) = Compare("LoweredLike", c, p)
        BY <1>3, <2>2
    <3> QED BY <1>2, <2>1, <3>1
  <2>8. CASE c = Null \/ v = Null
      BY <2>4, <2>6, <2>7, <2>8, Comparisons
  <2>9. CASE c # Null /\ v # Null
      BY <2>3, <2>4, <2>5, <2>7, <2>9, Comparisons
  <2> QED BY <2>8, <2>9
<1>9. ASSUME f.op = "In"
      PROVE  /\ Holds(FilterAtom(f, ph), row, binds) = 2 <=> Meant(f, row)
             /\ FilterAtom(f, ph).op # "Nested"
  <2> DEFINE S == {Compare("Eq", c, x) : x \in V}
  <2>1. FilterAtom(f, ph) = Atom("In", f.field, f.not, ph)
      BY <1>9 DEF FilterAtom
  <2>2. FilterBinds(f) = vals
      BY <1>9 DEF FilterBinds
  <2>3. Meant(f, row) <=> c # Null /\ IF f.not THEN V \cap {c, Null} = {} ELSE c \in V
      BY <1>9 DEF Meant
  <2>4. Evaluated("In", c, vals) = Greatest(S)
      BY DEF Evaluated
  <2>5. V # {}
    <3>1. vals # <<>>
        BY <1>9 DEF Wrong
    <3>2. Len(vals) # 0
        BY <3>1, Sequences DEF IsFilter
    <3>3. 1 \in DOMAIN vals
        BY <1>1, <3>2
    <3> QED BY <3>3 DEF ToSet
  <2>6. Greatest(S) = 2 <=> 2 \in S
      BY TruthValues
  <2>7. Greatest(S) = 0 <=> 1 \notin S /\ 2 \notin S
    <3> HIDE DEF S
    <3>1. CASE 2 \in S
        BY <3>1 DEF Greatest
    <3>2. CASE 2 \notin S
        BY <3>2 DEF Greatest
    <3> QED BY <3>1, <3>2
  <2>8. /\ Holds(FilterAtom(f, ph), row, binds) = 2 <=> IF f.not THEN Greatest(S) = 0 ELSE Greatest(S) = 2
        /\ FilterAtom(f, ph).op # "Nested"
      BY <1>1, <1>2, <2>1, <2>2, <2>4
  <2> HIDE DEF c, V
  <2>9. ASSUME NEW x
        PROVE  /\ Compare("Eq", c, x) = 2 <=> c # Null /\ x # Null /\ c = x
               /\ Compare("Eq", c, x) \notin {1, 2} <=> c # Null /\ x # Null /\ c # x
    <3>1. CASE c = Null \/ x = Null
        BY <3>1, Comparisons
    <3>2. CASE c # Null /\ x # Null
        BY <3>2, Comparisons
    <3> QED BY <3>1, <3>2
  <2>10. 2 \in S <=> c # Null /\ c \in V
      BY <2>9
  <2>11. 1 \notin S /\ 2 \notin S <=> c # Null /\ V \cap {c, Null} = {}
    <3>1. 1 \notin S /\ 2 \notin S <=> \A x \in V : Compare("Eq", c, x) \notin {1, 2}
        OBVIOUS
    <3>2. (\A x \in V : Compare("Eq", c, x) \notin {1, 2}) <=> \A x \in V : c # Null /\ x # Null /\ c # x
        BY <2>9
    <3> HIDE DEF S
    <3>3. (\A x \in V : c # Null /\ x # Null /\ c # x) <=> c # Null /\ V \cap {c, Null} = {}
        BY <2>5
    <3> QED BY <3>1, <3>2, <3>3
  <2> HIDE DEF S
  <2> QED BY <1>1, <2>3, <2>6, <2>7, <2>8, <2>10, <2>11
<1>10. ASSUME f.op = "Between"
       PROVE  /\ Holds(FilterAtom(f, ph), row, binds) = 2 <=> Meant(f, row)
              /\ FilterAtom(f, ph).op # "Nested"
  <2> DEFINE low == Compare("Gte", c, v)
             high == Compare("Lte", c, w)
             S == {low, high}
  <2>1. FilterAtom(f, ph) = Atom("Between", f.field, f.not, ph)
      BY <1>10 DEF FilterAtom
  <2>2. FilterBinds(f) = vals
      BY <1>10 DEF FilterBinds
  <2>3. Meant(f, row) <=>
          /\ c # Null
          /\ IF f.not THEN (v # Null /\ Less(c, v)) \/ (w # Null /\ Less(w, c))
                      ELSE Null \notin {v, w} /\ ~Less(c, v) /\ ~Less(w, c)
      BY <1>10 DEF Meant
  <2>4. Evaluated("Between", c, vals) = Least(S)
      BY DEF Evaluated
  <2>5. /\ Holds(FilterAtom(f, ph), row, binds) = 2 <=> IF f.not THEN Least(S) = 0 ELSE Least(S) = 2
        /\ FilterAtom(f, ph).op # "Nested"
      BY <1>1, <1>2, <2>1, <2>2, <2>4
  <2> HIDE DEF c, v, w
  <2>6. Least(S) = 2 <=> 0 \notin S /\ 1 \notin S
      BY TruthValues
  <2>7. Least(S) = 0 <=> 0 \in S
    <3> HIDE DEF S
    <3>1. CASE 0 \in S
        BY <3>1 DEF Least
    <3>2. CASE 0 \notin S
        BY <3>2 DEF Least
    <3> QED BY <3>1, <3>2
  <2>8. /\ low = 0 <=> c # Null /\ v # Null /\ Less(c, v)
        /\ low \notin {0, 1} <=> c # Null /\ v # Null /\ ~Less(c, v)
    <3>1. CASE c = Null \/ v = Null
        BY <3>1, Comparisons
    <3>2. CASE c # Null /\ v # Null
        BY <3>2, Comparisons
    <3> QED BY <3>1, <3>2
  <2>9. /\ high = 0 <=> c # Null /\ w # Null /\ Less(w, c)
        /\ high \notin {0, 1} <=> c # Null /\ w # Null /\ ~Less(w, c)
    <3>1. CASE c = Null \/ w = Null
        BY <3>1, Comparisons
    <3>2. CASE c # Null /\ w # Null
        BY <3>2, Comparisons
    <3> QED BY <3>1, <3>2
  <2> HIDE DEF low, high
  <2>10. (0 \in S <=> low = 0 \/ high = 0) /\ (0 \notin S /\ 1 \notin S <=> low \notin {0, 1} /\ high \notin {0, 1})
      OBVIOUS
  <2> HIDE DEF S
  <2> QED BY <1>1, <2>3, <2>5, <2>6, <2>7, <2>8, <2>9, <2>10
<1>11. ASSUME f.op \in {"IsNull", "IsNotNull"}
       PROVE  /\ Holds(FilterAtom(f, ph), row, binds) = 2 <=> Meant(f, row)
              /\ FilterAtom(f, ph).op # "Nested"
  <2>1. FilterAtom(f, ph) = Atom(f.op, f.field, FALSE, ph) /\ f.op # "Nested"
      BY <1>11 DEF FilterAtom
  <2>2. Meant(f, row) <=> IF f.op = "IsNull" THEN c = Null ELSE c # Null
      BY <1>11 DEF Meant
  <2> HIDE DEF c
  <2>3. Evaluated(f.op, c, FilterBinds(f)) = 2 <=> IF f.op = "IsNull" THEN c = Null ELSE c # Null
      BY <1>11 DEF Evaluated, Truth
  <2> QED BY <1>2, <2>1, <2>2, <2>3
<1>12. f.op # "NotIn"
    BY DEF Faithful
<1> HIDE DEF is, c, v, w, V, vals
<1> QED BY <1>1, <1>4, <1>5, <1>6, <1>7, <1>8, <1>9, <1>10, <1>11, <1>12 DEF FilterOperator

\* Of a cursor's value and the row's, one comes first, or they are the same.
Ordered(row) ==
    \A i \in DOMAIN params.sorts \cap DOMAIN params.cursor.values :
        LET v == params.cursor.values[i]
            w == row[params.sorts[i].field]
        IN  Null \notin {v, w} => (Less(v, w) <=> v # w /\ ~Less(w, v))

\* The arguments s are bound after the first b.
BoundFrom(b, s, binds) == \A k \in 1..Len(s) : binds[b + k] = s[k]

\* An atom that is not negated, and compares with one argument
LEMMA OneArgument ==
    ASSUME NEW op, op \notin {"IsNull", "IsNotNull", "In", "Between", "Nested"},
           NEW field, NEW p, NEW row, NEW binds
    PROVE  /\ AtomTrue(Atom(op, field, FALSE, <<p>>), row, binds) <=> Compare(op, row[field], binds[p]) = 2
           /\ Atom(op, field, FALSE, <<p>>).op # "Nested"
<1> DEFINE ph == <<p>>
           vals == [i \in DOMAIN ph |-> binds[ph[i]]]
           atom == Atom(op, field, FALSE, ph)
<1>1. vals[1] = binds[p]
    OBVIOUS
<1> HIDE DEF ph
<1>2. Evaluated(op, row[field], vals) = Compare(op, row[field], binds[p])
  <2> HIDE DEF vals
  <2> QED BY <1>1 DEF Evaluated
<1>3. Holds(atom, row, binds) = 2 <=> Evaluated(op, row[field], vals) = 2
  <2> DEFINE not == FALSE
  <2>1. vals = [i \in DOMAIN ph |-> binds[ph[i]]] /\ not \in BOOLEAN /\ ~not
      OBVIOUS
  <2> HIDE DEF vals, not
  <2>2. Holds(Atom(op, field, not, ph), row, binds) = 2 <=>
          IF not THEN Evaluated(op, row[field], vals) = 0 ELSE Evaluated(op, row[field], vals) = 2
      BY <2>1, AtomMeans
  <2> QED BY <2>1, <2>2 DEF not
<1>4. atom.op = op
    BY DEF Atom
<1> HIDE DEF vals, atom
<1>5. Holds(atom, row, binds) = 2 <=> Compare(op, row[field], binds[p]) = 2
    BY <1>2, <1>3
<1> QED BY <1>4, <1>5 DEF AtomTrue, atom, ph

\* A search is true of the rows it means.
LEMMA SearchMeans ==
    ASSUME Searching, IsSequence(params.search.fields), Pattern # Null, NEW b, NEW row, NEW binds,
           \A i \in 1..Len(params.search.fields) : binds[b + i] = Pattern
    PROVE  /\ Plainly(SearchCond(b))
           /\ TextTrue(SearchCond(b), row, binds) <=> MeantSearch(row)
<1> DEFINE F == params.search.fields
           op == IF params.search.case_sensitive THEN "Like" ELSE "LowerLike"
           atom(i) == Atom(op, F[i], FALSE, <<b + i>>)
           text == SearchCond(b)
<1>1. Len(F) \in Nat /\ DOMAIN F = 1..Len(F)
    BY Sequences
<1>2. DOMAIN text = 1..Len(F) /\ \A i \in 1..Len(F) : text[i] = <<atom(i)>>
    BY <1>1 DEF SearchCond
<1>3. ASSUME NEW i \in 1..Len(F)
      PROVE  /\ DOMAIN text[i] = {1} /\ text[i][1] = atom(i)
             /\ atom(i).op # "Nested"
             /\ AtomTrue(atom(i), row, binds) <=> Compare(op, row[F[i]], Pattern) = 2
  <2>1. op \notin {"IsNull", "IsNotNull", "In", "Between", "Nested"}
      OBVIOUS
  <2> HIDE DEF op
  <2>2. /\ AtomTrue(atom(i), row, binds) <=> Compare(op, row[F[i]], binds[b + i]) = 2
        /\ atom(i).op # "Nested"
    <3>1. ASSUME NEW field, NEW p
          PROVE  /\ AtomTrue(Atom(op, field, FALSE, <<p>>), row, binds) <=> Compare(op, row[field], binds[p]) = 2
                 /\ Atom(op, field, FALSE, <<p>>).op # "Nested"
        BY <2>1, OneArgument
    <3> QED BY <3>1
  <2>3. binds[b + i] = Pattern
      OBVIOUS
  <2> HIDE DEF atom, F, text
  <2>4. DOMAIN text[i] = {1} /\ text[i][1] = atom(i)
      BY <1>2
  <2> QED BY <2>2, <2>3, <2>4
<1>4. Plainly(text)
  <2> HIDE DEF text, atom, F
  <2> QED BY <1>2, <1>3 DEF Plainly
<1>5. TextTrue(text, row, binds) <=> \E i \in 1..Len(F) : Compare(op, row[F[i]], Pattern) = 2
  <2>1. TextTrue(text, row, binds) <=>
          \E d \in DOMAIN text : \A k \in DOMAIN text[d] : AtomTrue(text[d][k], row, binds)
      BY TextIsTrue
  <2> HIDE DEF text, atom, F, op
  <2>2. \A i \in 1..Len(F) :
           (\A k \in DOMAIN text[i] : AtomTrue(text[i][k], row, binds)) <=> Compare(op, row[F[i]], Pattern) = 2
      BY <1>3
  <2> QED BY <1>2, <2>1, <2>2
<1>6. ASSUME NEW c
      PROVE  Compare(op, c, Pattern) = 2 <=>
               c # Null /\ IF params.search.case_sensitive THEN Like(c, Pattern)
                                                           ELSE Like(Lower(c), Lower(Pattern))
  <2>1. CASE c = Null
      BY <2>1, Comparisons
  <2>2. CASE c # Null
    <3>1. CASE params.search.case_sensitive
        BY <2>2, <3>1, Comparisons
    <3>2. CASE ~params.search.case_sensitive
        BY <2>2, <3>2, Comparisons
    <3> QED BY <3>1, <3>2
  <2> QED BY <2>1, <2>2
<1>7. MeantSearch(row) <=> \E i \in 1..Len(F) : Compare(op, row[F[i]], Pattern) = 2
    BY <1>1, <1>6 DEF MeantSearch
<1> QED BY <1>4, <1>5, <1>7

\* A column in the order of the cursor
LEMMA BeyondMeans ==
    ASSUME NEW w, NEW v, v # Null, NEW asc \in BOOLEAN, NEW after \in BOOLEAN,
           w # Null => (Less(v, w) <=> v # w /\ ~Less(w, v))
    PROVE  /\ Compare(IF after = asc THEN "Gt" ELSE "Lt", w, v) = 2 <=>
                w # Null /\ w # v /\ ((IF asc THEN Less(v, w) ELSE Less(w, v)) <=> after)
           /\ Compare("Eq", w, v) = 2 <=> w = v
<1>1. CASE w = Null
  <2>1. Compare("Gt", w, v) = 1 /\ Compare("Lt", w, v) = 1 /\ Compare("Eq", w, v) = 1
      BY <1>1, Comparisons
  <2> QED BY <1>1, <2>1
<1>2. CASE w # Null
  <2>1. /\ Compare("Gt", w, v) = 2 <=> Less(v, w)
        /\ Compare("Lt", w, v) = 2 <=> Less(w, v)
        /\ Compare("Eq", w, v) = 2 <=> w = v
      BY <1>2, Comparisons
  <2>2. Less(v, w) <=> v # w /\ ~Less(w, v)
      BY <1>2
  <2>3. CASE after /\ asc
      BY <1>2, <2>1, <2>2, <2>3
  <2>4. CASE after /\ ~asc
      BY <1>2, <2>1, <2>2, <2>4
  <2>5. CASE ~after /\ asc
      BY <1>2, <2>1, <2>2, <2>5
  <2>6. CASE ~after /\ ~asc
      BY <1>2, <2>1, <2>2, <2>6
  <2> QED BY <2>3, <2>4, <2>5, <2>6
<1> QED BY <1>1, <1>2

\* A cursor without NULL is true of the rows beyond it.
LEMMA CursorMeans ==
    ASSUME Seeking, ~CursorWrong, IsSequence(params.sorts), IsSequence(params.cursor.values),
           Null \notin ToSet(params.cursor.values), NEW b, NEW row, NEW binds,
           \A s \in ToSet(params.sorts) : s.asc \in BOOLEAN,
           Ordered(row), BoundFrom(b, params.cursor.values, binds)
    PROVE  /\ Plainly(CursorCond(b))
           /\ TextTrue(CursorCond(b), row, binds) <=> MeantCursor(row)
<1> DEFINE n == Len(params.sorts)
           v(j) == params.cursor.values[j]
           w(j) == row[params.sorts[j].field]
           op(i, j) == IF j = i THEN Operator(i) ELSE "Eq"
           atom(i, j) == Atom(op(i, j), params.sorts[j].field, FALSE, <<b + j>>)
           text == CursorCond(b)
           After == params.cursor.direction = "After"
           Beyond(i) == /\ w(i) # Null
                        /\ w(i) # v(i)
                        /\ (IF params.sorts[i].asc THEN Less(v(i), w(i)) ELSE Less(w(i), v(i))) <=> After
<1>1. /\ n \in Nat /\ DOMAIN params.sorts = 1..n /\ DOMAIN params.cursor.values = 1..n
      /\ Len(params.cursor.values) = n
  <2>1. n \in Nat /\ DOMAIN params.sorts = 1..n
      BY Sequences
  <2>2. DOMAIN params.cursor.values = 1..Len(params.cursor.values)
      BY Sequences
  <2>3. Len(params.cursor.values) = n
      BY DEF CursorWrong
  <2> QED BY <2>1, <2>2, <2>3
<1>2. \A j \in 1..n : v(j) # Null /\ binds[b + j] = v(j)
    BY <1>1 DEF ToSet, BoundFrom
<1>3. \A i \in 1..n : params.sorts[i].asc \in BOOLEAN
    BY <1>1 DEF ToSet
<1>4. \A i \in 1..n : w(i) # Null => (Less(v(i), w(i)) <=> v(i) # w(i) /\ ~Less(w(i), v(i)))
    BY <1>1, <1>2 DEF Ordered
<1>5. DOMAIN text = 1..n /\ \A i \in 1..n : DOMAIN text[i] = 1..i /\ \A j \in 1..i : text[i][j] = atom(i, j)
    BY <1>1 DEF CursorCond
<1>6. ASSUME NEW i \in 1..n, NEW j \in 1..i
      PROVE  /\ atom(i, j).op # "Nested"
             /\ AtomTrue(atom(i, j), row, binds) <=> Compare(op(i, j), w(j), v(j)) = 2
  <2>1. op(i, j) \notin {"IsNull", "IsNotNull", "In", "Between", "Nested"}
      BY DEF Operator
  <2>2. j \in 1..n
      BY <1>1
  <2> HIDE DEF op
  <2>3. /\ AtomTrue(atom(i, j), row, binds) <=> Compare(op(i, j), row[params.sorts[j].field], binds[b + j]) = 2
        /\ atom(i, j).op # "Nested"
    <3>1. ASSUME NEW o, o \notin {"IsNull", "IsNotNull", "In", "Between", "Nested"}, NEW field, NEW p
          PROVE  /\ AtomTrue(Atom(o, field, FALSE, <<p>>), row, binds) <=> Compare(o, row[field], binds[p]) = 2
                 /\ Atom(o, field, FALSE, <<p>>).op # "Nested"
        BY <3>1, OneArgument
    <3> QED BY <2>1, <3>1
  <2> HIDE DEF atom
  <2> QED BY <1>2, <2>2, <2>3
<1>7. Plainly(text)
  <2> HIDE DEF text, atom, n
  <2> QED BY <1>5, <1>6 DEF Plainly
<1>8. TextTrue(text, row, binds) <=> \E i \in 1..n : \A j \in 1..i : Compare(op(i, j), w(j), v(j)) = 2
  <2>1. TextTrue(text, row, binds) <=>
          \E d \in DOMAIN text : \A k \in DOMAIN text[d] : AtomTrue(text[d][k], row, binds)
      BY TextIsTrue
  <2> HIDE DEF text, atom, op, n, v, w
  <2>2. \A i \in 1..n :
           (\A k \in DOMAIN text[i] : AtomTrue(text[i][k], row, binds)) <=> \A j \in 1..i : Compare(op(i, j), w(j), v(j)) = 2
      BY <1>5, <1>6
  <2> QED BY <1>5, <2>1, <2>2
<1>9. ASSUME NEW i \in 1..n
      PROVE  /\ Compare(Operator(i), w(i), v(i)) = 2 <=> Beyond(i)
             /\ Compare("Eq", w(i), v(i)) = 2 <=> w(i) = v(i)
  <2>1. v(i) # Null /\ params.sorts[i].asc \in BOOLEAN
        /\ (w(i) # Null => (Less(v(i), w(i)) <=> v(i) # w(i) /\ ~Less(w(i), v(i))))
      BY <1>2, <1>3, <1>4
  <2>2. Operator(i) = IF After = params.sorts[i].asc THEN "Gt" ELSE "Lt"
      BY DEF Operator
  <2>3. After \in BOOLEAN
      OBVIOUS
  <2> HIDE DEF v, w, After
  <2>4. /\ Compare(IF After = params.sorts[i].asc THEN "Gt" ELSE "Lt", w(i), v(i)) = 2 <=> Beyond(i)
        /\ Compare("Eq", w(i), v(i)) = 2 <=> w(i) = v(i)
      BY <2>1, <2>3, BeyondMeans
  <2> HIDE DEF Beyond
  <2> QED BY <2>2, <2>4
<1>10. ASSUME NEW i \in 1..n
       PROVE  (\A j \in 1..i : Compare(op(i, j), w(j), v(j)) = 2) <=> Beyond(i) /\ \A j \in 1..(i - 1) : w(j) = v(j)
  <2>1. \A j \in 1..i : j \in 1..n /\ (j = i \/ j \in 1..(i - 1))
      BY <1>1
  <2>2. i \in 1..i /\ \A j \in 1..(i - 1) : j \in 1..i /\ j # i
      BY <1>1
  <2>3. op(i, i) = Operator(i) /\ \A j : j # i => op(i, j) = "Eq"
      OBVIOUS
  <2> HIDE DEF op, Beyond, v, w, n
  <2>4. ASSUME \A j \in 1..i : Compare(op(i, j), w(j), v(j)) = 2
        PROVE  Beyond(i) /\ \A j \in 1..(i - 1) : w(j) = v(j)
    <3>1. Beyond(i)
        BY <1>9, <2>2, <2>3, <2>4
    <3>2. ASSUME NEW j \in 1..(i - 1) PROVE w(j) = v(j)
      <4>1. Compare("Eq", w(j), v(j)) = 2
          BY <2>2, <2>3, <2>4
      <4> QED BY <1>9, <2>1, <2>2, <4>1
    <3> QED BY <3>1, <3>2
  <2>5. ASSUME Beyond(i), \A j \in 1..(i - 1) : w(j) = v(j), NEW j \in 1..i
        PROVE  Compare(op(i, j), w(j), v(j)) = 2
    <3>1. CASE j = i
        BY <1>9, <2>3, <2>5, <3>1
    <3>2. CASE j # i
        BY <1>9, <2>1, <2>3, <2>5, <3>2
    <3> QED BY <3>1, <3>2
  <2> QED BY <2>4, <2>5
<1>11. MeantCursor(row) <=> \E i \in 1..n : Beyond(i) /\ \A j \in 1..(i - 1) : w(j) = v(j)
    BY <1>1 DEF MeantCursor
<1> HIDE DEF text, op, Beyond, n, v, w
<1>12. TextTrue(text, row, binds) <=> MeantCursor(row)
    BY <1>8, <1>10, <1>11
<1> QED BY <1>7, <1>12 DEF text

\* Filters are true together of the rows that all of them mean.
LEMMA FiltersMean ==
    ASSUME IsSequence(params.filters), NEW b, NEW row, NEW binds,
           \A f \in ToSet(params.filters) : IsFilter(f) /\ ~Wrong(f) /\ Faithful(f) /\ Patterned(f),
           \A i \in 1..Len(params.filters) : BoundFrom(b + Taken(i - 1), FilterBinds(params.filters[i]), binds)
    PROVE  /\ Plainly(FilterCond(b))
           /\ TextTrue(FilterCond(b), row, binds) <=> \A f \in ToSet(params.filters) : Meant(f, row)
<1> DEFINE F == params.filters
           ph(i) == [k \in DOMAIN FilterBinds(F[i]) |-> b + Taken(i - 1) + k]
           atom(i) == FilterAtom(F[i], ph(i))
           conj == [i \in DOMAIN F |-> atom(i)]
           text == FilterCond(b)
<1>1. Len(F) \in Nat /\ DOMAIN F = 1..Len(F)
    BY Sequences
<1>2. DOMAIN text = {1} /\ text[1] = conj
  <2>1. text = <<conj>>
      BY DEF FilterCond
  <2> HIDE DEF text, conj
  <2> QED BY <2>1
<1>3. DOMAIN conj = 1..Len(F) /\ \A i \in 1..Len(F) : conj[i] = atom(i)
  <2> HIDE DEF atom, F
  <2> QED BY <1>1
<1>4. ASSUME NEW i \in 1..Len(F)
      PROVE  /\ atom(i).op # "Nested"
             /\ AtomTrue(atom(i), row, binds) <=> Meant(F[i], row)
  <2> DEFINE f == F[i]
             fb == FilterBinds(f)
             p == ph(i)
  <2>1. f \in ToSet(F)
      BY <1>1 DEF ToSet
  <2>2. IsFilter(f) /\ ~Wrong(f) /\ Faithful(f) /\ Patterned(f)
      BY <2>1
  <2>3. fb = [k \in 1..Len(fb) |-> fb[k]] /\ DOMAIN fb = 1..Len(fb)
    <3>1. IsSequence(fb)
        BY <2>2, FilterBindsMany
    <3> HIDE DEF fb
    <3>2. DOMAIN fb = 1..Len(fb)
        BY <3>1, Sequences
    <3> QED BY <3>1, <3>2 DEF IsSequence
  <2>4. fb = [k \in DOMAIN p |-> binds[p[k]]]
    <3>1. DOMAIN p = 1..Len(fb) /\ \A k \in 1..Len(fb) : p[k] = b + Taken(i - 1) + k
        BY <2>3
    <3>2. \A k \in 1..Len(fb) : binds[p[k]] = fb[k]
        BY <3>1 DEF BoundFrom
    <3> HIDE DEF fb, p
    <3> QED BY <2>3, <3>1, <3>2
  <2> HIDE DEF f, p
  <2>5. /\ Holds(FilterAtom(f, p), row, binds) = 2 <=> Meant(f, row)
        /\ FilterAtom(f, p).op # "Nested"
      BY <2>2, <2>4, FilterMeans
  <2> QED BY <2>5 DEF AtomTrue, f, p
<1> HIDE DEF atom, conj, text
<1>5. Plainly(text)
    BY <1>2, <1>3, <1>4 DEF Plainly
<1>6. TextTrue(text, row, binds) <=> \A i \in 1..Len(F) : Meant(F[i], row)
  <2>1. TextTrue(text, row, binds) <=>
          \E d \in DOMAIN text : \A k \in DOMAIN text[d] : AtomTrue(text[d][k], row, binds)
      BY TextIsTrue
  <2> HIDE DEF F
  <2> QED BY <1>2, <1>3, <1>4, <2>1
<1>7. (\A f \in ToSet(F) : Meant(f, row)) <=> \A i \in 1..Len(F) : Meant(F[i], row)
  <2>1. ToSet(F) = {F[i] : i \in 1..Len(F)}
      BY <1>1 DEF ToSet
  <2> HIDE DEF F
  <2> QED BY <2>1
<1> QED BY <1>5, <1>6, <1>7 DEF text

\* The request is one of those that are called with.
RequestInv == \E c \in Calls : params = c.params

\* What is known of a request that is called with
LEMMA RequestIs ==
    ASSUME RequestInv
    PROVE  /\ IsSequence(params.filters) /\ IsSequence(params.sorts)
           /\ IsSequence(params.search.fields) /\ IsSequence(params.cursor.values)
           /\ \A f \in ToSet(params.filters) : IsFilter(f) /\ Patterned(f)
           /\ \A s \in ToSet(params.sorts) : s.asc \in BOOLEAN
           /\ Searching => Pattern # Null
           /\ \A row \in Row : Ordered(row)
<1>1. PICK c \in Calls : params = c.params
    BY DEF RequestInv
<1>2. /\ IsSequence(params.filters) /\ IsSequence(params.sorts)
      /\ IsSequence(params.search.fields) /\ IsSequence(params.cursor.values)
      /\ \A s \in ToSet(params.sorts) : s.asc \in BOOLEAN
    BY <1>1, CallsAssumption
<1>3. \A f \in ToSet(params.filters) : IsFilter(f)
    BY <1>1, CallsAssumption
<1>4. \A f \in ToSet(params.filters) : Patterned(f)
    BY <1>1, PatternAssumption DEF Patterned
<1>5. Searching => Pattern # Null
    BY <1>1, PatternAssumption DEF Searching, Pattern
<1>6. \A row \in Row : Ordered(row)
    BY <1>1, OrderAssumption DEF Ordered
<1> QED BY <1>2, <1>3, <1>4, <1>5, <1>6

\* Where the arguments of a request are bound from b on, its conditions are true
\* together of the rows it means.
LEMMA RequestMeans ==
    ASSUME RequestInv, ~Errs, \A f \in ToSet(params.filters) : Faithful(f),
           Null \notin ToSet(params.cursor.values),
           NEW row \in Row, NEW binds, NEW b \in Nat, BoundFrom(b, Bound, binds)
    PROVE  /\ \A t \in ToSet(Parts(b)) : Plainly(t)
           /\ (\A t \in ToSet(Parts(b)) : TextTrue(t, row, binds)) <=>
                 /\ \A f \in ToSet(params.filters) : Meant(f, row)
                 /\ MeantSearch(row) /\ MeantCursor(row)
<1> DEFINE F == params.filters
           n == Taken(Len(F))
           m == IF Searching THEN Len(params.search.fields) ELSE 0
<1>1. /\ IsSequence(F) /\ IsSequence(params.sorts)
      /\ IsSequence(params.search.fields) /\ IsSequence(params.cursor.values)
      /\ \A f \in ToSet(F) : IsFilter(f) /\ Patterned(f)
      /\ \A s \in ToSet(params.sorts) : s.asc \in BOOLEAN
      /\ Searching => Pattern # Null
      /\ Ordered(row)
    BY RequestIs
<1>2. (\A f \in ToSet(F) : ~Wrong(f)) /\ ~CursorWrong
    BY DEF Errs
<1>3. /\ n \in Nat /\ m \in Nat
      /\ \A i \in 1..Len(F) :
            /\ Taken(i - 1) \in Nat
            /\ \A k \in 1..Len(FilterBinds(F[i])) :
                  /\ Taken(i - 1) + k \in 1..Len(Bound)
                  /\ Bound[Taken(i - 1) + k] = FilterBinds(F[i])[k]
      /\ Searching => \A i \in 1..Len(params.search.fields) :
                         n + i \in 1..Len(Bound) /\ Bound[n + i] = Pattern
      /\ \A j \in 1..Len(params.cursor.values) :
            n + m + j \in 1..Len(Bound) /\ Bound[n + m + j] = params.cursor.values[j]
    BY <1>1, BoundAt
<1> HIDE DEF n, m
<1>4. \A k \in 1..Len(Bound) : binds[b + k] = Bound[k]
    BY DEF BoundFrom
<1>5. ASSUME NEW i \in 1..Len(F) PROVE BoundFrom(b + Taken(i - 1), FilterBinds(F[i]), binds)
  <2> DEFINE fb == FilterBinds(F[i])
             p == Taken(i - 1)
             B == Bound
  <2>1. p \in Nat /\ \A k \in 1..Len(fb) : p + k \in 1..Len(B) /\ B[p + k] = fb[k]
      BY <1>3
  <2>2. \A k \in 1..Len(B) : binds[b + k] = B[k]
      BY <1>4
  <2>3. Len(fb) \in Nat
      BY <1>1, Sequences, FilterBindsMany DEF ToSet
  <2> HIDE DEF fb, p, B
  <2>4. ASSUME NEW k \in 1..Len(fb) PROVE binds[b + p + k] = fb[k]
    <3>1. b + p + k = b + (p + k)
        BY <2>1, <2>3
    <3> QED BY <2>1, <2>2, <3>1
  <2> QED BY <2>4 DEF BoundFrom, fb, p
<1>6. ASSUME Searching, NEW i \in 1..Len(params.search.fields) PROVE binds[b + n + i] = Pattern
  <2> DEFINE B == Bound
  <2>1. n + i \in 1..Len(B) /\ B[n + i] = Pattern
      BY <1>3, <1>6
  <2>2. \A k \in 1..Len(B) : binds[b + k] = B[k]
      BY <1>4
  <2>3. Len(params.search.fields) \in Nat
      BY <1>1, Sequences
  <2> HIDE DEF B
  <2>4. b + n + i = b + (n + i)
      BY <1>3, <2>3
  <2> QED BY <2>1, <2>2, <2>4
<1>7. BoundFrom(b + n + m, params.cursor.values, binds)
  <2> DEFINE B == Bound
             V == params.cursor.values
  <2>1. \A j \in 1..Len(V) : n + m + j \in 1..Len(B) /\ B[n + m + j] = V[j]
      BY <1>3
  <2>2. \A k \in 1..Len(B) : binds[b + k] = B[k]
      BY <1>4
  <2>3. Len(V) \in Nat
      BY <1>1, Sequences
  <2> HIDE DEF B, V
  <2>4. ASSUME NEW j \in 1..Len(V) PROVE binds[b + n + m + j] = V[j]
    <3>1. b + n + m + j = b + (n + m + j)
        BY <1>3, <2>3
    <3> QED BY <2>1, <2>2, <3>1
  <2> QED BY <2>4 DEF BoundFrom, V
<1>8. /\ Plainly(FilterCond(b))
      /\ TextTrue(FilterCond(b), row, binds) <=> \A f \in ToSet(F) : Meant(f, row)
    BY <1>1, <1>2, <1>5, FiltersMean
<1>9. ASSUME Searching
      PROVE  /\ Plainly(SearchCond(b + n))
             /\ TextTrue(SearchCond(b + n), row, binds) <=> MeantSearch(row)
  <2> DEFINE p == b + n
  <2>1. \A i \in 1..Len(params.search.fields) : binds[p + i] = Pattern
      BY <1>6, <1>9
  <2> HIDE DEF p
  <2>2. /\ Plainly(SearchCond(p))
        /\ TextTrue(SearchCond(p), row, binds) <=> MeantSearch(row)
      BY <1>1, <1>9, <2>1, SearchMeans
  <2> QED BY <2>2 DEF p
<1>10. ASSUME Seeking
       PROVE  /\ Plainly(CursorCond(b + n + m))
              /\ TextTrue(CursorCond(b + n + m), row, binds) <=> MeantCursor(row)
    BY <1>1, <1>2, <1>7, <1>10, CursorMeans
<1>11. F = <<>> => \A f \in ToSet(F) : Meant(f, row)
    BY DEF ToSet
<1>12. (~Searching => MeantSearch(row)) /\ (~Seeking => MeantCursor(row))
    BY DEF MeantSearch, MeantCursor
<1>13. \A t : t \in ToSet(Parts(b)) <=>
          \/ F # <<>> /\ t = FilterCond(b)
          \/ Searching /\ t = SearchCond(b + n)
          \/ Seeking /\ t = CursorCond(b + n + m)
    BY PartsMean DEF n, m
<1> DEFINE f == FilterCond(b)
           s == SearchCond(b + n)
           c == CursorCond(b + n + m)
           P == ToSet(Parts(b))
           MeantFilters == \A g \in ToSet(F) : Meant(g, row)
           T(t) == TextTrue(t, row, binds)
<1>14. /\ \A t : t \in P <=> (F # <<>> /\ t = f) \/ (Searching /\ t = s) \/ (Seeking /\ t = c)
       /\ Plainly(f) /\ (T(f) <=> MeantFilters)
       /\ Searching => Plainly(s) /\ (T(s) <=> MeantSearch(row))
       /\ Seeking => Plainly(c) /\ (T(c) <=> MeantCursor(row))
       /\ F = <<>> => MeantFilters
    BY <1>8, <1>9, <1>10, <1>11, <1>13
<1> HIDE DEF F, f, s, c, P, MeantFilters, T
<1>15. \A t \in P : Plainly(t)
    BY <1>14
<1>16. (\A t \in P : T(t)) <=>
         (F # <<>> => T(f)) /\ (Searching => T(s)) /\ (Seeking => T(c))
    BY <1>14
<1>17. (\A t \in P : T(t)) <=> MeantFilters /\ MeantSearch(row) /\ MeantCursor(row)
    BY <1>12, <1>14, <1>16
<1> QED BY <1>15, <1>17 DEF P, MeantFilters, T, F

-----------------------------------------------------------------------------
(* The conditions of each SELECT, and their arguments.                      *)

\* The conditions of SELECT i are those of the request, with the arguments that
\* they are about.
Placed(i) ==
    /\ ~Errs
    /\ \E b \in Nat :
          /\ wheres[i] = Combined(written[i], Parts(b))
          /\ \A k \in 1..Len(Bound) : b + k \in 1..Len(bind_values)
          /\ BoundFrom(b, Bound, bind_values)

PlacedInv ==
    /\ OwnInv /\ RequestInv
    /\ \E V : bind_values \in Seq(V)
    /\ \A i \in 1..at : statement.selects[i].select => Placed(i)

LEMMA PlacedInit == Init => PlacedInv
<1> SUFFICES ASSUME Init PROVE PlacedInv
    OBVIOUS
<1>1. RequestInv
    BY DEF Init, RequestInv
<1>2. bind_values \in Seq(ToSet(bind_values))
    BY ArgsAssumption, Sequences DEF Init
<1>3. 1..at = {}
    BY DEF Init
<1> QED BY <1>1, <1>2, <1>3, OwnInit DEF PlacedInv

\* A step that leaves the request alone leaves alone what is made of it.
LEMMA RequestStays ==
    ASSUME UNCHANGED params
    PROVE  /\ RequestInv => RequestInv'
           /\ Errs' <=> Errs
           /\ Bound' = Bound
           /\ \A b \in Nat : Parts(b)' = Parts(b)
<1>1. RequestInv => RequestInv'
    BY DEF RequestInv
<1>2. Errs' <=> Errs
    BY DEF Errs, CursorWrong, Seeking
<1>3. Bound' = Bound
    BY DEF Bound, FiltersBound, Searching, Pattern
<1>4. ASSUME NEW b \in Nat PROVE Parts(b)' = Parts(b)
  <2>1. /\ Taken(Len(params.filters))' = Taken(Len(params.filters))
        /\ FilterCond(b)' = FilterCond(b)
        /\ (Searching' <=> Searching) /\ (Seeking' <=> Seeking)
      BY DEF FilterCond, Taken, FiltersBound, Searching, Seeking
  <2>2. ASSUME NEW p PROVE SearchCond(p)' = SearchCond(p) /\ CursorCond(p)' = CursorCond(p)
      BY DEF SearchCond, CursorCond, Operator
  <2> QED BY <2>1, <2>2 DEF Parts
<1> QED BY <1>1, <1>2, <1>3, <1>4

\* A SELECT that is processed gets its conditions and their arguments; those
\* before it keep theirs.
LEMMA PlacedSelect == PlacedInv /\ Select => PlacedInv'
<1> SUFFICES ASSUME PlacedInv, Select PROVE PlacedInv'
    OBVIOUS
<1> DEFINE n == Len(statement.selects)
           p == Len(bind_values)
           new == Combined(wheres[at + 1], Parts(p))
<1>1. /\ ~Errs /\ at < n
      /\ wheres' = [wheres EXCEPT ![at + 1] = new]
      /\ bind_values' = bind_values \o Bound
      /\ at' = at + 1
      /\ UNCHANGED <<statement, written, params, pc>>
    BY DEF Select, InBody
<1>2. OwnInv' /\ RequestInv'
    BY OwnSelect, RequestStays, <1>1 DEF PlacedInv
<1>3. n \in Nat /\ at \in 0..n /\ DOMAIN wheres = 1..n
    BY DEF PlacedInv, OwnInv, ShapeInv, Statements
<1>4. at + 1 \in 1..n /\ wheres[at + 1] = written[at + 1]
    BY <1>1, <1>3 DEF PlacedInv, OwnInv
<1>5. PICK U : bind_values \in Seq(U)
    BY DEF PlacedInv
<1>6. PICK W : Bound \in Seq(W)
    BY RequestIs, BoundAt DEF PlacedInv
<1> DEFINE V == U \cup W
           B == Bound
           all == bind_values \o B
<1>7. bind_values \in Seq(V) /\ B \in Seq(V)
    BY <1>5, <1>6
<1> HIDE DEF V, B
<1>8. /\ all \in Seq(V) /\ p \in Nat
      /\ \A k \in 1..p : k \in 1..Len(all) /\ all[k] = bind_values[k]
      /\ \A k \in 1..Len(B) : p + k \in 1..Len(all) /\ all[p + k] = B[k]
    BY <1>7, SideBySide
<1>9. bind_values' = all
    BY <1>1 DEF B
<1>10. (~Errs)' /\ Bound' = B /\ \A b \in Nat : Parts(b)' = Parts(b)
    BY <1>1, RequestStays DEF B
<1> HIDE DEF all, p, new
<1>11. ASSUME NEW i \in 1..(at + 1), statement.selects[i].select PROVE Placed(i)'
  <2> SUFFICES \E b \in Nat : /\ wheres'[i] = Combined(written[i], Parts(b))
                              /\ \A k \in 1..Len(B) : b + k \in 1..Len(all) /\ all[b + k] = B[k]
      BY <1>1, <1>9, <1>10 DEF Placed, BoundFrom
  <2>1. CASE i = at + 1
    <3>1. wheres'[i] = new
        BY <1>1, <1>3, <1>4, <2>1
    <3>2. new = Combined(written[i], Parts(p))
        BY <1>4, <2>1 DEF new
    <3> QED BY <1>8, <3>1, <3>2
  <2>2. CASE i # at + 1
    <3>1. i \in 1..at
        BY <1>3, <2>2
    <3>2. Placed(i)
        BY <1>11, <3>1 DEF PlacedInv
    <3>3. PICK b \in Nat : /\ wheres[i] = Combined(written[i], Parts(b))
                           /\ \A k \in 1..Len(B) : b + k \in 1..p
                           /\ \A k \in 1..Len(B) : bind_values[b + k] = B[k]
        BY <3>2 DEF Placed, BoundFrom, B, p
    <3>4. wheres'[i] = wheres[i]
        BY <1>1, <1>3, <2>2, <3>1
    <3>5. \A k \in 1..Len(B) : b + k \in 1..Len(all) /\ all[b + k] = B[k]
        BY <1>8, <3>3
    <3> QED BY <3>3, <3>4, <3>5
  <2> QED BY <2>1, <2>2
<1>12. \E X : bind_values' \in Seq(X)
    BY <1>8, <1>9
<1> QED BY <1>1, <1>2, <1>11, <1>12 DEF PlacedInv

\* The other steps leave every WHERE and what is bound alone.
LEMMA PlacedStep == PlacedInv /\ [Where]_vars => PlacedInv'
<1> SUFFICES ASSUME PlacedInv, [Where]_vars PROVE PlacedInv'
    OBVIOUS
<1>1. OwnInv'
    BY OwnStep DEF PlacedInv
<1>2. CASE Select
    BY <1>2, PlacedSelect
<1>3. ASSUME UNCHANGED <<statement, wheres, written, params, bind_values>>,
             \A i \in 1..at' : statement.selects[i].select => i \in 1..at
      PROVE  PlacedInv'
  <2>1. RequestInv'
      BY <1>3, RequestStays DEF PlacedInv
  <2>2. ASSUME NEW i, Placed(i) PROVE Placed(i)'
    <3>1. (Errs' <=> Errs) /\ Bound' = Bound /\ \A b \in Nat : Parts(b)' = Parts(b)
        BY <1>3, RequestStays
    <3> QED BY <1>3, <2>2, <3>1 DEF Placed, BoundFrom
  <2>3. \A i \in 1..at' : statement.selects'[i].select => Placed(i)'
    <3> TAKE i \in 1..at'
    <3> HAVE statement.selects'[i].select
    <3>1. i \in 1..at /\ statement.selects[i].select
        BY <1>3
    <3> QED BY <2>2, <3>1 DEF PlacedInv
  <2> QED BY <1>1, <1>3, <2>1, <2>3 DEF PlacedInv
<1>4. CASE Pass
  <2>1. /\ at' = at + 1 /\ ~statement.selects[at + 1].select
        /\ UNCHANGED <<statement, wheres, written, params, bind_values>>
      BY <1>4 DEF Pass, Body
  <2>2. at \in Nat
      BY DEF PlacedInv, OwnInv, ShapeInv, Statements
  <2>3. \A i \in 1..at' : statement.selects[i].select => i \in 1..at
    <3> TAKE i \in 1..at'
    <3>1. i = at + 1 \/ i \in 1..at
        BY <2>1, <2>2
    <3> QED BY <2>1, <3>1
  <2> QED BY <1>3, <2>1, <2>3
<1>5. CASE Fail
    BY <1>3, <1>5 DEF Fail
<1>6. CASE Finish
    BY <1>3, <1>6 DEF Finish
<1>7. CASE UNCHANGED vars
    BY <1>3, <1>7 DEF vars
<1> QED BY <1>2, <1>4, <1>5, <1>6, <1>7 DEF Where

\* Every SELECT that is done has its conditions, with their arguments, in every state.
LEMMA PlacedInvariant == CSpec => []PlacedInv
<1>1. CInit => PlacedInv
    BY PlacedInit DEF CInit
<1>2. PlacedInv /\ [CNext]_cvars => PlacedInv'
  <2>1. [CNext]_cvars => [Where]_vars
      BY DEF CNext, Build, Generate, Count, cvars
  <2> QED BY <2>1, PlacedStep
<1> QED BY <1>1, <1>2, PTL DEF CSpec

\* A SELECT without an OR outside parentheses returns exactly the rows of its own
\* WHERE for which every filter, the search and the cursor hold: for every table,
\* every order of values and every LIKE, statements of any number of SELECTs, and
\* filters, searches and cursors of any length.
THEOREM RequestsAreKept == CSpec => []SelectsAsAsked
<1>1. PlacedInv => SelectsAsAsked
  <2> SUFFICES ASSUME PlacedInv, pc = "built", \A f \in ToSet(params.filters) : Faithful(f),
                      Null \notin ToSet(params.cursor.values),
                      NEW i \in DOMAIN wheres, statement.selects[i].select, ~contains_or(written[i])
               PROVE  Selects(wheres[i], bind_values) =
                        {row \in Selects(written[i], bind_values) :
                            /\ \A f \in ToSet(params.filters) : Meant(f, row)
                            /\ MeantSearch(row) /\ MeantCursor(row)}
      BY DEF SelectsAsAsked
  <2> DEFINE own == written[i]
             U == Comparison \cup [op : {"Nested"}, text : Seq(Seq(Comparison))]
  <2>1. i \in 1..at /\ own \in Seq(Seq(U))
      BY DEF PlacedInv, OwnInv, ShapeInv, Statements, Text
  <2>2. Placed(i)
      BY <2>1 DEF PlacedInv
  <2>3. ~Errs
      BY <2>2 DEF Placed
  <2>4. PICK b \in Nat : wheres[i] = Combined(own, Parts(b)) /\ BoundFrom(b, Bound, bind_values)
      BY <2>2 DEF Placed
  <2> DEFINE parts == Parts(b)
             Kept_(row) == /\ \A f \in ToSet(params.filters) : Meant(f, row)
                           /\ MeantSearch(row) /\ MeantCursor(row)
  <2>5. ASSUME NEW row \in Row
        PROVE  /\ \A t \in ToSet(parts) : Plainly(t)
               /\ (\A t \in ToSet(parts) : TextTrue(t, row, bind_values)) <=> Kept_(row)
      BY <2>3, <2>4, RequestMeans DEF PlacedInv
  <2>6. /\ Len(parts) \in 0..3 /\ (parts # <<>> => Len(parts) > 0)
        /\ \A k \in 1..Len(parts) : Disjunction(parts[k])
      BY <2>3, RequestIs, PartsAreDisjunctions DEF PlacedInv, Errs
  <2>7. ToSet(parts) = {parts[k] : k \in 1..Len(parts)}
    <3>1. PICK V : parts \in Seq(V)
        BY PartsMean
    <3> HIDE DEF parts
    <3>2. DOMAIN parts = 1..Len(parts)
        BY <3>1
    <3> QED BY <3>2 DEF ToSet
  <2> HIDE DEF parts, own, U, Kept_
  <2>8. ASSUME NEW row \in Row
        PROVE  row \in Selects(wheres[i], bind_values) <=> row \in Selects(own, bind_values) /\ Kept_(row)
    <3>1. /\ \A k \in 1..Len(parts) : Disjunction(parts[k]) /\ Plainly(parts[k])
          /\ (\A k \in 1..Len(parts) : TextTrue(parts[k], row, bind_values)) <=> Kept_(row)
        BY <2>5, <2>6, <2>7
    <3>2. ~contains_or(own) /\ wheres[i] = Combined(own, parts)
        BY <2>4 DEF own, parts
    <3> QED BY <2>1, <2>6, <3>1, <3>2, CombinedMeans
  <2>9. Selects(wheres[i], bind_values) \subseteq Row /\ Selects(own, bind_values) \subseteq Row
      BY DEF Selects
  <2>10. Selects(wheres[i], bind_values) = {row \in Selects(own, bind_values) : Kept_(row)}
      BY <2>8, <2>9
  <2> QED BY <2>10 DEF Kept_, own
<1> QED BY <1>1, PlacedInvariant, PTL

-----------------------------------------------------------------------------
(* The numbers of the placeholders.                                        *)

\* The numbers of a text that are greater than u
Above(p, u) == {v \in ToSet(p) : v > u}

\* A number greater than u stands behind a greater one only when it is repeated.
InOrder(p, u) ==
    \A i, j \in DOMAIN p :
        i < j /\ u < p[j] /\ p[j] < p[i] => \E k \in 1..(i - 1) : p[k] = p[j]

\* A text has the numbers from the one behind a up to b, in order.
Numbers(p, u, a, b) == p \in Seq(Nat) /\ Above(p, u) = (a + 1)..b /\ InOrder(p, u)

\* It goes on from b to c, and may repeat some of those before.
GoesOn(q, u, a, b, c) ==
    /\ q \in Seq(Nat) /\ InOrder(q, u)
    /\ Above(q, u) \subseteq (a + 1)..c
    /\ (b + 1)..c \subseteq Above(q, u)

\* Beside a text that has all the numbers up to b stands one that has the others
\* up to c, and perhaps some of the first again.
LEMMA OrderBeside ==
    ASSUME NEW u \in Nat, NEW a \in Nat, NEW b \in Nat, NEW c \in Nat, a <= b, b <= c,
           NEW p, NEW q, Numbers(p, u, a, b), GoesOn(q, u, a, b, c)
    PROVE  Numbers(p \o q, u, a, c)
<1>0. /\ p \in Seq(Nat) /\ q \in Seq(Nat)
      /\ Above(p, u) = (a + 1)..b /\ InOrder(p, u)
      /\ Above(q, u) \subseteq (a + 1)..c /\ (b + 1)..c \subseteq Above(q, u) /\ InOrder(q, u)
    BY DEF Numbers, GoesOn
<1> DEFINE r == p \o q
           m == Len(p)
           n == Len(q)
<1>1. /\ r \in Seq(Nat) /\ Len(r) = m + n /\ m \in Nat /\ n \in Nat
      /\ \A k \in 1..m : r[k] = p[k]
      /\ \A k \in 1..n : r[m + k] = q[k]
      /\ ToSet(r) = ToSet(p) \cup ToSet(q)
    BY <1>0, SideBySide
<1>2. /\ DOMAIN r = 1..(m + n) /\ DOMAIN p = 1..m /\ DOMAIN q = 1..n
      /\ \A k \in 1..m : p[k] \in Nat
      /\ \A k \in 1..n : q[k] \in Nat
    BY <1>0, <1>1
<1>3. Above(r, u) = Above(p, u) \cup Above(q, u)
    BY <1>1 DEF Above
<1>4. (a + 1)..b \cup (b + 1)..c = (a + 1)..c /\ (a + 1)..b \subseteq (a + 1)..c
    OBVIOUS
<1>5. Above(r, u) = (a + 1)..c
    BY <1>0, <1>3, <1>4
<1>6. \A k \in 1..n : u < q[k] => q[k] \in (a + 1)..c
    BY <1>0, <1>2 DEF Above, ToSet
<1>7. \A v \in (a + 1)..b : \E k \in 1..m : p[k] = v
    BY <1>0, <1>2 DEF Above, ToSet
<1>8. \A k \in 1..m : u < p[k] => p[k] \in (a + 1)..b
    BY <1>0, <1>2 DEF Above, ToSet
<1> HIDE DEF r, m, n
<1>9. ASSUME NEW i \in 1..(m + n), NEW j \in 1..(m + n), i < j, u < r[j], r[j] < r[i]
      PROVE  \E k \in 1..(i - 1) : r[k] = r[j]
  <2>1. CASE j \in 1..m
    <3>1. i \in 1..m /\ r[i] = p[i] /\ r[j] = p[j]
        BY <1>1, <1>9, <2>1
    <3>2. PICK k \in 1..(i - 1) : p[k] = p[j]
        BY <1>2, <1>9, <2>1, <3>1, <1>0 DEF InOrder
    <3>3. k \in 1..m
        BY <1>1, <3>1
    <3> QED BY <1>1, <3>1, <3>2, <3>3
  <2>2. CASE i \in (m + 1)..(m + n)
    <3>1. i - m \in 1..n /\ j - m \in 1..n /\ i - m < j - m /\ m + (i - m) = i /\ m + (j - m) = j
        BY <1>1, <1>9, <2>2
    <3>2. r[i] = q[i - m] /\ r[j] = q[j - m]
        BY <1>1, <3>1
    <3>3. PICK k \in 1..((i - m) - 1) : q[k] = q[j - m]
        BY <1>2, <1>9, <3>1, <3>2, <1>0 DEF InOrder
    <3>4. m + k \in 1..(i - 1) /\ k \in 1..n
        BY <1>1, <3>1
    <3> QED BY <1>1, <3>2, <3>3, <3>4
  <2>3. CASE i \in 1..m /\ j \in (m + 1)..(m + n)
    <3>1. j - m \in 1..n /\ m + (j - m) = j
        BY <1>1, <2>3
    <3>2. r[i] = p[i] /\ r[j] = q[j - m]
        BY <1>1, <2>3, <3>1
    <3>3. p[i] \in Nat /\ q[j - m] \in Nat /\ q[j - m] < p[i] /\ u < q[j - m]
        BY <1>2, <1>9, <2>3, <3>1, <3>2
    <3>4. p[i] \in (a + 1)..b /\ q[j - m] \in (a + 1)..c
        BY <1>6, <1>8, <2>3, <3>1, <3>3
    <3>5. q[j - m] \in (a + 1)..b
        BY <3>3, <3>4
    <3>6. PICK k \in 1..m : p[k] = q[j - m]
        BY <1>7, <3>5
    <3>7. CASE k < i
      <4>1. k \in 1..(i - 1)
          BY <1>1, <2>3, <3>7
      <4> QED BY <1>1, <3>2, <3>6, <4>1
    <3>8. CASE k > i
      <4>1. PICK l \in 1..(i - 1) : p[l] = p[k]
          BY <1>2, <2>3, <3>3, <3>6, <3>8, <1>0 DEF InOrder
      <4>2. l \in 1..m
          BY <1>1, <2>3
      <4> QED BY <1>1, <3>2, <3>6, <4>1, <4>2
    <3>9. k # i
        BY <3>3, <3>6
    <3> QED BY <1>1, <2>3, <3>7, <3>8, <3>9
  <2> QED BY <1>1, <1>9, <2>1, <2>2, <2>3
<1>10. InOrder(r, u)
    BY <1>2, <1>9 DEF InOrder
<1> QED BY <1>1, <1>5, <1>10 DEF r, Numbers

\* Sequences one after the other, of which each has the next numbers
LEMMA OrderAfter ==
    ASSUME NEW u \in Nat, NEW s \in Seq(Seq(Nat)), NEW e, e[0] \in Nat,
           \A i \in 1..Len(s) :
              /\ e[i] \in Nat /\ e[i - 1] <= e[i]
              /\ GoesOn(s[i], u, e[0], e[i - 1], e[i])
    PROVE  Numbers(FlattenSeq(s), u, e[0], e[Len(s)])
<1> DEFINE n == Len(s)
           F(j) == FlattenSeq(First(s, j))
           G == {i \in 0..n : e[i] \in Nat /\ e[0] <= e[i] /\ Numbers(F(i), u, e[0], e[i])}
<1>1. /\ F(0) = <<>>
      /\ \A i \in 1..n : F(i) = F(i - 1) \o s[i]
      /\ F(n) = FlattenSeq(s)
    BY FlattenFirst
<1>2. n \in Nat
    OBVIOUS
<1> HIDE DEF F, n
<1>3. 0 \in G
  <2>1. Above(<<>>, u) = {} /\ InOrder(<<>>, u) /\ <<>> \in Seq(Nat)
      BY DEF Above, InOrder, ToSet
  <2>2. (e[0] + 1)..e[0] = {} /\ e[0] <= e[0]
      OBVIOUS
  <2>3. Numbers(F(0), u, e[0], e[0])
      BY <1>1, <2>1, <2>2 DEF Numbers
  <2>4. 0 \in 0..n
      BY <1>2
  <2> QED BY <2>2, <2>3, <2>4
<1>4. ASSUME NEW i \in 0..(n - 1), i \in G PROVE i + 1 \in G
  <2>1. i + 1 \in 1..n /\ i + 1 \in 0..n /\ (i + 1) - 1 = i
      BY <1>2
  <2>2. e[i + 1] \in Nat /\ e[i] <= e[i + 1] /\ GoesOn(s[i + 1], u, e[0], e[i], e[i + 1])
      BY <2>1 DEF n
  <2>3. F(i + 1) = F(i) \o s[i + 1]
      BY <1>1, <2>1
  <2>4. e[i] \in Nat /\ e[0] <= e[i] /\ Numbers(F(i), u, e[0], e[i])
      BY <1>4
  <2>5. Numbers(F(i) \o s[i + 1], u, e[0], e[i + 1])
      BY <2>2, <2>4, OrderBeside
  <2>6. e[0] <= e[i + 1]
      BY <2>2, <2>4
  <2> QED BY <2>1, <2>2, <2>3, <2>5, <2>6
<1> HIDE DEF G
<1>5. n \in G
  <2>1. 0..n \subseteq G
      BY <1>2, <1>3, <1>4, Upwards
  <2> QED BY <1>2, <2>1
<1> QED BY <1>1, <1>5 DEF G, n

\* A list of one sequence
LEMMA FlattenOne ==
    ASSUME NEW V, NEW q \in Seq(V)
    PROVE  FlattenSeq(<<q>>) = q
<1> DEFINE C == Seq(V)
           s == <<q>>
<1>1. s \in Seq(C) /\ Len(s) = 1 /\ s[1] = q
  <2> HIDE DEF C
  <2>1. q \in C
      BY DEF C
  <2> QED BY <2>1
<1> HIDE DEF s
<1>2. /\ FlattenSeq(First(s, 0)) = <<>>
      /\ FlattenSeq(First(s, 1)) = FlattenSeq(First(s, 0)) \o s[1]
      /\ First(s, 1) = s
  <2>1. s \in Seq(Seq(V)) /\ 1 \in 1..Len(s)
      BY <1>1
  <2>2. First(s, Len(s)) = s
      BY <2>1, FlattenFirst
  <2>3. FlattenSeq(First(s, 1)) = FlattenSeq(First(s, 1 - 1)) \o s[1]
      BY <2>1, FlattenFirst
  <2>4. 1 - 1 = 0
      OBVIOUS
  <2> QED BY <1>1, <2>1, <2>2, <2>3, <2>4, FlattenFirst
<1>3. <<>> \o q = q
    OBVIOUS
<1> QED BY <1>1, <1>2, <1>3 DEF s

\* What FlattenSeq makes of two lists of sequences, one list after the other
LEMMA FlattenJoins ==
    ASSUME NEW V, NEW s \in Seq(Seq(V)), NEW t \in Seq(Seq(V))
    PROVE  /\ FlattenSeq(s) \in Seq(V) /\ FlattenSeq(t) \in Seq(V)
           /\ FlattenSeq(s \o t) = FlattenSeq(s) \o FlattenSeq(t)
<1> DEFINE C == Seq(V)
           r == s \o t
           m == Len(s)
           n == Len(t)
           f == FlattenSeq(s)
           R(i) == FlattenSeq(First(r, i))
           T(i) == FlattenSeq(First(t, i))
           G == {i \in 0..n : R(m + i) = f \o T(i)}
<1>1. /\ s \in Seq(C) /\ t \in Seq(C) /\ r \in Seq(C) /\ Len(r) = m + n /\ m \in Nat /\ n \in Nat
      /\ \A k \in 1..m : r[k] = s[k]
      /\ \A k \in 1..n : r[m + k] = t[k] /\ t[k] \in C
  <2>1. s \in Seq(C) /\ t \in Seq(C)
      OBVIOUS
  <2> HIDE DEF C
  <2>2. \A k \in 1..n : t[k] \in C
      BY <2>1
  <2> QED BY <2>1, <2>2, SideBySide
<1>2. /\ T(0) = <<>> /\ T(n) = FlattenSeq(t)
      /\ \A i \in 1..n : T(i) = T(i - 1) \o t[i]
      /\ \A i \in 0..n : T(i) \in Seq(V)
    BY FlattenFirst
<1>3. /\ R(m + n) = FlattenSeq(r)
      /\ \A i \in 1..(m + n) : R(i) = R(i - 1) \o r[i]
  <2>1. r \in Seq(Seq(V))
      BY <1>1
  <2>2. Len(r) = m + n
      BY <1>1
  <2> HIDE DEF r, m, n
  <2> QED BY <2>1, <2>2, FlattenFirst
<1>4. f \in Seq(V) /\ First(s, m) = s
  <2>1. m \in 0..Len(s)
      BY <1>1
  <2>2. First(s, m) = s
      BY FlattenFirst
  <2> QED BY <2>1, <2>2, FlattenFirst
<1>5. FlattenSeq(t) \in Seq(V)
  <2>1. n \in 0..n
      BY <1>1
  <2> QED BY <1>2, <2>1
<1>6. First(r, m) = s
  <2>1. First(r, m) = First(s, m)
    <3>1. \A k \in 1..m : r[k] = s[k]
        BY <1>1
    <3> HIDE DEF r, m
    <3> QED BY <3>1 DEF First
  <2> QED BY <1>4, <2>1
<1> HIDE DEF r, m, n, f, R, T
<1>7. 0 \in G
  <2>1. m + 0 = m /\ 0 \in 0..n
      BY <1>1
  <2>2. f \o <<>> = f
      BY <1>4
  <2>3. R(m + 0) = f
      BY <1>6, <2>1 DEF R, f
  <2> QED BY <1>2, <2>1, <2>2, <2>3
<1>8. ASSUME NEW i \in 0..(n - 1), i \in G PROVE i + 1 \in G
  <2>1. /\ i + 1 \in 1..n /\ i + 1 \in 0..n /\ i \in 0..n /\ (i + 1) - 1 = i
        /\ m + (i + 1) \in 1..(m + n) /\ (m + (i + 1)) - 1 = m + i
      BY <1>1
  <2>2. R(m + (i + 1)) = R(m + i) \o r[m + (i + 1)]
      BY <1>3, <2>1
  <2>3. r[m + (i + 1)] = t[i + 1] /\ t[i + 1] \in Seq(V)
      BY <1>1, <2>1
  <2>4. R(m + i) = f \o T(i)
      BY <1>8
  <2>5. T(i + 1) = T(i) \o t[i + 1] /\ T(i) \in Seq(V)
      BY <1>2, <2>1
  <2>6. (f \o T(i)) \o t[i + 1] = f \o (T(i) \o t[i + 1])
    <3>1. \A x, y, z \in Seq(V) : (x \o y) \o z = x \o (y \o z)
        BY ConcatAssociative
    <3>2. f \in Seq(V) /\ T(i) \in Seq(V) /\ t[i + 1] \in Seq(V)
        BY <1>4, <2>3, <2>5
    <3> QED BY <3>1, <3>2, Zenon
  <2>7. R(m + (i + 1)) = f \o T(i + 1)
      BY <2>2, <2>3, <2>4, <2>5, <2>6
  <2> QED BY <2>1, <2>7
<1> HIDE DEF G
<1>9. n \in G
  <2>1. 0..n \subseteq G
      BY <1>1, <1>7, <1>8, Upwards
  <2> QED BY <1>1, <2>1
<1> QED BY <1>2, <1>3, <1>4, <1>5, <1>9 DEF G, f, r

\* What has the elements of two sequences is one beside the other.
Beside(p, q, r, V) ==
    /\ p \in Seq(V) /\ q \in Seq(V) /\ r \in Seq(V) /\ Len(r) = Len(p) + Len(q)
    /\ \A k \in 1..Len(p) : r[k] = p[k]
    /\ \A k \in 1..Len(q) : r[Len(p) + k] = q[k]

LEMMA SideBySideIs ==
    ASSUME NEW V, NEW p, NEW q, NEW r, Beside(p, q, r, V)
    PROVE  r = p \o q
<1> DEFINE t == p \o q
           m == Len(p)
           n == Len(q)
<1>0. /\ p \in Seq(V) /\ q \in Seq(V) /\ r \in Seq(V) /\ Len(r) = m + n
      /\ \A k \in 1..m : r[k] = p[k]
      /\ \A k \in 1..n : r[m + k] = q[k]
    BY DEF Beside
<1>1. t \in Seq(V) /\ Len(t) = m + n /\ m \in Nat /\ n \in Nat
    BY <1>0, SideBySide
<1>2. \A k \in 1..m : t[k] = p[k]
    BY <1>0, SideBySide
<1>3. \A k \in 1..n : t[m + k] = q[k]
    BY <1>0, SideBySide
<1> HIDE DEF t
<1>4. ASSUME NEW k \in 1..Len(r) PROVE r[k] = t[k]
  <2> HIDE DEF m, n
  <2>1. CASE k \in 1..m
      BY <1>0, <1>2, <2>1
  <2>2. CASE k \notin 1..m
    <3>1. k - m \in 1..n /\ k = m + (k - m)
        BY <1>0, <1>1, <2>2
    <3>2. t[m + (k - m)] = q[k - m] /\ r[m + (k - m)] = q[k - m]
        BY <1>0, <1>3, <3>1
    <3> QED BY <3>1, <3>2
  <2> QED BY <2>1, <2>2
<1>5. r = t
    BY <1>0, <1>1, <1>4
<1> QED BY <1>5 DEF t

\* What f makes of the elements of a sequence
Maps(f, D, C) == f \in [D -> C]

EachOf(f, x) == [k \in DOMAIN x |-> f[x[k]]]

\* The images of two sequences, one after the other
LEMMA ImagesJoin ==
    ASSUME NEW D, NEW C, NEW f, Maps(f, D, C), NEW c \in Seq(D), NEW e \in Seq(D)
    PROVE  /\ EachOf(f, c) \in Seq(C) /\ EachOf(f, e) \in Seq(C)
           /\ EachOf(f, c \o e) = EachOf(f, c) \o EachOf(f, e)
<1> DEFINE I(y) == EachOf(f, y)
           m == Len(c)
           n == Len(e)
           x == c \o e
<1>2. /\ x \in Seq(D) /\ Len(x) = m + n /\ m \in Nat /\ n \in Nat
      /\ \A k \in 1..m : x[k] = c[k]
      /\ \A k \in 1..n : x[m + k] = e[k]
    BY SideBySide
<1> HIDE DEF x, m, n
<1>3. ASSUME NEW y \in Seq(D) PROVE I(y) \in Seq(C) /\ Len(I(y)) = Len(y) /\ \A k \in 1..Len(y) : I(y)[k] = f[y[k]]
  <2>1. \A k \in 1..Len(y) : y[k] \in D
      OBVIOUS
  <2>2. \A k \in 1..Len(y) : f[y[k]] \in C
      BY <2>1 DEF Maps
  <2>3. I(y) = [k \in 1..Len(y) |-> f[y[k]]] /\ Len(y) \in Nat
      BY DEF EachOf
  <2> HIDE DEF I
  <2>4. I(y) \in Seq(C) /\ Len(I(y)) = Len(y)
      BY <2>2, <2>3
  <2> QED BY <2>3, <2>4
<1>4. I(x) = I(c) \o I(e)
  <2> DEFINE ic == I(c)
             ie == I(e)
             ix == I(x)
  <2>1. /\ ic \in Seq(C) /\ ie \in Seq(C) /\ ix \in Seq(C) /\ Len(ic) = m /\ Len(ie) = n /\ Len(ix) = m + n
        /\ \A k \in 1..m : ic[k] = f[c[k]]
        /\ \A k \in 1..n : ie[k] = f[e[k]]
        /\ \A k \in 1..(m + n) : ix[k] = f[x[k]]
    <3>1. Len(ic) = m /\ Len(ie) = n /\ Len(ix) = m + n
        BY <1>2, <1>3 DEF m, n
    <3> QED BY <1>2, <1>3, <3>1 DEF m, n
  <2> HIDE DEF ic, ie, ix, I
  <2>2. \A k \in 1..m : ix[k] = ic[k]
    <3> TAKE k \in 1..m
    <3>1. k \in 1..(m + n) /\ x[k] = c[k]
        BY <1>2
    <3> QED BY <2>1, <3>1
  <2>3. \A k \in 1..n : ix[m + k] = ie[k]
    <3> TAKE k \in 1..n
    <3>1. m + k \in 1..(m + n) /\ x[m + k] = e[k]
        BY <1>2
    <3> QED BY <2>1, <3>1
  <2>4. ix = ic \o ie
    <3>1. Beside(ic, ie, ix, C)
        BY <2>1, <2>2, <2>3 DEF Beside
    <3> QED BY <3>1, SideBySideIs
  <2> QED BY <2>4 DEF ic, ie, ix
<1> QED BY <1>3, <1>4 DEF x

\* What FlattenSeq makes of the images, which are sequences
LEMMA FlattenImages ==
    ASSUME NEW D, NEW W, NEW f, Maps(f, D, Seq(W)), NEW c \in Seq(D), NEW e \in Seq(D)
    PROVE  /\ FlattenSeq(EachOf(f, c)) \in Seq(W) /\ FlattenSeq(EachOf(f, e)) \in Seq(W)
           /\ FlattenSeq(EachOf(f, c \o e)) = FlattenSeq(EachOf(f, c)) \o FlattenSeq(EachOf(f, e))
<1> DEFINE I(y) == EachOf(f, y)
           x == c \o e
<1>1. I(c) \in Seq(Seq(W)) /\ I(e) \in Seq(Seq(W)) /\ I(x) = I(c) \o I(e)
  <2> DEFINE C == Seq(W)
  <2>1. Maps(f, D, C)
      OBVIOUS
  <2> HIDE DEF C
  <2>2. I(c) \in Seq(C) /\ I(e) \in Seq(C) /\ I(x) = I(c) \o I(e)
      BY <2>1, ImagesJoin
  <2> QED BY <2>2 DEF C
<1> HIDE DEF I, x
<1>2. FlattenSeq(I(c)) \in Seq(W) /\ FlattenSeq(I(e)) \in Seq(W)
    BY <1>1, FlattenJoins
<1>3. FlattenSeq(I(x)) = FlattenSeq(I(c)) \o FlattenSeq(I(e))
    BY <1>1, FlattenJoins
<1> QED BY <1>2, <1>3 DEF I, x

\* Each atom has its placeholders, if any.
HavePlaces(V) == \A atom \in V : PlaceholdersOf(atom) \in Seq(Nat)

\* The placeholders of two conjunctions side by side
LEMMA PlacesInConjunction ==
    ASSUME NEW V, HavePlaces(V), NEW c \in Seq(V), NEW e \in Seq(V)
    PROVE  /\ PlaceholdersIn(c) \in Seq(Nat) /\ PlaceholdersIn(e) \in Seq(Nat)
           /\ PlaceholdersIn(c \o e) = PlaceholdersIn(c) \o PlaceholdersIn(e)
<1> DEFINE f == [atom \in V |-> PlaceholdersOf(atom)]
<1>1. Maps(f, V, Seq(Nat))
    BY DEF HavePlaces, Maps
<1>2. ASSUME NEW x \in Seq(V) PROVE PlaceholdersIn(x) = FlattenSeq(EachOf(f, x))
  <2>1. \A k \in DOMAIN x : x[k] \in V
      OBVIOUS
  <2>2. \A k \in DOMAIN x : f[x[k]] = PlaceholdersOf(x[k])
      BY <2>1
  <2> HIDE DEF f
  <2>3. EachOf(f, x) = [k \in DOMAIN x |-> PlaceholdersOf(x[k])]
      BY <2>2 DEF EachOf
  <2> QED BY <2>3 DEF PlaceholdersIn
<1> HIDE DEF f
<1>3. c \o e \in Seq(V)
    OBVIOUS
<1>4. /\ FlattenSeq(EachOf(f, c)) \in Seq(Nat) /\ FlattenSeq(EachOf(f, e)) \in Seq(Nat)
      /\ FlattenSeq(EachOf(f, c \o e)) = FlattenSeq(EachOf(f, c)) \o FlattenSeq(EachOf(f, e))
    BY <1>1, FlattenImages
<1> QED BY <1>2, <1>3, <1>4

\* The placeholders of the disjuncts of two conditions
LEMMA PlacesInText ==
    ASSUME NEW V, HavePlaces(V), NEW s \in Seq(Seq(V)), NEW t \in Seq(Seq(V))
    PROVE  /\ Placeholders(s) \in Seq(Nat) /\ Placeholders(t) \in Seq(Nat)
           /\ Placeholders(s \o t) = Placeholders(s) \o Placeholders(t)
<1> DEFINE C == Seq(V)
           f == [c \in C |-> PlaceholdersIn(c)]
<1>1. Maps(f, C, Seq(Nat))
  <2>1. \A c \in C : PlaceholdersIn(c) \in Seq(Nat)
      BY PlacesInConjunction
  <2> HIDE DEF C
  <2> QED BY <2>1 DEF Maps
<1>2. s \in Seq(C) /\ t \in Seq(C)
    OBVIOUS
<1> HIDE DEF C
<1>3. ASSUME NEW x \in Seq(C) PROVE Placeholders(x) = FlattenSeq(EachOf(f, x))
  <2>1. \A k \in DOMAIN x : x[k] \in C
      OBVIOUS
  <2>2. \A k \in DOMAIN x : f[x[k]] = PlaceholdersIn(x[k])
      BY <2>1
  <2> HIDE DEF f
  <2>3. EachOf(f, x) = [k \in DOMAIN x |-> PlaceholdersIn(x[k])]
      BY <2>2 DEF EachOf
  <2> QED BY <2>3 DEF Placeholders
<1> HIDE DEF f
<1>4. s \o t \in Seq(C)
    BY <1>2
<1>5. /\ FlattenSeq(EachOf(f, s)) \in Seq(Nat) /\ FlattenSeq(EachOf(f, t)) \in Seq(Nat)
      /\ FlattenSeq(EachOf(f, s \o t)) = FlattenSeq(EachOf(f, s)) \o FlattenSeq(EachOf(f, t))
    BY <1>1, <1>2, FlattenImages
<1> QED BY <1>2, <1>3, <1>4, <1>5

\* A condition of one conjunction, a conjunction of one atom
LEMMA PlacesOfOne ==
    ASSUME NEW V, HavePlaces(V)
    PROVE  /\ \A c \in Seq(V) : Placeholders(<<c>>) = PlaceholdersIn(c)
           /\ \A atom \in V : PlaceholdersIn(<<atom>>) = PlaceholdersOf(atom)
<1>1. ASSUME NEW c \in Seq(V) PROVE Placeholders(<<c>>) = PlaceholdersIn(c)
  <2> DEFINE p == PlaceholdersIn(c)
  <2>1. p \in Seq(Nat)
      BY PlacesInConjunction
  <2>2. [d \in DOMAIN <<c>> |-> PlaceholdersIn(<<c>>[d])] = <<p>>
      OBVIOUS
  <2> HIDE DEF p
  <2> QED BY <2>1, <2>2, FlattenOne DEF Placeholders, p
<1>2. ASSUME NEW atom \in V PROVE PlaceholdersIn(<<atom>>) = PlaceholdersOf(atom)
  <2> DEFINE p == PlaceholdersOf(atom)
  <2>1. p \in Seq(Nat)
      BY DEF HavePlaces
  <2>2. [d \in DOMAIN <<atom>> |-> PlaceholdersOf(<<atom>>[d])] = <<p>>
      OBVIOUS
  <2> HIDE DEF p
  <2> QED BY <2>1, <2>2, FlattenOne DEF PlaceholdersIn, p
<1> QED BY <1>1, <1>2

\* A condition, of atoms with their placeholders
Numbered(text) == text # <<>> /\ \E V : HavePlaces(V) /\ text \in Seq(Seq(V))

\* Beside one condition stands the other, and so do their placeholders.
LEMMA PlacesBeside ==
    ASSUME NEW l, NEW r, Numbered(l), Numbered(r)
    PROVE  /\ Numbered(and(l, r))
           /\ Placeholders(and(l, r)) = Placeholders(l) \o Placeholders(r)
           /\ Placeholders(l) \in Seq(Nat) /\ Placeholders(r) \in Seq(Nat)
<1>1. PICK U : HavePlaces(U) /\ l \in Seq(Seq(U))
    BY DEF Numbered
<1>2. PICK W : HavePlaces(W) /\ r \in Seq(Seq(W))
    BY DEF Numbered
<1> DEFINE V == U \cup W
           C == Seq(V)
           front == Front(l)
           tail == Tail(r)
           x == Last(l)
           y == Head(r)
           P(t) == Placeholders(t)
           I(c) == PlaceholdersIn(c)
<1>3. HavePlaces(V)
    BY <1>1, <1>2 DEF HavePlaces
<1>4. l \in Seq(C) /\ r \in Seq(C) /\ l # <<>> /\ r # <<>>
  <2>1. l \in Seq(C)
      BY <1>1
  <2>2. r \in Seq(C)
      BY <1>2
  <2> QED BY <2>1, <2>2 DEF Numbered
<1> HIDE DEF V, C
<1>5. /\ front \in Seq(C) /\ x \in C /\ l = front \o <<x>>
      /\ tail \in Seq(C) /\ y \in C /\ r = <<y>> \o tail
  <2> DEFINE n == Len(l)
  <2>1. /\ n \in Nat /\ n - 1 \in Nat /\ n - 1 \in 0..n /\ x = l[n] /\ x \in C
        /\ <<x>> \in Seq(C) /\ Len(<<x>>) = 1 /\ <<x>>[1] = x
      BY <1>4 DEF Last
  <2>2. tail \in Seq(C) /\ y \in C /\ r = <<y>> \o tail
      BY <1>4
  <2>3. front \in Seq(C) /\ Len(front) = n - 1 /\ \A k \in 1..(n - 1) : front[k] = l[k]
    <3>1. Len(l) = n
        OBVIOUS
    <3> HIDE DEF n
    <3> QED BY <1>4, <2>1, <3>1, Z3 DEF Front
  <2>4. Beside(front, <<x>>, l, C)
    <3> DEFINE one == <<x>>
    <3>1. one \in Seq(C) /\ Len(one) = 1 /\ one[1] = x
        BY <2>1
    <3> HIDE DEF front, one, x
    <3>2. Len(l) = Len(front) + Len(one)
        BY <2>1, <2>3, <3>1
    <3>3. \A k \in 1..Len(front) : l[k] = front[k]
        BY <2>3
    <3>4. \A k \in 1..Len(one) : l[Len(front) + k] = one[k]
      <4>1. \A k \in 1..1 : k = 1
          OBVIOUS
      <4>2. Len(front) + 1 = n
          BY <2>1, <2>3
      <4> QED BY <2>1, <3>1, <4>1, <4>2
    <3> QED BY <1>4, <2>3, <3>1, <3>2, <3>3, <3>4 DEF Beside, one
  <2>5. l = front \o <<x>>
      BY <2>4, SideBySideIs
  <2> QED BY <2>1, <2>2, <2>3, <2>5
<1>6. and(l, r) = front \o <<x \o y>> \o tail
    BY DEF and
<1> HIDE DEF front, tail, x, y
<1>7. x \o y \in C /\ I(x) \in Seq(Nat) /\ I(y) \in Seq(Nat) /\ I(x \o y) = I(x) \o I(y)
    BY <1>3, <1>5, PlacesInConjunction DEF C
<1>8. \A s, t \in Seq(C) : P(s) \in Seq(Nat) /\ P(s \o t) = P(s) \o P(t)
    BY <1>3, PlacesInText DEF C
<1>9. \A c \in C : <<c>> \in Seq(C) /\ P(<<c>>) = I(c)
  <2>1. \A c \in C : P(<<c>>) = I(c)
      BY <1>3, PlacesOfOne DEF C
  <2>2. \A c \in C : <<c>> \in Seq(C)
      OBVIOUS
  <2> QED BY <2>1, <2>2
<1> HIDE DEF P, I
<1>10. P(l) = P(front) \o I(x) /\ P(r) = I(y) \o P(tail) /\ P(front) \in Seq(Nat) /\ P(tail) \in Seq(Nat)
    BY <1>5, <1>8, <1>9
<1>11. front \o <<x \o y>> \in Seq(C) /\ (front \o <<x \o y>>) \o tail \in Seq(C)
    BY <1>5, <1>7
<1>12. P(and(l, r)) = (P(front) \o (I(x) \o I(y))) \o P(tail)
  <2> DEFINE h == front \o <<x \o y>>
  <2>1. P(h \o tail) = P(h) \o P(tail)
      BY <1>5, <1>8, <1>11
  <2>2. P(h) = P(front) \o P(<<x \o y>>)
      BY <1>5, <1>7, <1>8, <1>9
  <2>3. P(<<x \o y>>) = I(x) \o I(y)
      BY <1>7, <1>9
  <2>4. and(l, r) = h \o tail
      BY <1>6
  <2> HIDE DEF h
  <2> QED BY <2>1, <2>2, <2>3, <2>4
<1>13. /\ \A p, q, t \in Seq(Nat) : (p \o q) \o t = p \o (q \o t)
       /\ \A p, q \in Seq(Nat) : p \o q \in Seq(Nat)
  <2>1. \A p, q, t \in Seq(Nat) : (p \o q) \o t = p \o (q \o t)
      BY ConcatAssociative
  <2>2. \A p, q \in Seq(Nat) : p \o q \in Seq(Nat)
      OBVIOUS
  <2> QED BY <2>1, <2>2
<1>14. P(and(l, r)) = P(l) \o P(r)
  <2> DEFINE pf == P(front)
             px == I(x)
             py == I(y)
             pt == P(tail)
  <2>1. pf \in Seq(Nat) /\ px \in Seq(Nat) /\ py \in Seq(Nat) /\ pt \in Seq(Nat)
      BY <1>7, <1>10
  <2>2. P(l) = pf \o px /\ P(r) = py \o pt /\ P(and(l, r)) = (pf \o (px \o py)) \o pt
      BY <1>10, <1>12
  <2> HIDE DEF pf, px, py, pt
  <2>3. (pf \o (px \o py)) \o pt = (pf \o px) \o (py \o pt)
    <3>1. (pf \o px) \o py = pf \o (px \o py)
      <4>1. \A p, q, t \in Seq(Nat) : (p \o q) \o t = p \o (q \o t)
          BY <1>13
      <4>2. pf \in Seq(Nat) /\ px \in Seq(Nat) /\ py \in Seq(Nat)
          BY <2>1
      <4> QED BY <4>1, <4>2, Zenon
    <3>2. pf \o px \in Seq(Nat)
        BY <1>13, <2>1, Zenon
    <3>3. ((pf \o px) \o py) \o pt = (pf \o px) \o (py \o pt)
        BY <1>13, <2>1, <3>2, Zenon
    <3> QED BY <3>1, <3>3, Zenon
  <2> QED BY <2>2, <2>3, Zenon
<1>15. and(l, r) \in Seq(C) /\ and(l, r) # <<>>
  <2>1. front \o <<x \o y>> # <<>>
      BY <1>5, <1>7
  <2> DEFINE h == front \o <<x \o y>>
  <2> HIDE DEF h
  <2>2. h \in Seq(C) /\ h # <<>> /\ tail \in Seq(C)
      BY <1>5, <1>11, <2>1 DEF h
  <2>3. h \o tail # <<>>
      BY <2>2
  <2> QED BY <1>6, <1>11, <2>3 DEF h
<1>16. Numbered(and(l, r))
    BY <1>3, <1>15 DEF Numbered, C
<1>17. P(l) \in Seq(Nat) /\ P(r) \in Seq(Nat)
    BY <1>4, <1>8
<1> QED BY <1>14, <1>16, <1>17 DEF P

\* Parentheses hide no placeholder.
LEMMA PlacesNested ==
    ASSUME NEW text, Numbered(text), Plainly(text)
    PROVE  Numbered(Nested(text)) /\ Placeholders(Nested(text)) = Placeholders(text)
<1>1. PICK V : HavePlaces(V) /\ text \in Seq(Seq(V))
    BY DEF Numbered
<1> DEFINE atom == [op |-> "Nested", text |-> text]
           p == Placeholders(text)
<1>2. \A d \in DOMAIN text : \A k \in DOMAIN text[d] : PlaceholdersOf(text[d][k]) = text[d][k].ph
    BY DEF Plainly, PlaceholdersOf
<1>3. PlaceholdersOf(atom) = p
  <2>1. PlaceholdersOf(atom) = FlattenSeq([d \in DOMAIN text |->
                                 FlattenSeq([k \in DOMAIN text[d] |-> text[d][k].ph])])
      BY DEF PlaceholdersOf
  <2>2. \A d \in DOMAIN text : [k \in DOMAIN text[d] |-> text[d][k].ph]
                                  = [k \in DOMAIN text[d] |-> PlaceholdersOf(text[d][k])]
      BY <1>2
  <2>3. \A d \in DOMAIN text : FlattenSeq([k \in DOMAIN text[d] |-> text[d][k].ph]) = PlaceholdersIn(text[d])
      BY <2>2 DEF PlaceholdersIn
  <2>4. [d \in DOMAIN text |-> FlattenSeq([k \in DOMAIN text[d] |-> text[d][k].ph])]
          = [d \in DOMAIN text |-> PlaceholdersIn(text[d])]
      BY <2>3
  <2> QED BY <2>1, <2>4 DEF Placeholders
<1>4. p \in Seq(Nat)
    BY <1>1, PlacesInText
<1>5. Nested(text) = <<<<atom>>>>
    BY DEF Nested
<1> HIDE DEF atom, p
<1>6. HavePlaces({atom}) /\ <<atom>> \in Seq({atom}) /\ <<<<atom>>>> \in Seq(Seq({atom}))
    BY <1>3, <1>4 DEF HavePlaces
<1>7. Placeholders(<<<<atom>>>>) = p
  <2>1. Placeholders(<<<<atom>>>>) = PlaceholdersIn(<<atom>>)
      BY <1>6, PlacesOfOne
  <2>2. PlaceholdersIn(<<atom>>) = PlaceholdersOf(atom)
      BY <1>6, PlacesOfOne
  <2> QED BY <1>3, <2>1, <2>2
<1>8. Numbered(<<<<atom>>>>)
  <2>1. <<<<atom>>>> # <<>>
      OBVIOUS
  <2> QED BY <1>6, <2>1 DEF Numbered
<1> QED BY <1>5, <1>7, <1>8 DEF p

\* Nor do they where they are printed only for an OR.
LEMMA PlacesGrouped ==
    ASSUME NEW text, Numbered(text), contains_or(text) => Plainly(text)
    PROVE  Numbered(Grouped(text)) /\ Placeholders(Grouped(text)) = Placeholders(text)
<1>1. CASE contains_or(text)
    BY <1>1, PlacesNested DEF Grouped
<1>2. CASE ~contains_or(text)
    BY <1>2 DEF Grouped
<1> QED BY <1>1, <1>2

\* Two and three elements, one beside the other
LEMMA TuplesJoin ==
    ASSUME NEW p, NEW q, NEW r
    PROVE  <<p, q>> = <<p>> \o <<q>> /\ <<p, q, r>> = (<<p>> \o <<q>>) \o <<r>>
<1>1. <<p, q>> = <<p>> \o <<q>>
  <2> DEFINE x == <<p>>
             y == <<q>>
             z == <<p, q>>
             V == {p, q}
  <2>1. /\ x \in Seq(V) /\ y \in Seq(V) /\ z \in Seq(V)
        /\ Len(x) = 1 /\ Len(y) = 1 /\ Len(z) = 2
        /\ z[1] = x[1] /\ z[2] = y[1]
      OBVIOUS
  <2> HIDE DEF x, y, z, V
  <2>2. Beside(x, y, z, V)
      BY <2>1 DEF Beside
  <2> QED BY <2>2, SideBySideIs DEF x, y, z
<1>2. <<p, q, r>> = <<p, q>> \o <<r>>
    OBVIOUS
<1> QED BY <1>1, <1>2

\* Two and three sequences
LEMMA FlattenFew ==
    ASSUME NEW a \in Seq(Nat), NEW b \in Seq(Nat), NEW c \in Seq(Nat)
    PROVE  FlattenSeq(<<a, b>>) = a \o b /\ FlattenSeq(<<a, b, c>>) = (a \o b) \o c
<1> DEFINE C == Seq(Nat)
           x == <<a>>
           y == <<b>>
           z == <<c>>
<1>1. FlattenSeq(x) = a /\ FlattenSeq(y) = b /\ FlattenSeq(z) = c
    BY FlattenOne
<1>2. a \in C /\ b \in C /\ c \in C
    OBVIOUS
<1> HIDE DEF C
<1>3. x \in Seq(C) /\ y \in Seq(C) /\ z \in Seq(C)
    BY <1>2
<1>4. <<a, b>> = x \o y /\ <<a, b, c>> = (x \o y) \o z
    BY TuplesJoin
<1> HIDE DEF x, y, z
<1>5. x \o y \in Seq(C)
    BY <1>3
<1>6. FlattenSeq(x \o y) = a \o b
    BY <1>1, <1>3, FlattenJoins DEF C
<1>7. FlattenSeq((x \o y) \o z) = (a \o b) \o c
    BY <1>1, <1>3, <1>5, <1>6, FlattenJoins DEF C
<1> QED BY <1>4, <1>6, <1>7

\* What the request adds to a WHERE has the placeholders of its parts.
LEMMA PlacesReduced ==
    ASSUME NEW parts, parts # <<>>, Len(parts) \in 1..3, \E V : parts \in Seq(V),
           \A k \in 1..Len(parts) : Numbered(parts[k]) /\ Plainly(parts[k])
    PROVE  /\ Numbered(Reduced(parts))
           /\ contains_or(Reduced(parts)) => Plainly(Reduced(parts))
           /\ Placeholders(Reduced(parts)) =
                FlattenSeq([k \in 1..Len(parts) |-> Placeholders(parts[k])])
<1> DEFINE n == Len(parts)
           P(k) == Placeholders(parts[k])
           g(k) == Grouped(parts[k])
<1>1. \A k \in 1..n : /\ Numbered(g(k)) /\ Conjunction(g(k))
                      /\ Placeholders(g(k)) = P(k) /\ P(k) \in Seq(Nat)
  <2> TAKE k \in 1..n
  <2>1. Disjunction(parts[k])
      BY DEF Numbered, Disjunction
  <2>2. P(k) \in Seq(Nat)
      BY PlacesBeside
  <2> QED BY <2>1, <2>2, PlacesGrouped, GroupedIsOne
<1>2. \A t : Conjunction(t) => ~contains_or(t)
    BY DEF Conjunction, contains_or
<1>3. CASE n = 1
  <2> DEFINE p == P(1)
  <2>1. Reduced(parts) = parts[1] /\ 1 \in 1..n
      BY <1>3 DEF Reduced
  <2>2. p \in Seq(Nat)
      BY <1>1, <2>1
  <2>3. [k \in 1..n |-> P(k)] = <<p>>
      BY <1>3
  <2> HIDE DEF p
  <2>4. FlattenSeq([k \in 1..n |-> P(k)]) = p
      BY <2>2, <2>3, FlattenOne
  <2> QED BY <2>1, <2>4 DEF p
<1> DEFINE both == and(g(1), g(2))
<1>4. ASSUME n >= 2
      PROVE  /\ Numbered(both) /\ Conjunction(both) /\ Grouped(both) = both
             /\ Placeholders(both) = P(1) \o P(2)
  <2>1. 1 \in 1..n /\ 2 \in 1..n
      BY <1>4
  <2>2. Conjunction(both)
      BY <1>1, <2>1, ConjunctionsJoin
  <2>3. Grouped(both) = both
      BY <1>2, <2>2 DEF Grouped
  <2>4. /\ Numbered(g(1)) /\ Numbered(g(2))
        /\ Placeholders(g(1)) = P(1) /\ Placeholders(g(2)) = P(2)
      BY <1>1, <2>1
  <2> HIDE DEF g, P
  <2>5. Numbered(both) /\ Placeholders(both) = P(1) \o P(2)
      BY <2>4, PlacesBeside
  <2> QED BY <2>2, <2>3, <2>5
<1>5. CASE n = 2
  <2> DEFINE p == P(1)
             q == P(2)
  <2>1. Reduced(parts) = both
      BY <1>5 DEF Reduced, grouped_and
  <2>2. p \in Seq(Nat) /\ q \in Seq(Nat)
      BY <1>1, <1>5
  <2>3. [k \in 1..n |-> P(k)] = <<p, q>>
      BY <1>5
  <2>4. Placeholders(both) = p \o q
      BY <1>4, <1>5
  <2> HIDE DEF p, q, P, both
  <2>5. FlattenSeq(<<p, q>>) = p \o q
      BY <2>2, FlattenFew
  <2>6. FlattenSeq([k \in 1..n |-> P(k)]) = p \o q
      BY <2>3, <2>5
  <2>7. n >= 2
      BY <1>5
  <2> QED BY <1>2, <1>4, <2>1, <2>4, <2>6, <2>7 DEF P
<1>6. CASE n = 3
  <2> DEFINE p == P(1)
             q == P(2)
             r == P(3)
             all == and(both, g(3))
  <2>1. Reduced(parts) = all
      BY <1>4, <1>6 DEF Reduced, grouped_and
  <2>2. p \in Seq(Nat) /\ q \in Seq(Nat) /\ r \in Seq(Nat)
      BY <1>1, <1>6
  <2>3. [k \in 1..n |-> P(k)] = <<p, q, r>>
      BY <1>6
  <2>4. Numbered(g(3)) /\ Conjunction(g(3)) /\ Placeholders(g(3)) = r
      BY <1>1, <1>6
  <2>5. Numbered(both) /\ Conjunction(both) /\ Placeholders(both) = p \o q
      BY <1>4, <1>6
  <2> HIDE DEF both, g
  <2>6. Numbered(all) /\ Conjunction(all) /\ Placeholders(all) = (p \o q) \o r
    <3>1. Placeholders(all) = Placeholders(both) \o Placeholders(g(3))
        BY <2>4, <2>5, PlacesBeside
    <3> HIDE DEF p, q, r
    <3> QED BY <2>4, <2>5, <3>1, PlacesBeside, ConjunctionsJoin
  <2> HIDE DEF p, q, r, P, all
  <2>7. FlattenSeq(<<p, q, r>>) = (p \o q) \o r
      BY <2>2, FlattenFew
  <2>8. FlattenSeq([k \in 1..n |-> P(k)]) = (p \o q) \o r
      BY <2>3, <2>7
  <2> QED BY <1>2, <2>1, <2>6, <2>8 DEF P
<1> QED BY <1>3, <1>5, <1>6

\* A WHERE with the conditions of a request has its own placeholders, then theirs.
LEMMA PlacesCombined ==
    ASSUME NEW own, own # <<>> => Numbered(own),
           NEW parts, \E V : parts \in Seq(V), Len(parts) \in 0..3,
           \A k \in 1..Len(parts) : Numbered(parts[k]) /\ Plainly(parts[k])
    PROVE  /\ Placeholders(own) \in Seq(Nat)
           /\ Placeholders(Combined(own, parts)) =
                Placeholders(own) \o FlattenSeq([k \in 1..Len(parts) |-> Placeholders(parts[k])])
<1> DEFINE added == FlattenSeq([k \in 1..Len(parts) |-> Placeholders(parts[k])])
           o == Placeholders(own)
<1>1. own = <<>> => o = <<>>
    BY DEF Placeholders, FlattenSeq
<1>2. o \in Seq(Nat)
  <2>1. CASE own = <<>>
    <3> HIDE DEF o
    <3> QED BY <1>1, <2>1
  <2>2. CASE own # <<>>
      BY <2>2, PlacesBeside
  <2> QED BY <2>1, <2>2
<1>3. CASE parts = <<>>
  <2>1. added = <<>>
      BY <1>3 DEF FlattenSeq
  <2>2. Combined(own, parts) = own
      BY <1>3 DEF Combined
  <2> HIDE DEF o, added
  <2>3. o \o added = o
      BY <1>2, <2>1
  <2> QED BY <1>2, <2>2, <2>3 DEF o, added
<1>4. CASE parts # <<>>
  <2> DEFINE t == Reduced(parts)
             d == Dynamic(own, parts)
  <2>1. Len(parts) \in 1..3
      BY <1>4
  <2>2. Numbered(t) /\ (contains_or(t) => Plainly(t)) /\ Placeholders(t) = added
      BY <1>4, <2>1, PlacesReduced
  <2>3. d = t \/ d = Grouped(t)
      BY DEF Dynamic, Grouped
  <2>4. Numbered(d) /\ Placeholders(d) = added
      BY <2>2, <2>3, PlacesGrouped
  <2> HIDE DEF d, added, t
  <2>5. Placeholders(d) \in Seq(Nat)
      BY <2>4, PlacesBeside
  <2>6. CASE own = <<>>
    <3>1. Combined(own, parts) = d
        BY <1>4, <2>6 DEF Combined, d
    <3>2. <<>> \o added = added
        BY <2>4, <2>5
    <3> QED BY <1>1, <1>2, <2>4, <2>6, <3>1, <3>2 DEF added
  <2>7. CASE own # <<>>
    <3>1. Combined(own, parts) = and(own, d)
        BY <1>4, <2>7 DEF Combined, d
    <3> QED BY <1>2, <2>4, <2>7, <3>1, PlacesBeside DEF added
  <2> QED BY <2>6, <2>7
<1> QED BY <1>3, <1>4

\* What has the numbers behind b goes on from b, or from behind it.
LEMMA NumbersGoOn ==
    ASSUME NEW u, NEW a \in Nat, NEW b \in Nat, NEW d \in Nat, NEW c \in Nat, a <= b, b <= d,
           NEW q, Numbers(q, u, b, c)
    PROVE  GoesOn(q, u, a, d, c)
<1>1. (b + 1)..c \subseteq (a + 1)..c /\ (d + 1)..c \subseteq (b + 1)..c
    OBVIOUS
<1> QED BY <1>1 DEF Numbers, GoesOn

\* A run of numbers is in order.
LEMMA RunIs ==
    ASSUME NEW u \in Nat, NEW b \in Nat, NEW n \in Nat, u <= b
    PROVE  Numbers([k \in 1..n |-> b + k], u, b, b + n)
<1> DEFINE q == [k \in 1..n |-> b + k]
<1>1. q \in Seq(Nat) /\ DOMAIN q = 1..n /\ \A k \in 1..n : q[k] = b + k
    OBVIOUS
<1> HIDE DEF q
<1>2. ToSet(q) = {b + k : k \in 1..n}
    BY <1>1 DEF ToSet
<1>3. {b + k : k \in 1..n} = (b + 1)..(b + n)
  <2>1. \A v \in (b + 1)..(b + n) : v - b \in 1..n /\ v = b + (v - b)
      OBVIOUS
  <2>2. \A k \in 1..n : b + k \in (b + 1)..(b + n)
      OBVIOUS
  <2> QED BY <2>1, <2>2
<1>4. \A v \in (b + 1)..(b + n) : v > u
    OBVIOUS
<1>5. Above(q, u) = (b + 1)..(b + n)
    BY <1>2, <1>3, <1>4 DEF Above
<1>6. InOrder(q, u)
    BY <1>1 DEF InOrder
<1> QED BY <1>1, <1>5, <1>6 DEF Numbers, q

\* One number after the other
LEMMA SinglesAre ==
    ASSUME NEW u \in Nat, NEW b \in Nat, NEW n \in Nat, u <= b
    PROVE  Numbers(FlattenSeq([i \in 1..n |-> <<b + i>>]), u, b, b + n)
<1> DEFINE s == [i \in 1..n |-> <<b + i>>]
           e == [i \in 0..n |-> b + i]
<1>1. ASSUME NEW i \in 1..n PROVE Numbers(<<b + i>>, u, b + (i - 1), b + i)
  <2> DEFINE c == b + (i - 1)
  <2>1. c \in Nat /\ u <= c /\ c + 1 = b + i
      OBVIOUS
  <2>2. [k \in 1..1 |-> c + k] = <<c + 1>>
      OBVIOUS
  <2> HIDE DEF c
  <2>3. Numbers([k \in 1..1 |-> c + k], u, c, c + 1)
      BY <2>1, RunIs
  <2> QED BY <2>1, <2>2, <2>3 DEF c
<1>2. s \in Seq(Seq(Nat)) /\ Len(s) = n /\ \A i \in 1..n : s[i] = <<b + i>>
  <2> DEFINE C == Seq(Nat)
  <2>1. \A i \in 1..n : <<b + i>> \in C
      OBVIOUS
  <2> HIDE DEF C
  <2>2. s \in Seq(C) /\ Len(s) = n
      BY <2>1
  <2> QED BY <2>2 DEF C
<1>3. e[0] = b /\ \A i \in 0..n : e[i] = b + i
    OBVIOUS
<1> HIDE DEF s, e
<1>4. ASSUME NEW i \in 1..n
      PROVE  e[i] \in Nat /\ e[i - 1] <= e[i] /\ GoesOn(s[i], u, e[0], e[i - 1], e[i])
  <2>1. e[i] = b + i /\ e[i - 1] = b + (i - 1) /\ b + i \in Nat /\ b + (i - 1) \in Nat
      BY <1>3
  <2>2. b <= b + (i - 1) /\ b + (i - 1) <= b + i
      OBVIOUS
  <2>3. GoesOn(<<b + i>>, u, b, b + (i - 1), b + i)
      BY <1>1, <2>1, <2>2, NumbersGoOn
  <2> QED BY <1>2, <1>3, <2>1, <2>2, <2>3
<1>5. Numbers(FlattenSeq(s), u, e[0], e[n])
    BY <1>2, <1>3, <1>4, OrderAfter
<1> QED BY <1>3, <1>5 DEF s

\* A comparison has the placeholders that it is made with.
LEMMA AtomPlaces ==
    /\ \A op, field, not, ph : op # "Nested" => PlaceholdersOf(Atom(op, field, not, ph)) = ph
    /\ \A f, ph : IsFilter(f) => /\ PlaceholdersOf(FilterAtom(f, ph)) = ph
                                 /\ FilterAtom(f, ph).op # "Nested"
<1>1. ASSUME NEW op, NEW field, NEW not, NEW ph, op # "Nested"
      PROVE  /\ PlaceholdersOf(Atom(op, field, not, ph)) = ph
             /\ Atom(op, field, not, ph).op # "Nested"
    BY <1>1 DEF PlaceholdersOf, Atom
<1>2. ASSUME NEW f, NEW ph, IsFilter(f)
      PROVE  PlaceholdersOf(FilterAtom(f, ph)) = ph /\ FilterAtom(f, ph).op # "Nested"
  <2>1. f.op # "Nested"
      BY <1>2 DEF IsFilter, FilterOperator
  <2>2. \E op, not : op # "Nested" /\ FilterAtom(f, ph) = Atom(op, f.field, not, ph)
      BY <2>1 DEF FilterAtom
  <2> QED BY <1>1, <2>2
<1>3. \A op, field, not, ph : op # "Nested" => PlaceholdersOf(Atom(op, field, not, ph)) = ph
    BY <1>1
<1>4. \A f, ph : IsFilter(f) => PlaceholdersOf(FilterAtom(f, ph)) = ph /\ FilterAtom(f, ph).op # "Nested"
    BY <1>2
<1> QED BY <1>3, <1>4

\* Each filter takes what it binds.
LEMMA TakenGrows ==
    ASSUME IsSequence(params.filters), \A f \in ToSet(params.filters) : IsFilter(f)
    PROVE  /\ Taken(0) = 0
           /\ \A i \in 1..Len(params.filters) :
                 LET n == Len(FilterBinds(params.filters[i]))
                 IN  /\ n \in Nat /\ DOMAIN FilterBinds(params.filters[i]) = 1..n
                     /\ Taken(i - 1) \in Nat /\ Taken(i) = Taken(i - 1) + n
           /\ \E V : FiltersBound(Len(params.filters)) \in Seq(V)
<1> DEFINE F == params.filters
           l == Len(F)
           s == [i \in 1..l |-> FilterBinds(F[i])]
           W == UNION {ToSet(s[i]) : i \in 1..l}
           C == Seq(W)
           T(i) == FlattenSeq(First(s, i))
<1>1. l \in Nat /\ DOMAIN F = 1..l
    BY Sequences
<1>2. \A i \in 1..l : IsSequence(s[i])
  <2> TAKE i \in 1..l
  <2>1. F[i] \in ToSet(F)
      BY <1>1 DEF ToSet
  <2> QED BY <2>1, FilterBindsMany
<1>3. \A i \in 1..l : FilterBinds(F[i]) \in C
  <2> TAKE i \in 1..l
  <2>1. s[i] \in Seq(ToSet(s[i]))
      BY <1>2, Sequences
  <2>2. ToSet(s[i]) \subseteq W /\ s[i] = FilterBinds(F[i])
      OBVIOUS
  <2> HIDE DEF s, W
  <2> QED BY <2>1, <2>2
<1>4. s \in Seq(C) /\ Len(s) = l
  <2> HIDE DEF C, l, F
  <2> QED BY <1>1, <1>3
<1>5. ASSUME NEW j \in 0..l PROVE FiltersBound(j) = T(j)
  <2>1. \A i \in 1..j : s[i] = FilterBinds(F[i])
    <3>1. \A i \in 1..j : i \in 1..l
        BY <1>1
    <3> QED BY <3>1
  <2> HIDE DEF s
  <2>2. First(s, j) = [i \in 1..j |-> FilterBinds(F[i])]
      BY <2>1 DEF First
  <2> QED BY <2>2 DEF FiltersBound
<1>6. /\ T(0) = <<>>
      /\ \A i \in 1..l : T(i) = T(i - 1) \o s[i]
      /\ \A i \in 0..l : T(i) \in C
  <2> HIDE DEF s, W
  <2>1. s \in Seq(Seq(W)) /\ Len(s) = l
      BY <1>4
  <2> HIDE DEF l, C
  <2> QED BY <2>1, FlattenFirst DEF C
<1>7. 0 \in 0..l /\ l \in 0..l /\ Len(<<>>) = 0
    BY <1>1
<1>8. Taken(0) = 0
    BY <1>5, <1>6, <1>7 DEF Taken
<1>9. ASSUME NEW i \in 1..l
      PROVE  LET n == Len(FilterBinds(F[i]))
             IN  /\ n \in Nat /\ DOMAIN FilterBinds(F[i]) = 1..n
                 /\ Taken(i - 1) \in Nat /\ Taken(i) = Taken(i - 1) + n
  <2>1. i \in 0..l /\ i - 1 \in 0..l
      BY <1>1
  <2> DEFINE a == T(i - 1)
             b == FilterBinds(F[i])
  <2>2. a \in Seq(W) /\ b \in Seq(W) /\ T(i) = a \o b
      BY <1>3, <1>6, <2>1
  <2>3. Taken(i - 1) = Len(a) /\ Taken(i) = Len(a \o b)
      BY <1>5, <2>1, <2>2 DEF Taken
  <2> HIDE DEF a, b, W
  <2>4. Len(b) \in Nat /\ DOMAIN b = 1..Len(b) /\ Len(a) \in Nat /\ Len(a \o b) = Len(a) + Len(b)
      BY <2>2
  <2> QED BY <2>3, <2>4 DEF b
<1>10. FiltersBound(l) \in C
    BY <1>5, <1>6, <1>7
<1> QED BY <1>8, <1>9, <1>10

\* The conditions of the filters have the numbers that are bound for them.
LEMMA FilterPlaces ==
    ASSUME IsSequence(params.filters), \A f \in ToSet(params.filters) : IsFilter(f),
           NEW u \in Nat, NEW b \in Nat, u <= b
    PROVE  LET t == FilterCond(b)
           IN  Numbered(t) /\ Plainly(t) /\ Numbers(Placeholders(t), u, b, b + Taken(Len(params.filters)))
<1> DEFINE F == params.filters
           l == Len(F)
           n(i) == Len(FilterBinds(F[i]))
           ph(i) == [k \in DOMAIN FilterBinds(F[i]) |-> b + Taken(i - 1) + k]
           A(i) == FilterAtom(F[i], ph(i))
           conj == [i \in 1..l |-> A(i)]
           V == {A(i) : i \in 1..l}
           s == [i \in 1..l |-> ph(i)]
           e == [i \in 0..l |-> b + Taken(i)]
<1>1. l \in Nat /\ DOMAIN F = 1..l /\ \A i \in 1..l : IsFilter(F[i])
  <2>1. l \in Nat /\ DOMAIN F = 1..l
      BY Sequences
  <2> QED BY <2>1 DEF ToSet
<1>2. FilterCond(b) = <<conj>>
    BY <1>1 DEF FilterCond
<1>3. /\ Taken(0) = 0
      /\ \A i \in 1..l : /\ n(i) \in Nat /\ DOMAIN FilterBinds(F[i]) = 1..n(i)
                         /\ Taken(i - 1) \in Nat /\ Taken(i) = Taken(i - 1) + n(i)
    BY TakenGrows
<1>4. \A i \in 0..l : Taken(i) \in Nat
  <2> TAKE i \in 0..l
  <2>1. CASE i = 0
      BY <1>3, <2>1
  <2>2. CASE i # 0
    <3>1. i \in 1..l
        BY <1>1, <2>2
    <3> HIDE DEF n
    <3> QED BY <1>3, <3>1
  <2> QED BY <2>1, <2>2
<1>5. \A i \in 1..l : PlaceholdersOf(A(i)) = ph(i) /\ A(i).op # "Nested"
    BY <1>1, AtomPlaces
<1>6. ASSUME NEW i \in 1..l PROVE Numbers(ph(i), u, b + Taken(i - 1), b + Taken(i))
  <2> DEFINE c == b + Taken(i - 1)
             m == n(i)
  <2>1. c \in Nat /\ m \in Nat /\ u <= c /\ b + Taken(i) = c + m
    <3> HIDE DEF n
    <3> QED BY <1>3
  <2>2. ph(i) = [k \in 1..m |-> c + k]
      BY <1>3
  <2> HIDE DEF c, m, ph
  <2>3. Numbers([k \in 1..m |-> c + k], u, c, c + m)
      BY <2>1, RunIs
  <2> QED BY <2>1, <2>2, <2>3 DEF c
<1> HIDE DEF A, ph, n, F, l
<1>7. \A i \in 1..l : ph(i) \in Seq(Nat)
    BY <1>6 DEF Numbers
<1>8. HavePlaces(V) /\ conj \in Seq(V) /\ DOMAIN conj = 1..l /\ \A i \in 1..l : conj[i] = A(i)
  <2>1. \A i \in 1..l : A(i) \in V
      OBVIOUS
  <2>2. HavePlaces(V)
      BY <1>5, <1>7 DEF HavePlaces
  <2> HIDE DEF V
  <2>3. conj \in Seq(V)
      BY <1>1, <2>1
  <2> QED BY <2>2, <2>3
<1>9. s \in Seq(Seq(Nat)) /\ Len(s) = l /\ \A i \in 1..l : s[i] = ph(i)
  <2> DEFINE C == Seq(Nat)
  <2>1. \A i \in 1..l : ph(i) \in C
      BY <1>7
  <2> HIDE DEF C
  <2>2. s \in Seq(C) /\ Len(s) = l
      BY <1>1, <2>1
  <2> QED BY <2>2 DEF C
<1>10. PlaceholdersIn(conj) = FlattenSeq(s)
  <2>1. [k \in DOMAIN conj |-> PlaceholdersOf(conj[k])] = s
      BY <1>5, <1>8
  <2> QED BY <2>1 DEF PlaceholdersIn
<1>11. e[0] = b /\ \A i \in 0..l : e[i] = b + Taken(i)
    BY <1>1, <1>3
<1> HIDE DEF s, e, conj, V
<1>12. ASSUME NEW i \in 1..l
       PROVE  e[i] \in Nat /\ e[i - 1] <= e[i] /\ GoesOn(s[i], u, e[0], e[i - 1], e[i])
  <2> DEFINE p == b + Taken(i - 1)
             q == b + Taken(i)
  <2>1. e[i] = q /\ e[i - 1] = p
    <3>1. i \in 0..l /\ i - 1 \in 0..l
        BY <1>1
    <3> QED BY <1>11, <3>1
  <2>2. p \in Nat /\ q \in Nat /\ b <= p /\ p <= q
      BY <1>3
  <2>3. Numbers(s[i], u, p, q)
      BY <1>6, <1>9
  <2> HIDE DEF p, q
  <2>4. GoesOn(s[i], u, b, p, q)
      BY <2>2, <2>3, NumbersGoOn
  <2> QED BY <1>11, <2>1, <2>2, <2>4
<1>13. Numbers(FlattenSeq(s), u, e[0], e[l])
    BY <1>9, <1>11, <1>12, OrderAfter
<1>14. Placeholders(<<conj>>) = FlattenSeq(s)
    BY <1>8, <1>10, PlacesOfOne
<1>15. Numbered(<<conj>>)
  <2>1. <<conj>> \in Seq(Seq(V)) /\ <<conj>> # <<>>
      BY <1>8
  <2> QED BY <1>8, <2>1 DEF Numbered
<1>16. Plainly(<<conj>>)
  <2>1. \A i \in DOMAIN conj : conj[i].op # "Nested"
      BY <1>5, <1>8
  <2> QED BY <2>1 DEF Plainly
<1>17. l \in 0..l
    BY <1>1
<1> QED BY <1>2, <1>11, <1>13, <1>14, <1>15, <1>16, <1>17 DEF l, F

\* Each field that is searched has the number of its own argument.
LEMMA SearchPlaces ==
    ASSUME IsSequence(params.search.fields), params.search.fields # <<>>,
           NEW u \in Nat, NEW b \in Nat, u <= b
    PROVE  LET t == SearchCond(b)
           IN  Numbered(t) /\ Plainly(t) /\ Numbers(Placeholders(t), u, b, b + Len(params.search.fields))
<1> DEFINE n == Len(params.search.fields)
           A(i) == Atom(IF params.search.case_sensitive THEN "Like" ELSE "LowerLike",
                        params.search.fields[i], FALSE, <<b + i>>)
           V == {A(i) : i \in 1..n}
           t == SearchCond(b)
<1>1. n \in Nat /\ n # 0 /\ DOMAIN params.search.fields = 1..n
    BY Sequences
<1>2. t = [i \in 1..n |-> <<A(i)>>]
    BY <1>1 DEF SearchCond
<1>3. ASSUME NEW i \in 1..n PROVE PlaceholdersOf(A(i)) = <<b + i>> /\ A(i).op # "Nested"
  <2> DEFINE how == IF params.search.case_sensitive THEN "Like" ELSE "LowerLike"
             column == params.search.fields[i]
             numbers == <<b + i>>
  <2>1. how # "Nested"
      OBVIOUS
  <2>2. A(i) = Atom(how, column, FALSE, numbers)
      OBVIOUS
  <2> HIDE DEF how, column, numbers, A
  <2>3. Atom(how, column, FALSE, numbers).op # "Nested"
      BY <2>1 DEF Atom
  <2>4. PlaceholdersOf(Atom(how, column, FALSE, numbers)) = numbers
      BY <2>1 DEF Atom, PlaceholdersOf
  <2> QED BY <2>2, <2>3, <2>4 DEF numbers
<1> HIDE DEF A, n, t
<1>4. \A i \in 1..n : A(i) \in V /\ <<b + i>> \in Seq(Nat)
    BY <1>1
<1>5. HavePlaces(V)
    BY <1>3, <1>4 DEF HavePlaces
<1> HIDE DEF V
<1>6. t \in Seq(Seq(V)) /\ DOMAIN t = 1..n /\ t # <<>>
  <2> DEFINE C == Seq(V)
  <2>1. \A i \in 1..n : <<A(i)>> \in C
      BY <1>4
  <2> HIDE DEF C
  <2>2. t \in Seq(C) /\ DOMAIN t = 1..n /\ t # <<>>
      BY <1>1, <1>2, <2>1
  <2> QED BY <2>2 DEF C
<1>7. \A i \in 1..n : PlaceholdersIn(t[i]) = <<b + i>>
    BY <1>2, <1>3, <1>4, <1>5, PlacesOfOne
<1>8. [i \in DOMAIN t |-> PlaceholdersIn(t[i])] = [i \in 1..n |-> <<b + i>>]
    BY <1>6, <1>7
<1>9. Numbers(Placeholders(t), u, b, b + n)
    BY <1>1, <1>8, SinglesAre DEF Placeholders
<1>10. Plainly(t)
    BY <1>2, <1>3, <1>6 DEF Plainly
<1>11. Numbered(t)
    BY <1>5, <1>6 DEF Numbered
<1> QED BY <1>9, <1>10, <1>11 DEF t, n

\* A cursor has the numbers of its values, again at each depth.
LEMMA CursorPlaces ==
    ASSUME IsSequence(params.sorts), params.sorts # <<>>,
           NEW u \in Nat, NEW b \in Nat, u <= b
    PROVE  LET t == CursorCond(b)
           IN  Numbered(t) /\ Plainly(t) /\ Numbers(Placeholders(t), u, b, b + Len(params.sorts))
<1> DEFINE n == Len(params.sorts)
           A(i, j) == Atom(IF j = i THEN Operator(i) ELSE "Eq", params.sorts[j].field, FALSE, <<b + j>>)
           c(i) == [j \in 1..i |-> A(i, j)]
           V == {A(i, j) : i \in 1..n, j \in 1..n}
           t == CursorCond(b)
           s == [i \in 1..n |-> PlaceholdersIn(c(i))]
           e == [i \in 0..n |-> b + i]
<1>1. n \in Nat /\ n # 0 /\ DOMAIN params.sorts = 1..n
    BY Sequences
<1>2. t = [i \in 1..n |-> c(i)]
    BY <1>1 DEF CursorCond
<1>3. ASSUME NEW i, NEW j PROVE PlaceholdersOf(A(i, j)) = <<b + j>> /\ A(i, j).op # "Nested"
  <2> DEFINE how == IF j = i THEN Operator(i) ELSE "Eq"
             column == params.sorts[j].field
             numbers == <<b + j>>
  <2>1. how # "Nested"
      BY DEF Operator
  <2>2. A(i, j) = Atom(how, column, FALSE, numbers)
      OBVIOUS
  <2> HIDE DEF how, column, numbers, A
  <2>3. Atom(how, column, FALSE, numbers).op # "Nested"
      BY <2>1 DEF Atom
  <2>4. PlaceholdersOf(Atom(how, column, FALSE, numbers)) = numbers
      BY <2>1 DEF Atom, PlaceholdersOf
  <2> QED BY <2>2, <2>3, <2>4 DEF numbers
<1> HIDE DEF A, n, t
<1>4. \A i, j \in 1..n : A(i, j) \in V /\ <<b + j>> \in Seq(Nat)
  <2>1. \A i, j \in 1..n : A(i, j) \in V
      OBVIOUS
  <2> HIDE DEF V
  <2>2. \A j \in 1..n : b + j \in Nat
      BY <1>1
  <2>3. \A v \in Nat : <<v>> \in Seq(Nat)
      OBVIOUS
  <2> QED BY <2>1, <2>2, <2>3
<1>5. HavePlaces(V)
  <2> SUFFICES ASSUME NEW atom \in V PROVE PlaceholdersOf(atom) \in Seq(Nat)
      BY DEF HavePlaces
  <2>1. PICK i \in 1..n, j \in 1..n : atom = A(i, j)
      OBVIOUS
  <2> HIDE DEF V
  <2>2. PlaceholdersOf(A(i, j)) = <<b + j>>
      BY <1>3
  <2>3. <<b + j>> \in Seq(Nat)
      BY <1>4
  <2> QED BY <2>1, <2>2, <2>3
<1> HIDE DEF V
<1>6. \A i \in 1..n : c(i) \in Seq(V) /\ DOMAIN c(i) = 1..i
  <2> TAKE i \in 1..n
  <2>1. i \in Nat /\ \A j \in 1..i : A(i, j) \in V
      BY <1>1, <1>4
  <2> QED BY <2>1
<1>7. ASSUME NEW i \in 1..n PROVE Numbers(PlaceholdersIn(c(i)), u, b, b + i)
  <2>1. i \in Nat
      BY <1>1
  <2>2. [j \in DOMAIN c(i) |-> PlaceholdersOf(c(i)[j])] = [j \in 1..i |-> <<b + j>>]
      BY <1>3, <1>6
  <2>3. Numbers(FlattenSeq([j \in 1..i |-> <<b + j>>]), u, b, b + i)
      BY <2>1, SinglesAre
  <2> HIDE DEF c
  <2> QED BY <2>2, <2>3 DEF PlaceholdersIn
<1>8. \A i \in 1..n : \A j \in DOMAIN c(i) : c(i)[j].op # "Nested"
    BY <1>3, <1>6
<1> HIDE DEF c
<1>9. t \in Seq(Seq(V)) /\ DOMAIN t = 1..n /\ t # <<>>
  <2> DEFINE C == Seq(V)
  <2>1. \A i \in 1..n : c(i) \in C
      BY <1>6
  <2> HIDE DEF C
  <2>2. t \in Seq(C) /\ DOMAIN t = 1..n /\ t # <<>>
      BY <1>1, <1>2, <2>1
  <2> QED BY <2>2 DEF C
<1>10. s \in Seq(Seq(Nat)) /\ Len(s) = n /\ \A i \in 1..n : s[i] = PlaceholdersIn(c(i))
  <2> DEFINE C == Seq(Nat)
  <2>1. \A i \in 1..n : PlaceholdersIn(c(i)) \in C
      BY <1>7 DEF Numbers
  <2> HIDE DEF C
  <2>2. s \in Seq(C) /\ Len(s) = n
      BY <1>1, <2>1
  <2> QED BY <2>2 DEF C
<1>11. Placeholders(t) = FlattenSeq(s)
  <2>1. [i \in DOMAIN t |-> PlaceholdersIn(t[i])] = s
      BY <1>2, <1>9
  <2> QED BY <2>1 DEF Placeholders
<1>12. e[0] = b /\ \A i \in 0..n : e[i] = b + i
    BY <1>1
<1> HIDE DEF s, e
<1>13. ASSUME NEW i \in 1..n
       PROVE  e[i] \in Nat /\ e[i - 1] <= e[i] /\ GoesOn(s[i], u, e[0], e[i - 1], e[i])
  <2> DEFINE p == b + (i - 1)
             q == b + i
  <2>1. e[i] = q /\ e[i - 1] = p
    <3>1. i \in 0..n /\ i - 1 \in 0..n
        BY <1>1
    <3> QED BY <1>12, <3>1
  <2>2. p \in Nat /\ q \in Nat /\ b <= p /\ p <= q /\ b <= b
      BY <1>1
  <2>3. Numbers(s[i], u, b, q)
      BY <1>7, <1>10
  <2> HIDE DEF p, q
  <2>4. GoesOn(s[i], u, b, p, q)
      BY <2>2, <2>3, NumbersGoOn
  <2> QED BY <1>12, <2>1, <2>2, <2>4
<1>14. Numbers(FlattenSeq(s), u, e[0], e[n])
    BY <1>10, <1>12, <1>13, OrderAfter
<1>15. Plainly(t)
    BY <1>2, <1>8, <1>9 DEF Plainly
<1>16. Numbered(t)
    BY <1>5, <1>9 DEF Numbered
<1>17. n \in 0..n
    BY <1>1
<1> QED BY <1>11, <1>12, <1>14, <1>15, <1>16, <1>17 DEF t, n

\* Conditions one after the other have the numbers from behind a up to b.
Printed(parts, u, a, b) ==
    /\ \E V : parts \in Seq(V)
    /\ \A k \in 1..Len(parts) : Numbered(parts[k]) /\ Plainly(parts[k])
    /\ Numbers(FlattenSeq([k \in 1..Len(parts) |-> Placeholders(parts[k])]), u, a, b)

\* No condition has no number, one has its own.
LEMMA PrintedFew ==
    /\ \A u, a : a \in Nat => Printed(<<>>, u, a, a)
    /\ \A text, u, a, b :
          Numbered(text) /\ Plainly(text) /\ Numbers(Placeholders(text), u, a, b) =>
              Printed(<<text>>, u, a, b)
<1>1. ASSUME NEW u, NEW a \in Nat PROVE Printed(<<>>, u, a, a)
  <2>1. FlattenSeq([k \in 1..Len(<<>>) |-> Placeholders(<<>>[k])]) = <<>>
    <3>1. [k \in 1..Len(<<>>) |-> Placeholders(<<>>[k])] = <<>>
        OBVIOUS
    <3> QED BY <3>1 DEF FlattenSeq
  <2>2. Above(<<>>, u) = {} /\ InOrder(<<>>, u) /\ <<>> \in Seq(Nat)
      BY DEF Above, InOrder, ToSet
  <2>3. (a + 1)..a = {}
      OBVIOUS
  <2>4. Numbers(<<>>, u, a, a)
      BY <2>2, <2>3 DEF Numbers
  <2>5. <<>> \in Seq({}) /\ 1..Len(<<>>) = {}
      OBVIOUS
  <2> QED BY <2>1, <2>4, <2>5 DEF Printed
<1>2. ASSUME NEW text, NEW u, NEW a, NEW b, Numbered(text), Plainly(text), Numbers(Placeholders(text), u, a, b)
      PROVE  Printed(<<text>>, u, a, b)
  <2> DEFINE parts == <<text>>
             p == Placeholders(text)
  <2>1. parts \in Seq({text}) /\ Len(parts) = 1 /\ parts[1] = text
      OBVIOUS
  <2>2. [k \in 1..Len(parts) |-> Placeholders(parts[k])] = <<p>>
      BY <2>1
  <2>3. p \in Seq(Nat)
      BY <1>2 DEF Numbers
  <2>4. FlattenSeq(<<p>>) = p
      BY <2>3, FlattenOne
  <2> HIDE DEF parts
  <2>5. \A k \in 1..Len(parts) : Numbered(parts[k]) /\ Plainly(parts[k])
    <3>1. \A k \in 1..Len(parts) : k = 1
        BY <2>1
    <3> QED BY <1>2, <2>1, <3>1
  <2>6. Numbers(FlattenSeq([k \in 1..Len(parts) |-> Placeholders(parts[k])]), u, a, b)
      BY <1>2, <2>2, <2>4
  <2>7. Printed(parts, u, a, b)
      BY <2>1, <2>5, <2>6 DEF Printed
  <2> QED BY <2>7 DEF parts
<1> QED BY <1>1, <1>2

\* Conditions, and then others that go on with the next number
LEMMA PrintedJoins ==
    ASSUME NEW u \in Nat, NEW a \in Nat, NEW b \in Nat, NEW c \in Nat, a <= b, b <= c,
           NEW x, NEW y, Printed(x, u, a, b), Printed(y, u, b, c)
    PROVE  Printed(x \o y, u, a, c)
<1> DEFINE P(s) == FlattenSeq([k \in 1..Len(s) |-> Placeholders(s[k])])
<1>1. PICK U : x \in Seq(U)
    BY DEF Printed
<1>2. PICK W : y \in Seq(W)
    BY DEF Printed
<1> DEFINE D == {t \in U \cup W : Numbered(t) /\ Plainly(t)}
           f == [t \in D |-> Placeholders(t)]
<1>3. /\ \A k \in 1..Len(x) : Numbered(x[k]) /\ Plainly(x[k])
      /\ \A k \in 1..Len(y) : Numbered(y[k]) /\ Plainly(y[k])
      /\ Numbers(P(x), u, a, b) /\ Numbers(P(y), u, b, c)
    BY DEF Printed
<1>4. x \in Seq(D) /\ y \in Seq(D)
  <2>1. \A k \in 1..Len(x) : x[k] \in D
      BY <1>1, <1>3
  <2>2. \A k \in 1..Len(y) : y[k] \in D
      BY <1>2, <1>3
  <2> HIDE DEF D
  <2>3. x \in Seq(D)
      BY <1>1, <2>1
  <2>4. y \in Seq(D)
      BY <1>2, <2>2
  <2> QED BY <2>3, <2>4
<1>5. Maps(f, D, Seq(Nat))
  <2>1. \A t \in D : Placeholders(t) \in Seq(Nat)
      BY PlacesBeside
  <2> HIDE DEF D
  <2> QED BY <2>1 DEF Maps
<1>6. \A t \in D : f[t] = Placeholders(t) /\ Numbered(t) /\ Plainly(t)
    OBVIOUS
<1> HIDE DEF D, f
<1>7. ASSUME NEW s \in Seq(D) PROVE P(s) = FlattenSeq(EachOf(f, s)) /\ \A k \in 1..Len(s) : s[k] \in D
  <2>1. DOMAIN s = 1..Len(s) /\ \A k \in 1..Len(s) : s[k] \in D
      OBVIOUS
  <2>2. \A k \in 1..Len(s) : f[s[k]] = Placeholders(s[k])
      BY <1>6, <2>1
  <2>3. [k \in 1..Len(s) |-> Placeholders(s[k])] = EachOf(f, s)
      BY <2>1, <2>2 DEF EachOf
  <2> QED BY <2>1, <2>3
<1>8. x \o y \in Seq(D)
    BY <1>4
<1>9. FlattenSeq(EachOf(f, x \o y)) = FlattenSeq(EachOf(f, x)) \o FlattenSeq(EachOf(f, y))
    BY <1>4, <1>5, FlattenImages
<1> DEFINE xy == x \o y
<1>10. xy \in Seq(D) /\ P(xy) = P(x) \o P(y)
  <2> HIDE DEF P
  <2> QED BY <1>4, <1>7, <1>8, <1>9
<1> HIDE DEF xy, P
<1>11. \A k \in 1..Len(xy) : Numbered(xy[k]) /\ Plainly(xy[k])
    BY <1>6, <1>7, <1>10
<1>12. GoesOn(P(y), u, a, b, c)
    BY <1>3, NumbersGoOn
<1>13. Numbers(P(xy), u, a, c)
    BY <1>3, <1>10, <1>12, OrderBeside
<1>14. Printed(xy, u, a, c)
    BY <1>10, <1>11, <1>13 DEF Printed, P
<1> QED BY <1>14 DEF xy

\* As many arguments are bound as the filters take, and a search and a cursor.
LEMMA BoundIs ==
    ASSUME IsSequence(params.filters), IsSequence(params.search.fields), IsSequence(params.cursor.values),
           \A f \in ToSet(params.filters) : IsFilter(f)
    PROVE  LET m == IF Searching THEN Len(params.search.fields) ELSE 0
           IN  Len(Bound) = Taken(Len(params.filters)) + m + Len(params.cursor.values)
<1> DEFINE fb == FiltersBound(Len(params.filters))
           sb == IF Searching THEN [i \in DOMAIN params.search.fields |-> Pattern] ELSE <<>>
           cb == params.cursor.values
           m == IF Searching THEN Len(params.search.fields) ELSE 0
<1>1. PICK U : fb \in Seq(U)
    BY TakenGrows
<1>2. sb \in Seq({Pattern}) /\ Len(sb) = m /\ m \in Nat
  <2>1. Len(params.search.fields) \in Nat /\ DOMAIN params.search.fields = 1..Len(params.search.fields)
      BY Sequences
  <2>2. CASE Searching
      BY <2>1, <2>2
  <2>3. CASE ~Searching
      BY <2>3
  <2> QED BY <2>2, <2>3
<1>3. cb \in Seq(ToSet(cb))
    BY Sequences
<1> DEFINE V == U \cup {Pattern} \cup ToSet(cb)
           B == fb \o sb \o cb
<1>4. fb \in Seq(V) /\ sb \in Seq(V) /\ cb \in Seq(V)
  <2>1. U \subseteq V /\ {Pattern} \subseteq V /\ ToSet(cb) \subseteq V
      OBVIOUS
  <2> HIDE DEF fb, sb, cb, V
  <2>2. fb \in Seq(V)
      BY <1>1, <2>1
  <2>3. sb \in Seq(V)
      BY <1>2, <2>1
  <2>4. cb \in Seq(V)
      BY <1>3, <2>1
  <2> QED BY <2>2, <2>3, <2>4
<1>5. Bound = B /\ Len(fb) = Taken(Len(params.filters))
    BY DEF Bound, Taken
<1> HIDE DEF fb, sb, cb, V, m
<1>6. Len(B) = Len(fb) + Len(sb) + Len(cb)
    BY <1>4
<1> QED BY <1>2, <1>5, <1>6 DEF m, cb

\* What the request adds to a WHERE has one number for each of its arguments, in
\* the order of their binding.
LEMMA RequestInOrder ==
    ASSUME RequestInv, ~Errs, NEW u \in Nat, NEW b \in Nat, u <= b
    PROVE  Printed(Parts(b), u, b, b + Len(Bound)) /\ Len(Bound) \in Nat /\ Len(Parts(b)) \in 0..3
<1> DEFINE F == params.filters
           k == Taken(Len(F))
           m == IF Searching THEN Len(params.search.fields) ELSE 0
           l == Len(params.cursor.values)
           n1 == b + k
           n2 == n1 + m
           n3 == n2 + l
           x == IF F # <<>> THEN <<FilterCond(b)>> ELSE <<>>
           y == IF Searching THEN <<SearchCond(n1)>> ELSE <<>>
           z == IF Seeking THEN <<CursorCond(n2)>> ELSE <<>>
<1>1. /\ IsSequence(F) /\ IsSequence(params.sorts)
      /\ IsSequence(params.search.fields) /\ IsSequence(params.cursor.values)
      /\ \A f \in ToSet(F) : IsFilter(f)
    BY RequestIs
<1>2. ~CursorWrong
    BY DEF Errs
<1>3. k \in Nat /\ m \in Nat
    BY <1>1, BoundAt
<1>4. l \in Nat
    BY <1>1, Sequences
<1>5. Len(Bound) = k + m + l
    BY <1>1, BoundIs
<1>6. Parts(b) = x \o y \o z
    BY DEF Parts
<1>7. Len(Parts(b)) \in 0..3
    BY <1>1, <1>2, PartsAreDisjunctions
<1> HIDE DEF k
<1>8. n1 \in Nat /\ n2 \in Nat /\ n3 \in Nat /\ b <= n1 /\ n1 <= n2 /\ n2 <= n3 /\ u <= n1 /\ u <= n2
    <2> HIDE DEF m, l
    <2> QED BY <1>3, <1>4
<1>9. Printed(x, u, b, n1)
  <2>1. CASE F = <<>>
    <3>1. Len(F) = 0
        BY <2>1
    <3>2. k = 0
        BY <1>1, <3>1, TakenGrows DEF k
    <3>3. n1 = b
        BY <3>2
    <3> HIDE DEF n1
    <3> QED BY <2>1, <3>3, PrintedFew
  <2>2. CASE F # <<>>
    <3>1. LET t == FilterCond(b) IN Numbered(t) /\ Plainly(t) /\ Numbers(Placeholders(t), u, b, n1)
        BY <1>1, FilterPlaces DEF k
    <3> HIDE DEF n1
    <3> QED BY <2>2, <3>1, PrintedFew
  <2> QED BY <2>1, <2>2
<1>10. Printed(y, u, n1, n2)
  <2>1. CASE ~Searching
    <3>1. m = 0
        BY <2>1
    <3>2. n2 = n1
        BY <1>8, <3>1
    <3> HIDE DEF n1, n2
    <3> QED BY <1>8, <2>1, <3>2, PrintedFew
  <2>2. CASE Searching
    <3>1. m = Len(params.search.fields) /\ params.search.fields # <<>>
        BY <2>2 DEF Searching
    <3> HIDE DEF n1
    <3>2. LET t == SearchCond(n1) IN Numbered(t) /\ Plainly(t) /\ Numbers(Placeholders(t), u, n1, n1 + m)
        BY <1>1, <1>8, <3>1, SearchPlaces
    <3> QED BY <2>2, <3>2, PrintedFew
  <2> QED BY <2>1, <2>2
<1>11. Printed(z, u, n2, n3)
  <2>1. CASE ~Seeking
    <3>1. l = 0
        BY <2>1 DEF Seeking
    <3>2. n3 = n2
        BY <1>8, <3>1
    <3> HIDE DEF n2, n3
    <3> QED BY <1>8, <2>1, <3>2, PrintedFew
  <2>2. CASE Seeking
    <3>1. l = Len(params.sorts)
        BY <1>2, <2>2 DEF CursorWrong
    <3>2. l # 0
        BY <1>1, <2>2, Sequences DEF Seeking
    <3>3. params.sorts # <<>>
        BY <3>1, <3>2
    <3> HIDE DEF n2
    <3>4. LET t == CursorCond(n2) IN Numbered(t) /\ Plainly(t) /\ Numbers(Placeholders(t), u, n2, n2 + Len(params.sorts))
        BY <1>1, <1>8, <3>3, CursorPlaces
    <3> QED BY <2>2, <3>1, <3>4, PrintedFew
  <2> QED BY <2>1, <2>2
<1>12. b + Len(Bound) = n3
    <2> HIDE DEF m, l
    <2> QED BY <1>3, <1>4, <1>5
<1> HIDE DEF n1, n2, n3, x, y, z
<1>13. Printed(x \o y, u, b, n2)
    BY <1>8, <1>9, <1>10, PrintedJoins
<1>14. b <= n2
    BY <1>8
<1>15. Printed((x \o y) \o z, u, b, n3)
    BY <1>8, <1>11, <1>13, <1>14, PrintedJoins
<1>16. Len(Bound) \in Nat
    <2> HIDE DEF m, l
    <2> QED BY <1>3, <1>4, <1>5
<1> QED BY <1>6, <1>7, <1>12, <1>15, <1>16

-----------------------------------------------------------------------------
(* The numbers of the whole statement.                                     *)

\* A WHERE of the method has numbers of its own arguments, and none above them.
LEMMA WrittenPlaces ==
    ASSUME NEW c \in Calls, NEW i \in DOMAIN c.wheres
    PROVE  LET own == c.wheres[i]
               n == Len(UserArgs)
           IN  /\ own # <<>> => Numbered(own)
               /\ Placeholders(own) \in Seq(Nat)
               /\ \A b \in Nat : Numbers(Placeholders(own), n, b, b)
<1> DEFINE own == c.wheres[i]
           n == Len(UserArgs)
           N == [op : {"Nested"}, text : Seq(Seq(Comparison))]
           U == Comparison \cup N
           P == Placeholders(own)
<1>1. own \in Seq(Seq(U))
  <2> DEFINE T == Seq(Seq(U))
  <2>1. c.wheres \in Seq(T)
      BY CallsAssumption DEF Text
  <2> HIDE DEF T
  <2>2. own \in T
      BY <2>1
  <2> QED BY <2>2 DEF T
<1>2. \A atom \in Comparison : atom.op # "Nested" /\ PlaceholdersOf(atom) = atom.ph /\ atom.ph \in Seq(Nat)
    BY DEF Comparison, PlaceholdersOf
<1>3. HavePlaces(Comparison)
    BY <1>2 DEF HavePlaces
<1>4. ASSUME NEW atom \in N PROVE PlaceholdersOf(atom) \in Seq(Nat)
  <2> DEFINE text == atom.text
             C == Seq(Comparison)
  <2>1. atom.op = "Nested" /\ text \in Seq(Seq(Comparison))
      OBVIOUS
  <2>2. \A d \in DOMAIN text : text[d] \in Seq(Comparison)
    <3>1. text \in Seq(C)
        BY <2>1
    <3> HIDE DEF C
    <3>2. \A d \in DOMAIN text : text[d] \in C
        BY <3>1
    <3> QED BY <3>2 DEF C
  <2>3. ASSUME NEW d \in DOMAIN text
        PROVE  [k \in DOMAIN text[d] |-> text[d][k].ph] = [k \in DOMAIN text[d] |-> PlaceholdersOf(text[d][k])]
    <3>1. \A k \in DOMAIN text[d] : text[d][k] \in Comparison
        BY <2>2
    <3>2. \A k \in DOMAIN text[d] : PlaceholdersOf(text[d][k]) = text[d][k].ph
        BY <1>2, <3>1
    <3> QED BY <3>2
  <2>4. [d \in DOMAIN text |-> FlattenSeq([k \in DOMAIN text[d] |-> text[d][k].ph])]
          = [d \in DOMAIN text |-> PlaceholdersIn(text[d])]
      BY <2>3 DEF PlaceholdersIn
  <2>5. PlaceholdersOf(atom) = Placeholders(text)
      BY <2>1, <2>4 DEF PlaceholdersOf, Placeholders
  <2>6. Placeholders(text) \in Seq(Nat)
      BY <1>3, <2>1, PlacesInText
  <2> QED BY <2>5, <2>6
<1>5. HavePlaces(U)
  <2> HIDE DEF N
  <2> QED BY <1>3, <1>4 DEF HavePlaces
<1> HIDE DEF U
<1>6. own # <<>> => Numbered(own)
    BY <1>1, <1>5 DEF Numbered
<1>7. P \in Seq(Nat)
    BY <1>1, <1>5, PlacesInText
<1>8. n \in Nat
    BY ArgsAssumption DEF IsSequence
<1>9. ToSet(P) \subseteq 1..n
    BY WrittenAssumption
<1> HIDE DEF P, own, n
<1>10. Above(P, n) = {}
    BY <1>8, <1>9 DEF Above
<1>11. InOrder(P, n)
    BY <1>10 DEF InOrder, Above, ToSet
<1>12. \A b \in Nat : (b + 1)..b = {}
    OBVIOUS
<1>13. \A b \in Nat : Numbers(P, n, b, b)
    BY <1>7, <1>10, <1>11, <1>12 DEF Numbers
<1> QED BY <1>6, <1>7, <1>13 DEF P, own, n

\* The first k sequences, one after the other
UpTo(w, k) == FlattenSeq([i \in 1..k |-> w[i]])

AsBefore(v, w, k) == \A i \in 1..k : w[i] \in Seq(Nat) /\ v[i] = w[i]

\* One more WHERE, which goes on with the numbers
LEMMA OneMore ==
    ASSUME NEW u \in Nat, NEW a \in Nat, NEW b \in Nat, NEW c \in Nat, a <= b, b <= c,
           NEW k \in Nat, NEW w, NEW v,
           AsBefore(v, w, k), Numbers(UpTo(w, k), u, a, b), GoesOn(v[k + 1], u, a, b, c)
    PROVE  Numbers(UpTo(v, k + 1), u, a, c)
<1> DEFINE s == [i \in 1..(k + 1) |-> v[i]]
<1>1. s \in Seq(Seq(Nat)) /\ Len(s) = k + 1
  <2> DEFINE C == Seq(Nat)
  <2>1. v[k + 1] \in C
      BY DEF GoesOn
  <2>2. \A i \in 1..k : v[i] \in C
      BY DEF AsBefore
  <2>3. \A i \in 1..(k + 1) : v[i] \in C
    <3> TAKE i \in 1..(k + 1)
    <3> HIDE DEF C
    <3>1. i = k + 1 \/ i \in 1..k
        OBVIOUS
    <3> QED BY <2>1, <2>2, <3>1
  <2> HIDE DEF C
  <2>4. s \in Seq(C) /\ Len(s) = k + 1
      BY <2>3
  <2> QED BY <2>4 DEF C
<1>2. s[k + 1] = v[k + 1] /\ \A i \in 1..k : s[i] = w[i]
    BY DEF AsBefore
<1>3. First(s, k) = [i \in 1..k |-> w[i]]
  <2> HIDE DEF s
  <2> QED BY <1>2 DEF First
<1> HIDE DEF s
<1>4. FlattenSeq(s) = FlattenSeq(First(s, k)) \o s[k + 1]
  <2> DEFINE j == k + 1
  <2>1. j \in 1..Len(s) /\ j - 1 = k
      BY <1>1
  <2>2. FlattenSeq(First(s, j)) = FlattenSeq(First(s, j - 1)) \o s[j]
      BY <1>1, <2>1, FlattenFirst
  <2>3. First(s, j) = s
      BY <1>1, FlattenFirst
  <2> QED BY <2>1, <2>2, <2>3
<1>5. Numbers(UpTo(w, k) \o v[k + 1], u, a, c)
    BY OrderBeside
<1>6. FlattenSeq(s) = UpTo(w, k) \o v[k + 1]
    BY <1>2, <1>3, <1>4 DEF UpTo
<1> QED BY <1>5, <1>6 DEF s, UpTo

\* The SELECTs that are done have between them the numbers of all that is bound
\* for the request, in order.
OrderInv ==
    /\ PlacedInv
    /\ \E c \in Calls : written = c.wheres
    /\ Len(bind_values) \in Nat /\ Len(UserArgs) <= Len(bind_values)
    /\ \A i \in DOMAIN wheres : Placeholders(wheres[i]) \in Seq(Nat)
    /\ Numbers(FlattenSeq([i \in 1..at |-> Placeholders(wheres[i])]),
               Len(UserArgs), Len(UserArgs), Len(bind_values))

\* Before the first SELECT nothing is bound for the request.
LEMMA OrderInit == Init => OrderInv
<1> SUFFICES ASSUME Init PROVE OrderInv
    OBVIOUS
<1>1. PlacedInv
    BY PlacedInit
<1>2. PICK c \in Calls : wheres = c.wheres
    BY DEF Init
<1>3. written = wheres /\ bind_values = UserArgs /\ at = 0
    BY DEF Init
<1>4. Len(UserArgs) \in Nat
    BY ArgsAssumption DEF IsSequence
<1>5. \A i \in DOMAIN wheres : Placeholders(wheres[i]) \in Seq(Nat)
    BY <1>2, WrittenPlaces
<1>6. [i \in 1..0 |-> Placeholders(wheres[i])] = <<>>
    OBVIOUS
<1>7. FlattenSeq(<<>>) = <<>>
    BY DEF FlattenSeq
<1> DEFINE n == Len(UserArgs)
<1>8. Numbers(<<>>, n, n, n)
  <2>1. Above(<<>>, n) = {} /\ InOrder(<<>>, n) /\ <<>> \in Seq(Nat)
      BY DEF Above, InOrder, ToSet
  <2>2. (n + 1)..n = {}
      BY <1>4
  <2> QED BY <2>1, <2>2 DEF Numbers
<1>9. Len(UserArgs) <= Len(UserArgs)
    BY <1>4
<1> QED BY <1>1, <1>2, <1>3, <1>4, <1>5, <1>6, <1>7, <1>8, <1>9 DEF OrderInv

\* A SELECT that is processed goes on with the numbers of what is bound for it.
LEMMA OrderSelect == OrderInv /\ Select => OrderInv'
<1> SUFFICES ASSUME OrderInv, Select PROVE OrderInv'
    OBVIOUS
<1> DEFINE m == Len(statement.selects)
           u == Len(UserArgs)
           b == Len(bind_values)
           l == Len(Bound)
           d == b + l
           own == written[at + 1]
           parts == Parts(b)
           new == Combined(own, parts)
           w == [i \in DOMAIN wheres |-> Placeholders(wheres[i])]
           v == [i \in DOMAIN wheres |-> Placeholders(wheres'[i])]
<1>1. /\ ~Errs /\ at < m
      /\ wheres' = [wheres EXCEPT ![at + 1] = Combined(wheres[at + 1], parts)]
      /\ bind_values' = bind_values \o Bound
      /\ at' = at + 1
      /\ UNCHANGED <<statement, written, params, pc>>
    BY DEF Select, InBody
<1>2. PlacedInv'
    BY PlacedSelect DEF OrderInv
<1>3. m \in Nat /\ at \in 0..m /\ DOMAIN wheres = 1..m /\ DOMAIN written = 1..m
    BY DEF OrderInv, PlacedInv, OwnInv, ShapeInv, Statements
<1>4. at + 1 \in 1..m /\ wheres[at + 1] = own /\ at \in Nat
    BY <1>1, <1>3 DEF OrderInv, PlacedInv, OwnInv
<1>5. u \in Nat /\ b \in Nat /\ u <= b
    BY ArgsAssumption DEF OrderInv, IsSequence
<1>6. Printed(parts, u, b, d) /\ l \in Nat /\ Len(parts) \in 0..3
    BY <1>1, <1>5, RequestInOrder DEF OrderInv, PlacedInv
<1>7. /\ own # <<>> => Numbered(own)
      /\ Placeholders(own) \in Seq(Nat)
      /\ Numbers(Placeholders(own), u, b, b)
  <2>1. PICK c \in Calls : written = c.wheres
      BY DEF OrderInv
  <2>2. at + 1 \in DOMAIN c.wheres
      BY <1>3, <1>4, <2>1
  <2> QED BY <1>5, <2>1, <2>2, WrittenPlaces
<1>8. Len(bind_values') = d
  <2>1. PICK U : bind_values \in Seq(U)
      BY DEF OrderInv, PlacedInv
  <2>2. PICK W : Bound \in Seq(W)
      BY RequestIs, BoundAt DEF OrderInv, PlacedInv
  <2> DEFINE B == Bound
             V == U \cup W
  <2>3. bind_values \in Seq(V) /\ B \in Seq(V)
      BY <2>1, <2>2
  <2> HIDE DEF B, V
  <2>4. Len(bind_values \o B) = b + Len(B)
      BY <2>3
  <2> QED BY <1>1, <2>4 DEF B
<1> DEFINE added == FlattenSeq([k \in 1..Len(parts) |-> Placeholders(parts[k])])
<1> HIDE DEF l, parts, new
<1>9. Placeholders(new) = Placeholders(own) \o added /\ Numbers(added, u, b, d)
  <2>1. /\ \E V : parts \in Seq(V)
        /\ \A k \in 1..Len(parts) : Numbered(parts[k]) /\ Plainly(parts[k])
        /\ Numbers(added, u, b, d)
      BY <1>6 DEF Printed
  <2> HIDE DEF added
  <2>2. Placeholders(new) = Placeholders(own) \o added
      BY <1>6, <1>7, <2>1, PlacesCombined DEF new, added
  <2> QED BY <2>1, <2>2
<1>10. d \in Nat /\ b <= d /\ u <= d /\ b <= b
    BY <1>5, <1>6
<1> HIDE DEF added, own, d, b, u
<1>11. Numbers(Placeholders(new), u, b, d)
  <2>1. GoesOn(added, u, b, b, d)
      BY <1>5, <1>9, <1>10, NumbersGoOn
  <2> QED BY <1>5, <1>7, <1>9, <1>10, <2>1, OrderBeside
<1>12. GoesOn(Placeholders(new), u, u, b, d)
    BY <1>5, <1>10, <1>11, NumbersGoOn
<1>13. wheres'[at + 1] = new /\ DOMAIN wheres' = DOMAIN wheres /\ \A i \in 1..at : wheres'[i] = wheres[i]
    BY <1>1, <1>3, <1>4 DEF new
<1>14. Placeholders(new) \in Seq(Nat)
    BY <1>11 DEF Numbers
<1>15. \A i \in DOMAIN wheres' : Placeholders(wheres'[i]) \in Seq(Nat)
  <2> TAKE i \in DOMAIN wheres'
  <2>1. CASE i = at + 1
      BY <1>13, <1>14, <2>1
  <2>2. CASE i # at + 1
    <3>1. wheres'[i] = wheres[i] /\ i \in DOMAIN wheres
        BY <1>1, <1>13, <2>2
    <3> QED BY <3>1 DEF OrderInv
  <2> QED BY <2>1, <2>2
<1>16. AsBefore(v, w, at)
  <2> SUFFICES \A i \in 1..at : w[i] \in Seq(Nat) /\ v[i] = w[i]
      BY DEF AsBefore
  <2> TAKE i \in 1..at
  <2>1. i \in DOMAIN wheres
      BY <1>3
  <2> QED BY <1>13, <2>1 DEF OrderInv
<1>17. [i \in 1..at |-> w[i]] = [i \in 1..at |-> Placeholders(wheres[i])]
    BY <1>3
<1>18. v[at + 1] = Placeholders(new)
    BY <1>3, <1>4, <1>13
<1>19. [i \in 1..(at + 1) |-> v[i]] = [i \in 1..(at + 1) |-> Placeholders(wheres'[i])]
  <2>1. \A i \in 1..(at + 1) : i \in DOMAIN wheres
      BY <1>3, <1>4
  <2> QED BY <2>1
<1> HIDE DEF v, w
<1>20. Numbers(UpTo(w, at), u, u, b)
    BY <1>17 DEF OrderInv, UpTo, u, b
<1>21. Numbers(UpTo(v, at + 1), u, u, d)
    BY <1>4, <1>5, <1>10, <1>12, <1>16, <1>18, <1>20, OneMore
<1>22. Numbers(FlattenSeq([i \in 1..at' |-> Placeholders(wheres'[i])]), u, u, Len(bind_values'))
    BY <1>1, <1>8, <1>19, <1>21 DEF UpTo
<1>23. Len(bind_values') \in Nat /\ u <= Len(bind_values')
    BY <1>8, <1>10
<1>24. \E c \in Calls : written' = c.wheres
    BY <1>1 DEF OrderInv
<1> QED BY <1>2, <1>15, <1>22, <1>23, <1>24 DEF OrderInv, u

\* What is no SELECT has no WHERE to print; the other steps print nothing.
LEMMA OrderStep == OrderInv /\ [Where]_vars => OrderInv'
<1> SUFFICES ASSUME OrderInv, [Where]_vars PROVE OrderInv'
    OBVIOUS
<1>1. PlacedInv'
    BY PlacedStep DEF OrderInv
<1>2. CASE Select
    BY <1>2, OrderSelect
<1>3. CASE Pass
  <2>1. /\ at' = at + 1 /\ at < Len(statement.selects)
        /\ UNCHANGED <<statement, wheres, written, params, bind_values>>
      BY <1>3 DEF Pass, InBody
  <2>2. /\ Len(statement.selects) \in Nat /\ at \in 0..Len(statement.selects)
        /\ DOMAIN wheres = 1..Len(statement.selects) /\ DOMAIN written = DOMAIN wheres
        /\ \A i \in DOMAIN wheres : i > at => wheres[i] = written[i]
      BY DEF OrderInv, PlacedInv, OwnInv, ShapeInv, Statements
  <2> DEFINE u == Len(UserArgs)
             b == Len(bind_values)
             w == [i \in DOMAIN wheres |-> Placeholders(wheres[i])]
  <2>3. u \in Nat /\ b \in Nat /\ u <= b /\ u <= u /\ b <= b /\ at \in Nat
      BY <2>2, ArgsAssumption DEF OrderInv, IsSequence
  <2>4. at + 1 \in DOMAIN wheres /\ wheres[at + 1] = written[at + 1]
      BY <2>1, <2>2
  <2>5. Numbers(Placeholders(wheres[at + 1]), u, b, b)
    <3>1. PICK c \in Calls : written = c.wheres
        BY DEF OrderInv
    <3>2. at + 1 \in DOMAIN c.wheres
        BY <2>2, <2>4, <3>1
    <3> QED BY <2>3, <2>4, <3>1, <3>2, WrittenPlaces
  <2>6. w[at + 1] = Placeholders(wheres[at + 1])
      BY <2>4
  <2>7. AsBefore(w, w, at)
      BY <2>2 DEF OrderInv, AsBefore
  <2>8. /\ [i \in 1..at |-> w[i]] = [i \in 1..at |-> Placeholders(wheres[i])]
        /\ [i \in 1..(at + 1) |-> w[i]] = [i \in 1..(at + 1) |-> Placeholders(wheres[i])]
    <3>1. \A i \in 1..(at + 1) : i \in DOMAIN wheres
        BY <2>2, <2>4
    <3>2. \A i \in 1..at : i \in 1..(at + 1)
        BY <2>3
    <3> QED BY <3>1, <3>2
  <2> HIDE DEF w, u, b
  <2>9. GoesOn(w[at + 1], u, u, b, b)
      BY <2>3, <2>5, <2>6, NumbersGoOn
  <2>10. Numbers(UpTo(w, at), u, u, b)
      BY <2>8 DEF OrderInv, UpTo, u, b
  <2>11. Numbers(UpTo(w, at + 1), u, u, b)
      BY <2>3, <2>7, <2>9, <2>10, OneMore
  <2>12. Numbers(FlattenSeq([i \in 1..at' |-> Placeholders(wheres'[i])]), u, u, Len(bind_values'))
      BY <2>1, <2>8, <2>11 DEF UpTo, b
  <2> QED BY <1>1, <2>1, <2>12 DEF OrderInv, u
<1>4. ASSUME UNCHANGED <<wheres, written, bind_values, at>> PROVE OrderInv'
    BY <1>1, <1>4 DEF OrderInv
<1>5. CASE Fail
    BY <1>4, <1>5 DEF Fail
<1>6. CASE Finish
    BY <1>4, <1>6 DEF Finish
<1>7. CASE UNCHANGED vars
    BY <1>4, <1>7 DEF vars
<1> QED BY <1>2, <1>3, <1>5, <1>6, <1>7 DEF Where

\* Every argument that is bound for a request has its placeholder in the WHERE of a
\* SELECT, and the placeholders stand in the order of the arguments: for every
\* statement, with its own arguments in its own text, and every request.
THEOREM ArgumentsInTextOrder == CSpec => []BoundInTextOrder
<1>1. CInit => OrderInv
    BY OrderInit DEF CInit
<1>2. OrderInv /\ [CNext]_cvars => OrderInv'
  <2>1. [CNext]_cvars => [Where]_vars
      BY DEF CNext, Build, Generate, Count, cvars
  <2> QED BY <2>1, OrderStep
<1>3. OrderInv => BoundInTextOrder
  <2> SUFFICES ASSUME OrderInv, pc = "built" PROVE BoundInTextOrder
      BY DEF BoundInTextOrder
  <2> DEFINE u == Len(UserArgs)
             b == Len(bind_values)
             text == FlattenSeq([i \in DOMAIN wheres |-> Placeholders(wheres[i])])
  <2>1. DOMAIN wheres = 1..at
      BY DEF OrderInv, PlacedInv, OwnInv, ShapeInv, Statements
  <2>2. Numbers(text, u, u, b)
      BY <2>1 DEF OrderInv
  <2> HIDE DEF text, u, b
  <2>3. {p \in ToSet(text) : p > u} = (u + 1)..b
      BY <2>2 DEF Numbers, Above
  <2>4. \A i, j \in DOMAIN text :
            i < j /\ u < text[j] /\ text[j] < text[i] => \E k \in 1..(i - 1) : text[k] = text[j]
      BY <2>2 DEF Numbers, InOrder
  <2> QED BY <2>3, <2>4 DEF BoundInTextOrder, text, u, b
<1> QED BY <1>1, <1>2, <1>3, PTL DEF CSpec
=============================================================================
