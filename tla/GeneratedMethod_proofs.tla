----------------------- MODULE GeneratedMethod_proofs -----------------------
(***************************************************************************)
(* What holds of every method that #[dml] generates, whatever is declared, *)
(* passed and answered.                                                    *)
(***************************************************************************)
EXTENDS GeneratedMethod, FiniteSetTheorems, SequenceTheorems, WellFoundedInduction, TLAPS

-----------------------------------------------------------------------------
(* Places in a sequence.                                                   *)

\* A set of numbers that holds 0, and with each number below n the next, holds
\* all of them: of those left out there would be a least.
LEMMA Upwards ==
    ASSUME NEW n \in Nat, NEW G, 0 \in G, \A i \in 0..(n - 1) : i \in G => i + 1 \in G
    PROVE  0..n \subseteq G
<1> SUFFICES ASSUME 0..n \ G # {} PROVE FALSE
    OBVIOUS
<1> DEFINE T == {1..i : i \in 0..n \ G}
<1>1. ASSUME NEW i \in Nat PROVE 1..i \in FiniteSubsetsOf(Nat)
  <2>1. IsFiniteSet(1..i)
      BY FS_Interval
  <2>2. 1..i \in SUBSET Nat
      OBVIOUS
  <2> QED BY <2>1, <2>2 DEF FiniteSubsetsOf
<1>2. T \subseteq FiniteSubsetsOf(Nat) /\ T # {}
    BY <1>1
<1>3. PICK x \in T : \A y \in T : <<y, x>> \notin StrictSubsetOrdering(Nat)
    BY <1>2, FS_StrictSubsetOrderingWellFounded, WFMin
<1>4. PICK i \in 0..n \ G : x = 1..i
    BY <1>3
<1>5. i \in Nat /\ i - 1 \in 0..(n - 1) /\ i \in 1..i /\ i \notin 1..(i - 1)
    BY <1>4
<1>6. i - 1 \notin G
    BY <1>4, <1>5
<1>7. 1..(i - 1) \in T
    BY <1>5, <1>6
<1>8. 1..(i - 1) \subseteq 1..i /\ 1..(i - 1) # 1..i /\ 1..i \in SUBSET Nat /\ 1..(i - 1) \in SUBSET Nat
    BY <1>5
<1>9. <<1..(i - 1), 1..i>> \in StrictSubsetOrdering(Nat)
    BY <1>8 DEF StrictSubsetOrdering
<1> QED BY <1>3, <1>4, <1>7, <1>9

\* Of some places there is a first one ...
LEMMA FirstPlace ==
    ASSUME NEW n \in Nat, NEW P \in SUBSET (1..n), P # {}
    PROVE  Min(P) \in P /\ \A q \in P : Min(P) <= q
<1> DEFINE G == {i \in 0..n : \A k \in 0..i : k \notin P}
<1>1. \E p \in P : \A q \in P : p <= q
  <2> SUFFICES ASSUME \A p \in P : \E q \in P : q < p PROVE FALSE
      OBVIOUS
  <2>1. 0 \in G
      OBVIOUS
  <2>2. ASSUME NEW i \in 0..(n - 1), i \in G PROVE i + 1 \in G
    <3>1. i + 1 \in P => \E q \in P : q \in 0..i
        OBVIOUS
    <3>2. i + 1 \notin P
        BY <2>2, <3>1
    <3>3. \A k \in 0..(i + 1) : k \in 0..i \/ k = i + 1
        OBVIOUS
    <3> QED BY <2>2, <3>2, <3>3
  <2>3. 0..n \subseteq G
    <3> HIDE DEF G
    <3> QED BY <2>1, <2>2, Upwards
  <2>4. n \in G
      BY <2>3
  <2>5. \A p \in P : p \in 0..n
      OBVIOUS
  <2> QED BY <2>4, <2>5
<1> QED BY <1>1 DEF Min

\* ... and a last one.
LEMMA LastPlace ==
    ASSUME NEW n \in Nat, NEW P \in SUBSET (1..n), P # {}
    PROVE  Max(P) \in P /\ \A q \in P : q <= Max(P)
<1> DEFINE Q == {(n + 1) - p : p \in P}
<1>1. Q \in SUBSET (1..n) /\ Q # {}
  <2>1. \A p \in P : (n + 1) - p \in 1..n
      OBVIOUS
  <2> QED BY <2>1
<1>2. Min(Q) \in Q /\ \A q \in Q : Min(Q) <= q
  <2> HIDE DEF Q
  <2> QED BY <1>1, FirstPlace
<1>3. PICK p \in P : Min(Q) = (n + 1) - p
    BY <1>2
<1>4. \A q \in P : q <= p
  <2> TAKE q \in P
  <2>1. (n + 1) - p <= (n + 1) - q
      BY <1>2, <1>3
  <2> QED BY <2>1
<1> QED BY <1>4 DEF Max

-----------------------------------------------------------------------------
(* What a return type asks for.                                            *)

Wrapper == {"Result", "Vec", "Option", "Stream"} \cup Pages

LEMMA ReturnTypes ==
    ASSUME decl \in Methods
    PROVE  /\ Ret.wraps \in Seq(Wrapper)
           /\ \A i \in DOMAIN Ret.wraps : Ret.wraps[i] \in Pages => Ret.wraps = <<"Result", Ret.wraps[i]>>
           /\ Ret.base \in {"scalar", "tuple", "struct", "QueryResult", "()"}
BY ReturnsAssumption DEF Ret, Wrapper

\* The first wrapper that is not Result is a page, if there is any page.
LEMMA OuterIs ==
    ASSUME decl \in Methods
    PROVE  /\ Outer \in {"", "Vec", "Option", "Stream"} \cup Pages
           /\ (\E w \in Pages : Wrapped(w)) <=> Outer \in Pages
           /\ Outer = "Option" => ~IsStream /\ ~IsPage
<1> DEFINE wraps == Ret.wraps
           I == {i \in 1..Len(wraps) : wraps[i] # "Result"}
<1>1. /\ wraps \in Seq(Wrapper)
      /\ \A i \in DOMAIN wraps : wraps[i] \in Pages => wraps = <<"Result", wraps[i]>>
    BY ReturnTypes
<1>2. Outer = LET i == IF I # {} THEN Min(I) ELSE 0 IN IF i = 0 THEN "" ELSE wraps[i]
    BY DEF Outer, SelectInSeq
<1>3. /\ I # {} => Min(I) \in I /\ Min(I) # 0 /\ \A i \in I : Min(I) <= i
      /\ I \in SUBSET (1..Len(wraps))
  <2>1. I \in SUBSET (1..Len(wraps)) /\ Len(wraps) \in Nat
      BY <1>1
  <2> HIDE DEF I
  <2>2. I # {} => Min(I) \in I /\ \A i \in I : Min(I) <= i
      BY <2>1, FirstPlace
  <2> QED BY <2>1, <2>2
<1>4. IsStream <=> wraps # <<>> /\ wraps[1] = "Stream"
    BY DEF IsStream, Ret
<1>5. IsPage <=> Len(wraps) > 1 /\ wraps[2] \in Pages
    BY DEF IsPage
<1>6. (\E w \in Pages : Wrapped(w)) <=> \E i \in DOMAIN wraps : wraps[i] \in Pages
    BY DEF Wrapped, ToSet
<1> HIDE DEF wraps
<1>7. /\ I # {} => Outer = wraps[Min(I)] /\ Outer \in Wrapper \ {"Result"}
      /\ I = {} => Outer = ""
  <2>1. \A i \in I : i \in DOMAIN wraps /\ wraps[i] \in Wrapper \ {"Result"}
      BY <1>1
  <2> HIDE DEF I
  <2> QED BY <1>2, <1>3, <2>1
<1>8. Outer \in {"", "Vec", "Option", "Stream"} \cup Pages
    BY <1>7 DEF Wrapper
<1>9. ASSUME NEW i \in DOMAIN wraps, wraps[i] \in Pages PROVE Outer = wraps[i]
  <2>1. wraps = <<"Result", wraps[i]>>
      BY <1>1, <1>9
  <2> DEFINE w == wraps[i]
  <2>2. w # "Result"
      BY <1>9 DEF Pages
  <2> HIDE DEF w
  <2>3. Len(wraps) = 2 /\ wraps[1] = "Result" /\ wraps[2] = w
      BY <2>1 DEF w
  <2>4. I = {2}
      BY <2>2, <2>3
  <2>5. Min(I) = 2
      BY <1>3, <2>4
  <2> QED BY <1>7, <2>3, <2>4, <2>5 DEF w
<1>10. ASSUME Outer \in Pages PROVE \E i \in DOMAIN wraps : wraps[i] \in Pages
  <2>1. I # {} /\ Min(I) \in DOMAIN wraps /\ wraps[Min(I)] \in Pages
    <3>1. Outer # ""
        BY <1>10 DEF Pages
    <3>2. I # {}
      <4> HIDE DEF I
      <4> QED BY <1>7, <3>1
    <3>3. DOMAIN wraps = 1..Len(wraps)
        BY <1>1
    <3> HIDE DEF I
    <3> QED BY <1>3, <1>7, <1>10, <3>2, <3>3
  <2> QED BY <2>1
<1>11. ASSUME Outer = "Option" PROVE ~IsStream /\ ~IsPage
  <2>1. ~IsPage
    <3>1. ~\E i \in DOMAIN wraps : wraps[i] \in Pages
        BY <1>9, <1>11 DEF Pages
    <3>2. Len(wraps) > 1 => 2 \in DOMAIN wraps
        BY <1>1
    <3> QED BY <1>5, <3>1, <3>2
  <2>2. ASSUME IsStream PROVE FALSE
    <3>1. 1 \in 1..Len(wraps) /\ wraps[1] = "Stream"
        BY <1>1, <1>4, <2>2
    <3>2. 1 \in I
        BY <3>1
    <3>3. Min(I) = 1
        BY <1>1, <1>3, <3>2
    <3> QED BY <1>7, <1>11, <3>1, <3>2, <3>3
  <2> QED BY <2>1, <2>2
<1> QED BY <1>6, <1>8, <1>9, <1>10, <1>11

\* The scalar generator is chosen for what is a scalar in nothing but Option.
LEMMA ScalarIs ==
    ASSUME decl \in Methods, gen = Generator, gen # "multi", Outer = "Option"
    PROVE  gen = "QueryScalar" <=> Ret.base = "scalar"
<1>1. ~IsStream /\ ~IsPage /\ \A w \in Pages : ~Wrapped(w)
    BY OuterIs DEF Pages
<1>2. ~IsMulti
    BY <1>1 DEF Generator
<1>3. gen = Strategy
    BY <1>1, <1>2 DEF Generator
<1>4. Ret.base \in {"scalar", "tuple", "struct", "QueryResult", "()"}
    BY ReturnTypes
<1> QED BY <1>1, <1>3, <1>4 DEF Strategy

-----------------------------------------------------------------------------
(* A value that fits its type is delivered as it stands.                   *)

LEMMA CellIs ==
    ASSUME NEW type, NEW opt, NEW casts, NEW v \in Int \cup {Null},
           v = Null => opt, v # Null => Fits(type, v)
    PROVE  /\ Cell(type, opt, casts, v) = IF v = Null THEN Null ELSE As(type, v)
           /\ Cell(type, opt, casts, v) # Bad
<1>1. CASE v = Null
    BY <1>1, AnswersAssumption DEF Cell
<1>2. CASE v # Null
  <2>1. v \in Int /\ As(type, v) \in Int
      BY <1>2 DEF As
  <2>2. Read(type, v) = As(type, v)
      BY <1>2 DEF Read
  <2>3. Cast(type, v) = As(type, v)
    <3>1. CASE type = "u8"
      <4>1. v \in 0..MaxU8 /\ As(type, v) = v /\ MaxU8 \in Nat
          BY <1>2, <3>1, MaxU8Assumption DEF Fits, As
      <4>2. v % (MaxU8 + 1) = v
          BY <4>1
      <4> QED BY <3>1, <4>1, <4>2 DEF Cast
    <3>2. CASE type # "u8"
        BY <3>2 DEF Cast
    <3> QED BY <3>1, <3>2
  <2> QED BY <1>2, <2>1, <2>2, <2>3, AnswersAssumption DEF Cell
<1> QED BY <1>1, <1>2

LEMMA RowIs ==
    ASSUME decl \in Methods, gen = Generator, gen # "multi",
           NEW row \in Seq(Int \cup {Null}), RowFits(row)
    PROVE  /\ Converted(row) = Value(row)
           /\ Bad \notin ToSet(Converted(row))
<1>1. ASSUME NEW i \in DOMAIN Ret.elems
      PROVE  Converted(row)[i] = Value(row)[i] /\ Converted(row)[i] # Bad
  <2>1. i \in DOMAIN row /\ row[i] \in Int \cup {Null} /\ CellFits(i, row[i])
      BY DEF RowFits
  <2>2. row[i] = Null => Nullable(i)
    <3>1. CASE Ret.elems[i].opt
        BY <3>1 DEF Nullable
    <3>2. CASE row[i] = Null /\ ~Ret.elems[i].opt
      <4>1. Ret.base = "scalar" /\ Outer = "Option" /\ ~decl.unchecked
          BY <2>1, <3>2 DEF CellFits
      <4>2. gen = "QueryScalar"
          BY <4>1, ScalarIs
      <4>3. Fetch = "FetchOptional"
          BY <4>1 DEF Fetch, Pages
      <4> QED BY <4>1, <4>2, <4>3 DEF Nullable
    <3> QED BY <3>1, <3>2
  <2>3. row[i] # Null => Fits(Ret.elems[i].type, row[i])
      BY <2>1 DEF CellFits
  <2> DEFINE c == Cell(Ret.elems[i].type, Nullable(i), Casts(i), row[i])
  <2>4. Converted(row)[i] = c
      BY <2>1 DEF Converted
  <2>5. Value(row)[i] = IF row[i] = Null THEN Null ELSE As(Ret.elems[i].type, row[i])
      BY DEF Value
  <2>6. c = (IF row[i] = Null THEN Null ELSE As(Ret.elems[i].type, row[i])) /\ c # Bad
      BY <2>1, <2>2, <2>3, CellIs
  <2> QED BY <2>4, <2>5, <2>6
<1>2. Converted(row) = Value(row)
    BY <1>1 DEF Converted, Value
<1>3. DOMAIN Converted(row) = DOMAIN Ret.elems
    BY DEF Converted
<1> QED BY <1>1, <1>2, <1>3 DEF ToSet

LEMMA AllDecode ==
    ASSUME NEW items, \A i \in DOMAIN items : Bad \notin ToSet(items[i])
    PROVE  OrErr(items) = Ok(items) /\ Ok(items) # Err /\ Ok(items).ok /\ Ok(items).items = items
<1>1. OrErr(items) = Ok(items)
    BY DEF OrErr
<1>2. Ok(items).ok = TRUE /\ Err.ok = FALSE /\ Ok(items).items = items
    BY DEF Ok, Err
<1> QED BY <1>1, <1>2

\* What a call returns is what its type promises of the answer.
LEMMA OutcomeDelivers ==
    ASSUME decl \in Methods, gen = Generator, gen # "multi",
           answer \in Answers, result = <<Outcome(answer)>>
    PROVE  Delivered
<1> DEFINE V == Int \cup {Null}
           C == Seq(V)
           Unit == Outer = "" /\ Ret.base \in {"()", "QueryResult"}
           W == [i \in DOMAIN Wanted |-> Value(Wanted[i])]
           I == [i \in DOMAIN answer |-> Converted(answer[i])]
           Expected == IF Ret.base = "scalar" /\ Outer = "Option" /\ ~Ret.elems[1].opt /\ W = <<<<Null>>>>
                       THEN <<>> ELSE W
<1> SUFFICES ASSUME \A row \in ToSet(Wanted) : RowFits(row)
             PROVE  IF Outer = "" /\ Ret.base \notin {"()", "QueryResult"} /\ answer = <<>>
                    THEN ~Outcome(answer).ok
                    ELSE Outcome(answer).ok /\ Outcome(answer).items = Expected
    BY DEF Delivered
<1>1. answer \in Seq(C)
    BY AnswersAssumption
<1>2. Outer \in {"", "Vec", "Option", "Stream"} \cup Pages
    BY OuterIs
<1>3. ASSUME NEW row \in C, row \in ToSet(Wanted)
      PROVE  Converted(row) = Value(row) /\ Bad \notin ToSet(Converted(row))
    BY <1>3, RowIs
<1> HIDE DEF C, V
<1>4. CASE Outer \in Pages \cup {"Vec", "Stream"}
  <2>1. Wanted = answer
      BY <1>4 DEF Wanted, Pages
  <2>2. \A i \in DOMAIN answer : answer[i] \in C /\ answer[i] \in ToSet(Wanted)
      BY <1>1, <2>1 DEF ToSet
  <2>3. I = W /\ \A i \in DOMAIN I : Bad \notin ToSet(I[i])
      BY <1>3, <2>1, <2>2
  <2>4. Expected = W /\ Outer # ""
      BY <1>4 DEF Pages
  <2>5. Outcome(answer) = IF Fetch = "Fetch" THEN Ok(I) ELSE OrErr(I)
    <3>1. Fetch = IF Outer = "Stream" THEN "Fetch" ELSE "FetchAll"
        BY <1>4 DEF Fetch, Pages
    <3> QED BY <3>1 DEF Outcome
  <2> HIDE DEF I, W, Expected
  <2>6. OrErr(I) = Ok(I) /\ Ok(I).ok /\ Ok(I).items = I
      BY <2>3, AllDecode
  <2> QED BY <2>3, <2>4, <2>5, <2>6
<1>5. CASE Unit
  <2>1. Wanted = <<>> /\ Fetch = "Execute"
      BY <1>5 DEF Wanted, Fetch, Pages
  <2>2. Outcome(answer) = Ok(<<>>)
      BY <2>1 DEF Outcome
  <2>3. Expected = W /\ W = <<>>
    <3>1. W = <<>>
        BY <2>1
    <3>2. Expected = W
        BY <1>5
    <3> QED BY <3>1, <3>2
  <2>4. Ok(<<>>).ok /\ Ok(<<>>).items = <<>>
      BY DEF Ok
  <2> QED BY <1>5, <2>2, <2>3, <2>4
<1>6. CASE Outer \in {"", "Option"} /\ ~Unit
  <2>1. Wanted = AtMostOne(answer)
      BY <1>6 DEF Wanted, Pages
  <2>2. Fetch = IF Outer = "" THEN "FetchOne" ELSE "FetchOptional"
      BY <1>6 DEF Fetch, Pages
  <2>3. Outcome(answer) =
            LET first == AtMostOne(I)
            IN  IF Outer = "" THEN (IF answer = <<>> THEN Err ELSE OrErr(first))
                ELSE IF OrErr(first) = Err THEN Err ELSE Ok(Flattened(first))
      BY <1>6, <2>2 DEF Outcome
  <2>4. CASE answer = <<>>
    <3>1. I = <<>> /\ AtMostOne(I) = <<>> /\ Wanted = <<>>
        BY <2>1, <2>4 DEF AtMostOne
    <3>2. CASE Outer = ""
      <4>1. Outcome(answer) = Err /\ ~Err.ok
          BY <2>3, <2>4, <3>2 DEF Err
      <4> QED BY <1>6, <2>4, <3>2, <4>1
    <3>3. CASE Outer # ""
      <4>1. W = <<>> /\ Expected = <<>>
          BY <3>1
      <4>2. OrErr(<<>>) = Ok(<<>>) /\ Ok(<<>>) # Err /\ Ok(<<>>).ok /\ Ok(<<>>).items = <<>>
          BY AllDecode
      <4>3. Flattened(<<>>) = <<>>
          BY DEF Flattened
      <4> HIDE DEF I, W, Expected
      <4>4. Outcome(answer) = Ok(<<>>)
          BY <2>3, <3>1, <3>3, <4>2, <4>3
      <4> QED BY <3>3, <4>1, <4>2, <4>4
    <3> QED BY <3>2, <3>3
  <2>5. CASE answer # <<>>
    <3>1. 1 \in DOMAIN answer /\ answer[1] \in C
        BY <1>1, <2>5
    <3>2. Wanted = <<answer[1]>> /\ answer[1] \in ToSet(Wanted)
        BY <2>1, <2>5 DEF AtMostOne, ToSet
    <3>3. Converted(answer[1]) = Value(answer[1]) /\ Bad \notin ToSet(Value(answer[1]))
        BY <1>3, <3>1, <3>2
    <3>4. W = <<Value(answer[1])>>
        BY <3>2
    <3>5. AtMostOne(I) = W
        BY <3>1, <3>3, <3>4 DEF AtMostOne
    <3>6. \A i \in DOMAIN W : Bad \notin ToSet(W[i])
        BY <3>3, <3>4
    <3>7. OrErr(W) = Ok(W) /\ Ok(W) # Err /\ Ok(W).ok /\ Ok(W).items = W
      <4> HIDE DEF W
      <4> QED BY <3>6, AllDecode
    <3>8. CASE Outer = ""
      <4>1. Expected = W
          BY <3>8
      <4> HIDE DEF W, Expected, I
      <4> QED BY <2>3, <2>5, <3>5, <3>7, <3>8, <4>1
    <3>9. CASE Outer = "Option"
      <4>1. gen = "QueryScalar" <=> Ret.base = "scalar"
          BY <3>9, ScalarIs
      <4>2. Flattened(W) = Expected
        <5> HIDE DEF W
        <5> QED BY <3>9, <4>1 DEF Flattened
      <4> HIDE DEF W, Expected, I
      <4>3. Outcome(answer) = Ok(Expected)
          BY <2>3, <3>5, <3>7, <3>9, <4>2
      <4>4. Ok(Expected).ok /\ Ok(Expected).items = Expected
          BY DEF Ok
      <4> QED BY <3>9, <4>3, <4>4
    <3> QED BY <1>6, <3>8, <3>9
  <2> QED BY <2>4, <2>5
<1> QED BY <1>2, <1>4, <1>5, <1>6

-----------------------------------------------------------------------------
(* Sequences made of others.                                               *)

\* What FlattenSeq computes: the sequences so far, joined.
Joins(f, s, V) ==
    /\ f = [i \in 1..Len(s) |-> IF i = 1 THEN s[i] ELSE f[i - 1] \o s[i]]
    /\ f \in [1..Len(s) -> Seq(V)]

LEMMA JoinsExist ==
    ASSUME NEW V, NEW s \in Seq(Seq(V))
    PROVE  \E f : Joins(f, s, V)
<1> DEFINE n == Len(s)
           H(i, f) == /\ f \in [1..i -> Seq(V)]
                      /\ \A j \in 1..i : f[j] = IF j = 1 THEN s[j] ELSE f[j - 1] \o s[j]
           G == {i \in 0..n : \E f : H(i, f)}
<1>1. n \in Nat /\ \A i \in 1..n : s[i] \in Seq(V)
    OBVIOUS
<1> HIDE DEF n
<1>2. 0 \in G
  <2>1. H(0, [i \in 1..0 |-> <<>>])
      OBVIOUS
  <2> HIDE DEF H
  <2> QED BY <1>1, <2>1
<1>3. ASSUME NEW i \in 0..(n - 1), i \in G PROVE i + 1 \in G
  <2>1. PICK f : H(i, f)
      BY <1>3
  <2> DEFINE x == IF i = 0 THEN s[1] ELSE f[i] \o s[i + 1]
             g == [j \in 1..(i + 1) |-> IF j <= i THEN f[j] ELSE x]
  <2>2. i + 1 \in 1..n /\ i + 1 \in 0..n /\ i \in Nat /\ (i # 0 => i \in 1..i)
      BY <1>1, <1>3
  <2>3. x \in Seq(V)
    <3>1. s[i + 1] \in Seq(V) /\ (i = 0 => s[1] \in Seq(V))
        BY <1>1, <2>2
    <3>2. i # 0 => f[i] \in Seq(V)
        BY <2>1, <2>2
    <3> QED BY <3>1, <3>2
  <2>4. g[i + 1] = IF i + 1 = 1 THEN s[i + 1] ELSE g[i] \o s[i + 1]
    <3> HIDE DEF H
    <3> QED BY <2>2
  <2>5. \A j \in 1..i : g[j] = f[j] /\ j \in 1..(i + 1) /\ (j # 1 => g[j - 1] = f[j - 1])
    <3> HIDE DEF H, x
    <3> QED BY <2>2
  <2>6. g \in [1..(i + 1) -> Seq(V)]
    <3>1. \A j \in 1..(i + 1) : j <= i => f[j] \in Seq(V)
        BY <2>1, <2>2
    <3> HIDE DEF x, H
    <3> QED BY <2>3, <3>1
  <2> HIDE DEF g, x
  <2>7. H(i + 1, g)
    <3> SUFFICES ASSUME NEW j \in 1..(i + 1) PROVE g[j] = IF j = 1 THEN s[j] ELSE g[j - 1] \o s[j]
        BY <2>6
    <3>1. CASE j \in 1..i
        BY <2>1, <2>5, <3>1
    <3>2. CASE j = i + 1
        BY <2>2, <2>4, <3>2
    <3> QED BY <2>2, <3>1, <3>2
  <2> HIDE DEF H
  <2> QED BY <2>2, <2>7
<1>4. n \in G
  <2> HIDE DEF G
  <2>1. 0..n \subseteq G
      BY <1>1, <1>2, <1>3, Upwards
  <2> QED BY <1>1, <2>1
<1>5. PICK f : H(n, f)
    BY <1>4
<1> QED BY <1>1, <1>5 DEF Joins, n

\* Each part is the one before with one sequence more.
Grows(f, s) == \A i \in 1..Len(s) : f[i] = IF i = 1 THEN s[i] ELSE f[i - 1] \o s[i]

LEMMA GrowthAgrees ==
    ASSUME NEW s, NEW t, NEW n \in Nat, Len(s) \in Nat, Len(t) \in Nat,
           n <= Len(s), n <= Len(t), \A i \in 1..n : s[i] = t[i],
           NEW f, NEW g, Grows(f, s), Grows(g, t)
    PROVE  \A i \in 1..n : f[i] = g[i]
<1> DEFINE G == {i \in 0..n : i # 0 => f[i] = g[i]}
<1>1. ASSUME NEW i \in 1..n
      PROVE  f[i] = (IF i = 1 THEN s[i] ELSE f[i - 1] \o s[i]) /\ g[i] = (IF i = 1 THEN s[i] ELSE g[i - 1] \o s[i])
  <2>1. i \in 1..Len(s) /\ i \in 1..Len(t) /\ s[i] = t[i]
      OBVIOUS
  <2> QED BY <2>1 DEF Grows
<1>2. 0 \in G
    OBVIOUS
<1>3. ASSUME NEW i \in 0..(n - 1), i \in G PROVE i + 1 \in G
  <2>1. i + 1 \in 1..n /\ i + 1 \in 0..n /\ (i + 1) - 1 = i /\ (i + 1 # 1 => f[i] = g[i])
      BY <1>3
  <2>2. f[i + 1] = g[i + 1]
    <3>1. /\ f[i + 1] = (IF i + 1 = 1 THEN s[i + 1] ELSE f[i] \o s[i + 1])
          /\ g[i + 1] = (IF i + 1 = 1 THEN s[i + 1] ELSE g[i] \o s[i + 1])
        BY <1>1, <2>1
    <3> QED BY <2>1, <3>1, Zenon
  <2> QED BY <2>1, <2>2
<1> HIDE DEF G
<1>4. 0..n \subseteq G
    BY <1>2, <1>3, Upwards
<1>5. \A i \in 1..n : i \in 0..n /\ i # 0
    OBVIOUS
<1> QED BY <1>4, <1>5 DEF G

LEMMA FlattenIs ==
    ASSUME NEW V, NEW s \in Seq(Seq(V)), Len(s) # 0, NEW f, Joins(f, s, V)
    PROVE  FlattenSeq(s) = f[Len(s)]
<1> DEFINE flatten[i \in 1..Len(s)] == IF i = 1 THEN s[i] ELSE flatten[i - 1] \o s[i]
<1>1. FlattenSeq(s) = flatten[Len(s)]
    BY DEF FlattenSeq
<1>2. \E g : g = [i \in 1..Len(s) |-> IF i = 1 THEN s[i] ELSE g[i - 1] \o s[i]]
    BY DEF Joins
<1>3. flatten = [i \in 1..Len(s) |-> IF i = 1 THEN s[i] ELSE flatten[i - 1] \o s[i]]
    BY <1>2
<1> HIDE DEF flatten
<1>4. Grows(flatten, s)
    BY <1>3 DEF Grows
<1>5. Grows(f, s)
    BY DEF Grows, Joins
<1>6. Len(s) \in Nat /\ Len(s) \in 1..Len(s) /\ Len(s) <= Len(s)
    OBVIOUS
<1>7. \A i \in 1..Len(s) : f[i] = flatten[i]
    BY <1>4, <1>5, <1>6, GrowthAgrees
<1> QED BY <1>1, <1>6, <1>7

LEMMA FlattenType ==
    ASSUME NEW V, NEW s \in Seq(Seq(V))
    PROVE  FlattenSeq(s) \in Seq(V)
<1>1. CASE Len(s) = 0
  <2>1. s = <<>>
    <3> DEFINE C == Seq(V)
    <3>1. s \in Seq(C)
        OBVIOUS
    <3> HIDE DEF C
    <3> QED BY <1>1, <3>1
  <2>2. FlattenSeq(s) = <<>>
      BY <2>1 DEF FlattenSeq
  <2> QED BY <2>2
<1>2. CASE Len(s) # 0
  <2>1. PICK f : Joins(f, s, V)
      BY JoinsExist
  <2>2. FlattenSeq(s) = f[Len(s)]
      BY <1>2, <2>1, FlattenIs
  <2>3. Len(s) \in 1..Len(s)
      BY <1>2
  <2> DEFINE C == Seq(V)
  <2>4. f \in [1..Len(s) -> C]
      BY <2>1 DEF Joins
  <2> HIDE DEF C
  <2>5. f[Len(s)] \in C
      BY <2>3, <2>4
  <2> QED BY <2>2, <2>5 DEF C
<1> QED BY <1>1, <1>2

\* Part of a sequence
LEMMA PieceType ==
    ASSUME NEW V, NEW s \in Seq(V), NEW i \in Nat \ {0}, NEW j \in Int, j <= Len(s)
    PROVE  SubSeq(s, i, j) \in Seq(V)
OBVIOUS

\* The places an attribute is cut at
LEMMA CutsAre ==
    ASSUME NEW V, NEW s \in Seq(V)
    PROVE  /\ SelectInSeq(s, IsEquals) \in 0..Len(s)
           /\ SelectInSeq(s, IsColon) \in 0..Len(s)
           /\ SelectLastInSeq(s, IsColon) \in 0..Len(s)
<1>0. Len(s) \in Nat
    OBVIOUS
<1>1. ASSUME NEW P \in SUBSET (1..Len(s))
      PROVE  (IF P # {} THEN Min(P) ELSE 0) \in 0..Len(s) /\ (IF P # {} THEN Max(P) ELSE 0) \in 0..Len(s)
  <2> DEFINE n == Len(s)
  <2>1. n \in Nat /\ P \in SUBSET (1..n)
      BY <1>0
  <2> HIDE DEF n
  <2>2. P # {} => Min(P) \in 1..n /\ Max(P) \in 1..n
    <3>1. P # {} => Min(P) \in P
        BY <2>1, FirstPlace
    <3>2. P # {} => Max(P) \in P
        BY <2>1, LastPlace
    <3> QED BY <2>1, <3>1, <3>2
  <2> QED BY <2>1, <2>2 DEF n
<1> DEFINE E == {i \in 1..Len(s) : IsEquals(s[i])}
           K == {i \in 1..Len(s) : IsColon(s[i])}
<1>2. E \in SUBSET (1..Len(s)) /\ K \in SUBSET (1..Len(s))
    OBVIOUS
<1>3. /\ SelectInSeq(s, IsEquals) = IF E # {} THEN Min(E) ELSE 0
      /\ SelectInSeq(s, IsColon) = IF K # {} THEN Min(K) ELSE 0
      /\ SelectLastInSeq(s, IsColon) = IF K # {} THEN Max(K) ELSE 0
    BY DEF SelectInSeq, SelectLastInSeq
<1> HIDE DEF E, K
<1> QED BY <1>1, <1>2, <1>3

LEMMA PiecesType ==
    ASSUME NEW V, NEW s \in Seq(V), NEW i \in 0..Len(s)
    PROVE  After(s, i) \in Seq(V) /\ Until(s, i) \in Seq(V)
<1>1. Len(s) \in Nat /\ i + 1 \in Nat \ {0} /\ i - 1 \in Int /\ i - 1 <= Len(s)
    OBVIOUS
<1> QED BY <1>1, PieceType DEF After, Until

\* The members of a finite set in some order
LEMMA OrderType ==
    ASSUME NEW S, IsFiniteSet(S), NEW list \in SetToSeqs(S)
    PROVE  list \in Seq(S) /\ Len(list) = Cardinality(S)
<1>1. Cardinality(S) \in Nat
    BY FS_CardinalityType
<1>2. list \in [1..Cardinality(S) -> S]
    BY DEF SetToSeqs
<1> QED BY <1>1, <1>2

LEMMA AnyOrderType ==
    ASSUME NEW S, IsFiniteSet(S)
    PROVE  SetToSeq(S) \in Seq(S)
<1>1. Cardinality(S) \in Nat /\ \E f : f \in Bijection(1..Cardinality(S), S)
    BY FS_CardinalityType DEF ExistsBijection
<1>2. PICK f \in [1..Cardinality(S) -> S] : IsInjective(f)
    BY <1>1 DEF Bijection, Injection
<1>3. SetToSeq(S) \in [1..Cardinality(S) -> S]
    BY <1>2 DEF SetToSeq
<1> QED BY <1>1, <1>3

-----------------------------------------------------------------------------
(* Texts stay texts.                                                       *)

LEMMA TokensAre ==
    /\ \A m \in Word : Mark(m) \in Token
    /\ \A m \in Word : Name(m) \in Token
    /\ And \in Token /\ \A n \in Word : Item(n) \in Token
<1>1. ASSUME NEW t \in {"is", "and", "or", "alias", "item", "join", "name", "mark"}, NEW v \in Word
      PROVE  Tok(t, v, "", 0) \in Token
    BY DEF Token, Tok
<1>2. "" \in Word
    BY DEF Word
<1> QED BY <1>1, <1>2 DEF Mark, Name, And, Item

LEMMA SubstituteType ==
    ASSUME NEW text \in Seq(Token), NEW aliases, \A a \in aliases : a.text \in Seq(Token)
    PROVE  Substitute(text, aliases) \in Seq(Token)
<1> DEFINE Part(i) == IF text[i].t = "alias" /\ \E a \in aliases : a.name = <<Name(text[i].v)>>
                      THEN (CHOOSE a \in aliases : a.name = <<Name(text[i].v)>>).text
                      ELSE <<text[i]>>
           C == Seq(Token)
<1>1. ASSUME NEW i \in DOMAIN text PROVE Part(i) \in C
  <2>1. CASE text[i].t = "alias" /\ \E a \in aliases : a.name = <<Name(text[i].v)>>
    <3>1. (CHOOSE a \in aliases : a.name = <<Name(text[i].v)>>) \in aliases
        BY <2>1
    <3> QED BY <2>1, <3>1
  <2>2. CASE ~(text[i].t = "alias" /\ \E a \in aliases : a.name = <<Name(text[i].v)>>)
    <3>1. text[i] \in Token
        OBVIOUS
    <3>2. <<text[i]>> \in C
        BY <3>1
    <3>3. Part(i) = <<text[i]>>
        BY <2>2
    <3> HIDE DEF Part, C
    <3> QED BY <3>2, <3>3
  <2> QED BY <2>1, <2>2
<1>2. Substitute(text, aliases) = FlattenSeq([i \in DOMAIN text |-> Part(i)])
    BY DEF Substitute
<1> HIDE DEF Part, C
<1>3. [i \in DOMAIN text |-> Part(i)] \in Seq(C)
    BY <1>1
<1> QED BY <1>2, <1>3, FlattenType DEF C

LEMMA JoinedType ==
    ASSUME NEW parts \in Seq(Seq(Token)), NEW m \in Word
    PROVE  JoinedBy(parts, m) \in Seq(Token)
<1> DEFINE C == Seq(Token)
           Part(i) == IF i = 1 THEN parts[i] ELSE <<Mark(m)>> \o parts[i]
<1>1. \A s \in C : <<Mark(m)>> \o s \in C
  <2> DEFINE x == Mark(m)
  <2>1. x \in Token
      BY TokensAre
  <2> HIDE DEF x
  <2>2. \A s \in Seq(Token) : <<x>> \o s \in Seq(Token)
      BY <2>1
  <2> QED BY <2>2 DEF x
<1>2. parts \in Seq(C)
    OBVIOUS
<1> HIDE DEF C
<1>3. ASSUME NEW i \in DOMAIN parts PROVE Part(i) \in C
  <2>1. parts[i] \in C
      BY <1>2
  <2> QED BY <1>1, <2>1
<1>4. JoinedBy(parts, m) = FlattenSeq([i \in DOMAIN parts |-> Part(i)])
    BY DEF JoinedBy
<1> HIDE DEF Part
<1>5. [i \in DOMAIN parts |-> Part(i)] \in Seq(C)
  <2>1. DOMAIN parts = 1..Len(parts) /\ Len(parts) \in Nat
      BY <1>2
  <2>2. \A i \in 1..Len(parts) : Part(i) \in C
      BY <1>3, <2>1
  <2> QED BY <2>1, <2>2
<1>6. FlattenSeq([i \in DOMAIN parts |-> Part(i)]) \in Seq(Token)
  <2> DEFINE p == [i \in DOMAIN parts |-> Part(i)]
  <2>1. p \in Seq(Seq(Token))
      BY <1>5 DEF C
  <2> HIDE DEF p
  <2> QED BY <2>1, FlattenType DEF p
<1> QED BY <1>4, <1>6

LEMMA EscapeType ==
    ASSUME NEW text \in Seq(Token)
    PROVE  Escape(text) \in Seq(Token)
<1> DEFINE C == Seq(Token)
           Part(i) == IF text[i] = Mark(";") THEN <<Mark("\\"), text[i]>> ELSE <<text[i]>>
<1>1. ASSUME NEW i \in DOMAIN text PROVE Part(i) \in C
  <2>1. text[i] \in Token
      OBVIOUS
  <2>2. Mark("\\") \in Token
      BY TokensAre DEF Word
  <2> DEFINE x == text[i]
             b == Mark("\\")
  <2>3. Part(i) = <<b, x>> \/ Part(i) = <<x>>
      OBVIOUS
  <2> HIDE DEF x, b, Part
  <2>4. <<b, x>> \in C /\ <<x>> \in C
      BY <2>1, <2>2 DEF x, b
  <2> QED BY <2>3, <2>4
<1>2. Escape(text) = FlattenSeq([i \in DOMAIN text |-> Part(i)])
    BY DEF Escape
<1> HIDE DEF Part, C
<1>3. [i \in DOMAIN text |-> Part(i)] \in Seq(C)
    BY <1>1
<1> QED BY <1>2, <1>3, FlattenType DEF C

LEMMA PartsType ==
    ASSUME NEW V, NEW text \in Seq(V), NEW m
    PROVE  IsFiniteSet(Pieces(text, m)) /\ Pieces(text, m) \subseteq Seq(V)
<1> DEFINE n == Len(text)
           Ends == {0, n + 1} \cup {i \in DOMAIN text : text[i] = Mark(m)}
           Gaps == {q \in Ends \X Ends : q[1] < q[2] /\ \A i \in Ends : i <= q[1] \/ i >= q[2]}
           Piece(p) == SubSeq(text, p[1] + 1, p[2] - 1)
<1>1. Pieces(text, m) = {Piece(p) : p \in Gaps}
    BY DEF Pieces
<1>2. n \in Nat /\ DOMAIN text = 1..n
    OBVIOUS
<1>3. Ends \subseteq 0..(n + 1)
  <2>1. {i \in DOMAIN text : text[i] = Mark(m)} \subseteq 0..(n + 1)
    <3> HIDE DEF n
    <3> QED BY <1>2
  <2>2. 0 \in 0..(n + 1) /\ n + 1 \in 0..(n + 1)
      BY <1>2
  <2> HIDE DEF n
  <2> QED BY <2>1, <2>2
<1>4. IsFiniteSet(Gaps)
  <2>1. IsFiniteSet(0..(n + 1))
      BY <1>2, FS_Interval
  <2>2. IsFiniteSet(Ends)
      BY <1>3, <2>1, FS_Subset
  <2>3. IsFiniteSet(Ends \X Ends)
      BY <2>2, FS_Product
  <2>4. Gaps \subseteq Ends \X Ends
      OBVIOUS
  <2> QED BY <2>3, <2>4, FS_Subset
<1>5. ASSUME NEW p \in Gaps PROVE Piece(p) \in Seq(V)
  <2>1. p[1] \in 0..(n + 1) /\ p[2] \in 0..(n + 1)
      BY <1>3
  <2> DEFINE i == p[1] + 1
             j == p[2] - 1
  <2>2. i \in Nat \ {0} /\ j \in Int /\ j <= n
      BY <1>2, <2>1
  <2> HIDE DEF i, j
  <2>3. SubSeq(text, i, j) \in Seq(V)
      BY <2>2, PieceType
  <2> QED BY <2>3 DEF i, j
<1> HIDE DEF Gaps, Piece
<1> DEFINE f == [p \in Gaps |-> Piece(p)]
<1>6. f \in Surjection(Gaps, {Piece(p) : p \in Gaps})
    BY DEF Surjection
<1>7. IsFiniteSet({Piece(p) : p \in Gaps})
    BY <1>4, <1>6, FS_Surjection
<1> QED BY <1>1, <1>5, <1>7

\* What stands on either side of an "="
LEMMA SidesType ==
    ASSUME NEW text \in Seq(Token), SelectInSeq(text, IsEquals) # 0
    PROVE  AtEquals(text).left \in Seq(Token) /\ AtEquals(text).right \in Seq(Token)
<1> DEFINE i == SelectInSeq(text, IsEquals)
           x == text[i]
<1>1. i \in 1..Len(text)
    BY CutsAre
<1>2. After(text, i) \in Seq(Token) /\ Until(text, i) \in Seq(Token) /\ x \in Token
    BY <1>1, PiecesType
<1>3. /\ AtEquals(text).left = IF x.t = "eq" THEN Append(Until(text, i), Name(x.v)) ELSE Until(text, i)
      /\ AtEquals(text).right = IF x.t = "eq" THEN <<[x EXCEPT !.t = "arg"]>> \o After(text, i) ELSE After(text, i)
    BY DEF AtEquals
<1> HIDE DEF i, x
<1> DEFINE a == Until(text, i)
           b == After(text, i)
           n == Name(x.v)
           y == [x EXCEPT !.t = "arg"]
<1>4. n \in Token
    BY <1>2, TokensAre DEF Token
<1>5. x.t = "eq" => y \in Token
    BY <1>2 DEF Token
<1> HIDE DEF a, b, n, y
<1>6. a \in Seq(Token) /\ b \in Seq(Token)
    BY <1>2 DEF a, b
<1>7. Append(a, n) \in Seq(Token) /\ (x.t = "eq" => <<y>> \o b \in Seq(Token))
    BY <1>4, <1>5, <1>6
<1> QED BY <1>3, <1>6, <1>7 DEF a, b, n, y

LEMMA EntriesType ==
    ASSUME NEW part \in Seq(Token)
    PROVE  IsFiniteSet(Entries(part)) /\ Entries(part) \subseteq Seq(Token)
<1> DEFINE rest == After(part, SelectInSeq(part, IsColon))
<1>1. rest \in Seq(Token)
    BY CutsAre, PiecesType
<1> HIDE DEF rest
<1>2. Pairs(rest) \subseteq Pieces(rest, ";")
    BY DEF Pairs
<1>3. Entries(part) \subseteq Pairs(rest)
    BY DEF Entries, rest
<1>4. IsFiniteSet(Pieces(rest, ";")) /\ Pieces(rest, ";") \subseteq Seq(Token)
    BY <1>1, PartsType
<1> QED BY <1>2, <1>3, <1>4, FS_Subset

LEMMA ScopeOfType ==
    ASSUME NEW entry \in Seq(Token), SelectInSeq(entry, IsEquals) # 0
    PROVE  ScopeOf(entry).text \in Seq(Token)
<1> DEFINE r == AtEquals(entry).right
           j == SelectLastInSeq(r, IsColon)
<1>1. r \in Seq(Token)
    BY SidesType
<1>2. ScopeOf(entry).text = Until(r, j)
    BY DEF ScopeOf
<1> HIDE DEF r
<1>3. j \in 0..Len(r)
    BY <1>1, CutsAre
<1> QED BY <1>1, <1>2, <1>3, PiecesType

LEMMA AliasesRead ==
    ASSUME NEW text \in Seq(Token), ~AliasesWrong(text), NEW p \in Pairs(text)
    PROVE  AliasOf(p).text \in Seq(Token)
<1>1. p \in Seq(Token)
    BY PartsType DEF Pairs
<1>2. SelectInSeq(p, IsEquals) # 0
    BY DEF AliasesWrong
<1> QED BY <1>1, <1>2, SidesType DEF AliasOf

LEMMA ScopesRead ==
    ASSUME NEW text \in Seq(Token)
    PROVE  IsFiniteSet(ScopesIn(text)) /\ \A s \in ScopesIn(text) : s.text \in Seq(Token)
<1> DEFINE Parts == {part \in Pieces(text, "|") : Prefix(part) = <<Name("scopes")>>}
           Of(part) == {ScopeOf(e) : e \in Entries(part)}
           F == [part \in Parts |-> Of(part)]
           All == {Of(part) : part \in Parts}
<1>1. Parts \subseteq Seq(Token) /\ IsFiniteSet(Parts)
  <2>1. IsFiniteSet(Pieces(text, "|")) /\ Pieces(text, "|") \subseteq Seq(Token)
      BY PartsType
  <2>2. Parts \subseteq Pieces(text, "|")
      OBVIOUS
  <2> HIDE DEF Parts
  <2> QED BY <2>1, <2>2, FS_Subset
<1>2. ScopesIn(text) = UNION All
    BY DEF ScopesIn
<1> HIDE DEF Parts
<1>3. ASSUME NEW part \in Parts PROVE IsFiniteSet(Of(part)) /\ \A s \in Of(part) : s.text \in Seq(Token)
  <2>1. IsFiniteSet(Entries(part)) /\ Entries(part) \subseteq Seq(Token)
      BY <1>1, EntriesType
  <2> DEFINE f == [e \in Entries(part) |-> ScopeOf(e)]
  <2>2. f \in Surjection(Entries(part), Of(part))
      BY DEF Surjection
  <2>3. IsFiniteSet(Of(part))
      BY <2>1, <2>2, FS_Surjection
  <2>4. \A e \in Entries(part) : ScopeOf(e).text \in Seq(Token)
      BY <2>1, ScopeOfType DEF Entries
  <2> QED BY <2>3, <2>4
<1> HIDE DEF Of
<1>4. IsFiniteSet(All)
  <2>1. F \in Surjection(Parts, All)
      BY DEF Surjection
  <2> QED BY <1>1, <2>1, FS_Surjection
<1>5. \A T \in All : IsFiniteSet(T)
    BY <1>3
<1>6. IsFiniteSet(UNION All)
  <2> HIDE DEF All
  <2> QED BY <1>4, <1>5, FS_UNION
<1> QED BY <1>2, <1>3, <1>6

\* name=text, for an alias
LEMMA PairType ==
    ASSUME NEW name \in Seq(Token), NEW text \in Seq(Token)
    PROVE  name \o <<Mark("=")>> \o Escape(text) \in Seq(Token)
<1> DEFINE e == Escape(text)
           x == Mark("=")
<1>1. e \in Seq(Token) /\ x \in Token
    BY EscapeType, TokensAre DEF Word
<1> HIDE DEF e, x
<1>2. name \o <<x>> \o e \in Seq(Token)
    BY <1>1
<1> QED BY <1>2 DEF e, x

LEMMA AliasesWritten ==
    ASSUME NEW S, \A a \in S : a.name \in Seq(Token) /\ a.text \in Seq(Token), NEW list \in Seq(S)
    PROVE  SerializeAliases(list) \in Seq(Token)
<1> DEFINE C == Seq(Token)
           Part(i) == list[i].name \o <<Mark("=")>> \o Escape(list[i].text)
           parts == [i \in DOMAIN list |-> Part(i)]
<1>1. DOMAIN list = 1..Len(list) /\ Len(list) \in Nat
    OBVIOUS
<1>2. \A i \in DOMAIN list : Part(i) \in C
  <2> TAKE i \in DOMAIN list
  <2>1. list[i] \in S
      OBVIOUS
  <2> QED BY <2>1, PairType
<1>3. SerializeAliases(list) = JoinedBy(parts, ";")
    BY DEF SerializeAliases
<1> HIDE DEF Part, C
<1>4. parts \in Seq(C)
    BY <1>1, <1>2
<1> HIDE DEF parts
<1>5. JoinedBy(parts, ";") \in Seq(Token)
    BY <1>4, JoinedType DEF C, Word
<1> QED BY <1>3, <1>5

LEMMA ScopesWritten ==
    ASSUME NEW S, \A s \in S : s.name \in Seq(Token) /\ s.text \in Seq(Token) /\ s.target \in Word,
           NEW list \in Seq(S), NEW ignored \in SUBSET Seq(Token), IsFiniteSet(ignored)
    PROVE  SerializeScopes(list, ignored) \in Seq(Token)
<1> DEFINE C == Seq(Token)
           Part(i) == list[i].name \o <<Mark("=")>> \o Escape(list[i].text) \o <<Mark(":"), Name(list[i].target)>>
           parts == [i \in DOMAIN list |-> Part(i)]
           scopes == <<Name("scopes"), Mark(":")>> \o JoinedBy(parts, ";")
           names == FlattenSeq(SetToSeq(ignored))
           ignore == <<Name("ignore"), Mark(":")>> \o names
<1>1. DOMAIN list = 1..Len(list) /\ Len(list) \in Nat
    OBVIOUS
<1>2. \A i \in DOMAIN list : Part(i) \in C
  <2> TAKE i \in DOMAIN list
  <2>1. list[i] \in S
      OBVIOUS
  <2> DEFINE p == list[i].name \o <<Mark("=")>> \o Escape(list[i].text)
             x == Mark(":")
             y == Name(list[i].target)
  <2>2. p \in Seq(Token) /\ x \in Token /\ y \in Token
      BY <2>1, PairType, TokensAre DEF Word
  <2>3. Part(i) = p \o <<x, y>>
      OBVIOUS
  <2> HIDE DEF p, x, y
  <2>4. p \o <<x, y>> \in Seq(Token)
      BY <2>2
  <2> HIDE DEF Part
  <2> QED BY <2>3, <2>4
<1>3. SerializeScopes(list, ignored) = IF ignored = {} THEN scopes ELSE JoinedBy(<<scopes, ignore>>, "|")
    BY DEF SerializeScopes
<1>4. parts \in Seq(C)
  <2> HIDE DEF Part, C
  <2> QED BY <1>1, <1>2
<1>5. JoinedBy(parts, ";") \in C
  <2> HIDE DEF parts
  <2> QED BY <1>4, JoinedType DEF Word
<1>6. names \in C
  <2>1. SetToSeq(ignored) \in Seq(ignored)
      BY AnyOrderType
  <2>2. SetToSeq(ignored) \in Seq(C)
    <3> HIDE DEF C
    <3>1. ignored \subseteq C
        BY DEF C
    <3> QED BY <2>1, <3>1
  <2> QED BY <2>2, FlattenType
<1>7. \A s \in C, n \in {Name("scopes"), Name("ignore")} : <<n, Mark(":")>> \o s \in C
  <2> TAKE s \in C, n \in {Name("scopes"), Name("ignore")}
  <2> DEFINE x == Mark(":")
  <2>1. n \in Token /\ x \in Token
      BY TokensAre DEF Word
  <2> HIDE DEF x
  <2>2. <<n, x>> \o s \in Seq(Token)
      BY <2>1
  <2> QED BY <2>2 DEF x
<1>8. scopes \in C /\ ignore \in C
  <2> HIDE DEF C, parts, names
  <2> QED BY <1>5, <1>6, <1>7
<1> HIDE DEF scopes, ignore
<1>9. <<scopes, ignore>> \in Seq(C)
  <2> HIDE DEF C
  <2> QED BY <1>8
<1>10. JoinedBy(<<scopes, ignore>>, "|") \in Seq(Token)
    BY <1>9, JoinedType DEF Word
<1> QED BY <1>3, <1>8, <1>10

\* The items that are kept are items.
LEMMA KeptType ==
    ASSUME NEW V, NEW list \in Seq(V), NEW W, NEW places,
           \A i \in DOMAIN list : i \in places => list[i] \in W
    PROVE  Kept(list, places) \in Seq(W)
<1> DEFINE Part(i) == IF i \in places THEN <<list[i]>> ELSE <<>>
           C == Seq(W)
<1>1. ASSUME NEW i \in DOMAIN list PROVE Part(i) \in C
  <2>1. CASE i \in places
    <3> DEFINE x == list[i]
    <3>1. x \in W
        BY <2>1
    <3> HIDE DEF x
    <3>2. <<x>> \in Seq(W)
        BY <3>1
    <3> QED BY <2>1, <3>2 DEF x
  <2>2. CASE i \notin places
      BY <2>2
  <2> QED BY <2>1, <2>2
<1>2. Kept(list, places) = FlattenSeq([i \in DOMAIN list |-> Part(i)])
    BY DEF Kept
<1> HIDE DEF Part, C
<1>3. [i \in DOMAIN list |-> Part(i)] \in Seq(C)
    BY <1>1
<1> QED BY <1>2, <1>3, FlattenType DEF C

\* The parameters that are bound
LEMMA ArgsType ==
    ASSUME decl \in Methods
    PROVE  /\ Params \in Seq(Parameter)
           /\ Args \in Seq(ToSet(Params))
           /\ Len(Args) \in Nat
<1>1. Params \in Seq(Parameter)
  <2>1. decl.params \in Seq(Parameter) /\ decl.variant \in Word
      BY MethodsAssumption
  <2> DEFINE p == [name |-> decl.variant, role |-> "pool", type |-> "one"]
  <2>2. p \in Parameter
      BY <2>1 DEF Parameter
  <2> HIDE DEF p
  <2>3. <<p>> \o decl.params \in Seq(Parameter)
      BY <2>1, <2>2
  <2> QED BY <2>1, <2>3 DEF Params, p
<1>2. Args \in Seq(ToSet(Params))
  <2>1. \A i \in DOMAIN Params : Params[i] \in ToSet(Params)
      BY DEF ToSet
  <2> QED BY <1>1, <2>1, KeptType DEF Args
<1> QED BY <1>1, <1>2

\* A parameter that is bound has its place among them, counted from 1.
LEMMA IndexType ==
    ASSUME decl \in Methods, NEW name
    PROVE  Index(name) \in Nat
<1> DEFINE I == {i \in 1..Len(Args) : Args[i].name = name}
<1>1. Index(name) = IF I # {} THEN Min(I) ELSE 0
    BY DEF Index, SelectInSeq
<1>2. Len(Args) \in Nat
    BY ArgsType
<1> DEFINE n == Len(Args)
<1>3. n \in Nat /\ I \in SUBSET (1..n)
    BY <1>2
<1> HIDE DEF I, n
<1>4. I # {} => Min(I) \in I
    BY <1>3, FirstPlace
<1>5. I # {} => Min(I) \in Nat
  <2>1. \A i \in I : i \in Nat
      BY <1>3
  <2> QED BY <1>4, <2>1
<1> QED BY <1>1, <1>5

\* The clauses of a statement are texts.
LEMMA TextsType ==
    ASSUME NEW S, \A s \in S : s.text \in Seq(Token) /\ s.text # <<>>,
           NEW list \in Seq(S), NEW target
    PROVE  /\ Texts(list, target) \in Seq(Seq(Token))
           /\ \A i \in DOMAIN Texts(list, target) : Texts(list, target)[i] # <<>>
<1> DEFINE of == Kept(list, {i \in DOMAIN list : list[i].target = <<Name(target)>>})
           C == Seq(Token)
<1>1. of \in Seq(S)
    BY KeptType
<1>2. Texts(list, target) = [i \in DOMAIN of |-> of[i].text]
    BY DEF Texts
<1> HIDE DEF of
<1>3. \A i \in DOMAIN of : of[i].text \in C /\ of[i].text # <<>>
    BY <1>1
<1> HIDE DEF C
<1>4. [i \in DOMAIN of |-> of[i].text] \in Seq(C)
    BY <1>1, <1>3
<1> QED BY <1>2, <1>3, <1>4 DEF C

LEMMA CombinedType ==
    ASSUME NEW existing \in Seq(Token), NEW conds \in Seq(Seq(Token))
    PROVE  Combined(existing, conds) \in Seq(Token)
<1> DEFINE C == Seq(Token)
           all == <<existing>> \o conds
           some == Kept(all, {i \in DOMAIN all : all[i] # <<>>})
           Part(i) == IF i = 1 THEN some[i] ELSE <<And>> \o some[i]
<1>1. \A s \in C : <<And>> \o s \in C
  <2>1. And \in Token
      BY TokensAre
  <2> QED BY <2>1
<1>2. existing \in C /\ conds \in Seq(C)
    OBVIOUS
<1>3. Combined(existing, conds) = FlattenSeq([i \in DOMAIN some |-> Part(i)])
    BY DEF Combined
<1> HIDE DEF C
<1>4. all \in Seq(C)
    BY <1>2
<1> HIDE DEF all
<1>5. some \in Seq(C)
  <2>1. \A i \in DOMAIN all : all[i] \in C
      BY <1>4
  <2> QED BY <1>4, <2>1, KeptType
<1> HIDE DEF some
<1>6. ASSUME NEW i \in DOMAIN some PROVE Part(i) \in C
    BY <1>1, <1>5
<1> HIDE DEF Part
<1> DEFINE p == [i \in DOMAIN some |-> Part(i)]
<1>7. p \in Seq(C)
  <2>1. DOMAIN some = 1..Len(some) /\ Len(some) \in Nat
      BY <1>5
  <2>2. \A i \in 1..Len(some) : Part(i) \in C
      BY <1>6, <2>1
  <2> QED BY <2>1, <2>2
<1> HIDE DEF p
<1>8. FlattenSeq(p) \in Seq(Token)
    BY <1>7, FlattenType DEF C
<1> QED BY <1>3, <1>8 DEF p

LEMMA ClauseNames == ToSet(Clause) = {"select", "from", "where", "group_by", "having", "order_by"}
<1>1. DOMAIN Clause = 1..6
    BY DEF Clause
<1>2. 1..6 = {1, 2, 3, 4, 5, 6}
    OBVIOUS
<1>3. ToSet(Clause) = {Clause[1], Clause[2], Clause[3], Clause[4], Clause[5], Clause[6]}
    BY <1>1, <1>2 DEF ToSet
<1> QED BY <1>3 DEF Clause

LEMMA ScopedType ==
    ASSUME NEW S, \A s \in S : s.text \in Seq(Token) /\ s.text # <<>>,
           NEW list \in Seq(S), NEW cl \in [ToSet(Clause) -> Seq(Token)]
    PROVE  Scoped(cl, list) \in [ToSet(Clause) -> Seq(Token)]
<1> DEFINE C == Seq(Token)
           flat(target) == FlattenSeq(Texts(list, target))
           from == cl.from \o flat("from")
           joins == flat("join")
           items == Texts(list, "select")
           firsts == FlattenSeq([i \in DOMAIN items |-> FirstItem(items[i])])
           dummy == IF from = <<>> /\ joins # <<>> THEN <<Item("__dummy__")>> \o joins ELSE from \o joins
           where == Combined(cl.where, Texts(list, "where"))
           having == Combined(cl.having, Texts(list, "having"))
<1>1. cl \in [{"select", "from", "where", "group_by", "having", "order_by"} -> C]
    BY ClauseNames
<1>2. \A s, t \in C : s \o t \in C
    OBVIOUS
<1>3. ASSUME NEW target PROVE flat(target) \in C
    BY TextsType, FlattenType
<1>4. where \in C /\ having \in C
    BY <1>1, TextsType, CombinedType
<1>5. firsts \in C
  <2>1. items \in Seq(C) /\ \A i \in DOMAIN items : items[i] # <<>>
      BY TextsType
  <2> HIDE DEF items
  <2>2. ASSUME NEW i \in DOMAIN items PROVE FirstItem(items[i]) \in C
    <3>1. items[i] \in C /\ items[i] # <<>>
        BY <2>1
    <3> DEFINE x == items[i][1]
    <3>2. x \in Token
        BY <3>1
    <3> HIDE DEF x
    <3>3. <<x>> \in C
        BY <3>2
    <3> QED BY <3>3 DEF FirstItem, x
  <2> HIDE DEF C
  <2>3. [i \in DOMAIN items |-> FirstItem(items[i])] \in Seq(C)
      BY <2>1, <2>2
  <2> QED BY <2>3, FlattenType DEF C
<1>6. <<Item("__dummy__")>> \in C
  <2> DEFINE x == Item("__dummy__")
  <2>1. x \in Token
      BY TokensAre DEF Word
  <2> HIDE DEF x
  <2>2. <<x>> \in C
      BY <2>1
  <2> QED BY <2>2 DEF x
<1>7. Scoped(cl, list) =
        [cl EXCEPT !.where = where, !.having = having, !.select = @ \o firsts, !.from = dummy,
                   !.group_by = @ \o flat("group_by"), !.order_by = @ \o flat("order_by")]
    BY DEF Scoped
<1> HIDE DEF C, flat, firsts, where, having
<1>8. from \in C
    BY <1>1, <1>2, <1>3
<1>9. dummy \in C
    BY <1>2, <1>3, <1>6, <1>8
<1> HIDE DEF from, dummy
<1>10. cl.select \o firsts \in C /\ cl.group_by \o flat("group_by") \in C /\ cl.order_by \o flat("order_by") \in C
    BY <1>1, <1>2, <1>3, <1>5
<1>11. Scoped(cl, list) \in [{"select", "from", "where", "group_by", "having", "order_by"} -> C]
    BY <1>1, <1>4, <1>7, <1>9, <1>10
<1> QED BY <1>11, ClauseNames DEF C

LEMMA PositionalType ==
    ASSUME decl \in Methods, NEW tok \in Token, tok.by = "@" => Index(tok.v) # 0
    PROVE  Positional(tok) \in Token
<1>1. Index(tok.v) \in Nat
    BY IndexType
<1> DEFINE n == Index(tok.v)
<1>2. Positional(tok) = IF tok.by # "@" THEN tok
                        ELSE IF Numbered THEN [tok EXCEPT !.by = "$", !.k = n] ELSE [tok EXCEPT !.by = "?"]
    BY DEF Positional
<1>3. n \in Nat /\ (tok.by = "@" => n > 0)
    BY <1>1
<1> HIDE DEF n
<1>4. tok.by = "@" => [tok EXCEPT !.by = "$", !.k = n] \in Token
    BY <1>3 DEF Token
<1>5. tok.by = "@" => [tok EXCEPT !.by = "?"] \in Token
    BY DEF Token
<1> QED BY <1>2, <1>4, <1>5

-----------------------------------------------------------------------------
(* The texts on their way through the attributes.                          *)

\* An identifier is a text of one token.
LEMMA NameType ==
    ASSUME NEW x, IsName(x)
    PROVE  x \in Seq(Token) /\ Len(x) = 1 /\ x[1] = Name(x[1].v) /\ x[1].v \in Word
<1> DEFINE v == x[1].v
           t == Name(v)
<1>1. v \in Word /\ x = <<t>>
    BY DEF IsName
<1>2. t \in Token
    BY <1>1, TokensAre
<1> HIDE DEF t
<1>3. <<t>> \in Seq(Token) /\ Len(<<t>>) = 1 /\ <<t>>[1] = t
    BY <1>2
<1> QED BY <1>1, <1>3 DEF t

LEMMA DeclaredType ==
    ASSUME decl \in Methods
    PROVE  /\ \A a \in decl.aliases : a.name \in Seq(Token) /\ a.text \in Seq(Token)
           /\ \A s \in decl.scopes : s.name \in Seq(Token) /\ s.text \in Seq(Token) /\ s.target \in Word
           /\ IsFiniteSet(decl.aliases) /\ IsFiniteSet(decl.scopes) /\ IsFiniteSet(decl.ignored)
           /\ decl.ignored \subseteq Seq(Token)
<1>1. /\ \A a \in decl.aliases : IsName(a.name) /\ a.text \in Seq(Token)
      /\ \A s \in decl.scopes : IsName(s.name) /\ s.text \in Seq(Token) /\ s.target \in Target
      /\ IsFiniteSet(decl.aliases) /\ IsFiniteSet(decl.scopes) /\ IsFiniteSet(decl.ignored)
      /\ \A x \in decl.ignored : IsName(x)
    BY MethodsAssumption
<1>2. Target \subseteq Word
    BY DEF Word
<1> QED BY <1>1, <1>2, NameType

Stages == {"repo", "extract", "aliases", "scopes", "named", "detect", "built",
           "ready", "page", "done", "error"}

TextInv ==
    /\ decl \in Methods
    /\ pc \in Stages
    /\ kind \in {"", "Unknown", "DDL"} \cup Crud
    /\ sql \in [ToSet(Clause) -> Seq(Token)]
    /\ hidden.aliases \in Seq(Token) /\ hidden.scopes \in Seq(Token)
    /\ \A a \in managers.aliases : a.text \in Seq(Token)
    /\ IsFiniteSet(managers.scopes) /\ \A s \in managers.scopes : s.text \in Seq(Token)
    /\ pc \notin {"repo", "extract", "error"} => \A i, j \in Pools : i = j

LEMMA TextInit == MInit => TextInv
<1> SUFFICES ASSUME MInit PROVE TextInv
    OBVIOUS
<1>1. decl \in Methods /\ pc = "repo" /\ kind = "" /\ sql = decl.clauses
    BY DEF MInit, TInit
<1>2. sql \in [ToSet(Clause) -> Seq(Token)]
    BY <1>1, MethodsAssumption
<1>3. hidden.aliases = <<>> /\ hidden.scopes = <<>> /\ managers.aliases = {} /\ managers.scopes = {}
    BY DEF MInit, TInit
<1>4. IsFiniteSet({}) /\ <<>> \in Seq(Token)
    BY FS_EmptySet
<1> QED BY <1>1, <1>2, <1>3, <1>4 DEF TextInv, Stages

LEMMA InjectSteps ==
    ASSUME TextInv, Inject
    PROVE  TextInv'
<1> DEFINE scopes == Resolved(decl.scopes, decl.aliases)
<1>1. /\ \A a \in decl.aliases : a.name \in Seq(Token) /\ a.text \in Seq(Token)
      /\ \A s \in decl.scopes : s.name \in Seq(Token) /\ s.text \in Seq(Token) /\ s.target \in Word
      /\ IsFiniteSet(decl.aliases) /\ IsFiniteSet(decl.scopes) /\ IsFiniteSet(decl.ignored)
      /\ decl.ignored \subseteq Seq(Token)
    BY DeclaredType DEF TextInv
<1>2. \A s \in scopes : s.name \in Seq(Token) /\ s.text \in Seq(Token) /\ s.target \in Word
  <2> TAKE s \in scopes
  <2>1. PICK o \in decl.scopes : s = [o EXCEPT !.text = Substitute(@, decl.aliases)]
      BY DEF Resolved
  <2>2. Substitute(o.text, decl.aliases) \in Seq(Token)
      BY <1>1, SubstituteType
  <2>3. s.name = o.name /\ s.target = o.target
      BY <2>1
  <2>4. s.text = Substitute(o.text, decl.aliases) \/ s.text = o.text
      BY <2>1
  <2> QED BY <1>1, <2>2, <2>3, <2>4
<1>3. IsFiniteSet(scopes)
  <2> DEFINE f == [s \in decl.scopes |-> [s EXCEPT !.text = Substitute(@, decl.aliases)]]
  <2>1. f \in Surjection(decl.scopes, scopes)
      BY DEF Surjection, Resolved
  <2> QED BY <1>1, <2>1, FS_Surjection
<1> HIDE DEF scopes
<1>4. /\ pc' \in {"error", "extract"}
      /\ UNCHANGED <<decl, managers, sql, kind>>
    BY DEF Inject
<1>5. \/ UNCHANGED hidden
      \/ \E as \in SetToSeqs(decl.aliases), ss \in SetToSeqs(scopes) :
            hidden' = [aliases |-> SerializeAliases(as),
                       scopes  |-> IF Active(scopes, decl.ignored) = {} THEN <<>>
                                   ELSE SerializeScopes(ss, decl.ignored)]
    BY DEF Inject, scopes
<1>6. hidden'.aliases \in Seq(Token) /\ hidden'.scopes \in Seq(Token)
  <2>1. CASE UNCHANGED hidden
      BY <2>1 DEF TextInv
  <2>2. ASSUME NEW as \in SetToSeqs(decl.aliases), NEW ss \in SetToSeqs(scopes),
               hidden' = [aliases |-> SerializeAliases(as),
                          scopes  |-> IF Active(scopes, decl.ignored) = {} THEN <<>>
                                      ELSE SerializeScopes(ss, decl.ignored)]
        PROVE  hidden'.aliases \in Seq(Token) /\ hidden'.scopes \in Seq(Token)
    <3>1. as \in Seq(decl.aliases) /\ ss \in Seq(scopes)
        BY <1>1, <1>3, OrderType
    <3>2. SerializeAliases(as) \in Seq(Token)
        BY <1>1, <3>1, AliasesWritten
    <3>3. SerializeScopes(ss, decl.ignored) \in Seq(Token)
      <4> DEFINE ignored == decl.ignored
      <4>1. ignored \in SUBSET Seq(Token) /\ IsFiniteSet(ignored)
          BY <1>1
      <4> HIDE DEF ignored
      <4>2. SerializeScopes(ss, ignored) \in Seq(Token)
          BY <1>2, <3>1, <4>1, ScopesWritten
      <4> QED BY <4>2 DEF ignored
    <3>4. hidden'.aliases = SerializeAliases(as)
        BY <2>2
    <3>5. hidden'.scopes = IF Active(scopes, decl.ignored) = {} THEN <<>>
                           ELSE SerializeScopes(ss, decl.ignored)
        BY <2>2
    <3>6. <<>> \in Seq(Token)
        OBVIOUS
    <3> QED BY <3>2, <3>3, <3>4, <3>5, <3>6
  <2> QED BY <1>5, <2>1, <2>2
<1> QED BY <1>4, <1>6 DEF TextInv, Stages

LEMMA ExtractSteps ==
    ASSUME TextInv, Extract
    PROVE  TextInv'
<1>1. UNCHANGED <<decl, hidden, sql, kind>>
    BY DEF Extract
<1>2. Pools' = Pools
    BY <1>1 DEF Pools, Params
<1>3. CASE pc' = "error" /\ UNCHANGED managers
    BY <1>1, <1>3 DEF TextInv, Stages
<1>4. ASSUME ~AliasesWrong(hidden.aliases), ~\E i, j \in Pools : i # j, pc' = "aliases",
             NEW as \in OneOfEach({AliasOf(p) : p \in Pairs(hidden.aliases)}),
             NEW ss \in OneOfEach(ScopesIn(hidden.scopes)),
             managers' = [aliases |-> as, scopes |-> ss, ignored |-> IgnoredIn(hidden.scopes)]
      PROVE  TextInv'
  <2>1. hidden.aliases \in Seq(Token) /\ hidden.scopes \in Seq(Token)
      BY DEF TextInv
  <2>2. \A a \in managers'.aliases : a.text \in Seq(Token)
    <3>1. as \subseteq {AliasOf(p) : p \in Pairs(hidden.aliases)}
        BY DEF OneOfEach
    <3>2. \A p \in Pairs(hidden.aliases) : AliasOf(p).text \in Seq(Token)
        BY <1>4, <2>1, AliasesRead
    <3> QED BY <1>4, <3>1, <3>2
  <2>3. IsFiniteSet(managers'.scopes) /\ \A s \in managers'.scopes : s.text \in Seq(Token)
    <3>1. ss \subseteq ScopesIn(hidden.scopes)
        BY DEF OneOfEach
    <3>2. IsFiniteSet(ScopesIn(hidden.scopes)) /\ \A s \in ScopesIn(hidden.scopes) : s.text \in Seq(Token)
        BY <2>1, ScopesRead
    <3>3. IsFiniteSet(ss)
        BY <3>1, <3>2, FS_Subset
    <3> QED BY <1>4, <3>1, <3>2, <3>3
  <2>4. \A i, j \in Pools : i = j
      BY <1>4
  <2> QED BY <1>1, <1>2, <1>4, <2>2, <2>3, <2>4 DEF TextInv, Stages
<1> QED BY <1>3, <1>4 DEF Extract

LEMMA ApplyAliasesSteps ==
    ASSUME TextInv, ApplyAliases
    PROVE  TextInv'
<1>1. /\ UNCHANGED <<decl, hidden, managers, kind>> /\ pc = "aliases" /\ pc' \in {"error", "scopes"}
      /\ sql' = IF managers.aliases = {} THEN decl.clauses
                ELSE [c \in DOMAIN decl.clauses |-> Substitute(decl.clauses[c], managers.aliases)]
    BY DEF ApplyAliases
<1>2. Pools' = Pools
    BY <1>1 DEF Pools, Params
<1>3. sql' \in [ToSet(Clause) -> Seq(Token)]
  <2> DEFINE C == Seq(Token)
  <2>1. decl.clauses \in [ToSet(Clause) -> C]
      BY MethodsAssumption DEF TextInv
  <2>2. \A c \in DOMAIN decl.clauses : Substitute(decl.clauses[c], managers.aliases) \in C
    <3>1. \A a \in managers.aliases : a.text \in Seq(Token)
        BY DEF TextInv
    <3> QED BY <2>1, <3>1, SubstituteType
  <2> HIDE DEF C
  <2>3. sql' \in [ToSet(Clause) -> C]
      BY <1>1, <2>1, <2>2
  <2> QED BY <2>3 DEF C
<1> QED BY <1>1, <1>2, <1>3 DEF TextInv, Stages

LEMMA ApplyScopesSteps ==
    ASSUME TextInv, ApplyScopes
    PROVE  TextInv'
<1> DEFINE active == Active(managers.scopes, managers.ignored)
<1>1. UNCHANGED <<decl, hidden, managers, kind>> /\ pc = "scopes" /\ pc' \in {"error", "named"}
    BY DEF ApplyScopes
<1>2. Pools' = Pools
    BY <1>1 DEF Pools, Params
<1>3. CASE UNCHANGED sql
    BY <1>1, <1>2, <1>3 DEF TextInv, Stages
<1>4. CASE /\ \A s \in active : s.text # <<>>
           /\ \E list \in SetToSeqs(active) : sql' = Scoped(sql, list)
  <2>1. active \subseteq managers.scopes
      BY DEF Active
  <2>2. IsFiniteSet(active) /\ \A s \in active : s.text \in Seq(Token) /\ s.text # <<>>
    <3> HIDE DEF active
    <3> QED BY <1>4, <2>1, FS_Subset DEF TextInv
  <2> HIDE DEF active
  <2>3. PICK list \in SetToSeqs(active) : sql' = Scoped(sql, list)
      BY <1>4
  <2>4. list \in Seq(active)
      BY <2>2, OrderType
  <2>5. sql \in [ToSet(Clause) -> Seq(Token)]
      BY DEF TextInv
  <2>6. sql' \in [ToSet(Clause) -> Seq(Token)]
      BY <2>2, <2>3, <2>4, <2>5, ScopedType
  <2> QED BY <1>1, <1>2, <2>6 DEF TextInv, Stages
<1> QED BY <1>3, <1>4 DEF ApplyScopes

LEMMA ConvertSteps ==
    ASSUME TextInv, Convert
    PROVE  TextInv'
<1>1. UNCHANGED <<decl, hidden, managers, kind>> /\ pc = "named" /\ pc' \in {"error", "detect"}
    BY DEF Convert
<1>2. Pools' = Pools
    BY <1>1 DEF Pools, Params
<1>3. CASE UNCHANGED sql
    BY <1>1, <1>2, <1>3 DEF TextInv, Stages
<1>4. CASE /\ ~\E name \in Named : Index(name) = 0
           /\ sql' = [c \in DOMAIN sql |-> [i \in DOMAIN sql[c] |-> Positional(sql[c][i])]]
  <2> DEFINE C == Seq(Token)
             Out(c) == [i \in DOMAIN sql[c] |-> Positional(sql[c][i])]
  <2>1. decl \in Methods /\ sql \in [ToSet(Clause) -> C]
      BY DEF TextInv
  <2>2. ASSUME NEW c \in DOMAIN sql PROVE Out(c) \in C
    <3>1. sql[c] \in Seq(Token)
        BY <2>1
    <3>2. ASSUME NEW i \in DOMAIN sql[c] PROVE Positional(sql[c][i]) \in Token
      <4>1. sql[c][i] \in Token
          BY <3>1
      <4>2. sql[c][i].by = "@" => sql[c][i].v \in Named
        <5>1. sql[c][i] \in UNION {ToSet(sql[d]) : d \in DOMAIN sql}
            BY DEF ToSet
        <5> QED BY <5>1 DEF Named
      <4>3. sql[c][i].by = "@" => Index(sql[c][i].v) # 0
          BY <1>4, <4>2
      <4> QED BY <2>1, <4>1, <4>3, PositionalType
    <3>3. DOMAIN sql[c] = 1..Len(sql[c]) /\ Len(sql[c]) \in Nat
        BY <3>1
    <3> QED BY <3>2, <3>3
  <2>3. sql' = [c \in DOMAIN sql |-> Out(c)]
      BY <1>4
  <2> HIDE DEF C, Out
  <2>4. sql' \in [ToSet(Clause) -> C]
      BY <2>1, <2>2, <2>3
  <2>5. sql' \in [ToSet(Clause) -> Seq(Token)]
      BY <2>4 DEF C
  <2> QED BY <1>1, <1>2, <2>5 DEF TextInv, Stages
<1> QED BY <1>3, <1>4 DEF Convert

LEMMA DetectSteps ==
    ASSUME TextInv, Detect
    PROVE  TextInv'
<1>1. UNCHANGED <<decl, hidden, managers, sql>> /\ pc = "detect" /\ pc' \in {"error", "built"}
    BY DEF Detect
<1>2. Pools' = Pools
    BY <1>1 DEF Pools, Params
<1>3. kind' \in {"", "Unknown", "DDL"} \cup Crud
  <2>1. decl.kind \in {"Unknown", "DDL", "Several"} \cup Crud
      BY MethodsAssumption DEF TextInv
  <2>2. Detected \in {"Unknown", "DDL", "Several"} \cup Crud
      BY <2>1 DEF Detected
  <2>3. kind' = IF Detected = "Several" THEN "" ELSE Detected
      BY DEF Detect
  <2> QED BY <2>2, <2>3
<1> QED BY <1>1, <1>2, <1>3 DEF TextInv, Stages

LEMMA TextSteps ==
    ASSUME TextInv, [MNext]_mvars
    PROVE  TextInv'
<1>1. CASE Text
    BY <1>1, InjectSteps, ExtractSteps, ApplyAliasesSteps, ApplyScopesSteps, ConvertSteps, DetectSteps
       DEF Text, TNext
<1>2. CASE /\ UNCHANGED <<decl, hidden, managers, sql, kind>>
           /\ pc \notin {"repo", "extract", "error"} /\ pc' \in Stages
  <2>1. Pools' = Pools
      BY <1>2 DEF Pools, Params
  <2> QED BY <1>2, <2>1 DEF TextInv
<1>3. CASE UNCHANGED mvars
  <2>1. UNCHANGED tvars
      BY <1>3 DEF mvars
  <2>2. Pools' = Pools /\ UNCHANGED <<decl, pc, hidden, managers, sql, kind>>
      BY <2>1 DEF Pools, Params, tvars
  <2> QED BY <2>2 DEF TextInv
<1>4. CASE Generate \/ Send \/ Respond \/ Insert
  <2>1. pc \in {"built", "ready", "page"} /\ pc' \in {"ready", "page", "done", "error"}
      BY <1>4 DEF Generate, Send, Respond, Insert
  <2>2. UNCHANGED <<decl, hidden, managers, sql, kind>>
      BY <1>4 DEF Generate, Send, Respond, Insert
  <2> QED BY <1>2, <2>1, <2>2 DEF Stages
<1> QED BY <1>1, <1>3, <1>4 DEF MNext

-----------------------------------------------------------------------------
(* A call.                                                                 *)

\* What an INSERT of many rows has done
Inserted ==
    /\ input \in Inputs
    /\ \/ EmptyReturns(input) /\ sent = <<>> /\ result = <<Ok(<<>>)>>
       \/ /\ ~EmptyReturns(input) /\ sent = <<Statement("insert", sql, input)>>
          /\ result = <<IF input = <<>> THEN Err ELSE Outcome(answer)>>

DataSent == <<Statement("data", sql, <<>>)>>
CountSent == <<Statement("data", sql, <<>>), Statement("count", CountClauses, <<>>)>>

CallInv ==
    /\ gen \in {"", "multi", "stream", "page", "QueryAs", "QueryScalar", "Query"}
    /\ pc \in {"ready", "page", "done"} => gen = Generator /\ (gen = "multi" => TupleParams # <<>>)
    /\ pc # "done" => result = <<>>
    /\ pc \notin {"page", "done"} => sent = <<>>
    /\ pc = "page" => gen # "multi" /\ answer \in Answers /\ sent = DataSent
    /\ pc = "done" /\ gen # "multi" =>
          answer \in Answers /\ result = <<Outcome(answer)>> /\ sent \in {DataSent, CountSent}
    /\ pc = "done" /\ gen = "multi" => Inserted

LEMMA GeneratorType == Generator \in {"multi", "stream", "page", "QueryAs", "QueryScalar", "Query"}
BY DEF Generator, Strategy

\* What follows from the declaration stays as it is.
LEMMA DeclaredStays ==
    ASSUME UNCHANGED decl
    PROVE  /\ Params' = Params /\ Args' = Args /\ Pools' = Pools /\ TupleParams' = TupleParams
           /\ Ret' = Ret /\ IsStream' = IsStream /\ Outer' = Outer /\ Fetch' = Fetch
           /\ Strategy' = Strategy /\ IsPage' = IsPage /\ PoolExpr' = PoolExpr
<1>1. Ret' = Ret /\ IsStream' = IsStream
    BY DEF Ret, IsStream
<1>2. Params' = Params
    BY DEF Params
<1>3. Args' = Args /\ Pools' = Pools
    BY <1>2 DEF Args, Pools
<1>4. TupleParams' = TupleParams
    BY <1>3 DEF TupleParams
<1>5. Outer' = Outer
  <2> DEFINE I == {i \in 1..Len(Ret.wraps) : Ret.wraps[i] # "Result"}
             place == IF I # {} THEN Min(I) ELSE 0
  <2>1. Outer = IF place = 0 THEN "" ELSE Ret.wraps[place]
      BY DEF Outer, SelectInSeq
  <2>2. Outer' = IF place' = 0 THEN "" ELSE Ret.wraps'[place']
      BY DEF Outer, SelectInSeq
  <2>3. Ret.wraps' = Ret.wraps
      BY <1>1
  <2>4. place' = place
      BY <1>1 DEF Min
  <2> HIDE DEF place
  <2> QED BY <2>1, <2>2, <2>3, <2>4
<1>6. Fetch' = Fetch
    BY <1>1, <1>5 DEF Fetch
<1>7. Strategy' = Strategy /\ IsPage' = IsPage
    BY <1>1 DEF Strategy, IsPage, Wrapped
<1>8. PoolExpr' = PoolExpr
    BY <1>2, <1>3 DEF PoolExpr
<1> QED BY <1>1, <1>2, <1>3, <1>4, <1>5, <1>6, <1>7, <1>8

LEMMA GeneratorStays ==
    ASSUME UNCHANGED <<decl, kind>>
    PROVE  Generator' = Generator
<1>1. IsMulti' = IsMulti
    BY DeclaredStays DEF IsMulti
<1> QED BY <1>1, DeclaredStays DEF Generator

LEMMA OutcomeStays ==
    ASSUME UNCHANGED <<decl, gen>>
    PROVE  /\ Outcome(answer)' = Outcome(answer')
           /\ UNCHANGED answer => Outcome(answer)' = Outcome(answer)
<1>1. Ret' = Ret /\ Fetch' = Fetch
    BY DeclaredStays
<1>2. ASSUME NEW i PROVE Nullable(i)' = Nullable(i) /\ Casts(i)' = Casts(i)
  <2>1. IsTuple' = IsTuple
      BY <1>1 DEF IsTuple
  <2>2. Explicit(i)' = Explicit(i)
      BY DEF Explicit
  <2>3. \A type : NeedsCasting(type)' = NeedsCasting(type)
      BY DEF NeedsCasting
  <2> QED BY <1>1, <2>1, <2>2, <2>3 DEF Nullable, Casts
<1> QED BY <1>1, <1>2 DEF Outcome, Converted, Flattened

LEMMA CallInit == MInit => CallInv
BY DEF MInit, TInit, CallInv

LEMMA GenerateSteps ==
    ASSUME CallInv, Generate
    PROVE  CallInv'
<1>1. /\ pc = "built" /\ pc' \in {"error", "ready"}
      /\ UNCHANGED <<decl, hidden, managers, sql, kind, input, sent, answer, result>>
    BY DEF Generate
<1>2. Generator' = Generator /\ TupleParams' = TupleParams
    BY <1>1, GeneratorStays, DeclaredStays
<1>3. gen' \in {"", "multi", "stream", "page", "QueryAs", "QueryScalar", "Query"}
    BY GeneratorType DEF Generate, CallInv
<1>4. pc' = "ready" => gen' = Generator /\ (Generator = "multi" => TupleParams # <<>>)
    BY DEF Generate, Refused
<1>5. result' = <<>> /\ sent' = <<>>
    BY <1>1 DEF CallInv
<1> QED BY <1>1, <1>2, <1>3, <1>4, <1>5 DEF CallInv

LEMMA SendSteps ==
    ASSUME CallInv, Send
    PROVE  CallInv'
<1>1. /\ pc = "ready" /\ gen # "multi" /\ pc' \in {"page", "done"}
      /\ UNCHANGED <<decl, hidden, managers, sql, kind, gen, input>>
      /\ sent' = DataSent /\ answer' \in Answers
    BY DEF Send, DataSent
<1>2. Generator' = Generator /\ TupleParams' = TupleParams /\ PoolExpr' = PoolExpr
    BY <1>1, GeneratorStays, DeclaredStays
<1>3. DataSent' = DataSent
    BY <1>1, <1>2 DEF DataSent, Statement
<1>4. Outcome(answer)' = Outcome(answer')
    BY <1>1, OutcomeStays
<1>5. /\ pc' = "page" => UNCHANGED result
      /\ pc' = "done" => result' = <<Outcome(answer')>>
    BY DEF Send
<1> QED BY <1>1, <1>2, <1>3, <1>4, <1>5 DEF CallInv

LEMMA SecondAppended ==
    ASSUME NEW x, NEW y
    PROVE  Append(<<x>>, y) = <<x, y>>
<1> DEFINE V == {x, y}
           s == <<x>>
           t == <<x, y>>
           a == Append(s, y)
<1>1. s \in Seq(V) /\ Len(s) = 1 /\ s[1] = x /\ y \in V
    OBVIOUS
<1>2. t \in Seq(V) /\ Len(t) = 2 /\ t[1] = x /\ t[2] = y
    OBVIOUS
<1> HIDE DEF V, s, t
<1>3. a \in Seq(V) /\ Len(a) = Len(s) + 1 /\ (\A i \in 1..Len(s) : a[i] = s[i]) /\ a[Len(s) + 1] = y
  <2>1. Append(s, y) \in Seq(V)
      BY <1>1
  <2>2. Len(Append(s, y)) = Len(s) + 1
      BY <1>1
  <2>3. \A i \in 1..Len(s) : Append(s, y)[i] = s[i]
      BY <1>1
  <2>4. Append(s, y)[Len(s) + 1] = y
      BY <1>1, AppendProperties
  <2> QED BY <2>1, <2>2, <2>3, <2>4
<1> HIDE DEF a
<1>4. Len(a) = 2 /\ a[1] = t[1] /\ a[2] = t[2]
  <2>1. 1 \in 1..Len(s) /\ Len(s) + 1 = 2
      BY <1>1
  <2> QED BY <1>1, <1>2, <1>3, <2>1
<1>5. \A i \in 1..2 : a[i] = t[i]
  <2>1. 1..2 = {1, 2}
      OBVIOUS
  <2> QED BY <1>4, <2>1
<1>6. a = t
    BY <1>2, <1>3, <1>4, <1>5
<1> QED BY <1>6 DEF a, s, t

LEMMA RespondSteps ==
    ASSUME CallInv, Respond
    PROVE  CallInv'
<1>1. /\ pc = "page" /\ pc' = "done" /\ gen # "multi" /\ answer \in Answers /\ sent = DataSent
      /\ UNCHANGED <<decl, hidden, managers, sql, kind, gen, input, answer>>
      /\ result' = <<Outcome(answer)>>
    BY DEF Respond, CallInv
<1>2. Generator' = Generator /\ TupleParams' = TupleParams /\ PoolExpr' = PoolExpr
    BY <1>1, GeneratorStays, DeclaredStays
<1>3. DataSent' = DataSent /\ CountSent' = CountSent
    BY <1>1, <1>2 DEF DataSent, CountSent, Statement, CountClauses, IsGrouped
<1>4. Outcome(answer)' = Outcome(answer)
    BY <1>1, OutcomeStays
<1>5. sent' \in {DataSent, CountSent}
  <2>1. sent' = sent \/ sent' = Append(sent, Statement("count", CountClauses, <<>>))
      BY DEF Respond
  <2>2. Append(DataSent, Statement("count", CountClauses, <<>>)) = CountSent
    <3>1. \A x, y : Append(<<x>>, y) = <<x, y>>
        BY SecondAppended
    <3> QED BY <3>1 DEF DataSent, CountSent
  <2> QED BY <1>1, <2>1, <2>2
<1> QED BY <1>1, <1>2, <1>3, <1>4, <1>5 DEF CallInv

LEMMA InsertSteps ==
    ASSUME CallInv, Insert
    PROVE  CallInv'
<1>1. /\ pc = "ready" /\ pc' = "done" /\ gen = "multi"
      /\ UNCHANGED <<decl, hidden, managers, sql, kind, gen>>
    BY DEF Insert
<1>2. Generator' = Generator /\ TupleParams' = TupleParams /\ PoolExpr' = PoolExpr /\ Fetch' = Fetch
    BY <1>1, GeneratorStays, DeclaredStays
<1>3. sent = <<>>
    BY <1>1 DEF CallInv
<1>4. PICK tuples \in Inputs :
        /\ input' = tuples
        /\ IF EmptyReturns(tuples)
           THEN result' = <<Ok(<<>>)>> /\ UNCHANGED <<sent, answer>>
           ELSE /\ sent' = <<Statement("insert", sql, tuples)>>
                /\ answer' = IF decl.columns = <<>> THEN <<>> ELSE tuples
                /\ result' = <<IF tuples = <<>> THEN Err ELSE Outcome(answer')>>
    BY DEF Insert
<1>5. EmptyReturns(input)' <=> EmptyReturns(tuples)
    BY <1>2, <1>4 DEF EmptyReturns
<1>6. Statement("insert", sql, input)' = Statement("insert", sql, tuples)
    BY <1>1, <1>2, <1>4 DEF Statement
<1>7. Outcome(answer)' = Outcome(answer')
    BY <1>1, OutcomeStays
<1>8. Inserted'
  <2>1. CASE EmptyReturns(tuples)
      BY <1>3, <1>4, <1>5, <2>1 DEF Inserted, Ok
  <2>2. CASE ~EmptyReturns(tuples)
    <3>1. result' = <<IF tuples = <<>> THEN Err ELSE Outcome(answer)'>>
        BY <1>4, <1>7, <2>2
    <3>2. sent' = <<Statement("insert", sql, input)'>>
        BY <1>4, <1>6, <2>2
    <3> QED BY <1>4, <1>5, <2>2, <3>1, <3>2 DEF Inserted, Err
  <2> QED BY <2>1, <2>2
<1> QED BY <1>1, <1>2, <1>8 DEF CallInv

LEMMA CallSteps ==
    ASSUME CallInv, [MNext]_mvars
    PROVE  CallInv'
<1>1. CASE Text
  <2>1. UNCHANGED <<gen, input, sent, answer, result>>
      BY <1>1 DEF Text
  <2>2. /\ pc \in {"repo", "extract", "aliases", "scopes", "named", "detect"}
        /\ pc' \in {"error", "extract", "aliases", "scopes", "named", "detect", "built"}
      BY <1>1 DEF Text, TNext, Inject, Extract, ApplyAliases, ApplyScopes, Convert, Detect
  <2> QED BY <2>1, <2>2 DEF CallInv
<1>2. CASE UNCHANGED mvars
  <2>1. UNCHANGED <<decl, pc, hidden, managers, sql, kind, gen, input, sent, answer, result>>
      BY <1>2 DEF mvars, tvars
  <2>2. /\ Generator' = Generator /\ TupleParams' = TupleParams /\ PoolExpr' = PoolExpr /\ Fetch' = Fetch
        /\ Outcome(answer)' = Outcome(answer)
      BY <2>1, GeneratorStays, DeclaredStays, OutcomeStays
  <2>3. DataSent' = DataSent /\ CountSent' = CountSent
      BY <2>1, <2>2 DEF DataSent, CountSent, Statement, CountClauses, IsGrouped
  <2>4. (EmptyReturns(input)' <=> EmptyReturns(input))
        /\ Statement("insert", sql, input)' = Statement("insert", sql, input)
      BY <2>1, <2>2 DEF EmptyReturns, Statement
  <2>5. Inserted => Inserted'
      BY <2>1, <2>2, <2>4 DEF Inserted, Ok, Err
  <2> QED BY <2>1, <2>2, <2>3, <2>5 DEF CallInv
<1> QED BY <1>1, <1>2, GenerateSteps, SendSteps, RespondSteps, InsertSteps DEF MNext

LEMMA Invariant == MSpec => [](TextInv /\ CallInv)
<1>1. MInit => TextInv /\ CallInv
    BY TextInit, CallInit
<1>2. (TextInv /\ CallInv) /\ [MNext]_mvars => (TextInv /\ CallInv)'
    BY TextSteps, CallSteps
<1> QED BY <1>1, <1>2, PTL DEF MSpec

-----------------------------------------------------------------------------
(* What the runs check, for all declarations.                              *)

\* Every text a method is made of stays a text of whole tokens with placeholders
\* counted from 1, one of the generators writes it, and a call sends at most two
\* statements and returns once.
THEOREM TypeCorrect == MSpec => []TypeOK
<1>1. ASSUME TextInv, CallInv PROVE TypeOK
  <2>1. pc \in {"repo", "extract", "aliases", "scopes", "named", "detect", "built",
                "ready", "page", "done", "error"}
      BY <1>1 DEF TextInv, Stages
  <2>2. kind \in {"", "Unknown", "DDL"} \cup Crud /\ DOMAIN sql = ToSet(Clause)
      BY <1>1 DEF TextInv
  <2>3. ASSUME NEW c \in DOMAIN sql, NEW i \in DOMAIN sql[c] PROVE sql[c][i].by = "$" => sql[c][i].k > 0
    <3>1. sql[c] \in Seq(Token)
        BY <1>1 DEF TextInv
    <3>2. sql[c][i] \in Token
        BY <3>1
    <3> QED BY <3>2 DEF Token
  <2>4. Len(sent) <= 2
    <3>1. sent = <<>> \/ (\E x : sent = <<x>>) \/ (\E x, y : sent = <<x, y>>)
        BY <1>1, <2>1 DEF CallInv, Inserted, DataSent, CountSent
    <3>2. Len(<<>>) = 0 /\ (\A x : Len(<<x>>) = 1) /\ (\A x, y : Len(<<x, y>>) = 2)
        OBVIOUS
    <3>3. CASE sent = <<>>
        BY <3>2, <3>3
    <3>4. ASSUME NEW x, sent = <<x>> PROVE Len(sent) <= 2
        BY <3>2, <3>4
    <3>5. ASSUME NEW x, NEW y, sent = <<x, y>> PROVE Len(sent) <= 2
        BY <3>2, <3>5
    <3> QED BY <3>1, <3>3, <3>4, <3>5
  <2>5. pc = "done" => Len(result) <= 1
    <3>1. pc = "done" => \E x : result = <<x>>
        BY <1>1 DEF CallInv, Inserted
    <3>2. \A x : Len(<<x>>) = 1
        OBVIOUS
    <3>3. ASSUME NEW x, result = <<x>> PROVE Len(result) <= 1
        BY <3>2, <3>3
    <3> QED BY <3>1, <3>3
  <2>6. gen \in {"", "multi", "stream", "page", "QueryAs", "QueryScalar", "Query"}
      BY <1>1 DEF CallInv
  <2> QED BY <2>1, <2>2, <2>3, <2>4, <2>5, <2>6 DEF TypeOK
<1> QED BY <1>1, Invariant, PTL

\* Whatever the answer of the database, the return type and the database, a
\* call returns the rows its type has room for, value by value, and fails only
\* where one row is due and there is none: the analysis of the type, the choice
\* of the generator, of the way to fetch and of the casts fit together.
THEOREM RowsAreDelivered == MSpec => []Delivered
<1>1. ASSUME TextInv, CallInv PROVE Delivered
  <2>1. CASE result # <<>> /\ gen # "multi"
    <3>1. pc = "done"
        BY <1>1, <2>1 DEF CallInv
    <3>2. gen = Generator /\ answer \in Answers /\ result = <<Outcome(answer)>> /\ decl \in Methods
        BY <1>1, <2>1, <3>1 DEF CallInv, TextInv
    <3> QED BY <2>1, <3>2, OutcomeDelivers
  <2>2. CASE ~(result # <<>> /\ gen # "multi")
      BY <2>2 DEF Delivered
  <2> QED BY <2>1, <2>2
<1> QED BY <1>1, Invariant, PTL

\* However long the list of tuples, a method for many rows sends each tuple once,
\* in the caller's order, its elements at their columns, and an empty list is
\* answered without a statement wherever the generated check is there.
THEOREM InsertsAreExact == MSpec => []InsertedAsWritten
<1>1. ASSUME TextInv, CallInv PROVE InsertedAsWritten
  <2> SUFFICES ASSUME gen = "multi", result # <<>>, \A i \in DOMAIN decl.values : decl.values[i] = i
               PROVE  /\ result[1].ok => [s \in DOMAIN sent |-> sent[s].rows] =
                            IF input = <<>> THEN <<>> ELSE <<[r \in DOMAIN input |-> Placed(input[r])]>>
                      /\ input = <<>> /\ Fetch # "FetchOne" /\ TupleParams[1].type # "generic" =>
                            result[1].ok /\ sent = <<>>
      BY DEF InsertedAsWritten
  <2>1. Inserted /\ TupleParams # <<>> /\ decl \in Methods
      BY <1>1 DEF CallInv, TextInv
  <2>2. Ok(<<>>).ok = TRUE /\ Err.ok = FALSE
      BY DEF Ok, Err
  <2>3. CASE EmptyReturns(input)
    <3>1. input = <<>> /\ sent = <<>> /\ result = <<Ok(<<>>)>>
        BY <2>1, <2>3 DEF Inserted, EmptyReturns
    <3>2. [s \in DOMAIN sent |-> sent[s].rows] = <<>>
        BY <3>1
    <3> QED BY <2>2, <3>1, <3>2
  <2>4. CASE ~EmptyReturns(input)
    <3>1. sent = <<Statement("insert", sql, input)>> /\ result = <<IF input = <<>> THEN Err ELSE Outcome(answer)>>
        BY <2>1, <2>4 DEF Inserted
    <3>2. CASE input = <<>>
      <4>1. ~result[1].ok
          BY <2>2, <3>1, <3>2
      <4>2. ~(Fetch # "FetchOne" /\ TupleParams[1].type # "generic")
          BY <2>4, <3>2 DEF EmptyReturns
      <4> QED BY <4>1, <4>2
    <3>3. CASE input # <<>>
      <4>1. \E p \in ToSet(decl.params) : p.type # "one"
        <5> DEFINE W == {p \in ToSet(decl.params) : p.type # "one"}
        <5>1. Args \in Seq(ToSet(Params))
            BY <2>1, ArgsType
        <5>2. \A i \in DOMAIN Args : Args[i].type # "one" => Args[i] \in W
          <6>1. ToSet(Params) \subseteq ToSet(decl.params) \cup
                    {[name |-> decl.variant, role |-> "pool", type |-> "one"]}
            <7>1. decl.params \in Seq(Parameter)
                BY <2>1, MethodsAssumption
            <7> DEFINE v == [name |-> decl.variant, role |-> "pool", type |-> "one"]
                       ps == decl.params
            <7>2. Params = ps \/ Params = <<v>> \o ps
                BY DEF Params
            <7> HIDE DEF v, ps
            <7>3. ps \in Seq(Parameter)
                BY <7>1 DEF ps
            <7>4. ASSUME NEW i \in DOMAIN (<<v>> \o ps) PROVE (<<v>> \o ps)[i] \in ToSet(ps) \cup {v}
              <8>1. CASE i = 1
                  BY <7>3, <8>1
              <8>2. CASE i # 1
                <9>1. i - 1 \in DOMAIN ps /\ (<<v>> \o ps)[i] = ps[i - 1]
                    BY <7>3, <8>2
                <9> QED BY <9>1 DEF ToSet
              <8> QED BY <8>1, <8>2
            <7>5. ToSet(Params) \subseteq ToSet(ps) \cup {v}
                BY <7>2, <7>4 DEF ToSet
            <7> QED BY <7>5 DEF v, ps
          <6>2. \A i \in DOMAIN Args : Args[i] \in ToSet(Params)
              BY <5>1
          <6> QED BY <6>1, <6>2
        <5> HIDE DEF W
        <5>3. TupleParams \in Seq(W)
          <6>1. \A i \in DOMAIN Args : i \in {j \in DOMAIN Args : Args[j].type # "one"} => Args[i] \in W
              BY <5>2
          <6> QED BY <5>1, <6>1, KeptType DEF TupleParams
        <5>4. TupleParams[1] \in W
            BY <2>1, <5>3
        <5> QED BY <5>4 DEF W
      <4>2. input \in Seq(Seq(Int)) /\ \A r \in DOMAIN input : DOMAIN input[r] = DOMAIN decl.values
          BY <2>1, <4>1, InputsAssumption DEF Inserted
      <4>3. ASSUME NEW r \in DOMAIN input PROVE Placed(input[r]) = input[r]
        <5>1. input[r] \in Seq(Int)
            BY <4>2
        <5> DEFINE t == input[r]
        <5>2. t \in Seq(Int) /\ DOMAIN t = DOMAIN decl.values
            BY <4>2, <5>1
        <5> HIDE DEF t
        <5>3. Placed(t) = [i \in DOMAIN t |-> t[i]]
            BY <5>2 DEF Placed
        <5>4. [i \in DOMAIN t |-> t[i]] = t
            BY <5>2
        <5> QED BY <5>3, <5>4 DEF t
      <4>4. [r \in DOMAIN input |-> Placed(input[r])] = input
        <5> DEFINE C == Seq(Int)
        <5>1. input \in Seq(C)
            BY <4>2
        <5> HIDE DEF C
        <5>2. input = [r \in DOMAIN input |-> input[r]]
            BY <5>1
        <5> QED BY <4>3, <5>2
      <4>5. [s \in DOMAIN sent |-> sent[s].rows] = <<input>>
        <5> DEFINE st == Statement("insert", sql, input)
        <5>1. st.rows = input
            BY DEF Statement
        <5> HIDE DEF st
        <5>2. sent = <<st>>
            BY <3>1 DEF st
        <5> QED BY <5>1, <5>2
      <4> QED BY <3>3, <4>4, <4>5
    <3> QED BY <3>2, <3>3
  <2> QED BY <2>3, <2>4
<1> QED BY <1>1, Invariant, PTL

LEMMA CountPlaces ==
    ASSUME TextInv, Asked(sql.select) = {} \/ IsGrouped,
           NEW c \in {"where", "having"}, NEW i \in DOMAIN sql[c]
    PROVE  BoundTo(CountClauses, c, i) = BoundTo(sql, c, i)
<1>1. CASE IsGrouped
    BY <1>1 DEF CountClauses
<1>2. CASE ~IsGrouped
  <2> DEFINE cc == [sql EXCEPT !.select = <<>>]
  <2>1. CountClauses = cc
      BY <1>2 DEF CountClauses
  <2>2. sql \in [{"select", "from", "where", "group_by", "having", "order_by"} -> Seq(Token)]
      BY ClauseNames DEF TextInv
  <2>3. cc[c] = sql[c]
      BY <2>2
  <2>4. Asked(sql.select) = {}
      BY <1>2
  <2>5. cc.select = <<>> /\ \A d \in ToSet(Clause) : d # "select" => cc[d] = sql[d]
      BY <2>2, ClauseNames
  <2> HIDE DEF cc
  <2>6. Asked(<<>>) = {}
      BY DEF Asked
  <2>7. ASSUME NEW d \in ToSet(Clause) PROVE Asked(cc[d]) = Asked(sql[d])
    <3>1. CASE d = "select"
        BY <2>4, <2>5, <2>6, <3>1
    <3>2. CASE d # "select"
        BY <2>5, <3>2
    <3> QED BY <3>1, <3>2
  <2>8. AskedBefore(cc, c, i) = AskedBefore(sql, c, i)
    <3> DEFINE D == {e \in ToSet(Clause) : Place(e) <= Place(c)}
               X(cl, d) == {<<d, j>> : j \in {x \in Asked(cl[d]) : d = c => x < i}}
    <3>1. \A d \in D : X(cc, d) = X(sql, d)
        BY <2>7
    <3>2. /\ AskedBefore(cc, c, i) = UNION {X(cc, d) : d \in D}
          /\ AskedBefore(sql, c, i) = UNION {X(sql, d) : d \in D}
        BY DEF AskedBefore
    <3> HIDE DEF D, X
    <3>3. {X(cc, d) : d \in D} = {X(sql, d) : d \in D}
        BY <3>1
    <3> QED BY <3>2, <3>3
  <2>9. BoundTo(cc, c, i) = BoundTo(sql, c, i)
      BY <2>3, <2>8 DEF BoundTo
  <2> QED BY <2>1, <2>9
<1> QED BY <1>1, <1>2

\* The count of a page goes to the executor of its data, the caller's own where
\* one is passed, and binds in WHERE and HAVING what the data binds there: its
\* missing select list moves no argument.
THEOREM CountsAskTheSame == MSpec => []CountAsksSame
<1>1. ASSUME TextInv, CallInv PROVE CountAsksSame
  <2> SUFFICES ASSUME Len(sent) = 2, Asked(sql.select) = {} \/ IsGrouped
               PROVE  /\ \A s \in 1..2 : \A p \in ToSet(Params) : p.role = "pool" => sent[s].to = p.name
                      /\ \A c \in {"where", "having"} : \A i \in DOMAIN sql[c] :
                            sql[c][i].t = "eq" =>
                                BoundTo(sent[2].clauses, c, i) = BoundTo(sent[1].clauses, c, i)
      BY DEF CountAsksSame
  <2> DEFINE d == Statement("data", sql, <<>>)
             n == Statement("count", CountClauses, <<>>)
  <2>1. sent = <<d, n>> /\ pc = "done"
    <3>1. Len(<<>>) = 0 /\ (\A x : Len(<<x>>) = 1)
        OBVIOUS
    <3>2. sent # <<>> /\ \A x : sent # <<x>>
        BY <3>1
    <3>3. pc = "done"
        BY <1>1, <3>2 DEF CallInv, TextInv, DataSent
    <3>4. gen # "multi"
        BY <1>1, <3>2, <3>3 DEF CallInv, Inserted
    <3> QED BY <1>1, <3>2, <3>3, <3>4 DEF CallInv, DataSent, CountSent
  <2>2. d.to = PoolExpr /\ n.to = PoolExpr /\ d.clauses = sql /\ n.clauses = CountClauses
      BY DEF Statement
  <2> HIDE DEF d, n
  <2>3. sent[1] = d /\ sent[2] = n
      BY <2>1
  <2>4. ASSUME NEW s \in 1..2, NEW p \in ToSet(Params), p.role = "pool" PROVE sent[s].to = p.name
    <3>1. PICK i \in DOMAIN Params : p = Params[i]
        BY DEF ToSet
    <3>2. i \in Pools /\ \A j \in Pools : j = i
        BY <1>1, <2>1, <2>4, <3>1 DEF TextInv, Pools
    <3>3. (CHOOSE j \in Pools : TRUE) = i
        BY <3>2
    <3>4. PoolExpr = p.name
        BY <3>1, <3>2, <3>3 DEF PoolExpr
    <3>5. s = 1 \/ s = 2
        OBVIOUS
    <3> QED BY <2>2, <2>3, <3>4, <3>5
  <2>5. ASSUME NEW c \in {"where", "having"}, NEW i \in DOMAIN sql[c]
        PROVE  BoundTo(sent[2].clauses, c, i) = BoundTo(sent[1].clauses, c, i)
    <3>1. BoundTo(CountClauses, c, i) = BoundTo(sql, c, i)
        BY <1>1, CountPlaces
    <3> QED BY <2>2, <2>3, <3>1
  <2> QED BY <2>4, <2>5
<1> QED BY <1>1, Invariant, PTL

First(s, n) == [i \in 1..n |-> s[i]]

\* FlattenSeq appends one sequence after the other.
LEMMA FlattenFirst ==
    ASSUME NEW V, NEW s \in Seq(Seq(V))
    PROVE  /\ FlattenSeq(First(s, 0)) = <<>>
           /\ \A i \in 1..Len(s) : FlattenSeq(First(s, i)) = FlattenSeq(First(s, i - 1)) \o s[i]
           /\ \A i \in 0..Len(s) : FlattenSeq(First(s, i)) \in Seq(V)
           /\ First(s, Len(s)) = s
<1>1. PICK f : Joins(f, s, V)
    BY JoinsExist
<1>2. Len(s) \in Nat /\ \A i \in 1..Len(s) : s[i] \in Seq(V) /\ f[i] \in Seq(V)
  <2> DEFINE C == Seq(V)
  <2>1. f \in [1..Len(s) -> C] /\ s \in Seq(C)
      BY <1>1 DEF Joins
  <2> HIDE DEF C
  <2>2. Len(s) \in Nat /\ \A i \in 1..Len(s) : s[i] \in C
      BY <2>1
  <2>3. \A i \in 1..Len(s) : f[i] \in C
      BY <2>1
  <2> QED BY <2>2, <2>3 DEF C
<1>3. ASSUME NEW i \in 1..Len(s) PROVE FlattenSeq(First(s, i)) = f[i]
  <2> DEFINE t == First(s, i)
             C == Seq(V)
  <2>1. t \in Seq(C) /\ Len(t) = i /\ \A j \in 1..i : t[j] = s[j]
    <3>1. i \in Nat /\ \A j \in 1..i : s[j] \in C
        BY <1>2
    <3> HIDE DEF C
    <3> QED BY <3>1 DEF First
  <2> HIDE DEF t
  <2>2. PICK g : Joins(g, t, V)
      BY <2>1, JoinsExist
  <2>3. FlattenSeq(t) = g[i]
    <3>1. Len(t) # 0
        BY <2>1
    <3> QED BY <2>1, <2>2, <3>1, FlattenIs
  <2>4. Grows(f, s)
      BY <1>1 DEF Joins, Grows
  <2>5. Grows(g, t)
      BY <2>2 DEF Joins, Grows
  <2>6. i \in Nat /\ i <= Len(s) /\ i <= Len(t) /\ Len(t) \in Nat /\ \A j \in 1..i : s[j] = t[j]
    <3>1. i \in Nat /\ i <= Len(s)
        BY <1>2
    <3> HIDE DEF C
    <3> QED BY <2>1, <3>1
  <2>7. \A j \in 1..i : f[j] = g[j]
      BY <1>2, <2>4, <2>5, <2>6, GrowthAgrees
  <2>8. i \in 1..i
      BY <2>6
  <2> QED BY <2>3, <2>7, <2>8 DEF t
<1>4. First(s, 0) = <<>> /\ FlattenSeq(First(s, 0)) = <<>>
    BY DEF First, FlattenSeq
<1>5. ASSUME NEW i \in 1..Len(s) PROVE f[i] = FlattenSeq(First(s, i - 1)) \o s[i]
  <2>1. f[i] = IF i = 1 THEN s[i] ELSE f[i - 1] \o s[i]
      BY <1>1 DEF Joins
  <2>2. CASE i = 1
    <3>1. <<>> \o s[i] = s[i]
        BY <1>2
    <3> QED BY <1>4, <2>1, <2>2, <3>1
  <2>3. CASE i # 1
    <3>1. i - 1 \in 1..Len(s)
        BY <2>3
    <3> QED BY <1>3, <2>1, <2>3, <3>1
  <2> QED BY <2>2, <2>3
<1>6. ASSUME NEW i \in 0..Len(s) PROVE FlattenSeq(First(s, i)) \in Seq(V)
  <2>1. CASE i = 0
    <3>1. <<>> \in Seq(V)
        OBVIOUS
    <3> QED BY <1>4, <2>1, <3>1
  <2>2. CASE i # 0
    <3>1. i \in 1..Len(s)
        BY <1>2, <2>2
    <3>2. f[i] \in Seq(V)
        BY <1>2, <3>1
    <3> QED BY <1>3, <3>1, <3>2, Zenon
  <2> QED BY <2>1, <2>2
<1>7. First(s, Len(s)) = s
    BY DEF First
<1> QED BY <1>3, <1>4, <1>5, <1>6, <1>7

AnyGrouping(V) == \A x, y, z \in Seq(V) : (x \o y) \o z = x \o (y \o z)

LEMMA InAnyGrouping == ASSUME NEW V PROVE AnyGrouping(V)
BY ConcatAssociative DEF AnyGrouping

\* Sequences side by side
LEMMA SideBySide ==
    ASSUME NEW V, NEW a \in Seq(V), NEW b \in Seq(V)
    PROVE  /\ a \o b \in Seq(V) /\ Len(a \o b) = Len(a) + Len(b)
           /\ Len(a) \in Nat /\ Len(b) \in Nat
           /\ \A k \in 1..Len(a) : k \in 1..Len(a \o b) /\ (a \o b)[k] = a[k]
           /\ \A k \in 1..Len(b) : Len(a) + k \in 1..Len(a \o b) /\ (a \o b)[Len(a) + k] = b[k]
           /\ ToSet(a \o b) = ToSet(a) \cup ToSet(b)
<1>1. /\ a \o b \in Seq(V) /\ Len(a \o b) = Len(a) + Len(b)
      /\ Len(a) \in Nat /\ Len(b) \in Nat
    OBVIOUS
<1>2. \A k \in 1..Len(a) : k \in 1..Len(a \o b) /\ (a \o b)[k] = a[k]
    OBVIOUS
<1>3. \A k \in 1..Len(b) : Len(a) + k \in 1..Len(a \o b) /\ (a \o b)[Len(a) + k] = b[k]
    OBVIOUS
<1>4. ToSet(a \o b) = ToSet(a) \cup ToSet(b)
  <2> DEFINE c == a \o b
             m == Len(a)
             n == Len(b)
  <2>1. DOMAIN a = 1..m /\ DOMAIN b = 1..n /\ DOMAIN c = 1..(m + n) /\ m \in Nat /\ n \in Nat
      OBVIOUS
  <2>2. (\A k \in 1..m : c[k] = a[k]) /\ (\A k \in 1..n : c[m + k] = b[k])
      BY <1>2, <1>3
  <2>3. \A x : x \in ToSet(a) <=> \E k \in 1..m : x = a[k]
      BY <2>1 DEF ToSet
  <2>4. \A x : x \in ToSet(b) <=> \E k \in 1..n : x = b[k]
      BY <2>1 DEF ToSet
  <2>5. \A x : x \in ToSet(c) <=> \E k \in 1..(m + n) : x = c[k]
      BY <2>1 DEF ToSet
  <2> HIDE DEF c, m, n
  <2>6. \A k \in 1..(m + n) : k \in 1..m \/ (k - m \in 1..n /\ k = m + (k - m))
      BY <2>1
  <2>7. \A k \in 1..m : k \in 1..(m + n)
      BY <2>1
  <2>8. \A k \in 1..n : m + k \in 1..(m + n)
      BY <2>1
  <2>9. ASSUME NEW x \in ToSet(c) PROVE x \in ToSet(a) \cup ToSet(b)
    <3>1. PICK k \in 1..(m + n) : x = c[k]
        BY <2>5
    <3>2. CASE k \in 1..m
        BY <2>2, <2>3, <3>1, <3>2
    <3>3. CASE k - m \in 1..n /\ k = m + (k - m)
      <4>1. c[k] = b[k - m]
          BY <2>2, <3>3
      <4> QED BY <2>4, <3>1, <3>3, <4>1
    <3> QED BY <2>6, <3>2, <3>3
  <2>10. ASSUME NEW x \in ToSet(a) PROVE x \in ToSet(c)
      BY <2>2, <2>3, <2>5, <2>7
  <2>11. ASSUME NEW x \in ToSet(b) PROVE x \in ToSet(c)
      BY <2>2, <2>4, <2>5, <2>8
  <2> QED BY <2>9, <2>10, <2>11 DEF c
<1> QED BY <1>1, <1>2, <1>3, <1>4

\* A list of one sequence
LEMMA FlattenOne ==
    ASSUME NEW V, NEW q \in Seq(V)
    PROVE  FlattenSeq(<<q>>) = q
<1> DEFINE C == Seq(V)
           s == <<q>>
<1>1. s \in Seq(C) /\ Len(s) = 1 /\ s[1] = q
  <2> HIDE DEF C
  <2>1. q \in C
      BY DEF C
  <2> QED BY <2>1
<1> HIDE DEF s
<1>2. /\ FlattenSeq(First(s, 0)) = <<>>
      /\ FlattenSeq(First(s, 1)) = FlattenSeq(First(s, 0)) \o s[1]
      /\ First(s, 1) = s
  <2>1. s \in Seq(Seq(V)) /\ 1 \in 1..Len(s)
      BY <1>1
  <2>2. First(s, Len(s)) = s
      BY <2>1, FlattenFirst
  <2>3. FlattenSeq(First(s, 1)) = FlattenSeq(First(s, 1 - 1)) \o s[1]
      BY <2>1, FlattenFirst
  <2>4. 1 - 1 = 0
      OBVIOUS
  <2> QED BY <1>1, <2>1, <2>2, <2>3, <2>4, FlattenFirst
<1>3. <<>> \o q = q
    OBVIOUS
<1> QED BY <1>1, <1>2, <1>3 DEF s

\* What FlattenSeq makes of two lists of sequences, one list after the other
LEMMA FlattenJoins ==
    ASSUME NEW V, NEW s \in Seq(Seq(V)), NEW t \in Seq(Seq(V))
    PROVE  /\ FlattenSeq(s) \in Seq(V) /\ FlattenSeq(t) \in Seq(V)
           /\ FlattenSeq(s \o t) = FlattenSeq(s) \o FlattenSeq(t)
<1> DEFINE C == Seq(V)
           r == s \o t
           m == Len(s)
           n == Len(t)
           f == FlattenSeq(s)
           R(i) == FlattenSeq(First(r, i))
           T(i) == FlattenSeq(First(t, i))
           G == {i \in 0..n : R(m + i) = f \o T(i)}
<1>1. /\ s \in Seq(C) /\ t \in Seq(C) /\ r \in Seq(C) /\ Len(r) = m + n /\ m \in Nat /\ n \in Nat
      /\ \A k \in 1..m : r[k] = s[k]
      /\ \A k \in 1..n : r[m + k] = t[k] /\ t[k] \in C
  <2>1. s \in Seq(C) /\ t \in Seq(C)
      OBVIOUS
  <2> HIDE DEF C
  <2>2. \A k \in 1..n : t[k] \in C
      BY <2>1
  <2> QED BY <2>1, <2>2, SideBySide
<1>2. /\ T(0) = <<>> /\ T(n) = FlattenSeq(t)
      /\ \A i \in 1..n : T(i) = T(i - 1) \o t[i]
      /\ \A i \in 0..n : T(i) \in Seq(V)
    BY FlattenFirst
<1>3. /\ R(m + n) = FlattenSeq(r)
      /\ \A i \in 1..(m + n) : R(i) = R(i - 1) \o r[i]
  <2>1. r \in Seq(Seq(V))
      BY <1>1
  <2>2. Len(r) = m + n
      BY <1>1
  <2> HIDE DEF r, m, n
  <2> QED BY <2>1, <2>2, FlattenFirst
<1>4. f \in Seq(V) /\ First(s, m) = s
  <2>1. m \in 0..Len(s)
      BY <1>1
  <2>2. First(s, m) = s
      BY FlattenFirst
  <2> QED BY <2>1, <2>2, FlattenFirst
<1>5. FlattenSeq(t) \in Seq(V)
  <2>1. n \in 0..n
      BY <1>1
  <2> QED BY <1>2, <2>1
<1>6. First(r, m) = s
  <2>1. First(r, m) = First(s, m)
    <3>1. \A k \in 1..m : r[k] = s[k]
        BY <1>1
    <3> HIDE DEF r, m
    <3> QED BY <3>1 DEF First
  <2> QED BY <1>4, <2>1
<1> HIDE DEF r, m, n, f, R, T
<1>7. 0 \in G
  <2>1. m + 0 = m /\ 0 \in 0..n
      BY <1>1
  <2>2. f \o <<>> = f
      BY <1>4
  <2>3. R(m + 0) = f
      BY <1>6, <2>1 DEF R, f
  <2> QED BY <1>2, <2>1, <2>2, <2>3
<1>8. ASSUME NEW i \in 0..(n - 1), i \in G PROVE i + 1 \in G
  <2>1. /\ i + 1 \in 1..n /\ i + 1 \in 0..n /\ i \in 0..n /\ (i + 1) - 1 = i
        /\ m + (i + 1) \in 1..(m + n) /\ (m + (i + 1)) - 1 = m + i
      BY <1>1
  <2>2. R(m + (i + 1)) = R(m + i) \o r[m + (i + 1)]
      BY <1>3, <2>1
  <2>3. r[m + (i + 1)] = t[i + 1] /\ t[i + 1] \in Seq(V)
      BY <1>1, <2>1
  <2>4. R(m + i) = f \o T(i)
      BY <1>8
  <2>5. T(i + 1) = T(i) \o t[i + 1] /\ T(i) \in Seq(V)
      BY <1>2, <2>1
  <2>6. (f \o T(i)) \o t[i + 1] = f \o (T(i) \o t[i + 1])
    <3>1. AnyGrouping(V)
        BY InAnyGrouping
    <3>2. f \in Seq(V) /\ T(i) \in Seq(V) /\ t[i + 1] \in Seq(V)
        BY <1>4, <2>3, <2>5
    <3> QED BY <3>1, <3>2, Zenon DEF AnyGrouping
  <2>7. R(m + (i + 1)) = f \o T(i + 1)
      BY <2>2, <2>3, <2>4, <2>5, <2>6
  <2> QED BY <2>1, <2>7
<1> HIDE DEF G
<1>9. n \in G
  <2>1. 0..n \subseteq G
      BY <1>1, <1>7, <1>8, Upwards
  <2> QED BY <1>1, <2>1
<1> QED BY <1>2, <1>3, <1>4, <1>5, <1>9 DEF G, f, r

\* What has the elements of two sequences is one beside the other.
Beside(p, q, r, V) ==
    /\ p \in Seq(V) /\ q \in Seq(V) /\ r \in Seq(V) /\ Len(r) = Len(p) + Len(q)
    /\ \A k \in 1..Len(p) : r[k] = p[k]
    /\ \A k \in 1..Len(q) : r[Len(p) + k] = q[k]

LEMMA SideBySideIs ==
    ASSUME NEW V, NEW p, NEW q, NEW r, Beside(p, q, r, V)
    PROVE  r = p \o q
<1> DEFINE t == p \o q
           m == Len(p)
           n == Len(q)
<1>0. /\ p \in Seq(V) /\ q \in Seq(V) /\ r \in Seq(V) /\ Len(r) = m + n
      /\ \A k \in 1..m : r[k] = p[k]
      /\ \A k \in 1..n : r[m + k] = q[k]
    BY DEF Beside
<1>1. t \in Seq(V) /\ Len(t) = m + n /\ m \in Nat /\ n \in Nat
    BY <1>0, SideBySide
<1>2. \A k \in 1..m : t[k] = p[k]
    BY <1>0, SideBySide
<1>3. \A k \in 1..n : t[m + k] = q[k]
    BY <1>0, SideBySide
<1> HIDE DEF t
<1>4. ASSUME NEW k \in 1..Len(r) PROVE r[k] = t[k]
  <2> HIDE DEF m, n
  <2>1. CASE k \in 1..m
      BY <1>0, <1>2, <2>1
  <2>2. CASE k \notin 1..m
    <3>1. k - m \in 1..n /\ k = m + (k - m)
        BY <1>0, <1>1, <2>2
    <3>2. t[m + (k - m)] = q[k - m] /\ r[m + (k - m)] = q[k - m]
        BY <1>0, <1>3, <3>1
    <3> QED BY <3>1, <3>2
  <2> QED BY <2>1, <2>2
<1>5. r = t
    BY <1>0, <1>1, <1>4
<1> QED BY <1>5 DEF t

\* What f makes of the elements of a sequence
Maps(f, D, C) == f \in [D -> C]

EachOf(f, x) == [k \in DOMAIN x |-> f[x[k]]]

\* The images of two sequences, one after the other
LEMMA ImagesJoin ==
    ASSUME NEW D, NEW C, NEW f, Maps(f, D, C), NEW c \in Seq(D), NEW e \in Seq(D)
    PROVE  /\ EachOf(f, c) \in Seq(C) /\ EachOf(f, e) \in Seq(C)
           /\ EachOf(f, c \o e) = EachOf(f, c) \o EachOf(f, e)
<1> DEFINE I(y) == EachOf(f, y)
           m == Len(c)
           n == Len(e)
           x == c \o e
<1>2. /\ x \in Seq(D) /\ Len(x) = m + n /\ m \in Nat /\ n \in Nat
      /\ \A k \in 1..m : x[k] = c[k]
      /\ \A k \in 1..n : x[m + k] = e[k]
    BY SideBySide
<1> HIDE DEF x, m, n
<1>3. ASSUME NEW y \in Seq(D) PROVE I(y) \in Seq(C) /\ Len(I(y)) = Len(y) /\ \A k \in 1..Len(y) : I(y)[k] = f[y[k]]
  <2>1. \A k \in 1..Len(y) : y[k] \in D
      OBVIOUS
  <2>2. \A k \in 1..Len(y) : f[y[k]] \in C
      BY <2>1 DEF Maps
  <2>3. I(y) = [k \in 1..Len(y) |-> f[y[k]]] /\ Len(y) \in Nat
      BY DEF EachOf
  <2> HIDE DEF I
  <2>4. I(y) \in Seq(C) /\ Len(I(y)) = Len(y)
      BY <2>2, <2>3
  <2> QED BY <2>3, <2>4
<1>4. I(x) = I(c) \o I(e)
  <2> DEFINE ic == I(c)
             ie == I(e)
             ix == I(x)
  <2>1. /\ ic \in Seq(C) /\ ie \in Seq(C) /\ ix \in Seq(C) /\ Len(ic) = m /\ Len(ie) = n /\ Len(ix) = m + n
        /\ \A k \in 1..m : ic[k] = f[c[k]]
        /\ \A k \in 1..n : ie[k] = f[e[k]]
        /\ \A k \in 1..(m + n) : ix[k] = f[x[k]]
    <3>1. Len(ic) = m /\ Len(ie) = n /\ Len(ix) = m + n
        BY <1>2, <1>3 DEF m, n
    <3> QED BY <1>2, <1>3, <3>1 DEF m, n
  <2> HIDE DEF ic, ie, ix, I
  <2>2. \A k \in 1..m : ix[k] = ic[k]
    <3> TAKE k \in 1..m
    <3>1. k \in 1..(m + n) /\ x[k] = c[k]
        BY <1>2
    <3> QED BY <2>1, <3>1
  <2>3. \A k \in 1..n : ix[m + k] = ie[k]
    <3> TAKE k \in 1..n
    <3>1. m + k \in 1..(m + n) /\ x[m + k] = e[k]
        BY <1>2
    <3> QED BY <2>1, <3>1
  <2>4. ix = ic \o ie
    <3>1. Beside(ic, ie, ix, C)
        BY <2>1, <2>2, <2>3 DEF Beside
    <3> QED BY <3>1, SideBySideIs
  <2> QED BY <2>4 DEF ic, ie, ix
<1> QED BY <1>3, <1>4 DEF x

\* What FlattenSeq makes of the images, which are sequences
LEMMA FlattenImages ==
    ASSUME NEW D, NEW W, NEW f, Maps(f, D, Seq(W)), NEW c \in Seq(D), NEW e \in Seq(D)
    PROVE  /\ FlattenSeq(EachOf(f, c)) \in Seq(W) /\ FlattenSeq(EachOf(f, e)) \in Seq(W)
           /\ FlattenSeq(EachOf(f, c \o e)) = FlattenSeq(EachOf(f, c)) \o FlattenSeq(EachOf(f, e))
<1> DEFINE I(y) == EachOf(f, y)
           x == c \o e
<1>1. I(c) \in Seq(Seq(W)) /\ I(e) \in Seq(Seq(W)) /\ I(x) = I(c) \o I(e)
  <2> DEFINE C == Seq(W)
  <2>1. Maps(f, D, C)
      OBVIOUS
  <2> HIDE DEF C
  <2>2. I(c) \in Seq(C) /\ I(e) \in Seq(C) /\ I(x) = I(c) \o I(e)
      BY <2>1, ImagesJoin
  <2> QED BY <2>2 DEF C
<1> HIDE DEF I, x
<1>2. FlattenSeq(I(c)) \in Seq(W) /\ FlattenSeq(I(e)) \in Seq(W)
    BY <1>1, FlattenJoins
<1>3. FlattenSeq(I(x)) = FlattenSeq(I(c)) \o FlattenSeq(I(e))
    BY <1>1, FlattenJoins
<1> QED BY <1>2, <1>3 DEF I, x

\* Two and three elements, one beside the other
LEMMA TuplesJoin ==
    ASSUME NEW p, NEW q, NEW r
    PROVE  <<p, q>> = <<p>> \o <<q>> /\ <<p, q, r>> = (<<p>> \o <<q>>) \o <<r>>
<1>1. <<p, q>> = <<p>> \o <<q>>
  <2> DEFINE x == <<p>>
             y == <<q>>
             z == <<p, q>>
             V == {p, q}
  <2>1. /\ x \in Seq(V) /\ y \in Seq(V) /\ z \in Seq(V)
        /\ Len(x) = 1 /\ Len(y) = 1 /\ Len(z) = 2
        /\ z[1] = x[1] /\ z[2] = y[1]
      OBVIOUS
  <2> HIDE DEF x, y, z, V
  <2>2. Beside(x, y, z, V)
      BY <2>1 DEF Beside
  <2> QED BY <2>2, SideBySideIs DEF x, y, z
<1>2. <<p, q, r>> = <<p, q>> \o <<r>>
    OBVIOUS
<1> QED BY <1>1, <1>2

-----------------------------------------------------------------------------
(* The pieces of a text between its marks.                                  *)

Ends(text, m) == {0, Len(text) + 1} \cup {i \in DOMAIN text : text[i] = Mark(m)}

Gap(text, m, i, j) ==
    /\ i \in Ends(text, m) /\ j \in Ends(text, m) /\ i < j
    /\ \A k \in Ends(text, m) : k <= i \/ k >= j

LEMMA PieceIs ==
    ASSUME NEW text, NEW m
    PROVE  \A x : x \in Pieces(text, m) <=> \E i, j : Gap(text, m, i, j) /\ x = SubSeq(text, i + 1, j - 1)
<1> DEFINE E == Ends(text, m)
           G == {q \in E \X E : q[1] < q[2] /\ \A i \in E : i <= q[1] \/ i >= q[2]}
<1>1. Pieces(text, m) = {SubSeq(text, p[1] + 1, p[2] - 1) : p \in G}
    BY DEF Pieces, Ends
<1>2. ASSUME NEW x \in Pieces(text, m) PROVE \E i, j : Gap(text, m, i, j) /\ x = SubSeq(text, i + 1, j - 1)
  <2>1. PICK p \in G : x = SubSeq(text, p[1] + 1, p[2] - 1)
      BY <1>1
  <2>2. Gap(text, m, p[1], p[2])
    <3>1. p \in E \X E /\ p[1] < p[2] /\ \A i \in E : i <= p[1] \/ i >= p[2]
        BY <2>1
    <3>2. p[1] \in E /\ p[2] \in E
        BY <3>1
    <3> QED BY <3>1, <3>2 DEF Gap
  <2> QED BY <2>1, <2>2
<1>3. ASSUME NEW i, NEW j, Gap(text, m, i, j) PROVE SubSeq(text, i + 1, j - 1) \in Pieces(text, m)
  <2>1. <<i, j>> \in G
      BY <1>3 DEF Gap
  <2> HIDE DEF G
  <2>2. SubSeq(text, <<i, j>>[1] + 1, <<i, j>>[2] - 1) \in Pieces(text, m)
      BY <1>1, <2>1
  <2> QED BY <2>2
<1> QED BY <1>2, <1>3

\* A text, a mark and another text
Cut(r, p, q, m, V) ==
    /\ p \in Seq(V) /\ q \in Seq(V) /\ r \in Seq(V)
    /\ Len(p) \in Nat /\ Len(q) \in Nat /\ Len(r) = Len(p) + 1 + Len(q)
    /\ \A i \in 1..Len(p) : r[i] = p[i]
    /\ r[Len(p) + 1] = Mark(m)
    /\ \A i \in 1..Len(q) : r[(Len(p) + 1) + i] = q[i]

LEMMA Behind ==
    ASSUME NEW V, NEW a \in Seq(V), NEW b \in Seq(V)
    PROVE  \A k \in 1..Len(b) : (a \o b)[Len(a) + k] = b[k]
OBVIOUS

LEMMA Ahead ==
    ASSUME NEW V, NEW a \in Seq(V), NEW b \in Seq(V)
    PROVE  \A k \in 1..Len(a) : (a \o b)[k] = a[k]
OBVIOUS

LEMMA CutIs ==
    ASSUME NEW V, NEW p \in Seq(V), NEW q \in Seq(V), NEW m, Mark(m) \in V
    PROVE  Cut((p \o <<Mark(m)>>) \o q, p, q, m, V)
<1> DEFINE M == Mark(m)
           o == <<M>>
           s == p \o o
           r == s \o q
<1>1. o \in Seq(V) /\ Len(o) = 1 /\ o[1] = M
  <2> HIDE DEF M
  <2>1. M \in V
      BY DEF M
  <2> QED BY <2>1
<1> HIDE DEF o
<1>2. /\ s \in Seq(V) /\ Len(s) = Len(p) + 1 /\ Len(p) \in Nat
      /\ \A i \in 1..Len(p) : s[i] = p[i]
      /\ s[Len(p) + 1] = M
  <2>1. Len(p \o o) = Len(p) + Len(o)
      BY <1>1, SideBySide, Zenon
  <2>2. p \o o \in Seq(V) /\ Len(p) \in Nat /\ \A i \in 1..Len(p) : (p \o o)[i] = p[i]
    <3>1. o \in Seq(V)
        BY <1>1
    <3>2. \A i \in 1..Len(p) : (p \o o)[i] = p[i]
        BY <3>1, Ahead
    <3>3. p \o o \in Seq(V) /\ Len(p) \in Nat
        BY <3>1
    <3> QED BY <3>2, <3>3
  <2>3. (p \o o)[Len(p) + 1] = o[1]
    <3>1. 1 \in 1..Len(o)
        BY <1>1
    <3>2. o \in Seq(V)
        BY <1>1
    <3>3. \A k \in 1..Len(o) : (p \o o)[Len(p) + k] = o[k]
        BY <3>2, Behind
    <3> QED BY <3>1, <3>3
  <2> HIDE DEF M
  <2> QED BY <1>1, <2>1, <2>2, <2>3
<1> HIDE DEF s, M
<1>3. /\ r \in Seq(V) /\ Len(r) = Len(s) + Len(q) /\ Len(q) \in Nat
      /\ \A i \in 1..Len(s) : r[i] = s[i]
      /\ \A i \in 1..Len(q) : r[Len(s) + i] = q[i]
  <2>1. s \o q \in Seq(V) /\ Len(s \o q) = Len(s) + Len(q) /\ Len(q) \in Nat
    <3>1. s \in Seq(V)
        BY <1>2
    <3> QED BY <3>1
  <2>2. \A i \in 1..Len(s) : (s \o q)[i] = s[i]
    <3>1. s \in Seq(V)
        BY <1>2
    <3> QED BY <3>1, Ahead
  <2>3. \A i \in 1..Len(q) : (s \o q)[Len(s) + i] = q[i]
    <3>1. s \in Seq(V) /\ q \in Seq(V)
        BY <1>2
    <3> QED BY <3>1, Behind
  <2> QED BY <2>1, <2>2, <2>3
<1> HIDE DEF r
<1>4. \A i \in 1..Len(p) : r[i] = p[i]
  <2> TAKE i \in 1..Len(p)
  <2>1. i \in 1..Len(s)
      BY <1>2
  <2> QED BY <1>2, <1>3, <2>1
<1>5. r[Len(p) + 1] = M
  <2>1. Len(p) + 1 \in 1..Len(s)
      BY <1>2
  <2> QED BY <1>2, <1>3, <2>1
<1>6. Cut(r, p, q, m, V)
    BY <1>2, <1>3, <1>4, <1>5 DEF Cut, M
<1> QED BY <1>6 DEF r, s, o, M

\* Where it is cut
LEMMA EndsBeside ==
    ASSUME NEW V, NEW p, NEW q, NEW m, NEW r, Cut(r, p, q, m, V)
    PROVE  /\ \A i \in Int : i \in Ends(p, m) <=> i \in Ends(r, m) /\ i <= Len(p) + 1
           /\ \A i \in Int : i \in Ends(q, m) <=> i + (Len(p) + 1) \in Ends(r, m) /\ i >= 0
           /\ Ends(p, m) \subseteq 0..(Len(p) + 1) /\ Ends(q, m) \subseteq 0..(Len(q) + 1)
           /\ Ends(r, m) \subseteq 0..(Len(r) + 1)
<1> DEFINE M == Mark(m)
           a == Len(p)
           n == Len(q)
           l == a + 1 + n
<1>1. /\ a \in Nat /\ n \in Nat /\ Len(r) = l
      /\ \A i \in 1..a : r[i] = p[i]
      /\ r[a + 1] = M
      /\ \A i \in 1..n : r[(a + 1) + i] = q[i]
    BY DEF Cut
<1>2. DOMAIN p = 1..a /\ DOMAIN q = 1..n /\ DOMAIN r = 1..l
    BY <1>1 DEF Cut
<1>3. /\ \A i : i \in Ends(p, m) <=> i = 0 \/ i = a + 1 \/ (i \in 1..a /\ p[i] = M)
      /\ \A i : i \in Ends(q, m) <=> i = 0 \/ i = n + 1 \/ (i \in 1..n /\ q[i] = M)
      /\ \A i : i \in Ends(r, m) <=> i = 0 \/ i = l + 1 \/ (i \in 1..l /\ r[i] = M)
    BY <1>1, <1>2 DEF Ends
<1>0. l \in Nat /\ l = a + 1 + n
    BY <1>1
<1> HIDE DEF M, a, n, l
<1>4. ASSUME NEW i \in Int PROVE i \in Ends(p, m) <=> i \in Ends(r, m) /\ i <= a + 1
  <2>1. CASE i \in 1..a
    <3>1. i \in 1..l /\ i # 0 /\ i # a + 1 /\ i # l + 1 /\ i <= a + 1 /\ r[i] = p[i]
        BY <1>0, <1>1, <2>1
    <3> QED BY <1>3, <2>1, <3>1
  <2>2. CASE i = a + 1
    <3>1. i \in 1..l /\ i <= a + 1 /\ r[i] = M
        BY <1>0, <1>1, <2>2
    <3> QED BY <1>3, <2>2, <3>1
  <2>3. CASE i = 0
    <3>1. i <= a + 1
        BY <1>0, <1>1, <2>3
    <3> QED BY <1>3, <2>3, <3>1
  <2>4. CASE i \notin 1..a /\ i # a + 1 /\ i # 0
    <3>1. i < 0 \/ i > a + 1
        BY <1>1, <2>4
    <3>2. i < 0 => i \notin 1..l /\ i # l + 1
        BY <1>0
    <3> QED BY <1>0, <1>1, <1>3, <2>4, <3>1, <3>2
  <2> QED BY <2>1, <2>2, <2>3, <2>4
<1>5. ASSUME NEW i \in Int PROVE i \in Ends(q, m) <=> i + (a + 1) \in Ends(r, m) /\ i >= 0
  <2> DEFINE k == i + (a + 1)
  <2>0. k \in Int /\ k = (a + 1) + i
      BY <1>1
  <2>1. CASE i \in 1..n
    <3>1. k \in 1..l /\ k # 0 /\ i # 0 /\ i # n + 1 /\ k # l + 1 /\ i >= 0
        BY <1>0, <1>1, <2>1
    <3>2. r[k] = q[i]
        BY <1>1, <2>0, <2>1
    <3> HIDE DEF k
    <3> QED BY <1>3, <2>1, <3>1, <3>2 DEF k
  <2>2. CASE i = n + 1
    <3>1. k = l + 1 /\ i >= 0
        BY <1>0, <1>1, <2>2
    <3> QED BY <1>3, <2>2, <3>1
  <2>3. CASE i = 0
    <3>1. k = a + 1 /\ k \in 1..l
        BY <1>0, <1>1, <2>3
    <3>2. r[k] = M
        BY <1>1, <3>1
    <3> QED BY <1>3, <2>3, <3>1, <3>2
  <2>4. CASE i \notin 1..n /\ i # n + 1 /\ i # 0
    <3>1. i < 0 \/ i > n + 1
        BY <1>1, <2>4
    <3>2. i > n + 1 => k \notin 1..l /\ k # l + 1 /\ k # 0
        BY <1>0, <1>1
    <3> HIDE DEF k
    <3> QED BY <1>3, <2>4, <3>1, <3>2 DEF k
  <2> QED BY <2>1, <2>2, <2>3, <2>4
<1>6. /\ Ends(p, m) \subseteq 0..(a + 1) /\ Ends(q, m) \subseteq 0..(n + 1)
      /\ Ends(r, m) \subseteq 0..(Len(r) + 1)
  <2>1. ASSUME NEW b \in Nat PROVE \A i : i = 0 \/ i = b + 1 \/ i \in 1..b => i \in 0..(b + 1)
      OBVIOUS
  <2>2. Ends(p, m) \subseteq 0..(a + 1)
      BY <1>1, <1>3, <2>1
  <2>3. Ends(q, m) \subseteq 0..(n + 1)
      BY <1>1, <1>3, <2>1
  <2>4. Ends(r, m) \subseteq 0..(l + 1)
      BY <1>0, <1>3, <2>1
  <2> QED BY <1>1, <2>2, <2>3, <2>4
<1> QED BY <1>4, <1>5, <1>6 DEF a, n

LEMMA PartBefore ==
    ASSUME NEW V, NEW p \in Seq(V), NEW r \in Seq(V), Len(p) <= Len(r), \A i \in 1..Len(p) : r[i] = p[i],
           NEW i \in Nat, NEW j \in Nat, i < j, j <= Len(p) + 1
    PROVE  SubSeq(r, i + 1, j - 1) = SubSeq(p, i + 1, j - 1)
OBVIOUS

LEMMA PartBehind ==
    ASSUME NEW V, NEW q \in Seq(V), NEW r \in Seq(V), NEW d \in Nat, Len(r) = d + Len(q),
           \A i \in 1..Len(q) : r[d + i] = q[i],
           NEW i \in Nat, NEW j \in Nat, i < j, j <= Len(q) + 1
    PROVE  SubSeq(r, (i + d) + 1, (j + d) - 1) = SubSeq(q, i + 1, j - 1)
<1> DEFINE x == SubSeq(r, (i + d) + 1, (j + d) - 1)
           y == SubSeq(q, i + 1, j - 1)
           l == (j - 1) - i
<1>1. l \in Nat /\ \A k \in 1..l : i + k \in 1..Len(q) /\ d + (i + k) \in 1..Len(r)
    OBVIOUS
<1>2. x \in Seq(V) /\ Len(x) = l /\ \A k \in 1..l : x[k] = r[d + (i + k)]
    OBVIOUS
<1>3. y \in Seq(V) /\ Len(y) = l /\ \A k \in 1..l : y[k] = q[i + k]
    OBVIOUS
<1> HIDE DEF x, y, l
<1>4. \A k \in 1..l : x[k] = y[k]
  <2> TAKE k \in 1..l
  <2>1. i + k \in 1..Len(q)
      BY <1>1
  <2>2. r[d + (i + k)] = q[i + k]
      BY <2>1
  <2>3. x[k] = r[d + (i + k)]
      BY <1>2
  <2>4. y[k] = q[i + k]
      BY <1>3
  <2> QED BY <2>2, <2>3, <2>4
<1>5. x = y
    BY <1>1, <1>2, <1>3, <1>4
<1> QED BY <1>5 DEF x, y

\* The same in predicates of their own, for the proofs where more is known of q and r
Shifts(V, q, r, d) == /\ q \in Seq(V) /\ r \in Seq(V) /\ d \in Nat /\ Len(r) = d + Len(q)
                      /\ \A k \in 1..Len(q) : r[d + k] = q[k]
Spans(q, i, j)    == i \in Nat /\ j \in Nat /\ i < j /\ j <= Len(q) + 1
SamePart(q, r, d, i, j) == SubSeq(r, (i + d) + 1, (j + d) - 1) = SubSeq(q, i + 1, j - 1)

LEMMA PartsBehind ==
    ASSUME NEW V, NEW q, NEW r, NEW d, Shifts(V, q, r, d), NEW i, NEW j, Spans(q, i, j)
    PROVE  SamePart(q, r, d, i, j)
<1>1. q \in Seq(V) /\ r \in Seq(V) /\ d \in Nat /\ Len(r) = d + Len(q)
    BY DEF Shifts
<1>2. \A k \in 1..Len(q) : r[d + k] = q[k]
    BY DEF Shifts
<1>3. i \in Nat /\ j \in Nat /\ i < j /\ j <= Len(q) + 1
    BY DEF Spans
<1>4. SubSeq(r, (i + d) + 1, (j + d) - 1) = SubSeq(q, i + 1, j - 1)
    BY <1>1, <1>2, <1>3, PartBehind
<1> QED BY <1>4 DEF SamePart

\* What is cut at a mark has the pieces of what stands before it, and of what
\* stands behind it.
LEMMA PiecesBeside ==
    ASSUME NEW V, NEW p \in Seq(V), NEW q \in Seq(V), NEW m, Mark(m) \in V
    PROVE  Pieces((p \o <<Mark(m)>>) \o q, m) = Pieces(p, m) \cup Pieces(q, m)
<1> DEFINE r == (p \o <<Mark(m)>>) \o q
           a == Len(p)
           n == Len(q)
           P == Ends(p, m)
           Q == Ends(q, m)
           R == Ends(r, m)
<1>1. /\ r \in Seq(V) /\ a \in Nat /\ n \in Nat /\ Len(r) = a + 1 + n
      /\ \A i \in 1..a : r[i] = p[i]
      /\ \A i \in 1..n : r[(a + 1) + i] = q[i]
      /\ \A i \in Int : i \in P <=> i \in R /\ i <= a + 1
      /\ \A i \in Int : i \in Q <=> i + (a + 1) \in R /\ i >= 0
      /\ P \subseteq 0..(a + 1) /\ Q \subseteq 0..(n + 1) /\ R \subseteq 0..(Len(r) + 1)
  <2>1. Cut(r, p, q, m, V)
      BY CutIs
  <2> HIDE DEF r
  <2>2. /\ \A i \in Int : i \in P <=> i \in R /\ i <= a + 1
        /\ \A i \in Int : i \in Q <=> i + (a + 1) \in R /\ i >= 0
        /\ P \subseteq 0..(a + 1) /\ Q \subseteq 0..(n + 1) /\ R \subseteq 0..(Len(r) + 1)
      BY <2>1, EndsBeside
  <2> HIDE DEF P, Q, R
  <2> QED BY <2>1, <2>2 DEF Cut
<1>2. a + 1 \in P /\ 0 \in Q
    BY DEF Ends
<1> HIDE DEF r, a, n, P, Q, R
<1>3. ASSUME NEW i, NEW j, Gap(p, m, i, j)
      PROVE  Gap(r, m, i, j) /\ SubSeq(r, i + 1, j - 1) = SubSeq(p, i + 1, j - 1)
  <2>1. i \in P /\ j \in P /\ i < j /\ \A k \in P : k <= i \/ k >= j
      BY <1>3 DEF Gap, P
  <2>2. i \in R /\ j \in R /\ \A k \in R : k <= i \/ k >= j
    <3>1. i \in R /\ j \in R /\ i \in Nat /\ j \in Nat /\ j <= a + 1
        BY <1>1, <2>1
    <3>2. \A k \in R : k \in Int /\ (k <= a + 1 => k \in P)
        BY <1>1
    <3> QED BY <1>1, <2>1, <3>1, <3>2
  <2>3. SubSeq(r, i + 1, j - 1) = SubSeq(p, i + 1, j - 1)
    <3>1. i \in Nat /\ j \in Nat /\ i < j /\ j <= Len(p) + 1 /\ Len(p) <= Len(r)
        BY <1>1, <2>1 DEF a
    <3>2. \A k \in 1..Len(p) : r[k] = p[k]
        BY <1>1 DEF a
    <3> QED BY <1>1, <3>1, <3>2, PartBefore
  <2> QED BY <2>1, <2>2, <2>3 DEF Gap, R
<1>4. ASSUME NEW i, NEW j, Gap(q, m, i, j)
      PROVE  \E k, l : Gap(r, m, k, l) /\ SubSeq(r, k + 1, l - 1) = SubSeq(q, i + 1, j - 1)
  <2>1. i \in Q /\ j \in Q /\ i < j /\ \A k \in Q : k <= i \/ k >= j
      BY <1>4 DEF Gap, Q
  <2> DEFINE k == i + (a + 1)
             l == j + (a + 1)
  <2>2. i \in Nat /\ j \in Nat /\ k \in R /\ l \in R /\ k < l /\ j <= n + 1
      BY <1>1, <2>1
  <2>3. \A x \in R : x <= k \/ x >= l
    <3> TAKE x \in R
    <3>1. x \in Int
        BY <1>1
    <3>2. CASE x >= a + 1
      <4>1. x - (a + 1) \in Q
        <5>1. x - (a + 1) \in Int /\ (x - (a + 1)) + (a + 1) = x /\ x - (a + 1) >= 0
            BY <1>1, <3>1, <3>2
        <5> QED BY <1>1, <5>1
      <4>2. x - (a + 1) <= i \/ x - (a + 1) >= j
          BY <2>1, <4>1
      <4> QED BY <1>1, <2>2, <3>1, <4>2
    <3>3. CASE x < a + 1
        BY <1>1, <2>2, <3>1, <3>3
    <3> QED BY <1>1, <3>1, <3>2, <3>3
  <2>4. SubSeq(r, k + 1, l - 1) = SubSeq(q, i + 1, j - 1)
    <3>1. i \in Nat /\ j \in Nat /\ i < j /\ j <= Len(q) + 1 /\ Len(r) = (a + 1) + Len(q) /\ a + 1 \in Nat
        BY <1>1, <2>1, <2>2 DEF n
    <3>2. \A x \in 1..Len(q) : r[(a + 1) + x] = q[x]
        BY <1>1 DEF n
    <3> DEFINE d == a + 1
    <3>3. d \in Nat /\ Len(r) = d + Len(q) /\ \A x \in 1..Len(q) : r[d + x] = q[x]
        BY <3>1, <3>2
    <3> HIDE DEF d
    <3>4. SubSeq(r, (i + d) + 1, (j + d) - 1) = SubSeq(q, i + 1, j - 1)
      <4>1. Shifts(V, q, r, d)
          BY <1>1, <3>3 DEF Shifts
      <4>2. Spans(q, i, j)
          BY <3>1 DEF Spans
      <4>3. SamePart(q, r, d, i, j)
          BY <4>1, <4>2, PartsBehind
      <4> QED BY <4>3 DEF SamePart
    <3> QED BY <3>4 DEF d
  <2>5. Gap(r, m, k, l)
      BY <2>2, <2>3 DEF Gap, R
  <2> QED BY <2>4, <2>5
<1>5. ASSUME NEW k, NEW l, Gap(r, m, k, l)
      PROVE  \/ Gap(p, m, k, l)
             \/ \E i, j : Gap(q, m, i, j) /\ k = i + (a + 1) /\ l = j + (a + 1) /\ i \in Nat /\ j \in Nat
  <2>1. k \in R /\ l \in R /\ k < l /\ \A x \in R : x <= k \/ x >= l
      BY <1>5 DEF Gap, R
  <2>2. k \in Int /\ l \in Int /\ a + 1 \in R /\ a + 1 \in Int
      BY <1>1, <1>2, <2>1
  <2>3. CASE l <= a + 1
    <3>1. k \in P /\ l \in P
        BY <1>1, <2>1, <2>2, <2>3
    <3>2. \A x \in P : x \in R
        BY <1>1
    <3> QED BY <2>1, <3>1, <3>2 DEF Gap, P
  <2>4. CASE k >= a + 1
    <3> DEFINE i == k - (a + 1)
               j == l - (a + 1)
    <3>1. i \in Int /\ j \in Int /\ i + (a + 1) = k /\ j + (a + 1) = l /\ i >= 0 /\ j >= 0 /\ i < j
        BY <2>1, <2>2, <2>4
    <3>2. i \in Q /\ j \in Q
        BY <1>1, <2>1, <3>1
    <3>3. \A x \in Q : x <= i \/ x >= j
      <4> TAKE x \in Q
      <4>1. x \in Int
          BY <1>1
      <4>2. x + (a + 1) \in R
          BY <1>1, <4>1
      <4> HIDE DEF i, j
      <4>3. x + (a + 1) <= k \/ x + (a + 1) >= l
          BY <2>1, <4>2
      <4> QED BY <2>2, <3>1, <4>1, <4>3
    <3> HIDE DEF i, j
    <3>4. Gap(q, m, i, j) /\ i \in Nat /\ j \in Nat
        BY <3>1, <3>2, <3>3 DEF Gap, Q
    <3> QED BY <3>1, <3>4
  <2> QED BY <2>1, <2>2, <2>3, <2>4
<1>6. ASSUME NEW x \in Pieces(r, m) PROVE x \in Pieces(p, m) \cup Pieces(q, m)
  <2>1. PICK k, l : Gap(r, m, k, l) /\ x = SubSeq(r, k + 1, l - 1)
      BY PieceIs
  <2>2. CASE Gap(p, m, k, l)
    <3>1. x = SubSeq(p, k + 1, l - 1)
        BY <1>3, <2>1, <2>2
    <3> QED BY <2>2, <3>1, PieceIs
  <2>3. CASE \E i, j : Gap(q, m, i, j) /\ k = i + (a + 1) /\ l = j + (a + 1) /\ i \in Nat /\ j \in Nat
    <3>1. PICK i, j : Gap(q, m, i, j) /\ k = i + (a + 1) /\ l = j + (a + 1) /\ i \in Nat /\ j \in Nat
        BY <2>3
    <3> DEFINE d == a + 1
    <3>2. i < j /\ j <= Len(q) + 1
      <4>1. i < j /\ j \in Q
          BY <3>1 DEF Gap, Q
      <4>2. j \in 0..(n + 1)
          BY <1>1, <4>1
      <4> QED BY <1>1, <4>1, <4>2 DEF n
    <3>3. d \in Nat /\ Len(r) = d + Len(q) /\ \A y \in 1..Len(q) : r[d + y] = q[y]
        BY <1>1 DEF n
    <3> HIDE DEF d
    <3>4. SubSeq(r, (i + d) + 1, (j + d) - 1) = SubSeq(q, i + 1, j - 1)
      <4>1. i \in Nat /\ j \in Nat /\ r \in Seq(V)
          BY <1>1, <3>1
      <4>2. Shifts(V, q, r, d)
          BY <3>3, <4>1 DEF Shifts
      <4>3. Spans(q, i, j)
          BY <3>2, <4>1 DEF Spans
      <4>4. SamePart(q, r, d, i, j)
          BY <4>2, <4>3, PartsBehind
      <4> QED BY <4>4 DEF SamePart
    <3>5. x = SubSeq(q, i + 1, j - 1)
        BY <2>1, <3>1, <3>4 DEF d
    <3> QED BY <3>1, <3>5, PieceIs
  <2> QED BY <1>5, <2>1, <2>2, <2>3
<1>7. ASSUME NEW x \in Pieces(p, m) PROVE x \in Pieces(r, m)
  <2>1. PICK i, j : Gap(p, m, i, j) /\ x = SubSeq(p, i + 1, j - 1)
      BY PieceIs
  <2>2. Gap(r, m, i, j) /\ x = SubSeq(r, i + 1, j - 1)
      BY <1>3, <2>1
  <2> QED BY <2>2, PieceIs
<1>8. ASSUME NEW x \in Pieces(q, m) PROVE x \in Pieces(r, m)
  <2>1. PICK i, j : Gap(q, m, i, j) /\ x = SubSeq(q, i + 1, j - 1)
      BY PieceIs
  <2>2. PICK k, l : Gap(r, m, k, l) /\ SubSeq(r, k + 1, l - 1) = SubSeq(q, i + 1, j - 1)
      BY <1>4, <2>1
  <2> QED BY <2>1, <2>2, PieceIs
<1> QED BY <1>6, <1>7, <1>8 DEF r

\* Without a mark
LEMMA PiecesWhole ==
    ASSUME NEW V, NEW p \in Seq(V), NEW m, \A i \in 1..Len(p) : p[i] # Mark(m)
    PROVE  Pieces(p, m) = {p}
<1> DEFINE n == Len(p)
<1>1. n \in Nat /\ DOMAIN p = 1..n /\ SubSeq(p, 1, n) = p
    OBVIOUS
<1>2. Ends(p, m) = {0, n + 1}
    BY <1>1 DEF Ends
<1>3. Gap(p, m, 0, n + 1)
  <2> HIDE DEF n
  <2> QED BY <1>1, <1>2 DEF Gap
<1>4. \A i, j : Gap(p, m, i, j) => i = 0 /\ j = n + 1
  <2> HIDE DEF n
  <2> QED BY <1>1, <1>2 DEF Gap
<1>5. 0 + 1 = 1 /\ (n + 1) - 1 = n
    BY <1>1
<1> HIDE DEF n
<1>6. p \in Pieces(p, m)
    BY <1>1, <1>3, <1>5, PieceIs
<1>7. \A x \in Pieces(p, m) : x = p
  <2> TAKE x \in Pieces(p, m)
  <2>1. PICK i, j : Gap(p, m, i, j) /\ x = SubSeq(p, i + 1, j - 1)
      BY PieceIs
  <2> QED BY <1>1, <1>4, <1>5, <2>1
<1> QED BY <1>6, <1>7

\* No mark is in it.
LEMMA PiecesOfOne ==
    ASSUME NEW V, NEW p \in Seq(V), NEW m, Mark(m) \notin ToSet(p)
    PROVE  Pieces(p, m) = {p}
<1>1. DOMAIN p = 1..Len(p)
    OBVIOUS
<1>2. \A i \in 1..Len(p) : p[i] \in ToSet(p)
    BY <1>1 DEF ToSet
<1>3. \A i \in 1..Len(p) : p[i] # Mark(m)
    BY <1>2
<1> QED BY <1>3, PiecesWhole

\* The first element of a sequence that is in S
LEMMA FirstOf ==
    ASSUME NEW V, NEW text \in Seq(V), NEW S, ToSet(text) \cap S # {}
    PROVE  \E w \in Seq(V), x \in V \cap S, z \in Seq(V) :
               /\ text = (w \o <<x>>) \o z /\ ToSet(w) \cap S = {}
               /\ \A k \in 1..Len(w) : w[k] = text[k]
               /\ x = text[Len(w) + 1] /\ Len(w) + 1 \in 1..Len(text)
<1> DEFINE n == Len(text)
           P == {i \in 1..n : text[i] \in S}
<1>1. n \in Nat /\ DOMAIN text = 1..n
    OBVIOUS
<1>2. P # {}
    BY <1>1 DEF ToSet
<1>3. P \in SUBSET (1..n)
    OBVIOUS
<1> HIDE DEF P
<1>4. Min(P) \in P /\ \A q \in P : Min(P) <= q
    BY <1>1, <1>2, <1>3, FirstPlace
<1> DEFINE i == Min(P)
<1>5. i \in 1..n /\ text[i] \in S /\ \A k \in 1..(i - 1) : text[k] \notin S
  <2>1. i \in 1..n
      BY <1>3, <1>4
  <2>2. \A q \in P : i <= q
      BY <1>4
  <2> HIDE DEF i
  <2>3. \A k \in 1..(i - 1) : k \in 1..n /\ ~(i <= k)
      BY <2>1
  <2>4. \A k \in 1..(i - 1) : k \notin P
      BY <2>2, <2>3
  <2>5. i \in P
      BY <1>4 DEF i
  <2> QED BY <2>1, <2>3, <2>4, <2>5 DEF P
<1> HIDE DEF i
<1> DEFINE w == SubSeq(text, 1, i - 1)
           x == text[i]
           z == SubSeq(text, i + 1, n)
<1>6. w \in Seq(V) /\ Len(w) = i - 1 /\ \A k \in 1..(i - 1) : w[k] = text[k]
    BY <1>5
<1>7. z \in Seq(V) /\ Len(z) = n - i /\ \A k \in 1..(n - i) : z[k] = text[i + k]
    BY <1>5
<1>8. x \in V
    BY <1>5
<1> HIDE DEF w, z, x
<1> DEFINE y == w \o <<x>>
<1>9. y \in Seq(V) /\ Len(y) = i /\ y[i] = x /\ \A k \in 1..(i - 1) : y[k] = w[k]
    BY <1>5, <1>6, <1>8
<1> HIDE DEF y
<1>10. \A k \in 1..i : text[k] = y[k]
  <2> TAKE k \in 1..i
  <2>1. CASE k = i
      BY <1>9, <2>1 DEF x
  <2>2. CASE k # i
    <3>1. k \in 1..(i - 1)
        BY <1>5, <2>2
    <3> QED BY <1>6, <1>9, <3>1
  <2> QED BY <2>1, <2>2
<1>11. Beside(y, z, text, V)
  <2>1. \A k \in 1..Len(z) : text[Len(y) + k] = z[k]
      BY <1>7, <1>9
  <2>2. Len(text) = Len(y) + Len(z)
      BY <1>1, <1>5, <1>7, <1>9 DEF n
  <2>3. \A k \in 1..Len(y) : text[k] = y[k]
      BY <1>9, <1>10
  <2> QED BY <1>7, <1>9, <2>1, <2>2, <2>3 DEF Beside
<1>12. text = y \o z
    BY <1>11, SideBySideIs
<1>13. ToSet(w) \cap S = {}
  <2>1. DOMAIN w = 1..(i - 1)
      BY <1>6
  <2> QED BY <1>5, <1>6, <2>1 DEF ToSet
<1>14. Len(w) + 1 = i
    BY <1>5, <1>6
<1>15. /\ text = (w \o <<x>>) \o z /\ ToSet(w) \cap S = {}
       /\ \A k \in 1..Len(w) : w[k] = text[k]
       /\ x = text[Len(w) + 1] /\ Len(w) + 1 \in 1..Len(text)
  <2>1. Len(w) + 1 \in 1..Len(text) /\ x = text[Len(w) + 1]
      BY <1>5, <1>14 DEF x, n
  <2>2. \A k \in 1..Len(w) : w[k] = text[k]
      BY <1>6
  <2> QED BY <1>12, <1>13, <2>1, <2>2 DEF y
<1>16. x \in V \cap S
    BY <1>5, <1>8 DEF x
<1> QED BY <1>6, <1>7, <1>15, <1>16

LEMMA Associates ==
    ASSUME NEW V
    PROVE  /\ \A x, y \in Seq(V) : x \o y \in Seq(V)
           /\ \A x, y, z \in Seq(V) : (x \o y) \o z = x \o (y \o z)
<1>1. \A x, y \in Seq(V) : x \o y \in Seq(V)
    OBVIOUS
<1>2. \A x, y, z \in Seq(V) : (x \o y) \o z = x \o (y \o z)
    BY ConcatAssociative
<1> QED BY <1>1, <1>2

LEMMA SetsBeside ==
    ASSUME NEW V, NEW a \in Seq(V), NEW b \in Seq(V)
    PROVE  ToSet(a \o b) = ToSet(a) \cup ToSet(b)
BY SideBySide

\* The same of texts
LEMMA TextsBeside ==
    /\ \A x, y \in Seq(Token) : x \o y \in Seq(Token) /\ ToSet(x \o y) = ToSet(x) \cup ToSet(y)
    /\ \A x, y, z \in Seq(Token) : (x \o y) \o z = x \o (y \o z)
    /\ \A x, y \in Seq(Token), m \in Word : Pieces((x \o <<Mark(m)>>) \o y, m) = Pieces(x, m) \cup Pieces(y, m)
    /\ \A x \in Seq(Token) : <<>> \o x = x /\ x \o <<>> = x
<1>1. ASSUME NEW x \in Seq(Token), NEW y \in Seq(Token)
      PROVE  x \o y \in Seq(Token) /\ ToSet(x \o y) = ToSet(x) \cup ToSet(y)
    BY Associates, SetsBeside
<1>2. \A x, y, z \in Seq(Token) : (x \o y) \o z = x \o (y \o z)
    BY Associates
<1>3. ASSUME NEW x \in Seq(Token), NEW y \in Seq(Token), NEW m \in Word
      PROVE  Pieces((x \o <<Mark(m)>>) \o y, m) = Pieces(x, m) \cup Pieces(y, m)
    BY TokensAre, PiecesBeside
<1>4. ASSUME NEW x \in Seq(Token) PROVE <<>> \o x = x /\ x \o <<>> = x
    OBVIOUS
<1> QED BY <1>1, <1>2, <1>3, <1>4

Turns(a, b, c) == (a \o b) \o c = a \o (b \o c)

LEMMA Turn == \A a, b, c \in Seq(Token) : Turns(a, b, c)
BY TextsBeside DEF Turns

Chain(a, b, c, d) == ((a \o b) \o c) \o d = a \o (b \o (c \o d)) /\ b \o (c \o d) \in Seq(Token)

LEMMA FourBeside ==
    ASSUME NEW a \in Seq(Token), NEW b \in Seq(Token), NEW c \in Seq(Token), NEW d \in Seq(Token)
    PROVE  Chain(a, b, c, d)
<1> DEFINE x == a \o b
           y == c \o d
<1>1. x \in Seq(Token) /\ y \in Seq(Token)
    BY TextsBeside
<1>2. (a \o b) \o y = a \o (b \o y) /\ b \o y \in Seq(Token)
  <2> HIDE DEF y
  <2>1. Turns(a, b, y)
      BY <1>1, Turn
  <2>2. b \o y \in Seq(Token)
      BY <1>1, TextsBeside
  <2> QED BY <2>1, <2>2 DEF Turns
<1>3. (x \o c) \o d = x \o (c \o d)
  <2> HIDE DEF x
  <2>1. Turns(x, c, d)
      BY <1>1, Turn
  <2> QED BY <2>1 DEF Turns
<1> QED BY <1>2, <1>3 DEF Chain

LEMMA Single ==
    ASSUME NEW V, NEW x \in V
    PROVE  <<x>> \in Seq(V) /\ Len(<<x>>) = 1 /\ <<x>>[1] = x /\ ToSet(<<x>>) = {x}
BY DEF ToSet

-----------------------------------------------------------------------------
(* Lists of texts with marks between them.                                  *)

JoinedFirst(parts, i, m) == JoinedBy(First(parts, i), m)

LEMMA JoinedGrows ==
    ASSUME NEW parts \in Seq(Seq(Token)), NEW m \in Word
    PROVE  /\ JoinedFirst(parts, 0, m) = <<>>
           /\ JoinedFirst(parts, Len(parts), m) = JoinedBy(parts, m)
           /\ \A i \in 0..Len(parts) : JoinedFirst(parts, i, m) \in Seq(Token)
           /\ \A i \in 1..Len(parts) : parts[i] \in Seq(Token)
           /\ \A i \in 1..Len(parts) : i = 1 => JoinedFirst(parts, i, m) = parts[i]
           /\ \A i \in 1..Len(parts) :
                 i # 1 => JoinedFirst(parts, i, m) = (JoinedFirst(parts, i - 1, m) \o <<Mark(m)>>) \o parts[i]
<1> DEFINE C == Seq(Token)
           M == Mark(m)
           n == Len(parts)
           Part(i) == IF i = 1 THEN parts[i] ELSE <<M>> \o parts[i]
           s == [i \in 1..n |-> Part(i)]
           F(i) == FlattenSeq(First(s, i))
<1>1. n \in Nat /\ DOMAIN parts = 1..n /\ \A i \in 1..n : parts[i] \in C
  <2>1. parts \in Seq(C)
      OBVIOUS
  <2> HIDE DEF C
  <2> QED BY <2>1
<1>2. M \in Token
    BY TokensAre
<1> HIDE DEF M
<1>3. \A t \in C : <<M>> \o t \in C
    BY <1>2
<1>4. s \in Seq(C) /\ Len(s) = n /\ \A i \in 1..n : s[i] = Part(i)
  <2> HIDE DEF C, n
  <2>1. \A i \in 1..n : Part(i) \in C
      BY <1>1, <1>3
  <2> HIDE DEF Part
  <2> QED BY <1>1, <2>1
<1> HIDE DEF s, n
<1>5. ASSUME NEW i \in 0..n PROVE JoinedFirst(parts, i, m) = F(i)
  <2>1. \A k \in 1..i : k \in 1..n
      BY <1>1
  <2>2. DOMAIN First(parts, i) = 1..i /\ \A k \in 1..i : First(parts, i)[k] = parts[k]
      BY DEF First
  <2>3. JoinedFirst(parts, i, m) = FlattenSeq([k \in 1..i |-> IF k = 1 THEN parts[k] ELSE <<M>> \o parts[k]])
      BY <2>2 DEF JoinedFirst, JoinedBy, M
  <2>4. First(s, i) = [k \in 1..i |-> Part(k)]
      BY <1>4, <2>1 DEF First
  <2> QED BY <2>3, <2>4
<1>6. /\ F(0) = <<>> /\ F(n) = FlattenSeq(s)
      /\ \A i \in 1..n : F(i) = F(i - 1) \o s[i]
      /\ \A i \in 0..n : F(i) \in C
  <2>1. s \in Seq(Seq(Token)) /\ Len(s) = n
      BY <1>4
  <2> QED BY <2>1, FlattenFirst
<1>7. JoinedBy(parts, m) = FlattenSeq(s)
    BY <1>1 DEF JoinedBy, s, M
<1> HIDE DEF F
<1>8. 0 \in 0..n /\ n \in 0..n
    BY <1>1
<1>9. ASSUME NEW i \in 1..n
      PROVE  JoinedFirst(parts, i, m) = IF i = 1 THEN parts[i]
                                        ELSE (JoinedFirst(parts, i - 1, m) \o <<M>>) \o parts[i]
  <2>1. i \in 0..n /\ i - 1 \in 0..n
      BY <1>1
  <2>2. JoinedFirst(parts, i, m) = F(i - 1) \o Part(i) /\ F(i - 1) = JoinedFirst(parts, i - 1, m) /\ F(i - 1) \in C
      BY <1>4, <1>5, <1>6, <2>1
  <2>3. CASE i = 1
    <3>1. F(i - 1) = <<>>
        BY <1>6, <2>3
    <3>2. parts[i] \in Seq(Token)
        BY <1>1
    <3>3. <<>> \o parts[i] = parts[i]
        BY <3>2
    <3>4. Part(i) = parts[i]
        BY <2>3
    <3> QED BY <2>2, <2>3, <3>1, <3>3, <3>4
  <2>4. CASE i # 1
    <3> DEFINE a == F(i - 1)
               b == <<M>>
               c == parts[i]
    <3>1. \A x, y, z \in Seq(Token) : x \o (y \o z) = (x \o y) \o z
      <4>1. \A x, y, z \in Seq(Token) : (x \o y) \o z = x \o (y \o z)
          BY ConcatAssociative
      <4> QED BY <4>1
    <3>2. a \in Seq(Token) /\ b \in Seq(Token) /\ c \in Seq(Token)
        BY <1>1, <1>2, <2>2
    <3>3. Part(i) = b \o c
        BY <2>4
    <3> HIDE DEF a, b, c, Part
    <3>4. a \o (b \o c) = (a \o b) \o c
        BY <3>1, <3>2, Zenon
    <3> QED BY <2>2, <2>4, <3>3, <3>4 DEF a, b, c
  <2> QED BY <2>3, <2>4
<1>10. \A i \in 0..n : JoinedFirst(parts, i, m) \in Seq(Token)
    BY <1>5, <1>6
<1>11. JoinedFirst(parts, 0, m) = <<>> /\ JoinedFirst(parts, n, m) = JoinedBy(parts, m)
    BY <1>5, <1>6, <1>7, <1>8
<1> QED BY <1>1, <1>9, <1>10, <1>11 DEF n, M

\* The pieces of a list are those of its texts.
LEMMA PiecesJoined ==
    ASSUME NEW parts \in Seq(Seq(Token)), NEW m \in Word, Len(parts) # 0
    PROVE  Pieces(JoinedBy(parts, m), m) = UNION {Pieces(parts[i], m) : i \in 1..Len(parts)}
<1> DEFINE n == Len(parts)
           J(i) == JoinedFirst(parts, i, m)
           U(i) == UNION {Pieces(parts[k], m) : k \in 1..i}
           G == {i \in 0..n : i # 0 => Pieces(J(i), m) = U(i)}
<1>1. n \in Nat /\ Mark(m) \in Token
    BY TokensAre
<1>2. /\ J(n) = JoinedBy(parts, m)
      /\ \A i \in 0..n : J(i) \in Seq(Token)
      /\ \A i \in 1..n : parts[i] \in Seq(Token)
      /\ \A i \in 1..n : i = 1 => J(i) = parts[i]
      /\ \A i \in 1..n : i # 1 => J(i) = (J(i - 1) \o <<Mark(m)>>) \o parts[i]
    BY JoinedGrows
<1> HIDE DEF J, n
<1>3. 0 \in G
    BY <1>1
<1>4. ASSUME NEW i \in 0..(n - 1), i # 0 => Pieces(J(i), m) = U(i) PROVE i + 1 \in 0..n /\ Pieces(J(i + 1), m) = U(i + 1)
  <2>1. i + 1 \in 1..n /\ i + 1 \in 0..n /\ (i + 1) - 1 = i /\ i \in 0..n /\ i \in Nat
      BY <1>1
  <2>2. U(i + 1) = U(i) \cup Pieces(parts[i + 1], m)
    <3>1. 1..(i + 1) = (1..i) \cup {i + 1}
        BY <2>1
    <3> QED BY <3>1
  <2>3. CASE i = 0
    <3>1. J(i + 1) = parts[i + 1]
      <4> HIDE DEF U
      <4> QED BY <1>2, <2>1, <2>3
    <3>2. 1..i = {}
        BY <2>3
    <3>3. U(i) = {}
        BY <3>2
    <3> HIDE DEF U
    <3> QED BY <2>1, <2>2, <3>1, <3>3
  <2>4. CASE i # 0
    <3> HIDE DEF U
    <3>0. i + 1 # 1
        BY <2>1, <2>4
    <3>1. J(i + 1) = (J((i + 1) - 1) \o <<Mark(m)>>) \o parts[i + 1]
        BY <1>2, <2>1, <3>0, Zenon
    <3>2. J(i) \in Seq(Token) /\ parts[i + 1] \in Seq(Token)
        BY <1>2, <2>1
    <3>3. Pieces((J(i) \o <<Mark(m)>>) \o parts[i + 1], m) = Pieces(J(i), m) \cup Pieces(parts[i + 1], m)
        BY <3>2, TextsBeside
    <3>4. Pieces(J(i + 1), m) = Pieces(J(i), m) \cup Pieces(parts[i + 1], m)
        BY <2>1, <3>1, <3>3, Zenon
    <3> QED BY <1>4, <2>1, <2>2, <2>4, <3>4
  <2> QED BY <2>3, <2>4
<1> HIDE DEF U
<1>5. n \in G
  <2>0. \A i \in 0..(n - 1) : i \in G => i + 1 \in G
      BY <1>4
  <2> HIDE DEF G
  <2>1. 0..n \subseteq G
      BY <1>1, <1>3, <2>0, Upwards
  <2> QED BY <1>1, <2>1
<1> QED BY <1>2, <1>5 DEF n, U

\* What stands before a text of a list, and behind it
LEMMA JoinedAround ==
    ASSUME NEW parts \in Seq(Seq(Token)), NEW m \in Word, NEW k \in 1..Len(parts)
    PROVE  \E z \in Seq(Token) :
               JoinedBy(parts, m) = JoinedFirst(parts, k, m) \o z
<1> DEFINE n == Len(parts)
           J(i) == JoinedFirst(parts, i, m)
           G == {d \in 0..(n - k) : \E z \in Seq(Token) : J(k + d) = J(k) \o z}
<1>1. n \in Nat /\ k \in Nat /\ n - k \in Nat /\ k \in 0..n /\ k <= n
    OBVIOUS
<1>2. Mark(m) \in Token
    BY TokensAre
<1>3. /\ J(n) = JoinedBy(parts, m)
      /\ \A i \in 0..n : J(i) \in Seq(Token)
      /\ \A i \in 1..n : parts[i] \in Seq(Token)
      /\ \A i \in 1..n : i = 1 => J(i) = parts[i]
      /\ \A i \in 1..n : i # 1 => J(i) = (J(i - 1) \o <<Mark(m)>>) \o parts[i]
    BY JoinedGrows
<1> HIDE DEF J, n
<1>4. J(k) \in Seq(Token)
    BY <1>1, <1>3
<1>5. 0 \in G
  <2>1. J(k + 0) = J(k) \o <<>>
    <3>1. k + 0 = k
        BY <1>1
    <3>2. J(k) \o <<>> = J(k)
        BY <1>4
    <3> QED BY <3>1, <3>2
  <2>2. <<>> \in Seq(Token) /\ 0 \in 0..(n - k)
      BY <1>1
  <2> QED BY <2>1, <2>2
<1>6. ASSUME NEW d \in 0..((n - k) - 1), d \in G PROVE d + 1 \in G
  <2>1. k + (d + 1) \in 1..n /\ (k + (d + 1)) - 1 = k + d /\ d + 1 \in 0..(n - k) /\ k + (d + 1) # 1
      BY <1>1
  <2>2. PICK z \in Seq(Token) : J(k + d) = J(k) \o z
      BY <1>6
  <2> DEFINE a == J(k)
             b == <<Mark(m)>>
             c == parts[k + (d + 1)]
  <2>3. J(k + (d + 1)) = ((a \o z) \o b) \o c
      BY <1>3, <2>1, <2>2
  <2>4. a \in Seq(Token) /\ b \in Seq(Token) /\ c \in Seq(Token)
    <3>1. c \in Seq(Token)
        BY <1>3, <2>1
    <3>2. b \in Seq(Token)
      <4> DEFINE M == Mark(m)
      <4>1. M \in Token
          BY <1>2
      <4> HIDE DEF M
      <4>2. <<M>> \in Seq(Token)
          BY <4>1
      <4> QED BY <4>2 DEF M
    <3> QED BY <1>4, <3>1, <3>2
  <2> HIDE DEF a, b, c
  <2>5. z \in Seq(Token)
      BY <2>2
  <2>6. Chain(a, z, b, c)
      BY <2>4, <2>5, FourBeside
  <2>7. ((a \o z) \o b) \o c = a \o (z \o (b \o c)) /\ z \o (b \o c) \in Seq(Token)
      BY <2>6 DEF Chain
  <2>9. z \o (b \o c) \in Seq(Token)
      BY <2>7
  <2>10. J(k + (d + 1)) = J(k) \o (z \o (b \o c))
      BY <2>3, <2>7 DEF a
  <2>11. d + 1 \in {e \in 0..(n - k) : \E y \in Seq(Token) : J(k + e) = J(k) \o y}
      BY <2>1, <2>9, <2>10
  <2> QED BY <2>11 DEF G
<1> HIDE DEF G
<1>7. n - k \in G
  <2>1. 0..(n - k) \subseteq G
      BY <1>1, <1>5, <1>6, Upwards
  <2> QED BY <1>1, <2>1
<1>8. k + (n - k) = n
    BY <1>1
<1> QED BY <1>3, <1>7, <1>8 DEF G, J

\* A list holds nothing but its texts and the marks between them.
LEMMA JoinedHolds ==
    ASSUME NEW parts \in Seq(Seq(Token)), NEW m \in Word, NEW k \in 0..Len(parts), NEW S,
           \A i \in 1..k : ToSet(parts[i]) \cap S = {}, Mark(m) \notin S
    PROVE  ToSet(JoinedFirst(parts, k, m)) \cap S = {}
<1> DEFINE n == Len(parts)
           J(i) == JoinedFirst(parts, i, m)
           G == {i \in 0..k : ToSet(J(i)) \cap S = {}}
<1>1. n \in Nat /\ k \in Nat /\ k <= n
    OBVIOUS
<1>2. Mark(m) \in Token
    BY TokensAre
<1>3. /\ J(0) = <<>>
      /\ \A i \in 0..n : J(i) \in Seq(Token)
      /\ \A i \in 1..n : parts[i] \in Seq(Token)
      /\ \A i \in 1..n : i = 1 => J(i) = parts[i]
      /\ \A i \in 1..n : i # 1 => J(i) = (J(i - 1) \o <<Mark(m)>>) \o parts[i]
    BY JoinedGrows
<1> HIDE DEF J, n
<1>4. 0 \in G
  <2>1. ToSet(<<>>) = {}
      BY DEF ToSet
  <2> QED BY <1>1, <1>3, <2>1
<1>5. ASSUME NEW i \in 0..(k - 1), i \in G PROVE i + 1 \in G
  <2>1. i + 1 \in 1..n /\ i + 1 \in 1..k /\ i + 1 \in 0..k /\ (i + 1) - 1 = i /\ i \in 0..n
      BY <1>1
  <2>2. ToSet(parts[i + 1]) \cap S = {}
      BY <2>1
  <2>3. CASE i + 1 = 1
      BY <1>3, <2>1, <2>2, <2>3
  <2>4. CASE i + 1 # 1
    <3> DEFINE a == J(i)
               b == <<Mark(m)>>
               c == parts[i + 1]
    <3>1. J(i + 1) = (a \o b) \o c
        BY <1>3, <2>1, <2>4
    <3>2. a \in Seq(Token) /\ c \in Seq(Token)
        BY <1>3, <2>1
    <3>3. b \in Seq(Token) /\ ToSet(b) = {Mark(m)}
      <4> DEFINE M == Mark(m)
      <4>1. M \in Token
          BY <1>2
      <4> HIDE DEF M
      <4>2. <<M>> \in Seq(Token) /\ ToSet(<<M>>) = {M}
          BY <4>1 DEF ToSet
      <4> QED BY <4>2 DEF M
    <3> HIDE DEF a, b, c
    <3>4. a \o b \in Seq(Token) /\ ToSet(a \o b) = ToSet(a) \cup ToSet(b)
        BY <3>2, <3>3, Associates, SetsBeside
    <3>5. ToSet((a \o b) \o c) = ToSet(a \o b) \cup ToSet(c)
        BY <3>2, <3>4, TextsBeside, Zenon
    <3>6. ToSet(a) \cap S = {} /\ ToSet(c) \cap S = {}
        BY <1>5, <2>2 DEF a, c
    <3> QED BY <2>1, <3>1, <3>3, <3>4, <3>5, <3>6
  <2> QED BY <2>3, <2>4
<1> HIDE DEF G
<1>6. k \in G
  <2>1. 0..k \subseteq G
      BY <1>1, <1>4, <1>5, Upwards
  <2> QED BY <1>1, <2>1
<1> QED BY <1>6 DEF G, J

\* What is in a sequence of sequences
LEMMA FlattenHolds ==
    ASSUME NEW V, NEW s \in Seq(Seq(V))
    PROVE  ToSet(FlattenSeq(s)) = UNION {ToSet(s[i]) : i \in 1..Len(s)}
<1> DEFINE n == Len(s)
           F(i) == FlattenSeq(First(s, i))
           U(i) == UNION {ToSet(s[k]) : k \in 1..i}
           G == {i \in 0..n : ToSet(F(i)) = U(i)}
           C == Seq(V)
<1>1. /\ F(0) = <<>> /\ F(n) = FlattenSeq(s)
      /\ \A i \in 1..n : F(i) = F(i - 1) \o s[i]
      /\ \A i \in 0..n : F(i) \in C
    BY FlattenFirst
<1>2. n \in Nat /\ \A i \in 1..n : s[i] \in C
  <2>1. s \in Seq(C)
      OBVIOUS
  <2> HIDE DEF C
  <2> QED BY <2>1
<1> HIDE DEF F, n
<1>3. 0 \in G
  <2>1. ToSet(<<>>) = {}
      BY DEF ToSet
  <2>2. 1..0 = {}
      OBVIOUS
  <2> QED BY <1>1, <1>2, <2>1, <2>2
<1>4. ASSUME NEW i \in 0..(n - 1), i \in G PROVE i + 1 \in G
  <2>1. i + 1 \in 1..n /\ i + 1 \in 0..n /\ (i + 1) - 1 = i /\ i \in 0..n
      BY <1>2
  <2>2. F(i + 1) = F(i) \o s[i + 1] /\ F(i) \in C /\ s[i + 1] \in C
      BY <1>1, <1>2, <2>1
  <2>3. ToSet(F(i + 1)) = ToSet(F(i)) \cup ToSet(s[i + 1])
      BY <2>2, SetsBeside
  <2>4. U(i + 1) = U(i) \cup ToSet(s[i + 1])
    <3>1. 1..(i + 1) = (1..i) \cup {i + 1}
        BY <2>1
    <3> QED BY <3>1
  <2> HIDE DEF U
  <2> QED BY <1>4, <2>1, <2>3, <2>4
<1>5. 0..n \subseteq G
  <2> HIDE DEF G
  <2> QED BY <1>2, <1>3, <1>4, Upwards
<1>6. n \in G
    BY <1>2, <1>5
<1> HIDE DEF U
<1>7. ToSet(F(n)) = U(n)
    BY <1>6
<1> QED BY <1>1, <1>7 DEF U, n

\* Of its elements one by one a sequence is made again.
LEMMA FlattenSingles ==
    ASSUME NEW V, NEW w \in Seq(V), NEW s, s \in Seq(Seq(V)), Len(s) = Len(w), \A i \in 1..Len(w) : s[i] = <<w[i]>>
    PROVE  FlattenSeq(s) = w
<1> DEFINE n == Len(s)
           F(i) == FlattenSeq(First(s, i))
           G == {i \in 0..n : Len(F(i)) = i /\ \A k \in 1..i : F(i)[k] = w[k]}
           C == Seq(V)
<1>1. /\ F(0) = <<>> /\ F(n) = FlattenSeq(s)
      /\ \A i \in 1..n : F(i) = F(i - 1) \o s[i]
      /\ \A i \in 0..n : F(i) \in C
    BY FlattenFirst
<1>2. n \in Nat /\ DOMAIN w = 1..n /\ DOMAIN s = 1..n /\ n = Len(w) /\ \A i \in 1..n : w[i] \in V
  <2>1. s \in Seq(C)
      OBVIOUS
  <2> HIDE DEF C
  <2>2. n \in Nat /\ DOMAIN s = 1..n
      BY <2>1
  <2>3. DOMAIN w = 1..Len(w) /\ Len(w) \in Nat /\ n = Len(w)
      OBVIOUS
  <2> HIDE DEF n
  <2> QED BY <2>2, <2>3
<1> HIDE DEF F, n
<1>3. 0 \in G
    BY <1>1, <1>2
<1>4. ASSUME NEW i \in 0..(n - 1), i \in G PROVE i + 1 \in G
  <2>1. i + 1 \in 1..n /\ i + 1 \in 0..n /\ (i + 1) - 1 = i /\ i \in 0..n /\ i \in Nat
      BY <1>2
  <2> DEFINE f == F(i)
             x == w[i + 1]
             g == F(i + 1)
  <2>2. g = f \o <<x>> /\ f \in Seq(V) /\ x \in V
      BY <1>1, <1>2, <2>1
  <2>3. Len(f) = i /\ \A k \in 1..i : f[k] = w[k]
      BY <1>4
  <2> HIDE DEF f, g
  <2>4. Len(g) = i + 1 /\ g[i + 1] = x /\ \A k \in 1..i : g[k] = f[k]
    <3> HIDE DEF x
    <3> QED BY <2>1, <2>2, <2>3
  <2>5. \A k \in 1..(i + 1) : g[k] = w[k]
    <3> TAKE k \in 1..(i + 1)
    <3>1. k = i + 1 \/ k \in 1..i
        BY <2>1
    <3> QED BY <2>3, <2>4, <3>1
  <2> QED BY <2>1, <2>4, <2>5 DEF g
<1>5. 0..n \subseteq G
  <2> HIDE DEF G
  <2> QED BY <1>2, <1>3, <1>4, Upwards
<1>6. n \in G
    BY <1>2, <1>5
<1>7. F(n) \in Seq(V) /\ Len(F(n)) = n /\ \A k \in 1..n : F(n)[k] = w[k]
    BY <1>1, <1>2, <1>6
<1>8. F(n) = w
    BY <1>2, <1>7
<1> QED BY <1>1, <1>8

-----------------------------------------------------------------------------
(* Escape.                                                                  *)

EscapeOf == [tok \in Token |-> IF tok = Mark(";") THEN <<Mark("\\"), tok>> ELSE <<tok>>]

LEMMA MarksAre ==
    /\ Mark(";") \in Token /\ Mark(":") \in Token /\ Mark("=") \in Token /\ Mark("|") \in Token
    /\ Mark("\\") \in Token
    /\ {";", ":", "=", "|", "\\", "scopes", "ignore"} \cup Target \subseteq Word
<1>1. {";", ":", "=", "|", "\\", "scopes", "ignore"} \cup Target \subseteq Word
    BY DEF Word
<1>2. Mark(";") \in Token /\ Mark(":") \in Token /\ Mark("=") \in Token /\ Mark("|") \in Token
    BY <1>1, TokensAre
<1>3. Mark("\\") \in Token
    BY <1>1, TokensAre
<1> QED BY <1>1, <1>2, <1>3

\* The image of a sequence is as long.
Imaged(f, w, V) ==
    /\ DOMAIN w = 1..Len(w) /\ Len(w) \in Nat /\ Len(EachOf(f, w)) = Len(w)
    /\ \A i \in 1..Len(w) : EachOf(f, w)[i] = f[w[i]] /\ w[i] \in V /\ w[i] \in ToSet(w)

LEMMA ImageLength ==
    ASSUME NEW V, NEW w \in Seq(V), NEW f
    PROVE  Imaged(f, w, V)
<1>1. DOMAIN w = 1..Len(w) /\ Len(w) \in Nat /\ \A i \in 1..Len(w) : w[i] \in V
    OBVIOUS
<1>2. \A i \in 1..Len(w) : w[i] \in ToSet(w)
    BY <1>1 DEF ToSet
<1>3. EachOf(f, w) = [k \in 1..Len(w) |-> f[w[k]]]
    BY <1>1 DEF EachOf
<1>4. Len(EachOf(f, w)) = Len(w) /\ \A i \in 1..Len(w) : EachOf(f, w)[i] = f[w[i]]
    BY <1>1, <1>3
<1> QED BY <1>1, <1>2, <1>4 DEF Imaged

LEMMA ImagesFlatten ==
    ASSUME NEW D, NEW W, NEW f, Maps(f, D, Seq(W))
    PROVE  \A c, e \in Seq(D) :
               FlattenSeq(EachOf(f, c \o e)) = FlattenSeq(EachOf(f, c)) \o FlattenSeq(EachOf(f, e))
BY FlattenImages

LEMMA EscapeMaps == Maps(EscapeOf, Token, Seq(Token))
<1> DEFINE C == Seq(Token)
           E(t) == IF t = Mark(";") THEN <<Mark("\\"), t>> ELSE <<t>>
           M == Mark("\\")
<1>1. ASSUME NEW t \in Token PROVE E(t) \in C
  <2>1. M \in Token
      BY MarksAre
  <2> HIDE DEF M
  <2>2. <<t>> \in Seq(Token) /\ <<M, t>> \in Seq(Token)
      BY <2>1
  <2> QED BY <2>2 DEF M
<1> HIDE DEF C, E
<1>2. [t \in Token |-> E(t)] \in [Token -> C]
    BY <1>1
<1> QED BY <1>2 DEF C, E, Maps, EscapeOf

LEMMA EscapeIs ==
    ASSUME NEW text \in Seq(Token)
    PROVE  Escape(text) = FlattenSeq(EachOf(EscapeOf, text))
<1>1. \A i \in DOMAIN text : text[i] \in Token
    OBVIOUS
<1>2. \A i \in DOMAIN text : EscapeOf[text[i]] = IF text[i] = Mark(";") THEN <<Mark("\\"), text[i]>> ELSE <<text[i]>>
    BY <1>1 DEF EscapeOf
<1>3. EachOf(EscapeOf, text) = [i \in DOMAIN text |-> IF text[i] = Mark(";") THEN <<Mark("\\"), text[i]>> ELSE <<text[i]>>]
    BY <1>2 DEF EachOf
<1> QED BY <1>3 DEF Escape

LEMMA EscapeJoins ==
    ASSUME NEW x \in Seq(Token), NEW y \in Seq(Token)
    PROVE  Escape(x \o y) = Escape(x) \o Escape(y)
<1> DEFINE E(t) == FlattenSeq(EachOf(EscapeOf, t))
           z == x \o y
<1>1. E(z) = E(x) \o E(y)
  <2> DEFINE D == Token
             f == EscapeOf
  <2>1. Maps(f, D, Seq(D)) /\ x \in Seq(D) /\ y \in Seq(D)
      BY EscapeMaps
  <2> HIDE DEF D, f
  <2>2. FlattenSeq(EachOf(f, x \o y)) = FlattenSeq(EachOf(f, x)) \o FlattenSeq(EachOf(f, y))
      BY <2>1, ImagesFlatten
  <2> QED BY <2>2 DEF f
<1>2. z \in Seq(Token)
    OBVIOUS
<1> HIDE DEF z
<1>3. Escape(z) = E(z) /\ Escape(x) = E(x) /\ Escape(y) = E(y)
    BY <1>2, EscapeIs
<1> HIDE DEF E
<1> QED BY <1>1, <1>3 DEF z

\* Without a ";" nothing is escaped.
LEMMA EscapeNothing ==
    ASSUME NEW w \in Seq(Token), Mark(";") \notin ToSet(w)
    PROVE  Escape(w) = w
<1> DEFINE s == EachOf(EscapeOf, w)
           C == Seq(Token)
<1>1. s \in Seq(Seq(Token))
  <2>1. Maps(EscapeOf, Token, C)
      BY EscapeMaps
  <2> HIDE DEF C
  <2>2. s \in Seq(C)
      BY <2>1, ImagesJoin
  <2> QED BY <2>2 DEF C
<1>2. Len(s) = Len(w) /\ \A i \in 1..Len(w) : s[i] = EscapeOf[w[i]] /\ w[i] \in Token /\ w[i] \in ToSet(w)
  <2>1. Imaged(EscapeOf, w, Token)
      BY ImageLength
  <2> QED BY <2>1 DEF Imaged
<1>3. \A i \in 1..Len(w) : s[i] = <<w[i]>>
  <2> TAKE i \in 1..Len(w)
  <2>1. w[i] \in Token /\ w[i] # Mark(";")
      BY <1>2
  <2>2. EscapeOf[w[i]] = <<w[i]>>
      BY <2>1 DEF EscapeOf
  <2> QED BY <1>2, <2>2
<1> HIDE DEF s
<1>4. FlattenSeq(s) = w
    BY <1>1, <1>2, <1>3, FlattenSingles
<1> QED BY <1>4, EscapeIs DEF s

LEMMA EscapeMark == Escape(<<Mark(";")>>) = <<Mark("\\")>> \o <<Mark(";")>>
<1> DEFINE M == Mark(";")
           B == Mark("\\")
           x == <<M>>
           q == <<B, M>>
<1>1. M \in Token /\ B \in Token
    BY MarksAre
<1>2. EscapeOf[M] = q
    BY <1>1 DEF EscapeOf
<1>3. Escape(x) = FlattenSeq(EachOf(EscapeOf, x))
  <2> HIDE DEF M
  <2>1. x \in Seq(Token)
      BY <1>1
  <2> QED BY <2>1, EscapeIs
<1>4. q = <<B>> \o <<M>> /\ q \in Seq(Token)
  <2> HIDE DEF M, B
  <2> QED BY <1>1, TuplesJoin
<1> HIDE DEF q, M, B
<1>5. EachOf(EscapeOf, x) = <<q>>
  <2>1. DOMAIN x = 1..1 /\ x[1] = M
      OBVIOUS
  <2>2. EachOf(EscapeOf, x) = [k \in 1..1 |-> EscapeOf[x[k]]]
      BY <2>1 DEF EachOf
  <2>3. \A k \in 1..1 : EscapeOf[x[k]] = q
      BY <1>2, <2>1
  <2>4. <<q>> = [k \in 1..1 |-> q]
      OBVIOUS
  <2> QED BY <2>2, <2>3, <2>4
<1>6. FlattenSeq(<<q>>) = q
    BY <1>4, FlattenOne
<1> QED BY <1>3, <1>4, <1>5, <1>6 DEF M, B

\* What is before a ";" keeps, with a "\" behind it; then comes the ";" again.
LEMMA EscapeTorn ==
    ASSUME NEW w \in Seq(Token), NEW z \in Seq(Token), Mark(";") \notin ToSet(w)
    PROVE  Escape((w \o <<Mark(";")>>) \o z) = ((w \o <<Mark("\\")>>) \o <<Mark(";")>>) \o Escape(z)
<1> DEFINE x == <<Mark(";")>>
           b == <<Mark("\\")>>
           y == w \o x
           e == Escape(z)
<1>1. x \in Seq(Token) /\ b \in Seq(Token)
    BY MarksAre, Single
<1>2. Escape(x) = b \o x
    BY EscapeMark
<1>3. e \in Seq(Token)
    BY EscapeType
<1> HIDE DEF x, b, e
<1>4. y \in Seq(Token)
    BY <1>1, TextsBeside
<1>5. Escape(y) = w \o (b \o x)
  <2>1. Escape(y) = Escape(w) \o Escape(x)
      BY <1>1, EscapeJoins
  <2>2. Escape(w) = w
      BY EscapeNothing
  <2> HIDE DEF y
  <2>3. Escape(w) \o Escape(x) = w \o (b \o x)
      BY <1>2, <2>2
  <2> QED BY <2>1, <2>3
<1>6. w \o (b \o x) = (w \o b) \o x
  <2>1. Turns(w, b, x)
      BY <1>1, Turn
  <2> QED BY <2>1 DEF Turns
<1>7. Escape(y \o z) = Escape(y) \o e
  <2> HIDE DEF y
  <2> QED BY <1>4, EscapeJoins DEF e
<1>8. Escape(y \o z) = ((w \o b) \o x) \o e
    BY <1>5, <1>6, <1>7
<1> QED BY <1>8 DEF x, b, e, y

\* Nothing comes in but "\".
LEMMA EscapeHolds ==
    ASSUME NEW text \in Seq(Token)
    PROVE  ToSet(Escape(text)) \subseteq ToSet(text) \cup {Mark("\\")}
<1> DEFINE s == EachOf(EscapeOf, text)
           C == Seq(Token)
<1>1. s \in Seq(Seq(Token)) /\ Len(s) \in Nat /\ DOMAIN s = 1..Len(s)
  <2>1. Maps(EscapeOf, Token, C)
      BY EscapeMaps
  <2> HIDE DEF C
  <2>2. s \in Seq(C)
      BY <2>1, ImagesJoin
  <2> HIDE DEF s
  <2>3. Len(s) \in Nat /\ DOMAIN s = 1..Len(s)
      BY <2>2
  <2> QED BY <2>2, <2>3 DEF C
<1>2. DOMAIN s = DOMAIN text
    BY DEF EachOf
<1>3. ASSUME NEW i \in 1..Len(s) PROVE ToSet(s[i]) \subseteq ToSet(text) \cup {Mark("\\")}
  <2>1. i \in DOMAIN text
      BY <1>1, <1>2
  <2>2. text[i] \in Token /\ text[i] \in ToSet(text)
      BY <2>1 DEF ToSet
  <2>3. s[i] = EscapeOf[text[i]]
      BY <2>1 DEF EachOf
  <2>4. EscapeOf[text[i]] = IF text[i] = Mark(";") THEN <<Mark("\\"), text[i]>> ELSE <<text[i]>>
      BY <2>2 DEF EscapeOf
  <2> HIDE DEF s
  <2> DEFINE B == Mark("\\")
             x == text[i]
  <2>5. ToSet(<<B, x>>) = {B, x} /\ ToSet(<<x>>) = {x}
      BY DEF ToSet
  <2> QED BY <2>2, <2>3, <2>4, <2>5
<1> HIDE DEF s
<1>4. ToSet(FlattenSeq(s)) = UNION {ToSet(s[i]) : i \in 1..Len(s)}
    BY <1>1, FlattenHolds
<1>5. ToSet(FlattenSeq(s)) \subseteq ToSet(text) \cup {Mark("\\")}
    BY <1>3, <1>4
<1> QED BY <1>5, EscapeIs DEF s

\* What is known of every sequence
Proper(s, V) ==
    /\ DOMAIN s = 1..Len(s) /\ Len(s) \in Nat
    /\ \A k \in 1..Len(s) : s[k] \in V /\ s[k] \in ToSet(s)
    /\ \A x \in ToSet(s) : \E k \in 1..Len(s) : x = s[k]

LEMMA ProperIs ==
    ASSUME NEW V, NEW s \in Seq(V)
    PROVE  Proper(s, V)
<1>1. DOMAIN s = 1..Len(s) /\ Len(s) \in Nat /\ \A k \in 1..Len(s) : s[k] \in V
    OBVIOUS
<1>2. ToSet(s) = {s[k] : k \in 1..Len(s)}
    BY <1>1 DEF ToSet
<1>3. /\ \A k \in 1..Len(s) : s[k] \in ToSet(s)
      /\ \A x \in ToSet(s) : \E k \in 1..Len(s) : x = s[k]
    BY <1>2
<1> QED BY <1>1, <1>3 DEF Proper

Glued(x, y) == x \o y \in Seq(Token) /\ ToSet(x \o y) = ToSet(x) \cup ToSet(y)

LEMMA Glue == \A x, y \in Seq(Token) : Glued(x, y)
BY TextsBeside DEF Glued

CutInTwo(x, y, m) == Pieces((x \o <<Mark(m)>>) \o y, m) = Pieces(x, m) \cup Pieces(y, m)

LEMMA CutsInTwo == \A x, y \in Seq(Token), m \in Word : CutInTwo(x, y, m)
BY TextsBeside DEF CutInTwo

FirstIn(text, S, V) ==
    \E w \in Seq(V), x \in V \cap S, z \in Seq(V) :
        /\ text = (w \o <<x>>) \o z /\ ToSet(w) \cap S = {}
        /\ \A k \in 1..Len(w) : w[k] = text[k]
        /\ x = text[Len(w) + 1] /\ Len(w) + 1 \in 1..Len(text)

LEMMA FirstIs ==
    ASSUME NEW V, NEW text \in Seq(V), NEW S, ToSet(text) \cap S # {}
    PROVE  FirstIn(text, S, V)
BY FirstOf DEF FirstIn

LEMMA Offsets ==
    ASSUME NEW a \in Nat, NEW c \in Nat, NEW k \in 1..c
    PROVE  /\ k \in Nat /\ a + 1 \in 1..(a + 1 + c) /\ (a + 1) + k \in 1..(a + 1 + c)
           /\ a + 1 < (a + 1) + k
OBVIOUS

LEMMA BesideIs ==
    ASSUME NEW V, NEW a \in Seq(V), NEW b \in Seq(V)
    PROVE  Beside(a, b, a \o b, V)
BY SideBySide DEF Beside

LEMMA SingleSub ==
    ASSUME NEW V, NEW s \in Seq(V), NEW i \in 1..Len(s)
    PROVE  SubSeq(s, i, i) = <<s[i]>>
<1> DEFINE x == SubSeq(s, i, i)
<1>1. x \in Seq(V) /\ Len(x) = 1 /\ x[1] = s[i]
  <2>1. i \in Nat /\ i - i = 0 /\ Len(s) \in Nat /\ i <= Len(s)
      OBVIOUS
  <2>2. SubSeq(s, i, i) = [k \in 1..1 |-> s[k + i - 1]]
      BY <2>1
  <2>3. s[i] \in V /\ 1 + i - 1 = i
      BY <2>1
  <2>4. SubSeq(s, i, i)[1] = s[i]
      BY <2>2, <2>3
  <2> QED BY <2>2, <2>3, <2>4
<1> HIDE DEF x
<1>2. x = <<x[1]>>
    BY <1>1
<1> QED BY <1>1, <1>2 DEF x

-----------------------------------------------------------------------------
(* Where an entry is cut.                                                   *)

LEMMA FirstEquals ==
    ASSUME NEW V, NEW w \in Seq(V), NEW i \in 1..Len(w), IsEquals(w[i]), \A k \in 1..(i - 1) : ~IsEquals(w[k])
    PROVE  SelectInSeq(w, IsEquals) = i
<1> DEFINE n == Len(w)
           P == {k \in 1..n : IsEquals(w[k])}
<1>1. SelectInSeq(w, IsEquals) = IF P # {} THEN Min(P) ELSE 0
    BY DEF SelectInSeq
<1>2. n \in Nat /\ P \in SUBSET (1..n) /\ i \in P /\ \A k \in P : ~(k < i)
  <2>1. n \in Nat /\ \A k \in 1..n : k < i => k \in 1..(i - 1)
      OBVIOUS
  <2> HIDE DEF n
  <2> QED BY <2>1 DEF n
<1> HIDE DEF P, n
<1>3. Min(P) \in P /\ \A q \in P : Min(P) <= q
    BY <1>2, FirstPlace
<1>4. \A q \in P : q \in Int
    BY <1>2
<1>5. Min(P) \in Int /\ i \in Int /\ Min(P) <= i /\ ~(Min(P) < i)
    BY <1>2, <1>3, <1>4
<1>6. Min(P) = i
    BY <1>5
<1> QED BY <1>1, <1>2, <1>6

LEMMA FirstColon ==
    ASSUME NEW V, NEW w \in Seq(V), NEW i \in 1..Len(w), IsColon(w[i]), \A k \in 1..(i - 1) : ~IsColon(w[k])
    PROVE  SelectInSeq(w, IsColon) = i
<1> DEFINE n == Len(w)
           P == {k \in 1..n : IsColon(w[k])}
<1>1. SelectInSeq(w, IsColon) = IF P # {} THEN Min(P) ELSE 0
    BY DEF SelectInSeq
<1>2. n \in Nat /\ P \in SUBSET (1..n) /\ i \in P /\ \A k \in P : ~(k < i)
  <2>1. n \in Nat /\ \A k \in 1..n : k < i => k \in 1..(i - 1)
      OBVIOUS
  <2> HIDE DEF n
  <2> QED BY <2>1 DEF n
<1> HIDE DEF P, n
<1>3. Min(P) \in P /\ \A q \in P : Min(P) <= q
    BY <1>2, FirstPlace
<1>4. \A q \in P : q \in Int
    BY <1>2
<1>5. Min(P) \in Int /\ i \in Int /\ Min(P) <= i /\ ~(Min(P) < i)
    BY <1>2, <1>3, <1>4
<1>6. Min(P) = i
    BY <1>5
<1> QED BY <1>1, <1>2, <1>6

LEMMA LastColon ==
    ASSUME NEW V, NEW w \in Seq(V), NEW i \in 1..Len(w), IsColon(w[i]), \A k \in (i + 1)..Len(w) : ~IsColon(w[k])
    PROVE  SelectLastInSeq(w, IsColon) = i
<1> DEFINE n == Len(w)
           P == {k \in 1..n : IsColon(w[k])}
<1>1. SelectLastInSeq(w, IsColon) = IF P # {} THEN Max(P) ELSE 0
    BY DEF SelectLastInSeq
<1>2. n \in Nat /\ P \in SUBSET (1..n) /\ i \in P /\ \A k \in P : ~(k > i)
  <2>1. n \in Nat /\ \A k \in 1..n : k > i => k \in (i + 1)..n
      OBVIOUS
  <2> HIDE DEF n
  <2> QED BY <2>1 DEF n
<1> HIDE DEF P, n
<1>3. Max(P) \in P /\ \A q \in P : q <= Max(P)
    BY <1>2, LastPlace
<1>4. \A q \in P : q \in Int
    BY <1>2
<1>5. Max(P) \in Int /\ i \in Int /\ i <= Max(P) /\ ~(Max(P) > i)
    BY <1>2, <1>3, <1>4
<1>6. Max(P) = i
    BY <1>5
<1> QED BY <1>1, <1>2, <1>6

\* The places found are such places.
LEMMA EqualsFound ==
    ASSUME NEW V, NEW w \in Seq(V), SelectInSeq(w, IsEquals) # 0
    PROVE  \E k \in 1..Len(w) : IsEquals(w[k])
<1> DEFINE E == {k \in 1..Len(w) : IsEquals(w[k])}
<1>1. SelectInSeq(w, IsEquals) = IF E # {} THEN Min(E) ELSE 0
    BY DEF SelectInSeq
<1>2. E # {}
    BY <1>1
<1> QED BY <1>2

AtColon(w, j) == j \in 1..Len(w) /\ Len(w) \in Nat /\ IsColon(w[j])

LEMMA ColonFound ==
    ASSUME NEW V, NEW w \in Seq(V), SelectInSeq(w, IsColon) # 0
    PROVE  AtColon(w, SelectLastInSeq(w, IsColon))
<1> DEFINE n == Len(w)
           P == {k \in 1..n : IsColon(w[k])}
<1>1. /\ SelectInSeq(w, IsColon) = IF P # {} THEN Min(P) ELSE 0
      /\ SelectLastInSeq(w, IsColon) = IF P # {} THEN Max(P) ELSE 0
    BY DEF SelectInSeq, SelectLastInSeq
<1>2. n \in Nat /\ P \in SUBSET (1..n) /\ \A k \in P : IsColon(w[k])
    OBVIOUS
<1> HIDE DEF P, n
<1>3. P # {}
    BY <1>1
<1>4. Max(P) \in P
    BY <1>2, <1>3, LastPlace
<1>5. Max(P) \in 1..n /\ IsColon(w[Max(P)])
    BY <1>2, <1>4
<1> QED BY <1>1, <1>2, <1>3, <1>5 DEF n, AtColon

LEMMA TokensDiffer ==
    /\ \A v : ~IsEquals(Name(v)) /\ ~IsColon(Name(v)) /\ \A m : Name(v) # Mark(m)
    /\ IsEquals(Mark("=")) /\ IsColon(Mark(":")) /\ ~IsColon(Mark("="))
    /\ Mark("=") # Mark(";") /\ Mark("=") # Mark("|") /\ Mark(":") # Mark(";") /\ Mark(":") # Mark("|")
    /\ Mark(";") # Mark("|") /\ Mark("\\") # Mark(";") /\ Mark("\\") # Mark("|") /\ Mark("\\") # Mark(":")
    /\ ~IsEquals(Mark("\\"))
    /\ \A v, u : Name(v) = Name(u) => v = u
    /\ \A v : Name(v).v = v
BY DEF Name, Mark, Tok, IsEquals, IsColon

Entry(v, y) == (<<Name(v)>> \o <<Mark("=")>>) \o y

\* An entry is cut between its name and what it is the name of.
LEMMA EntryRead ==
    ASSUME NEW v \in Word, NEW y \in Seq(Token)
    PROVE  /\ Entry(v, y) \in Seq(Token) /\ Entry(v, y) # <<>>
           /\ ToSet(Entry(v, y)) = {Name(v), Mark("=")} \cup ToSet(y)
           /\ SelectInSeq(Entry(v, y), IsEquals) = 2
           /\ AtEquals(Entry(v, y)) = [left |-> <<Name(v)>>, right |-> y]
<1> DEFINE a == Name(v)
           b == Mark("=")
           x == <<a>> \o <<b>>
           e == x \o y
           n == Len(y)
<1>1. a \in Token /\ b \in Token
    BY TokensAre, MarksAre
<1>2. ~IsEquals(a) /\ IsEquals(b) /\ b.t # "eq"
  <2>1. b.t = "mark"
      BY DEF Mark, Tok
  <2> QED BY <2>1, TokensDiffer
<1> HIDE DEF a, b
<1>3. x \in Seq(Token) /\ Len(x) = 2 /\ x[1] = a /\ x[2] = b /\ ToSet(x) = {a, b}
  <2>1. x \in Seq(Token) /\ Len(x) = 2 /\ x[1] = a /\ x[2] = b
      BY <1>1
  <2>2. ToSet(x) = ToSet(<<a>>) \cup ToSet(<<b>>)
    <3> DEFINE p == <<a>>
               q == <<b>>
    <3>1. p \in Seq(Token) /\ q \in Seq(Token)
        BY <1>1
    <3> HIDE DEF p, q
    <3>2. ToSet(p \o q) = ToSet(p) \cup ToSet(q)
        BY <3>1, TextsBeside
    <3> QED BY <3>2 DEF p, q
  <2>3. ToSet(<<a>>) = {a} /\ ToSet(<<b>>) = {b}
    <3>1. \A c \in Token : ToSet(<<c>>) = {c}
        BY Single
    <3> QED BY <1>1, <3>1
  <2> HIDE DEF x
  <2> QED BY <2>1, <2>2, <2>3
<1> HIDE DEF x
<1>4. e \in Seq(Token) /\ ToSet(e) = ToSet(x) \cup ToSet(y)
    BY <1>3, TextsBeside
<1>5. Len(e) = 2 + n /\ n \in Nat /\ e[1] = a /\ e[2] = b /\ \A k \in 1..n : e[2 + k] = y[k]
  <2>1. Beside(x, y, e, Token)
      BY <1>3, BesideIs
  <2>2. n \in Nat
      OBVIOUS
  <2> HIDE DEF e
  <2>3. Len(e) = Len(x) + n /\ \A k \in 1..Len(x) : e[k] = x[k]
      BY <2>1 DEF Beside
  <2>4. \A k \in 1..n : e[Len(x) + k] = y[k]
      BY <2>1 DEF Beside
  <2>5. 1 \in 1..2 /\ 2 \in 1..2
      OBVIOUS
  <2> HIDE DEF n
  <2> QED BY <1>3, <2>2, <2>3, <2>4, <2>5
<1> HIDE DEF e, n
<1>6. SelectInSeq(e, IsEquals) = 2
  <2>1. \A k \in 1..(2 - 1) : k = 1
      OBVIOUS
  <2>2. 2 \in 1..Len(e) /\ IsEquals(e[2]) /\ \A k \in 1..(2 - 1) : ~IsEquals(e[k])
      BY <1>2, <1>5, <2>1
  <2> QED BY <1>4, <2>2, FirstEquals
<1>7. Until(e, 2) = <<a>> /\ After(e, 2) = y
  <2>1. Until(e, 2) = SubSeq(e, 1, 1) /\ After(e, 2) = SubSeq(e, 3, 2 + n)
      BY <1>5 DEF Until, After
  <2>2. SubSeq(e, 1, 1) = <<a>>
    <3>1. 1 \in 1..Len(e)
        BY <1>5
    <3> QED BY <1>4, <1>5, <3>1, SingleSub
  <2>3. SubSeq(e, 3, 2 + n) = y
    <3> DEFINE z == SubSeq(e, 3, 2 + n)
    <3>1. z \in Seq(Token) /\ Len(z) = n /\ \A k \in 1..n : z[k] = e[2 + k]
        BY <1>4, <1>5
    <3> HIDE DEF z
    <3>2. Len(y) = n /\ \A k \in 1..n : z[k] = y[k]
        BY <1>5, <3>1 DEF n
    <3>3. z = y
        BY <3>1, <3>2
    <3> QED BY <3>3 DEF z
  <2> QED BY <2>1, <2>2, <2>3
<1>8. AtEquals(e) = [left |-> <<a>>, right |-> y]
    BY <1>2, <1>5, <1>6, <1>7 DEF AtEquals
<1>9. e # <<>>
    BY <1>5
<1>10. Entry(v, y) = e
    BY DEF Entry, e, x, a, b
<1> QED BY <1>3, <1>4, <1>6, <1>8, <1>9, <1>10 DEF a, b

\* What ends in a target behind a colon
LEMMA EndsRight ==
    ASSUME NEW w \in Seq(Token), SelectInSeq(w, IsColon) # 0, After(w, SelectLastInSeq(w, IsColon)) \in Targets
    PROVE  /\ Len(w) - 2 \in Nat /\ w[Len(w) - 1] = Mark(":") /\ <<w[Len(w)]>> \in Targets
<1> DEFINE n == Len(w)
           j == SelectLastInSeq(w, IsColon)
           r == After(w, j)
<1>1. j \in 1..n /\ IsColon(w[j]) /\ n \in Nat
  <2>1. AtColon(w, j)
      BY ColonFound
  <2> HIDE DEF j
  <2> QED BY <2>1 DEF AtColon
<1>2. PICK t \in Target : r = <<Name(t)>>
    BY DEF Targets
<1> HIDE DEF j
<1>3. r = SubSeq(w, j + 1, n)
    BY DEF After
<1>4. Len(r) = n - j /\ \A k \in 1..(n - j) : r[k] = w[j + k]
    BY <1>1, <1>3
<1> HIDE DEF r
<1>5. n - j = 1 /\ r[1] = w[j + 1]
  <2>1. Len(r) = 1
      BY <1>2
  <2> HIDE DEF n
  <2>2. n - j = 1
      BY <1>4, <2>1
  <2>3. r[1] = w[j + 1]
      BY <1>4, <2>2
  <2> QED BY <2>2, <2>3
<1>6. n = j + 1 /\ <<w[n]>> = r
  <2>1. r = <<r[1]>>
      BY <1>2
  <2> HIDE DEF n
  <2> QED BY <1>1, <1>5, <2>1
<1>7. w[n - 1] = Mark(":")
  <2> HIDE DEF n
  <2>1. n - 1 = j
      BY <1>1, <1>6
  <2> QED BY <1>1, <2>1 DEF IsColon
<1>8. <<w[n]>> \in Targets
  <2> HIDE DEF n
  <2> QED BY <1>2, <1>6 DEF Targets
<1>9. n - 2 \in Nat
  <2> HIDE DEF n
  <2> QED BY <1>1, <1>6
<1> QED BY <1>7, <1>8, <1>9 DEF n

\* No target ends in "\".
LEMMA EndsWrong ==
    ASSUME NEW w \in Seq(Token)
    PROVE  LET y == w \o <<Mark("\\")>>
           IN  SelectInSeq(y, IsColon) = 0 \/ After(y, SelectLastInSeq(y, IsColon)) \notin Targets
<1> DEFINE b == Mark("\\")
           y == w \o <<b>>
<1>1. b \in Token
    BY MarksAre
<1>2. \A t : Name(t) # b
    BY TokensDiffer
<1> HIDE DEF b
<1>3. y \in Seq(Token) /\ y[Len(y)] = b
    BY <1>1
<1> HIDE DEF y
<1>4. SUFFICES ASSUME SelectInSeq(y, IsColon) # 0, After(y, SelectLastInSeq(y, IsColon)) \in Targets
               PROVE  FALSE
    BY DEF y, b
<1>5. <<y[Len(y)]>> \in Targets
    BY <1>3, <1>4, EndsRight
<1>6. PICK t \in Target : <<b>> = <<Name(t)>>
    BY <1>3, <1>5 DEF Targets
<1> QED BY <1>2, <1>6

\* The target of an entry is what stands behind its last colon.
LEMMA TargetRead ==
    ASSUME NEW z \in Seq(Token), NEW t \in Word
    PROVE  LET y == z \o <<Mark(":"), Name(t)>>
               j == SelectLastInSeq(y, IsColon)
           IN  Until(y, j) = z /\ After(y, j) = <<Name(t)>>
<1> DEFINE c == Mark(":")
           u == Name(t)
           q == <<c, u>>
           y == z \o q
           n == Len(z)
           j == SelectLastInSeq(y, IsColon)
<1>1. c \in Token /\ u \in Token /\ IsColon(c) /\ ~IsColon(u)
    BY MarksAre, TokensAre, TokensDiffer
<1> HIDE DEF c, u
<1>2. q \in Seq(Token) /\ Len(q) = 2 /\ q[1] = c /\ q[2] = u
    BY <1>1
<1> HIDE DEF q
<1>3. /\ y \in Seq(Token) /\ Len(y) = n + 2 /\ n \in Nat
      /\ y[n + 1] = c /\ y[n + 2] = u /\ \A k \in 1..n : y[k] = z[k]
  <2>1. Beside(z, q, y, Token)
      BY <1>2, BesideIs
  <2>2. n \in Nat
      OBVIOUS
  <2> HIDE DEF y
  <2>3. y \in Seq(Token) /\ Len(y) = n + Len(q) /\ \A k \in 1..n : y[k] = z[k]
      BY <2>1 DEF Beside
  <2>4. \A k \in 1..Len(q) : y[n + k] = q[k]
      BY <2>1 DEF Beside
  <2>5. 1 \in 1..2 /\ 2 \in 1..2
      OBVIOUS
  <2> HIDE DEF n
  <2> QED BY <1>2, <2>2, <2>3, <2>4, <2>5
<1> HIDE DEF y, n
<1>4. j = n + 1
  <2>1. \A k \in ((n + 1) + 1)..Len(y) : k = n + 2
      BY <1>3
  <2>2. n + 1 \in 1..Len(y) /\ IsColon(y[n + 1]) /\ \A k \in ((n + 1) + 1)..Len(y) : ~IsColon(y[k])
      BY <1>1, <1>3, <2>1
  <2> QED BY <1>3, <2>2, LastColon
<1> HIDE DEF j
<1>5. Until(y, j) = z
  <2> DEFINE x == SubSeq(y, 1, n)
  <2>1. Until(y, j) = x
      BY <1>3, <1>4 DEF Until
  <2>2. x \in Seq(Token) /\ Len(x) = n /\ \A k \in 1..n : x[k] = y[k]
      BY <1>3
  <2> HIDE DEF x
  <2>3. \A k \in 1..n : x[k] = z[k]
      BY <1>3, <2>2
  <2>4. x = z
      BY <2>2, <2>3 DEF n
  <2> QED BY <2>1, <2>4
<1>6. After(y, j) = <<u>>
  <2>1. After(y, j) = SubSeq(y, n + 2, n + 2)
      BY <1>3, <1>4 DEF After
  <2>2. SubSeq(y, n + 2, n + 2) = <<u>>
    <3>1. n + 2 \in 1..Len(y)
        BY <1>3
    <3> QED BY <1>3, <3>1, SingleSub
  <2> QED BY <2>1, <2>2
<1> QED BY <1>5, <1>6 DEF j, y, q, c, u

Header(x) == <<Name(x), Mark(":")>>

\* A part is known by what stands before its first colon.
LEMMA HeaderRead ==
    ASSUME NEW x \in Word, NEW q \in Seq(Token)
    PROVE  LET p == Header(x) \o q
           IN  /\ p \in Seq(Token) /\ ToSet(p) = {Name(x), Mark(":")} \cup ToSet(q)
               /\ SelectInSeq(p, IsColon) = 2 /\ Prefix(p) = <<Name(x)>> /\ After(p, 2) = q
<1> DEFINE a == Name(x)
           b == Mark(":")
           h == <<a, b>>
           p == h \o q
           n == Len(q)
<1>1. a \in Token /\ b \in Token /\ ~IsColon(a) /\ IsColon(b)
    BY TokensAre, MarksAre, TokensDiffer
<1> HIDE DEF a, b
<1>2. h \in Seq(Token) /\ Len(h) = 2 /\ h[1] = a /\ h[2] = b
    BY <1>1
<1>3. ToSet(h) = {a, b}
    BY DEF ToSet
<1> HIDE DEF h
<1>4. p \in Seq(Token) /\ ToSet(p) = ToSet(h) \cup ToSet(q)
    BY <1>2, TextsBeside
<1>5. Len(p) = 2 + n /\ n \in Nat /\ p[1] = a /\ p[2] = b /\ \A k \in 1..n : p[2 + k] = q[k]
  <2>1. Beside(h, q, p, Token)
      BY <1>2, BesideIs
  <2>2. n \in Nat
      OBVIOUS
  <2> HIDE DEF p
  <2>3. Len(p) = Len(h) + n /\ \A k \in 1..Len(h) : p[k] = h[k]
      BY <2>1 DEF Beside
  <2>4. \A k \in 1..n : p[Len(h) + k] = q[k]
      BY <2>1 DEF Beside
  <2>5. 1 \in 1..2 /\ 2 \in 1..2
      OBVIOUS
  <2> HIDE DEF n
  <2> QED BY <1>2, <2>2, <2>3, <2>4, <2>5
<1> HIDE DEF p, n
<1>6. SelectInSeq(p, IsColon) = 2
  <2>1. \A k \in 1..(2 - 1) : k = 1
      OBVIOUS
  <2>2. 2 \in 1..Len(p) /\ IsColon(p[2]) /\ \A k \in 1..(2 - 1) : ~IsColon(p[k])
      BY <1>1, <1>5, <2>1
  <2> QED BY <1>4, <2>2, FirstColon
<1>7. Prefix(p) = <<a>>
  <2>1. Prefix(p) = SubSeq(p, 1, 1)
      BY <1>6 DEF Prefix, Until
  <2>2. SubSeq(p, 1, 1) = <<a>>
    <3>1. 1 \in 1..Len(p)
        BY <1>5
    <3> QED BY <1>4, <1>5, <3>1, SingleSub
  <2> QED BY <2>1, <2>2
<1>8. After(p, 2) = q
  <2> DEFINE z == SubSeq(p, 3, 2 + n)
  <2>1. z \in Seq(Token) /\ Len(z) = n /\ \A k \in 1..n : z[k] = p[2 + k]
      BY <1>4, <1>5
  <2>2. After(p, 2) = z
      BY <1>5 DEF After
  <2> HIDE DEF z
  <2>3. Len(q) = n /\ \A k \in 1..n : z[k] = q[k]
      BY <1>5, <2>1 DEF n
  <2>4. z = q
      BY <2>1, <2>3
  <2> QED BY <2>2, <2>4
<1> QED BY <1>3, <1>4, <1>6, <1>7, <1>8 DEF p, h, a, b, Header

\* The pieces of a text hold nothing else.
LEMMA PiecesWithin ==
    ASSUME NEW V, NEW text \in Seq(V), NEW m, NEW p \in Pieces(text, m)
    PROVE  p \in Seq(V) /\ ToSet(p) \subseteq ToSet(text)
<1>1. PICK i, j : Gap(text, m, i, j) /\ p = SubSeq(text, i + 1, j - 1)
    BY PieceIs
<1>2. p \in Seq(V)
    BY PartsType
<1> DEFINE n == Len(text)
<1>3. n \in Nat /\ DOMAIN text = 1..n
    OBVIOUS
<1>4. i \in 0..(n + 1) /\ j \in 0..(n + 1)
  <2>1. i \in Ends(text, m) /\ j \in Ends(text, m)
      BY <1>1 DEF Gap
  <2> HIDE DEF n
  <2> QED BY <1>3, <2>1 DEF Ends, n
<1>5. \A k \in 1..Len(p) : p[k] \in ToSet(text)
  <2> DEFINE l == ((j - 1) - (i + 1)) + 1
  <2>0. l \in Int /\ i \in Nat /\ l <= n - i
      BY <1>3, <1>4
  <2>1. p = [k \in 1..l |-> text[(k + (i + 1)) - 1]]
    <3>1. i + 1 \in Nat /\ j - 1 \in Int /\ i + 1 >= 1 /\ j - 1 <= n
        BY <1>3, <1>4
    <3> QED BY <1>1, <3>1
  <2>2. Proper(p, V) /\ Proper(text, V)
      BY <1>2, ProperIs
  <2>3. 1..Len(p) = 1..l
    <3> HIDE DEF l
    <3>1. DOMAIN p = 1..l
        BY <2>1
    <3> QED BY <2>2, <3>1 DEF Proper
  <2> HIDE DEF l
  <2>4. \A k \in 1..Len(p) : (k + (i + 1)) - 1 \in 1..n /\ p[k] = text[(k + (i + 1)) - 1]
    <3> HIDE DEF n
    <3>1. \A k \in 1..l : (k + (i + 1)) - 1 \in 1..n
        BY <1>3, <2>0
    <3> QED BY <2>1, <2>3, <3>1
  <2> QED BY <2>2, <2>4 DEF Proper, n
<1>6. Proper(p, V)
    BY <1>2, ProperIs
<1> QED BY <1>2, <1>5, <1>6 DEF Proper

-----------------------------------------------------------------------------
(* The aliases on their way through the attribute.                          *)

\* Behind a ";" stands no "=".
Quiet(text) == \A i, j \in DOMAIN text : i < j /\ text[i] = Mark(";") => ~IsEquals(text[j])

\* What is read of a text, as it is or torn
ReadAs(text, y) == y \in Seq(Token) /\ (y = text \/ Mark("\\") \in ToSet(y))

LEMMA QuietBehind ==
    ASSUME NEW w \in Seq(Token), NEW z \in Seq(Token), NEW x, Quiet((w \o <<Mark(";")>>) \o z), x \in ToSet(z)
    PROVE  ~IsEquals(x)
<1> DEFINE r == (w \o <<Mark(";")>>) \o z
<1>1. Cut(r, w, z, ";", Token)
    BY CutIs, MarksAre
<1>2. Quiet(r)
    OBVIOUS
<1> HIDE DEF r
<1>3. Proper(z, Token) /\ Proper(r, Token)
  <2>1. r \in Seq(Token)
      BY <1>1 DEF Cut
  <2> QED BY <2>1, ProperIs
<1>4. PICK k \in 1..Len(z) : x = z[k]
    BY <1>3 DEF Proper
<1> DEFINE i == Len(w) + 1
           j == (Len(w) + 1) + k
<1>5. Len(z) \in Nat /\ Len(w) \in Nat
    BY <1>1 DEF Cut
<1>6. r[i] = Mark(";") /\ r[j] = x /\ Len(r) = Len(w) + 1 + Len(z)
    BY <1>1, <1>4 DEF Cut
<1>7. DOMAIN r = 1..Len(r)
    BY <1>3 DEF Proper
<1>8. i \in 1..Len(r) /\ j \in 1..Len(r) /\ i < j
    BY <1>4, <1>5, <1>6, Offsets
<1> HIDE DEF i, j
<1> QED BY <1>2, <1>6, <1>7, <1>8 DEF Quiet

EntrySplits(v, a, b, c) == Entry(v, (a \o b) \o c) = (Entry(v, a) \o b) \o c

LEMMA EntryBeside ==
    ASSUME NEW v \in Word, NEW a \in Seq(Token), NEW b \in Seq(Token), NEW c \in Seq(Token)
    PROVE  EntrySplits(v, a, b, c)
<1> DEFINE x == <<Name(v)>> \o <<Mark("=")>>
<1>1. x \in Seq(Token)
  <2> DEFINE p == Name(v)
             q == Mark("=")
  <2>1. p \in Token /\ q \in Token
      BY TokensAre, MarksAre
  <2> HIDE DEF p, q
  <2>2. <<p>> \o <<q>> \in Seq(Token)
      BY <2>1
  <2> QED BY <2>2 DEF p, q
<1> HIDE DEF x
<1> DEFINE d == a \o b
<1>2. d \in Seq(Token)
    BY Glue DEF Glued
<1>3. Turns(x, d, c)
  <2> HIDE DEF d
  <2> QED BY <1>1, <1>2, Turn
<1>4. Turns(x, a, b)
    BY <1>1, Turn
<1>5. x \o ((a \o b) \o c) = ((x \o a) \o b) \o c
    BY <1>3, <1>4 DEF Turns
<1> QED BY <1>5 DEF EntrySplits, Entry, x

LEMMA AliasRead ==
    ASSUME NEW v \in Word, NEW text \in Seq(Token), Quiet(text),
           \A p \in Pieces(Entry(v, Escape(text)), ";") : p # <<>> => SelectInSeq(p, IsEquals) # 0
    PROVE  \E y : /\ ReadAs(text, y)
                  /\ {p \in Pieces(Entry(v, Escape(text)), ";") : p # <<>>} = {Entry(v, y)}
<1> DEFINE M == Mark(";")
           B == Mark("\\")
           e == Entry(v, Escape(text))
<1>1. M \in Token /\ B \in Token /\ B # M /\ ~IsEquals(B) /\ \A u : Name(u) # M
    BY MarksAre, TokensDiffer
<1>2. Mark("=") # M
    BY TokensDiffer
<1>3. ";" \in Word
    BY MarksAre
<1>4. ASSUME NEW y \in Seq(Token), M \notin ToSet(y)
      PROVE  Pieces(Entry(v, y), ";") = {Entry(v, y)} /\ Entry(v, y) \in Seq(Token) /\ Entry(v, y) # <<>>
  <2>1. /\ Entry(v, y) \in Seq(Token) /\ Entry(v, y) # <<>>
        /\ ToSet(Entry(v, y)) = {Name(v), Mark("=")} \cup ToSet(y)
      BY EntryRead
  <2>2. Mark(";") \notin ToSet(Entry(v, y))
      BY <1>1, <1>2, <1>4, <2>1
  <2> QED BY <2>1, <2>2, PiecesOfOne
<1>5. CASE M \notin ToSet(text)
  <2>1. Escape(text) = text
      BY <1>5, EscapeNothing
  <2>2. ReadAs(text, text)
      BY DEF ReadAs
  <2> QED BY <1>4, <1>5, <2>1, <2>2
<1>6. CASE M \in ToSet(text)
  <2>1. PICK w \in Seq(Token), x \in Token \cap {M}, z \in Seq(Token) :
            text = (w \o <<x>>) \o z /\ ToSet(w) \cap {M} = {}
    <3> HIDE DEF M
    <3>1. FirstIn(text, {M}, Token)
        BY <1>6, FirstIs
    <3> QED BY <3>1 DEF FirstIn
  <2>2. x = M /\ M \notin ToSet(w)
      BY <2>1
  <2> DEFINE b == <<B>>
             s == <<M>>
             f == Escape(z)
             y == w \o b
  <2>3. f \in Seq(Token) /\ b \in Seq(Token) /\ s \in Seq(Token) /\ ToSet(b) = {B}
      BY <1>1, EscapeType, Single
  <2>4. Escape(text) = (y \o s) \o f
    <3>1. Escape((w \o <<M>>) \o z) = ((w \o <<B>>) \o <<M>>) \o Escape(z)
        BY <2>2, EscapeTorn
    <3> QED BY <2>1, <2>2, <3>1
  <2>5. ToSet(f) \subseteq ToSet(z) \cup {B}
      BY EscapeHolds
  <2>6. y \in Seq(Token) /\ ToSet(y) = ToSet(w) \cup {B}
    <3>1. Glued(w, b)
        BY <2>3, Glue
    <3> QED BY <2>3, <3>1 DEF Glued
  <2> HIDE DEF b, f, y
  <2>7. e = (Entry(v, y) \o s) \o f
    <3> HIDE DEF s
    <3>1. EntrySplits(v, y, s, f)
        BY <2>3, <2>6, EntryBeside
    <3>2. Entry(v, (y \o s) \o f) = (Entry(v, y) \o s) \o f
        BY <3>1 DEF EntrySplits
    <3> QED BY <2>4, <3>2
  <2>8. M \notin ToSet(y)
      BY <1>1, <2>2, <2>6
  <2>9. Pieces(Entry(v, y), ";") = {Entry(v, y)} /\ Entry(v, y) \in Seq(Token) /\ Entry(v, y) # <<>>
      BY <1>4, <2>6, <2>8
  <2>10. Pieces(e, ";") = {Entry(v, y)} \cup Pieces(f, ";")
    <3> DEFINE g == Entry(v, y)
    <3>1. g \in Seq(Token)
        BY <2>9
    <3> HIDE DEF g
    <3>2. CutInTwo(g, f, ";")
        BY <1>3, <2>3, <3>1, CutsInTwo
    <3>3. Pieces((g \o <<Mark(";")>>) \o f, ";") = Pieces(g, ";") \cup Pieces(f, ";")
        BY <3>2 DEF CutInTwo
    <3> QED BY <2>7, <2>9, <3>3 DEF g
  <2>11. ASSUME NEW p \in Pieces(f, ";") PROVE p = <<>>
    <3> SUFFICES ASSUME p # <<>> PROVE FALSE
        OBVIOUS
    <3>1. p \in Seq(Token) /\ ToSet(p) \subseteq ToSet(f)
        BY <2>3, PiecesWithin
    <3>2. SelectInSeq(p, IsEquals) # 0
        BY <2>10
    <3>3. PICK k \in 1..Len(p) : IsEquals(p[k])
        BY <3>1, <3>2, EqualsFound
    <3>4. p[k] \in ToSet(p)
        BY <3>1, ProperIs DEF Proper
    <3>5. p[k] \in ToSet(z)
        BY <1>1, <2>5, <3>1, <3>3, <3>4
    <3>6. Quiet((w \o <<Mark(";")>>) \o z)
        BY <2>1, <2>2
    <3> QED BY <3>3, <3>5, <3>6, QuietBehind
  <2>12. {p \in Pieces(e, ";") : p # <<>>} = {Entry(v, y)}
      BY <2>9, <2>10, <2>11
  <2>13. ReadAs(text, y)
      BY <2>6 DEF ReadAs
  <2> QED BY <2>12, <2>13
<1> QED BY <1>5, <1>6

-----------------------------------------------------------------------------
(* The members of a set in some order.                                      *)

Enumerates(list, S) ==
    /\ list \in Seq(S) /\ ToSet(list) = S
    /\ \A i, j \in 1..Len(list) : i # j => list[i] # list[j]

LEMMA OneByOne ==
    ASSUME NEW S, IsFiniteSet(S), NEW n \in Nat, n = Cardinality(S), NEW f \in [1..n -> S],
           \A i, j \in 1..n : i # j => f[i] # f[j]
    PROVE  Enumerates(f, S)
<1> DEFINE D == 1..n
<1>1. IsFiniteSet(D) /\ Cardinality(D) = n
    BY FS_Interval
<1>2. f \in Injection(D, S)
    BY DEF Injection, IsInjective
<1>3. f \in Surjection(D, S)
    BY <1>1, <1>2, FS_Injection
<1>4. f \in Seq(S) /\ Len(f) = n /\ DOMAIN f = D
    OBVIOUS
<1>5. ToSet(f) = S
  <2>1. \A y \in S : \E x \in D : f[x] = y
      BY <1>3 DEF Surjection
  <2>2. \A x \in D : f[x] \in S
      OBVIOUS
  <2> HIDE DEF D
  <2> QED BY <1>4, <2>1, <2>2 DEF ToSet
<1> QED BY <1>4, <1>5 DEF Enumerates

LEMMA OrderIs ==
    ASSUME NEW S, IsFiniteSet(S), NEW list \in SetToSeqs(S)
    PROVE  Enumerates(list, S)
<1>1. Cardinality(S) \in Nat
    BY FS_CardinalityType
<1>2. list \in [1..Cardinality(S) -> S] /\ \A i, j \in 1..Cardinality(S) : i # j => list[i] # list[j]
    BY DEF SetToSeqs
<1> QED BY <1>1, <1>2, OneByOne

LEMMA OrderBack ==
    ASSUME NEW S, NEW list, Enumerates(list, S)
    PROVE  list \in SetToSeqs(S) /\ IsFiniteSet(S)
<1> DEFINE n == Len(list)
           D == 1..n
<1>1. /\ list \in Seq(S) /\ ToSet(list) = S
      /\ \A i, j \in 1..Len(list) : i # j => list[i] # list[j]
    BY DEF Enumerates
<1>2. Proper(list, S) /\ list \in [D -> S]
    BY <1>1, ProperIs
<1>3. n \in Nat /\ DOMAIN list = D
    BY <1>2 DEF Proper
<1> HIDE DEF n
<1>4. IsFiniteSet(D) /\ Cardinality(D) = n
    BY <1>3, FS_Interval
<1>5. list \in Injection(D, S)
  <2>1. \A a, b \in D : list[a] = list[b] => a = b
      BY <1>1 DEF n
  <2> HIDE DEF D
  <2> QED BY <1>2, <1>3, <2>1 DEF Injection, IsInjective
<1>6. \A x \in S : \E k \in D : list[k] = x
  <2>1. \A x \in S : \E k \in 1..Len(list) : x = list[k]
      BY <1>1, <1>2 DEF Proper
  <2> QED BY <2>1 DEF n
<1>7. list \in Surjection(D, S)
    BY <1>2, <1>6 DEF Surjection
<1>8. IsFiniteSet(S) /\ Cardinality(S) = n
  <2>1. ExistsBijection(D, S)
      BY <1>5, <1>7 DEF Bijection, ExistsBijection
  <2> QED BY <1>4, <2>1, FS_Bijection
<1>9. list \in [1..Cardinality(S) -> S] /\ \A i, j \in 1..Cardinality(S) : i # j => list[i] # list[j]
    BY <1>1, <1>2, <1>8 DEF n
<1> QED BY <1>8, <1>9 DEF SetToSeqs

LEMMA AnyOrderIs ==
    ASSUME NEW S, IsFiniteSet(S)
    PROVE  Enumerates(SetToSeq(S), S)
<1>1. Cardinality(S) \in Nat /\ \E f : f \in Bijection(1..Cardinality(S), S)
    BY FS_CardinalityType DEF ExistsBijection
<1>2. PICK f \in [1..Cardinality(S) -> S] : IsInjective(f)
    BY <1>1 DEF Bijection, Injection
<1>3. SetToSeq(S) \in [1..Cardinality(S) -> S] /\ IsInjective(SetToSeq(S))
    BY <1>2 DEF SetToSeq
<1> DEFINE g == SetToSeq(S)
           n == Cardinality(S)
<1>4. g \in [1..n -> S] /\ n \in Nat /\ n = Cardinality(S)
    BY <1>1, <1>3
<1>5. \A i, j \in 1..n : i # j => g[i] # g[j]
    BY <1>3 DEF IsInjective
<1> HIDE DEF g, n
<1>6. Enumerates(g, S)
    BY <1>4, <1>5, OneByOne
<1> QED BY <1>6 DEF g

-----------------------------------------------------------------------------

AliasPart(a) == (a.name \o <<Mark("=")>>) \o Escape(a.text)

AliasParts(list) == [i \in DOMAIN list |-> AliasPart(list[i])]

Declarable(a) == IsName(a.name) /\ a.text \in Seq(Token)

LEMMA PartIs ==
    ASSUME NEW a, Declarable(a)
    PROVE  /\ AliasPart(a) = Entry(a.name[1].v, Escape(a.text)) /\ a.name = <<Name(a.name[1].v)>>
           /\ a.name[1].v \in Word /\ AliasPart(a) \in Seq(Token)
<1>1. a.name = <<Name(a.name[1].v)>> /\ a.name[1].v \in Word /\ a.text \in Seq(Token)
    BY DEF Declarable, IsName
<1>2. Escape(a.text) \in Seq(Token)
    BY <1>1, EscapeType
<1> DEFINE v == a.name[1].v
           e == Escape(a.text)
<1>3. v \in Word /\ e \in Seq(Token)
    BY <1>1, <1>2
<1>4. AliasPart(a) = (<<Name(v)>> \o <<Mark("=")>>) \o e
  <2>1. AliasPart(a) = (a.name \o <<Mark("=")>>) \o e
      BY DEF AliasPart
  <2>2. a.name = <<Name(v)>>
      BY <1>1
  <2> HIDE DEF v, e
  <2> QED BY <2>1, <2>2
<1> HIDE DEF v, e
<1>5. AliasPart(a) = Entry(v, e)
    BY <1>4 DEF Entry
<1>6. Entry(v, e) \in Seq(Token)
    BY <1>3, EntryRead
<1> QED BY <1>1, <1>5, <1>6 DEF v, e

\* Nothing is in an empty list.
LEMMA NoList ==
    ASSUME NEW m \in Word
    PROVE  JoinedBy(<<>>, m) = <<>> /\ Pieces(<<>>, m) = {<<>>}
<1>1. <<>> \in Seq(Token) /\ Len(<<>>) = 0
    OBVIOUS
<1>2. Pieces(<<>>, m) = {<<>>}
  <2>1. \A i \in 1..Len(<<>>) : <<>>[i] # Mark(m)
      BY <1>1
  <2> QED BY <1>1, <2>1, PiecesWhole
<1>3. JoinedBy(<<>>, m) = FlattenSeq(<<>>)
  <2>1. DOMAIN <<>> = {}
      OBVIOUS
  <2>2. JoinedBy(<<>>, m) = FlattenSeq([i \in {} |-> IF i = 1 THEN <<>>[i] ELSE <<Mark(m)>> \o <<>>[i]])
      BY <2>1 DEF JoinedBy
  <2>3. [i \in {} |-> IF i = 1 THEN <<>>[i] ELSE <<Mark(m)>> \o <<>>[i]] = <<>>
      OBVIOUS
  <2> QED BY <2>2, <2>3
<1>4. FlattenSeq(<<>>) = <<>>
    BY DEF FlattenSeq
<1> QED BY <1>2, <1>3, <1>4

\* What is read back of an alias
IsAliasOf(e, a) == e = [name |-> a.name, text |-> e.text] /\ ReadAs(a.text, e.text)

AliasesKept(entries, aliases) ==
    /\ \A e \in entries : \E a \in aliases : IsAliasOf(e, a)
    /\ \A a \in aliases : \E e \in entries : e.name = a.name

LEMMA AliasesCross ==
    ASSUME NEW A, \A a \in A : Declarable(a) /\ Quiet(a.text), NEW list, Enumerates(list, A),
           ~AliasesWrong(SerializeAliases(list))
    PROVE  AliasesKept({AliasOf(p) : p \in Pairs(SerializeAliases(list))}, A)
<1> DEFINE parts == AliasParts(list)
           n == Len(list)
           text == SerializeAliases(list)
           E == {AliasOf(p) : p \in Pairs(text)}
<1>1. ToSet(list) = A /\ Proper(list, A)
    BY ProperIs DEF Enumerates
<1>2. text = JoinedBy(parts, ";")
    BY DEF SerializeAliases, AliasParts, AliasPart
<1>3. parts \in Seq(Seq(Token)) /\ Len(parts) = n /\ n \in Nat /\ \A i \in 1..n : parts[i] = AliasPart(list[i])
  <2> DEFINE C == Seq(Token)
  <2>1. DOMAIN list = 1..n /\ n \in Nat /\ \A i \in 1..n : list[i] \in A
      BY <1>1 DEF Proper
  <2>2. \A i \in 1..n : AliasPart(list[i]) \in C
      BY <2>1, PartIs
  <2> HIDE DEF C, n
  <2>3. parts = [i \in 1..n |-> AliasPart(list[i])]
      BY <2>1 DEF AliasParts
  <2>4. parts \in Seq(C) /\ Len(parts) = n /\ \A i \in 1..n : parts[i] = AliasPart(list[i])
      BY <2>1, <2>2, <2>3
  <2> QED BY <2>1, <2>4 DEF C
<1>4. \A i \in 1..n : list[i] \in A
    BY <1>1 DEF Proper
<1>5. \A a \in A : \E i \in 1..n : a = list[i]
    BY <1>1 DEF Proper
<1> HIDE DEF parts, n, text
<1>6. ";" \in Word
    BY MarksAre
<1>7. CASE n = 0
  <2>1. parts = <<>>
    <3> DEFINE C == Seq(Token)
    <3>1. parts \in Seq(C) /\ Len(parts) = 0
        BY <1>3, <1>7
    <3> HIDE DEF C
    <3> QED BY <3>1
  <2>2. text = <<>> /\ Pieces(<<>>, ";") = {<<>>}
      BY <1>2, <1>6, <2>1, NoList
  <2>3. Pairs(text) = {}
      BY <2>2 DEF Pairs
  <2>4. A = {}
      BY <1>5, <1>7
  <2> QED BY <2>3, <2>4 DEF AliasesKept, text
<1>8. CASE n # 0
  <2>1. Pieces(text, ";") = UNION {Pieces(parts[i], ";") : i \in 1..n}
    <3>1. Pieces(JoinedBy(parts, ";"), ";") = UNION {Pieces(parts[i], ";") : i \in 1..Len(parts)}
        BY <1>3, <1>6, <1>8, PiecesJoined
    <3> QED BY <1>2, <1>3, <3>1
  <2> DEFINE Of(i) == {p \in Pieces(parts[i], ";") : p # <<>>}
             V(i) == list[i].name[1].v
  <2>2. \A p : p \in Pairs(text) <=> \E i \in 1..n : p \in Of(i)
      BY <2>1 DEF Pairs
  <2>3. ASSUME NEW i \in 1..n
        PROVE  \E y : ReadAs(list[i].text, y) /\ Of(i) = {Entry(V(i), y)} /\ AliasOf(Entry(V(i), y)) = [name |-> list[i].name, text |-> y]
    <3>1. Declarable(list[i]) /\ Quiet(list[i].text)
        BY <1>4
    <3> DEFINE v == V(i)
               t == list[i].text
    <3>2. parts[i] = Entry(v, Escape(t)) /\ v \in Word /\ list[i].name = <<Name(v)>> /\ t \in Seq(Token)
        BY <1>3, <3>1, PartIs DEF Declarable
    <3> HIDE DEF v, t
    <3>3. \A p \in Pieces(Entry(v, Escape(t)), ";") : p # <<>> => SelectInSeq(p, IsEquals) # 0
      <4> TAKE p \in Pieces(Entry(v, Escape(t)), ";")
      <4>1. p # <<>> => p \in Pairs(text)
          BY <2>2, <3>2
      <4>2. ~AliasesWrong(text)
          BY DEF text
      <4> QED BY <4>1, <4>2 DEF AliasesWrong
    <3>4. Quiet(t)
        BY <3>1 DEF t
    <3>5. PICK y : /\ ReadAs(t, y)
                   /\ {p \in Pieces(Entry(v, Escape(t)), ";") : p # <<>>} = {Entry(v, y)}
        BY <3>2, <3>3, <3>4, AliasRead
    <3>6. Of(i) = {Entry(v, y)}
        BY <3>2, <3>5
    <3>7. AtEquals(Entry(v, y)) = [left |-> <<Name(v)>>, right |-> y]
      <4>1. y \in Seq(Token)
          BY <3>5 DEF ReadAs
      <4> QED BY <3>2, <4>1, EntryRead
    <3>8. AliasOf(Entry(v, y)) = [name |-> list[i].name, text |-> y]
        BY <3>2, <3>7 DEF AliasOf
    <3> HIDE DEF Of
    <3> QED BY <3>5, <3>6, <3>8 DEF v, t
  <2> HIDE DEF Of
  <2>4. ASSUME NEW e \in E PROVE \E a \in A : IsAliasOf(e, a)
    <3>1. PICK p \in Pairs(text) : e = AliasOf(p)
        OBVIOUS
    <3>2. PICK i \in 1..n : p \in Of(i)
        BY <2>2, <3>1
    <3>3. PICK y : ReadAs(list[i].text, y) /\ Of(i) = {Entry(V(i), y)} /\ AliasOf(Entry(V(i), y)) = [name |-> list[i].name, text |-> y]
        BY <2>3
    <3>4. e = [name |-> list[i].name, text |-> y]
        BY <3>1, <3>2, <3>3
    <3>5. e.text = y
        BY <3>4
    <3>6. IsAliasOf(e, list[i])
        BY <3>3, <3>4, <3>5 DEF IsAliasOf
    <3> QED BY <1>4, <3>6
  <2>5. ASSUME NEW a \in A PROVE \E e \in E : e.name = a.name
    <3>1. PICK i \in 1..n : a = list[i]
        BY <1>5
    <3>2. PICK y : ReadAs(list[i].text, y) /\ Of(i) = {Entry(V(i), y)} /\ AliasOf(Entry(V(i), y)) = [name |-> list[i].name, text |-> y]
        BY <2>3
    <3> DEFINE p == Entry(V(i), y)
    <3>3. p \in Pairs(text)
        BY <2>2, <3>2
    <3>4. AliasOf(p).name = a.name
        BY <3>1, <3>2
    <3> HIDE DEF p
    <3> QED BY <3>3, <3>4
  <2> QED BY <2>4, <2>5 DEF AliasesKept, text
<1> QED BY <1>7, <1>8

-----------------------------------------------------------------------------
(* The scopes on their way through the attribute.                           *)

Separators == {Mark(";"), Mark("|")}

Clean(text) == ToSet(text) \cap Separators = {}

ScopePart(s) == AliasPart(s) \o <<Mark(":"), Name(s.target)>>

ScopeParts(list) == [i \in DOMAIN list |-> ScopePart(list[i])]

ScopeList(list) == Header("scopes") \o JoinedBy(ScopeParts(list), ";")

IgnoreList(ignored) == Header("ignore") \o FlattenSeq(SetToSeq(ignored))

LEMMA JoinedTwo ==
    ASSUME NEW x \in Seq(Token), NEW y \in Seq(Token), NEW m \in Word
    PROVE  JoinedBy(<<x, y>>, m) = (x \o <<Mark(m)>>) \o y
<1> DEFINE C == Seq(Token)
           parts == <<x, y>>
<1>1. parts \in Seq(Seq(Token)) /\ Len(parts) = 2 /\ parts[1] = x /\ parts[2] = y
  <2>1. x \in C /\ y \in C
      OBVIOUS
  <2> HIDE DEF C
  <2>2. parts \in Seq(C) /\ Len(parts) = 2 /\ parts[1] = x /\ parts[2] = y
      BY <2>1
  <2> QED BY <2>2 DEF C
<1> HIDE DEF parts
<1> DEFINE J(i) == JoinedFirst(parts, i, m)
<1>2. /\ J(Len(parts)) = JoinedBy(parts, m)
      /\ \A i \in 1..Len(parts) : i = 1 => J(i) = parts[i]
      /\ \A i \in 1..Len(parts) : i # 1 => J(i) = (J(i - 1) \o <<Mark(m)>>) \o parts[i]
    BY <1>1, JoinedGrows
<1> HIDE DEF J
<1>3. J(1) = x
    BY <1>1, <1>2
<1>4. J(2) = (J(2 - 1) \o <<Mark(m)>>) \o parts[2]
    BY <1>1, <1>2
<1>5. J(2) = (x \o <<Mark(m)>>) \o y
    BY <1>1, <1>3, <1>4
<1>6. JoinedBy(parts, m) = (x \o <<Mark(m)>>) \o y
    BY <1>1, <1>2, <1>5
<1> QED BY <1>6 DEF parts

\* Where a text of a list is cut by a separator, so is the list.
TornInto(p, e, s, r) == p = (e \o s) \o r

CutBefore(parts, e, s) ==
    \E a, z \in Seq(Token) :
        /\ JoinedBy(parts, ";") = (a \o s) \o z
        /\ Mark("|") \notin ToSet(a) /\ e \in Pieces(a, ";")

LEMMA ListCut ==
    ASSUME NEW parts \in Seq(Seq(Token)), NEW k \in 1..Len(parts), NEW e \in Seq(Token), NEW r \in Seq(Token),
           NEW s \in Seq(Token), TornInto(parts[k], e, s, r),
           \A i \in 1..(k - 1) : Mark("|") \notin ToSet(parts[i]), Clean(e)
    PROVE  CutBefore(parts, e, s)
<1> SUFFICES \E a, z \in Seq(Token) :
                 /\ JoinedBy(parts, ";") = (a \o s) \o z
                 /\ Mark("|") \notin ToSet(a) /\ e \in Pieces(a, ";")
    BY DEF CutBefore
<1> DEFINE J(i) == JoinedFirst(parts, i, ";")
           n == Len(parts)
           B == Mark("|")
           M == Mark(";")
           b == <<M>>
<1>1. ";" \in Word /\ M \in Token /\ M # B
    BY MarksAre, TokensDiffer
<1>2. n \in Nat /\ k \in Nat /\ k - 1 \in 0..n /\ k \in 0..n
    OBVIOUS
<1>3. PICK y \in Seq(Token) : JoinedBy(parts, ";") = J(k) \o y
    BY <1>1, JoinedAround
<1>4. /\ \A i \in 0..n : J(i) \in Seq(Token)
      /\ \A i \in 1..n : i = 1 => J(i) = parts[i]
      /\ \A i \in 1..n : i # 1 => J(i) = (J(i - 1) \o b) \o parts[i]
    BY <1>1, JoinedGrows
<1>5. B \notin ToSet(e) /\ M \notin ToSet(e)
    BY DEF Clean, Separators
<1>6. Pieces(e, ";") = {e}
    BY <1>5, PiecesOfOne
<1>7. B \notin ToSet(J(k - 1))
  <2> DEFINE S == {B}
             h == k - 1
  <2>1. /\ h \in 0..n /\ M \notin S
        /\ \A i \in 1..h : ToSet(parts[i]) \cap S = {}
      BY <1>1, <1>2
  <2> HIDE DEF S, h
  <2>2. ToSet(JoinedFirst(parts, h, ";")) \cap S = {}
      BY <1>1, <2>1, JoinedHolds
  <2> QED BY <2>2 DEF S, h
<1> HIDE DEF J, n
<1>8. b \in Seq(Token) /\ ToSet(b) = {M}
  <2> HIDE DEF M
  <2> QED BY <1>1, Single
<1>9. CASE k = 1
  <2>1. J(k) = (e \o s) \o r
      BY <1>4, <1>9 DEF n, TornInto
  <2>2. e \o s \in Seq(Token) /\ r \o y \in Seq(Token)
      BY Glue DEF Glued
  <2>3. ((e \o s) \o r) \o y = (e \o s) \o (r \o y)
    <3> DEFINE p == e \o s
    <3>1. p \in Seq(Token)
        BY <2>2
    <3> HIDE DEF p
    <3>2. Turns(p, r, y)
        BY <3>1, Turn
    <3> QED BY <3>2 DEF Turns, p
  <2>4. JoinedBy(parts, ";") = (e \o s) \o (r \o y)
      BY <1>3, <2>1, <2>3
  <2>5. e \in Pieces(e, ";")
      BY <1>6
  <2> QED BY <1>5, <2>2, <2>4, <2>5
<1>10. CASE k # 1
  <2> DEFINE f == J(k - 1)
             g == f \o b
             a == g \o e
  <2>1. f \in Seq(Token) /\ J(k) = g \o ((e \o s) \o r)
      BY <1>2, <1>4, <1>10 DEF n, TornInto
  <2>2. g \in Seq(Token) /\ ToSet(g) = ToSet(f) \cup {M}
    <3> HIDE DEF f, b
    <3>1. Glued(f, b)
        BY <1>8, <2>1, Glue
    <3> QED BY <1>8, <3>1 DEF Glued
  <2>3. e \in Pieces(a, ";")
    <3> HIDE DEF f
    <3>1. CutInTwo(f, e, ";")
        BY <1>1, <2>1, CutsInTwo
    <3> QED BY <1>6, <3>1 DEF CutInTwo
  <2>4. B \notin ToSet(f)
      BY <1>7
  <2> HIDE DEF f, g, b
  <2>5. a \in Seq(Token) /\ ToSet(a) = ToSet(g) \cup ToSet(e)
      BY <2>2, Glue DEF Glued
  <2>6. B \notin ToSet(a)
      BY <1>1, <1>5, <2>2, <2>4, <2>5
  <2>7. g \o ((e \o s) \o r) = (a \o s) \o r
    <3> DEFINE p == e \o s
    <3>1. p \in Seq(Token)
        BY Glue DEF Glued
    <3>2. Turns(g, e, s)
        BY <2>2, Turn
    <3>3. Turns(g, p, r)
      <4> HIDE DEF p
      <4> QED BY <2>2, <3>1, Turn
    <3> QED BY <3>2, <3>3 DEF Turns
  <2>8. ((a \o s) \o r) \o y = (a \o s) \o (r \o y) /\ r \o y \in Seq(Token)
    <3> DEFINE p == a \o s
    <3>1. p \in Seq(Token) /\ r \o y \in Seq(Token)
      <4> HIDE DEF a
      <4> QED BY <2>5, Glue DEF Glued
    <3> HIDE DEF p
    <3>2. Turns(p, r, y)
        BY <3>1, Turn
    <3> QED BY <3>1, <3>2 DEF Turns, p
  <2>9. JoinedBy(parts, ";") = (a \o s) \o (r \o y)
      BY <1>3, <2>1, <2>7, <2>8
  <2> HIDE DEF a
  <2> QED BY <2>3, <2>5, <2>6, <2>8, <2>9
<1> QED BY <1>9, <1>10

\* The first part ends at the first "|".
LEMMA BarCut ==
    ASSUME NEW h \in Seq(Token), NEW a \in Seq(Token), NEW z \in Seq(Token),
           Mark("|") \notin ToSet(h), Mark("|") \notin ToSet(a)
    PROVE  h \o a \in Pieces(h \o ((a \o <<Mark("|")>>) \o z), "|")
<1> DEFINE b == <<Mark("|")>>
           p == h \o a
<1>1. b \in Seq(Token) /\ "|" \in Word
    BY MarksAre, Single
<1>2. Glued(h, a)
    BY Glue
<1>3. p \in Seq(Token) /\ Mark("|") \notin ToSet(p)
    BY <1>2 DEF Glued
<1>4. Pieces(p, "|") = {p}
    BY <1>3, PiecesOfOne
<1>5. h \o ((a \o b) \o z) = (p \o b) \o z
  <2> DEFINE d == a \o b
  <2> HIDE DEF b
  <2>1. d \in Seq(Token)
      BY <1>1, Glue DEF Glued
  <2>2. Turns(h, a, b)
      BY <1>1, Turn
  <2>3. Turns(h, d, z)
    <3> HIDE DEF d
    <3> QED BY <2>1, Turn
  <2> QED BY <2>2, <2>3 DEF Turns
<1> HIDE DEF p
<1>6. CutInTwo(p, z, "|")
    BY <1>1, <1>3, CutsInTwo
<1>7. p \in Pieces((p \o b) \o z, "|")
    BY <1>4, <1>6 DEF CutInTwo
<1> QED BY <1>5, <1>7 DEF p

LEMMA BarLater ==
    ASSUME NEW h \in Seq(Token), NEW a \in Seq(Token), NEW z \in Seq(Token),
           Mark("|") \notin ToSet(h), Mark("|") \notin ToSet(a)
    PROVE  \E y \in Seq(Token) : h \o (a \o y) \in Pieces(h \o (a \o z), "|")
<1> DEFINE B == Mark("|")
           b == <<B>>
<1>1. b \in Seq(Token)
    BY MarksAre, Single
<1>2. CASE B \notin ToSet(z)
  <2> DEFINE d == a \o z
             e == h \o d
  <2>1. d \in Seq(Token) /\ B \notin ToSet(d)
      BY <1>2, Glue DEF Glued
  <2>2. e \in Seq(Token) /\ B \notin ToSet(e)
    <3> HIDE DEF d
    <3> QED BY <2>1, Glue DEF Glued
  <2>3. Pieces(e, "|") = {e}
    <3> HIDE DEF e
    <3> QED BY <2>2, PiecesOfOne
  <2> QED BY <2>3
<1>3. CASE B \in ToSet(z)
  <2>1. PICK y \in Seq(Token), x \in Token \cap {B}, r \in Seq(Token) :
            z = (y \o <<x>>) \o r /\ ToSet(y) \cap {B} = {}
    <3> HIDE DEF B
    <3>1. FirstIn(z, {B}, Token)
        BY <1>3, FirstIs
    <3> QED BY <3>1 DEF FirstIn
  <2>2. x = B /\ B \notin ToSet(y)
      BY <2>1
  <2> DEFINE d == a \o y
  <2>3. d \in Seq(Token) /\ B \notin ToSet(d)
      BY <2>2, Glue DEF Glued
  <2>4. a \o ((y \o b) \o r) = (d \o b) \o r
    <3> DEFINE c == y \o b
    <3> HIDE DEF b
    <3>1. c \in Seq(Token)
        BY <1>1, Glue DEF Glued
    <3>2. Turns(a, y, b)
        BY <1>1, Turn
    <3>3. Turns(a, c, r)
      <4> HIDE DEF c
      <4> QED BY <3>1, Turn
    <3> QED BY <3>2, <3>3 DEF Turns
  <2> HIDE DEF d
  <2>5. h \o d \in Pieces(h \o ((d \o b) \o r), "|")
      BY <2>3, BarCut
  <2>6. a \o z = (d \o b) \o r
      BY <2>1, <2>2, <2>4
  <2>7. h \o d \in Pieces(h \o (a \o z), "|")
      BY <2>5, <2>6
  <2> QED BY <2>7 DEF d
<1> QED BY <1>2, <1>3

ScopeDeclarable(s) == Declarable(s) /\ s.target \in Target

\* In no text stands a target between a colon and a "|".
Untorn(w) == \A i \in 1..(Len(w) - 2) : w[i] = Mark(":") /\ <<w[i + 1]>> \in Targets => w[i + 2] # Mark("|")

NoTarget(y) == SelectInSeq(y, IsColon) = 0 \/ After(y, SelectLastInSeq(y, IsColon)) \notin Targets

NameOf(s) == s.name[1].v

Ending(s) == <<Mark(":"), Name(s.target)>>

LEMMA EndingIs ==
    ASSUME NEW s, s.target \in Target
    PROVE  /\ Ending(s) \in Seq(Token) /\ ToSet(Ending(s)) = {Mark(":"), Name(s.target)}
           /\ Mark(";") \notin ToSet(Ending(s)) /\ Mark("|") \notin ToSet(Ending(s)) /\ s.target \in Word
<1> DEFINE a == Mark(":")
           b == Name(s.target)
<1>1. s.target \in Word
    BY MarksAre
<1>2. a \in Token /\ b \in Token
    BY <1>1, MarksAre, TokensAre
<1>3. a # Mark(";") /\ a # Mark("|") /\ b # Mark(";") /\ b # Mark("|")
    BY TokensDiffer
<1> HIDE DEF a, b
<1>4. <<a, b>> \in Seq(Token) /\ ToSet(<<a, b>>) = {a, b}
    BY <1>2 DEF ToSet
<1> QED BY <1>1, <1>3, <1>4 DEF a, b, Ending

EntryGrows(v, a, b) == Entry(v, a) \o b = Entry(v, a \o b)

LEMMA EntryGrown ==
    ASSUME NEW v \in Word, NEW a \in Seq(Token), NEW b \in Seq(Token)
    PROVE  EntryGrows(v, a, b)
<1> DEFINE x == <<Name(v)>> \o <<Mark("=")>>
<1>1. x \in Seq(Token)
  <2> DEFINE p == Name(v)
             q == Mark("=")
  <2>1. p \in Token /\ q \in Token
      BY TokensAre, MarksAre
  <2> HIDE DEF p, q
  <2>2. <<p>> \o <<q>> \in Seq(Token)
      BY <2>1
  <2> QED BY <2>2 DEF p, q
<1> HIDE DEF x
<1>2. Turns(x, a, b)
    BY <1>1, Turn
<1> QED BY <1>2 DEF EntryGrows, Entry, Turns, x

LEMMA ScopePartIs ==
    ASSUME NEW s, ScopeDeclarable(s)
    PROVE  /\ ScopePart(s) = Entry(NameOf(s), Escape(s.text) \o Ending(s))
           /\ Escape(s.text) \in Seq(Token) /\ Escape(s.text) \o Ending(s) \in Seq(Token)
           /\ s.name = <<Name(NameOf(s))>> /\ NameOf(s) \in Word /\ s.text \in Seq(Token)
           /\ ScopePart(s) \in Seq(Token)
           /\ ToSet(ScopePart(s)) =
                 {Name(NameOf(s)), Mark("=")} \cup (ToSet(Escape(s.text)) \cup {Mark(":"), Name(s.target)})
<1> DEFINE v == NameOf(s)
           e == Escape(s.text)
           c == Ending(s)
<1>1. AliasPart(s) = Entry(v, e) /\ s.name = <<Name(v)>> /\ v \in Word /\ s.text \in Seq(Token)
    BY PartIs DEF ScopeDeclarable, Declarable, NameOf
<1>2. e \in Seq(Token)
    BY <1>1, EscapeType
<1>3. c \in Seq(Token) /\ ToSet(c) = {Mark(":"), Name(s.target)}
    BY EndingIs DEF ScopeDeclarable
<1>4. ScopePart(s) = Entry(v, e) \o c
    BY <1>1 DEF ScopePart, Ending
<1> HIDE DEF v, e, c
<1>5. EntryGrows(v, e, c) /\ Glued(e, c)
    BY <1>1, <1>2, <1>3, EntryGrown, Glue
<1> DEFINE y == e \o c
<1>6. y \in Seq(Token) /\ ToSet(y) = ToSet(e) \cup ToSet(c) /\ ScopePart(s) = Entry(v, y)
    BY <1>4, <1>5 DEF EntryGrows, Glued
<1>7. Entry(v, y) \in Seq(Token) /\ ToSet(Entry(v, y)) = {Name(v), Mark("=")} \cup ToSet(y)
  <2> HIDE DEF y
  <2> QED BY <1>1, <1>6, EntryRead
<1> QED BY <1>1, <1>2, <1>3, <1>6, <1>7 DEF v, e, c

\* An entry whose text holds a separator is torn there, and what stands before it names no target.
TornAt(s, y, x, r) ==
    /\ y \in Seq(Token) /\ r \in Seq(Token) /\ x \in Separators /\ Clean(y) /\ NoTarget(y)
    /\ ScopePart(s) = (Entry(NameOf(s), y) \o <<x>>) \o r

LEMMA PartTorn ==
    ASSUME NEW s, ScopeDeclarable(s), ~Clean(s.text), Untorn(s.text)
    PROVE  \E y, x, r : TornAt(s, y, x, r)
<1> DEFINE v == NameOf(s)
           t == s.text
           c == Ending(s)
           M == Mark(";")
           B == Mark("|")
<1>1. /\ ScopePart(s) = Entry(v, Escape(t) \o c) /\ v \in Word /\ t \in Seq(Token)
    BY ScopePartIs
<1>2. c \in Seq(Token)
    BY EndingIs DEF ScopeDeclarable
<1>3. FirstIn(t, Separators, Token)
    BY <1>1, FirstIs DEF Clean
<1>4. PICK w \in Seq(Token), x \in Token \cap Separators, z \in Seq(Token) :
          /\ t = (w \o <<x>>) \o z /\ ToSet(w) \cap Separators = {}
          /\ \A k \in 1..Len(w) : w[k] = t[k]
          /\ x = t[Len(w) + 1] /\ Len(w) + 1 \in 1..Len(t)
    BY <1>3 DEF FirstIn
<1>5. Untorn(t)
    OBVIOUS
<1> HIDE DEF v, t, c
<1> DEFINE f == Escape(z)
           u == <<x>>
<1>6. f \in Seq(Token) /\ u \in Seq(Token) /\ ToSet(u) = {x} /\ M # B
    BY EscapeType, Single, TokensDiffer
<1>7. ASSUME NEW y \in Seq(Token), Clean(y), NoTarget(y), Escape(t) = (y \o u) \o f
      PROVE  TornAt(s, y, x, f \o c)
  <2> HIDE DEF f, u
  <2>1. Glued(f, c) /\ Glued(y, u)
      BY <1>2, <1>6, Glue
  <2> DEFINE p == y \o u
             q == f \o c
  <2>2. p \in Seq(Token) /\ q \in Seq(Token)
      BY <2>1 DEF Glued
  <2>3. (p \o f) \o c = p \o q
    <3>1. Turns(p, f, c)
      <4> HIDE DEF p
      <4> QED BY <1>2, <1>6, <2>2, Turn
    <3> QED BY <3>1 DEF Turns
  <2>4. Entry(v, (y \o u) \o q) = (Entry(v, y) \o u) \o q
    <3>1. EntrySplits(v, y, u, q)
      <4> HIDE DEF q
      <4> QED BY <1>1, <1>6, <2>2, EntryBeside
    <3> QED BY <3>1 DEF EntrySplits
  <2>5. ScopePart(s) = (Entry(v, y) \o u) \o q
      BY <1>1, <1>7, <2>3, <2>4
  <2> HIDE DEF q
  <2>6. TornAt(s, y, x, q)
      BY <1>7, <2>2, <2>5 DEF TornAt, v, u
  <2> QED BY <2>6 DEF q
<1>8. CASE x = M
  <2> DEFINE b == <<Mark("\\")>>
             y == w \o b
  <2>1. b \in Seq(Token) /\ ToSet(b) = {Mark("\\")}
      BY MarksAre, Single
  <2>2. y \in Seq(Token) /\ ToSet(y) = ToSet(w) \cup {Mark("\\")}
    <3>1. Glued(w, b)
      <4> HIDE DEF b
      <4> QED BY <2>1, Glue
    <3> QED BY <2>1, <3>1 DEF Glued
  <2>3. Clean(y)
    <3>1. Mark("\\") \notin Separators
        BY TokensDiffer DEF Separators
    <3> HIDE DEF y
    <3> QED BY <1>4, <2>2, <3>1 DEF Clean
  <2>4. NoTarget(y)
      BY EndsWrong DEF NoTarget
  <2>5. Escape(t) = (y \o u) \o f
    <3>1. M \notin ToSet(w)
        BY <1>4 DEF Separators
    <3>2. Escape((w \o <<M>>) \o z) = ((w \o b) \o <<M>>) \o f
        BY <3>1, EscapeTorn
    <3> QED BY <1>4, <1>8, <3>2
  <2> HIDE DEF y
  <2>6. TornAt(s, y, x, f \o c)
      BY <1>7, <2>2, <2>3, <2>4, <2>5
  <2> QED BY <2>6
<1>9. CASE x = B
  <2>1. M \notin ToSet(w) /\ Clean(w)
      BY <1>4 DEF Clean, Separators
  <2>2. Escape(t) = (w \o u) \o f
    <3> DEFINE p == w \o u
    <3>1. p \in Seq(Token) /\ M \notin ToSet(p)
      <4>1. Glued(w, u)
        <5> HIDE DEF u
        <5> QED BY <1>6, Glue
      <4> QED BY <1>6, <1>9, <2>1, <4>1 DEF Glued
    <3>2. t = p \o z
        BY <1>4
    <3> HIDE DEF p
    <3>3. Escape(p \o z) = Escape(p) \o Escape(z)
        BY <3>1, EscapeJoins
    <3>4. Escape(p) = p
        BY <3>1, EscapeNothing
    <3> QED BY <3>2, <3>3, <3>4 DEF p
  <2>3. NoTarget(w)
    <3> SUFFICES ASSUME ~NoTarget(w) PROVE FALSE
        OBVIOUS
    <3>1. Len(w) - 2 \in Nat /\ w[Len(w) - 1] = Mark(":") /\ <<w[Len(w)]>> \in Targets
        BY EndsRight DEF NoTarget
    <3> DEFINE n == Len(w)
               i == n - 1
    <3>2. n \in Nat /\ i \in 1..n /\ n \in 1..n /\ i + 1 = n /\ i + 2 = n + 1
      <4>1. n \in Nat /\ n >= 2
          BY <3>1
      <4> HIDE DEF n
      <4> QED BY <4>1
    <3>3. t[i] = Mark(":") /\ t[i + 1] = w[n]
        BY <1>4, <3>1, <3>2
    <3>4. t[i + 2] = B
        BY <1>4, <1>9, <3>2
    <3>5. Proper(t, Token)
        BY <1>1, ProperIs
    <3>6. n + 1 \in 1..Len(t) /\ Len(t) \in Nat
        BY <1>4, <3>5 DEF Proper
    <3>7. i \in 1..(Len(t) - 2)
      <4> HIDE DEF n
      <4> QED BY <3>2, <3>6
    <3>8. <<t[i + 1]>> \in Targets
        BY <3>1, <3>3
    <3> HIDE DEF i, n
    <3> QED BY <1>5, <3>3, <3>4, <3>7, <3>8 DEF Untorn
  <2>4. TornAt(s, w, x, f \o c)
      BY <1>7, <2>1, <2>2, <2>3
  <2> QED BY <2>4
<1> QED BY <1>4, <1>8, <1>9 DEF Separators

LEMMA HeaderIs ==
    ASSUME NEW x \in {"scopes", "ignore"}
    PROVE  Header(x) \in Seq(Token) /\ Mark("|") \notin ToSet(Header(x)) /\ x \in Word
<1> DEFINE a == Name(x)
           b == Mark(":")
<1>1. a \in Token /\ b \in Token /\ x \in Word
    BY MarksAre, TokensAre
<1>2. a # Mark("|") /\ b # Mark("|")
    BY TokensDiffer
<1> HIDE DEF a, b
<1>3. <<a, b>> \in Seq(Token) /\ ToSet(<<a, b>>) = {a, b}
    BY <1>1 DEF ToSet
<1> QED BY <1>1, <1>2, <1>3 DEF a, b, Header

PartsOf(list, parts) ==
    /\ parts \in Seq(Seq(Token)) /\ Len(parts) = Len(list) /\ Len(list) \in Nat
    /\ \A i \in 1..Len(list) : parts[i] = ScopePart(list[i])

LEMMA ScopePartsAre ==
    ASSUME NEW A, \A s \in A : ScopeDeclarable(s), NEW list \in Seq(A)
    PROVE  PartsOf(list, ScopeParts(list)) /\ \A i \in 1..Len(list) : list[i] \in A
<1> DEFINE C == Seq(Token)
           n == Len(list)
           parts == ScopeParts(list)
<1>1. DOMAIN list = 1..n /\ n \in Nat /\ \A i \in 1..n : list[i] \in A
    BY ProperIs DEF Proper
<1>2. \A i \in 1..n : ScopePart(list[i]) \in C
    BY <1>1, ScopePartIs
<1> HIDE DEF C, n
<1>3. parts = [i \in 1..n |-> ScopePart(list[i])]
    BY <1>1 DEF ScopeParts
<1>4. parts \in Seq(C) /\ Len(parts) = n /\ \A i \in 1..n : parts[i] = ScopePart(list[i])
    BY <1>1, <1>2, <1>3
<1> QED BY <1>1, <1>4 DEF PartsOf, C, n

\* What the scopes and the ignored names are written as
LEMMA ScopesWrittenAs ==
    ASSUME NEW A, \A s \in A : ScopeDeclarable(s), NEW list \in Seq(A), NEW ignored
    PROVE  /\ ScopeList(list) \in Seq(Token) /\ JoinedBy(ScopeParts(list), ";") \in Seq(Token)
           /\ ignored = {} => SerializeScopes(list, ignored) = ScopeList(list)
           /\ ignored # {} /\ IgnoreList(ignored) \in Seq(Token) =>
                 Pieces(SerializeScopes(list, ignored), "|") =
                     Pieces(ScopeList(list), "|") \cup Pieces(IgnoreList(ignored), "|")
<1> DEFINE parts == ScopeParts(list)
           j == JoinedBy(parts, ";")
           a == ScopeList(list)
           b == IgnoreList(ignored)
           h == Header("scopes")
<1>1. parts \in Seq(Seq(Token))
    BY ScopePartsAre DEF PartsOf
<1>2. j \in Seq(Token)
  <2>1. ";" \in Word
      BY MarksAre
  <2> HIDE DEF parts
  <2> QED BY <1>1, <2>1, JoinedType
<1>3. a = h \o j
    BY DEF ScopeList
<1>4. h \in Seq(Token) /\ "|" \in Word
    BY HeaderIs, MarksAre
<1> HIDE DEF j, h
<1>5. a \in Seq(Token)
    BY <1>2, <1>3, <1>4, Glue DEF Glued
<1>6. SerializeScopes(list, ignored) = IF ignored = {} THEN a ELSE JoinedBy(<<a, b>>, "|")
    BY DEF SerializeScopes, ScopeList, IgnoreList, Header, ScopeParts, ScopePart, AliasPart
<1> HIDE DEF a, b
<1>7. ignored # {} /\ b \in Seq(Token) => Pieces(JoinedBy(<<a, b>>, "|"), "|") = Pieces(a, "|") \cup Pieces(b, "|")
  <2> HAVE ignored # {} /\ b \in Seq(Token)
  <2>1. JoinedBy(<<a, b>>, "|") = (a \o <<Mark("|")>>) \o b
      BY <1>4, <1>5, JoinedTwo
  <2>2. CutInTwo(a, b, "|")
      BY <1>4, <1>5, CutsInTwo
  <2> QED BY <2>1, <2>2 DEF CutInTwo
<1> QED BY <1>2, <1>5, <1>6, <1>7 DEF a, b, j

Headed(q) == Header("scopes") \o q

HeadedRead(q) ==
    SelectInSeq(Headed(q), IsColon) = 2 /\ Prefix(Headed(q)) = <<Name("scopes")>> /\ After(Headed(q), 2) = q

EntryIs(e, v, y) ==
    e # <<>> /\ SelectInSeq(e, IsEquals) = 2 /\ AtEquals(e) = [left |-> <<Name(v)>>, right |-> y]

LEMMA HeadedIs ==
    ASSUME NEW q \in Seq(Token)
    PROVE  HeadedRead(q)
<1>1. "scopes" \in Word
    BY MarksAre
<1> QED BY <1>1, HeaderRead DEF HeadedRead, Headed

LEMMA EntryIsRead ==
    ASSUME NEW v \in Word, NEW y \in Seq(Token)
    PROVE  EntryIs(Entry(v, y), v, y)
BY EntryRead DEF EntryIs

PartOf(q, text) == Headed(q) \in Pieces(text, "|")

EntryOf(v, y, q) == Entry(v, y) \in Pieces(q, ";")

\* A list of scopes with a piece that names no target is refused.
LEMMA PieceRefused ==
    ASSUME NEW text, NEW q \in Seq(Token), NEW v \in Word, NEW y \in Seq(Token), NoTarget(y),
           PartOf(q, text), EntryOf(v, y, q)
    PROVE  ScopesWrong(text)
<1> DEFINE p == Headed(q)
           e == Entry(v, y)
<1>1. SelectInSeq(p, IsColon) = 2 /\ Prefix(p) = <<Name("scopes")>> /\ After(p, 2) = q
    BY HeadedIs DEF HeadedRead
<1>2. EntryIs(e, v, y)
    BY EntryIsRead
<1> HIDE DEF p, e
<1>3. e # <<>> /\ SelectInSeq(e, IsEquals) # 0 /\ AtEquals(e).right = y
  <2>1. e # <<>> /\ SelectInSeq(e, IsEquals) # 0
      BY <1>2 DEF EntryIs
  <2>2. AtEquals(e).right = y
      BY <1>2 DEF EntryIs
  <2> QED BY <2>1, <2>2
<1>4. After(p, SelectInSeq(p, IsColon)) = q
    BY <1>1
<1>5. e \in Pairs(q)
    BY <1>3 DEF Pairs, e, EntryOf
<1>6. e \in Entries(p)
    BY <1>3, <1>4, <1>5 DEF Entries
<1>7. EntryWrong(e)
    BY <1>3 DEF EntryWrong, NoTarget
<1>8. p \in Pieces(text, "|")
    BY DEF p, PartOf
<1> QED BY <1>1, <1>6, <1>7, <1>8 DEF ScopesWrong

LEMMA TornListRefused ==
    ASSUME NEW A, \A s \in A : ScopeDeclarable(s) /\ Untorn(s.text), NEW list \in Seq(A),
           NEW l \in 1..Len(list), ~Clean(list[l].text)
    PROVE  \E q \in Seq(Token), v \in Word, y \in Seq(Token) :
               /\ NoTarget(y) /\ PartOf(q, ScopeList(list)) /\ EntryOf(v, y, q)
<1> DEFINE n == Len(list)
           P == {i \in 1..n : ~Clean(list[i].text)}
           parts == ScopeParts(list)
           h == Header("scopes")
           B == Mark("|")
           M == Mark(";")
<1>1. PartsOf(list, parts) /\ \A i \in 1..n : list[i] \in A
    BY ScopePartsAre
<1>2. n \in Nat
    BY <1>1 DEF PartsOf
<1>3. P \in SUBSET (1..n) /\ l \in P
    OBVIOUS
<1> DEFINE k == Min(P)
<1>4. k \in P /\ \A q \in P : k <= q
  <2> HIDE DEF P, n
  <2> QED BY <1>2, <1>3, FirstPlace
<1> HIDE DEF k
<1>5. k \in 1..n /\ ~Clean(list[k].text)
    BY <1>4
<1>6. \A i \in 1..(k - 1) : i \in 1..n /\ Clean(list[i].text)
  <2> TAKE i \in 1..(k - 1)
  <2> HIDE DEF P
  <2>1. i \in 1..n /\ ~(k <= i)
    <3> HIDE DEF n
    <3> QED BY <1>2, <1>5
  <2>2. i \notin P
      BY <1>4, <2>1
  <2> QED BY <2>1, <2>2 DEF P
<1> HIDE DEF P, n, parts
<1>7. ScopeDeclarable(list[k]) /\ Untorn(list[k].text)
    BY <1>1, <1>5
<1>8. PICK y, x, r : TornAt(list[k], y, x, r)
    BY <1>5, <1>7, PartTorn
<1> DEFINE v == NameOf(list[k])
           e == Entry(v, y)
           u == <<x>>
<1>9. /\ y \in Seq(Token) /\ r \in Seq(Token) /\ x \in Separators /\ Clean(y) /\ NoTarget(y)
      /\ parts[k] = (e \o u) \o r /\ v \in Word
  <2>1. parts[k] = ScopePart(list[k])
      BY <1>1, <1>5 DEF PartsOf, n
  <2>2. v \in Word
      BY <1>7, ScopePartIs
  <2> QED BY <1>8, <2>1, <2>2 DEF TornAt
<1>10. x \in Token /\ u \in Seq(Token)
  <2>1. x \in Token
      BY <1>9, MarksAre DEF Separators
  <2> QED BY <2>1, Single
<1>11. e \in Seq(Token) /\ Clean(e)
  <2>1. e \in Seq(Token) /\ ToSet(e) = {Name(v), Mark("=")} \cup ToSet(y)
      BY <1>9, EntryRead
  <2>2. Name(v) \notin Separators /\ Mark("=") \notin Separators
      BY TokensDiffer DEF Separators
  <2> HIDE DEF e, v
  <2> QED BY <1>9, <2>1, <2>2 DEF Clean
<1>12. \A i \in 1..(k - 1) : B \notin ToSet(parts[i])
  <2> TAKE i \in 1..(k - 1)
  <2>1. i \in 1..n /\ Clean(list[i].text) /\ ScopeDeclarable(list[i])
      BY <1>1, <1>6
  <2> DEFINE s == list[i]
  <2>2. /\ ToSet(ScopePart(s)) = {Name(NameOf(s)), Mark("=")} \cup (ToSet(Escape(s.text)) \cup {Mark(":"), Name(s.target)})
        /\ s.text \in Seq(Token)
      BY <2>1, ScopePartIs
  <2>3. parts[i] = ScopePart(s)
      BY <1>1, <2>1 DEF PartsOf, n
  <2>4. Clean(s.text)
      BY <2>1
  <2> HIDE DEF s
  <2>5. ToSet(Escape(s.text)) \subseteq ToSet(s.text) \cup {Mark("\\")}
      BY <2>2, EscapeHolds
  <2>6. B \notin ToSet(s.text)
      BY <2>4 DEF Clean, Separators
  <2>7. B \notin {Name(NameOf(s)), Mark("=")} \cup ({Mark("\\")} \cup {Mark(":"), Name(s.target)})
      BY TokensDiffer
  <2> HIDE DEF B
  <2> QED BY <2>2, <2>3, <2>5, <2>6, <2>7
<1> HIDE DEF e, u
<1>13. PICK a \in Seq(Token), z \in Seq(Token) :
           /\ JoinedBy(parts, ";") = (a \o u) \o z
           /\ B \notin ToSet(a) /\ e \in Pieces(a, ";")
  <2>1. parts \in Seq(Seq(Token)) /\ k \in 1..Len(parts)
      BY <1>1, <1>5 DEF PartsOf, n
  <2>2. r \in Seq(Token) /\ TornInto(parts[k], e, u, r) /\ Clean(e) /\ e \in Seq(Token) /\ u \in Seq(Token)
      BY <1>9, <1>10, <1>11 DEF TornInto
  <2>3. \A i \in 1..(k - 1) : Mark("|") \notin ToSet(parts[i])
      BY <1>12
  <2>4. CutBefore(parts, e, u)
      BY <2>1, <2>2, <2>3, ListCut
  <2> QED BY <2>4 DEF CutBefore
<1>14. h \in Seq(Token) /\ B \notin ToSet(h)
    BY HeaderIs
<1>15. ScopeList(list) = h \o ((a \o u) \o z)
    BY <1>13 DEF ScopeList, parts
<1>16. \E q \in Seq(Token) : h \o q \in Pieces(ScopeList(list), "|") /\ e \in Pieces(q, ";")
  <2>1. CASE x = B
    <3>1. h \o a \in Pieces(h \o ((a \o <<B>>) \o z), "|")
      <4> HIDE DEF h
      <4> QED BY <1>13, <1>14, BarCut
    <3> QED BY <1>13, <1>15, <2>1, <3>1 DEF u
  <2>2. CASE x = M
    <3> DEFINE c == a \o u
    <3>1. c \in Seq(Token) /\ B \notin ToSet(c)
      <4>1. Glued(a, u)
          BY <1>10, Glue
      <4>2. ToSet(u) = {M}
        <5>1. ToSet(u) = {x}
            BY <1>10, Single DEF u
        <5> QED BY <2>2, <5>1
      <4>3. M # B
          BY TokensDiffer
      <4> HIDE DEF M, B
      <4> QED BY <1>13, <4>1, <4>2, <4>3 DEF Glued
    <3>2. PICK w \in Seq(Token) : h \o (c \o w) \in Pieces(h \o (c \o z), "|")
      <4> HIDE DEF c, h
      <4> QED BY <1>14, <3>1, BarLater
    <3>3. e \in Pieces(c \o w, ";") /\ c \o w \in Seq(Token)
      <4>1. CutInTwo(a, w, ";")
          BY MarksAre, CutsInTwo
      <4>2. e \in Pieces(c \o w, ";")
          BY <1>13, <2>2, <4>1 DEF CutInTwo, u
      <4>3. Glued(c, w)
        <5> HIDE DEF c
        <5> QED BY <3>1, Glue
      <4> QED BY <4>2, <4>3 DEF Glued
    <3> QED BY <1>15, <3>2, <3>3
  <2> QED BY <1>9, <2>1, <2>2 DEF Separators
<1>17. \E q \in Seq(Token) : Headed(q) \in Pieces(ScopeList(list), "|") /\ e \in Pieces(q, ";")
    BY <1>16 DEF Headed, h
<1> HIDE DEF v
<1> QED BY <1>9, <1>17 DEF e, PartOf, EntryOf

\* What is torn anywhere does not compile.
LEMMA TornRefused ==
    ASSUME NEW A, \A s \in A : ScopeDeclarable(s) /\ Untorn(s.text), NEW list \in Seq(A),
           NEW ignored, ignored # {} => IgnoreList(ignored) \in Seq(Token),
           ~ScopesWrong(SerializeScopes(list, ignored))
    PROVE  \A l \in 1..Len(list) : Clean(list[l].text)
<1> SUFFICES ASSUME NEW l \in 1..Len(list), ~Clean(list[l].text) PROVE FALSE
    OBVIOUS
<1> DEFINE text == SerializeScopes(list, ignored)
<1>1. PICK q \in Seq(Token), v \in Word, y \in Seq(Token) :
          /\ NoTarget(y) /\ PartOf(q, ScopeList(list)) /\ EntryOf(v, y, q)
    BY TornListRefused
<1>2. Pieces(ScopeList(list), "|") \subseteq Pieces(text, "|")
    BY ScopesWrittenAs
<1>3. ScopesWrong(text)
  <2> HIDE DEF text
  <2>1. PartOf(q, text)
      BY <1>1, <1>2 DEF PartOf
  <2> QED BY <1>1, <2>1, PieceRefused
<1> QED BY <1>3

\* What is read back of the names to ignore
IgnoreReads(b, ignored) ==
    /\ b \in Seq(Token) /\ Pieces(b, "|") = {b} /\ Prefix(b) = <<Name("ignore")>>
    /\ {<<tok>> : tok \in ToSet(After(b, 2))} = ignored

LEMMA IgnoreIs ==
    ASSUME NEW ignored, IsFiniteSet(ignored), \A x \in ignored : IsName(x)
    PROVE  IgnoreReads(IgnoreList(ignored), ignored)
<1> DEFINE list == SetToSeq(ignored)
           names == FlattenSeq(list)
           n == Len(list)
           C == Seq(Token)
           b == IgnoreList(ignored)
<1>1. Enumerates(list, ignored)
    BY AnyOrderIs
<1>2. \A x \in ignored : x \in C /\ Len(x) = 1 /\ x[1] = Name(x[1].v) /\ x[1].v \in Word
    BY NameType
<1> HIDE DEF C, list
<1>3. list \in Seq(ignored) /\ ToSet(list) = ignored
    BY <1>1 DEF Enumerates
<1>4. Proper(list, ignored)
    BY <1>3, ProperIs
<1>5. list \in Seq(C)
  <2>1. n \in Nat /\ DOMAIN list = 1..n /\ \A k \in 1..n : list[k] \in C
      BY <1>2, <1>4 DEF Proper
  <2>2. list = [k \in 1..n |-> list[k]]
      BY <1>3, <2>1
  <2> HIDE DEF n
  <2> QED BY <2>1, <2>2
<1>6. names \in Seq(Token) /\ ToSet(names) = UNION {ToSet(list[i]) : i \in 1..n}
    BY <1>5, FlattenType, FlattenHolds DEF C
<1>7. \A x \in ignored : x = <<x[1]>> /\ ToSet(x) = {x[1]}
  <2> TAKE x \in ignored
  <2>1. x \in Seq(Token) /\ Len(x) = 1
      BY <1>2 DEF C
  <2>2. x = <<x[1]>>
      BY <2>1
  <2> DEFINE y == x[1]
  <2>3. ToSet(<<y>>) = {y}
    <3> HIDE DEF y
    <3> QED BY Single
  <2> QED BY <2>2, <2>3
<1> HIDE DEF n, names
<1>8. \A tok : tok \in ToSet(names) <=> \E x \in ignored : tok = x[1]
  <2>1. \A i \in 1..n : list[i] \in ignored
      BY <1>4 DEF Proper, n
  <2>2. \A x \in ignored : \E i \in 1..n : x = list[i]
      BY <1>3, <1>4 DEF Proper, n
  <2> QED BY <1>6, <1>7, <2>1, <2>2
<1>9. {<<tok>> : tok \in ToSet(names)} = ignored
  <2>1. ASSUME NEW tok \in ToSet(names) PROVE <<tok>> \in ignored
    <3>1. PICK x \in ignored : tok = x[1]
        BY <1>8
    <3>2. x = <<tok>>
        BY <1>7, <3>1
    <3> QED BY <3>2
  <2>2. ASSUME NEW x \in ignored PROVE \E tok \in ToSet(names) : x = <<tok>>
      BY <1>7, <1>8
  <2> QED BY <2>1, <2>2
<1>10. Mark("|") \notin ToSet(names)
  <2>1. \A x \in ignored : x[1] # Mark("|")
      BY <1>2, TokensDiffer
  <2> QED BY <1>8, <2>1
<1>11. /\ b \in Seq(Token) /\ ToSet(b) = {Name("ignore"), Mark(":")} \cup ToSet(names)
       /\ Prefix(b) = <<Name("ignore")>> /\ After(b, 2) = names
  <2>1. b = Header("ignore") \o names
      BY DEF IgnoreList, names, list
  <2>2. "ignore" \in Word
      BY MarksAre
  <2> QED BY <1>6, <2>1, <2>2, HeaderRead
<1> HIDE DEF b
<1>12. Mark("|") \notin ToSet(b)
    BY <1>10, <1>11, TokensDiffer
<1>13. Pieces(b, "|") = {b}
    BY <1>11, <1>12, PiecesOfOne
<1>14. IgnoreReads(b, ignored)
    BY <1>9, <1>11, <1>13 DEF IgnoreReads
<1> QED BY <1>14 DEF b

ReadBack(s) == [name |-> s.name, text |-> s.text, target |-> <<Name(s.target)>>]

CrossesWhole(s) ==
    /\ ScopePart(s) \in Seq(Token)
    /\ Mark("|") \notin ToSet(ScopePart(s)) /\ Pieces(ScopePart(s), ";") = {ScopePart(s)}
    /\ ScopePart(s) # <<>> /\ SelectInSeq(ScopePart(s), IsEquals) # 0
    /\ ScopeOf(ScopePart(s)) = ReadBack(s)

TargetIs(z, t) ==
    LET y == z \o <<Mark(":"), Name(t)>>
        j == SelectLastInSeq(y, IsColon)
    IN  Until(y, j) = z /\ After(y, j) = <<Name(t)>>

LEMMA TargetIsRead == \A z \in Seq(Token), t \in Word : TargetIs(z, t)
BY TargetRead DEF TargetIs

LEMMA WholeCrosses ==
    ASSUME NEW s, ScopeDeclarable(s), Clean(s.text)
    PROVE  CrossesWhole(s)
<1> DEFINE p == ScopePart(s)
           v == NameOf(s)
           y == s.text \o Ending(s)
           M == Mark(";")
           B == Mark("|")
<1>1. /\ p = Entry(v, Escape(s.text) \o Ending(s)) /\ s.name = <<Name(v)>> /\ v \in Word /\ s.text \in Seq(Token)
      /\ p \in Seq(Token)
      /\ ToSet(p) = {Name(v), Mark("=")} \cup (ToSet(Escape(s.text)) \cup {Mark(":"), Name(s.target)})
    BY ScopePartIs
<1>2. M \notin ToSet(s.text) /\ B \notin ToSet(s.text)
    BY DEF Clean, Separators
<1>3. Escape(s.text) = s.text
    BY <1>1, <1>2, EscapeNothing
<1>4. y \in Seq(Token)
    BY <1>1, EndingIs, Glue DEF ScopeDeclarable, Glued
<1>5. M \notin ToSet(p) /\ B \notin ToSet(p)
    BY <1>1, <1>2, <1>3, TokensDiffer
<1>6. TargetIs(s.text, s.target)
    BY <1>1, EndingIs, TargetIsRead DEF ScopeDeclarable
<1>7. p = Entry(v, y)
    BY <1>1, <1>3
<1> HIDE DEF v
<1>8. LET j == SelectLastInSeq(y, IsColon) IN Until(y, j) = s.text /\ After(y, j) = <<Name(s.target)>>
    BY <1>6 DEF TargetIs, Ending
<1> HIDE DEF p, y
<1>9. EntryIs(p, v, y)
    BY <1>1, <1>4, <1>7, EntryIsRead
<1>10. p # <<>> /\ SelectInSeq(p, IsEquals) # 0
    BY <1>9 DEF EntryIs
<1>11. AtEquals(p) = [left |-> <<Name(v)>>, right |-> y]
    BY <1>9 DEF EntryIs
<1>12. AtEquals(p).left = s.name /\ AtEquals(p).right = y
    BY <1>1, <1>11
<1>13. ScopeOf(p) = ReadBack(s)
    BY <1>8, <1>12 DEF ScopeOf, ReadBack
<1>14. Pieces(p, ";") = {p}
    BY <1>1, <1>5, PiecesOfOne
<1> QED BY <1>1, <1>5, <1>10, <1>13, <1>14 DEF CrossesWhole, p

\* The part of the attribute with the scopes
ListReads(a, A) ==
    /\ a \in Seq(Token) /\ Pieces(a, "|") = {a} /\ Prefix(a) = <<Name("scopes")>>
    /\ {ScopeOf(e) : e \in Entries(a)} = {ReadBack(s) : s \in A}

LEMMA WholeList ==
    ASSUME NEW A, \A s \in A : ScopeDeclarable(s), NEW list, Enumerates(list, A), A # {},
           \A i \in 1..Len(list) : Clean(list[i].text)
    PROVE  ListReads(ScopeList(list), A)
<1> DEFINE n == Len(list)
           parts == ScopeParts(list)
           j == JoinedBy(parts, ";")
           a == ScopeList(list)
           B == Mark("|")
<1>1. list \in Seq(A) /\ ToSet(list) = A
    BY DEF Enumerates
<1>2. Proper(list, A)
    BY <1>1, ProperIs
<1>3. PartsOf(list, parts) /\ \A i \in 1..n : list[i] \in A
    BY <1>1, ScopePartsAre
<1>4. \A s \in A : \E i \in 1..n : s = list[i]
    BY <1>1, <1>2 DEF Proper
<1>5. n \in Nat /\ n # 0
    BY <1>2, <1>4 DEF Proper
<1> HIDE DEF n, parts
<1>6. /\ parts \in Seq(Seq(Token)) /\ Len(parts) = n /\ \A i \in 1..n : parts[i] = ScopePart(list[i])
    BY <1>3 DEF PartsOf, n
<1>7. \A i \in 1..n : CrossesWhole(list[i])
    BY <1>3, WholeCrosses DEF n
<1>8. \A i \in 1..n : /\ parts[i] \in Seq(Token) /\ B \notin ToSet(parts[i]) /\ Pieces(parts[i], ";") = {parts[i]}
                      /\ parts[i] # <<>> /\ SelectInSeq(parts[i], IsEquals) # 0
                      /\ ScopeOf(parts[i]) = ReadBack(list[i])
    BY <1>6, <1>7 DEF CrossesWhole
<1>9. ";" \in Word /\ Mark(";") # B
    BY MarksAre, TokensDiffer
<1>10. j \in Seq(Token)
    BY <1>6, <1>9, JoinedType
<1>11. Pieces(j, ";") = UNION {Pieces(parts[i], ";") : i \in 1..n}
  <2>1. Pieces(j, ";") = UNION {Pieces(parts[i], ";") : i \in 1..Len(parts)}
      BY <1>5, <1>6, <1>9, PiecesJoined
  <2> QED BY <1>6, <2>1
<1>12. B \notin ToSet(j)
  <2> DEFINE S == {B}
  <2>1. \A i \in 1..n : ToSet(parts[i]) \cap S = {}
      BY <1>8
  <2>2. Mark(";") \notin S
      BY <1>9
  <2> HIDE DEF S
  <2>3. n \in 0..Len(parts)
      BY <1>5, <1>6
  <2>4. ToSet(JoinedFirst(parts, n, ";")) \cap S = {}
      BY <1>6, <1>9, <2>1, <2>2, <2>3, JoinedHolds
  <2>5. JoinedFirst(parts, n, ";") = j
      BY <1>6, <1>9, JoinedGrows
  <2> QED BY <2>4, <2>5 DEF S
<1>13. a = Headed(j)
    BY DEF ScopeList, Headed, parts
<1> HIDE DEF j, a
<1>14. HeadedRead(j)
    BY <1>10, HeadedIs
<1>15. SelectInSeq(a, IsColon) = 2 /\ Prefix(a) = <<Name("scopes")>> /\ After(a, 2) = j
    BY <1>13, <1>14 DEF HeadedRead
<1>16. a \in Seq(Token) /\ ToSet(a) = ToSet(Header("scopes")) \cup ToSet(j)
  <2> DEFINE h == Header("scopes")
  <2>1. h \in Seq(Token)
      BY HeaderIs
  <2> HIDE DEF h
  <2>2. Glued(h, j)
      BY <1>10, <2>1, Glue
  <2> QED BY <1>13, <2>2 DEF Glued, Headed, h
<1>17. B \notin ToSet(a)
    BY <1>12, <1>16, HeaderIs
<1>18. Pieces(a, "|") = {a}
    BY <1>16, <1>17, PiecesOfOne
<1>19. After(a, SelectInSeq(a, IsColon)) = j
    BY <1>15
<1>20. \A e : e \in Entries(a) <=> e \in Pieces(j, ";") /\ e # <<>> /\ SelectInSeq(e, IsEquals) # 0
  <2> DEFINE P == Pieces(j, ";")
  <2>1. Entries(a) = {e \in Pairs(j) : SelectInSeq(e, IsEquals) # 0}
      BY <1>19 DEF Entries
  <2> HIDE DEF P
  <2>2. \A e : e \in Pairs(j) <=> e \in P /\ e # <<>>
      BY DEF Pairs, P
  <2> QED BY <2>1, <2>2 DEF P
<1>21. \A e : e \in Entries(a) <=> \E i \in 1..n : e = parts[i]
  <2>1. \A e : e \in Pieces(j, ";") <=> \E i \in 1..n : e = parts[i]
    <3> DEFINE P(i) == Pieces(parts[i], ";")
               Q == Pieces(j, ";")
    <3>1. \A i \in 1..n : P(i) = {parts[i]}
        BY <1>8
    <3>2. Q = UNION {P(i) : i \in 1..n}
        BY <1>11
    <3> HIDE DEF P, Q
    <3>3. \A e : e \in Q <=> \E i \in 1..n : e = parts[i]
        BY <3>1, <3>2
    <3> QED BY <3>3 DEF Q
  <2>2. \A i \in 1..n : parts[i] # <<>> /\ SelectInSeq(parts[i], IsEquals) # 0
      BY <1>8
  <2> QED BY <1>20, <2>1, <2>2
<1>22. {ScopeOf(e) : e \in Entries(a)} = {ReadBack(s) : s \in A}
  <2>1. ASSUME NEW e \in Entries(a) PROVE \E s \in A : ScopeOf(e) = ReadBack(s)
    <3>1. PICK i \in 1..n : e = parts[i]
        BY <1>21
    <3>2. list[i] \in A
        BY <1>3 DEF n
    <3> QED BY <1>8, <3>1, <3>2
  <2>2. ASSUME NEW s \in A PROVE \E e \in Entries(a) : ScopeOf(e) = ReadBack(s)
    <3>1. PICK i \in 1..n : s = list[i]
        BY <1>4 DEF n
    <3> QED BY <1>8, <1>21, <3>1
  <2> QED BY <2>1, <2>2
<1>23. ListReads(a, A)
    BY <1>15, <1>16, <1>18, <1>22 DEF ListReads
<1> QED BY <1>23 DEF a

\* Every scope crosses the attribute, or the method does not compile.
LEMMA ScopesCross ==
    ASSUME NEW A, \A s \in A : ScopeDeclarable(s) /\ Untorn(s.text), A # {}, NEW list, Enumerates(list, A),
           NEW ignored, IsFiniteSet(ignored), \A x \in ignored : IsName(x),
           ~ScopesWrong(SerializeScopes(list, ignored))
    PROVE  /\ ScopesIn(SerializeScopes(list, ignored)) = {ReadBack(s) : s \in A}
           /\ IgnoredIn(SerializeScopes(list, ignored)) = ignored
<1> DEFINE a == ScopeList(list)
           b == IgnoreList(ignored)
           text == SerializeScopes(list, ignored)
           K == {<<tok>> : tok \in ToSet(After(b, 2))}
<1>1. list \in Seq(A)
    BY DEF Enumerates
<1>2. IgnoreReads(b, ignored)
    BY IgnoreIs
<1>3. \A i \in 1..Len(list) : Clean(list[i].text)
  <2>1. IgnoreList(ignored) \in Seq(Token)
      BY <1>2 DEF IgnoreReads
  <2> QED BY <1>1, <2>1, TornRefused
<1>4. ListReads(a, A)
    BY <1>3, WholeList
<1>5. /\ ignored = {} => text = a
      /\ ignored # {} => Pieces(text, "|") = Pieces(a, "|") \cup Pieces(b, "|")
  <2>1. b \in Seq(Token)
      BY <1>2 DEF IgnoreReads
  <2> QED BY <1>1, <2>1, ScopesWrittenAs
<1> HIDE DEF a, b, text
<1>6. /\ Pieces(a, "|") = {a} /\ Prefix(a) = <<Name("scopes")>>
      /\ {ScopeOf(e) : e \in Entries(a)} = {ReadBack(s) : s \in A}
    BY <1>4 DEF ListReads
<1>7. Pieces(b, "|") = {b} /\ Prefix(b) = <<Name("ignore")>> /\ K = ignored
    BY <1>2 DEF IgnoreReads
<1>8. <<Name("ignore")>> # <<Name("scopes")>>
  <2> DEFINE x == Name("ignore")
             y == Name("scopes")
  <2>1. x # y
      BY TokensDiffer
  <2> HIDE DEF x, y
  <2>2. <<x>>[1] = x /\ <<y>>[1] = y
      OBVIOUS
  <2>3. <<x>> # <<y>>
      BY <2>1, <2>2
  <2> QED BY <2>3 DEF x, y
<1>9. Pieces(text, "|") = IF ignored = {} THEN {a} ELSE {a, b}
    BY <1>5, <1>6, <1>7
<1>10. {p \in Pieces(text, "|") : Prefix(p) = <<Name("scopes")>>} = {a}
    BY <1>6, <1>7, <1>8, <1>9
<1>11. {p \in Pieces(text, "|") : Prefix(p) = <<Name("ignore")>>} = IF ignored = {} THEN {} ELSE {b}
    BY <1>6, <1>7, <1>8, <1>9
<1>12. ScopesIn(text) = {ReadBack(s) : s \in A}
  <2> DEFINE F(p) == {ScopeOf(e) : e \in Entries(p)}
  <2>1. ScopesIn(text) = UNION {F(p) : p \in {a}}
      BY <1>10 DEF ScopesIn
  <2>2. F(a) = {ReadBack(s) : s \in A}
      BY <1>6
  <2> HIDE DEF F
  <2>3. UNION {F(p) : p \in {a}} = F(a)
      OBVIOUS
  <2> QED BY <2>1, <2>2, <2>3
<1>13. IgnoredIn(text) = ignored
  <2> DEFINE F(p) == {<<tok>> : tok \in ToSet(After(p, 2))}
             P == {p \in Pieces(text, "|") : Prefix(p) = <<Name("ignore")>>}
  <2>1. IgnoredIn(text) = UNION {F(p) : p \in P}
      BY DEF IgnoredIn
  <2>2. F(b) = ignored
      BY <1>7
  <2>3. P = IF ignored = {} THEN {} ELSE {b}
      BY <1>11
  <2> HIDE DEF F, P
  <2>4. UNION {F(p) : p \in P} = ignored
      BY <2>2, <2>3
  <2> QED BY <2>1, <2>4
<1> QED BY <1>12, <1>13 DEF text

-----------------------------------------------------------------------------
(* The aliases read back, put in the place of those declared.               *)

HasNamed(S, n) == \E a \in S : a.name = n

OneNamed(S, n) == CHOOSE a \in S : a.name = n

PutFor(tok, S) ==
    IF tok.t = "alias" /\ HasNamed(S, <<Name(tok.v)>>) THEN OneNamed(S, <<Name(tok.v)>>).text ELSE <<tok>>

PutFors(text, S) == [i \in DOMAIN text |-> PutFor(text[i], S)]

LEMMA SubstituteIs ==
    ASSUME NEW text \in Seq(Token), NEW S, \A a \in S : a.text \in Seq(Token)
    PROVE  /\ Substitute(text, S) = FlattenSeq(PutFors(text, S))
           /\ PutFors(text, S) \in Seq(Seq(Token)) /\ Len(PutFors(text, S)) = Len(text)
           /\ Len(text) \in Nat /\ DOMAIN text = 1..Len(text)
           /\ \A i \in 1..Len(text) : PutFors(text, S)[i] = PutFor(text[i], S)
<1> DEFINE C == Seq(Token)
           n == Len(text)
           s == PutFors(text, S)
<1>1. n \in Nat /\ DOMAIN text = 1..n /\ \A i \in 1..n : text[i] \in Token
    BY ProperIs DEF Proper
<1>2. Substitute(text, S) = FlattenSeq(s)
    BY DEF Substitute, PutFors, PutFor, HasNamed, OneNamed
<1>3. \A i \in 1..n : PutFor(text[i], S) \in C
  <2> TAKE i \in 1..n
  <2> DEFINE m == <<Name(text[i].v)>>
             tok == text[i]
  <2>1. HasNamed(S, m) => OneNamed(S, m) \in S
      BY DEF HasNamed, OneNamed
  <2>2. <<tok>> \in Seq(Token)
    <3>1. tok \in Token
        BY <1>1
    <3> HIDE DEF tok
    <3> QED BY <3>1, Single
  <2>3. HasNamed(S, m) => OneNamed(S, m).text \in Seq(Token)
      BY <2>1
  <2> QED BY <2>2, <2>3 DEF PutFor
<1> HIDE DEF C, n
<1>4. s = [i \in 1..n |-> PutFor(text[i], S)]
    BY <1>1 DEF PutFors
<1>5. s \in Seq(C) /\ Len(s) = n /\ \A i \in 1..n : s[i] = PutFor(text[i], S)
    BY <1>1, <1>3, <1>4
<1> QED BY <1>1, <1>2, <1>5 DEF C, n

LEMMA SubstituteRead ==
    ASSUME NEW text \in Seq(Token), NEW A, \A a \in A : Declarable(a), \A a, b \in A : a.name = b.name => a = b,
           NEW E, AliasesKept(E, A), Mark("\\") \notin ToSet(Substitute(text, E))
    PROVE  Substitute(text, E) = Substitute(text, A)
<1> DEFINE n == Len(text)
           p == PutFors(text, E)
           q == PutFors(text, A)
<1>1. \A e \in E : \E a \in A : e.name = a.name /\ e.text \in Seq(Token)
                                /\ (e.text = a.text \/ Mark("\\") \in ToSet(e.text))
  <2> TAKE e \in E
  <2>1. PICK a \in A : IsAliasOf(e, a)
      BY DEF AliasesKept
  <2>2. ReadAs(a.text, e.text)
      BY <2>1 DEF IsAliasOf
  <2>3. e.name = a.name
    <3> DEFINE t == e.text
               r == a.name
    <3>1. e = [name |-> r, text |-> t]
        BY <2>1 DEF IsAliasOf
    <3> HIDE DEF t, r
    <3>2. e.name = r
        BY <3>1
    <3> QED BY <3>2 DEF r
  <2> QED BY <2>2, <2>3 DEF ReadAs
<1>2. \A a \in A : \E e \in E : e.name = a.name
    BY DEF AliasesKept
<1>3. \A a \in A : a.text \in Seq(Token)
    BY DEF Declarable
<1>4. /\ Substitute(text, E) = FlattenSeq(p) /\ p \in Seq(Seq(Token)) /\ Len(p) = n
      /\ n \in Nat /\ DOMAIN text = 1..n
      /\ \A i \in 1..n : p[i] = PutFor(text[i], E)
    BY <1>1, SubstituteIs
<1>5. Substitute(text, A) = FlattenSeq(q)
    BY <1>3, SubstituteIs
<1> HIDE DEF n
<1>6. \A i \in 1..n : Mark("\\") \notin ToSet(p[i])
  <2> HIDE DEF p
  <2>1. ToSet(FlattenSeq(p)) = UNION {ToSet(p[i]) : i \in 1..Len(p)}
      BY <1>4, FlattenHolds
  <2> QED BY <1>4, <2>1
<1>7. ASSUME NEW i \in 1..n PROVE PutFor(text[i], E) = PutFor(text[i], A)
  <2> DEFINE m == <<Name(text[i].v)>>
  <2>1. HasNamed(E, m) <=> HasNamed(A, m)
      BY <1>1, <1>2 DEF HasNamed
  <2>2. CASE text[i].t = "alias" /\ HasNamed(E, m)
    <3> DEFINE e == OneNamed(E, m)
               b == OneNamed(A, m)
    <3>1. e \in E /\ e.name = m /\ b \in A /\ b.name = m
        BY <2>1, <2>2 DEF HasNamed, OneNamed
    <3>2. PutFor(text[i], E) = e.text /\ PutFor(text[i], A) = b.text
        BY <2>1, <2>2 DEF PutFor
    <3>3. Mark("\\") \notin ToSet(e.text)
        BY <1>4, <1>6, <3>2
    <3> HIDE DEF e, b
    <3>4. PICK a \in A : e.name = a.name /\ e.text = a.text
        BY <1>1, <3>1, <3>3
    <3>5. a = b
        BY <3>1, <3>4
    <3> QED BY <3>2, <3>4, <3>5
  <2>3. CASE ~(text[i].t = "alias" /\ HasNamed(E, m))
    <3>1. PutFor(text[i], E) = <<text[i]>> /\ PutFor(text[i], A) = <<text[i]>>
        BY <2>1, <2>3 DEF PutFor
    <3> QED BY <3>1
  <2> QED BY <2>2, <2>3
<1>8. p = q
  <2>1. p = [i \in 1..n |-> PutFor(text[i], E)] /\ q = [i \in 1..n |-> PutFor(text[i], A)]
      BY <1>4 DEF PutFors
  <2> QED BY <1>7, <2>1
<1> QED BY <1>4, <1>5, <1>8

LEMMA SubstituteNothing ==
    ASSUME NEW text \in Seq(Token)
    PROVE  Substitute(text, {}) = text
<1> DEFINE s == PutFors(text, {})
<1>1. /\ Substitute(text, {}) = FlattenSeq(s)
      /\ s \in Seq(Seq(Token)) /\ Len(s) = Len(text)
      /\ \A i \in 1..Len(text) : s[i] = PutFor(text[i], {})
    BY SubstituteIs
<1>2. \A i \in 1..Len(text) : s[i] = <<text[i]>>
  <2>1. \A m : ~HasNamed({}, m)
      BY DEF HasNamed
  <2>2. \A i \in 1..Len(text) : PutFor(text[i], {}) = <<text[i]>>
      BY <2>1 DEF PutFor
  <2> QED BY <1>1, <2>2
<1> HIDE DEF s
<1>3. FlattenSeq(s) = text
    BY <1>1, <1>2, FlattenSingles
<1> QED BY <1>1, <1>3

-----------------------------------------------------------------------------
(* The scopes of one target, in the order of the list.                      *)

LEMMA EnumeratesGrown ==
    ASSUME NEW S, NEW a, Enumerates(a, S), NEW x, x \notin S
    PROVE  Enumerates(a \o <<x>>, S \cup {x})
<1> DEFINE V == S \cup {x}
           n == Len(a)
           b == <<x>>
           c == a \o b
<1>1. a \in Seq(S) /\ ToSet(a) = S /\ \A i, j \in 1..n : i # j => a[i] # a[j]
    BY DEF Enumerates
<1>2. a \in Seq(V) /\ b \in Seq(V) /\ Len(b) = 1 /\ b[1] = x /\ ToSet(b) = {x}
  <2>1. a \in Seq(V)
      BY <1>1
  <2>2. x \in V
      OBVIOUS
  <2> HIDE DEF V
  <2> QED BY <2>1, <2>2, Single
<1>3. Proper(a, S)
    BY <1>1, ProperIs
<1> HIDE DEF V, b, n
<1>4. /\ c \in Seq(V) /\ Len(c) = n + 1 /\ n \in Nat
      /\ \A k \in 1..n : c[k] = a[k]
      /\ \A k \in 1..Len(b) : c[n + k] = b[k]
      /\ ToSet(c) = ToSet(a) \cup ToSet(b)
  <2>1. Beside(a, b, c, V)
      BY <1>2, BesideIs
  <2>2. ToSet(c) = ToSet(a) \cup ToSet(b)
      BY <1>2, SetsBeside
  <2>3. n \in Nat
      BY <1>3 DEF Proper, n
  <2>4. c \in Seq(V) /\ Len(c) = n + Len(b)
      BY <2>1 DEF Beside, n
  <2>5. \A k \in 1..n : c[k] = a[k]
      BY <2>1 DEF Beside, n
  <2>6. \A k \in 1..Len(b) : c[n + k] = b[k]
      BY <2>1 DEF Beside, n
  <2> HIDE DEF c
  <2> QED BY <1>2, <2>2, <2>3, <2>4, <2>5, <2>6
<1>5. c[n + 1] = x
    BY <1>2, <1>4
<1>6. ToSet(c) = V
    BY <1>1, <1>2, <1>4 DEF V
<1>7. \A k \in 1..n : a[k] \in S
    BY <1>3 DEF Proper, n
<1> HIDE DEF c
<1>8. \A i, j \in 1..Len(c) : i # j => c[i] # c[j]
  <2> TAKE i, j \in 1..Len(c)
  <2>1. i \in 1..n \/ i = n + 1
      BY <1>4
  <2>2. j \in 1..n \/ j = n + 1
      BY <1>4
  <2>3. CASE i \in 1..n /\ j \in 1..n
      BY <1>1, <1>4, <2>3
  <2>4. CASE i \in 1..n /\ j = n + 1
      BY <1>4, <1>5, <1>7, <2>4
  <2>5. CASE i = n + 1 /\ j \in 1..n
      BY <1>4, <1>5, <1>7, <2>5
  <2>6. CASE i = n + 1 /\ j = n + 1
      BY <2>6
  <2> QED BY <2>1, <2>2, <2>3, <2>4, <2>5, <2>6
<1>9. Enumerates(c, V)
    BY <1>4, <1>6, <1>8 DEF Enumerates
<1> QED BY <1>9 DEF c, V, b

LEMMA KeptEnumerates ==
    ASSUME NEW S, NEW list, Enumerates(list, S), NEW T \in SUBSET S
    PROVE  Enumerates(Kept(list, {i \in DOMAIN list : list[i] \in T}), T)
<1> DEFINE n == Len(list)
           P == {i \in DOMAIN list : list[i] \in T}
           C == Seq(S)
           k == [i \in DOMAIN list |-> IF i \in P THEN <<list[i]>> ELSE <<>>]
           F(i) == FlattenSeq(First(k, i))
           X(i) == {list[j] : j \in 1..i} \cap T
<1>1. list \in Seq(S) /\ ToSet(list) = S /\ \A i, j \in 1..n : i # j => list[i] # list[j]
    BY DEF Enumerates
<1>2. n \in Nat /\ DOMAIN list = 1..n /\ (\A i \in 1..n : list[i] \in S) /\ \A s \in S : \E i \in 1..n : s = list[i]
    BY <1>1, ProperIs DEF Proper
<1>3. k \in Seq(C) /\ Len(k) = n /\ \A i \in 1..n : k[i] = IF list[i] \in T THEN <<list[i]>> ELSE <<>>
  <2>1. \A i \in 1..n : <<list[i]>> \in C
      BY <1>2
  <2>2. <<>> \in C
      OBVIOUS
  <2> HIDE DEF C, n
  <2> QED BY <1>2, <2>1, <2>2
<1>4. Kept(list, P) = FlattenSeq(k)
    BY DEF Kept
<1> HIDE DEF n, k, P
<1>5. /\ F(0) = <<>> /\ \A i \in 1..n : F(i) = F(i - 1) \o k[i]
      /\ F(n) = FlattenSeq(k)
      /\ \A i \in 0..n : F(i) \in Seq(S)
  <2>1. /\ FlattenSeq(First(k, 0)) = <<>>
        /\ \A i \in 1..Len(k) : FlattenSeq(First(k, i)) = FlattenSeq(First(k, i - 1)) \o k[i]
        /\ \A i \in 0..Len(k) : FlattenSeq(First(k, i)) \in Seq(S)
        /\ First(k, Len(k)) = k
      BY <1>3, FlattenFirst DEF C
  <2> QED BY <1>3, <2>1
<1> HIDE DEF F
<1> DEFINE G == {i \in 0..n : Enumerates(F(i), X(i))}
<1>6. 0 \in G
  <2>1. X(0) = {}
      OBVIOUS
  <2>2. Enumerates(<<>>, {})
      BY DEF Enumerates, ToSet
  <2>3. 0 \in 0..n
      BY <1>2
  <2> QED BY <1>5, <2>1, <2>2, <2>3
<1>7. ASSUME NEW i \in 0..(n - 1), i \in G PROVE i + 1 \in G
  <2>1. i + 1 \in 1..n /\ i + 1 \in 0..n /\ (i + 1) - 1 = i /\ i \in 0..n
      BY <1>2
  <2>2. F(i + 1) = F(i) \o k[i + 1]
      BY <1>5, <2>1
  <2>3. Enumerates(F(i), X(i))
      BY <1>7
  <2> DEFINE x == list[i + 1]
  <2>4. \A j \in 1..i : list[j] # x
    <3> TAKE j \in 1..i
    <3>1. j \in 1..n /\ j # i + 1
        BY <1>2
    <3> QED BY <1>1, <2>1, <3>1
  <2>5. X(i + 1) = IF x \in T THEN X(i) \cup {x} ELSE X(i)
    <3>1. \A j : j \in 1..(i + 1) <=> j \in 1..i \/ j = i + 1
        BY <2>1
    <3> QED BY <3>1
  <2>6. x \notin X(i)
      BY <2>4
  <2> HIDE DEF X
  <2>7. CASE x \in T
    <3>1. k[i + 1] = <<x>>
        BY <1>3, <2>1, <2>7
    <3> HIDE DEF x
    <3>2. Enumerates(F(i) \o <<x>>, X(i) \cup {x})
        BY <2>3, <2>6, EnumeratesGrown
    <3>3. Enumerates(F(i + 1), X(i + 1))
        BY <2>2, <2>5, <2>7, <3>1, <3>2
    <3> QED BY <2>1, <3>3
  <2>8. CASE x \notin T
    <3>1. k[i + 1] = <<>>
        BY <1>3, <2>1, <2>8
    <3>2. F(i) \o <<>> = F(i)
        BY <1>5, <2>1
    <3>3. Enumerates(F(i + 1), X(i + 1))
        BY <2>2, <2>3, <2>5, <2>8, <3>1, <3>2
    <3> QED BY <2>1, <3>3
  <2> QED BY <2>7, <2>8
<1>8. n \in G
  <2> HIDE DEF G
  <2>1. 0..n \subseteq G
      BY <1>2, <1>6, <1>7, Upwards
  <2> QED BY <1>2, <2>1
<1>9. X(n) = T
    BY <1>2
<1>10. Enumerates(Kept(list, P), T)
    BY <1>4, <1>5, <1>8, <1>9
<1> QED BY <1>10 DEF P

-----------------------------------------------------------------------------
(* The scopes and the clauses as they are written, aliases replaced.        *)

AsWritten(s) == [name |-> s.name, text |-> Written(s.text), target |-> <<Name(s.target)>>]

ActiveDeclared == Active(decl.scopes, decl.ignored)

ActiveWritten == {AsWritten(s) : s \in ActiveDeclared}

AllWritten == [c \in ToSet(Clause) |-> Written(decl.clauses[c])]

Merged(cl) ==
    \/ ActiveWritten = {} /\ cl = AllWritten
    \/ /\ \A u \in ActiveWritten : u.text # <<>>
       /\ \E list \in SetToSeqs(ActiveWritten) : cl = Scoped(AllWritten, list)

LEMMA DeclaredNames ==
    ASSUME decl \in Methods
    PROVE  /\ \A a \in decl.aliases : Declarable(a)
           /\ \A s \in decl.scopes : ScopeDeclarable(s)
           /\ \A a, b \in decl.aliases : a.name = b.name => a = b
           /\ \A s, u \in decl.scopes : s.name = u.name => s = u
           /\ \A x \in decl.ignored : IsName(x)
           /\ IsFiniteSet(decl.aliases) /\ IsFiniteSet(decl.scopes) /\ IsFiniteSet(decl.ignored)
           /\ decl.clauses \in [ToSet(Clause) -> Seq(Token)]
           /\ \A s \in decl.scopes : s = [name |-> s.name, text |-> s.text, target |-> s.target]
BY MethodsAssumption DEF Declarable, ScopeDeclarable

LEMMA WrittenType ==
    ASSUME decl \in Methods, NEW text \in Seq(Token)
    PROVE  Written(text) \in Seq(Token)
<1>1. \A a \in decl.aliases : a.text \in Seq(Token)
    BY DeclaredNames DEF Declarable
<1> QED BY <1>1, SubstituteType DEF Written

LEMMA ActiveIs ==
    ASSUME decl \in Methods
    PROVE  /\ IsFiniteSet(ActiveDeclared) /\ IsFiniteSet(ActiveWritten) /\ ActiveDeclared \subseteq decl.scopes
           /\ \A s \in ActiveDeclared : /\ AsWritten(s).name = s.name /\ AsWritten(s).text = Written(s.text)
                                       /\ AsWritten(s).target = <<Name(s.target)>>
           /\ \A s, u \in ActiveDeclared : AsWritten(s) = AsWritten(u) => s = u
           /\ \A u \in ActiveWritten : u.text \in Seq(Token)
<1>1. ActiveDeclared \subseteq decl.scopes
    BY DEF ActiveDeclared, Active
<1>2. IsFiniteSet(ActiveDeclared)
    BY <1>1, DeclaredNames, FS_Subset
<1>3. IsFiniteSet(ActiveWritten)
  <2> DEFINE f == [s \in ActiveDeclared |-> AsWritten(s)]
  <2>1. f \in Surjection(ActiveDeclared, ActiveWritten)
      BY DEF Surjection, ActiveWritten
  <2> QED BY <1>2, <2>1, FS_Surjection
<1>4. \A s \in ActiveDeclared : /\ AsWritten(s).name = s.name /\ AsWritten(s).text = Written(s.text)
                                /\ AsWritten(s).target = <<Name(s.target)>>
  <2> TAKE s \in ActiveDeclared
  <2> DEFINE n == s.name
             t == Written(s.text)
             g == <<Name(s.target)>>
  <2>1. AsWritten(s) = [name |-> n, text |-> t, target |-> g]
      BY DEF AsWritten
  <2> HIDE DEF n, t, g
  <2>2. AsWritten(s).name = n /\ AsWritten(s).text = t /\ AsWritten(s).target = g
      BY <2>1
  <2> QED BY <2>2 DEF n, t, g
<1>5. \A s, u \in ActiveDeclared : AsWritten(s) = AsWritten(u) => s = u
  <2> TAKE s, u \in ActiveDeclared
  <2> HAVE AsWritten(s) = AsWritten(u)
  <2>1. s.name = u.name
      BY <1>4
  <2> QED BY <1>1, <2>1, DeclaredNames
<1>6. \A u \in ActiveWritten : u.text \in Seq(Token)
  <2> TAKE u \in ActiveWritten
  <2>1. PICK s \in ActiveDeclared : u = AsWritten(s)
      BY DEF ActiveWritten
  <2>2. s.text \in Seq(Token)
      BY <1>1, DeclaredNames DEF ScopeDeclarable, Declarable
  <2>3. Written(s.text) \in Seq(Token)
      BY <2>2, WrittenType
  <2> QED BY <1>4, <2>1, <2>3
<1> QED BY <1>1, <1>2, <1>3, <1>4, <1>5, <1>6

LEMMA TextsAdded ==
    ASSUME decl \in Methods, NEW list, Enumerates(list, ActiveWritten), NEW target
    PROVE  FlattenSeq(Texts(list, target)) \in Added(target)
<1> DEFINE m == <<Name(target)>>
           T == {u \in ActiveWritten : u.target = m}
           S == Applied(target)
           of == Kept(list, {i \in DOMAIN list : list[i].target = m})
           n == Len(of)
           g == [i \in 1..n |-> CHOOSE s \in S : AsWritten(s) = of[i]]
<1>1. list \in Seq(ActiveWritten)
    BY DEF Enumerates
<1>2. Proper(list, ActiveWritten)
    BY <1>1, ProperIs
<1>3. {i \in DOMAIN list : list[i].target = m} = {i \in DOMAIN list : list[i] \in T}
    BY <1>2 DEF Proper
<1>4. Enumerates(of, T)
  <2>1. T \in SUBSET ActiveWritten
      OBVIOUS
  <2>2. Enumerates(Kept(list, {i \in DOMAIN list : list[i] \in T}), T)
    <3> HIDE DEF T
    <3> QED BY <2>1, KeptEnumerates
  <2> QED BY <1>3, <2>2
<1>5. of \in Seq(T) /\ ToSet(of) = T /\ \A i, j \in 1..n : i # j => of[i] # of[j]
    BY <1>4 DEF Enumerates
<1>6. n \in Nat /\ DOMAIN of = 1..n /\ (\A i \in 1..n : of[i] \in T) /\ \A u \in T : \E i \in 1..n : u = of[i]
  <2>1. Proper(of, T)
    <3> HIDE DEF T, of
    <3> QED BY <1>5, ProperIs
  <2> QED BY <1>5, <2>1 DEF Proper
<1> HIDE DEF of, n
<1>7. S \subseteq ActiveDeclared /\ \A s \in ActiveDeclared : s \in S <=> s.target = target
    BY DEF Applied, ActiveDeclared
<1>8. \A s \in ActiveDeclared : AsWritten(s).target = m <=> s.target = target
  <2> TAKE s \in ActiveDeclared
  <2>1. AsWritten(s).target = <<Name(s.target)>>
      BY ActiveIs
  <2> DEFINE x == Name(s.target)
             y == Name(target)
  <2>2. x = y <=> s.target = target
      BY TokensDiffer
  <2> HIDE DEF x, y
  <2>3. <<x>> = <<y>> <=> x = y
    <3>1. <<x>>[1] = x /\ <<y>>[1] = y
        OBVIOUS
    <3> QED BY <3>1
  <2> QED BY <2>1, <2>2, <2>3 DEF x, y
<1>9. \A i \in 1..n : \E s \in S : AsWritten(s) = of[i]
  <2> TAKE i \in 1..n
  <2>1. PICK s \in ActiveDeclared : of[i] = AsWritten(s)
      BY <1>6 DEF ActiveWritten
  <2>2. AsWritten(s).target = m
      BY <1>6, <2>1
  <2> QED BY <1>7, <1>8, <2>1, <2>2
<1>10. \A s \in S : AsWritten(s) \in T
    BY <1>7, <1>8 DEF ActiveWritten
<1> HIDE DEF T, S
<1>11. g \in [1..n -> S] /\ \A i \in 1..n : AsWritten(g[i]) = of[i]
    BY <1>9
<1> HIDE DEF g
<1>12. g \in Seq(S) /\ Len(g) = n /\ DOMAIN g = 1..n
    BY <1>6, <1>11
<1>13. ToSet(g) = S
  <2>1. Proper(g, S)
      BY <1>12, ProperIs
  <2>2. ASSUME NEW s \in S PROVE s \in ToSet(g)
    <3>1. PICK i \in 1..n : AsWritten(s) = of[i]
        BY <1>6, <1>10
    <3>2. AsWritten(g[i]) = AsWritten(s) /\ g[i] \in S
        BY <1>11, <3>1
    <3>3. g[i] = s
        BY <1>7, <3>2, ActiveIs
    <3>4. i \in 1..Len(g)
        BY <1>12
    <3> QED BY <2>1, <3>3, <3>4 DEF Proper
  <2>3. \A x \in ToSet(g) : x \in S
      BY <2>1 DEF Proper
  <2> QED BY <2>2, <2>3
<1>14. \A i, j \in 1..Len(g) : i # j => g[i] # g[j]
  <2> TAKE i, j \in 1..Len(g)
  <2> HAVE i # j
  <2>1. i \in 1..n /\ j \in 1..n
      BY <1>12
  <2>2. of[i] # of[j]
      BY <1>5, <2>1 DEF n
  <2> QED BY <1>11, <2>1, <2>2
<1>15. Enumerates(g, S)
    BY <1>12, <1>13, <1>14 DEF Enumerates
<1>16. g \in SetToSeqs(S)
    BY <1>15, OrderBack
<1>17. Texts(list, target) = [i \in DOMAIN g |-> Written(g[i].text)]
  <2>1. Texts(list, target) = [i \in 1..n |-> of[i].text]
    <3>1. Texts(list, target) = [i \in DOMAIN of |-> of[i].text]
        BY DEF Texts, of
    <3> QED BY <1>6, <3>1
  <2>2. \A i \in 1..n : of[i].text = Written(g[i].text)
    <3> TAKE i \in 1..n
    <3>1. g[i] \in ActiveDeclared /\ AsWritten(g[i]) = of[i]
        BY <1>7, <1>11
    <3> QED BY <3>1, ActiveIs
  <2> QED BY <1>12, <2>1, <2>2
<1> QED BY <1>16, <1>17 DEF Added, S

LEMMA NothingAdded ==
    ASSUME decl \in Methods, ActiveWritten = {}, NEW target
    PROVE  <<>> \in Added(target)
<1>1. Applied(target) = {}
    BY DEF ActiveWritten, ActiveDeclared, Applied
<1>2. Enumerates(<<>>, {})
    BY DEF Enumerates, ToSet
<1>3. <<>> \in SetToSeqs(Applied(target))
    BY <1>1, <1>2, OrderBack
<1>4. FlattenSeq([i \in DOMAIN <<>> |-> Written(<<>>[i].text)]) = <<>>
  <2>1. DOMAIN <<>> = {}
      OBVIOUS
  <2>2. [i \in DOMAIN <<>> |-> Written(<<>>[i].text)] = <<>>
      BY <2>1
  <2>3. FlattenSeq(<<>>) = <<>>
      BY DEF FlattenSeq
  <2> QED BY <2>2, <2>3
<1> QED BY <1>3, <1>4 DEF Added

Firsts(items) == FlattenSeq([i \in DOMAIN items |-> FirstItem(items[i])])

LEMMA ScopedIs ==
    ASSUME NEW cl \in [ToSet(Clause) -> Seq(Token)], NEW list
    PROVE  /\ Scoped(cl, list).where = Combined(cl.where, Texts(list, "where"))
           /\ Scoped(cl, list).having = Combined(cl.having, Texts(list, "having"))
           /\ Scoped(cl, list).group_by = cl.group_by \o FlattenSeq(Texts(list, "group_by"))
           /\ Scoped(cl, list).order_by = cl.order_by \o FlattenSeq(Texts(list, "order_by"))
           /\ Scoped(cl, list).select = cl.select \o Firsts(Texts(list, "select"))
           /\ cl.from \o FlattenSeq(Texts(list, "from")) # <<>> =>
                 Scoped(cl, list).from = (cl.from \o FlattenSeq(Texts(list, "from"))) \o FlattenSeq(Texts(list, "join"))
           /\ cl.from \o FlattenSeq(Texts(list, "from")) = <<>> =>
                 \/ Scoped(cl, list).from = <<>> \o FlattenSeq(Texts(list, "join"))
                 \/ Scoped(cl, list).from = <<Item("__dummy__")>> \o FlattenSeq(Texts(list, "join"))
<1> DEFINE C == Seq(Token)
           flat(target) == FlattenSeq(Texts(list, target))
           from == cl.from \o flat("from")
           joins == flat("join")
           dummy == IF from = <<>> /\ joins # <<>> THEN <<Item("__dummy__")>> \o joins ELSE from \o joins
           where == Combined(cl.where, Texts(list, "where"))
           having == Combined(cl.having, Texts(list, "having"))
           select == cl.select \o Firsts(Texts(list, "select"))
           group == cl.group_by \o flat("group_by")
           order == cl.order_by \o flat("order_by")
           out == Scoped(cl, list)
<1>1. cl \in [{"select", "from", "where", "group_by", "having", "order_by"} -> C]
    BY ClauseNames
<1>2. out = [cl EXCEPT !.where = where, !.having = having, !.select = select, !.from = dummy,
                       !.group_by = group, !.order_by = order]
    BY DEF Scoped, Firsts
<1>3. from # <<>> => dummy = from \o joins
    OBVIOUS
<1> DEFINE behind == <<Item("__dummy__")>> \o joins
           bare == <<>> \o joins
<1>4. from = <<>> => dummy = bare \/ dummy = behind
    OBVIOUS
<1> HIDE DEF C, where, having, select, dummy, group, order, behind, bare, from, joins, out
<1>5. out.where = where /\ out.having = having /\ out.select = select
    BY <1>1, <1>2
<1>6. out.from = dummy /\ out.group_by = group /\ out.order_by = order
    BY <1>1, <1>2
<1>7. from # <<>> => out.from = from \o joins
    BY <1>3, <1>6
<1>8. from = <<>> => out.from = bare \/ out.from = behind
    BY <1>4, <1>6
<1>9. /\ out.where = where /\ out.having = having /\ out.select = select /\ out.group_by = group /\ out.order_by = order
      /\ from # <<>> => out.from = from \o joins
    BY <1>5, <1>6, <1>7
<1> HIDE DEF bare, behind
<1>10. from = <<>> => out.from = <<>> \o joins \/ out.from = <<Item("__dummy__")>> \o joins
    BY <1>8 DEF bare, behind
<1> QED BY <1>9, <1>10 DEF where, having, select, group, order, from, joins, out

LEMMA AllWrittenType ==
    ASSUME decl \in Methods
    PROVE  /\ AllWritten \in [ToSet(Clause) -> Seq(Token)]
           /\ \A c \in ToSet(Clause) : AllWritten[c] = Written(decl.clauses[c])
<1> DEFINE C == Seq(Token)
<1>1. \A c \in ToSet(Clause) : Written(decl.clauses[c]) \in C
  <2> TAKE c \in ToSet(Clause)
  <2>1. decl.clauses[c] \in Seq(Token)
      BY DeclaredNames
  <2> QED BY <2>1, WrittenType
<1> HIDE DEF C
<1>2. AllWritten \in [ToSet(Clause) -> C]
    BY <1>1 DEF AllWritten
<1> QED BY <1>2 DEF AllWritten, C

\* A SELECT scope of one item is added whole.
LEMMA FirstsAre ==
    ASSUME NEW items, \A i \in DOMAIN items : items[i] \in Seq(Token) /\ Len(items[i]) = 1
    PROVE  Firsts(items) = FlattenSeq([i \in DOMAIN items |-> items[i]])
<1>1. \A i \in DOMAIN items : FirstItem(items[i]) = items[i]
  <2> TAKE i \in DOMAIN items
  <2> DEFINE x == items[i]
  <2>1. x \in Seq(Token) /\ Len(x) = 1
      OBVIOUS
  <2> HIDE DEF x
  <2>2. <<x[1]>> = x
      BY <2>1
  <2> QED BY <2>2 DEF FirstItem, x
<1>2. [i \in DOMAIN items |-> FirstItem(items[i])] = [i \in DOMAIN items |-> items[i]]
    BY <1>1
<1> QED BY <1>2 DEF Firsts

LEMMA TextOf ==
    ASSUME decl \in Methods, NEW list, Enumerates(list, ActiveWritten), NEW target
    PROVE  /\ Texts(list, target) = [i \in DOMAIN Texts(list, target) |-> Texts(list, target)[i]]
           /\ \A i \in DOMAIN Texts(list, target) :
                 \E s \in Applied(target) : Texts(list, target)[i] = Written(s.text)
<1> DEFINE m == <<Name(target)>>
           P == {i \in DOMAIN list : list[i].target = m}
           T == {u \in ActiveWritten : u.target = m}
           of == Kept(list, P)
<1>1. Texts(list, target) = [i \in DOMAIN of |-> of[i].text]
    BY DEF Texts
<1>2. Proper(list, ActiveWritten) /\ list \in Seq(ActiveWritten)
    BY ProperIs DEF Enumerates
<1>3. \A i \in DOMAIN list : i \in P => list[i] \in T
    BY <1>2 DEF Proper
<1>4. of \in Seq(T)
  <2> HIDE DEF P, T
  <2> QED BY <1>2, <1>3, KeptType
<1>5. \A i \in DOMAIN of : of[i] \in T
  <2> HIDE DEF of, T
  <2>1. Proper(of, T)
      BY <1>4, ProperIs
  <2> QED BY <2>1 DEF Proper
<1>6. \A u \in T : \E s \in Applied(target) : u.text = Written(s.text)
  <2> TAKE u \in T
  <2>1. PICK s \in ActiveDeclared : u = AsWritten(s)
      BY DEF ActiveWritten
  <2>2. u.text = Written(s.text) /\ u.target = <<Name(s.target)>>
      BY <2>1, ActiveIs
  <2> DEFINE x == Name(s.target)
             y == Name(target)
  <2>3. <<x>> = <<y>> => x = y
    <3> HIDE DEF x, y
    <3>1. <<x>>[1] = x /\ <<y>>[1] = y
        OBVIOUS
    <3> QED BY <3>1
  <2>4. s.target = target
      BY <2>2, <2>3, TokensDiffer
  <2> QED BY <2>2, <2>4 DEF Applied, ActiveDeclared
<1> HIDE DEF of, T
<1> QED BY <1>1, <1>5, <1>6

\* What ClausesExtended says of the statement before its parameters are numbered
Extends(cl, c) ==
    IF c = "from"
    THEN Written(decl.clauses.from) # <<>> =>
             \E f \in Added("from"), j \in Added("join") : cl.from = (Written(decl.clauses.from) \o f) \o j
    ELSE \E more \in Added(c) : cl[c] = Written(decl.clauses[c]) \o more

OneItem == \A s \in Applied("select") : Len(Written(s.text)) = 1

LEMMA MergedExtends ==
    ASSUME decl \in Methods, NEW cl, Merged(cl)
    PROVE  /\ Extends(cl, "group_by") /\ Extends(cl, "order_by") /\ Extends(cl, "from")
           /\ OneItem => Extends(cl, "select")
<1> DEFINE W == AllWritten
<1>1. /\ W \in [ToSet(Clause) -> Seq(Token)]
      /\ \A c \in ToSet(Clause) : W[c] = Written(decl.clauses[c])
    BY AllWrittenType
<1>2. /\ {"group_by", "order_by", "select", "from"} \subseteq ToSet(Clause)
    BY ClauseNames
<1>3. \A c \in {"group_by", "order_by", "select", "from"} : W[c] \in Seq(Token) /\ W[c] = Written(decl.clauses[c])
    BY <1>1, <1>2
<1> HIDE DEF W
<1>4. CASE ActiveWritten = {} /\ cl = W
  <2>1. \A target : <<>> \in Added(target)
      BY <1>4, NothingAdded
  <2>2. \A x \in Seq(Token) : x \o <<>> = x
      BY TextsBeside
  <2>3. \A c \in {"group_by", "order_by", "select"} : Extends(cl, c)
    <3> TAKE c \in {"group_by", "order_by", "select"}
    <3>1. cl[c] = Written(decl.clauses[c]) \o <<>> /\ c # "from"
        BY <1>3, <1>4, <2>2
    <3> QED BY <2>1, <3>1 DEF Extends
  <2>4. cl.from = (Written(decl.clauses.from) \o <<>>) \o <<>>
    <3> DEFINE x == Written(decl.clauses.from)
    <3>1. x \in Seq(Token) /\ cl.from = x
        BY <1>3, <1>4
    <3> HIDE DEF x
    <3>2. x \o <<>> = x
        BY <2>2, <3>1
    <3> QED BY <3>1, <3>2 DEF x
  <2>5. Extends(cl, "from")
      BY <2>1, <2>4 DEF Extends
  <2> QED BY <2>3, <2>5
<1>5. ASSUME NEW list \in SetToSeqs(ActiveWritten), cl = Scoped(W, list)
      PROVE  /\ Extends(cl, "group_by") /\ Extends(cl, "order_by") /\ Extends(cl, "from")
             /\ OneItem => Extends(cl, "select")
  <2> DEFINE flat(target) == FlattenSeq(Texts(list, target))
  <2>1. Enumerates(list, ActiveWritten)
      BY ActiveIs, OrderIs
  <2>2. ASSUME NEW target PROVE flat(target) \in Added(target)
      BY <2>1, TextsAdded
  <2>3. /\ cl.group_by = W.group_by \o flat("group_by") /\ cl.order_by = W.order_by \o flat("order_by")
        /\ cl.select = W.select \o Firsts(Texts(list, "select"))
        /\ W.from \o flat("from") # <<>> => cl.from = (W.from \o flat("from")) \o flat("join")
      BY <1>1, <1>5, ScopedIs
  <2>4. OneItem => Firsts(Texts(list, "select")) = flat("select")
    <3> HAVE OneItem
    <3> DEFINE items == Texts(list, "select")
    <3>1. /\ items = [i \in DOMAIN items |-> items[i]]
          /\ \A i \in DOMAIN items : \E s \in Applied("select") : items[i] = Written(s.text)
        BY <2>1, TextOf
    <3>2. \A s \in Applied("select") : Written(s.text) \in Seq(Token)
      <4> TAKE s \in Applied("select")
      <4>1. s \in decl.scopes
          BY DEF Applied, Active
      <4>2. s.text \in Seq(Token)
          BY <4>1, DeclaredNames DEF ScopeDeclarable, Declarable
      <4> QED BY <4>2, WrittenType
    <3> HIDE DEF items
    <3>3. \A i \in DOMAIN items : items[i] \in Seq(Token) /\ Len(items[i]) = 1
        BY <3>1, <3>2 DEF OneItem
    <3>4. Firsts(items) = FlattenSeq([i \in DOMAIN items |-> items[i]])
        BY <3>3, FirstsAre
    <3> QED BY <3>1, <3>4 DEF items
  <2>5. \A target : flat(target) \in Seq(Token)
    <3> TAKE target
    <3>1. list \in Seq(ActiveWritten) /\ \A u \in ActiveWritten : u.text \in Seq(Token)
        BY <2>1, ActiveIs DEF Enumerates
    <3>2. Texts(list, target) \in Seq(Seq(Token))
      <4> DEFINE C == Seq(Token)
                 of == Kept(list, {i \in DOMAIN list : list[i].target = <<Name(target)>>})
      <4>1. of \in Seq(ActiveWritten)
          BY <3>1, KeptType
      <4>2. \A u \in ActiveWritten : u.text \in C
          BY <3>1
      <4>3. Texts(list, target) = [i \in DOMAIN of |-> of[i].text]
          BY DEF Texts
      <4> HIDE DEF C, of
      <4>4. Texts(list, target) \in Seq(C)
          BY <4>1, <4>2, <4>3
      <4> QED BY <4>4 DEF C
    <3> QED BY <3>2, FlattenType
  <2> HIDE DEF flat
  <2>6. Extends(cl, "group_by") /\ Extends(cl, "order_by")
      BY <1>3, <2>2, <2>3 DEF Extends
  <2>7. OneItem => Extends(cl, "select")
      BY <1>3, <2>2, <2>3, <2>4 DEF Extends
  <2>8. Extends(cl, "from")
    <3> DEFINE x == Written(decl.clauses.from)
               f == flat("from")
    <3>1. x \in Seq(Token) /\ f \in Seq(Token) /\ W.from = x
        BY <1>3, <2>5
    <3>2. f \in Added("from") /\ flat("join") \in Added("join")
        BY <2>2
    <3>3. x \o f # <<>> => cl.from = (x \o f) \o flat("join")
        BY <2>3, <3>1
    <3> HIDE DEF x, f
    <3>4. x # <<>> => x \o f # <<>>
        BY <3>1
    <3>5. x # <<>> => \E g \in Added("from"), j \in Added("join") : cl.from = (x \o g) \o j
        BY <3>2, <3>3, <3>4
    <3> QED BY <3>5 DEF Extends, x
  <2> QED BY <2>6, <2>7, <2>8
<1> QED BY <1>4, <1>5 DEF Merged, W

-----------------------------------------------------------------------------
(* The attributes, from #[repo] to #[dml].                                  *)

ResolvedScopes == Resolved(decl.scopes, decl.aliases)

Hidden ==
    \E as \in SetToSeqs(decl.aliases), ss \in SetToSeqs(ResolvedScopes) :
        hidden = [aliases |-> SerializeAliases(as),
                  scopes  |-> IF Active(ResolvedScopes, decl.ignored) = {} THEN <<>>
                              ELSE SerializeScopes(ss, decl.ignored)]

AsResolved(s) == [name |-> s.name, text |-> Written(s.text), target |-> s.target]

LEMMA AsResolvedIs ==
    ASSUME decl \in Methods
    PROVE  /\ ResolvedScopes = {AsResolved(s) : s \in decl.scopes}
           /\ \A s \in decl.scopes : /\ AsResolved(s).name = s.name /\ AsResolved(s).text = Written(s.text)
                                     /\ AsResolved(s).target = s.target
                                     /\ ReadBack(AsResolved(s)) = AsWritten(s)
<1>1. \A s \in decl.scopes : [s EXCEPT !.text = Substitute(@, decl.aliases)] = AsResolved(s)
  <2> TAKE s \in decl.scopes
  <2> DEFINE n == s.name
             t == s.text
             g == s.target
             w == Written(s.text)
  <2>1. s = [name |-> n, text |-> t, target |-> g]
      BY DeclaredNames
  <2>2. [s EXCEPT !.text = Substitute(@, decl.aliases)] = [s EXCEPT !.text = w]
      BY DEF Written
  <2> HIDE DEF n, t, g, w
  <2>3. [s EXCEPT !.text = w] = [name |-> n, text |-> w, target |-> g]
      BY <2>1
  <2> QED BY <2>2, <2>3 DEF AsResolved, n, w, g
<1>2. ResolvedScopes = {AsResolved(s) : s \in decl.scopes}
  <2> DEFINE F(s) == [s EXCEPT !.text = Substitute(@, decl.aliases)]
  <2>1. ResolvedScopes = {F(s) : s \in decl.scopes}
      BY DEF ResolvedScopes, Resolved
  <2>2. \A s \in decl.scopes : F(s) = AsResolved(s)
      BY <1>1
  <2> HIDE DEF F
  <2> QED BY <2>1, <2>2
<1>3. \A s \in decl.scopes : /\ AsResolved(s).name = s.name /\ AsResolved(s).text = Written(s.text)
                             /\ AsResolved(s).target = s.target
  <2> TAKE s \in decl.scopes
  <2> DEFINE n == s.name
             t == Written(s.text)
             g == s.target
  <2>1. AsResolved(s) = [name |-> n, text |-> t, target |-> g]
      BY DEF AsResolved
  <2> HIDE DEF n, t, g
  <2>2. AsResolved(s).name = n /\ AsResolved(s).text = t /\ AsResolved(s).target = g
      BY <2>1
  <2> QED BY <2>2 DEF n, t, g
<1> QED BY <1>2, <1>3 DEF ReadBack, AsWritten

LEMMA ResolvedAre ==
    ASSUME decl \in Methods
    PROVE  /\ IsFiniteSet(ResolvedScopes) /\ \A u \in ResolvedScopes : ScopeDeclarable(u)
           /\ \A u, w \in ResolvedScopes : u.name = w.name => u = w
           /\ NoEntryInside => \A u \in ResolvedScopes : Untorn(u.text)
           /\ {ReadBack(u) : u \in {x \in ResolvedScopes : x.name \notin decl.ignored}} = ActiveWritten
<1> DEFINE R == ResolvedScopes
<1>1. /\ R = {AsResolved(s) : s \in decl.scopes}
      /\ \A s \in decl.scopes : /\ AsResolved(s).name = s.name /\ AsResolved(s).text = Written(s.text)
                                /\ AsResolved(s).target = s.target
                                /\ ReadBack(AsResolved(s)) = AsWritten(s)
    BY AsResolvedIs
<1> HIDE DEF R
<1>2. IsFiniteSet(R)
  <2> DEFINE f == [s \in decl.scopes |-> AsResolved(s)]
  <2>1. f \in Surjection(decl.scopes, R)
      BY <1>1 DEF Surjection
  <2> QED BY <2>1, DeclaredNames, FS_Surjection
<1>3. \A u \in R : ScopeDeclarable(u)
  <2> TAKE u \in R
  <2>1. PICK s \in decl.scopes : u = AsResolved(s)
      BY <1>1
  <2>2. IsName(s.name) /\ s.text \in Seq(Token) /\ s.target \in Target
      BY DeclaredNames DEF ScopeDeclarable, Declarable
  <2>3. Written(s.text) \in Seq(Token)
      BY <2>2, WrittenType
  <2> QED BY <1>1, <2>1, <2>2, <2>3 DEF ScopeDeclarable, Declarable
<1>4. \A u, w \in R : u.name = w.name => u = w
  <2> TAKE u, w \in R
  <2>1. PICK s \in decl.scopes : u = AsResolved(s)
      BY <1>1
  <2>2. PICK z \in decl.scopes : w = AsResolved(z)
      BY <1>1
  <2> HAVE u.name = w.name
  <2>3. s.name = z.name
      BY <1>1, <2>1, <2>2
  <2> QED BY <2>1, <2>2, <2>3, DeclaredNames
<1>5. NoEntryInside => \A u \in R : Untorn(u.text)
  <2> SUFFICES ASSUME NoEntryInside, NEW u \in R PROVE Untorn(u.text)
      OBVIOUS
  <2>1. PICK s \in decl.scopes : u = AsResolved(s)
      BY <1>1
  <2>2. Untorn(Written(s.text))
      BY DEF NoEntryInside, Untorn
  <2> QED BY <1>1, <2>1, <2>2
<1>6. {ReadBack(u) : u \in {x \in R : x.name \notin decl.ignored}} = ActiveWritten
    BY <1>1 DEF ActiveWritten, ActiveDeclared, Active
<1> QED BY <1>2, <1>3, <1>4, <1>5, <1>6 DEF R

\* Nothing is read from an empty attribute.
LEMMA NothingRead == ScopesIn(<<>>) = {}
<1>1. Pieces(<<>>, "|") = {<<>>}
    BY MarksAre, NoList
<1>2. Prefix(<<>>) # <<Name("scopes")>>
  <2> DEFINE i == SelectInSeq(<<>>, IsColon)
             x == Name("scopes")
  <2>1. i = 0
    <3>1. i \in 0..Len(<<>>)
      <4>1. <<>> \in Seq(Token)
          OBVIOUS
      <4> QED BY <4>1, CutsAre
    <3> HIDE DEF i
    <3> QED BY <3>1
  <2>2. Until(<<>>, 0) = <<>>
      BY DEF Until
  <2> HIDE DEF i, x
  <2>3. <<>> # <<x>>
      OBVIOUS
  <2> QED BY <2>1, <2>2, <2>3 DEF Prefix, i, x
<1>3. {p \in Pieces(<<>>, "|") : Prefix(p) = <<Name("scopes")>>} = {}
    BY <1>1, <1>2
<1> DEFINE F(p) == {ScopeOf(e) : e \in Entries(p)}
<1>4. ScopesIn(<<>>) = UNION {F(p) : p \in {}}
    BY <1>3 DEF ScopesIn
<1> HIDE DEF F
<1> QED BY <1>4

LEMMA SerializedSomething ==
    ASSUME NEW A, \A s \in A : ScopeDeclarable(s), NEW list \in Seq(A), NEW ignored, IsFiniteSet(ignored),
           \A x \in ignored : IsName(x)
    PROVE  SerializeScopes(list, ignored) # <<>>
<1> DEFINE a == ScopeList(list)
           b == IgnoreList(ignored)
           j == JoinedBy(ScopeParts(list), ";")
           h == Header("scopes")
           w == <<Mark("|")>>
<1>1. a \in Seq(Token) /\ j \in Seq(Token)
    BY ScopesWrittenAs
<1>2. b \in Seq(Token)
    BY IgnoreIs DEF IgnoreReads
<1>3. SerializeScopes(list, ignored) = IF ignored = {} THEN a ELSE JoinedBy(<<a, b>>, "|")
    BY DEF SerializeScopes, ScopeList, IgnoreList, Header, ScopeParts, ScopePart, AliasPart
<1>4. a = h \o j
    BY DEF ScopeList
<1>5. Mark(":") \in ToSet(a)
  <2>1. "scopes" \in Word
      BY MarksAre
  <2>2. ToSet(h \o j) = {Name("scopes"), Mark(":")} \cup ToSet(j)
      BY <1>1, <2>1, HeaderRead
  <2> QED BY <1>4, <2>2
<1>6. w \in Seq(Token) /\ Len(w) = 1 /\ "|" \in Word
    BY MarksAre, Single
<1> HIDE DEF a, b, j, h
<1>7. JoinedBy(<<a, b>>, "|") = (a \o w) \o b
    BY <1>1, <1>2, <1>6, JoinedTwo
<1> HIDE DEF w
<1>8. a # <<>>
    BY <1>5 DEF ToSet
<1>9. (a \o w) \o b # <<>>
  <2> DEFINE c == a \o w
  <2>1. Glued(a, w)
      BY <1>1, <1>6, Glue
  <2>2. c \in Seq(Token) /\ Mark(":") \in ToSet(c)
      BY <1>5, <2>1 DEF Glued
  <2> HIDE DEF c
  <2> DEFINE d == c \o b
  <2>3. Mark(":") \in ToSet(d)
      BY <1>2, <2>2, Glue DEF Glued
  <2> HIDE DEF d
  <2>4. d # <<>>
      BY <2>3 DEF ToSet
  <2> QED BY <2>4 DEF c, d
<1> QED BY <1>3, <1>7, <1>8, <1>9

\* A method whose attributes are read has the aliases and the scopes of its
\* trait, an alias perhaps cut off.
LEMMA AttributesCross ==
    ASSUME decl \in Methods, NoEntryInside, Hidden, ~AliasesWrong(hidden.aliases),
           hidden.scopes # <<>> => ~ScopesWrong(hidden.scopes),
           NEW as \in OneOfEach({AliasOf(p) : p \in Pairs(hidden.aliases)}),
           NEW ss \in OneOfEach(ScopesIn(hidden.scopes))
    PROVE  /\ AliasesKept(as, decl.aliases)
           /\ Active(ss, IgnoredIn(hidden.scopes)) = ActiveWritten
<1> DEFINE R == ResolvedScopes
           E == {AliasOf(p) : p \in Pairs(hidden.aliases)}
<1>1. PICK al \in SetToSeqs(decl.aliases), sl \in SetToSeqs(R) :
          hidden = [aliases |-> SerializeAliases(al),
                    scopes  |-> IF Active(R, decl.ignored) = {} THEN <<>>
                                ELSE SerializeScopes(sl, decl.ignored)]
    BY DEF Hidden
<1>2. /\ hidden.aliases = SerializeAliases(al)
      /\ hidden.scopes = IF Active(R, decl.ignored) = {} THEN <<>> ELSE SerializeScopes(sl, decl.ignored)
  <2> DEFINE x == SerializeAliases(al)
             y == IF Active(R, decl.ignored) = {} THEN <<>> ELSE SerializeScopes(sl, decl.ignored)
  <2>1. hidden = [aliases |-> x, scopes |-> y]
      BY <1>1
  <2> HIDE DEF x, y
  <2>2. hidden.aliases = x /\ hidden.scopes = y
      BY <2>1
  <2> QED BY <2>2 DEF x, y
<1>3. /\ IsFiniteSet(R) /\ \A u \in R : ScopeDeclarable(u) /\ Untorn(u.text)
      /\ \A u, w \in R : u.name = w.name => u = w
      /\ {ReadBack(u) : u \in {x \in R : x.name \notin decl.ignored}} = ActiveWritten
    BY ResolvedAre
<1> HIDE DEF R
<1>4. AliasesKept(as, decl.aliases)
  <2>1. \A a \in decl.aliases : Declarable(a) /\ Quiet(a.text)
      BY DeclaredNames DEF NoEntryInside, Quiet
  <2>2. Enumerates(al, decl.aliases)
      BY DeclaredNames, OrderIs
  <2>3. AliasesKept({AliasOf(p) : p \in Pairs(SerializeAliases(al))}, decl.aliases)
    <3>1. ~AliasesWrong(SerializeAliases(al))
        BY <1>2
    <3> QED BY <2>1, <2>2, <3>1, AliasesCross
  <2>4. AliasesKept(E, decl.aliases)
      BY <1>2, <2>3
  <2> HIDE DEF E
  <2>5. as \subseteq E /\ \A e \in E : \E k \in as : k.name = e.name
      BY DEF OneOfEach, E
  <2>6. \A e \in as : \E a \in decl.aliases : IsAliasOf(e, a)
      BY <2>4, <2>5 DEF AliasesKept
  <2>7. \A a \in decl.aliases : \E e \in as : e.name = a.name
    <3> TAKE a \in decl.aliases
    <3>1. PICK e \in E : e.name = a.name
        BY <2>4 DEF AliasesKept
    <3>2. PICK k \in as : k.name = e.name
        BY <2>5
    <3> QED BY <3>1, <3>2
  <2> QED BY <2>6, <2>7 DEF AliasesKept
<1> DEFINE S == ScopesIn(hidden.scopes)
<1>5. ss \subseteq S /\ \A e \in S : \E k \in ss : k.name = e.name
    BY DEF OneOfEach
<1> HIDE DEF S
<1>6. CASE Active(R, decl.ignored) = {}
  <2>1. S = {}
      BY <1>2, <1>6, NothingRead DEF S
  <2>2. {x \in R : x.name \notin decl.ignored} = {}
      BY <1>6 DEF Active
  <2>3. ActiveWritten = {}
      BY <1>3, <2>2
  <2>4. ss = {}
      BY <1>5, <2>1
  <2>5. Active(ss, IgnoredIn(hidden.scopes)) = {}
      BY <2>4 DEF Active
  <2> QED BY <1>4, <2>3, <2>5
<1>7. CASE Active(R, decl.ignored) # {}
  <2>1. hidden.scopes = SerializeScopes(sl, decl.ignored)
      BY <1>2, <1>7
  <2>2. SerializeScopes(sl, decl.ignored) # <<>>
    <3> DEFINE ig == decl.ignored
    <3>1. Enumerates(sl, R)
        BY <1>3, OrderIs
    <3>2. sl \in Seq(R)
        BY <3>1 DEF Enumerates
    <3>3. IsFiniteSet(ig) /\ \A x \in ig : IsName(x)
        BY DeclaredNames
    <3> HIDE DEF ig
    <3>4. SerializeScopes(sl, ig) # <<>>
        BY <1>3, <3>2, <3>3, SerializedSomething
    <3> QED BY <3>4 DEF ig
  <2>3. ~ScopesWrong(SerializeScopes(sl, decl.ignored))
      BY <2>1, <2>2
  <2>4. R # {}
      BY <1>7 DEF Active
  <2>5. Enumerates(sl, R)
      BY <1>3, OrderIs
  <2>6. /\ ScopesIn(SerializeScopes(sl, decl.ignored)) = {ReadBack(s) : s \in R}
        /\ IgnoredIn(SerializeScopes(sl, decl.ignored)) = decl.ignored
    <3> DEFINE ig == decl.ignored
    <3>1. IsFiniteSet(ig) /\ \A x \in ig : IsName(x)
        BY DeclaredNames
    <3>2. ~ScopesWrong(SerializeScopes(sl, ig))
        BY <2>3
    <3> HIDE DEF ig
    <3>3. /\ ScopesIn(SerializeScopes(sl, ig)) = {ReadBack(s) : s \in R}
          /\ IgnoredIn(SerializeScopes(sl, ig)) = ig
        BY <1>3, <2>4, <2>5, <3>1, <3>2, ScopesCross
    <3> QED BY <3>3 DEF ig
  <2>7. S = {ReadBack(u) : u \in R} /\ IgnoredIn(hidden.scopes) = decl.ignored
      BY <2>1, <2>6 DEF S
  <2>8. \A u : ReadBack(u).name = u.name
    <3> TAKE u
    <3> DEFINE n == u.name
               t == u.text
               g == <<Name(u.target)>>
    <3>1. ReadBack(u) = [name |-> n, text |-> t, target |-> g]
        BY DEF ReadBack
    <3> HIDE DEF n, t, g
    <3>2. ReadBack(u).name = n
        BY <3>1
    <3> QED BY <3>2 DEF n
  <2>9. ss = S
    <3>1. ASSUME NEW e \in S PROVE e \in ss
      <4>1. PICK k \in ss : k.name = e.name
          BY <1>5
      <4>2. PICK u \in R : e = ReadBack(u)
          BY <2>7
      <4>3. PICK w \in R : k = ReadBack(w)
          BY <1>5, <2>7
      <4>4. u.name = w.name
          BY <2>8, <4>1, <4>2, <4>3
      <4>5. u = w
          BY <1>3, <4>4
      <4> QED BY <4>1, <4>2, <4>3, <4>5
    <3> QED BY <1>5, <3>1
  <2>10. Active(S, decl.ignored) = ActiveWritten
    <3>1. Active(S, decl.ignored) = {ReadBack(u) : u \in {x \in R : x.name \notin decl.ignored}}
        BY <2>7, <2>8 DEF Active
    <3> QED BY <1>3, <3>1
  <2> QED BY <1>4, <2>7, <2>9, <2>10
<1> QED BY <1>6, <1>7

-----------------------------------------------------------------------------
(* The statement, from step to step.                                        *)

ScopesKept == Active(managers.scopes, managers.ignored) = ActiveWritten

Replaced == \A c \in ToSet(Clause) : Readable(sql[c]) => sql[c] = Written(decl.clauses[c])

OutText(text) == [i \in DOMAIN text |-> Positional(text[i])]

Numbering(cl) == IF Args = <<>> THEN cl ELSE [c \in DOMAIN cl |-> OutText(cl[c])]

\* The statement that is merged, its parameters numbered
MergedAndNumbered == \E cl \in [ToSet(Clause) -> Seq(Token)] : Merged(cl) /\ sql = Numbering(cl)

MergeInv ==
    /\ pc = "extract" => Hidden
    /\ NoEntryInside =>
        /\ pc = "aliases" => AliasesKept(managers.aliases, decl.aliases)
        /\ pc \in {"aliases", "scopes"} => ScopesKept
        /\ pc = "scopes" => Replaced
        /\ pc = "named" /\ SqlReadable => Merged(sql)
        /\ pc \in {"detect", "built"} /\ SqlReadable => MergedAndNumbered
    /\ pc = "built" /\ kind = "Select" => SqlReadable

LEMMA TokenKept ==
    ASSUME NEW tok \in Token
    PROVE  /\ Positional(tok).t = tok.t /\ Positional(tok).v = tok.v
           /\ tok = Mark("\\") => Positional(tok) = Mark("\\")
<1> DEFINE n == Index(tok.v)
<1>1. Positional(tok) = IF tok.by # "@" THEN tok
                        ELSE IF Numbered THEN [tok EXCEPT !.by = "$", !.k = n] ELSE [tok EXCEPT !.by = "?"]
    BY DEF Positional
<1>2. tok = [t |-> tok.t, v |-> tok.v, by |-> tok.by, k |-> tok.k]
    BY DEF Token
<1> HIDE DEF n
<1>3. [tok EXCEPT !.by = "$", !.k = n].t = tok.t /\ [tok EXCEPT !.by = "$", !.k = n].v = tok.v
    BY <1>2
<1>4. [tok EXCEPT !.by = "?"].t = tok.t /\ [tok EXCEPT !.by = "?"].v = tok.v
    BY <1>2
<1>5. tok = Mark("\\") => tok.by # "@"
  <2>1. \A m : Mark(m).by = ""
      BY DEF Mark, Tok
  <2>2. "" # "@"
      OBVIOUS
  <2> QED BY <2>1, <2>2
<1> QED BY <1>1, <1>3, <1>4, <1>5

\* Numbering parameters neither tears a text nor mends it.
LEMMA TextKept ==
    ASSUME NEW text \in Seq(Token)
    PROVE  /\ Readable(OutText(text)) => Readable(text)
           /\ Bare(OutText(text)) = Bare(text)
<1> DEFINE out == OutText(text)
<1>1. \A i \in DOMAIN text : text[i] \in Token
    OBVIOUS
<1>2. DOMAIN out = DOMAIN text /\ \A i \in DOMAIN text : out[i] = Positional(text[i])
    BY DEF OutText
<1> HIDE DEF out
<1>3. \A i \in DOMAIN text : out[i].t = text[i].t /\ out[i].v = text[i].v
    BY <1>1, <1>2, TokenKept
<1>4. \A i \in DOMAIN text : text[i] = Mark("\\") => out[i] = Mark("\\")
    BY <1>1, <1>2, TokenKept
<1>5. Readable(out) => Readable(text)
    BY <1>2, <1>3, <1>4 DEF Readable
<1>6. Bare(out) = Bare(text)
    BY <1>2, <1>3 DEF Bare
<1> QED BY <1>5, <1>6 DEF out

LEMMA WrittenStays ==
    ASSUME UNCHANGED decl
    PROVE  /\ \A x : Written(x)' = Written(x)
           /\ NoEntryInside' = NoEntryInside /\ ActiveWritten' = ActiveWritten
           /\ ResolvedScopes' = ResolvedScopes /\ AllWritten' = AllWritten
           /\ \A cl : Merged(cl)' = Merged(cl)
<1>1. \A x : Written(x)' = Written(x)
    BY DEF Written
<1>2. NoEntryInside' = NoEntryInside
    BY DEF NoEntryInside, Written
<1>3. ActiveWritten' = ActiveWritten
    BY DEF ActiveWritten, AsWritten, Written, ActiveDeclared
<1>4. ResolvedScopes' = ResolvedScopes
    BY DEF ResolvedScopes
<1>5. AllWritten' = AllWritten
    BY DEF AllWritten, Written
<1>6. \A cl : Merged(cl)' = Merged(cl)
    BY <1>3, <1>5 DEF Merged
<1> QED BY <1>1, <1>2, <1>3, <1>4, <1>5, <1>6

LEMMA NumberingStays ==
    ASSUME UNCHANGED decl, NEW cl
    PROVE  Numbering(cl)' = Numbering(cl)
<1>1. Args' = Args
    BY DeclaredStays
<1>2. ASSUME NEW name PROVE Index(name)' = Index(name)
    BY <1>1 DEF Index, SelectInSeq
<1>3. Numbered' = Numbered
    BY DEF Numbered
<1>4. ASSUME NEW tok PROVE Positional(tok)' = Positional(tok)
    BY <1>2, <1>3 DEF Positional
<1>5. ASSUME NEW text PROVE OutText(text)' = OutText(text)
    BY <1>4 DEF OutText
<1> QED BY <1>1, <1>5 DEF Numbering

LEMMA MergeInit == MInit => MergeInv
BY DEF MInit, TInit, MergeInv

LEMMA InjectMerges ==
    ASSUME TextInv, MergeInv, Inject
    PROVE  MergeInv'
<1>1. pc' \in {"error", "extract"} /\ UNCHANGED decl
    BY DEF Inject
<1>2. pc' = "extract" => Hidden'
  <2> HAVE pc' = "extract"
  <2>1. \E as \in SetToSeqs(decl.aliases), ss \in SetToSeqs(ResolvedScopes) :
            hidden' = [aliases |-> SerializeAliases(as),
                       scopes  |-> IF Active(ResolvedScopes, decl.ignored) = {} THEN <<>>
                                   ELSE SerializeScopes(ss, decl.ignored)]
      BY DEF Inject, ResolvedScopes
  <2>2. ResolvedScopes' = ResolvedScopes /\ decl' = decl
      BY <1>1, WrittenStays
  <2> QED BY <2>1, <2>2 DEF Hidden
<1> QED BY <1>1, <1>2 DEF MergeInv

LEMMA ExtractMerges ==
    ASSUME TextInv, MergeInv, Extract
    PROVE  MergeInv'
<1>1. pc' \in {"error", "aliases"} /\ UNCHANGED <<decl, hidden>> /\ pc = "extract"
    BY DEF Extract
<1>2. CASE pc' = "error"
    BY <1>2 DEF MergeInv
<1>3. CASE pc' = "aliases"
  <2>1. /\ ~AliasesWrong(hidden.aliases) /\ (hidden.scopes # <<>> => ~ScopesWrong(hidden.scopes))
        /\ \E as \in OneOfEach({AliasOf(p) : p \in Pairs(hidden.aliases)}), ss \in OneOfEach(ScopesIn(hidden.scopes)) :
               managers' = [aliases |-> as, scopes |-> ss, ignored |-> IgnoredIn(hidden.scopes)]
      BY <1>3 DEF Extract
  <2>2. PICK as \in OneOfEach({AliasOf(p) : p \in Pairs(hidden.aliases)}), ss \in OneOfEach(ScopesIn(hidden.scopes)) :
               managers' = [aliases |-> as, scopes |-> ss, ignored |-> IgnoredIn(hidden.scopes)]
      BY <2>1
  <2>3. managers'.aliases = as /\ managers'.scopes = ss /\ managers'.ignored = IgnoredIn(hidden.scopes)
    <3> DEFINE ig == IgnoredIn(hidden.scopes)
    <3>1. managers' = [aliases |-> as, scopes |-> ss, ignored |-> ig]
        BY <2>2
    <3> HIDE DEF ig
    <3>2. managers'.aliases = as /\ managers'.scopes = ss /\ managers'.ignored = ig
        BY <3>1
    <3> QED BY <3>2 DEF ig
  <2>4. NoEntryInside => AliasesKept(as, decl.aliases) /\ Active(ss, IgnoredIn(hidden.scopes)) = ActiveWritten
    <3> HAVE NoEntryInside
    <3>1. decl \in Methods /\ Hidden
        BY <1>1 DEF TextInv, MergeInv
    <3> QED BY <2>1, <3>1, AttributesCross
  <2>5. NoEntryInside' = NoEntryInside /\ ActiveWritten' = ActiveWritten /\ decl' = decl
      BY <1>1, WrittenStays
  <2>6. NoEntryInside' => AliasesKept(managers'.aliases, decl'.aliases)
      BY <2>3, <2>4, <2>5
  <2>7. NoEntryInside' => ScopesKept'
      BY <2>3, <2>4, <2>5 DEF ScopesKept
  <2> QED BY <1>3, <2>6, <2>7 DEF MergeInv
<1> QED BY <1>1, <1>2, <1>3

LEMMA ApplyAliasesMerges ==
    ASSUME TextInv, MergeInv, ApplyAliases
    PROVE  MergeInv'
<1>1. /\ UNCHANGED <<decl, managers>> /\ pc = "aliases" /\ pc' \in {"error", "scopes"}
      /\ sql' = IF managers.aliases = {} THEN decl.clauses
                ELSE [c \in DOMAIN decl.clauses |-> Substitute(decl.clauses[c], managers.aliases)]
    BY DEF ApplyAliases
<1>2. /\ NoEntryInside' = NoEntryInside /\ ActiveWritten' = ActiveWritten /\ decl' = decl
      /\ \A x : Written(x)' = Written(x)
    BY <1>1, WrittenStays
<1>3. NoEntryInside' => ScopesKept'
    BY <1>1, <1>2 DEF MergeInv, ScopesKept
<1>4. ASSUME NoEntryInside, NEW c \in ToSet(Clause), Readable(sql'[c])
      PROVE  sql'[c] = Written(decl.clauses[c])
  <2> DEFINE text == decl.clauses[c]
             E == managers.aliases
             A == decl.aliases
  <2>1. AliasesKept(E, A)
      BY <1>1, <1>4 DEF MergeInv
  <2>2. /\ decl.clauses \in [ToSet(Clause) -> Seq(Token)]
        /\ \A a \in A : Declarable(a)
        /\ \A a, b \in A : a.name = b.name => a = b
      BY DeclaredNames DEF TextInv
  <2>3. text \in Seq(Token) /\ DOMAIN decl.clauses = ToSet(Clause)
      BY <2>2
  <2>4. CASE E = {}
    <3>1. A = {}
        BY <2>1, <2>4 DEF AliasesKept
    <3>2. Substitute(text, {}) = text
        BY <2>3, SubstituteNothing
    <3>3. sql'[c] = text
        BY <1>1, <2>4
    <3> QED BY <3>1, <3>2, <3>3 DEF Written
  <2>5. CASE E # {}
    <3>1. sql'[c] = Substitute(text, E)
        BY <1>1, <2>3, <2>5
    <3>2. Mark("\\") \notin ToSet(Substitute(text, E))
        BY <1>4, <3>1 DEF Readable, ToSet
    <3>3. Substitute(text, E) = Substitute(text, A)
      <4> HIDE DEF text, E, A
      <4> QED BY <2>1, <2>2, <2>3, <3>2, SubstituteRead
    <3> QED BY <3>1, <3>3 DEF Written
  <2> QED BY <2>4, <2>5
<1>5. NoEntryInside' => Replaced'
    BY <1>2, <1>4 DEF Replaced
<1> QED BY <1>1, <1>3, <1>5 DEF MergeInv

LEMMA ApplyScopesMerges ==
    ASSUME TextInv, MergeInv, ApplyScopes
    PROVE  MergeInv'
<1> DEFINE active == Active(managers.scopes, managers.ignored)
<1>1. UNCHANGED <<decl, managers>> /\ pc = "scopes" /\ pc' \in {"error", "named"}
    BY DEF ApplyScopes
<1>2. NoEntryInside' = NoEntryInside /\ \A cl : Merged(cl)' = Merged(cl)
    BY <1>1, WrittenStays
<1>3. NoEntryInside /\ SqlReadable => sql = AllWritten
  <2> HAVE NoEntryInside /\ SqlReadable
  <2>1. sql \in [ToSet(Clause) -> Seq(Token)] /\ decl \in Methods
      BY DEF TextInv
  <2>2. \A c \in ToSet(Clause) : sql[c] = Written(decl.clauses[c])
      BY <1>1, <2>1 DEF MergeInv, Replaced, SqlReadable
  <2> QED BY <2>1, <2>2 DEF AllWritten
<1>4. NoEntryInside => active = ActiveWritten
    BY <1>1 DEF MergeInv, ScopesKept
<1> HIDE DEF active
<1>5. ASSUME NoEntryInside, pc' = "named", SqlReadable' PROVE Merged(sql')
  <2>1. CASE active = {}
    <3>1. UNCHANGED sql
        BY <1>5, <2>1 DEF ApplyScopes, active
    <3>2. SqlReadable
        BY <1>1, <1>5, <3>1 DEF SqlReadable
    <3> QED BY <1>3, <1>4, <1>5, <2>1, <3>1, <3>2 DEF Merged
  <2>2. CASE active # {}
    <3>1. /\ SqlReadable /\ \A s \in active : s.text # <<>>
          /\ \E list \in SetToSeqs(active) : sql' = Scoped(sql, list)
        BY <1>5, <2>2 DEF ApplyScopes, active
    <3> QED BY <1>3, <1>4, <1>5, <3>1 DEF Merged
  <2> QED BY <2>1, <2>2
<1>6. NoEntryInside' /\ pc' = "named" /\ SqlReadable' => Merged(sql)'
  <2> HAVE NoEntryInside' /\ pc' = "named" /\ SqlReadable'
  <2>1. Merged(sql')
      BY <1>2, <1>5
  <2>2. ActiveWritten' = ActiveWritten /\ AllWritten' = AllWritten
      BY <1>1, WrittenStays
  <2> QED BY <2>1, <2>2 DEF Merged
<1> QED BY <1>1, <1>6 DEF MergeInv

LEMMA ConvertMerges ==
    ASSUME TextInv, MergeInv, Convert
    PROVE  MergeInv'
<1>1. UNCHANGED decl /\ pc = "named" /\ pc' \in {"error", "detect"}
    BY DEF Convert
<1>2. NoEntryInside' = NoEntryInside /\ (\A cl : Merged(cl)' = Merged(cl)) /\ decl' = decl
    BY <1>1, WrittenStays
<1>3. sql \in [ToSet(Clause) -> Seq(Token)]
    BY DEF TextInv
<1>4. ASSUME pc' = "detect" PROVE sql' = Numbering(sql)
  <2>1. CASE Args = <<>>
      BY <1>4, <2>1 DEF Convert, Numbering
  <2>2. CASE Args # <<>>
      BY <1>4, <2>2 DEF Convert, Numbering, OutText
  <2> QED BY <2>1, <2>2
<1>5. ASSUME pc' = "detect", SqlReadable' PROVE SqlReadable
  <2>1. CASE Args = <<>>
    <3>1. sql' = sql
        BY <1>4, <1>5, <2>1 DEF Numbering
    <3> QED BY <1>2, <1>5, <3>1 DEF SqlReadable
  <2>2. CASE Args # <<>>
    <3>1. sql' = [c \in DOMAIN sql |-> OutText(sql[c])]
        BY <1>4, <1>5, <2>2 DEF Numbering
    <3>2. DOMAIN sql' = DOMAIN sql /\ \A c \in DOMAIN sql : sql'[c] = OutText(sql[c])
        BY <3>1
    <3>3. \A c \in DOMAIN sql : Readable(sql'[c])
        BY <1>5, <3>2 DEF SqlReadable
    <3>4. \A c \in DOMAIN sql : sql[c] \in Seq(Token)
        BY <1>3
    <3>5. \A c \in DOMAIN sql : Readable(sql[c])
        BY <3>2, <3>3, <3>4, TextKept
    <3>6. decl.readable
        BY <1>2, <1>5 DEF SqlReadable
    <3> QED BY <3>5, <3>6 DEF SqlReadable
  <2> QED BY <2>1, <2>2
<1>6. NoEntryInside' /\ pc' = "detect" /\ SqlReadable' => MergedAndNumbered'
  <2> HAVE NoEntryInside' /\ pc' = "detect" /\ SqlReadable'
  <2>1. Merged(sql)
      BY <1>1, <1>2, <1>5 DEF MergeInv
  <2> DEFINE cl == sql
             D == [ToSet(Clause) -> Seq(Token)]
  <2>2. cl \in D /\ Merged(cl) /\ sql' = Numbering(cl)
      BY <1>3, <1>4, <2>1
  <2>3. PICK x \in D : Merged(x) /\ sql' = Numbering(x)
      BY <2>2
  <2>4. Merged(x)' /\ sql' = Numbering(x)'
      BY <1>1, <1>2, <2>3, NumberingStays
  <2> QED BY <2>4 DEF MergedAndNumbered
<1> QED BY <1>1, <1>6 DEF MergeInv

LEMMA DetectMerges ==
    ASSUME TextInv, MergeInv, Detect
    PROVE  MergeInv'
<1>1. UNCHANGED <<decl, sql>> /\ pc = "detect" /\ pc' \in {"error", "built"}
    BY DEF Detect
<1>2. NoEntryInside' = NoEntryInside /\ (\A cl : Merged(cl)' = Merged(cl)) /\ decl' = decl
    BY <1>1, WrittenStays
<1>3. SqlReadable' = SqlReadable
    BY <1>1 DEF SqlReadable
<1>4. NoEntryInside' /\ SqlReadable' => MergedAndNumbered'
  <2> HAVE NoEntryInside' /\ SqlReadable'
  <2> DEFINE D == [ToSet(Clause) -> Seq(Token)]
  <2>1. PICK x \in D : Merged(x) /\ sql = Numbering(x)
      BY <1>1, <1>2, <1>3 DEF MergeInv, MergedAndNumbered
  <2>2. Merged(x)' /\ sql' = Numbering(x)'
      BY <1>1, <1>2, <2>1, NumberingStays
  <2> QED BY <2>2 DEF MergedAndNumbered
<1>5. kind' = "Select" => SqlReadable'
    BY <1>3 DEF Detect, Detected
<1> QED BY <1>1, <1>4, <1>5 DEF MergeInv

LEMMA MergeSteps ==
    ASSUME TextInv, MergeInv, [MNext]_mvars
    PROVE  MergeInv'
<1>1. CASE Text
    BY <1>1, InjectMerges, ExtractMerges, ApplyAliasesMerges, ApplyScopesMerges, ConvertMerges, DetectMerges
       DEF Text, TNext
<1>2. CASE Generate \/ Send \/ Respond \/ Insert
  <2>1. pc' \in {"ready", "page", "done", "error"}
      BY <1>2 DEF Generate, Send, Respond, Insert
  <2> QED BY <2>1 DEF MergeInv
<1>3. CASE UNCHANGED mvars
  <2>1. UNCHANGED <<decl, pc, hidden, managers, sql, kind>>
      BY <1>3 DEF mvars, tvars
  <2>2. /\ NoEntryInside' = NoEntryInside /\ ActiveWritten' = ActiveWritten /\ ResolvedScopes' = ResolvedScopes
        /\ (\A cl : Merged(cl)' = Merged(cl)) /\ \A x : Written(x)' = Written(x)
      BY <2>1, WrittenStays
  <2>3. Hidden' = Hidden /\ ScopesKept' = ScopesKept /\ SqlReadable' = SqlReadable
      BY <2>1, <2>2 DEF Hidden, ScopesKept, SqlReadable
  <2>4. Replaced' = Replaced
      BY <2>1, <2>2 DEF Replaced
  <2>5. MergedAndNumbered => MergedAndNumbered'
    <3> HAVE MergedAndNumbered
    <3> DEFINE D == [ToSet(Clause) -> Seq(Token)]
    <3>1. PICK x \in D : Merged(x) /\ sql = Numbering(x)
        BY DEF MergedAndNumbered
    <3>2. Merged(x)' /\ sql' = Numbering(x)'
        BY <2>1, <2>2, <3>1, NumberingStays
    <3> QED BY <3>2 DEF MergedAndNumbered
  <2>6. Merged(sql)' = Merged(sql)
      BY <2>1, WrittenStays DEF Merged
  <2> QED BY <2>1, <2>2, <2>3, <2>4, <2>5, <2>6 DEF MergeInv
<1> QED BY <1>1, <1>2, <1>3 DEF MNext

-----------------------------------------------------------------------------

LEMMA ExtendedIs ==
    ASSUME TextInv, MergeInv
    PROVE  ClausesExtended
<1> SUFFICES ASSUME Selecting, NoEntryInside PROVE ClausesExtended
    BY DEF ClausesExtended
<1>1. decl \in Methods /\ pc = "built" /\ kind = "Select"
    BY DEF TextInv, Selecting
<1>2. SqlReadable
    BY <1>1 DEF MergeInv
<1>3. PICK cl \in [ToSet(Clause) -> Seq(Token)] : Merged(cl) /\ sql = Numbering(cl)
    BY <1>1, <1>2 DEF MergeInv, MergedAndNumbered
<1>4. /\ Extends(cl, "group_by") /\ Extends(cl, "order_by") /\ Extends(cl, "from")
      /\ OneItem => Extends(cl, "select")
    BY <1>1, <1>3, MergedExtends
<1>5. \A c \in ToSet(Clause) : Bare(sql[c]) = Bare(cl[c])
  <2> TAKE c \in ToSet(Clause)
  <2>1. cl[c] \in Seq(Token) /\ DOMAIN cl = ToSet(Clause)
      BY <1>3
  <2>2. sql[c] = cl[c] \/ sql[c] = OutText(cl[c])
      BY <1>3, <2>1 DEF Numbering
  <2> QED BY <2>1, <2>2, TextKept
<1>6. {"group_by", "order_by", "select", "from"} \subseteq ToSet(Clause)
    BY ClauseNames
<1>7. \A c \in {"group_by", "order_by"} :
          \E more \in Added(c) : Bare(sql[c]) = Bare(Written(decl.clauses[c]) \o more)
    BY <1>4, <1>5, <1>6 DEF Extends
<1>8. (\A s \in Applied("select") : Len(Written(s.text)) = 1) =>
          \E more \in Added("select") : Bare(sql.select) = Bare(Written(decl.clauses.select) \o more)
    BY <1>4, <1>5, <1>6 DEF Extends, OneItem
<1>9. Written(decl.clauses.from) # <<>> =>
          \E f \in Added("from"), j \in Added("join") :
              Bare(sql.from) = Bare(Written(decl.clauses.from) \o f \o j)
    BY <1>4, <1>5, <1>6 DEF Extends
<1> QED BY <1>7, <1>8, <1>9 DEF ClausesExtended

\* The statement of a method that compiles has in its clauses what is written
\* there and after that every scope of the target, once and whole: #[dml] reads
\* out of the hidden attributes what #[repo] wrote into them, or the method does
\* not compile.
THEOREM ClausesAreExtended == MSpec => []ClausesExtended
<1>1. MInit => TextInv /\ MergeInv
    BY TextInit, MergeInit
<1>2. TextInv /\ MergeInv /\ [MNext]_mvars => TextInv' /\ MergeInv'
    BY TextSteps, MergeSteps
<1>3. TextInv /\ MergeInv => ClausesExtended
    BY ExtendedIs
<1> QED BY <1>1, <1>2, <1>3, PTL DEF MSpec

-----------------------------------------------------------------------------
(* Conditions put together.                                                 *)

KeptText == [t \in Seq(Token) |-> IF t # <<>> THEN <<t>> ELSE <<>>]

NonEmpty(conds) == FlattenSeq(EachOf(KeptText, conds))

\* A condition and its connective
Anded(t, q) == q = t \/ q = <<And>> \o t

ThenAnd(parts, i) == IF i = 1 THEN parts[i] ELSE <<And>> \o parts[i]

WithAnds(some) == [i \in DOMAIN some |-> ThenAnd(some, i)]

\* tok is in one of the texts
Within(tok, texts) == \E i \in 1..Len(texts) : tok \in ToSet(texts[i])

LEMMA KeptTextMaps == Maps(KeptText, Seq(Token), Seq(Seq(Token)))
<1> DEFINE C == Seq(Token)
           K(t) == IF t # <<>> THEN <<t>> ELSE <<>>
<1>1. ASSUME NEW t \in C PROVE K(t) \in Seq(C)
  <2> HIDE DEF C
  <2>1. <<t>> \in Seq(C) /\ <<>> \in Seq(C)
      OBVIOUS
  <2> QED BY <2>1
<1> HIDE DEF K
<1>2. [t \in C |-> K(t)] \in [C -> Seq(C)]
    BY <1>1
<1> QED BY <1>2 DEF K, Maps, KeptText

LEMMA NonEmptyIs ==
    ASSUME NEW x \in Seq(Seq(Token))
    PROVE  /\ Kept(x, {i \in DOMAIN x : x[i] # <<>>}) = NonEmpty(x)
           /\ NonEmpty(x) \in Seq(Seq(Token))
           /\ \A tok : Within(tok, NonEmpty(x)) <=> Within(tok, x)
<1> DEFINE C == Seq(Token)
           e == EachOf(KeptText, x)
           n == Len(x)
           k == NonEmpty(x)
<1>1. n \in Nat /\ DOMAIN x = 1..n /\ \A i \in 1..n : x[i] \in C
    BY ProperIs DEF Proper
<1>2. \A i \in 1..n : KeptText[x[i]] = IF x[i] # <<>> THEN <<x[i]>> ELSE <<>>
    BY <1>1 DEF KeptText
<1> HIDE DEF C, n
<1>3. e = [i \in 1..n |-> IF x[i] # <<>> THEN <<x[i]>> ELSE <<>>]
    BY <1>1, <1>2 DEF EachOf
<1>4. Kept(x, {i \in DOMAIN x : x[i] # <<>>}) = k
  <2>1. Kept(x, {i \in DOMAIN x : x[i] # <<>>}) = FlattenSeq([i \in DOMAIN x |-> IF i \in {j \in DOMAIN x : x[j] # <<>>} THEN <<x[i]>> ELSE <<>>])
      BY DEF Kept
  <2>2. [i \in DOMAIN x |-> IF i \in {j \in DOMAIN x : x[j] # <<>>} THEN <<x[i]>> ELSE <<>>] = e
      BY <1>1, <1>3
  <2> QED BY <2>1, <2>2 DEF NonEmpty
<1>5. \A i \in 1..n : e[i] \in Seq(C)
  <2>1. \A i \in 1..n : <<x[i]>> \in Seq(C) /\ <<>> \in Seq(C)
      BY <1>1
  <2> QED BY <1>3, <2>1
<1>6. e \in Seq(Seq(C)) /\ Len(e) = n
  <2> DEFINE D == Seq(C)
  <2>1. \A i \in 1..n : e[i] \in D
      BY <1>5
  <2>2. e \in [1..n -> D]
      BY <1>3, <2>1
  <2> HIDE DEF D, e
  <2>3. e \in Seq(D) /\ Len(e) = n
      BY <1>1, <2>1, <2>2
  <2> QED BY <2>3 DEF D
<1> HIDE DEF e
<1>7. k \in Seq(C) /\ ToSet(k) = UNION {ToSet(e[i]) : i \in 1..n}
  <2>1. FlattenSeq(e) \in Seq(C)
      BY <1>6, FlattenType
  <2>2. ToSet(FlattenSeq(e)) = UNION {ToSet(e[i]) : i \in 1..Len(e)}
      BY <1>6, FlattenHolds
  <2> QED BY <1>6, <2>1, <2>2 DEF NonEmpty, e
<1>8. \A i \in 1..n : ToSet(e[i]) = IF x[i] # <<>> THEN {x[i]} ELSE {}
  <2> TAKE i \in 1..n
  <2> DEFINE y == x[i]
  <2>1. e[i] = IF y # <<>> THEN <<y>> ELSE <<>>
      BY <1>3
  <2> HIDE DEF y
  <2>2. ToSet(<<y>>) = {y}
      BY Single
  <2>3. ToSet(<<>>) = {}
      BY DEF ToSet
  <2> QED BY <2>1, <2>2, <2>3 DEF y
<1> HIDE DEF k
<1>9. Proper(k, C)
    BY <1>7, ProperIs
<1>10. \A y : y \in ToSet(k) <=> y # <<>> /\ \E i \in 1..n : y = x[i]
  <2>1. \A y : y \in ToSet(k) <=> \E i \in 1..n : y \in ToSet(e[i])
      BY <1>7
  <2>2. \A i \in 1..n : \A y : y \in ToSet(e[i]) <=> y # <<>> /\ y = x[i]
    <3> TAKE i \in 1..n
    <3>1. CASE x[i] # <<>>
        BY <1>8, <3>1
    <3>2. CASE x[i] = <<>>
        BY <1>8, <3>2
    <3> QED BY <3>1, <3>2
  <2> HIDE DEF k, e, n
  <2>3. ASSUME NEW y, y \in ToSet(k) PROVE y # <<>> /\ \E i \in 1..n : y = x[i]
    <3>1. PICK i \in 1..n : y \in ToSet(e[i])
        BY <2>1, <2>3
    <3>2. y # <<>> /\ y = x[i]
        BY <2>2, <3>1
    <3> QED BY <3>2
  <2>4. ASSUME NEW y, y # <<>>, NEW i \in 1..n, y = x[i] PROVE y \in ToSet(k)
    <3>1. y \in ToSet(e[i])
        BY <2>2, <2>4
    <3> QED BY <2>1, <3>1
  <2> QED BY <2>3, <2>4
<1>11. \A tok : tok \notin ToSet(<<>>)
    BY DEF ToSet
<1>12. ASSUME NEW tok, Within(tok, k) PROVE Within(tok, x)
  <2>1. PICK j \in 1..Len(k) : tok \in ToSet(k[j])
      BY <1>12 DEF Within
  <2>2. k[j] \in ToSet(k)
      BY <1>9, <2>1 DEF Proper
  <2>3. PICK i \in 1..n : k[j] = x[i]
      BY <1>10, <2>2
  <2> QED BY <2>1, <2>3 DEF Within, n
<1>13. ASSUME NEW tok, Within(tok, x) PROVE Within(tok, k)
  <2>1. PICK i \in 1..n : tok \in ToSet(x[i])
      BY <1>13 DEF Within, n
  <2>2. x[i] \in ToSet(k)
      BY <1>10, <1>11, <2>1
  <2>3. PICK j \in 1..Len(k) : x[i] = k[j]
      BY <1>9, <2>2 DEF Proper
  <2> QED BY <2>1, <2>3 DEF Within
<1> QED BY <1>4, <1>7, <1>12, <1>13 DEF C, k

\* What stands in conditions put together, beside the ANDs, is what stands in them.
LEMMA AndsBetween ==
    ASSUME NEW t \in Seq(Seq(Token)), NEW q, q \in Seq(Seq(Token)), Len(q) = Len(t),
           \A i \in 1..Len(t) : Anded(t[i], q[i])
    PROVE  /\ FlattenSeq(q) \in Seq(Token)
           /\ \A tok : tok # And => (tok \in ToSet(FlattenSeq(q)) <=> Within(tok, t))
<1> DEFINE C == Seq(Token)
           n == Len(t)
<1>1. FlattenSeq(q) \in Seq(Token) /\ ToSet(FlattenSeq(q)) = UNION {ToSet(q[i]) : i \in 1..n}
    BY FlattenType, FlattenHolds
<1>2. \A i \in 1..n : t[i] \in C
    BY ProperIs DEF Proper
<1> HIDE DEF n
<1>3. \A i \in 1..n : \A tok : tok # And => (tok \in ToSet(q[i]) <=> tok \in ToSet(t[i]))
  <2> TAKE i \in 1..n
  <2> DEFINE y == t[i]
             z == q[i]
             a == <<And>>
  <2>1. Anded(y, z) /\ y \in C
      BY <1>2 DEF n
  <2>2. a \in C /\ ToSet(a) = {And}
      BY TokensAre, Single
  <2> HIDE DEF y, z, a
  <2>3. ToSet(a \o y) = ToSet(a) \cup ToSet(y)
      BY <2>1, <2>2, TextsBeside
  <2>4. z = y \/ z = a \o y
      BY <2>1 DEF Anded, a
  <2>5. ToSet(z) = ToSet(y) \/ ToSet(z) = {And} \cup ToSet(y)
      BY <2>2, <2>3, <2>4
  <2> QED BY <2>5 DEF y, z
<1> QED BY <1>1, <1>3 DEF Within, n

LEMMA WithAndsIs ==
    ASSUME NEW some \in Seq(Seq(Token))
    PROVE  /\ WithAnds(some) \in Seq(Seq(Token)) /\ Len(WithAnds(some)) = Len(some)
           /\ Len(some) \in Nat
           /\ \A i \in 1..Len(some) : /\ WithAnds(some)[i] = ThenAnd(some, i)
                                     /\ Anded(some[i], WithAnds(some)[i])
<1> DEFINE C == Seq(Token)
           n == Len(some)
           q == WithAnds(some)
<1>1. n \in Nat /\ DOMAIN some = 1..n /\ \A i \in 1..n : some[i] \in C
    BY ProperIs DEF Proper
<1> HIDE DEF n
<1>2. \A i \in 1..n : ThenAnd(some, i) \in C
  <2> TAKE i \in 1..n
  <2> DEFINE y == some[i]
             a == <<And>>
  <2>1. a \in C /\ y \in C
      BY <1>1, TokensAre, Single
  <2> HIDE DEF y, a
  <2>2. a \o y \in C
      BY <2>1, TextsBeside
  <2> QED BY <2>1, <2>2 DEF ThenAnd, y, a
<1>3. q = [i \in 1..n |-> ThenAnd(some, i)]
    BY <1>1 DEF WithAnds
<1> HIDE DEF C, q
<1>4. q \in Seq(C) /\ Len(q) = n /\ \A i \in 1..n : q[i] = ThenAnd(some, i)
    BY <1>1, <1>2, <1>3
<1>5. \A i \in 1..n : Anded(some[i], q[i])
    BY <1>4 DEF Anded, ThenAnd
<1> QED BY <1>1, <1>4, <1>5 DEF C, n, q

\* Behind a first condition each of the others has its AND.
LEMMA WithAndsGrown ==
    ASSUME NEW e \in Seq(Token), NEW more \in Seq(Seq(Token))
    PROVE  \E q \in Seq(Seq(Token)) :
              /\ Len(q) = Len(more) /\ \A i \in 1..Len(more) : Anded(more[i], q[i])
              /\ FlattenSeq(WithAnds(<<e>> \o more)) = e \o FlattenSeq(q)
<1> DEFINE C == Seq(Token)
           s == <<e>> \o more
           n == Len(more)
           w == WithAnds(s)
           A(i) == <<And>> \o more[i]
           q == [i \in 1..n |-> A(i)]
<1>1. n \in Nat /\ \A i \in 1..n : more[i] \in C
    BY ProperIs DEF Proper
<1>2. \A i \in 1..n : A(i) \in C /\ Anded(more[i], A(i))
  <2> TAKE i \in 1..n
  <2> DEFINE y == more[i]
             a == <<And>>
  <2>1. a \in C /\ y \in C
      BY <1>1, TokensAre, Single
  <2> HIDE DEF y, a
  <2>2. a \o y \in C
      BY <2>1, TextsBeside
  <2> QED BY <2>2 DEF Anded, y, a
<1>3. <<e>> \in Seq(C) /\ Len(<<e>>) = 1 /\ <<e>>[1] = e /\ more \in Seq(C) /\ e \in C
    BY Single
<1> HIDE DEF C, n, A
<1>4. q \in Seq(C) /\ Len(q) = n /\ \A i \in 1..n : q[i] = A(i)
    BY <1>1, <1>2
<1> HIDE DEF q
<1>5. Beside(<<e>>, more, s, C)
    BY <1>3, BesideIs
<1>6. s \in Seq(C) /\ Len(s) = 1 + n /\ s[1] = e /\ \A i \in 1..n : s[1 + i] = more[i]
  <2>1. 1 \in 1..1
      OBVIOUS
  <2>2. s \in Seq(C) /\ Len(s) = Len(<<e>>) + Len(more)
      BY <1>5 DEF Beside
  <2>3. \A k \in 1..Len(<<e>>) : s[k] = <<e>>[k]
      BY <1>5 DEF Beside
  <2>4. \A k \in 1..Len(more) : s[Len(<<e>>) + k] = more[k]
      BY <1>5 DEF Beside
  <2> HIDE DEF s
  <2> QED BY <1>3, <2>1, <2>2, <2>3, <2>4 DEF n
<1> HIDE DEF s
<1>7. w \in Seq(C) /\ Len(w) = 1 + n /\ \A i \in 1..(1 + n) : w[i] = ThenAnd(s, i)
    BY <1>6, WithAndsIs DEF C
<1> HIDE DEF w
<1>8. w[1] = e
  <2>1. 1 \in 1..(1 + n)
      BY <1>1
  <2> QED BY <1>6, <1>7, <2>1 DEF ThenAnd
<1>9. \A i \in 1..n : w[1 + i] = q[i]
  <2> TAKE i \in 1..n
  <2>1. 1 + i \in 1..(1 + n) /\ 1 + i # 1
      BY <1>1
  <2>2. w[1 + i] = <<And>> \o s[1 + i]
      BY <1>7, <2>1 DEF ThenAnd
  <2> QED BY <1>4, <1>6, <2>2 DEF A
<1>10. w = <<e>> \o q
  <2> DEFINE p == <<e>>
  <2>1. p \in Seq(C) /\ Len(p) = 1 /\ p[1] = e
      BY <1>3
  <2> HIDE DEF p
  <2>2. \A k \in 1..Len(p) : w[k] = p[k]
    <3>1. \A k \in 1..Len(p) : k = 1
        BY <2>1
    <3> QED BY <1>8, <2>1, <3>1
  <2>3. Beside(p, q, w, C)
      BY <1>4, <1>7, <1>9, <2>1, <2>2 DEF Beside
  <2> QED BY <2>3, SideBySideIs DEF p
<1>11. FlattenSeq(<<e>> \o q) = FlattenSeq(<<e>>) \o FlattenSeq(q)
  <2> DEFINE p == <<e>>
  <2>1. p \in Seq(Seq(Token)) /\ q \in Seq(Seq(Token))
      BY <1>3, <1>4 DEF C
  <2> HIDE DEF p
  <2> QED BY <2>1, FlattenJoins DEF p
<1>12. FlattenSeq(<<e>>) = e
    BY FlattenOne
<1>13. \A i \in 1..n : Anded(more[i], q[i])
    BY <1>2, <1>4
<1>14. FlattenSeq(w) = e \o FlattenSeq(q)
    BY <1>10, <1>11, <1>12
<1> QED BY <1>4, <1>13, <1>14 DEF C, n, w, s

\* What is added to a condition
Addition(out, e, conds, rest) ==
    /\ out = e \o rest
    /\ conds = <<>> => rest = <<>>
    /\ \A tok : tok # And => (tok \in ToSet(rest) <=> Within(tok, conds))

LEMMA CombinedIs ==
    ASSUME NEW e \in Seq(Token), NEW conds \in Seq(Seq(Token))
    PROVE  \E rest \in Seq(Token) : Addition(Combined(e, conds), e, conds, rest)
<1> DEFINE C == Seq(Token)
           all == <<e>> \o conds
           more == NonEmpty(conds)
           out == Combined(e, conds)
<1>1. <<e>> \in Seq(C) /\ all \in Seq(C)
  <2>1. <<e>> \in Seq(C) /\ conds \in Seq(C)
      BY Single
  <2> HIDE DEF C
  <2> QED BY <2>1
<1>2. out = FlattenSeq(WithAnds(NonEmpty(all)))
  <2> DEFINE some == Kept(all, {i \in DOMAIN all : all[i] # <<>>})
  <2>1. out = FlattenSeq(WithAnds(some))
      BY DEF Combined, WithAnds, ThenAnd
  <2>2. some = NonEmpty(all)
    <3> HIDE DEF all
    <3> QED BY <1>1, NonEmptyIs
  <2> QED BY <2>1, <2>2
<1>3. NonEmpty(all) = NonEmpty(<<e>>) \o more
  <2> DEFINE p == <<e>>
  <2>1. p \in Seq(C)
      BY <1>1
  <2> HIDE DEF p
  <2>2. FlattenSeq(EachOf(KeptText, p \o conds)) = FlattenSeq(EachOf(KeptText, p)) \o FlattenSeq(EachOf(KeptText, conds))
    <3> HIDE DEF all, out, more
    <3>1. conds \in Seq(C)
        OBVIOUS
    <3>2. Maps(KeptText, C, Seq(C))
        BY KeptTextMaps
    <3> HIDE DEF C
    <3>3. \A c, f \in Seq(C) :
              FlattenSeq(EachOf(KeptText, c \o f)) = FlattenSeq(EachOf(KeptText, c)) \o FlattenSeq(EachOf(KeptText, f))
        BY <3>2, ImagesFlatten
    <3> QED BY <2>1, <3>1, <3>3
  <2> QED BY <2>2 DEF NonEmpty, p
<1>4. NonEmpty(<<e>>) = IF e # <<>> THEN <<e>> ELSE <<>>
  <2> DEFINE p == <<e>>
             y == KeptText[e]
  <2>1. y = IF e # <<>> THEN <<e>> ELSE <<>>
      BY DEF KeptText
  <2>2. EachOf(KeptText, p) = <<y>>
    <3>1. DOMAIN p = {1} /\ p[1] = e
        OBVIOUS
    <3> HIDE DEF p
    <3>2. EachOf(KeptText, p) = [i \in {1} |-> y]
        BY <3>1 DEF EachOf
    <3> HIDE DEF y
    <3>3. <<y>> = [i \in {1} |-> y]
        OBVIOUS
    <3> QED BY <3>2, <3>3
  <2>3. y \in Seq(C)
    <3> HIDE DEF y
    <3>1. e \in C /\ <<>> \in Seq(C)
        OBVIOUS
    <3>2. <<e>> \in Seq(C)
        BY <1>1
    <3> QED BY <2>1, <3>1, <3>2
  <2> HIDE DEF y, C
  <2>4. FlattenSeq(<<y>>) = y
      BY <2>3, FlattenOne
  <2> QED BY <2>1, <2>2, <2>4 DEF NonEmpty
<1>5. more \in Seq(C) /\ \A tok : Within(tok, more) <=> Within(tok, conds)
    BY NonEmptyIs
<1>6. conds = <<>> => more = <<>>
  <2> HAVE conds = <<>>
  <2>1. EachOf(KeptText, <<>>) = <<>>
      BY DEF EachOf
  <2> QED BY <2>1 DEF NonEmpty, FlattenSeq
<1> HIDE DEF all, more, out, C
<1>7. CASE e # <<>>
  <2>1. out = FlattenSeq(WithAnds(<<e>> \o more))
      BY <1>2, <1>3, <1>4, <1>7
  <2>2. PICK q \in Seq(Seq(Token)) :
              /\ Len(q) = Len(more) /\ \A i \in 1..Len(more) : Anded(more[i], q[i])
              /\ FlattenSeq(WithAnds(<<e>> \o more)) = e \o FlattenSeq(q)
      BY <1>5, WithAndsGrown DEF C
  <2> DEFINE rest == FlattenSeq(q)
  <2>3. rest \in Seq(Token) /\ \A tok : tok # And => (tok \in ToSet(rest) <=> Within(tok, more))
      BY <1>5, <2>2, AndsBetween DEF C
  <2>4. conds = <<>> => rest = <<>>
    <3> HAVE conds = <<>>
    <3>1. Len(<<>>) = 0 /\ Len(q) = 0
        BY <1>6, <2>2
    <3> DEFINE D == Seq(Token)
    <3>2. q \in Seq(D)
        OBVIOUS
    <3> HIDE DEF D
    <3>3. q = <<>>
        BY <3>1, <3>2
    <3> QED BY <3>3 DEF FlattenSeq
  <2>5. out = e \o rest
      BY <2>1, <2>2
  <2> HIDE DEF rest
  <2>6. Addition(out, e, conds, rest)
      BY <1>5, <2>3, <2>4, <2>5 DEF Addition
  <2> QED BY <2>3, <2>6 DEF out
<1>8. CASE e = <<>>
  <2>1. NonEmpty(all) = more
    <3>1. <<>> \o more = more
      <4> HIDE DEF C
      <4>1. more \in Seq(C)
          BY <1>5
      <4> QED BY <4>1
    <3> QED BY <1>3, <1>4, <1>8, <3>1
  <2> DEFINE q == WithAnds(more)
  <2>2. q \in Seq(Seq(Token)) /\ Len(q) = Len(more) /\ \A i \in 1..Len(more) : Anded(more[i], q[i])
      BY <1>5, WithAndsIs DEF C
  <2> HIDE DEF q
  <2>3. FlattenSeq(q) \in Seq(Token) /\ \A tok : tok # And => (tok \in ToSet(FlattenSeq(q)) <=> Within(tok, more))
      BY <1>5, <2>2, AndsBetween DEF C
  <2>4. out = FlattenSeq(q)
      BY <1>2, <2>1 DEF q
  <2>5. out = e \o out
    <3>1. out \in Seq(Token)
        BY <2>3, <2>4
    <3>2. <<>> \o out = out
        BY <3>1, TextsBeside
    <3> QED BY <1>8, <3>2
  <2>6. conds = <<>> => out = <<>>
    <3> HAVE conds = <<>>
    <3>1. Len(<<>>) = 0 /\ Len(q) = 0
        BY <1>6, <2>2
    <3> DEFINE D == Seq(Token)
    <3>2. q \in Seq(D)
        BY <2>2
    <3> HIDE DEF D
    <3>3. q = <<>>
        BY <3>1, <3>2
    <3> QED BY <2>4, <3>3 DEF FlattenSeq
  <2>7. Addition(out, e, conds, out)
      BY <1>5, <2>3, <2>4, <2>5, <2>6 DEF Addition
  <2>8. out \in Seq(Token)
      BY <2>3, <2>4
  <2> QED BY <2>7, <2>8 DEF out
<1> QED BY <1>7, <1>8

-----------------------------------------------------------------------------
(* What the scopes add to the clauses.                                      *)

\* What InOrder asks of a token of a text, and of one that is added
Known(tok) == (tok.by = "$" => tok.k = Index(tok.v)) /\ (tok.by # "" => Index(tok.v) # 0)

Fixed(tok) == Known(tok) /\ ~Unnumbered(tok)

AllFixed(text) == \A tok \in ToSet(text) : Fixed(tok)

Longer(text, own) == \E rest \in Seq(Token) : text = own \o rest /\ AllFixed(rest)

LEMMA KnownTexts ==
    ASSUME decl \in Methods, InOrder
    PROVE  /\ \A c \in ToSet(Clause) : \A tok \in ToSet(AllWritten[c]) : Known(tok)
           /\ \A u \in ActiveWritten : AllFixed(u.text)
           /\ Fixed(And) /\ \A n : Fixed(Item(n))
<1>1. \A c \in ToSet(Clause) : AllWritten[c] = Written(decl.clauses[c])
    BY AllWrittenType
<1>2. \A c \in ToSet(Clause) : \A tok \in ToSet(Written(decl.clauses[c])) : Known(tok)
    BY DEF InOrder, Known
<1>3. \A text \in ScopeTexts : AllFixed(text)
    BY DEF InOrder, Known, Fixed, AllFixed
<1>4. \A u \in ActiveWritten : u.text \in ScopeTexts
  <2> TAKE u \in ActiveWritten
  <2>1. PICK s \in ActiveDeclared : u = AsWritten(s)
      BY DEF ActiveWritten
  <2>2. u.text = Written(s.text)
      BY <2>1, ActiveIs
  <2> QED BY <2>2 DEF ScopeTexts, ActiveDeclared
<1>5. And.by = "" /\ \A n : Item(n).by = ""
    BY DEF And, Item, Tok
<1>6. \A tok : tok.by = "" => Fixed(tok)
    BY DEF Fixed, Known, Unnumbered
<1> QED BY <1>1, <1>2, <1>3, <1>4, <1>5, <1>6

\* The texts of a target are those of its scopes.
TextsAre(texts, target) ==
    /\ texts \in Seq(Seq(Token))
    /\ \A i \in 1..Len(texts) : texts[i] # <<>> /\ \E s \in Applied(target) : texts[i] = Written(s.text)
    /\ \A s \in Applied(target) : \E i \in 1..Len(texts) : texts[i] = Written(s.text)

LEMMA EveryText ==
    ASSUME decl \in Methods, NEW list, Enumerates(list, ActiveWritten), NEW target,
           \A u \in ActiveWritten : u.text # <<>>
    PROVE  TextsAre(Texts(list, target), target)
<1> DEFINE m == <<Name(target)>>
           T == {u \in ActiveWritten : u.target = m}
           of == Kept(list, {i \in DOMAIN list : list[i].target = m})
           texts == Texts(list, target)
           C == Seq(Token)
<1>1. list \in Seq(ActiveWritten) /\ \A u \in ActiveWritten : u.text \in Seq(Token)
    BY ActiveIs DEF Enumerates
<1>2. texts \in Seq(C) /\ \A i \in DOMAIN texts : texts[i] # <<>>
    BY <1>1, TextsType
<1>3. Proper(texts, C)
  <2> HIDE DEF texts, C
  <2> QED BY <1>2, ProperIs
<1>4. \A i \in DOMAIN texts : \E s \in Applied(target) : texts[i] = Written(s.text)
    BY TextOf
<1>5. Enumerates(of, T)
  <2>1. Proper(list, ActiveWritten)
      BY <1>1, ProperIs
  <2>2. {i \in DOMAIN list : list[i].target = m} = {i \in DOMAIN list : list[i] \in T}
      BY <2>1 DEF Proper
  <2>3. T \in SUBSET ActiveWritten
      OBVIOUS
  <2>4. Enumerates(Kept(list, {i \in DOMAIN list : list[i] \in T}), T)
    <3> HIDE DEF T
    <3> QED BY <2>3, KeptEnumerates
  <2> QED BY <2>2, <2>4
<1>6. texts = [i \in DOMAIN of |-> of[i].text]
    BY DEF Texts
<1> HIDE DEF of, texts
<1>7. Proper(of, T) /\ ToSet(of) = T
    BY <1>5, ProperIs DEF Enumerates
<1>8. ASSUME NEW s \in Applied(target) PROVE \E i \in 1..Len(texts) : texts[i] = Written(s.text)
  <2> DEFINE u == AsWritten(s)
  <2>1. s \in ActiveDeclared /\ s.target = target
      BY DEF Applied, ActiveDeclared
  <2>2. u \in T /\ u.text = Written(s.text)
      BY <2>1, ActiveIs DEF ActiveWritten
  <2> HIDE DEF T, u
  <2>3. PICK i \in 1..Len(of) : of[i] = u
      BY <1>7, <2>2 DEF Proper
  <2>4. i \in DOMAIN of /\ DOMAIN texts = DOMAIN of
      BY <1>6, <1>7 DEF Proper
  <2>5. texts[i] = u.text /\ i \in 1..Len(texts)
      BY <1>3, <1>6, <2>3, <2>4 DEF Proper
  <2> QED BY <2>2, <2>5
<1>9. DOMAIN texts = 1..Len(texts)
    BY <1>3 DEF Proper
<1> HIDE DEF C
<1>10. \A i \in 1..Len(texts) : texts[i] # <<>> /\ \E s \in Applied(target) : texts[i] = Written(s.text)
    BY <1>2, <1>4, <1>9
<1> QED BY <1>2, <1>8, <1>10 DEF TextsAre, texts, C

LEMMA TextsFixed ==
    ASSUME decl \in Methods, InOrder, NEW target, NEW texts, TextsAre(texts, target)
    PROVE  /\ \A tok : Within(tok, texts) => Fixed(tok)
           /\ FlattenSeq(texts) \in Seq(Token) /\ AllFixed(FlattenSeq(texts))
           /\ Firsts(texts) \in Seq(Token) /\ AllFixed(Firsts(texts))
<1> DEFINE C == Seq(Token)
           n == Len(texts)
<1>1. texts \in Seq(C) /\ \A i \in 1..n : texts[i] # <<>>
    BY DEF TextsAre
<1>2. n \in Nat /\ DOMAIN texts = 1..n /\ \A i \in 1..n : texts[i] \in C
    BY <1>1, ProperIs DEF Proper
<1>3. \A i \in 1..n : AllFixed(texts[i])
  <2> TAKE i \in 1..n
  <2>1. PICK s \in Applied(target) : texts[i] = Written(s.text)
      BY DEF TextsAre
  <2>2. s \in ActiveDeclared
      BY DEF Applied, ActiveDeclared
  <2>3. AsWritten(s) \in ActiveWritten /\ AsWritten(s).text = Written(s.text)
      BY <2>2, ActiveIs DEF ActiveWritten
  <2> QED BY <2>1, <2>3, KnownTexts
<1>4. \A tok : Within(tok, texts) => Fixed(tok)
    BY <1>3 DEF Within, AllFixed
<1>5. FlattenSeq(texts) \in Seq(Token) /\ AllFixed(FlattenSeq(texts))
  <2>1. FlattenSeq(texts) \in Seq(Token)
      BY <1>1, FlattenType
  <2>2. ToSet(FlattenSeq(texts)) = UNION {ToSet(texts[i]) : i \in 1..n}
      BY <1>1, FlattenHolds
  <2> QED BY <1>3, <2>1, <2>2 DEF AllFixed
<1>6. Firsts(texts) \in Seq(Token) /\ AllFixed(Firsts(texts))
  <2> DEFINE F(i) == FirstItem(texts[i])
             q == [i \in 1..n |-> F(i)]
  <2>1. \A i \in 1..n : F(i) \in C /\ AllFixed(F(i))
    <3> TAKE i \in 1..n
    <3> DEFINE x == texts[i]
               y == x[1]
    <3>1. x \in C /\ x # <<>> /\ AllFixed(x)
        BY <1>1, <1>2, <1>3
    <3> HIDE DEF x
    <3>2. 1 \in 1..Len(x)
        BY <3>1
    <3>3. y \in Token /\ y \in ToSet(x)
        BY <3>1, <3>2, ProperIs DEF Proper
    <3> HIDE DEF y
    <3>4. <<y>> \in C /\ ToSet(<<y>>) = {y}
        BY <3>3, Single
    <3>5. Fixed(y)
        BY <3>1, <3>3 DEF AllFixed
    <3> QED BY <3>4, <3>5 DEF FirstItem, AllFixed, x, y
  <2>2. Firsts(texts) = FlattenSeq(q)
      BY <1>2 DEF Firsts
  <2> HIDE DEF C, F, n
  <2>3. q \in Seq(C) /\ Len(q) = n /\ \A i \in 1..n : q[i] = F(i)
      BY <1>2, <2>1
  <2> HIDE DEF q
  <2>4. FlattenSeq(q) \in Seq(Token)
      BY <2>3, FlattenType DEF C
  <2>5. ToSet(FlattenSeq(q)) = UNION {ToSet(q[i]) : i \in 1..n}
      BY <2>3, FlattenHolds DEF C
  <2> QED BY <2>1, <2>2, <2>3, <2>4, <2>5 DEF AllFixed
<1> QED BY <1>4, <1>5, <1>6

LEMMA LongerBy ==
    ASSUME NEW own \in Seq(Token), NEW rest \in Seq(Token), AllFixed(rest)
    PROVE  Longer(own \o rest, own)
BY DEF Longer

LEMMA FixedBeside ==
    ASSUME NEW x \in Seq(Token), NEW y \in Seq(Token), AllFixed(x), AllFixed(y)
    PROVE  x \o y \in Seq(Token) /\ AllFixed(x \o y)
<1>1. x \o y \in Seq(Token) /\ ToSet(x \o y) = ToSet(x) \cup ToSet(y)
    BY TextsBeside
<1> QED BY <1>1 DEF AllFixed

\* The numbers of the placeholders that are not written out stay.
LEMMA MergedLonger ==
    ASSUME decl \in Methods, InOrder, NEW cl, Merged(cl)
    PROVE  \A c \in ToSet(Clause) : Longer(cl[c], AllWritten[c])
<1> DEFINE W == AllWritten
           C == Seq(Token)
<1>1. W \in [ToSet(Clause) -> C] /\ \A c \in ToSet(Clause) : W[c] \in C
    BY AllWrittenType
<1>2. <<>> \in C /\ AllFixed(<<>>) /\ \A x \in C : x \o <<>> = x /\ <<>> \o x = x
  <2>1. ToSet(<<>>) = {}
      BY DEF ToSet
  <2> QED BY <2>1, TextsBeside DEF AllFixed
<1>3. ASSUME NEW x \in C PROVE Longer(x, x)
    BY <1>2, LongerBy
<1> HIDE DEF W
<1>4. ASSUME cl = W PROVE \A c \in ToSet(Clause) : Longer(cl[c], W[c])
  <2> TAKE c \in ToSet(Clause)
  <2> DEFINE x == W[c]
  <2>1. x \in C /\ cl[c] = x
      BY <1>1, <1>4
  <2> HIDE DEF x, C
  <2>2. Longer(x, x)
      BY <1>3, <2>1
  <2> QED BY <2>1, <2>2 DEF x
<1>5. ASSUME \A u \in ActiveWritten : u.text # <<>>, NEW list \in SetToSeqs(ActiveWritten), cl = Scoped(W, list)
      PROVE  \A c \in ToSet(Clause) : Longer(cl[c], W[c])
  <2> DEFINE flat(target) == FlattenSeq(Texts(list, target))
             firsts == Firsts(Texts(list, "select"))
  <2>1. Enumerates(list, ActiveWritten)
      BY ActiveIs, OrderIs
  <2>2. ASSUME NEW target
        PROVE  /\ flat(target) \in C /\ AllFixed(flat(target))
               /\ Texts(list, target) \in Seq(C) /\ \A tok : Within(tok, Texts(list, target)) => Fixed(tok)
    <3>1. TextsAre(Texts(list, target), target)
        BY <1>5, <2>1, EveryText
    <3> QED BY <3>1, TextsFixed DEF TextsAre
  <2>3. firsts \in C /\ AllFixed(firsts)
    <3>1. TextsAre(Texts(list, "select"), "select")
        BY <1>5, <2>1, EveryText
    <3> QED BY <3>1, TextsFixed
  <2>4. \A c \in {"select", "from", "where", "group_by", "having", "order_by"} : W[c] \in C
      BY <1>1, ClauseNames
  <2>5. \A c \in {"where", "having"} : Longer(Combined(W[c], Texts(list, c)), W[c])
    <3> TAKE c \in {"where", "having"}
    <3> DEFINE e == W[c]
               conds == Texts(list, c)
               out == Combined(e, conds)
    <3>1. e \in C /\ conds \in Seq(C) /\ \A tok : Within(tok, conds) => Fixed(tok)
        BY <2>2, <2>4
    <3> HIDE DEF e, conds
    <3>2. PICK rest \in Seq(Token) : Addition(out, e, conds, rest)
        BY <3>1, CombinedIs
    <3>3. \A tok \in ToSet(rest) : tok = And \/ Within(tok, conds)
        BY <3>2 DEF Addition
    <3>4. AllFixed(rest)
        BY <3>1, <3>3, KnownTexts DEF AllFixed
    <3>5. out = e \o rest
        BY <3>2 DEF Addition
    <3> HIDE DEF out
    <3>6. Longer(out, e)
        BY <3>1, <3>4, <3>5, LongerBy
    <3> QED BY <3>6 DEF out, e, conds
  <2>6. /\ cl.where = Combined(W.where, Texts(list, "where")) /\ cl.having = Combined(W.having, Texts(list, "having"))
        /\ cl.group_by = W.group_by \o flat("group_by") /\ cl.order_by = W.order_by \o flat("order_by")
        /\ cl.select = W.select \o firsts
        /\ W.from \o flat("from") # <<>> => cl.from = (W.from \o flat("from")) \o flat("join")
        /\ W.from \o flat("from") = <<>> => \/ cl.from = <<>> \o flat("join")
                                            \/ cl.from = <<Item("__dummy__")>> \o flat("join")
      BY <1>1, <1>5, ScopedIs
  <2> HIDE DEF flat, firsts
  <2>7. Longer(cl.where, W.where) /\ Longer(cl.having, W.having)
      BY <2>5, <2>6
  <2>8. Longer(cl.group_by, W.group_by) /\ Longer(cl.order_by, W.order_by) /\ Longer(cl.select, W.select)
      BY <2>2, <2>3, <2>4, <2>6, LongerBy
  <2>9. Longer(cl.from, W.from)
    <3> DEFINE x == W.from
               f == flat("from")
               j == flat("join")
               d == <<Item("__dummy__")>>
    <3>1. x \in C /\ f \in C /\ j \in C /\ AllFixed(f) /\ AllFixed(j)
        BY <2>2, <2>4
    <3>2. d \in C /\ AllFixed(d)
      <4> DEFINE y == Item("__dummy__")
      <4>1. y \in Token
          BY TokensAre DEF Word
      <4>2. Fixed(y)
          BY KnownTexts
      <4> HIDE DEF y
      <4>3. <<y>> \in C /\ ToSet(<<y>>) = {y}
          BY <4>1, Single
      <4> QED BY <4>2, <4>3 DEF AllFixed, y
    <3> HIDE DEF d, f, j, x, C
    <3>3. /\ x \o f # <<>> => cl.from = (x \o f) \o j
          /\ x \o f = <<>> => cl.from = <<>> \o j \/ cl.from = d \o j
        BY <2>6 DEF x, f, j, d
    <3>4. CASE x \o f # <<>>
      <4> DEFINE r == f \o j
      <4>1. r \in Seq(Token) /\ AllFixed(r)
          BY <3>1, FixedBeside DEF C
      <4>2. (x \o f) \o j = x \o r
          BY <3>1, TextsBeside DEF C
      <4> HIDE DEF r
      <4>3. Longer(x \o r, x)
          BY <3>1, <4>1, LongerBy DEF C
      <4> QED BY <3>3, <3>4, <4>2, <4>3 DEF x
    <3>5. CASE x \o f = <<>>
      <4>1. x = <<>>
          BY <3>1, <3>5 DEF C
      <4>2. <<>> \in Seq(Token)
          OBVIOUS
      <4>3. Longer(<<>> \o j, <<>>)
          BY <3>1, <4>2, LongerBy DEF C
      <4> DEFINE r == d \o j
      <4>4. r \in Seq(Token) /\ AllFixed(r)
          BY <3>1, <3>2, FixedBeside DEF C
      <4> HIDE DEF r
      <4>5. Longer(<<>> \o r, <<>>)
          BY <4>2, <4>4, LongerBy
      <4>6. <<>> \o r = r
          BY <4>4, TextsBeside
      <4>7. cl.from = <<>> \o j \/ cl.from = r
          BY <3>3, <3>5 DEF r
      <4> QED BY <4>1, <4>3, <4>5, <4>6, <4>7 DEF x
    <3> QED BY <3>4, <3>5
  <2> QED BY <2>7, <2>8, <2>9, ClauseNames
<1> QED BY <1>4, <1>5 DEF Merged, W

-----------------------------------------------------------------------------
(* The argument that is put at each place.                                  *)

LEMMA NamesWritten ==
    ASSUME decl \in Methods
    PROVE  \A p \in ToSet(Params) : p.name # ""
<1>1. Params \in Seq(Parameter) /\ decl.params \in Seq(Parameter)
    BY ArgsType, MethodsAssumption
<1>2. \A i \in DOMAIN decl.params : decl.params[i].name # ""
    BY MethodsAssumption
<1>3. \A p \in ToSet(decl.params) : p.name # ""
    BY <1>2 DEF ToSet
<1>4. CASE decl.variant = ""
    BY <1>3, <1>4 DEF Params
<1>5. CASE decl.variant # ""
  <2> DEFINE v == decl.variant
             p == [name |-> v, role |-> "pool", type |-> "one"]
             s == <<p>>
             q == decl.params
  <2>1. v # "" /\ v \in Word
      BY <1>5, MethodsAssumption
  <2>2. p \in Parameter /\ p.name # ""
      BY <2>1 DEF Parameter
  <2>3. Params = s \o q
      BY <1>5 DEF Params
  <2> HIDE DEF v, p
  <2>4. s \in Seq(Parameter) /\ ToSet(s) = {p}
      BY <2>2, Single
  <2>5. q \in Seq(Parameter) /\ \A x \in ToSet(q) : x.name # ""
      BY <1>1, <1>3
  <2> HIDE DEF s, q
  <2> DEFINE S == Parameter
  <2>6. s \in Seq(S) /\ q \in Seq(S)
      BY <2>4, <2>5
  <2> HIDE DEF S
  <2>7. ToSet(s \o q) = ToSet(s) \cup ToSet(q)
      BY <2>6, SetsBeside
  <2> QED BY <2>2, <2>3, <2>4, <2>5, <2>7
<1> QED BY <1>4, <1>5

\* What a parameter is bound at has its name.
LEMMA IndexNames ==
    ASSUME decl \in Methods, NEW name, Index(name) # 0
    PROVE  Index(name) \in DOMAIN Args /\ Args[Index(name)].name = name /\ name # "" /\ Args # <<>>
<1> DEFINE I == {i \in 1..Len(Args) : Args[i].name = name}
           n == Len(Args)
<1>1. Index(name) = IF I # {} THEN Min(I) ELSE 0
    BY DEF Index, SelectInSeq
<1>2. Args \in Seq(ToSet(Params)) /\ n \in Nat
    BY ArgsType
<1>3. Proper(Args, ToSet(Params))
    BY <1>2, ProperIs
<1>4. Index(name) \in I
  <2>1. n \in Nat /\ I \in SUBSET (1..n)
      BY <1>2
  <2> HIDE DEF I, n
  <2>2. I # {} => Min(I) \in I
      BY <2>1, FirstPlace
  <2> QED BY <1>1, <2>2
<1>5. Index(name) \in 1..n /\ Args[Index(name)].name = name
    BY <1>4
<1>6. Args[Index(name)] \in ToSet(Params) /\ Index(name) \in DOMAIN Args
    BY <1>3, <1>5 DEF Proper
<1>7. name # ""
    BY <1>5, <1>6, NamesWritten
<1>8. Args # <<>>
    BY <1>6
<1> QED BY <1>5, <1>6, <1>7, <1>8

\* What Positional makes of a placeholder
LEMMA PositionalIs ==
    ASSUME NEW tok \in Token
    PROVE  /\ Positional(tok).t = tok.t /\ Positional(tok).v = tok.v
           /\ Positional(tok).by = "?" <=> Unnumbered(tok)
           /\ Known(tok) /\ tok.by # "" /\ ~Unnumbered(tok) => Positional(tok).by = "$" /\ Positional(tok).k = Index(tok.v)
           /\ Positional(tok) = Or <=> tok = Or
<1> DEFINE n == Index(tok.v)
           numbered == [tok EXCEPT !.by = "$", !.k = n]
           asked == [tok EXCEPT !.by = "?"]
<1>1. Positional(tok) = IF tok.by # "@" THEN tok ELSE IF Numbered THEN numbered ELSE asked
    BY DEF Positional
<1>2. tok = [t |-> tok.t, v |-> tok.v, by |-> tok.by, k |-> tok.k] /\ tok.by \in {"", "@", "?", "$"}
    BY DEF Token
<1> HIDE DEF n
<1>3. numbered.by = "$" /\ numbered.k = n
    BY <1>2
<1>4. asked.by = "?"
    BY <1>2
<1>5. Or.by = ""
    BY DEF Or, Tok
<1> HIDE DEF numbered, asked
<1>6. Positional(tok).by = "?" <=> Unnumbered(tok)
    BY <1>1, <1>3, <1>4 DEF Unnumbered
<1>7. Known(tok) /\ tok.by # "" /\ ~Unnumbered(tok) => Positional(tok).by = "$" /\ Positional(tok).k = n
    BY <1>1, <1>2, <1>3 DEF Unnumbered, Known, n
<1>8. Positional(tok) = Or <=> tok = Or
  <2>1. CASE tok.by # "@"
      BY <1>1, <2>1
  <2>2. CASE tok.by = "@"
    <3>1. Positional(tok).by # ""
        BY <1>1, <1>3, <1>4, <2>2
    <3> QED BY <1>5, <2>2, <3>1
  <2> QED BY <2>1, <2>2
<1> QED BY <1>6, <1>7, <1>8, TokenKept DEF n

LEMMA AskingIs ==
    ASSUME NEW text \in Seq(Token)
    PROVE  /\ DOMAIN Asking(text) = DOMAIN text /\ DOMAIN OutText(text) = DOMAIN text
           /\ \A i \in DOMAIN text : /\ text[i] \in Token
                                     /\ OutText(text)[i] = Positional(text[i])
                                     /\ Asking(text)[i].by = "?" <=> Unnumbered(text[i])
<1> DEFINE A(i) == IF Unnumbered(text[i]) THEN [text[i] EXCEPT !.by = "?"] ELSE text[i]
<1>1. \A i \in DOMAIN text : text[i] \in Token
    OBVIOUS
<1>2. DOMAIN OutText(text) = DOMAIN text /\ \A i \in DOMAIN text : OutText(text)[i] = Positional(text[i])
    BY DEF OutText
<1>3. Asking(text) = [i \in DOMAIN text |-> A(i)]
    BY DEF Asking
<1>4. \A i \in DOMAIN text : A(i).by = "?" <=> Unnumbered(text[i])
  <2> TAKE i \in DOMAIN text
  <2> DEFINE tok == text[i]
  <2>1. tok = [t |-> tok.t, v |-> tok.v, by |-> tok.by, k |-> tok.k]
      BY <1>1 DEF Token
  <2> HIDE DEF tok
  <2>2. [tok EXCEPT !.by = "?"].by = "?"
      BY <2>1
  <2>3. tok.by = "?" => Unnumbered(tok)
      BY DEF Unnumbered
  <2> QED BY <2>2, <2>3 DEF tok
<1> HIDE DEF A
<1> QED BY <1>1, <1>2, <1>3, <1>4

\* A text that grows asks at the same places.
LEMMA AskedSame ==
    ASSUME NEW text \in Seq(Token), NEW own \in Seq(Token), Longer(text, own)
    PROVE  /\ Asked(OutText(text)) = Asked(Asking(own))
           /\ \A i \in Asked(OutText(text)) : i \in DOMAIN text /\ text[i] = own[i]
<1>1. PICK rest \in Seq(Token) : text = own \o rest /\ AllFixed(rest)
    BY DEF Longer
<1> DEFINE m == Len(own)
           n == Len(rest)
<1>2. Beside(own, rest, text, Token)
    BY <1>1, BesideIs
<1>3. /\ m \in Nat /\ n \in Nat /\ DOMAIN own = 1..m /\ DOMAIN rest = 1..n
      /\ \A k \in 1..n : rest[k] \in ToSet(rest)
  <2>1. Proper(own, Token) /\ Proper(rest, Token)
      BY ProperIs
  <2> QED BY <2>1 DEF Proper
<1>4. DOMAIN text = 1..(m + n) /\ (\A k \in 1..m : text[k] = own[k]) /\ \A k \in 1..n : text[m + k] = rest[k]
  <2>1. Proper(text, Token)
      BY ProperIs
  <2> QED BY <1>2, <2>1 DEF Beside, Proper
<1> HIDE DEF m, n
<1>5. \A i \in DOMAIN text : Unnumbered(text[i]) => i \in 1..m
  <2> TAKE i \in DOMAIN text
  <2> HAVE Unnumbered(text[i])
  <2>1. CASE i \notin 1..m
    <3>1. i - m \in 1..n /\ m + (i - m) = i
        BY <1>3, <1>4, <2>1
    <3>2. text[i] = rest[i - m] /\ rest[i - m] \in ToSet(rest)
        BY <1>3, <1>4, <3>1
    <3> QED BY <1>1, <3>2 DEF AllFixed, Fixed
  <2> QED BY <2>1
<1>6. \A i \in 1..m : i \in DOMAIN text /\ i \in DOMAIN own
    BY <1>3, <1>4
<1>7. \A i : i \in Asked(OutText(text)) <=> i \in DOMAIN text /\ Unnumbered(text[i])
  <2> DEFINE out == OutText(text)
  <2>1. DOMAIN out = DOMAIN text /\ \A i \in DOMAIN text : text[i] \in Token /\ out[i] = Positional(text[i])
      BY AskingIs
  <2>2. \A i \in DOMAIN text : Positional(text[i]).by = "?" <=> Unnumbered(text[i])
      BY <2>1, PositionalIs
  <2> HIDE DEF out
  <2>3. \A i \in DOMAIN text : out[i].by = "?" <=> Unnumbered(text[i])
      BY <2>1, <2>2
  <2>4. \A i : i \in Asked(out) <=> i \in DOMAIN text /\ Unnumbered(text[i])
      BY <2>1, <2>3 DEF Asked
  <2> QED BY <2>4 DEF out
<1>8. \A i : i \in Asked(Asking(own)) <=> i \in DOMAIN own /\ Unnumbered(own[i])
    BY AskingIs DEF Asked
<1>9. \A i : i \in Asked(OutText(text)) <=> i \in Asked(Asking(own))
    BY <1>3, <1>4, <1>5, <1>6, <1>7, <1>8
<1>10. \A i \in Asked(OutText(text)) : i \in DOMAIN text /\ text[i] = own[i]
    BY <1>4, <1>5, <1>7
<1> QED BY <1>9, <1>10

ArgumentAt(k) == IF k \in DOMAIN Args THEN Args[k].name ELSE ""

LEMMA BoundToIs ==
    ASSUME NEW cl, NEW c, NEW i
    PROVE  /\ cl[c][i].by = "?" => BoundTo(cl, c, i) = ArgumentAt(Cardinality(AskedBefore(cl, c, i)) + 1)
           /\ cl[c][i].by = "$" => BoundTo(cl, c, i) = ArgumentAt(cl[c][i].k)
<1>1. cl[c][i].by = "?" => BoundTo(cl, c, i) = ArgumentAt(Cardinality(AskedBefore(cl, c, i)) + 1)
    BY DEF BoundTo, ArgumentAt
<1>2. cl[c][i].by = "$" => BoundTo(cl, c, i) = ArgumentAt(cl[c][i].k)
    BY DEF BoundTo, ArgumentAt
<1> QED BY <1>1, <1>2

\* A comparison that is sent is with the argument of its parameter.
Answered(cl, c, i) == cl[c][i].v # "" /\ BoundTo(cl, c, i) = cl[c][i].v

LEMMA PlacesStay ==
    ASSUME decl \in Methods, InOrder, NEW cl \in [ToSet(Clause) -> Seq(Token)], Merged(cl)
    PROVE  \A c \in ToSet(Clause) : \A i \in DOMAIN cl[c] :
              cl[c][i].t = "eq" => Answered(Numbering(cl), c, i)
<1> DEFINE C == Seq(Token)
           D == ToSet(Clause)
           W == AllWritten
           out == Numbering(cl)
<1>1. /\ \A c \in D : cl[c] \in C /\ W[c] \in C /\ W[c] = Written(decl.clauses[c]) /\ Longer(cl[c], W[c])
      /\ DOMAIN cl = D
    BY AllWrittenType, MergedLonger
<1>2. ASSUME NEW c \in D, NEW i \in DOMAIN cl[c] PROVE cl[c][i] \in Token /\ Known(cl[c][i])
  <2> DEFINE x == cl[c]
             w == W[c]
  <2>1. x \in C /\ w \in C /\ Longer(x, w)
      BY <1>1
  <2>2. \A tok \in ToSet(w) : Known(tok)
      BY KnownTexts
  <2>3. Proper(x, Token)
      BY <2>1, ProperIs
  <2>4. i \in 1..Len(x)
      BY <2>3 DEF Proper
  <2>5. x[i] \in Token /\ x[i] \in ToSet(x)
      BY <2>3, <2>4 DEF Proper
  <2> HIDE DEF x, w
  <2>6. PICK rest \in C : x = w \o rest /\ AllFixed(rest)
      BY <2>1 DEF Longer
  <2>7. ToSet(w \o rest) = ToSet(w) \cup ToSet(rest)
      BY <2>1, <2>6, TextsBeside
  <2>8. Known(x[i])
      BY <2>2, <2>5, <2>6, <2>7 DEF AllFixed, Fixed
  <2> QED BY <2>5, <2>8 DEF x
<1>3. ASSUME NEW tok \in Token, Known(tok), tok.t = "eq"
      PROVE  /\ tok.by # "" /\ Index(tok.v) \in DOMAIN Args /\ Args[Index(tok.v)].name = tok.v /\ tok.v # ""
             /\ Args # <<>>
  <2>1. tok.by # ""
      BY <1>3 DEF Token
  <2>2. Index(tok.v) # 0
      BY <1>3, <2>1 DEF Known
  <2> QED BY <2>1, <2>2, IndexNames
<1> HIDE DEF W
<1> SUFFICES ASSUME NEW c \in D, NEW i \in DOMAIN cl[c], cl[c][i].t = "eq"
             PROVE  Answered(out, c, i)
    OBVIOUS
<1> DEFINE tok == cl[c][i]
<1>4. tok \in Token /\ Known(tok) /\ tok.t = "eq"
    BY <1>2
<1>5. /\ tok.by # "" /\ Index(tok.v) \in DOMAIN Args /\ Args[Index(tok.v)].name = tok.v /\ tok.v # ""
      /\ Args # <<>>
  <2> HIDE DEF tok
  <2> QED BY <1>3, <1>4
<1>6. out = [d \in D |-> OutText(cl[d])]
    BY <1>1, <1>5 DEF Numbering
<1>7. \A d \in D : out[d] = OutText(cl[d])
    BY <1>6
<1> HIDE DEF out
<1>8. out[c][i] = Positional(tok)
  <2>1. cl[c] \in Seq(Token)
      BY <1>1
  <2>2. OutText(cl[c])[i] = Positional(cl[c][i])
      BY <2>1, AskingIs
  <2> QED BY <1>7, <2>2
<1>9. out[c][i].v = tok.v
    BY <1>4, <1>8, PositionalIs
<1>10. CASE Unnumbered(tok)
  <2>1. \A d \in D : Asked(out[d]) = Asked(OwnAsking[d]) /\ \A j \in Asked(out[d]) : cl[d][j] = W[d][j]
    <3> TAKE d \in D
    <3>1. cl[d] \in Seq(Token) /\ W[d] \in Seq(Token) /\ Longer(cl[d], W[d])
        BY <1>1
    <3>2. Asked(OutText(cl[d])) = Asked(Asking(W[d])) /\ \A j \in Asked(OutText(cl[d])) : cl[d][j] = W[d][j]
        BY <3>1, AskedSame
    <3>3. OwnAsking[d] = Asking(W[d])
        BY <1>1 DEF OwnAsking
    <3> QED BY <1>7, <3>2, <3>3
  <2>2. AskedBefore(out, c, i) = AskedBefore(OwnAsking, c, i)
      BY <2>1 DEF AskedBefore
  <2>3. out[c][i].by = "?"
      BY <1>4, <1>8, <1>10, PositionalIs
  <2>4. i \in Asked(out[c])
    <3>1. cl[c] \in Seq(Token)
        BY <1>1
    <3>2. DOMAIN OutText(cl[c]) = DOMAIN cl[c]
        BY <3>1, AskingIs
    <3> QED BY <1>7, <2>3, <3>2 DEF Asked
  <2>5. i \in Asked(OwnAsking[c]) /\ tok = W[c][i]
      BY <2>1, <2>4
  <2>6. OwnAsking[c][i].by = "?"
      BY <2>5 DEF Asked
  <2>7. BoundTo(OwnAsking, c, i) = W[c][i].v
      BY <1>1, <2>5 DEF InOrder
  <2>8. BoundTo(out, c, i) = BoundTo(OwnAsking, c, i)
      BY <2>2, <2>3, <2>6, BoundToIs
  <2> QED BY <1>5, <1>9, <2>5, <2>7, <2>8 DEF Answered
<1>11. CASE ~Unnumbered(tok)
  <2>1. out[c][i].by = "$" /\ out[c][i].k = Index(tok.v)
      BY <1>4, <1>5, <1>8, <1>11, PositionalIs
  <2>2. BoundTo(out, c, i) = ArgumentAt(Index(tok.v))
      BY <2>1, BoundToIs
  <2> QED BY <1>5, <1>9, <2>2 DEF Answered, ArgumentAt
<1> QED BY <1>10, <1>11

-----------------------------------------------------------------------------
(* What a condition means.                                                  *)

Met(tok, row) ==
    \/ tok.t = "is" /\ row[tok.v]
    \/ tok.t = "eq" /\ row[tok.v] = Given(tok.v)

Satisfied(text, row) == Truth(text, {i \in DOMAIN text : Met(text[i], row)})

AllMet(text, row) == \A tok \in ToSet(text) : tok.t \in {"is", "eq"} => Met(tok, row)

\* Without an OR every condition has to hold.
LEMMA AllHave ==
    ASSUME NEW text \in Seq(Token), Or \notin ToSet(text), NEW row
    PROVE  Satisfied(text, row) <=> AllMet(text, row)
<1> DEFINE n == Len(text)
           H == {i \in DOMAIN text : Met(text[i], row)}
<1>1. /\ n \in Nat /\ DOMAIN text = 1..n
      /\ \A k \in 1..n : text[k] \in ToSet(text)
      /\ \A tok \in ToSet(text) : \E k \in 1..n : tok = text[k]
    BY ProperIs DEF Proper
<1>2. text = <<>> <=> n = 0
    OBVIOUS
<1>3. \A k \in 1..n : text[k] # Or
    BY <1>1
<1>4. \A k \in 1..n : k \in H <=> Met(text[k], row)
    BY <1>1
<1>5. AllMet(text, row) <=> \A k \in 1..n : text[k].t \in {"is", "eq"} => k \in H
    BY <1>1, <1>4 DEF AllMet
<1> HIDE DEF n, H
<1>6. ASSUME Truth(text, H), n # 0, NEW k \in 1..n, text[k].t \in {"is", "eq"} PROVE k \in H
  <2>1. PICK i \in 1..n, j \in 1..n :
            /\ i <= j
            /\ i = 1 \/ text[i - 1] = Or
            /\ j = n \/ text[j + 1] = Or
            /\ \A l \in i..j : text[l] # Or /\ (text[l].t \in {"is", "eq"} => l \in H)
      BY <1>2, <1>6 DEF Truth, n
  <2>2. i = 1
    <3>1. i # 1 => i - 1 \in 1..n
        BY <1>1
    <3> QED BY <1>3, <2>1, <3>1
  <2>3. j = n
    <3>1. j # n => j + 1 \in 1..n
        BY <1>1
    <3> QED BY <1>3, <2>1, <3>1
  <2> QED BY <1>6, <2>1, <2>2, <2>3
<1>7. ASSUME \A k \in 1..n : text[k].t \in {"is", "eq"} => k \in H PROVE Truth(text, H)
  <2>1. CASE n = 0
      BY <1>2, <2>1 DEF Truth
  <2>2. CASE n # 0
    <3>1. 1 \in 1..n /\ n \in 1..n /\ 1 <= n
        BY <1>1, <2>2
    <3>2. \A l \in 1..n : text[l] # Or /\ (text[l].t \in {"is", "eq"} => l \in H)
        BY <1>3, <1>7
    <3> QED BY <3>1, <3>2 DEF Truth, n
  <2> QED BY <2>1, <2>2
<1>8. ASSUME Truth(text, H) PROVE \A k \in 1..n : text[k].t \in {"is", "eq"} => k \in H
  <2>1. CASE n = 0
      BY <1>1, <2>1
  <2>2. CASE n # 0
      BY <1>6, <1>8, <2>2
  <2> QED BY <2>1, <2>2
<1>9. Truth(text, H) <=> AllMet(text, row)
    BY <1>5, <1>7, <1>8
<1> QED BY <1>9 DEF Satisfied, H

\* One part of a condition between ORs that holds
Disjunct(text, H, i, j) ==
    /\ i <= j
    /\ i = 1 \/ text[i - 1] = Or
    /\ j = Len(text) \/ text[j + 1] = Or
    /\ \A k \in i..j : text[k] # Or /\ (text[k].t \in {"is", "eq"} => k \in H)

LEMMA TruthIs ==
    ASSUME NEW text, NEW H
    PROVE  Truth(text, H) <=> text = <<>> \/ \E i \in 1..Len(text), j \in 1..Len(text) : Disjunct(text, H, i, j)
BY DEF Truth, Disjunct

\* Numbering parameters does not change what a condition says of them.
LEMMA TruthKept ==
    ASSUME NEW text \in Seq(Token), NEW H
    PROVE  Truth(OutText(text), H) <=> Truth(text, H)
<1> DEFINE n == Len(text)
           out == OutText(text)
<1>1. n \in Nat /\ DOMAIN text = 1..n /\ \A k \in 1..n : text[k] \in Token
    BY ProperIs DEF Proper
<1>2. out = [k \in 1..n |-> Positional(text[k])]
    BY <1>1 DEF OutText
<1>3. \A k \in 1..n : out[k] = Positional(text[k])
    BY <1>2
<1>4. Len(out) = n
    BY <1>1, <1>2
<1>5. out = <<>> <=> text = <<>>
  <2>1. text = <<>> <=> n = 0
      OBVIOUS
  <2>2. DOMAIN out = 1..n
      BY <1>2
  <2>3. out = <<>> => n = 0
    <3> HIDE DEF n
    <3> QED BY <1>4
  <2>4. n = 0 => out = <<>>
    <3> HIDE DEF n
    <3> QED BY <1>2
  <2> QED BY <2>1, <2>3, <2>4
<1>6. \A k \in 1..n : out[k].t = text[k].t /\ (out[k] = Or <=> text[k] = Or)
    BY <1>1, <1>3, PositionalIs
<1> HIDE DEF n, out
<1>7. ASSUME NEW i \in 1..n, NEW j \in 1..n PROVE Disjunct(out, H, i, j) <=> Disjunct(text, H, i, j)
  <2>1. i # 1 => i - 1 \in 1..n
      BY <1>1
  <2>2. j # n => j + 1 \in 1..n
      BY <1>1
  <2>3. \A k \in i..j : k \in 1..n
      BY <1>1
  <2>4. i = 1 \/ out[i - 1] = Or <=> i = 1 \/ text[i - 1] = Or
      BY <1>6, <2>1
  <2>5. j = n \/ out[j + 1] = Or <=> j = n \/ text[j + 1] = Or
      BY <1>6, <2>2
  <2>6. \A k \in i..j : out[k].t = text[k].t /\ (out[k] = Or <=> text[k] = Or)
      BY <1>6, <2>3
  <2> QED BY <1>4, <2>4, <2>5, <2>6 DEF Disjunct, n
<1>8. (\E i \in 1..n, j \in 1..n : Disjunct(out, H, i, j)) <=> \E i \in 1..n, j \in 1..n : Disjunct(text, H, i, j)
    BY <1>7
<1> QED BY <1>4, <1>5, <1>8, TruthIs DEF out, n

LEMMA MeantIs ==
    ASSUME NEW text, NEW row
    PROVE  Meant(text, row) <=> Satisfied(Written(text), row)
BY DEF Meant, Satisfied, Met

\* A condition as the database has it, each argument at its place
LEMMA ExecutedIs ==
    ASSUME NEW text \in Seq(Token), NEW c, NEW row, sql[c] = text \/ sql[c] = OutText(text),
           \A i \in DOMAIN text : text[i].t = "eq" => Answered(sql, c, i)
    PROVE  Executed(c, row) <=> Satisfied(text, row)
<1> DEFINE out == sql[c]
           At(i) == \/ out[i].t = "is" /\ row[out[i].v]
                    \/ out[i].t = "eq" /\ BoundTo(sql, c, i) # "" /\ row[out[i].v] = Given(BoundTo(sql, c, i))
           E == {i \in DOMAIN out : At(i)}
           H == {i \in DOMAIN text : Met(text[i], row)}
<1>1. Executed(c, row) <=> Truth(out, E)
    BY DEF Executed
<1>2. /\ DOMAIN OutText(text) = DOMAIN text
      /\ \A i \in DOMAIN text : text[i] \in Token /\ OutText(text)[i] = Positional(text[i])
    BY AskingIs
<1>3. DOMAIN out = DOMAIN text /\ \A i \in DOMAIN text : out[i] = text[i] \/ out[i] = Positional(text[i])
    BY <1>2
<1>4. \A i \in DOMAIN text : out[i].t = text[i].t /\ out[i].v = text[i].v
    BY <1>2, <1>3, PositionalIs
<1>5. \A i \in DOMAIN text : text[i].t = "eq" => out[i].v # "" /\ BoundTo(sql, c, i) = out[i].v
    BY DEF Answered
<1>6. Truth(out, H) <=> Truth(text, H)
    BY TruthKept
<1> HIDE DEF out
<1>7. \A i \in DOMAIN text : At(i) <=> Met(text[i], row)
  <2> TAKE i \in DOMAIN text
  <2> DEFINE v == text[i].v
             p == BoundTo(sql, c, i)
  <2>1. out[i].v = v /\ out[i].t = text[i].t
      BY <1>4
  <2>2. CASE text[i].t = "eq"
    <3>1. p = v /\ v # ""
        BY <1>5, <2>1, <2>2
    <3> HIDE DEF p
    <3>2. At(i) <=> row[v] = Given(v)
        BY <2>1, <2>2, <3>1 DEF p
    <3> QED BY <2>2, <3>2 DEF Met
  <2>3. CASE text[i].t # "eq"
      BY <2>1, <2>3 DEF Met
  <2> QED BY <2>2, <2>3
<1> HIDE DEF At
<1>8. E = H
    BY <1>3, <1>7
<1> HIDE DEF E
<1> QED BY <1>1, <1>6, <1>8 DEF Satisfied, H

LEMMA ClauseMeant ==
    ASSUME decl \in Methods, NEW cl, Merged(cl), NEW c \in {"where", "having"}, NEW row,
           \A s \in Applied(c) : OrFree(s.text) /\ OrFree(decl.clauses[s.target])
    PROVE  Satisfied(cl[c], row) <=>
               /\ Satisfied(AllWritten[c], row)
               /\ \A s \in Applied(c) : Satisfied(Written(s.text), row)
<1> DEFINE W == AllWritten
           C == Seq(Token)
           e == W[c]
<1>1. W \in [ToSet(Clause) -> C] /\ e \in C /\ e = Written(decl.clauses[c])
    BY AllWrittenType, ClauseNames
<1>2. \A s \in Applied(c) : Written(s.text) \in C
  <2> TAKE s \in Applied(c)
  <2>1. s \in decl.scopes
      BY DEF Applied, Active
  <2>2. s.text \in Seq(Token)
      BY <2>1, DeclaredNames DEF ScopeDeclarable, Declarable
  <2> QED BY <2>2, WrittenType
<1>3. ASSUME Applied(c) = {}, cl[c] = e
      PROVE  Satisfied(cl[c], row) <=>
               /\ Satisfied(e, row)
               /\ \A s \in Applied(c) : Satisfied(Written(s.text), row)
    BY <1>3
<1>4. ASSUME ActiveWritten = {}, cl = W PROVE Applied(c) = {} /\ cl[c] = e
    BY <1>4 DEF ActiveWritten, ActiveDeclared, Applied
<1>5. ASSUME \A u \in ActiveWritten : u.text # <<>>, NEW list \in SetToSeqs(ActiveWritten), cl = Scoped(W, list)
      PROVE  Satisfied(cl[c], row) <=>
               /\ Satisfied(e, row)
               /\ \A s \in Applied(c) : Satisfied(Written(s.text), row)
  <2> DEFINE conds == Texts(list, c)
             out == cl[c]
             S == Applied(c)
  <2>1. Enumerates(list, ActiveWritten)
      BY ActiveIs, OrderIs
  <2>2. TextsAre(conds, c)
      BY <1>5, <2>1, EveryText
  <2>3. out = Combined(e, conds)
    <3>1. cl.where = Combined(W.where, Texts(list, "where")) /\ cl.having = Combined(W.having, Texts(list, "having"))
        BY <1>1, <1>5, ScopedIs
    <3> QED BY <3>1
  <2> HIDE DEF W, e, conds, out, S
  <2>4. /\ conds \in Seq(C)
        /\ \A i \in 1..Len(conds) : \E s \in S : conds[i] = Written(s.text)
        /\ \A s \in S : \E i \in 1..Len(conds) : conds[i] = Written(s.text)
      BY <2>2 DEF TextsAre, S
  <2>5. PICK rest \in Seq(Token) : Addition(out, e, conds, rest)
      BY <1>1, <2>3, <2>4, CombinedIs
  <2>6. out = e \o rest /\ (conds = <<>> => rest = <<>>) /\ \A tok : tok # And => (tok \in ToSet(rest) <=> Within(tok, conds))
      BY <2>5 DEF Addition
  <2>7. CASE S = {}
    <3>1. conds = <<>>
      <4>1. ASSUME Len(conds) # 0 PROVE FALSE
        <5>1. 1 \in 1..Len(conds)
          <6> HIDE DEF C
          <6> QED BY <2>4, <4>1
        <5> QED BY <2>4, <2>7, <5>1
      <4> HIDE DEF C
      <4> QED BY <2>4, <4>1
    <3>2. out = e
      <4>1. e \o <<>> = e
          BY <1>1, TextsBeside
      <4> QED BY <2>6, <3>1, <4>1
    <3> QED BY <1>3, <2>7, <3>2 DEF S, out
  <2>8. CASE S # {}
    <3>1. Or \notin ToSet(e)
      <4>1. PICK s \in S : TRUE
          BY <2>8
      <4>2. s.target = c
          BY DEF S, Applied
      <4>3. OrFree(decl.clauses[c])
          BY <4>2 DEF S
      <4> QED BY <1>1, <4>3 DEF OrFree
    <3>2. \A s \in S : Or \notin ToSet(Written(s.text))
        BY DEF S, OrFree
    <3>3. Or # And /\ And.t \notin {"is", "eq"}
        BY DEF Or, And, Tok
    <3>4. out \in C /\ ToSet(out) = ToSet(e) \cup ToSet(rest)
        BY <1>1, <2>6, TextsBeside
    <3>5. \A tok : Within(tok, conds) <=> \E s \in S : tok \in ToSet(Written(s.text))
        BY <2>4 DEF Within
    <3>6. \A tok : tok # And => (tok \in ToSet(rest) <=> \E s \in S : tok \in ToSet(Written(s.text)))
        BY <2>6, <3>5
    <3>7. Or \notin ToSet(out)
        BY <3>1, <3>2, <3>3, <3>4, <3>6
    <3>8. AllMet(out, row) <=> AllMet(e, row) /\ \A s \in S : AllMet(Written(s.text), row)
      <4>1. ASSUME AllMet(out, row), NEW s \in S PROVE AllMet(Written(s.text), row)
          BY <3>3, <3>4, <3>6, <4>1 DEF AllMet
      <4>2. ASSUME AllMet(out, row) PROVE AllMet(e, row)
          BY <3>4, <4>2 DEF AllMet
      <4>3. ASSUME AllMet(e, row), \A s \in S : AllMet(Written(s.text), row) PROVE AllMet(out, row)
          BY <3>3, <3>4, <3>6, <4>3 DEF AllMet
      <4> QED BY <4>1, <4>2, <4>3
    <3>9. Satisfied(out, row) <=> AllMet(out, row)
        BY <3>4, <3>7, AllHave
    <3>10. Satisfied(e, row) <=> AllMet(e, row)
        BY <1>1, <3>1, AllHave
    <3>11. ASSUME NEW s \in S PROVE Satisfied(Written(s.text), row) <=> AllMet(Written(s.text), row)
      <4> DEFINE w == Written(s.text)
      <4>1. w \in Seq(Token) /\ Or \notin ToSet(w)
          BY <1>2, <3>2 DEF S
      <4> HIDE DEF w
      <4>2. Satisfied(w, row) <=> AllMet(w, row)
          BY <4>1, AllHave
      <4> QED BY <4>2 DEF w
    <3> QED BY <3>8, <3>9, <3>10, <3>11 DEF S, out
  <2> QED BY <2>7, <2>8
<1> QED BY <1>3, <1>4, <1>5 DEF Merged

-----------------------------------------------------------------------------

LEMMA RowsIs ==
    ASSUME TextInv, MergeInv
    PROVE  RowsAsMeant
<1> SUFFICES ASSUME Selecting, NoEntryInside, InOrder,
                    \A s \in Applied("where") \cup Applied("having") : OrFree(s.text) /\ OrFree(decl.clauses[s.target]),
                    NEW row \in Row
             PROVE  RowsExecuted(row) = RowsMeant(row)
    BY DEF RowsAsMeant
<1>1. decl \in Methods /\ pc = "built" /\ kind = "Select"
    BY DEF TextInv, Selecting
<1>2. SqlReadable
    BY <1>1 DEF MergeInv
<1>3. PICK cl \in [ToSet(Clause) -> Seq(Token)] : Merged(cl) /\ sql = Numbering(cl)
    BY <1>1, <1>2 DEF MergeInv, MergedAndNumbered
<1>4. \A c \in ToSet(Clause) : \A i \in DOMAIN cl[c] : cl[c][i].t = "eq" => Answered(sql, c, i)
    BY <1>1, <1>3, PlacesStay
<1>5. \A c \in {"where", "having"} : Executed(c, row) <=> Satisfied(cl[c], row)
  <2> TAKE c \in {"where", "having"}
  <2> DEFINE text == cl[c]
  <2>1. c \in ToSet(Clause) /\ DOMAIN cl = ToSet(Clause) /\ text \in Seq(Token)
      BY <1>3, ClauseNames
  <2>2. sql[c] = text \/ sql[c] = OutText(text)
      BY <1>3, <2>1 DEF Numbering
  <2>3. \A i \in DOMAIN text : text[i].t = "eq" => Answered(sql, c, i)
      BY <1>4, <2>1
  <2> HIDE DEF text
  <2>4. Executed(c, row) <=> Satisfied(text, row)
      BY <2>1, <2>2, <2>3, ExecutedIs
  <2> QED BY <2>4 DEF text
<1>6. \A c \in {"where", "having"} :
          Satisfied(cl[c], row) <=>
               /\ Satisfied(AllWritten[c], row)
               /\ \A s \in Applied(c) : Satisfied(Written(s.text), row)
  <2> TAKE c \in {"where", "having"}
  <2>1. \A s \in Applied(c) : OrFree(s.text) /\ OrFree(decl.clauses[s.target])
      OBVIOUS
  <2> QED BY <1>1, <1>3, <2>1, ClauseMeant
<1>7. \A c \in {"where", "having"} : Satisfied(AllWritten[c], row) <=> Meant(decl.clauses[c], row)
  <2>1. \A c \in {"where", "having"} : AllWritten[c] = Written(decl.clauses[c])
      BY <1>1, AllWrittenType, ClauseNames
  <2> QED BY <2>1, MeantIs
<1>8. \A s : Satisfied(Written(s.text), row) <=> Meant(s.text, row)
    BY MeantIs
<1>9. \A c \in {"where", "having"} :
          Executed(c, row) <=> Meant(decl.clauses[c], row) /\ \A s \in Applied(c) : Meant(s.text, row)
    BY <1>5, <1>6, <1>7, <1>8
<1>10. RowsExecuted(row) <=> RowsMeant(row)
    BY <1>9 DEF RowsExecuted, RowsMeant
<1> QED BY <1>10 DEF RowsExecuted, RowsMeant

\* A method that compiles finds the rows that meet its conditions and those of
\* the scopes merged into them, the arguments the caller passed put where their
\* parameters stand: numbering the parameters after the scopes are merged moves
\* none of them.
THEOREM RowsAreAsMeant == MSpec => []RowsAsMeant
<1>1. MInit => TextInv /\ MergeInv
    BY TextInit, MergeInit
<1>2. TextInv /\ MergeInv /\ [MNext]_mvars => TextInv' /\ MergeInv'
    BY TextSteps, MergeSteps
<1>3. TextInv /\ MergeInv => RowsAsMeant
    BY RowsIs
<1> QED BY <1>1, <1>2, <1>3, PTL DEF MSpec
=============================================================================
