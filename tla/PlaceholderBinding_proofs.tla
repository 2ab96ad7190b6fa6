---------------------- MODULE PlaceholderBinding_proofs ----------------------
(***************************************************************************)
(* Which value each placeholder gets, for every query whose placeholders   *)
(* are Sound, every number of SELECTs and every number of values.          *)
(*                                                                         *)
(* With numbers, the invariant is that the position at which the last pass *)
(* looks for the value of a number holds the value the placeholder stands  *)
(* for (Resolves): after the trimming, because the numbers collected are   *)
(* those that stay in ascending order, and so are the values left          *)
(* (NumbersLeft, ValuesLeft); after each condition, because its numbers    *)
(* continue where the values end (Continues).  With ? alone it is that the *)
(* text that stays begins with the placeholders of the values, in their    *)
(* order (InPlace).                                                        *)
(***************************************************************************)
EXTENDS PlaceholderBinding, FiniteSetTheorems, SequenceTheorems, TLAPS

-----------------------------------------------------------------------------
(* Positions: the members of a finite set of integers, in their order.     *)

Below(P, p) == {q \in P : q <= p}
Nth(P, p) == Cardinality(Below(P, p))

\* A member is the first, the second, and so on up to the last.
LEMMA NthType ==
    ASSUME NEW P \in SUBSET Int, IsFiniteSet(P), NEW p \in P
    PROVE  Nth(P, p) \in 1..Cardinality(P)
<1>1. Below(P, p) \in SUBSET P /\ p \in Below(P, p)
    BY DEF Below
<1>2. /\ IsFiniteSet(Below(P, p)) /\ Cardinality(Below(P, p)) \in Nat /\ Cardinality(P) \in Nat
      /\ Cardinality(Below(P, p)) <= Cardinality(P)
    BY <1>1, FS_Subset, FS_CardinalityType
<1>3. Cardinality(Below(P, p)) # 0
    BY <1>1, <1>2, FS_EmptySet
<1> QED BY <1>2, <1>3 DEF Nth

\* A greater member comes later.
LEMMA NthOrder ==
    ASSUME NEW P \in SUBSET Int, IsFiniteSet(P), NEW p \in P, NEW q \in P, p < q
    PROVE  Nth(P, p) < Nth(P, q)
<1>0. \A x \in P : x <= p => x <= q /\ x # q
    OBVIOUS
<1>a. q <= q
    OBVIOUS
<1>1. Below(P, p) \in SUBSET (Below(P, q) \ {q}) /\ q \in Below(P, q) /\ Below(P, q) \in SUBSET P
    BY <1>0, <1>a, Zenon DEF Below
<1>2. IsFiniteSet(Below(P, q)) /\ Cardinality(Below(P, q)) \in Nat
    BY <1>1, FS_Subset, FS_CardinalityType
<1>3. IsFiniteSet(Below(P, q) \ {q}) /\ Cardinality(Below(P, q) \ {q}) = Cardinality(Below(P, q)) - 1
    BY <1>1, <1>2, FS_RemoveElement
<1>4. Cardinality(Below(P, p)) <= Cardinality(Below(P, q) \ {q}) /\ Cardinality(Below(P, p)) \in Nat
    BY <1>1, <1>3, FS_Subset, FS_CardinalityType
<1> QED BY <1>2, <1>3, <1>4 DEF Nth

\* No two members have one place.
LEMMA NthInjective ==
    ASSUME NEW P \in SUBSET Int, IsFiniteSet(P), NEW p \in P, NEW q \in P, Nth(P, p) = Nth(P, q)
    PROVE  p = q
<1>1. Nth(P, p) \in Int /\ Nth(P, q) \in Int /\ p \in Int /\ q \in Int
    BY NthType, FS_CardinalityType
<1>2. CASE p < q
    BY <1>1, <1>2, NthOrder
<1>3. CASE q < p
    BY <1>1, <1>3, NthOrder
<1> QED BY <1>1, <1>2, <1>3

\* Every place has a member, the one that Place names.
LEMMA PlaceIs ==
    ASSUME NEW P \in SUBSET Int, IsFiniteSet(P), NEW i \in 1..Cardinality(P)
    PROVE  Place(P, i) \in P /\ Nth(P, Place(P, i)) = i
<1> DEFINE n == Cardinality(P)
           f == [p \in P |-> Nth(P, p)]
<1>1. n \in Nat
    BY FS_CardinalityType
<1>2. f \in [P -> 1..n]
    BY NthType
<1>3. \A p, q \in P : f[p] = f[q] => p = q
    BY NthInjective
<1>4. f \in Injection(P, 1..n)
  <2> HIDE DEF f
  <2> QED BY <1>2, <1>3 DEF Injection, IsInjective
<1>5. IsFiniteSet(1..n) /\ Cardinality(1..n) = n
    BY <1>1, FS_Interval
<1>6. f \in Surjection(P, 1..n)
    BY <1>4, <1>5, FS_Injection
<1>7. \E p \in P : Nth(P, p) = i
    BY <1>6 DEF Surjection
<1> QED BY <1>7 DEF Place, Nth, Below

\* Place and Nth are each other's inverse.
LEMMA PlaceOf ==
    ASSUME NEW P \in SUBSET Int, IsFiniteSet(P), NEW p \in P
    PROVE  Place(P, Nth(P, p)) = p
<1>1. Nth(P, p) \in 1..Cardinality(P)
    BY NthType
<1>2. Place(P, Nth(P, p)) \in P /\ Nth(P, Place(P, Nth(P, p))) = Nth(P, p)
    BY <1>1, PlaceIs
<1> QED
  <2> DEFINE q == Place(P, Nth(P, p))
  <2>1. q \in P /\ Nth(P, q) = Nth(P, p)
      BY <1>2
  <2> HIDE DEF q
  <2>2. q = p
      BY <2>1, NthInjective
  <2> QED BY <2>2 DEF q

\* A finite set that is not empty has a least and a greatest member.
LEMMA Bounds ==
    ASSUME NEW P \in SUBSET Int, IsFiniteSet(P), P # {}
    PROVE  /\ \E p \in P : \A q \in P : p <= q
           /\ \E p \in P : \A q \in P : q <= p
<1>1. Cardinality(P) \in Nat \ {0}
    BY FS_CardinalityType, FS_EmptySet
<1>2. \E p \in P : \A q \in P : p <= q
  <2>1. Place(P, 1) \in P /\ Nth(P, Place(P, 1)) = 1
      BY <1>1, PlaceIs
  <2> DEFINE low == Place(P, 1)
  <2> HIDE DEF low
  <2>2. low \in P /\ Nth(P, low) = 1
      BY <2>1 DEF low
  <2>3. ASSUME NEW q \in P, q < low PROVE FALSE
    <3>1. Nth(P, q) < 1
        BY <2>2, <2>3, NthOrder
    <3>2. Nth(P, q) \in 1..Cardinality(P)
        BY NthType
    <3> QED BY <1>1, <3>1, <3>2
  <2> QED BY <2>2, <2>3
<1>3. \E p \in P : \A q \in P : q <= p
  <2> DEFINE top == Place(P, Cardinality(P))
  <2>1. top \in P /\ Nth(P, top) = Cardinality(P)
      BY <1>1, PlaceIs
  <2> HIDE DEF top
  <2>2. ASSUME NEW q \in P, top < q PROVE FALSE
    <3>1. Cardinality(P) < Nth(P, q)
        BY <2>1, <2>2, NthOrder
    <3>2. Nth(P, q) \in 1..Cardinality(P)
        BY NthType
    <3> QED BY <1>1, <3>1, <3>2
  <2> QED BY <2>1, <2>2
<1> QED BY <1>2, <1>3

\* A set that begins at 1 and has no gap
LEMMA Prefix ==
    ASSUME NEW P \in SUBSET (Nat \ {0}), IsFiniteSet(P), \A p \in P : 1..p \subseteq P
    PROVE  /\ P = 1..Cardinality(P)
           /\ \A i \in P : Place(P, i) = i
<1> P \in SUBSET Int /\ \A p \in P : p \in Nat /\ p > 0
    OBVIOUS
<1>1. ASSUME NEW p \in P PROVE Nth(P, p) = p
  <2>1. Below(P, p) = 1..p
    <3>1. \A q \in P : q <= p => q \in 1..p
        OBVIOUS
    <3>2. \A q \in 1..p : q <= p
        OBVIOUS
    <3>3. 1..p \subseteq P
        OBVIOUS
    <3> QED BY <3>1, <3>2, <3>3, Zenon DEF Below
  <2>2. Cardinality(1..p) = p
      BY FS_Interval
  <2> QED BY <2>1, <2>2 DEF Nth
<1>2. ASSUME NEW i \in 1..Cardinality(P) PROVE i \in P
  <2>1. Place(P, i) \in P /\ Nth(P, Place(P, i)) = i
      BY PlaceIs
  <2> QED BY <1>1, <2>1
<1>3. ASSUME NEW p \in P PROVE p \in 1..Cardinality(P)
  <2>1. Nth(P, p) \in 1..Cardinality(P)
      BY NthType
  <2> QED BY <1>1, <2>1
<1>4. P = 1..Cardinality(P)
    BY <1>2, <1>3
<1>5. ASSUME NEW i \in P PROVE Place(P, i) = i
    BY <1>1, PlaceOf
<1> QED BY <1>4, <1>5

\* What stands at the positions P: the members in their order, and no other.
LEMMA AtIs ==
    ASSUME NEW P \in SUBSET Int, IsFiniteSet(P), NEW s
    PROVE  /\ Cardinality(P) \in Nat
           /\ DOMAIN At(s, P) = 1..Cardinality(P)
           /\ \A i \in 1..Cardinality(P) : Place(P, i) \in P /\ At(s, P)[i] = s[Place(P, i)]
           /\ \A p \in P : Nth(P, p) \in 1..Cardinality(P) /\ At(s, P)[Nth(P, p)] = s[p]
<1>1. Cardinality(P) \in Nat
    BY FS_CardinalityType
<1>2. /\ DOMAIN At(s, P) = 1..Cardinality(P)
      /\ \A i \in 1..Cardinality(P) : At(s, P)[i] = s[Place(P, i)]
    BY DEF At
<1>3. \A i \in 1..Cardinality(P) : Place(P, i) \in P
    BY PlaceIs
<1>4. \A p \in P : Nth(P, p) \in 1..Cardinality(P) /\ Place(P, Nth(P, p)) = p
    BY NthType, PlaceOf
<1> QED BY <1>1, <1>2, <1>3, <1>4

\* A part of a sequence is a sequence of the same things.
LEMMA AtSeq ==
    ASSUME NEW P \in SUBSET Int, IsFiniteSet(P), NEW s, NEW T, \A p \in P : s[p] \in T
    PROVE  At(s, P) \in Seq(T) /\ Len(At(s, P)) = Cardinality(P)
<1>1. /\ Cardinality(P) \in Nat
      /\ \A i \in 1..Cardinality(P) : s[Place(P, i)] \in T
    BY AtIs
<1>2. At(s, P) = [i \in 1..Cardinality(P) |-> s[Place(P, i)]]
    BY DEF At
<1> QED BY <1>1, <1>2

\* A sequence with one element replaced by several.
LEMMA PutIs ==
    ASSUME NEW S, NEW s \in Seq(S), NEW i \in 1..Len(s), NEW x \in Seq(S)
    PROVE  /\ Put(s, i, x) \in Seq(S)
           /\ Len(Put(s, i, x)) = Len(s) + Len(x) - 1
           /\ \A j \in 1..Len(s) + Len(x) - 1 :
                Put(s, i, x)[j] = IF j < i THEN s[j]
                                  ELSE IF j < i + Len(x) THEN x[j - i + 1] ELSE s[j - Len(x) + 1]
<1> DEFINE a == SubSeq(s, 1, i - 1)
           b == SubSeq(s, i + 1, Len(s))
<1>1. a \in Seq(S) /\ Len(a) = i - 1 /\ \A j \in 1..i - 1 : a[j] = s[j]
    OBVIOUS
<1>2. b \in Seq(S) /\ Len(b) = Len(s) - i /\ \A j \in 1..Len(s) - i : b[j] = s[j + i]
    OBVIOUS
<1>3. Len(x) \in Nat /\ Len(s) \in Nat
    OBVIOUS
<1>4. Put(s, i, x) = a \o x \o b
    BY DEF Put
<1> HIDE DEF a, b
<1> DEFINE ax == a \o x
<1>5. /\ ax \in Seq(S) /\ Len(ax) = i - 1 + Len(x)
      /\ \A j \in 1..i - 1 + Len(x) : ax[j] = IF j < i THEN s[j] ELSE x[j - i + 1]
  <2> HIDE DEF a
  <2>1. /\ ax \in Seq(S) /\ Len(ax) = Len(a) + Len(x)
        /\ \A j \in 1..Len(a) + Len(x) : ax[j] = IF j <= Len(a) THEN a[j] ELSE x[j - Len(a)]
      BY <1>1, ConcatProperties, Zenon
  <2>2. ASSUME NEW j \in 1..i - 1 + Len(x), j < i PROVE ax[j] = s[j]
    <3>1. j \in 1..i - 1 /\ j <= Len(a)
        BY <1>1, <1>3, <2>2
    <3> QED BY <1>1, <2>1, <3>1
  <2>3. ASSUME NEW j \in 1..i - 1 + Len(x), ~(j < i) PROVE ax[j] = x[j - i + 1]
    <3>1. ~(j <= Len(a)) /\ j - Len(a) = j - i + 1
        BY <1>1, <1>3, <2>3
    <3> QED BY <1>1, <2>1, <3>1
  <2> HIDE DEF ax
  <2> QED BY <1>1, <2>1, <2>2, <2>3
<1> HIDE DEF ax
<1>6. /\ ax \o b \in Seq(S) /\ Len(ax \o b) = Len(s) + Len(x) - 1
      /\ \A j \in 1..Len(s) + Len(x) - 1 :
            (ax \o b)[j] = IF j < i + Len(x) THEN ax[j] ELSE b[j - (i - 1 + Len(x))]
  <2>1. /\ ax \o b \in Seq(S) /\ Len(ax \o b) = Len(ax) + Len(b)
        /\ \A j \in 1..Len(ax) + Len(b) :
              (ax \o b)[j] = IF j <= Len(ax) THEN ax[j] ELSE b[j - Len(ax)]
    <3>1. ax \in Seq(S) /\ b \in Seq(S)
        BY <1>2, <1>5
    <3> QED BY <3>1, ConcatProperties, Zenon
  <2>2. Len(ax) + Len(b) = Len(s) + Len(x) - 1 /\ \A j \in Int : j <= Len(ax) <=> j < i + Len(x)
      BY <1>2, <1>3, <1>5
  <2>3. Len(ax) = i - 1 + Len(x)
      BY <1>5
  <2>4. 1..Len(s) + Len(x) - 1 \subseteq Int
      BY <1>3
  <2> QED BY <2>1, <2>2, <2>3, <2>4
<1>7. ASSUME NEW j \in 1..Len(s) + Len(x) - 1, ~(j < i + Len(x))
      PROVE  b[j - (i - 1 + Len(x))] = s[j - Len(x) + 1]
  <2>1. j - (i - 1 + Len(x)) \in 1..Len(s) - i /\ (j - (i - 1 + Len(x))) + i = j - Len(x) + 1
      BY <1>3, <1>7
  <2> QED BY <1>2, <2>1
<1>8. ASSUME NEW j \in 1..Len(s) + Len(x) - 1, j < i + Len(x)
      PROVE  ax[j] = IF j < i THEN s[j] ELSE x[j - i + 1]
  <2>1. j \in 1..i - 1 + Len(x)
      BY <1>3, <1>8
  <2> QED BY <1>5, <2>1
<1>9. Put(s, i, x) = ax \o b
    BY <1>4 DEF ax
<1>10. ASSUME NEW j \in 1..Len(s) + Len(x) - 1
       PROVE  (ax \o b)[j] = IF j < i THEN s[j]
                             ELSE IF j < i + Len(x) THEN x[j - i + 1] ELSE s[j - Len(x) + 1]
  <2>1. j < i => j < i + Len(x)
      BY <1>3
  <2> QED BY <1>6, <1>7, <1>8, <2>1, Zenon
<1> QED BY <1>6, <1>9, <1>10, Zenon

-----------------------------------------------------------------------------
(* Texts and values have their types.                                      *)

Value == [from : {"method", "request", "nowhere"}, n : Int]

\* What the placeholders stand for are values.
LEMMA ValuesAre ==
    /\ \A n \in Int : Arg(n) \in Value /\ Dyn(n) \in Value
    /\ NoValue \in Value
BY DEF Value, Arg, Dyn, NoValue

\* A token is a placeholder or a place for conditions.
LEMMA TokensAre ==
    /\ \A t \in Token : t.at \in {"body", "limit", "where"} /\ (t.at # "where" => t.ph \in Int)
    /\ \A n \in Int : [at |-> "body", ph |-> n] \in Token
    /\ \A t \in Token, n \in Int : t.at # "where" =>
          LET u == [t EXCEPT !.ph = n] IN u \in Token /\ u.at = t.at /\ u.ph = n
BY DEF Token

\* Some positions of a text are finitely many.
LEMMA PositionsFinite ==
    ASSUME NEW S, NEW t \in Seq(S), NEW P \in SUBSET DOMAIN t
    PROVE  /\ P \in SUBSET Int /\ IsFiniteSet(P)
           /\ Cardinality(P) \in Nat /\ Cardinality(P) <= Len(t)
<1>1. DOMAIN t = 1..Len(t) /\ Len(t) \in Nat
    OBVIOUS
<1>2. IsFiniteSet(1..Len(t)) /\ Cardinality(1..Len(t)) = Len(t)
  <2>1. \A n \in Nat : IsFiniteSet(1..n) /\ Cardinality(1..n) = n
      BY FS_Interval
  <2> QED BY <1>1, <2>1
<1>3. P \in SUBSET (1..Len(t)) /\ P \in SUBSET Int
    BY <1>1
<1>4. IsFiniteSet(P) /\ Cardinality(P) <= Cardinality(1..Len(t))
    BY <1>2, <1>3, FS_Subset
<1> QED BY <1>2, <1>3, <1>4, FS_CardinalityType

\* A sequence has finitely many elements.
LEMMA ToSetFinite ==
    ASSUME NEW S, NEW s \in Seq(S)
    PROVE  IsFiniteSet(ToSet(s)) /\ ToSet(s) \subseteq S /\ (s # <<>> => ToSet(s) # {})
<1>1. DOMAIN s = 1..Len(s) /\ Len(s) \in Nat /\ s \in [1..Len(s) -> S] /\ (s # <<>> => 1 \in 1..Len(s))
    OBVIOUS
<1>2. s \in Surjection(1..Len(s), ToSet(s))
    BY <1>1 DEF Surjection, ToSet
<1>3. IsFiniteSet(1..Len(s))
    BY <1>1, FS_Interval
<1> QED BY <1>1, <1>2, <1>3, FS_Surjection DEF ToSet

\* The numbers of a text are finitely many.
LEMMA NumbersFinite ==
    ASSUME NEW t \in Seq(Token), NEW P \in SUBSET DOMAIN t, \A i \in P : t[i].at # "where"
    PROVE  LET N == {t[i].ph : i \in P} IN IsFiniteSet(N) /\ N \in SUBSET Int /\ Cardinality(N) \in Nat
<1> DEFINE N == {t[i].ph : i \in P}
           f == [i \in P |-> t[i].ph]
<1>1. f \in Surjection(P, N)
    BY DEF Surjection
<1>2. IsFiniteSet(P)
    BY PositionsFinite
<1>3. IsFiniteSet(N)
    BY <1>1, <1>2, FS_Surjection
<1>4. \A i \in P : t[i] \in Token /\ t[i].at # "where"
    OBVIOUS
<1>5. N \in SUBSET Int
    BY <1>4, TokensAre
<1> QED BY <1>3, <1>5, FS_CardinalityType

\* Ranks and arities are counts.
LEMMA RankType ==
    ASSUME NEW t \in Seq(Token)
    PROVE  Arity(t) \in Nat /\ \A i : Rank(t, i) \in Nat
<1>1. ASSUME NEW i PROVE Rank(t, i) \in Nat
    BY PositionsFinite DEF Rank
<1> DEFINE P == {j \in DOMAIN t : Numbered(t[j])}
<1>2. P \in SUBSET DOMAIN t /\ \A i \in P : t[i].at # "where"
    BY DEF Numbered
<1> HIDE DEF P
<1>3. Cardinality({t[i].ph : i \in P}) \in Nat
    BY <1>2, NumbersFinite
<1>4. Cardinality(Numbers(t)) \in Nat
    BY <1>3 DEF Numbers, P
<1> QED BY <1>1, <1>4 DEF Arity

\* The meanings of the placeholders of a query are values.
LEMMA MeaningType ==
    ASSUME NEW t \in Seq(Token), NEW i \in DOMAIN t
    PROVE  Meaning(t, i) \in Value
<1>1. t[i] \in Token /\ Rank(t, i) \in Int
    BY RankType
<1> QED BY <1>1, TokensAre, ValuesAre DEF Meaning, Numbered, Question

\* MaxExisting is the greatest of the numbers collected, or 0.
LEMMA GreatestOf ==
    ASSUME NEW o \in Seq(Int), NEW m,
           m = IF o = <<>> THEN 0 ELSE CHOOSE n \in ToSet(o) : \A k \in ToSet(o) : k <= n
    PROVE  /\ m \in Int
           /\ o # <<>> => m \in ToSet(o)
           /\ o = <<>> => m = 0
           /\ \A n \in ToSet(o) : n <= m
<1>1. CASE o = <<>>
  <2>1. ToSet(o) = {}
      BY <1>1 DEF ToSet
  <2> QED BY <1>1, <2>1
<1>2. CASE o # <<>>
  <2>1. IsFiniteSet(ToSet(o)) /\ ToSet(o) \in SUBSET Int /\ ToSet(o) # {}
      BY <1>2, ToSetFinite
  <2>2. \E n \in ToSet(o) : \A k \in ToSet(o) : k <= n
      BY <2>1, Bounds
  <2>3. m \in ToSet(o) /\ \A k \in ToSet(o) : k <= m
      BY <1>2, <2>2
  <2> QED BY <1>2, <2>1, <2>3
<1> QED BY <1>1, <1>2

LEMMA GreatestNumber ==
    ASSUME original \in Seq(Int)
    PROVE  /\ MaxExisting \in Int
           /\ original # <<>> => MaxExisting \in ToSet(original)
           /\ original = <<>> => MaxExisting = 0
           /\ \A n \in ToSet(original) : n <= MaxExisting
BY GreatestOf DEF MaxExisting

\* A u8 is small.
LEMMA U8Type ==
    /\ \A n \in Int : U8(n) \in 0..MaxU8
    /\ \A n \in 0..MaxU8 : U8(n) = n
BY MaxU8Assumption DEF U8

\* What a use of the query may be, beside the type that the runs check
TypeInv ==
    /\ TypeOK
    /\ means \in Seq(Value) /\ binds \in Seq(Value) /\ reordered \in Seq(Value)
    /\ original \in Seq(Int)
    /\ oldToNew \in [DOMAIN oldToNew -> Nat] /\ IsFiniteSet(DOMAIN oldToNew)
    /\ pc \in {"trim", "start", "bind"} => pos = 0
    /\ pc = "number" => \A i \in 1..pos : Numbered(text[i]) => text[i].ph \in DOMAIN oldToNew

\* The parts of TypeInv about texts
LEMMA TextsType ==
    ASSUME TypeInv
    PROVE  /\ base \in Seq(Token) /\ paging \in BOOLEAN /\ count \in Nat
           /\ text \in Seq(Token) /\ Len(means) = Len(text) /\ Len(text) \in Nat
           /\ DOMAIN text = 1..Len(text) /\ DOMAIN means = DOMAIN text
BY ValuesAssumption DEF TypeInv, TypeOK, Use

LEMMA TypeStart ==
    ASSUME Init PROVE TypeInv
<1>1. PICK use \in Uses : base = use.text /\ paging = use.paging /\ dialect = use.dialect
    BY DEF Init
<1>2. use \in Use /\ [text |-> base, paging |-> paging, dialect |-> dialect] \in Use /\ base \in Seq(Token)
    BY <1>1, UsesAssumption DEF Use
<1>3. text = base /\ text \in Seq(Token) /\ DOMAIN base = 1..Len(base) /\ Len(base) \in Nat
    BY <1>2 DEF Init
<1>4. means \in Seq(Value) /\ DOMAIN means = DOMAIN text
  <2>1. means = [i \in 1..Len(base) |-> Meaning(base, i)]
      BY <1>3 DEF Init
  <2>2. \A i \in 1..Len(base) : Meaning(base, i) \in Value
      BY <1>2, <1>3, MeaningType
  <2> QED BY <1>3, <2>1, <2>2
<1>5. binds \in Seq(Value)
  <2>1. binds = [n \in 1..Arity(base) |-> Arg(n)] /\ Arity(base) \in Nat
      BY <1>2, RankType DEF Init
  <2>2. \A n \in 1..Arity(base) : Arg(n) \in Value
      BY <2>1, ValuesAre
  <2> QED BY <2>1, <2>2
<1>6. /\ oldToNew = [n \in {} |-> 0] /\ DOMAIN oldToNew = {}
      /\ original = <<>> /\ reordered = <<>> /\ next = 0 /\ pos = 0 /\ pc = "trim" /\ count \in Values
    BY DEF Init
<1>7. IsFiniteSet({})
    BY FS_EmptySet
<1>8. TypeOK
    BY <1>2, <1>3, <1>4, <1>6, MaxU8Assumption DEF TypeOK
<1> QED BY <1>4, <1>5, <1>6, <1>7, <1>8 DEF TypeInv

LEMMA TypePrepare ==
    ASSUME TypeInv, Prepare PROVE TypeInv'
<1>1. /\ text' = text /\ base' = base /\ count' = count /\ paging' = paging /\ dialect' = dialect
      /\ means' = means /\ next' = next /\ pos' = pos /\ oldToNew' = oldToNew /\ reordered' = reordered
      /\ binds' = IF paging THEN Trim(binds, text) ELSE binds
      /\ original' = Collect(text) /\ pc = "trim" /\ pc' = "start"
    BY DEF Prepare, request
<1>2. binds' \in Seq(Value)
  <2>1. binds \in Seq(Value) /\ DOMAIN binds = 1..Len(binds) /\ Len(binds) \in Nat
      BY DEF TypeInv
  <2>2. At(binds, DOMAIN binds \ (Trimmed \cup {n + 1 : n \in Shared})) \in Seq(Value)
    <3> DEFINE P == DOMAIN binds \ (Trimmed \cup {n + 1 : n \in Shared})
    <3>1. P \in SUBSET DOMAIN binds /\ \A p \in P : binds[p] \in Value
        BY <2>1
    <3> HIDE DEF P
    <3>2. P \in SUBSET Int /\ IsFiniteSet(P)
        BY <2>1, <3>1, PositionsFinite
    <3>3. At(binds, P) \in Seq(Value)
        BY <3>1, <3>2, AtSeq
    <3> QED BY <3>3 DEF P
  <2>3. SubSeq(binds, 1, Len(binds) - Cardinality(Limit(text))) \in Seq(Value)
    <3>1. Limit(text) \in SUBSET DOMAIN text
        BY DEF Limit
    <3>2. Cardinality(Limit(text)) \in Nat
        BY <3>1, TextsType, PositionsFinite
    <3> DEFINE n == Len(binds) - Cardinality(Limit(text))
    <3>3. n \in Int /\ n <= Len(binds)
        BY <2>1, <3>2
    <3> HIDE DEF n
    <3>4. \A i \in 1..n : binds[i] \in Value
        BY <2>1, <3>3
    <3>5. SubSeq(binds, 1, n) \in Seq(Value)
        BY <3>3, <3>4, SubSeqProperties
    <3> QED BY <3>5 DEF n
  <2> QED BY <1>1, <2>1, <2>2, <2>3 DEF Trim
<1>3. original' \in Seq(Int)
  <2> DEFINE first == {i \in DOMAIN text : /\ Numbered(text[i]) /\ text[i].ph \notin Trimmed
                                           /\ \A j \in 1..(i - 1) : Numbered(text[j]) => text[j].ph # text[i].ph}
  <2>1. first \in SUBSET DOMAIN text /\ \A i \in first : text[i] \in Token /\ text[i].at # "where"
      BY TextsType DEF Numbered
  <2>2. original' = [i \in DOMAIN At(text, first) |-> At(text, first)[i].ph]
      BY <1>1 DEF Collect
  <2> HIDE DEF first
  <2>3. first \in SUBSET Int /\ IsFiniteSet(first)
      BY <2>1, TextsType, PositionsFinite
  <2>4. /\ Cardinality(first) \in Nat /\ DOMAIN At(text, first) = 1..Cardinality(first)
        /\ \A i \in 1..Cardinality(first) : Place(first, i) \in first /\ At(text, first)[i] = text[Place(first, i)]
      BY <2>3, AtIs
  <2>5. \A i \in 1..Cardinality(first) : At(text, first)[i].ph \in Int
      BY <2>1, <2>4, TokensAre
  <2> QED BY <2>2, <2>4, <2>5
<1>4. TypeOK'
    BY <1>1 DEF TypeInv, TypeOK
<1> QED BY <1>1, <1>2, <1>3, <1>4 DEF TypeInv

LEMMA TypeBegin ==
    ASSUME TypeInv, Start PROVE TypeInv'
<1>1. /\ text' = text /\ base' = base /\ count' = count /\ paging' = paging /\ dialect' = dialect
      /\ means' = means /\ binds' = binds /\ original' = original /\ pos' = pos
      /\ oldToNew' = oldToNew /\ reordered' = reordered
      /\ next' = U8(U8(IF MaxExisting > 0 THEN MaxExisting ELSE Len(binds)) + 1)
      /\ pc = "start" /\ pc' = "bind"
    BY DEF Start, request
<1>2. next' \in 0..MaxU8
  <2> DEFINE m == IF MaxExisting > 0 THEN MaxExisting ELSE Len(binds)
  <2>1. m \in Int
      BY GreatestNumber DEF TypeInv
  <2> HIDE DEF m
  <2>2. U8(m) + 1 \in Int
      BY <2>1, U8Type, MaxU8Assumption
  <2>3. U8(U8(m) + 1) \in 0..MaxU8
      BY <2>2, U8Type
  <2> QED BY <1>1, <2>3 DEF m
<1>3. TypeOK'
    BY <1>1, <1>2 DEF TypeInv, TypeOK
<1> QED BY <1>1, <1>3 DEF TypeInv

\* The conditions of one SELECT: what is put in for its place.
LEMMA ConditionsPut ==
    ASSUME TypeInv, Conditions
    PROVE  LET news == [k \in 1..count |-> [at |-> "body", ph |-> Generated(next + k - 1)]]
               values == [k \in 1..count |-> Dyn(k)]
           IN  /\ news \in Seq(Token) /\ values \in Seq(Value) /\ Len(news) = count /\ Len(values) = count
               /\ \E i \in 1..Len(text) :
                     /\ text[i].at = "where" /\ \A j \in 1..(i - 1) : text[j].at # "where"
                     /\ text' = Put(text, i, news) /\ means' = Put(means, i, values)
                     /\ text' \in Seq(Token) /\ means' \in Seq(Value)
                     /\ Len(text') = Len(text) + count - 1 /\ Len(means') = Len(text')
               /\ binds' = binds \o values /\ binds' \in Seq(Value) /\ Len(binds') = Len(binds) + count
<1> DEFINE news == [k \in 1..count |-> [at |-> "body", ph |-> Generated(next + k - 1)]]
           values == [k \in 1..count |-> Dyn(k)]
<1>1. count \in Nat /\ next \in Int /\ text \in Seq(Token) /\ Len(means) = Len(text) /\ DOMAIN text = 1..Len(text)
    BY TextsType, MaxU8Assumption DEF TypeInv, TypeOK
<1>2. news \in Seq(Token) /\ Len(news) = count
  <2>1. \A n \in Int : Generated(n) \in Int
      BY U8Type, MaxU8Assumption DEF Generated, Bare
  <2>2. \A k \in 1..count : next + k - 1 \in Int
      BY <1>1
  <2>3. \A k \in 1..count : [at |-> "body", ph |-> Generated(next + k - 1)] \in Token
      BY <2>1, <2>2, TokensAre
  <2> DEFINE new(k) == [at |-> "body", ph |-> Generated(next + k - 1)]
  <2>4. news = [k \in 1..count |-> new(k)] /\ \A k \in 1..count : new(k) \in Token
      BY <2>3
  <2> HIDE DEF new, news
  <2> QED BY <1>1, <2>4
<1>3. values \in Seq(Value) /\ Len(values) = count
  <2>1. \A k \in 1..count : Dyn(k) \in Value
      BY ValuesAre
  <2> QED BY <1>1, <2>1
<1>4. PICK i \in DOMAIN text :
         /\ text[i].at = "where" /\ \A j \in 1..(i - 1) : text[j].at # "where"
         /\ text' = Put(text, i, news) /\ means' = Put(means, i, values)
    BY DEF Conditions
<1>5. binds' = binds \o values /\ binds \in Seq(Value) /\ means \in Seq(Value)
    BY DEF Conditions, TypeInv
<1> HIDE DEF news, values
<1>6. i \in 1..Len(text) /\ i \in 1..Len(means)
    BY <1>1, <1>4
<1>7. Put(text, i, news) \in Seq(Token) /\ Len(Put(text, i, news)) = Len(text) + count - 1
    BY <1>1, <1>2, <1>6, PutIs
<1>8. Put(means, i, values) \in Seq(Value) /\ Len(Put(means, i, values)) = Len(text) + count - 1
    BY <1>1, <1>3, <1>5, <1>6, PutIs
<1>9. binds \o values \in Seq(Value) /\ Len(binds \o values) = Len(binds) + count
    BY <1>3, <1>5, ConcatProperties
<1>10. \E p \in 1..Len(text) :
          /\ text[p].at = "where" /\ \A j \in 1..(p - 1) : text[j].at # "where"
          /\ text' = Put(text, p, news) /\ means' = Put(means, p, values)
          /\ text' \in Seq(Token) /\ means' \in Seq(Value)
          /\ Len(text') = Len(text) + count - 1 /\ Len(means') = Len(text')
    BY <1>4, <1>6, <1>7, <1>8
<1>11. binds' = binds \o values /\ binds' \in Seq(Value) /\ Len(binds') = Len(binds) + count
    BY <1>5, <1>9
<1> QED BY <1>2, <1>3, <1>10, <1>11 DEF news, values

LEMMA TypeConditions ==
    ASSUME TypeInv, Conditions PROVE TypeInv'
<1>1. /\ base' = base /\ count' = count /\ paging' = paging /\ dialect' = dialect /\ pc = "bind" /\ pc' = pc
      /\ original' = original /\ pos' = pos /\ oldToNew' = oldToNew /\ reordered' = reordered
      /\ next' = U8(next + count)
    BY DEF Conditions, request, Next8
<1>2. /\ text' \in Seq(Token) /\ means' \in Seq(Value) /\ binds' \in Seq(Value)
      /\ Len(means') = Len(text')
    BY ConditionsPut
<1>3. next' \in 0..MaxU8
  <2>1. next + count \in Int
      BY TextsType, MaxU8Assumption DEF TypeInv, TypeOK
  <2> QED BY <1>1, <2>1, U8Type
<1>4. DOMAIN means' = DOMAIN text' /\ 0 \in 0..Len(text')
    BY <1>2
<1>5. TypeOK'
    BY <1>1, <1>2, <1>3, <1>4 DEF TypeInv, TypeOK
<1> QED BY <1>1, <1>2, <1>5 DEF TypeInv

\* LIMIT and OFFSET of the query are taken out of text and meanings alike.
LEMMA PagePut ==
    ASSUME TypeInv, Page
    PROVE  \E kept \in SUBSET DOMAIN text :
              /\ kept = IF paging THEN DOMAIN text \ Limit(text) ELSE DOMAIN text
              /\ kept \in SUBSET Int /\ IsFiniteSet(kept) /\ Cardinality(kept) \in Nat
              /\ text' = At(text, kept) /\ means' = At(means, kept)
              /\ text' \in Seq(Token) /\ means' \in Seq(Value)
              /\ Len(text') = Cardinality(kept) /\ Len(means') = Cardinality(kept)
<1> DEFINE kept == IF paging THEN DOMAIN text \ Limit(text) ELSE DOMAIN text
<1>1. kept \in SUBSET DOMAIN text /\ text' = At(text, kept) /\ means' = At(means, kept)
    BY DEF Page
<1>2. kept = IF paging THEN DOMAIN text \ Limit(text) ELSE DOMAIN text
    OBVIOUS
<1> HIDE DEF kept
<1>3. kept \in SUBSET Int /\ IsFiniteSet(kept) /\ Cardinality(kept) \in Nat
    BY <1>1, TextsType, PositionsFinite
<1>4. (\A p \in kept : text[p] \in Token) /\ (\A p \in kept : means[p] \in Value)
    BY <1>1, TextsType DEF TypeInv
<1>5. At(text, kept) \in Seq(Token) /\ Len(At(text, kept)) = Cardinality(kept)
    BY <1>3, <1>4, AtSeq
<1>6. At(means, kept) \in Seq(Value) /\ Len(At(means, kept)) = Cardinality(kept)
    BY <1>3, <1>4, AtSeq
<1> QED BY <1>1, <1>2, <1>3, <1>5, <1>6

LEMMA TypePage ==
    ASSUME TypeInv, Page PROVE TypeInv'
<1>1. /\ base' = base /\ count' = count /\ paging' = paging /\ dialect' = dialect
      /\ pc = "bind" /\ pc' = "number"
      /\ original' = original /\ pos' = pos /\ oldToNew' = oldToNew /\ reordered' = reordered
      /\ binds' = binds /\ next' = next
    BY DEF Page, request
<1>2. /\ text' \in Seq(Token) /\ means' \in Seq(Value) /\ Len(means') = Len(text')
    BY PagePut
<1>3. DOMAIN means' = DOMAIN text' /\ 0 \in 0..Len(text')
    BY <1>2
<1>4. pos = 0
    BY <1>1 DEF TypeInv
<1>5. TypeOK'
    BY <1>1, <1>2, <1>3, <1>4 DEF TypeInv, TypeOK
<1> QED BY <1>1, <1>2, <1>4, <1>5 DEF TypeInv

LEMMA TypeRenumber ==
    ASSUME TypeInv, Renumber PROVE TypeInv'
<1>1. /\ base' = base /\ count' = count /\ paging' = paging /\ dialect' = dialect
      /\ pc = "number" /\ pc' = pc /\ text' = text /\ means' = means
      /\ binds' = binds /\ next' = next /\ original' = original /\ pos < Len(text) /\ pos' = pos + 1
    BY DEF Renumber, request
<1>2. Len(text) \in Nat /\ pos \in 0..Len(text) /\ pos' \in 0..Len(text) /\ pos' \in DOMAIN text
      /\ 1..pos' = (1..pos) \cup {pos'}
    BY <1>1, TextsType DEF TypeInv, TypeOK
<1> DEFINE n == text[pos'].ph
<1>3. text[pos'] \in Token
    BY <1>2, TextsType
<1>4. CASE ~Fresh(text[pos'])
  <2>1. oldToNew' = oldToNew /\ reordered' = reordered
      BY <1>4 DEF Renumber
  <2>2. \A i \in 1..pos' : Numbered(text[i]) => text[i].ph \in DOMAIN oldToNew
      BY <1>1, <1>2, <1>4 DEF TypeInv, Fresh
  <2>3. TypeOK'
      BY <1>1, <1>2, <2>1 DEF TypeInv, TypeOK
  <2> QED BY <1>1, <2>1, <2>2, <2>3 DEF TypeInv, Numbered
<1>5. CASE Fresh(text[pos'])
  <2>1. /\ oldToNew' = [m \in DOMAIN oldToNew \cup {n} |->
                            IF m = n THEN Cardinality(DOMAIN oldToNew) + 1 ELSE oldToNew[m]]
        /\ reordered' = IF BindPosition(n) \in DOMAIN binds
                        THEN Append(reordered, binds[BindPosition(n)]) ELSE reordered
      BY <1>5 DEF Renumber
  <2>2. Cardinality(DOMAIN oldToNew) \in Nat /\ oldToNew \in [DOMAIN oldToNew -> Nat]
        /\ IsFiniteSet(DOMAIN oldToNew)
      BY FS_CardinalityType DEF TypeInv
  <2> HIDE DEF n
  <2>3. /\ DOMAIN oldToNew' = DOMAIN oldToNew \cup {n} /\ \A m \in DOMAIN oldToNew' : oldToNew'[m] \in Nat
        /\ oldToNew' \in [DOMAIN oldToNew' -> Nat]
      BY <2>1, <2>2
  <2>4. IsFiniteSet(DOMAIN oldToNew')
      BY <2>2, <2>3, FS_AddElement
  <2>5. reordered' \in Seq(Value)
    <3>1. binds \in Seq(Value) /\ reordered \in Seq(Value)
        BY DEF TypeInv
    <3>2. BindPosition(n) \in DOMAIN binds => binds[BindPosition(n)] \in Value
        BY <3>1
    <3> HIDE DEF BindPosition
    <3> QED BY <2>1, <3>1, <3>2
  <2>6. \A i \in 1..pos' : Numbered(text[i]) => text[i].ph \in DOMAIN oldToNew'
      BY <1>1, <1>2, <2>3 DEF TypeInv, n
  <2>7. TypeOK'
      BY <1>1, <1>2, <2>3 DEF TypeInv, TypeOK
  <2> QED BY <1>1, <2>3, <2>4, <2>5, <2>6, <2>7 DEF TypeInv, Numbered
<1> QED BY <1>4, <1>5

LEMMA TypeSend ==
    ASSUME TypeInv, Send PROVE TypeInv'
<1>1. /\ base' = base /\ count' = count /\ paging' = paging /\ dialect' = dialect
      /\ pc = "number" /\ pos = Len(text) /\ pc' = "sent" /\ means' = means /\ next' = next
      /\ original' = original /\ pos' = pos /\ oldToNew' = oldToNew /\ reordered' = reordered
      /\ IF reordered = <<>> THEN text' = text /\ binds' = binds
         ELSE /\ text' = [i \in DOMAIN text |->
                 IF Numbered(text[i]) THEN [text[i] EXCEPT !.ph = oldToNew[@]] ELSE text[i]]
              /\ binds' = reordered
    BY DEF Send, request
<1>2. text \in Seq(Token) /\ DOMAIN text = 1..Len(text) /\ Len(text) \in Nat /\ DOMAIN means = DOMAIN text
    BY TextsType
<1>3. binds' \in Seq(Value)
    BY <1>1 DEF TypeInv
<1>4. text' \in Seq(Token) /\ DOMAIN text' = DOMAIN text
  <2>1. CASE reordered = <<>>
      BY <1>1, <1>2, <2>1
  <2>2. CASE reordered # <<>>
    <3> DEFINE to(i) == IF Numbered(text[i]) THEN [text[i] EXCEPT !.ph = oldToNew[text[i].ph]] ELSE text[i]
    <3>1. \A i \in 1..Len(text) : to(i) \in Token
      <4> SUFFICES ASSUME NEW i \in 1..Len(text), Numbered(text[i])
                   PROVE  [text[i] EXCEPT !.ph = oldToNew[text[i].ph]] \in Token
          BY <1>2
      <4>1. text[i] \in Token /\ text[i].at # "where" /\ text[i].ph \in DOMAIN oldToNew
          BY <1>1, <1>2 DEF TypeInv, Numbered
      <4>2. oldToNew[text[i].ph] \in Int
          BY <4>1 DEF TypeInv
      <4> QED BY <4>1, <4>2, TokensAre
    <3>2. text' = [i \in 1..Len(text) |-> to(i)]
        BY <1>1, <1>2, <2>2
    <3> HIDE DEF to
    <3> QED BY <1>2, <3>1, <3>2
  <2> QED BY <2>1, <2>2
<1>5. Len(text') = Len(text)
    BY <1>2, <1>4
<1>6. TypeOK'
    BY <1>1, <1>2, <1>4, <1>5 DEF TypeInv, TypeOK
<1> QED BY <1>1, <1>3, <1>4, <1>5, <1>6 DEF TypeInv

LEMMA TypeStep ==
    ASSUME TypeInv, [Next]_vars PROVE TypeInv'
<1>1. CASE Prepare
    BY <1>1, TypePrepare
<1>2. CASE Start
    BY <1>2, TypeBegin
<1>3. CASE Conditions
    BY <1>3, TypeConditions
<1>4. CASE Page
    BY <1>4, TypePage
<1>5. CASE Renumber
    BY <1>5, TypeRenumber
<1>6. CASE Send
    BY <1>6, TypeSend
<1>7. CASE UNCHANGED vars
    BY <1>7 DEF TypeInv, TypeOK, vars, Numbered
<1> QED BY <1>1, <1>2, <1>3, <1>4, <1>5, <1>6, <1>7 DEF Next

LEMMA Typed == Spec => []TypeInv
<1>1. Init => TypeInv
    BY TypeStart
<1>2. TypeInv /\ [Next]_vars => TypeInv'
    BY TypeStep
<1> QED BY <1>1, <1>2, PTL DEF Spec

\* Text, values, counters and tables keep their types, whatever the query: also
\* where values go astray, the numbers met have their new numbers and the next
\* number is a u8.
THEOREM TypeCorrect == Spec => []TypeOK
<1>1. TypeInv => TypeOK
    BY DEF TypeInv
<1> QED BY <1>1, Typed, PTL

-----------------------------------------------------------------------------
(* The invariant.                                                          *)

TheUse == [text |-> base, paging |-> paging, dialect |-> dialect]

\* the placeholders that are sent
Stays(i) == text[i].at = "body" \/ (text[i].at = "limit" /\ ~paging)

\* the SELECTs whose conditions are to come, and the values there are of others
Places == {i \in DOMAIN text : text[i].at = "where"}
Found == Len(binds) - Len(original)

\* What a step has not come to is as it was.
Untouched ==
    /\ TheUse \in Uses
    /\ pc = "trim" =>
          /\ text = base /\ original = <<>>
          /\ means = [i \in DOMAIN base |-> Meaning(base, i)]
          /\ binds = [n \in 1..Arity(base) |-> Arg(n)]
    /\ pc \in {"trim", "start", "bind"} => DOMAIN oldToNew = {} /\ reordered = <<>>
    /\ pc = "number" => \A i \in DOMAIN text : Stays(i)

\* The last pass will find the value of every number that stays.
Resolves ==
    \A i \in DOMAIN text : Stays(i) =>
        /\ BindPosition(text[i].ph) \in DOMAIN binds
        /\ binds[BindPosition(text[i].ph)] = means[i]

\* Numbers of conditions follow those of the query, as their values follow its
\* values, and a u8 holds those to come.
Continues ==
    /\ Len(original) <= Len(binds) /\ (pc = "start" => Len(original) = Len(binds))
    /\ MaxExisting >= 0 /\ (MaxExisting = 0 => original = <<>>)
    /\ MaxExisting + Found + Cardinality(Places) * count <= MaxU8
    /\ pc = "bind" => next = U8(MaxExisting + Found + 1)

\* The values moved are those of the numbers met, each at its new number.
Moved ==
    /\ DOMAIN oldToNew = {text[i].ph : i \in 1..pos}
    /\ Len(reordered) = Cardinality(DOMAIN oldToNew)
    /\ \A n \in DOMAIN oldToNew :
          oldToNew[n] \in DOMAIN reordered /\ reordered[oldToNew[n]] = binds[BindPosition(n)]
    /\ \A k \in DOMAIN reordered : \E n \in DOMAIN oldToNew : oldToNew[n] = k

NumbersInv ==
    dialect # "mysql" =>
        /\ \A i \in DOMAIN text : ~Question(text[i])
        /\ pc \in {"start", "bind", "number"} =>
              Resolves /\ (binds # <<>> => \E i \in DOMAIN text : Stays(i))
        /\ pc \in {"start", "bind"} => Continues
        /\ pc = "number" => Moved

\* The text that stays begins with a ? for each value.
InPlace ==
    /\ {i \in DOMAIN text : Stays(i)} = 1..Len(binds)
    /\ \A i \in 1..Len(binds) : means[i] = binds[i]

QuestionsInv ==
    dialect = "mysql" =>
        /\ \A i \in DOMAIN text : ~Numbered(text[i])
        /\ DOMAIN oldToNew = {} /\ reordered = <<>>
        /\ pc \in {"start", "bind", "number"} => InPlace
        /\ pc \in {"start", "bind"} /\ paging =>
              \A i \in Limit(text), j \in DOMAIN text : i < j => j \in Limit(text)

BoundInv == TypeInv /\ Untouched /\ NumbersInv /\ QuestionsInv /\ BoundAsMeant /\ ArgumentsMatch

-----------------------------------------------------------------------------
(* Trimming and collecting.                                                *)

\* An ascending function keeps the places.
LEMMA Ascending ==
    ASSUME NEW F \in SUBSET Int, IsFiniteSet(F), NEW f \in [F -> Int],
           \A i, j \in F : i < j => f[i] < f[j]
    PROVE  LET K == {f[i] : i \in F}
           IN  /\ IsFiniteSet(K) /\ K \in SUBSET Int /\ Cardinality(K) = Cardinality(F)
               /\ \A p \in 1..Cardinality(F) : f[Place(F, p)] = Place(K, p)
<1> DEFINE K == {f[i] : i \in F}
<1>1. \A i, j \in F : (i <= j <=> f[i] <= f[j]) /\ (f[i] = f[j] => i = j)
  <2> TAKE i, j \in F
  <2>1. i \in Int /\ j \in Int /\ f[i] \in Int /\ f[j] \in Int
      OBVIOUS
  <2>2. (i < j => f[i] < f[j]) /\ (j < i => f[j] < f[i])
      OBVIOUS
  <2>3. i = j => f[i] = f[j]
      OBVIOUS
  <2> QED BY <2>1, <2>2, <2>3
<1>2. f \in Bijection(F, K)
  <2>1. f \in [F -> K] /\ \A k \in K : \E i \in F : f[i] = k
      OBVIOUS
  <2>2. \A i, j \in F : f[i] = f[j] => i = j
      BY <1>1
  <2> QED BY <2>1, <2>2 DEF Bijection, Injection, IsInjective, Surjection
<1>3. IsFiniteSet(K) /\ Cardinality(K) = Cardinality(F)
    BY <1>2, FS_Bijection DEF ExistsBijection
<1>4. K \in SUBSET Int
    OBVIOUS
<1>5. ASSUME NEW i \in F PROVE Nth(K, f[i]) = Nth(F, i)
  <2> DEFINE S == Below(F, i)
             T == Below(K, f[i])
             g == [j \in S |-> f[j]]
  <2>1. S \in SUBSET F /\ (\A j \in S : j <= i) /\ (\A j \in F : j <= i => j \in S)
      BY DEF Below
  <2>2. (\A k \in T : k \in K /\ k <= f[i]) /\ (\A k \in K : k <= f[i] => k \in T)
      BY DEF Below
  <2> HIDE DEF S, T
  <2>3. \A j \in S : f[j] \in T
      BY <1>1, <2>1, <2>2
  <2>4. \A k \in T : \E j \in S : f[j] = k
    <3> TAKE k \in T
    <3>1. PICK j \in F : f[j] = k
        BY <2>2
    <3>2. j <= i
        BY <1>1, <2>2, <3>1
    <3> QED BY <2>1, <3>1, <3>2
  <2>5. \A j, k \in S : f[j] = f[k] => j = k
      BY <1>1, <2>1
  <2>6. g \in [S -> T] /\ \A j \in S : g[j] = f[j]
      BY <2>3
  <2> HIDE DEF g
  <2>7. g \in Bijection(S, T)
      BY <2>4, <2>5, <2>6 DEF Bijection, Injection, IsInjective, Surjection
  <2>8. IsFiniteSet(S)
      BY <2>1, FS_Subset
  <2>9. Cardinality(T) = Cardinality(S)
      BY <2>7, <2>8, FS_Bijection DEF ExistsBijection
  <2> QED BY <2>9 DEF Nth, S, T
<1>6. ASSUME NEW p \in 1..Cardinality(F) PROVE f[Place(F, p)] = Place(K, p)
  <2>1. Place(F, p) \in F /\ Nth(F, Place(F, p)) = p
      BY PlaceIs
  <2> DEFINE k == f[Place(F, p)]
  <2>2. k \in K /\ Nth(K, k) = p
      BY <1>5, <2>1
  <2> HIDE DEF k
  <2>3. Place(K, Nth(K, k)) = k
      BY <1>3, <1>4, <2>2, PlaceOf
  <2> QED BY <2>2, <2>3 DEF k
<1> QED BY <1>3, <1>4, <1>6

\* The placeholders of a use that stay and that go
LEMMA KeptIs ==
    ASSUME TypeInv, text = base
    PROVE  /\ Kept(TheUse) \in SUBSET DOMAIN text /\ Gone(TheUse) \in SUBSET DOMAIN text
           /\ Kept(TheUse) \cap Gone(TheUse) = {}
           /\ \A i \in DOMAIN text : (i \in Kept(TheUse) <=> Stays(i))
                                     /\ (i \in Kept(TheUse) \cup Gone(TheUse) <=> text[i].at # "where")
           /\ Gone(TheUse) = IF paging THEN Limit(text) ELSE {}
<1>1. TheUse.text = text /\ TheUse.paging = paging
    BY DEF TheUse
<1>2. Gone(TheUse) = IF paging THEN Limit(text) ELSE {}
    BY <1>1 DEF Gone
<1>3. Kept(TheUse) = {i \in DOMAIN text : text[i].at # "where"} \ Gone(TheUse)
    BY <1>1 DEF Kept
<1>4. \A i \in DOMAIN text : text[i].at \in {"body", "limit", "where"}
    BY TextsType, TokensAre
<1>5. \A i \in DOMAIN text : i \in Limit(text) <=> text[i].at = "limit"
    BY DEF Limit
<1>6. Limit(text) \in SUBSET DOMAIN text
    BY DEF Limit
<1>7. ASSUME NEW i \in DOMAIN text
      PROVE  /\ i \in Kept(TheUse) <=> Stays(i)
             /\ i \in Kept(TheUse) \cup Gone(TheUse) <=> text[i].at # "where"
    BY <1>2, <1>3, <1>4, <1>5 DEF Stays
<1> QED BY <1>2, <1>3, <1>6, <1>7

\* The numbers that stay and those that go are the parameters.
LEMMA NumbersSplit ==
    ASSUME TypeInv, text = base, NumbersInOrder(TheUse),
           NEW K, K = {text[i].ph : i \in Kept(TheUse)}
    PROVE  /\ \A i \in Kept(TheUse) \cup Gone(TheUse) : Numbered(text[i]) /\ text[i].ph \in Int
           /\ Trimmed = {text[i].ph : i \in Gone(TheUse)}
           /\ K \cap Trimmed = {} /\ K \cup Trimmed = 1..Arity(text)
           /\ IsFiniteSet(K) /\ K \in SUBSET (Nat \ {0})
<1> DEFINE S == Kept(TheUse)
           G == Gone(TheUse)
<1>1. /\ S \in SUBSET DOMAIN text /\ G \in SUBSET DOMAIN text
      /\ \A i \in DOMAIN text : i \in S \cup G <=> text[i].at # "where"
      /\ G = IF paging THEN Limit(text) ELSE {}
      /\ S \cap G = {}
    BY KeptIs
<1>2. /\ \A i \in DOMAIN text : ~Question(text[i])
      /\ Numbers(text) = 1..Cardinality(Numbers(text))
      /\ \A i \in S \cup G, j \in G : i # j => text[i].ph # text[j].ph
    BY DEF NumbersInOrder, TheUse
<1> HIDE DEF S, G
<1>3. \A i \in DOMAIN text : Numbered(text[i]) <=> i \in S \cup G
    BY <1>1, <1>2 DEF Numbered, Question
<1>4. \A i \in S \cup G : text[i].ph \in Int /\ text[i].ph # Bare
  <2>1. \A i \in S \cup G : text[i] \in Token /\ text[i].at # "where"
      BY <1>1, TextsType
  <2> QED BY <1>1, <1>3, <2>1, TokensAre DEF Numbered
<1>5. Trimmed = {text[i].ph : i \in G}
    BY <1>1, <1>4 DEF Trimmed
<1>6. Numbers(text) = {text[i].ph : i \in S \cup G}
    BY <1>1, <1>3 DEF Numbers
<1>7. Arity(text) = Cardinality(Numbers(text)) /\ Cardinality(Numbers(text)) \in Nat
  <2>1. {j \in DOMAIN text : j <= Len(text) /\ Question(text[j])} = {}
      BY <1>2
  <2>2. Rank(text, Len(text)) = 0
      BY <2>1, FS_EmptySet DEF Rank
  <2> DEFINE P == {j \in DOMAIN text : Numbered(text[j])}
  <2>3. P \in SUBSET DOMAIN text /\ \A i \in P : text[i].at # "where"
      BY DEF Numbered
  <2> HIDE DEF P
  <2>4. Cardinality({text[i].ph : i \in P}) \in Nat
      BY <2>3, NumbersFinite, TextsType
  <2>5. Cardinality(Numbers(text)) \in Nat
      BY <2>4 DEF Numbers, P
  <2> QED BY <2>2, <2>5 DEF Arity
<1>8. K = {text[i].ph : i \in S}
    BY DEF S
<1>9. K \cup Trimmed = 1..Arity(text)
  <2>1. K \cup Trimmed = {text[i].ph : i \in S \cup G}
      BY <1>5, <1>8
  <2> QED BY <1>2, <1>6, <1>7, <2>1
<1>10. K \cap Trimmed = {}
    BY <1>1, <1>2, <1>5, <1>8
<1>11. IsFiniteSet(K)
  <2>1. \A i \in S : text[i].at # "where"
      BY <1>1
  <2> QED BY <1>1, <1>8, <2>1, NumbersFinite, TextsType
<1>12. K \in SUBSET (Nat \ {0})
    BY <1>7, <1>9
<1> QED BY <1>3, <1>1, <1>4, <1>5, <1>9, <1>10, <1>11, <1>12 DEF S, G

\* The values left are those of the numbers that stay, in ascending order.
LEMMA ValuesLeft ==
    ASSUME TypeInv, text = base, NumbersInOrder(TheUse), binds = [n \in 1..Arity(base) |-> Arg(n)],
           NEW K, K = {text[i].ph : i \in Kept(TheUse)},
           NEW b, b = IF paging THEN Trim(binds, text) ELSE binds
    PROVE  /\ DOMAIN b = 1..Cardinality(K) /\ Cardinality(K) \in Nat
           /\ \A p \in 1..Cardinality(K) : b[p] = Arg(Place(K, p))
<1>1. /\ Trimmed = {text[i].ph : i \in Gone(TheUse)} /\ K \cap Trimmed = {}
      /\ K \cup Trimmed = 1..Arity(text) /\ IsFiniteSet(K) /\ K \in SUBSET (Nat \ {0}) /\ K \in SUBSET Int
    BY NumbersSplit
<1>2. Arity(text) \in Nat /\ DOMAIN binds = 1..Arity(text) /\ Len(binds) = Arity(text)
  <2>1. Arity(text) \in Nat
      BY RankType, TextsType
  <2> QED BY <2>1
<1>3. Cardinality(K) \in Nat /\ \A p \in 1..Cardinality(K) : Place(K, p) \in K
    BY <1>1, AtIs
<1>4. CASE Trimmed # {} /\ paging
  <2>0. Shared = {}
    <3>1. \A i, j \in Limit(text) : i # j => text[i].ph # text[j].ph
      <4>1. Gone(TheUse) = Limit(text)
          BY <1>4, KeptIs
      <4>2. \A i \in Kept(TheUse) \cup Gone(TheUse), j \in Gone(TheUse) : i # j => text[i].ph # text[j].ph
          BY DEF NumbersInOrder, TheUse
      <4> QED BY <4>1, <4>2
    <3>2. \A i \in Limit(text) : i \in Int
        BY TextsType DEF Limit
    <3>3. \A i, j \in Limit(text) : i < j => i # j
        BY <3>2
    <3> QED BY <3>1, <3>3 DEF Shared
  <2>1. b = At(binds, DOMAIN binds \ Trimmed)
    <3>1. Trimmed \cup {n + 1 : n \in Shared} = Trimmed
        BY <2>0
    <3> QED BY <1>4, <3>1 DEF Trim
  <2>2. DOMAIN binds \ Trimmed = K
      BY <1>1, <1>2
  <2>3. DOMAIN b = 1..Cardinality(K) /\ \A p \in 1..Cardinality(K) : b[p] = binds[Place(K, p)]
    <3>1. b = At(binds, K)
        BY <2>1, <2>2
    <3>2. DOMAIN At(binds, K) = 1..Cardinality(K)
          /\ \A p \in 1..Cardinality(K) : At(binds, K)[p] = binds[Place(K, p)]
        BY DEF At
    <3> QED BY <3>1, <3>2
  <2>4. \A n \in K : binds[n] = Arg(n)
      BY <1>1
  <2> QED BY <1>3, <2>3, <2>4
<1>5. CASE ~(Trimmed # {} /\ paging)
  <2>1. Trimmed = {}
      BY <1>5 DEF Trimmed
  <2>2. K = 1..Arity(text)
      BY <1>1, <2>1
  <2>3. b = binds
    <3>1. CASE ~paging
        BY <3>1
    <3>2. CASE paging
      <4>1. Gone(TheUse) = Limit(text) /\ Limit(text) = {}
        <5>1. Gone(TheUse) = Limit(text)
            BY <3>2, KeptIs
        <5>2. Gone(TheUse) = {}
          <6>1. \A i \in Gone(TheUse) : text[i].ph \in Trimmed
              BY <1>1
          <6> QED BY <2>1, <6>1
        <5> QED BY <5>1, <5>2
      <4>2. b = SubSeq(binds, 1, Len(binds) - Cardinality({}))
          BY <2>1, <3>2, <4>1 DEF Trim
      <4>3. Len(binds) - Cardinality({}) = Len(binds)
          BY <1>2, FS_EmptySet
      <4>4. SubSeq(binds, 1, Len(binds)) = binds
          BY SubSeqFull DEF TypeInv
      <4> QED BY <4>2, <4>3, <4>4
    <3> QED BY <3>1, <3>2
  <2>4. \A p \in K : 1..p \subseteq K
    <3>1. \A a \in Nat : \A p \in 1..a : 1..p \subseteq 1..a
        OBVIOUS
    <3> QED BY <1>2, <2>2, <3>1, Zenon
  <2>5. K = 1..Cardinality(K) /\ \A p \in K : Place(K, p) = p
      BY <1>1, <2>4, Prefix
  <2>6. \A p \in 1..Cardinality(K) : binds[p] = Arg(Place(K, p))
      BY <2>2, <2>5
  <2> QED BY <1>2, <1>3, <2>2, <2>3, <2>5, <2>6
<1> QED BY <1>4, <1>5

\* The numbers collected are those that stay, in ascending order.
LEMMA NumbersLeft ==
    ASSUME TypeInv, text = base, NumbersInOrder(TheUse),
           NEW K, K = {text[i].ph : i \in Kept(TheUse)},
           NEW o, o = Collect(text)
    PROVE  /\ DOMAIN o = 1..Cardinality(K)
           /\ \A p \in 1..Cardinality(K) : o[p] = Place(K, p)
<1> DEFINE S == Kept(TheUse)
           F == {i \in DOMAIN text : /\ Numbered(text[i]) /\ text[i].ph \notin Trimmed
                                     /\ \A j \in 1..(i - 1) : Numbered(text[j]) => text[j].ph # text[i].ph}
           f == [i \in F |-> text[i].ph]
<1>1. /\ \A i \in S \cup Gone(TheUse) : Numbered(text[i]) /\ text[i].ph \in Int
      /\ Trimmed = {text[i].ph : i \in Gone(TheUse)} /\ K \cap Trimmed = {}
    BY NumbersSplit
<1>2. /\ S \in SUBSET DOMAIN text /\ Gone(TheUse) \in SUBSET DOMAIN text
      /\ \A i \in DOMAIN text : i \in S \cup Gone(TheUse) <=> text[i].at # "where"
    BY KeptIs
<1>3. DOMAIN text = 1..Len(text) /\ Len(text) \in Nat
    BY TextsType
<1>4. \A i, j \in S : text[i].ph < text[j].ph => \E k \in S : k < j /\ text[k].ph = text[i].ph
    BY DEF NumbersInOrder, TheUse
<1>5. K = {text[i].ph : i \in S}
    OBVIOUS
<1>6. o = [i \in DOMAIN At(text, F) |-> At(text, F)[i].ph]
    BY DEF Collect
<1> HIDE DEF S
<1>7. ASSUME NEW i \in DOMAIN text
      PROVE  i \in F <=> i \in S /\ \A j \in S : j < i => text[j].ph # text[i].ph
  <2>1. Numbered(text[i]) /\ text[i].ph \notin Trimmed <=> i \in S
      BY <1>1, <1>2, <1>5 DEF Numbered
  <2>2. ASSUME i \in S, NEW j \in DOMAIN text, Numbered(text[j]), text[j].ph = text[i].ph
        PROVE  j \in S
    <3>1. j \in S \cup Gone(TheUse)
        BY <1>2, <2>2 DEF Numbered
    <3>2. text[j].ph \notin Trimmed
        BY <1>1, <1>5, <2>2
    <3> QED BY <1>1, <3>1, <3>2
  <2>3. 1..(i - 1) \subseteq DOMAIN text /\ \A j \in DOMAIN text : j \in 1..(i - 1) <=> j < i
      BY <1>3
  <2> QED BY <1>1, <1>2, <2>1, <2>2, <2>3
<1> HIDE DEF F
<1>8. F \in SUBSET DOMAIN text /\ F \in SUBSET S
  <2>1. F \in SUBSET DOMAIN text
      BY DEF F
  <2> QED BY <1>7, <2>1
<1>9. F \in SUBSET Int /\ IsFiniteSet(F)
    BY <1>8, TextsType, PositionsFinite
<1>10. f \in [F -> Int] /\ \A i \in F : f[i] = text[i].ph
    BY <1>1, <1>8
<1>11. \A i, j \in F : i < j => f[i] < f[j]
  <2> SUFFICES ASSUME NEW i \in F, NEW j \in F, i < j, ~(text[i].ph < text[j].ph) PROVE FALSE
      BY <1>10
  <2>1. i \in S /\ j \in S /\ i \in DOMAIN text /\ j \in DOMAIN text /\ i \in Int /\ j \in Int
      BY <1>8, <1>9
  <2>2. text[i].ph \in Int /\ text[j].ph \in Int
      BY <1>1, <2>1
  <2>3. text[i].ph # text[j].ph
      BY <1>7, <2>1
  <2>4. text[j].ph < text[i].ph
      BY <2>2, <2>3
  <2>5. PICK k \in S : k < i /\ text[k].ph = text[j].ph
      BY <1>4, <2>1, <2>4
  <2>6. k < j
      BY <1>2, <1>3, <2>1, <2>5
  <2> QED BY <1>7, <2>1, <2>5, <2>6
<1>12. K = {f[i] : i \in F}
  <2>1. \A i \in F : f[i] \in K
      BY <1>5, <1>8, <1>10
  <2>2. \A n \in K : \E i \in F : f[i] = n
    <3> TAKE n \in K
    <3> DEFINE P == {i \in S : text[i].ph = n}
    <3>1. P # {} /\ P \in SUBSET DOMAIN text
        BY <1>2, <1>5
    <3>2. P \in SUBSET Int /\ IsFiniteSet(P)
        BY <3>1, TextsType, PositionsFinite
    <3>3. PICK i \in P : \A j \in P : i <= j
        BY <3>1, <3>2, Bounds
    <3>4. \A j \in S : j < i => text[j].ph # text[i].ph
        BY <1>2, <1>3, <3>2, <3>3
    <3>5. i \in F
        BY <1>7, <3>1, <3>3, <3>4
    <3> QED BY <1>10, <3>3, <3>5
  <2> QED BY <2>1, <2>2
<1> HIDE DEF f
<1>13. /\ Cardinality(K) = Cardinality(F)
       /\ \A p \in 1..Cardinality(F) : f[Place(F, p)] = Place(K, p)
  <2>1. f \in [F -> Int]
      BY <1>10
  <2>2. LET k == {f[i] : i \in F}
        IN  Cardinality(k) = Cardinality(F) /\ \A p \in 1..Cardinality(F) : f[Place(F, p)] = Place(k, p)
      BY <1>9, <1>11, <2>1, Ascending
  <2> QED BY <1>12, <2>2, Zenon
<1>14. /\ DOMAIN At(text, F) = 1..Cardinality(F)
       /\ \A p \in 1..Cardinality(F) : Place(F, p) \in F /\ At(text, F)[p] = text[Place(F, p)]
    BY <1>9, AtIs
<1>15. DOMAIN o = 1..Cardinality(K)
    BY <1>6, <1>13, <1>14
<1>16. \A p \in 1..Cardinality(K) : o[p] = Place(K, p)
    BY <1>6, <1>10, <1>13, <1>14
<1> QED BY <1>15, <1>16

\* After Prepare, the last pass will find the values of the query.
LEMMA PrepareNumbers ==
    ASSUME TypeInv, TypeInv', Untouched, Prepare, NumbersInOrder(TheUse), NumbersFit(TheUse)
    PROVE  NumbersInv'
<1> DEFINE K == {text[i].ph : i \in Kept(TheUse)}
           c == Cardinality(K)
<1>1. /\ text = base /\ means = [i \in DOMAIN base |-> Meaning(base, i)]
      /\ binds = [n \in 1..Arity(base) |-> Arg(n)] /\ TheUse \in Uses
    BY DEF Prepare, Untouched
<1>2. /\ text' = text /\ means' = means /\ paging' = paging /\ dialect' = dialect /\ count' = count
      /\ binds' = IF paging THEN Trim(binds, text) ELSE binds
      /\ original' = Collect(text) /\ pc' = "start"
    BY DEF Prepare, request
<1>3. \A i : Stays(i)' <=> Stays(i)
    BY <1>2 DEF Stays
<1>4. \A i \in DOMAIN text : ~Question(text[i])
    BY <1>1 DEF NumbersInOrder, TheUse
<1>5. K = {text[i].ph : i \in Kept(TheUse)}
    OBVIOUS
<1>6. IsFiniteSet(K) /\ K \in SUBSET (Nat \ {0})
      /\ \A i \in Kept(TheUse) : Numbered(text[i]) /\ text[i].ph \in K
    BY <1>1, NumbersSplit
<1> HIDE DEF K
<1>7. DOMAIN binds' = 1..c /\ c \in Nat /\ \A p \in 1..c : binds'[p] = Arg(Place(K, p))
    BY <1>1, <1>2, <1>5, ValuesLeft
<1>8. DOMAIN original' = 1..c /\ \A p \in 1..c : original'[p] = Place(K, p)
    BY <1>1, <1>2, <1>5, NumbersLeft
<1>9. original' \in Seq(Int) /\ binds' \in Seq(Value) /\ Len(original') = c /\ Len(binds') = c
  <2>1. original' \in Seq(Int) /\ binds' \in Seq(Value)
      BY DEF TypeInv
  <2>2. DOMAIN original' = 1..Len(original') /\ Len(original') \in Nat
        /\ DOMAIN binds' = 1..Len(binds') /\ Len(binds') \in Nat
      BY <2>1
  <2>3. \A a, b \in Nat : 1..a = 1..b => a = b
      OBVIOUS
  <2> QED BY <1>7, <1>8, <2>1, <2>2, <2>3
<1>10. ToSet(original') = K
  <2>1. \A p \in 1..c : Place(K, p) \in K
      BY <1>6, AtIs
  <2>2. \A n \in K : Nth(K, n) \in 1..c /\ Place(K, Nth(K, n)) = n
      BY <1>6, NthType, PlaceOf
  <2> QED BY <1>8, <2>1, <2>2 DEF ToSet
<1>11. Resolves'
  <2> SUFFICES ASSUME NEW i \in DOMAIN text, Stays(i)
               PROVE  /\ BindPosition(text[i].ph)' \in DOMAIN binds'
                      /\ binds'[BindPosition(text[i].ph)'] = means[i]
      BY <1>2, <1>3 DEF Resolves
  <2> DEFINE n == text[i].ph
             p == CHOOSE q \in DOMAIN original' : original'[q] = n
  <2>1. i \in Kept(TheUse)
      BY <1>1, KeptIs
  <2>2. n \in ToSet(original')
      BY <1>6, <1>10, <2>1
  <2>3. BindPosition(n)' = p
      BY <1>2, <2>2 DEF BindPosition
  <2>4. p \in DOMAIN original' /\ original'[p] = n
      BY <2>2 DEF ToSet
  <2> HIDE DEF p
  <2>5. binds'[p] = Arg(n) /\ p \in DOMAIN binds'
      BY <1>7, <1>8, <2>4
  <2>6. means[i] = Arg(n)
      BY <1>1, <1>6, <2>1 DEF Meaning
  <2> QED BY <1>2, <2>3, <2>5, <2>6
<1>12. binds' # <<>> => \E i \in DOMAIN text : Stays(i)
  <2> SUFFICES ASSUME binds' # <<>> PROVE \E i \in DOMAIN text : Stays(i)
      OBVIOUS
  <2>1. 1 \in 1..c
      BY <1>9
  <2>2. Place(K, 1) \in K
      BY <1>6, <2>1, AtIs
  <2>3. PICK i \in Kept(TheUse) : TRUE
      BY <1>5, <2>2
  <2> QED BY <1>1, <2>3, KeptIs
<1>13. /\ MaxExisting' \in Int /\ MaxExisting' \in {0} \cup K
       /\ (MaxExisting' = 0 => original' = <<>>)
  <2>1. /\ MaxExisting' \in Int /\ (original' # <<>> => MaxExisting' \in ToSet(original'))
        /\ (original' = <<>> => MaxExisting' = 0)
      BY <1>9, GreatestOf DEF MaxExisting
  <2>2. 0 \notin K
      BY <1>6
  <2> QED BY <1>10, <2>1, <2>2
<1>14. Continues'
  <2>1. Found' = 0
      BY <1>9, <1>7 DEF Found
  <2>2. Places' = {i \in DOMAIN text : text[i].at = "where"}
      BY <1>2 DEF Places
  <2>3. count \in Values /\ TheUse.text = text
      BY <1>1 DEF TypeInv, TypeOK, TheUse
  <2>4. MaxExisting' + Cardinality(Places') * count <= MaxU8
      BY <1>5, <1>13, <2>2, <2>3 DEF NumbersFit
  <2>5. MaxExisting' >= 0
      BY <1>6, <1>13
  <2> DEFINE w == Cardinality(Places') * count
  <2>6. MaxExisting' + w <= MaxU8
      BY <2>4
  <2> HIDE DEF w
  <2>7. MaxExisting' + Found' + w <= MaxU8
    <3>1. \A m \in Int : m + 0 = m
        OBVIOUS
    <3>2. MaxExisting' + Found' = MaxExisting'
        BY <1>13, <2>1, <3>1, Zenon
    <3> QED BY <2>6, <3>2, Zenon
  <2> QED BY <1>2, <1>7, <1>9, <1>13, <2>5, <2>7 DEF Continues, w
<1> QED BY <1>2, <1>3, <1>4, <1>11, <1>12, <1>14 DEF NumbersInv

\* After Prepare, a ? that stays stands where its value is.
LEMMA PrepareQuestions ==
    ASSUME TypeInv, TypeInv', Untouched, QuestionsInv, Prepare, QuestionsFirst(TheUse)
    PROVE  QuestionsInv'
<1> DEFINE S == Kept(TheUse)
           c == Cardinality(S)
<1>1. /\ text = base /\ means = [i \in DOMAIN base |-> Meaning(base, i)]
      /\ binds = [n \in 1..Arity(base) |-> Arg(n)] /\ dialect = "mysql"
    BY DEF Prepare, Untouched, QuestionsFirst, TheUse
<1>2. /\ text' = text /\ means' = means /\ paging' = paging /\ dialect' = dialect
      /\ oldToNew' = oldToNew /\ reordered' = reordered
      /\ binds' = IF paging THEN Trim(binds, text) ELSE binds
      /\ pc' = "start"
    BY DEF Prepare, request
<1>3. \A i : Stays(i)' <=> Stays(i)
    BY <1>2 DEF Stays
<1>4. /\ \A i \in DOMAIN text : ~Numbered(text[i])
      /\ \A i \in S : 1..i \subseteq S
      /\ \A i \in Gone(TheUse), j \in DOMAIN text : i < j => j \in Gone(TheUse)
    BY <1>1 DEF QuestionsFirst, TheUse
<1>5. /\ S \in SUBSET DOMAIN text /\ Gone(TheUse) \in SUBSET DOMAIN text
      /\ S \cap Gone(TheUse) = {}
      /\ \A i \in DOMAIN text : (i \in S <=> Stays(i)) /\ (i \in S \cup Gone(TheUse) <=> text[i].at # "where")
      /\ Gone(TheUse) = IF paging THEN Limit(text) ELSE {}
    BY <1>1, KeptIs
<1>6. DOMAIN text = 1..Len(text) /\ Len(text) \in Nat /\ text \in Seq(Token)
    BY TextsType
<1> HIDE DEF S
<1>7. \A i \in DOMAIN text : Question(text[i]) <=> i \in S \cup Gone(TheUse)
    BY <1>4, <1>5 DEF Question, Numbered
<1>8. IsFiniteSet(S) /\ c \in Nat /\ IsFiniteSet(Gone(TheUse)) /\ Cardinality(Gone(TheUse)) \in Nat
    BY <1>5, <1>6, PositionsFinite
<1>9. S = 1..c
  <2>1. S \in SUBSET (Nat \ {0})
      BY <1>5, <1>6
  <2> QED BY <1>4, <1>8, <2>1, Prefix
<1>10. Arity(text) = c + Cardinality(Gone(TheUse))
  <2>1. Numbers(text) = {}
      BY <1>4 DEF Numbers
  <2>2. {j \in DOMAIN text : j <= Len(text) /\ Question(text[j])} = S \cup Gone(TheUse)
      BY <1>5, <1>6, <1>7
  <2>3. Cardinality(S \cup Gone(TheUse)) = c + Cardinality(Gone(TheUse))
    <3>1. Cardinality(S \cup Gone(TheUse)) = c + Cardinality(Gone(TheUse)) - Cardinality(S \cap Gone(TheUse))
        BY <1>8, FS_Union
    <3>2. Cardinality(S \cap Gone(TheUse)) = 0
        BY <1>5, FS_EmptySet
    <3> QED BY <1>8, <3>1, <3>2
  <2>4. Arity(text) = Cardinality({}) + (c + Cardinality(Gone(TheUse)))
      BY <2>1, <2>2, <2>3 DEF Arity, Rank
  <2> QED BY <1>8, <2>4, FS_EmptySet
<1>11. Arity(text) \in Nat /\ binds \in Seq(Value) /\ Len(binds) = Arity(text)
  <2>1. Arity(text) \in Nat
      BY <1>8, <1>10
  <2> QED BY <1>1, <2>1 DEF TypeInv
<1>12. Len(binds') = c /\ \A i \in 1..c : binds'[i] = Arg(i)
  <2>1. CASE paging
    <3>1. Trimmed = {}
      <4>1. \A i \in Limit(text) : text[i].ph = Bare
        <5>1. \A i \in Limit(text) : i \in DOMAIN text /\ text[i].at = "limit"
            BY DEF Limit
        <5> QED BY <1>4, <5>1 DEF Numbered
      <4> QED BY <4>1 DEF Trimmed
    <3>2. binds' = SubSeq(binds, 1, Len(binds) - Cardinality(Limit(text)))
        BY <1>2, <2>1, <3>1 DEF Trim
    <3>3. Len(binds) - Cardinality(Limit(text)) = c
        BY <1>5, <1>8, <1>10, <1>11, <2>1
    <3>4. binds' = SubSeq(binds, 1, c)
        BY <3>2, <3>3
    <3>5. c <= Len(binds)
        BY <1>8, <1>10, <1>11
    <3>6. \A i \in 1..c : binds[i] = Arg(i) /\ binds[i] \in Value
        BY <1>1, <1>8, <1>11, <3>5
    <3>7. Len(SubSeq(binds, 1, c)) = c /\ \A i \in 1..c : SubSeq(binds, 1, c)[i] = binds[i]
        BY <1>8, <1>11, <3>5
    <3> QED BY <3>4, <3>6, <3>7
  <2>2. CASE ~paging
    <3>1. Gone(TheUse) = {} /\ binds' = binds
        BY <1>2, <1>5, <2>2
    <3>2. Len(binds) = c
        BY <1>8, <1>10, <1>11, <3>1, FS_EmptySet
    <3> QED BY <1>1, <1>11, <3>1, <3>2
  <2> QED BY <2>1, <2>2
<1>13. \A i \in 1..c : means[i] = Arg(i)
  <2> TAKE i \in 1..c
  <2>1. i \in DOMAIN text /\ i \in S
      BY <1>5, <1>9
  <2>2. {j \in DOMAIN text : j <= i /\ Question(text[j])} = 1..i
    <3>1. 1..i \subseteq S
        BY <1>4, <2>1
    <3>2. \A j \in 1..i : j \in DOMAIN text /\ Question(text[j]) /\ j <= i
        BY <1>5, <1>7, <3>1
    <3>3. \A j \in DOMAIN text : j <= i => j \in 1..i
        BY <1>6
    <3> QED BY <3>2, <3>3
  <2>3. Rank(text, i) = i
    <3>1. \A k \in Nat : Cardinality(1..k) = k
        BY FS_Interval
    <3>2. i \in Nat
        BY <1>8
    <3>3. Rank(text, i) = Cardinality(1..i)
        BY <2>2 DEF Rank
    <3> QED BY <3>1, <3>2, <3>3
  <2>4. ~Numbered(text[i]) /\ Question(text[i])
      BY <1>4, <1>7, <2>1
  <2> QED BY <1>1, <2>1, <2>3, <2>4 DEF Meaning
<1>14. InPlace'
  <2>1. {i \in DOMAIN text : Stays(i)} = S
      BY <1>5
  <2> QED BY <1>2, <1>3, <1>9, <1>12, <1>13, <2>1 DEF InPlace
<1>15. DOMAIN oldToNew = {} /\ reordered = <<>>
    BY <1>1 DEF QuestionsInv
<1>16. paging => \A i \in Limit(text), j \in DOMAIN text : i < j => j \in Limit(text)
    BY <1>4, <1>5
<1>17. Limit(text') = Limit(text)
    BY <1>2
<1> QED BY <1>2, <1>4, <1>14, <1>15, <1>16, <1>17 DEF QuestionsInv

-----------------------------------------------------------------------------
(* The generator and the conditions.                                       *)

\* Where the value of a number is looked for.
LEMMA PositionOf ==
    ASSUME original \in Seq(Int), NEW n \in Int, n > MaxExisting
    PROVE  BindPosition(n) = Len(original) + n - MaxExisting
<1>1. \A m \in ToSet(original) : m <= MaxExisting
    BY GreatestNumber
<1>2. n \notin ToSet(original) /\ MaxExisting \in Int
    BY <1>1, GreatestNumber
<1> QED BY <1>2 DEF BindPosition

\* After Start, the next number is the one after the greatest.
LEMMA StartNumbers ==
    ASSUME TypeInv, NumbersInv, Start PROVE NumbersInv'
<1> SUFFICES ASSUME dialect # "mysql" PROVE NumbersInv'
    BY DEF NumbersInv, Start, request
<1>1. /\ text' = text /\ means' = means /\ paging' = paging /\ dialect' = dialect /\ count' = count
      /\ binds' = binds /\ original' = original /\ pc = "start" /\ pc' = "bind"
      /\ next' = U8(U8(IF MaxExisting > 0 THEN MaxExisting ELSE Len(binds)) + 1)
    BY DEF Start, request
<1>2. /\ Resolves /\ Continues /\ \A i \in DOMAIN text : ~Question(text[i])
      /\ binds # <<>> => \E i \in DOMAIN text : Stays(i)
    BY <1>1 DEF NumbersInv
<1>3. \A i : Stays(i)' <=> Stays(i)
    BY <1>1 DEF Stays
<1>4. MaxExisting' = MaxExisting /\ \A n : BindPosition(n)' = BindPosition(n)
    BY <1>1 DEF MaxExisting, BindPosition
<1>5. Resolves'
    BY <1>1, <1>2, <1>3, <1>4 DEF Resolves
<1>6. Continues'
  <2>1. /\ Len(original) = Len(binds) /\ MaxExisting >= 0 /\ (MaxExisting = 0 => original = <<>>)
        /\ MaxExisting + Found + Cardinality(Places) * count <= MaxU8
      BY <1>1, <1>2 DEF Continues
  <2>2. Found' = Found /\ Places' = Places
      BY <1>1 DEF Found, Places
  <2>3. MaxExisting \in Int /\ Len(binds) \in Nat
      BY GreatestNumber DEF TypeInv
  <2>4. Found = 0
      BY <2>1, <2>3 DEF Found
  <2>5. (IF MaxExisting > 0 THEN MaxExisting ELSE Len(binds)) = MaxExisting
    <3>1. MaxExisting = 0 => Len(binds) = 0
        BY <2>1
    <3> QED BY <2>1, <2>3, <3>1
  <2>6. U8(MaxExisting) = MaxExisting
    <3>1. Cardinality(Places) \in Nat /\ count \in Nat
      <4>1. Places \in SUBSET DOMAIN text
          BY DEF Places
      <4> QED BY <4>1, TextsType, PositionsFinite
    <3>2. \A a, b \in Nat : a * b \in Nat
        OBVIOUS
    <3>3. Cardinality(Places) * count \in Nat
        BY <3>1, <3>2
    <3> DEFINE w == Cardinality(Places) * count
    <3>4. w \in Nat /\ MaxExisting + Found + w <= MaxU8
        BY <2>1, <3>3
    <3> HIDE DEF w
    <3>5. MaxExisting <= MaxU8
        BY <2>3, <2>4, <3>4, MaxU8Assumption
    <3> QED BY <2>1, <2>3, <3>5, U8Type, MaxU8Assumption
  <2>7. next' = U8(MaxExisting + 1)
      BY <1>1, <2>5, <2>6
  <2>8. MaxExisting + Found + 1 = MaxExisting + 1
      BY <2>3, <2>4
  <2>9. U8(MaxExisting + Found + 1)' = U8(MaxExisting + 1)
      BY <1>4, <2>2, <2>8 DEF U8
  <2> QED BY <1>1, <1>4, <2>1, <2>2, <2>7, <2>9 DEF Continues
<1> QED BY <1>1, <1>2, <1>3, <1>5, <1>6 DEF NumbersInv

\* One place for conditions less: the others move.
LEMMA PlacesLess ==
    ASSUME TypeInv, NEW i \in 1..Len(text), NEW news \in Seq(Token),
           text[i].at = "where", \A j \in 1..(i - 1) : text[j].at # "where",
           \A k \in 1..Len(news) : news[k].at = "body",
           text' = Put(text, i, news)
    PROVE  Cardinality(Places') = Cardinality(Places) - 1 /\ Cardinality(Places) \in Nat \ {0}
<1> DEFINE c == Len(news)
           f == [j \in Places \ {i} |-> j + c - 1]
<1>1. text \in Seq(Token) /\ Len(text) \in Nat /\ DOMAIN text = 1..Len(text) /\ c \in Nat
    BY TextsType
<1>2. /\ text' \in Seq(Token) /\ Len(text') = Len(text) + c - 1
      /\ \A j \in 1..Len(text) + c - 1 :
            text'[j] = IF j < i THEN text[j] ELSE IF j < i + c THEN news[j - i + 1] ELSE text[j - c + 1]
    BY <1>1, PutIs
<1>3. i \in Places /\ Places \in SUBSET DOMAIN text
    BY <1>1 DEF Places
<1>4. IsFiniteSet(Places) /\ Cardinality(Places) \in Nat
    BY <1>1, <1>3, PositionsFinite
<1>5. IsFiniteSet(Places \ {i}) /\ Cardinality(Places \ {i}) = Cardinality(Places) - 1
    BY <1>3, <1>4, FS_RemoveElement
<1>6. DOMAIN text' = 1..Len(text) + c - 1
    BY <1>2
<1> HIDE DEF c
<1>7. ASSUME NEW j \in Places \ {i} PROVE j + c - 1 \in Places' /\ i < j /\ j \in Int
  <2>1. j \in 1..Len(text) /\ text[j].at = "where" /\ j # i
      BY <1>1, <1>7 DEF Places
  <2>2. i < j
      BY <1>1, <2>1
  <2>3. j + c - 1 \in 1..Len(text) + c - 1 /\ ~(j + c - 1 < i) /\ ~(j + c - 1 < i + c)
        /\ (j + c - 1) - c + 1 = j
      BY <1>1, <2>1, <2>2
  <2>4. text'[j + c - 1] = text[j]
      BY <1>2, <2>3
  <2> QED BY <1>6, <2>1, <2>2, <2>3, <2>4 DEF Places
<1>8. ASSUME NEW k \in Places' PROVE \E j \in Places \ {i} : j + c - 1 = k
  <2>1. k \in 1..Len(text) + c - 1 /\ text'[k].at = "where"
      BY <1>6 DEF Places
  <2>2. ~(k < i)
    <3> SUFFICES ASSUME k < i PROVE FALSE
        OBVIOUS
    <3>1. k \in 1..(i - 1) /\ text'[k] = text[k]
        BY <1>1, <1>2, <2>1
    <3> QED BY <2>1, <3>1
  <2>3. ~(k < i + c)
    <3> SUFFICES ASSUME k < i + c PROVE FALSE
        OBVIOUS
    <3>1. k - i + 1 \in 1..c /\ text'[k] = news[k - i + 1]
        BY <1>1, <1>2, <2>1, <2>2
    <3> QED BY <2>1, <3>1 DEF c
  <2>4. k - c + 1 \in 1..Len(text) /\ k - c + 1 # i /\ (k - c + 1) + c - 1 = k
        /\ text'[k] = text[k - c + 1]
      BY <1>1, <1>2, <2>1, <2>2, <2>3
  <2>5. k - c + 1 \in Places \ {i}
      BY <1>1, <2>1, <2>4 DEF Places
  <2> QED BY <2>4, <2>5
<1>9. \A j \in Places \ {i} : f[j] = j + c - 1
    OBVIOUS
<1>10. f \in Bijection(Places \ {i}, Places')
  <2>1. f \in [Places \ {i} -> Places']
      BY <1>7
  <2>2. \A j, k \in Places \ {i} : f[j] = f[k] => j = k
      BY <1>1, <1>7
  <2>3. \A k \in Places' : \E j \in Places \ {i} : f[j] = k
      BY <1>8, <1>9
  <2> HIDE DEF f
  <2> QED BY <2>1, <2>2, <2>3 DEF Bijection, Injection, IsInjective, Surjection
<1>11. Cardinality(Places') = Cardinality(Places \ {i})
    BY <1>5, <1>10, FS_Bijection DEF ExistsBijection
<1>12. Cardinality(Places) # 0
    BY <1>3, <1>4, FS_EmptySet
<1> QED BY <1>4, <1>5, <1>11, <1>12

\* The three parts of a sequence with one element replaced.
LEMMA PutElements ==
    ASSUME NEW S, NEW s \in Seq(S), NEW i \in 1..Len(s), NEW x \in Seq(S),
           NEW j \in 1..Len(s) + Len(x) - 1
    PROVE  /\ j < i => Put(s, i, x)[j] = s[j]
           /\ (i <= j /\ j < i + Len(x)) => Put(s, i, x)[j] = x[j - i + 1]
           /\ i + Len(x) <= j => Put(s, i, x)[j] = s[j - Len(x) + 1]
<1> DEFINE c == Len(x)
<1>2. Put(s, i, x)[j] = IF j < i THEN s[j]
                        ELSE IF j < i + Len(x) THEN x[j - i + 1] ELSE s[j - Len(x) + 1]
    BY PutIs
<1>3. j \in Int /\ i \in Int /\ c \in Nat
    OBVIOUS
<1>4. (i <= j => ~(j < i)) /\ (i + c <= j => ~(j < i) /\ ~(j < i + c))
    BY <1>3
<1> QED BY <1>2, <1>4

\* What stands where after the conditions of a SELECT.
LEMMA ConditionsElements ==
    ASSUME TypeInv, Conditions
    PROVE  LET news == [k \in 1..count |-> [at |-> "body", ph |-> Generated(next + k - 1)]] IN
           /\ news \in Seq(Token) /\ Len(news) = count /\ count \in Nat
           /\ Len(binds') = Len(binds) + count /\ Len(binds) \in Nat
           /\ \A p \in 1..Len(binds) : binds'[p] = binds[p]
           /\ \A k \in 1..count : binds'[Len(binds) + k] = Dyn(k)
           /\ \E i \in 1..Len(text) :
                 /\ text[i].at = "where" /\ (\A j \in 1..(i - 1) : text[j].at # "where")
                 /\ text' = Put(text, i, news)
                 /\ DOMAIN text' = 1..Len(text) + count - 1
                 /\ \A j \in 1..Len(text) + count - 1 :
                       /\ j < i => text'[j] = text[j] /\ means'[j] = means[j]
                       /\ i <= j /\ j < i + count => text'[j] = news[j - i + 1] /\ means'[j] = Dyn(j - i + 1)
                       /\ i + count <= j => /\ text'[j] = text[j - count + 1]
                                            /\ means'[j] = means[j - count + 1]
<1> DEFINE news == [k \in 1..count |-> [at |-> "body", ph |-> Generated(next + k - 1)]]
           values == [k \in 1..count |-> Dyn(k)]
<1>1. /\ news \in Seq(Token) /\ values \in Seq(Value) /\ Len(news) = count /\ Len(values) = count
      /\ binds' = binds \o values /\ Len(binds') = Len(binds) + count
      /\ \E i \in 1..Len(text) :
            /\ text[i].at = "where" /\ \A j \in 1..(i - 1) : text[j].at # "where"
            /\ text' = Put(text, i, news) /\ means' = Put(means, i, values)
            /\ Len(text') = Len(text) + count - 1 /\ text' \in Seq(Token)
    BY ConditionsPut
<1>d. \A k \in 1..count : values[k] = Dyn(k)
    OBVIOUS
<1> HIDE DEF news, values
<1>2. /\ count \in Nat /\ text \in Seq(Token) /\ means \in Seq(Value) /\ binds \in Seq(Value)
      /\ Len(binds) \in Nat /\ Len(text) \in Nat /\ Len(means) = Len(text)
    BY TextsType DEF TypeInv
<1>3. /\ \A p \in 1..Len(binds) : binds'[p] = binds[p]
      /\ \A k \in 1..count : binds'[Len(binds) + k] = Dyn(k)
  <2>1. \A p \in 1..Len(binds) + count :
           binds'[p] = IF p <= Len(binds) THEN binds[p] ELSE values[p - Len(binds)]
      BY <1>1, <1>2, ConcatProperties
  <2>2. ASSUME NEW k \in 1..count PROVE binds'[Len(binds) + k] = Dyn(k)
    <3>1. Len(binds) + k \in 1..Len(binds) + count /\ ~(Len(binds) + k <= Len(binds))
          /\ (Len(binds) + k) - Len(binds) = k
        BY <1>2
    <3>2. values[k] = Dyn(k)
        BY <1>d
    <3> QED BY <2>1, <3>1, <3>2
  <2>3. ASSUME NEW p \in 1..Len(binds) PROVE binds'[p] = binds[p]
    <3>1. p \in 1..Len(binds) + count /\ p <= Len(binds)
        BY <1>2
    <3> QED BY <2>1, <3>1
  <2> QED BY <2>2, <2>3
<1>4. PICK i \in 1..Len(text) :
         /\ text[i].at = "where" /\ \A j \in 1..(i - 1) : text[j].at # "where"
         /\ text' = Put(text, i, news) /\ means' = Put(means, i, values)
         /\ Len(text') = Len(text) + count - 1 /\ text' \in Seq(Token)
    BY <1>1
<1>5. ASSUME NEW j \in 1..Len(text) + count - 1
      PROVE  /\ j < i => text'[j] = text[j]
             /\ i <= j /\ j < i + count => text'[j] = news[j - i + 1]
             /\ i + count <= j => text'[j] = text[j - count + 1]
  <2>1. text \in Seq(Token) /\ i \in 1..Len(text) /\ news \in Seq(Token) /\ count = Len(news)
        /\ j \in 1..Len(text) + Len(news) - 1
      BY <1>1, <1>2
  <2>2. j < i => Put(text, i, news)[j] = text[j]
      BY <2>1, PutElements
  <2>3. (i <= j /\ j < i + Len(news)) => Put(text, i, news)[j] = news[j - i + 1]
      BY <2>1, PutElements
  <2>4. i + Len(news) <= j => Put(text, i, news)[j] = text[j - Len(news) + 1]
      BY <2>1, PutElements
  <2> QED BY <1>4, <2>1, <2>2, <2>3, <2>4
<1>6. ASSUME NEW j \in 1..Len(text) + count - 1
      PROVE  /\ j < i => means'[j] = means[j]
             /\ i <= j /\ j < i + count => means'[j] = values[j - i + 1]
             /\ i + count <= j => means'[j] = means[j - count + 1]
  <2>1. means \in Seq(Value) /\ i \in 1..Len(means) /\ values \in Seq(Value) /\ count = Len(values)
        /\ j \in 1..Len(means) + Len(values) - 1
      BY <1>1, <1>2
  <2>2. j < i => Put(means, i, values)[j] = means[j]
      BY <2>1, PutElements
  <2>3. (i <= j /\ j < i + Len(values)) => Put(means, i, values)[j] = values[j - i + 1]
      BY <2>1, PutElements
  <2>4. i + Len(values) <= j => Put(means, i, values)[j] = means[j - Len(values) + 1]
    <3>1. ASSUME NEW s \in Seq(Value), NEW k \in 1..Len(s), NEW x \in Seq(Value), NEW m \in 1..Len(s) + Len(x) - 1
          PROVE  k + Len(x) <= m => Put(s, k, x)[m] = s[m - Len(x) + 1]
        BY PutElements
    <3> QED BY <2>1, <3>1
  <2> QED BY <1>4, <2>1, <2>2, <2>3, <2>4
<1>7. ASSUME NEW j \in 1..Len(text) + count - 1
      PROVE  /\ j < i => text'[j] = text[j] /\ means'[j] = means[j]
             /\ i <= j /\ j < i + count => text'[j] = news[j - i + 1] /\ means'[j] = Dyn(j - i + 1)
             /\ i + count <= j => text'[j] = text[j - count + 1] /\ means'[j] = means[j - count + 1]
  <2>1. ASSUME i <= j, j < i + count PROVE values[j - i + 1] = Dyn(j - i + 1)
    <3>1. j - i + 1 \in 1..count
        BY <1>2, <2>1
    <3> QED BY <1>d, <3>1
  <2> QED BY <1>5, <1>6, <2>1
<1>8. DOMAIN text' = 1..Len(text) + count - 1
    BY <1>2, <1>4
<1>9. \E p \in 1..Len(text) :
         /\ text[p].at = "where" /\ (\A j \in 1..(p - 1) : text[j].at # "where")
         /\ text' = Put(text, p, news)
         /\ DOMAIN text' = 1..Len(text) + count - 1
         /\ \A j \in 1..Len(text) + count - 1 :
               /\ j < p => text'[j] = text[j] /\ means'[j] = means[j]
               /\ p <= j /\ j < p + count => text'[j] = news[j - p + 1] /\ means'[j] = Dyn(j - p + 1)
               /\ p + count <= j => /\ text'[j] = text[j - count + 1]
                                    /\ means'[j] = means[j - count + 1]
    BY <1>4, <1>7, <1>8
<1> QED BY <1>1, <1>2, <1>3, <1>9 DEF news

\* The numbers and the values of the conditions continue those there are.
LEMMA ConditionsNumbers ==
    ASSUME TypeInv, NumbersInv, Conditions PROVE NumbersInv'
<1> SUFFICES ASSUME dialect # "mysql" PROVE NumbersInv'
    BY DEF NumbersInv, Conditions, request
<1>1. /\ paging' = paging /\ dialect' = dialect /\ count' = count /\ pc = "bind" /\ pc' = pc
      /\ original' = original /\ next' = U8(next + count)
    BY DEF Conditions, request, Next8
<1> DEFINE news == [k \in 1..count |-> [at |-> "body", ph |-> Generated(next + k - 1)]]
           b == Len(binds)
<1>2. \A k \in 1..count : news[k].at = "body" /\ news[k].ph = Generated(next + k - 1)
    OBVIOUS
<1>3. /\ news \in Seq(Token) /\ Len(news) = count /\ count \in Nat
      /\ Len(binds') = Len(binds) + count /\ Len(binds) \in Nat
      /\ \A p \in 1..Len(binds) : binds'[p] = binds[p]
      /\ \A k \in 1..count : binds'[Len(binds) + k] = Dyn(k)
      /\ \E i \in 1..Len(text) :
            /\ text[i].at = "where" /\ (\A j \in 1..(i - 1) : text[j].at # "where")
            /\ text' = Put(text, i, news)
            /\ DOMAIN text' = 1..Len(text) + count - 1
            /\ \A j \in 1..Len(text) + count - 1 :
                  /\ j < i => text'[j] = text[j] /\ means'[j] = means[j]
                  /\ i <= j /\ j < i + count => text'[j] = news[j - i + 1] /\ means'[j] = Dyn(j - i + 1)
                  /\ i + count <= j => /\ text'[j] = text[j - count + 1]
                                       /\ means'[j] = means[j - count + 1]
    BY ConditionsElements
<1>4. /\ news \in Seq(Token) /\ Len(news) = count /\ count \in Nat
      /\ Len(binds') = b + count /\ b \in Nat
      /\ \A p \in 1..b : binds'[p] = binds[p]
      /\ \A k \in 1..count : binds'[b + k] = Dyn(k)
    BY <1>3
<1> HIDE DEF news
<1>5. PICK i \in 1..Len(text) :
         /\ text[i].at = "where" /\ (\A j \in 1..(i - 1) : text[j].at # "where")
         /\ text' = Put(text, i, news)
         /\ DOMAIN text' = 1..Len(text) + count - 1
         /\ \A j \in 1..Len(text) + count - 1 :
               /\ j < i => text'[j] = text[j] /\ means'[j] = means[j]
               /\ i <= j /\ j < i + count => text'[j] = news[j - i + 1] /\ means'[j] = Dyn(j - i + 1)
               /\ i + count <= j => /\ text'[j] = text[j - count + 1]
                                    /\ means'[j] = means[j - count + 1]
    BY <1>3
<1>6. /\ Resolves /\ Continues /\ \A j \in DOMAIN text : ~Question(text[j])
      /\ binds # <<>> => \E j \in DOMAIN text : Stays(j)
    BY <1>1 DEF NumbersInv
<1>7. /\ original \in Seq(Int) /\ Len(original) \in Nat /\ MaxExisting \in Int
      /\ text \in Seq(Token) /\ DOMAIN text = 1..Len(text) /\ Len(text) \in Nat
      /\ DOMAIN binds = 1..b /\ DOMAIN binds' = 1..b + count /\ next \in 0..MaxU8
  <2>1. original \in Seq(Int) /\ Len(original) \in Nat /\ next \in 0..MaxU8 /\ DOMAIN binds = 1..b
      BY DEF TypeInv, TypeOK
  <2>2. binds' \in Seq(Value)
      BY ConditionsPut
  <2>3. DOMAIN binds' = 1..b + count
      BY <1>4, <2>2
  <2> QED BY <2>1, <2>3, GreatestNumber, TextsType
<1>8. MaxExisting' = MaxExisting /\ \A n : BindPosition(n)' = BindPosition(n)
    BY <1>1 DEF MaxExisting, BindPosition
<1> DEFINE M == MaxExisting
           P == Cardinality(Places)
           P1 == Cardinality(Places')
<1>9. P \in Nat \ {0} /\ P1 = P - 1
    BY <1>2, <1>4, <1>5, PlacesLess
<1>10. /\ Len(original) <= b /\ M >= 0 /\ (M = 0 => original = <<>>)
       /\ M + Found + P * count <= MaxU8 /\ next = U8(M + Found + 1) /\ Found = b - Len(original)
    BY <1>1, <1>6 DEF Continues, Found
<1>11. P * count = P1 * count + count /\ P1 * count \in Nat
  <2>1. \A p \in Nat \ {0}, c \in Nat : p * c = (p - 1) * c + c /\ (p - 1) * c \in Nat
      OBVIOUS
  <2> QED BY <1>4, <1>9, <2>1
<1>12. Found' = Found + count
    BY <1>1, <1>4, <1>7, <1>10 DEF Found
<1> HIDE DEF M, P, P1, b
<1> DEFINE w == P1 * count
<1>13. w \in Nat /\ M + Found + w + count <= MaxU8 /\ M \in Nat /\ Found \in Nat
  <2>1. w \in Nat /\ P * count = w + count
      BY <1>11
  <2>2. M \in Nat /\ Found \in Nat
      BY <1>4, <1>7, <1>10 DEF M
  <2> HIDE DEF w
  <2>3. M + Found + (w + count) <= MaxU8
      BY <1>10, <2>1
  <2> QED BY <1>4, <2>1, <2>2, <2>3, MaxU8Assumption
<1> HIDE DEF w
<1>14. count > 0 => next = M + Found + 1
  <2> SUFFICES ASSUME count > 0 PROVE next = M + Found + 1
      OBVIOUS
  <2>1. M + Found + 1 \in 0..MaxU8
      BY <1>4, <1>13, MaxU8Assumption
  <2> QED BY <1>10, <2>1, U8Type
<1>15. ASSUME NEW k \in 1..count
       PROVE  /\ news[k].at = "body" /\ ~Question(news[k])
              /\ BindPosition(news[k].ph) = b + k
  <2>1. next + k - 1 = M + Found + k /\ M + Found + k \in 0..MaxU8
      BY <1>4, <1>13, <1>14, MaxU8Assumption
  <2>2. news[k].ph = M + Found + k
      BY <1>2, <2>1, U8Type DEF Generated
  <2>3. M + Found + k > M /\ M + Found + k \in Int /\ M + Found + k # Bare
      BY <1>4, <1>13 DEF Bare
  <2> DEFINE n == M + Found + k
  <2>4. n \in Int /\ n > MaxExisting
      BY <2>3 DEF M
  <2> HIDE DEF n
  <2>5. BindPosition(n) = Len(original) + n - MaxExisting
      BY <1>7, <2>4, PositionOf
  <2>6. Len(original) + n - MaxExisting = b + k
      BY <1>4, <1>7, <1>10, <1>13 DEF n, M, b
  <2> QED BY <1>2, <2>2, <2>3, <2>5, <2>6 DEF n, Question
<1>16. ASSUME NEW j \in DOMAIN text'
       PROVE  /\ ~Question(text'[j])
              /\ Stays(j)' => /\ BindPosition(text'[j].ph) \in DOMAIN binds'
                              /\ binds'[BindPosition(text'[j].ph)] = means'[j]
  <2>1. j \in 1..Len(text) + count - 1 /\ j \in Int /\ i \in Int
      BY <1>5, <1>7, <1>4
  <2>2. ASSUME NEW o \in DOMAIN text, text'[j] = text[o], means'[j] = means[o]
        PROVE  /\ ~Question(text'[j])
               /\ Stays(j)' => /\ BindPosition(text'[j].ph) \in DOMAIN binds'
                               /\ binds'[BindPosition(text'[j].ph)] = means'[j]
    <3>1. Stays(j)' <=> Stays(o)
        BY <1>1, <2>2 DEF Stays
    <3>2. Stays(o) => BindPosition(text[o].ph) \in DOMAIN binds /\ binds[BindPosition(text[o].ph)] = means[o]
        BY <1>6 DEF Resolves
    <3>3. DOMAIN binds \subseteq DOMAIN binds' /\ \A p \in DOMAIN binds : binds'[p] = binds[p]
        BY <1>4, <1>7
    <3>4. ~Question(text'[j])
        BY <1>6, <2>2 DEF Question
    <3>5. ASSUME Stays(o), NEW p, p = BindPosition(text[o].ph)
          PROVE  p \in DOMAIN binds' /\ binds'[p] = means'[j]
        BY <2>2, <3>2, <3>3, <3>5
    <3> HIDE DEF Stays, BindPosition, Question
    <3> QED BY <2>2, <3>1, <3>4, <3>5
  <2>3. CASE j < i
    <3>1. j \in DOMAIN text /\ text'[j] = text[j] /\ means'[j] = means[j]
        BY <1>5, <1>7, <2>1, <2>3
    <3> QED BY <2>2, <3>1
  <2>4. CASE i <= j /\ j < i + count
    <3> DEFINE k == j - i + 1
    <3>1. k \in 1..count /\ text'[j] = news[k] /\ means'[j] = Dyn(k)
        BY <1>4, <1>5, <2>1, <2>4
    <3> HIDE DEF k
    <3>2. ~Question(news[k]) /\ BindPosition(news[k].ph) = b + k
        BY <1>15, <3>1
    <3>3. b + k \in DOMAIN binds' /\ binds'[b + k] = Dyn(k)
      <4>1. k \in 1..count /\ b \in Nat /\ count \in Nat
          BY <1>4, <3>1
      <4>2. b + k \in 1..b + count
          BY <4>1
      <4> QED BY <1>4, <1>7, <4>1, <4>2
    <3> HIDE DEF Stays, BindPosition, Question
    <3> QED BY <3>1, <3>2, <3>3
  <2>5. CASE i + count <= j
    <3>1. j - count + 1 \in 1..Len(text)
        BY <1>4, <1>7, <2>1, <2>5
    <3>2. text'[j] = text[j - count + 1] /\ means'[j] = means[j - count + 1]
        BY <1>5, <2>1, <2>5
    <3> QED BY <1>7, <2>2, <3>1, <3>2
  <2> QED BY <1>4, <2>1, <2>3, <2>4, <2>5
<1>17. Resolves'
    BY <1>8, <1>16 DEF Resolves
<1>18. Continues'
  <2>1. next' = U8(M + Found' + 1)
    <3>1. CASE count = 0
      <4>1. next' = next
          BY <1>1, <1>7, <3>1, U8Type
      <4> QED BY <1>10, <1>12, <1>13, <3>1, <4>1
    <3>2. CASE count > 0
      <4>1. next = M + Found + 1
          BY <1>14, <3>2
      <4>2. next + count = M + Found' + 1
          BY <1>4, <1>12, <1>13, <4>1
      <4> QED BY <1>1, <4>2
    <3> QED BY <1>4, <3>1, <3>2
  <2>2. MaxExisting + Found' + Cardinality(Places') * count <= MaxU8
    <3>1. M + Found' + w <= MaxU8
        BY <1>4, <1>12, <1>13, MaxU8Assumption
    <3> QED BY <3>1 DEF M, w, P1
  <2>3. Len(original) <= Len(binds')
      BY <1>4, <1>7, <1>10
  <2>4. U8(MaxExisting + Found + 1)' = U8(MaxExisting + Found' + 1)
      BY <1>8 DEF U8
  <2> QED BY <1>1, <1>8, <1>10, <2>1, <2>2, <2>3, <2>4 DEF Continues, M
<1>19. binds' # <<>> => \E j \in DOMAIN text' : Stays(j)'
  <2>1. CASE count > 0
    <3>1. i \in DOMAIN text' /\ text'[i] = news[1] /\ 1 \in 1..count
      <4>1. i \in 1..Len(text) + count - 1 /\ i <= i /\ i < i + count /\ i - i + 1 = 1 /\ 1 \in 1..count
          BY <1>4, <1>7, <2>1
      <4> QED BY <1>5, <4>1
    <3>2. Stays(i)'
        BY <1>2, <3>1 DEF Stays
    <3> QED BY <3>1, <3>2
  <2>2. CASE count = 0
    <3> SUFFICES ASSUME binds' # <<>> PROVE \E j \in DOMAIN text' : Stays(j)'
        OBVIOUS
    <3>1. binds # <<>>
      <4>1. binds' \in Seq(Value) /\ Len(binds') # 0
          BY ConditionsPut
      <4> QED BY <1>4, <2>2, <4>1 DEF b
    <3>2. PICK j \in DOMAIN text : Stays(j)
        BY <1>6, <3>1
    <3>3. j # i
        BY <1>5, <3>2 DEF Stays
    <3>4. CASE j < i
      <4>1. j \in DOMAIN text' /\ text'[j] = text[j]
          BY <1>5, <1>7, <2>2, <3>4
      <4>2. Stays(j)'
          BY <1>1, <3>2, <4>1 DEF Stays
      <4> QED BY <4>1, <4>2
    <3>5. CASE i < j
      <4>1. j - 1 \in 1..Len(text) + count - 1 /\ i + count <= j - 1 /\ (j - 1) - count + 1 = j
          BY <1>5, <1>7, <2>2, <3>5
      <4>2. j - 1 \in DOMAIN text' /\ text'[j - 1] = text[j]
          BY <1>5, <4>1
      <4>3. Stays(j - 1)'
          BY <1>1, <3>2, <4>2 DEF Stays
      <4> QED BY <4>2, <4>3
    <3> QED BY <1>7, <3>3, <3>4, <3>5
  <2> QED BY <1>4, <2>1, <2>2
<1> QED BY <1>1, <1>16, <1>17, <1>18, <1>19 DEF NumbersInv

\* The conditions stand behind each ? that stays, as their values stand behind
\* the others.
LEMMA ConditionsQuestions ==
    ASSUME TypeInv, QuestionsInv, Conditions PROVE QuestionsInv'
<1> SUFFICES ASSUME dialect = "mysql" PROVE QuestionsInv'
    BY DEF QuestionsInv, Conditions, request
<1>1. /\ paging' = paging /\ dialect' = dialect /\ pc = "bind" /\ pc' = pc
      /\ oldToNew' = oldToNew /\ reordered' = reordered
    BY DEF Conditions, request
<1> DEFINE news == [k \in 1..count |-> [at |-> "body", ph |-> Generated(next + k - 1)]]
           b == Len(binds)
           l == Len(text)
<1>2. \A k \in 1..count : news[k].at = "body" /\ ~Numbered(news[k])
    BY DEF Generated, Numbered
<1>3. /\ Len(binds') = Len(binds) + count /\ Len(binds) \in Nat /\ count \in Nat
      /\ \A p \in 1..Len(binds) : binds'[p] = binds[p]
      /\ \A k \in 1..count : binds'[Len(binds) + k] = Dyn(k)
      /\ \E i \in 1..Len(text) :
            /\ text[i].at = "where" /\ (\A j \in 1..(i - 1) : text[j].at # "where")
            /\ text' = Put(text, i, news)
            /\ DOMAIN text' = 1..Len(text) + count - 1
            /\ \A j \in 1..Len(text) + count - 1 :
                  /\ j < i => text'[j] = text[j] /\ means'[j] = means[j]
                  /\ i <= j /\ j < i + count => text'[j] = news[j - i + 1] /\ means'[j] = Dyn(j - i + 1)
                  /\ i + count <= j => /\ text'[j] = text[j - count + 1]
                                       /\ means'[j] = means[j - count + 1]
    BY ConditionsElements
<1>4. /\ Len(binds') = b + count /\ b \in Nat /\ count \in Nat
      /\ \A p \in 1..b : binds'[p] = binds[p]
      /\ \A k \in 1..count : binds'[b + k] = Dyn(k)
    BY <1>3
<1> HIDE DEF news
<1>5. PICK i \in 1..l :
         /\ text[i].at = "where" /\ (\A j \in 1..(i - 1) : text[j].at # "where")
         /\ DOMAIN text' = 1..l + count - 1
         /\ \A j \in 1..l + count - 1 :
               /\ j < i => text'[j] = text[j] /\ means'[j] = means[j]
               /\ i <= j /\ j < i + count => text'[j] = news[j - i + 1] /\ means'[j] = Dyn(j - i + 1)
               /\ i + count <= j => /\ text'[j] = text[j - count + 1]
                                    /\ means'[j] = means[j - count + 1]
    BY <1>3
<1>6. /\ InPlace /\ DOMAIN oldToNew = {} /\ reordered = <<>>
      /\ \A j \in DOMAIN text : ~Numbered(text[j])
      /\ paging => \A j \in Limit(text), k \in DOMAIN text : j < k => k \in Limit(text)
    BY <1>1 DEF QuestionsInv
<1>7. /\ {j \in DOMAIN text : Stays(j)} = 1..b /\ \A j \in 1..b : means[j] = binds[j]
      /\ DOMAIN text = 1..l /\ l \in Nat /\ \A j \in DOMAIN text : text[j].at \in {"body", "limit", "where"}
    BY <1>6, TextsType, TokensAre DEF InPlace
<1> HIDE DEF b, l
<1>8. i = b + 1
  <2>1. i \notin 1..b
      BY <1>5, <1>7 DEF Stays
  <2>2. ASSUME NEW j \in 1..(i - 1) PROVE j \in 1..b
    <3>1. j \in DOMAIN text /\ i \in DOMAIN text /\ j < i /\ text[j].at # "where"
        BY <1>5, <1>7
    <3>2. Stays(j)
      <4> SUFFICES ASSUME ~Stays(j) PROVE FALSE
          OBVIOUS
      <4>1. text[j].at = "limit" /\ paging
          BY <1>7, <3>1 DEF Stays
      <4>2. j \in Limit(text)
          BY <3>1, <4>1 DEF Limit
      <4>3. i \in Limit(text)
          BY <1>6, <3>1, <4>1, <4>2
      <4> QED BY <1>5, <4>3 DEF Limit
    <3> QED BY <1>7, <3>1, <3>2
  <2>3. \A x, y \in Nat : x >= 1 /\ (\A j \in 1..(x - 1) : j \in 1..y) /\ x \notin 1..y => x = y + 1
    <3> TAKE x \in Nat, y \in Nat
    <3> SUFFICES ASSUME x >= 1, \A j \in 1..(x - 1) : j \in 1..y, x \notin 1..y PROVE x = y + 1
        OBVIOUS
    <3>1. x > y
        OBVIOUS
    <3>2. x > 1 => x - 1 \in 1..y
        OBVIOUS
    <3> QED BY <3>1, <3>2
  <2>4. i \in Nat /\ i >= 1
      BY <1>5, <1>7
  <2> QED BY <1>4, <2>1, <2>2, <2>3, <2>4
<1>9. ASSUME NEW j \in 1..b + count PROVE j \in DOMAIN text' /\ Stays(j)' /\ means'[j] = binds'[j]
  <2>1. j \in 1..l + count - 1
      BY <1>4, <1>5, <1>7, <1>8
  <2>2. CASE j < i
    <3>1. j \in 1..b
        BY <1>4, <1>8, <2>2
    <3>2. Stays(j) /\ text'[j] = text[j] /\ means'[j] = means[j]
        BY <1>5, <1>7, <2>1, <2>2, <3>1
    <3>3. Stays(j)'
        BY <1>1, <3>2 DEF Stays
    <3> QED BY <1>4, <1>5, <1>7, <2>1, <3>1, <3>2, <3>3
  <2>3. CASE ~(j < i)
    <3> DEFINE k == j - i + 1
    <3>1. k \in 1..count /\ i <= j /\ j < i + count /\ b + k = j
        BY <1>4, <1>8, <2>3
    <3>2. text'[j] = news[k] /\ means'[j] = Dyn(k)
        BY <1>5, <2>1, <3>1
    <3> HIDE DEF k
    <3>3. Stays(j)'
        BY <1>2, <3>1, <3>2 DEF Stays
    <3>4. binds'[j] = Dyn(k)
        BY <1>4, <3>1
    <3> QED BY <1>5, <2>1, <3>2, <3>3, <3>4
  <2> QED BY <2>2, <2>3
<1>10. ASSUME NEW j \in DOMAIN text', ~(j \in 1..b + count)
       PROVE  /\ j \in Int /\ j - count + 1 \in DOMAIN text /\ b < j - count + 1
              /\ text'[j] = text[j - count + 1] /\ ~Stays(j)'
  <2>1. j \in Int /\ j \in 1..l + count - 1 /\ i + count <= j
    <3>1. j \in 1..l + count - 1
        BY <1>5
    <3> QED BY <1>4, <1>7, <1>8, <1>10, <3>1
  <2>2. j - count + 1 \in 1..l /\ ~(j - count + 1 \in 1..b) /\ b < j - count + 1
      BY <1>4, <1>7, <1>8, <2>1
  <2>3. text'[j] = text[j - count + 1]
      BY <1>5, <2>1
  <2>4. ~Stays(j - count + 1)
      BY <1>7, <2>2
  <2>5. ~Stays(j)'
      BY <1>1, <2>3, <2>4 DEF Stays
  <2> QED BY <1>7, <2>1, <2>2, <2>3, <2>5
<1>11. InPlace'
  <2>1. {j \in DOMAIN text' : Stays(j)'} = 1..b + count
      BY <1>9, <1>10
  <2> QED BY <1>4, <1>9, <2>1 DEF InPlace
<1>12. ASSUME NEW j \in DOMAIN text' PROVE ~Numbered(text'[j])
  <2>1. j \in 1..l + count - 1 /\ j \in Int /\ i \in Int
      BY <1>4, <1>5, <1>7
  <2>2. CASE j < i
    <3>1. j \in DOMAIN text /\ text'[j] = text[j]
        BY <1>5, <1>7, <2>1, <2>2
    <3> QED BY <1>6, <3>1
  <2>3. CASE i <= j /\ j < i + count
    <3>1. j - i + 1 \in 1..count
        BY <1>4, <2>1, <2>3
    <3>2. text'[j] = news[j - i + 1]
        BY <1>5, <2>1, <2>3
    <3> QED BY <1>2, <3>1, <3>2
  <2>4. CASE i + count <= j
    <3>1. j - count + 1 \in 1..l
        BY <1>4, <1>7, <2>1, <2>4
    <3>2. text'[j] = text[j - count + 1]
        BY <1>5, <2>1, <2>4
    <3> QED BY <1>6, <1>7, <3>1, <3>2
  <2> QED BY <1>4, <2>1, <2>2, <2>3, <2>4
<1>13. ASSUME paging, NEW j \in Limit(text'), NEW k \in DOMAIN text', j < k PROVE k \in Limit(text')
  <2>1. j \in DOMAIN text' /\ text'[j].at = "limit"
      BY DEF Limit
  <2>2. ~Stays(j)'
      BY <1>1, <1>13, <2>1 DEF Stays
  <2>3. ~(j \in 1..b + count)
      BY <1>9, <2>2
  <2>4. j \in Int /\ j - count + 1 \in DOMAIN text /\ text'[j] = text[j - count + 1] /\ b < j - count + 1
      BY <1>10, <2>1, <2>3
  <2>5. ~(k \in 1..b + count) /\ k \in Int
    <3>1. k \in 1..l + count - 1
        BY <1>5
    <3> QED BY <1>4, <1>7, <1>13, <2>4, <3>1
  <2>6. k - count + 1 \in DOMAIN text /\ text'[k] = text[k - count + 1]
      BY <1>10, <2>5
  <2>7. j - count + 1 \in Limit(text) /\ j - count + 1 < k - count + 1
      BY <1>4, <1>13, <2>1, <2>4, <2>5 DEF Limit
  <2>8. k - count + 1 \in Limit(text)
      BY <1>6, <1>13, <2>6, <2>7
  <2> QED BY <2>6, <2>8 DEF Limit
<1> QED BY <1>1, <1>6, <1>11, <1>12, <1>13 DEF QuestionsInv

\* Start changes nothing that the ? are about.
LEMMA StartQuestions ==
    ASSUME QuestionsInv, Start PROVE QuestionsInv'
<1>1. /\ text' = text /\ means' = means /\ paging' = paging /\ dialect' = dialect
      /\ binds' = binds /\ pc = "start" /\ pc' = "bind" /\ oldToNew' = oldToNew /\ reordered' = reordered
    BY DEF Start, request
<1>2. \A i : Stays(i)' <=> Stays(i)
    BY <1>1 DEF Stays
<1>3. InPlace => InPlace'
    BY <1>1, <1>2 DEF InPlace
<1>4. Limit(text') = Limit(text)
    BY <1>1
<1> QED BY <1>1, <1>3, <1>4 DEF QuestionsInv

-----------------------------------------------------------------------------
(* LIMIT and OFFSET, and the last pass.                                    *)

\* What Page leaves is what stays.
LEMMA PageLeaves ==
    ASSUME TypeInv, Page
    PROVE  LET kept == {i \in DOMAIN text : Stays(i)}
           IN  /\ kept \in SUBSET Int /\ IsFiniteSet(kept) /\ Cardinality(kept) \in Nat
               /\ text' = At(text, kept) /\ means' = At(means, kept)
               /\ DOMAIN text' = 1..Cardinality(kept)
<1> DEFINE kept == {i \in DOMAIN text : Stays(i)}
<1>1. \A i \in DOMAIN text : text[i].at \in {"body", "limit"}
  <2>1. \A i \in DOMAIN text : text[i].at \in {"body", "limit", "where"} /\ text[i].at # "where"
      BY TextsType, TokensAre DEF Page
  <2> QED BY <2>1
<1>2. kept = IF paging THEN DOMAIN text \ Limit(text) ELSE DOMAIN text
  <2>1. \A i \in DOMAIN text : Stays(i) <=> IF paging THEN i \notin Limit(text) ELSE TRUE
      BY <1>1 DEF Stays, Limit
  <2> QED BY <2>1
<1> HIDE DEF kept
<1>3. PICK k \in SUBSET DOMAIN text :
         /\ k = IF paging THEN DOMAIN text \ Limit(text) ELSE DOMAIN text
         /\ k \in SUBSET Int /\ IsFiniteSet(k) /\ Cardinality(k) \in Nat
         /\ text' = At(text, k) /\ means' = At(means, k)
         /\ text' \in Seq(Token) /\ Len(text') = Cardinality(k)
    BY PagePut
<1>4. k = kept
    BY <1>2, <1>3
<1>5. DOMAIN text' = 1..Cardinality(k)
    BY <1>3
<1> QED BY <1>3, <1>4, <1>5 DEF kept

\* Each token that Page leaves was one that stays, and each that stays is left.
LEMMA PageTokens ==
    ASSUME TypeInv, Page
    PROVE  /\ \A j \in DOMAIN text' : \E i \in DOMAIN text :
                 Stays(i) /\ text'[j] = text[i] /\ means'[j] = means[i]
           /\ (\E i \in DOMAIN text : Stays(i)) => \E j \in DOMAIN text' : TRUE
<1> DEFINE kept == {i \in DOMAIN text : Stays(i)}
<1>1. /\ kept \in SUBSET Int /\ IsFiniteSet(kept) /\ Cardinality(kept) \in Nat
      /\ text' = At(text, kept) /\ means' = At(means, kept) /\ DOMAIN text' = 1..Cardinality(kept)
    BY PageLeaves
<1>2. (\A i \in kept : i \in DOMAIN text /\ Stays(i)) /\ (\A i \in DOMAIN text : Stays(i) => i \in kept)
    OBVIOUS
<1> HIDE DEF kept
<1>3. /\ \A j \in 1..Cardinality(kept) : Place(kept, j) \in kept /\ At(text, kept)[j] = text[Place(kept, j)]
      /\ \A i \in kept : Nth(kept, i) \in 1..Cardinality(kept)
    BY <1>1, AtIs
<1>4. \A j \in 1..Cardinality(kept) : At(means, kept)[j] = means[Place(kept, j)]
    BY <1>1, AtIs
<1> QED BY <1>1, <1>2, <1>3, <1>4

\* All that is left stays.
LEMMA PageUntouched ==
    ASSUME TypeInv, Page PROVE \A j \in DOMAIN text' : Stays(j)'
<1>1. paging' = paging
    BY DEF Page, request
<1> QED BY <1>1, PageTokens DEF Stays

LEMMA PageNumbers ==
    ASSUME TypeInv, Untouched, NumbersInv, Page PROVE NumbersInv'
<1> SUFFICES ASSUME dialect # "mysql" PROVE NumbersInv'
    BY DEF NumbersInv, Page, request
<1>1. /\ paging' = paging /\ dialect' = dialect /\ pc = "bind" /\ pc' = "number"
      /\ binds' = binds /\ original' = original /\ oldToNew' = oldToNew /\ reordered' = reordered
      /\ pos' = pos /\ pos = 0
    BY DEF Page, request, TypeInv
<1>2. /\ Resolves /\ \A i \in DOMAIN text : ~Question(text[i])
      /\ binds # <<>> => \E i \in DOMAIN text : Stays(i)
    BY <1>1 DEF NumbersInv
<1>3. \A j \in DOMAIN text' : \E i \in DOMAIN text :
          Stays(i) /\ text'[j] = text[i] /\ means'[j] = means[i]
    BY PageTokens
<1>4. \A n : BindPosition(n)' = BindPosition(n)
    BY <1>1 DEF MaxExisting, BindPosition
<1>5. Resolves'
    BY <1>1, <1>2, <1>3, <1>4 DEF Resolves
<1>6. \A j \in DOMAIN text' : ~Question(text'[j])
    BY <1>2, <1>3
<1>7. binds' # <<>> => \E j \in DOMAIN text' : Stays(j)'
  <2>1. (\E i \in DOMAIN text : Stays(i)) => \E j \in DOMAIN text' : TRUE
      BY PageTokens
  <2> QED BY <1>1, <1>2, <2>1, PageUntouched
<1>8. Moved'
  <2>1. DOMAIN oldToNew' = {} /\ reordered' = <<>> /\ pos' = 0
      BY <1>1 DEF Untouched
  <2>2. {text'[i].ph : i \in 1..pos'} = {}
      BY <2>1
  <2>3. Cardinality(DOMAIN oldToNew') = 0
      BY <2>1, FS_EmptySet
  <2>4. Len(reordered') = 0 /\ DOMAIN reordered' = {}
      BY <2>1
  <2> QED BY <2>1, <2>2, <2>3, <2>4 DEF Moved
<1> QED BY <1>1, <1>5, <1>6, <1>7, <1>8 DEF NumbersInv

LEMMA PageQuestions ==
    ASSUME TypeInv, QuestionsInv, Page PROVE QuestionsInv'
<1> SUFFICES ASSUME dialect = "mysql" PROVE QuestionsInv'
    BY DEF QuestionsInv, Page, request
<1> DEFINE kept == {i \in DOMAIN text : Stays(i)}
           b == Len(binds)
<1>1. /\ paging' = paging /\ dialect' = dialect /\ pc = "bind" /\ pc' = "number"
      /\ binds' = binds /\ oldToNew' = oldToNew /\ reordered' = reordered
    BY DEF Page, request
<1>2. /\ InPlace /\ \A i \in DOMAIN text : ~Numbered(text[i])
      /\ DOMAIN oldToNew = {} /\ reordered = <<>>
    BY <1>1 DEF QuestionsInv
<1>3. kept = 1..b /\ (\A i \in 1..b : means[i] = binds[i]) /\ b \in Nat
    BY <1>2 DEF InPlace, TypeInv
<1>4. /\ kept \in SUBSET Int /\ IsFiniteSet(kept) /\ Cardinality(kept) \in Nat
      /\ text' = At(text, kept) /\ means' = At(means, kept) /\ DOMAIN text' = 1..Cardinality(kept)
    BY PageLeaves
<1> HIDE DEF kept, b
<1>5. kept \in SUBSET (Nat \ {0}) /\ \A p \in kept : 1..p \subseteq kept
  <2>1. \A a \in Nat : 1..a \in SUBSET (Nat \ {0}) /\ \A p \in 1..a : 1..p \subseteq 1..a
      OBVIOUS
  <2> QED BY <1>3, <2>1, Zenon
<1>6. kept = 1..Cardinality(kept) /\ \A p \in kept : Place(kept, p) = p
    BY <1>4, <1>5, Prefix
<1>7. \A j \in kept : means'[j] = means[j]
  <2>1. \A j \in 1..Cardinality(kept) : At(means, kept)[j] = means[Place(kept, j)]
      BY <1>4, AtIs
  <2> QED BY <1>4, <1>6, <2>1
<1>8. DOMAIN text' = 1..b /\ \A i \in 1..b : means'[i] = binds[i]
    BY <1>3, <1>4, <1>6, <1>7
<1>9. InPlace'
    BY <1>1, <1>8, PageUntouched DEF InPlace, b
<1>10. \A j \in DOMAIN text' : ~Numbered(text'[j])
    BY <1>2, PageTokens
<1> QED BY <1>1, <1>2, <1>9, <1>10 DEF QuestionsInv

\* A number met for the first time gets the next number, and its value the next
\* place.
LEMMA RenumberNumbers ==
    ASSUME TypeInv, TypeInv', Untouched, NumbersInv, Renumber PROVE NumbersInv'
<1> SUFFICES ASSUME dialect # "mysql" PROVE NumbersInv'
    BY DEF NumbersInv, Renumber, request
<1>1. /\ paging' = paging /\ dialect' = dialect /\ pc = "number" /\ pc' = pc
      /\ text' = text /\ means' = means /\ binds' = binds /\ original' = original
      /\ pos < Len(text) /\ pos' = pos + 1
    BY DEF Renumber, request
<1>2. /\ Resolves /\ Moved /\ \A i \in DOMAIN text : ~Question(text[i])
      /\ binds # <<>> => \E i \in DOMAIN text : Stays(i)
    BY <1>1 DEF NumbersInv
<1>3. \A i \in DOMAIN text : Stays(i)
    BY <1>1 DEF Untouched
<1>4. (\A i : Stays(i)' <=> Stays(i)) /\ \A n : BindPosition(n)' = BindPosition(n)
    BY <1>1 DEF Stays, MaxExisting, BindPosition
<1>5. Resolves'
    BY <1>1, <1>2, <1>4 DEF Resolves
<1> DEFINE p == pos + 1
           n == text[p].ph
<1>6. /\ pos \in Nat /\ p \in DOMAIN text /\ 1..p = (1..pos) \cup {p}
  <2>1. pos \in 0..Len(text) /\ Len(text) \in Nat /\ DOMAIN text = 1..Len(text)
      BY TextsType DEF TypeInv, TypeOK
  <2> QED BY <1>1, <2>1
<1>7. Numbered(text[p])
    BY <1>2, <1>3, <1>6 DEF Numbered, Question, Stays
<1>8. {text[i].ph : i \in 1..p} = {text[i].ph : i \in 1..pos} \cup {n}
    BY <1>6
<1>9. /\ DOMAIN oldToNew = {text[i].ph : i \in 1..pos}
      /\ Len(reordered) = Cardinality(DOMAIN oldToNew)
      /\ \A m \in DOMAIN oldToNew :
            oldToNew[m] \in DOMAIN reordered /\ reordered[oldToNew[m]] = binds[BindPosition(m)]
      /\ \A k \in DOMAIN reordered : \E m \in DOMAIN oldToNew : oldToNew[m] = k
    BY <1>2 DEF Moved
<1>10. /\ IsFiniteSet(DOMAIN oldToNew) /\ Cardinality(DOMAIN oldToNew) \in Nat
       /\ reordered \in Seq(Value) /\ binds \in Seq(Value)
       /\ DOMAIN reordered = 1..Len(reordered) /\ Len(reordered) \in Nat
    BY FS_CardinalityType DEF TypeInv
<1>11. BindPosition(n) \in DOMAIN binds
    BY <1>2, <1>3, <1>6 DEF Resolves
<1> HIDE DEF n, p
<1>12. CASE n \in DOMAIN oldToNew
  <2>1. oldToNew' = oldToNew /\ reordered' = reordered
      BY <1>1, <1>12 DEF Renumber, Fresh, n, p
  <2>2. DOMAIN oldToNew = {text[i].ph : i \in 1..p}
      BY <1>8, <1>9, <1>12
  <2>3. /\ DOMAIN oldToNew' = {text[i].ph : i \in 1..p}
        /\ Len(reordered') = Cardinality(DOMAIN oldToNew')
        /\ \A m \in DOMAIN oldToNew' :
              oldToNew'[m] \in DOMAIN reordered' /\ reordered'[oldToNew'[m]] = binds[BindPosition(m)]
        /\ \A k \in DOMAIN reordered' : \E m \in DOMAIN oldToNew' : oldToNew'[m] = k
      BY <1>9, <2>1, <2>2
  <2>4. Moved'
    <3> HIDE DEF BindPosition
    <3> QED BY <1>1, <1>4, <2>3 DEF Moved, p
  <2> QED BY <1>1, <1>2, <1>4, <1>5, <2>4 DEF NumbersInv
<1>13. CASE n \notin DOMAIN oldToNew
  <2> DEFINE c == Cardinality(DOMAIN oldToNew)
             v == binds[BindPosition(n)]
  <2>1. /\ oldToNew' = [m \in DOMAIN oldToNew \cup {n} |-> IF m = n THEN c + 1 ELSE oldToNew[m]]
        /\ reordered' = IF BindPosition(n) \in DOMAIN binds THEN Append(reordered, v) ELSE reordered
      BY <1>1, <1>7, <1>13 DEF Renumber, Fresh, n, p
  <2>2. v \in Value
      BY <1>10, <1>11
  <2>3. reordered' = Append(reordered, v)
      BY <1>11, <2>1
  <2> HIDE DEF v, c
  <2>4. /\ DOMAIN oldToNew' = DOMAIN oldToNew \cup {n} /\ oldToNew'[n] = c + 1
        /\ \A m \in DOMAIN oldToNew : oldToNew'[m] = oldToNew[m]
      BY <1>13, <2>1
  <2>5. Cardinality(DOMAIN oldToNew') = c + 1 /\ Len(reordered) = c /\ c \in Nat
    <3>1. Cardinality(DOMAIN oldToNew \cup {n}) = Cardinality(DOMAIN oldToNew) + 1
        BY <1>10, <1>13, FS_AddElement
    <3> QED BY <1>9, <1>10, <2>4, <3>1, Zenon DEF c
  <2>6. /\ Len(reordered') = c + 1 /\ DOMAIN reordered' = 1..(c + 1)
        /\ (\A k \in 1..c : reordered'[k] = reordered[k]) /\ reordered'[c + 1] = v
      BY <1>10, <2>2, <2>3, <2>5
  <2>7. DOMAIN reordered = 1..c /\ 1..(c + 1) = (1..c) \cup {c + 1}
      BY <1>10, <2>5
  <2>8. DOMAIN oldToNew' = {text[i].ph : i \in 1..p}
      BY <1>8, <1>9, <2>4
  <2>9. ASSUME NEW m \in DOMAIN oldToNew'
        PROVE  oldToNew'[m] \in DOMAIN reordered' /\ reordered'[oldToNew'[m]] = binds[BindPosition(m)]
    <3>1. CASE m \in DOMAIN oldToNew
        BY <1>9, <2>4, <2>6, <2>7, <3>1
    <3>2. CASE m = n
        BY <2>4, <2>6, <2>7, <3>2 DEF v
    <3> QED BY <2>4, <3>1, <3>2
  <2>10. ASSUME NEW k \in DOMAIN reordered' PROVE \E m \in DOMAIN oldToNew' : oldToNew'[m] = k
    <3>1. CASE k \in DOMAIN reordered
        BY <1>9, <2>4, <3>1
    <3>2. CASE k = c + 1
        BY <2>4, <3>2
    <3> QED BY <2>6, <2>7, <3>1, <3>2
  <2>11. Moved'
      BY <1>1, <1>4, <2>5, <2>6, <2>8, <2>9, <2>10 DEF Moved, p
  <2> QED BY <1>1, <1>2, <1>4, <1>5, <2>11 DEF NumbersInv
<1> QED BY <1>12, <1>13

\* The last pass leaves a ? alone.
LEMMA RenumberQuestions ==
    ASSUME TypeInv, QuestionsInv, Renumber PROVE QuestionsInv'
<1> SUFFICES ASSUME dialect = "mysql" PROVE QuestionsInv'
    BY DEF QuestionsInv, Renumber, request
<1>1. /\ paging' = paging /\ dialect' = dialect /\ pc = "number" /\ pc' = pc
      /\ text' = text /\ means' = means /\ binds' = binds /\ pos < Len(text) /\ pos' = pos + 1
    BY DEF Renumber, request
<1>2. InPlace /\ (\A i \in DOMAIN text : ~Numbered(text[i])) /\ DOMAIN oldToNew = {} /\ reordered = <<>>
    BY <1>1 DEF QuestionsInv
<1>3. pos + 1 \in DOMAIN text
  <2>1. pos \in 0..Len(text) /\ Len(text) \in Nat /\ DOMAIN text = 1..Len(text)
      BY TextsType DEF TypeInv, TypeOK
  <2> QED BY <1>1, <2>1
<1>4. oldToNew' = oldToNew /\ reordered' = reordered
    BY <1>1, <1>2, <1>3 DEF Renumber, Fresh
<1>5. InPlace'
    BY <1>1, <1>2 DEF InPlace, Stays
<1> QED BY <1>1, <1>2, <1>4, <1>5 DEF QuestionsInv

-----------------------------------------------------------------------------
(* What is sent.                                                           *)

\* Each number asks for the value it was given in the last pass.
LEMMA SendNumbers ==
    ASSUME TypeInv, Untouched, NumbersInv, Send, dialect # "mysql"
    PROVE  BoundAsMeant' /\ ArgumentsMatch' /\ NumbersInv'
<1>1. /\ paging' = paging /\ dialect' = dialect /\ pc = "number" /\ pc' = "sent" /\ means' = means
      /\ pos = Len(text)
    BY DEF Send, request
<1>2. /\ Resolves /\ Moved /\ \A i \in DOMAIN text : ~Question(text[i])
      /\ binds # <<>> => \E i \in DOMAIN text : Stays(i)
    BY <1>1 DEF NumbersInv
<1>3. \A i \in DOMAIN text : Stays(i)
    BY <1>1 DEF Untouched
<1>4. /\ DOMAIN oldToNew = {text[i].ph : i \in 1..Len(text)}
      /\ Len(reordered) = Cardinality(DOMAIN oldToNew)
      /\ \A m \in DOMAIN oldToNew :
            oldToNew[m] \in DOMAIN reordered /\ reordered[oldToNew[m]] = binds[BindPosition(m)]
      /\ \A k \in DOMAIN reordered : \E m \in DOMAIN oldToNew : oldToNew[m] = k
    BY <1>1, <1>2 DEF Moved
<1>5. /\ DOMAIN text = 1..Len(text) /\ Len(text) \in Nat /\ text \in Seq(Token) /\ binds \in Seq(Value)
      /\ reordered \in Seq(Value) /\ IsFiniteSet(DOMAIN oldToNew)
      /\ \A m \in DOMAIN oldToNew : oldToNew[m] \in Nat
    BY TextsType DEF TypeInv, TypeOK
<1>6. CASE reordered = <<>>
  <2>1. text' = text /\ binds' = binds
      BY <1>6 DEF Send
  <2>2. DOMAIN oldToNew = {}
    <3>1. Cardinality(DOMAIN oldToNew) = 0
        BY <1>4, <1>6
    <3> QED BY <1>5, <3>1, FS_EmptySet
  <2>3. DOMAIN text = {}
    <3>1. \A i \in 1..Len(text) : text[i].ph \in DOMAIN oldToNew
        BY <1>4
    <3> QED BY <1>5, <2>2, <3>1
  <2>4. binds = <<>>
      BY <1>2, <2>3
  <2>5. BoundAsMeant'
      BY <2>1, <2>3 DEF BoundAsMeant
  <2>6. ArgumentsMatch'
    <3>1. DOMAIN binds' = {} /\ DOMAIN text' = {}
        BY <2>1, <2>3, <2>4
    <3>2. {Asks(i)' : i \in DOMAIN text'} = {}
        BY <3>1
    <3> QED BY <3>1, <3>2 DEF ArgumentsMatch
  <2>7. NumbersInv'
      BY <1>1, <1>2, <2>1 DEF NumbersInv
  <2> QED BY <2>5, <2>6, <2>7
<1>7. CASE reordered # <<>>
  <2>1. /\ binds' = reordered
        /\ text' = [i \in DOMAIN text |->
                      IF Numbered(text[i]) THEN [text[i] EXCEPT !.ph = oldToNew[@]] ELSE text[i]]
      BY <1>7 DEF Send
  <2>2. ASSUME NEW i \in DOMAIN text
        PROVE  /\ text[i].ph \in DOMAIN oldToNew /\ Numbered(text'[i]) /\ ~Question(text'[i])
               /\ text'[i].ph = oldToNew[text[i].ph] /\ binds[BindPosition(text[i].ph)] = means[i]
    <3>1. text[i] \in Token /\ text[i].at # "where" /\ Numbered(text[i])
        BY <1>2, <1>3, <1>5 DEF Numbered, Question, Stays
    <3>2. text[i].ph \in DOMAIN oldToNew
        BY <1>4, <1>5
    <3>3. oldToNew[text[i].ph] \in Int /\ oldToNew[text[i].ph] # Bare
        BY <1>5, <3>2 DEF Bare
    <3>4. text'[i] = [text[i] EXCEPT !.ph = oldToNew[text[i].ph]]
        BY <2>1, <3>1
    <3>5. text'[i].at # "where" /\ text'[i].ph = oldToNew[text[i].ph]
        BY <3>1, <3>3, <3>4, TokensAre
    <3>6. Numbered(text'[i]) /\ ~Question(text'[i])
        BY <3>3, <3>5 DEF Numbered, Question
    <3>7. binds[BindPosition(text[i].ph)] = means[i]
        BY <1>2, <1>3 DEF Resolves
    <3> QED BY <3>2, <3>5, <3>6, <3>7
  <2>3. DOMAIN text' = DOMAIN text
      BY <2>1
  <2>4. ASSUME NEW i \in DOMAIN text PROVE Asks(i)' = oldToNew[text[i].ph]
      BY <2>2 DEF Asks
  <2>5. ASSUME NEW i \in DOMAIN text PROVE Given(i)' = means'[i]
    <3>1. Asks(i)' \in DOMAIN binds' /\ binds'[Asks(i)'] = binds[BindPosition(text[i].ph)]
        BY <1>4, <2>1, <2>2, <2>4
    <3>2. Given(i)' = binds'[Asks(i)']
        BY <3>1 DEF Given
    <3> QED BY <1>1, <2>2, <3>1, <3>2
  <2>6. BoundAsMeant'
      BY <2>3, <2>5 DEF BoundAsMeant
  <2>7. ArgumentsMatch'
    <3>1. {Asks(i)' : i \in DOMAIN text'} = {oldToNew[text[i].ph] : i \in DOMAIN text}
        BY <2>3, <2>4
    <3>2. DOMAIN reordered = {oldToNew[text[i].ph] : i \in DOMAIN text}
      <4>1. \A i \in DOMAIN text : oldToNew[text[i].ph] \in DOMAIN reordered
          BY <1>4, <2>2
      <4>2. ASSUME NEW k \in DOMAIN reordered PROVE \E i \in DOMAIN text : oldToNew[text[i].ph] = k
        <5>1. PICK n \in DOMAIN oldToNew : oldToNew[n] = k
            BY <1>4
        <5>2. PICK i \in DOMAIN text : text[i].ph = n
            BY <1>4, <1>5
        <5> QED BY <5>1, <5>2
      <4> QED BY <4>1, <4>2
    <3> QED BY <2>1, <3>1, <3>2 DEF ArgumentsMatch
  <2>8. NumbersInv'
      BY <1>1, <2>2, <2>3 DEF NumbersInv
  <2> QED BY <2>6, <2>7, <2>8
<1> QED BY <1>6, <1>7

\* Each ? asks for the value of its rank, which is its position.
LEMMA SendQuestions ==
    ASSUME TypeInv, Untouched, QuestionsInv, Send, dialect = "mysql"
    PROVE  BoundAsMeant' /\ ArgumentsMatch' /\ QuestionsInv'
<1>1. /\ paging' = paging /\ dialect' = dialect /\ pc = "number" /\ pc' = "sent" /\ means' = means
      /\ oldToNew' = oldToNew /\ reordered' = reordered
    BY DEF Send, request
<1>2. InPlace /\ (\A i \in DOMAIN text : ~Numbered(text[i])) /\ DOMAIN oldToNew = {} /\ reordered = <<>>
    BY <1>1 DEF QuestionsInv
<1>3. \A i \in DOMAIN text : Stays(i)
    BY <1>1 DEF Untouched
<1>4. text' = text /\ binds' = binds
    BY <1>2 DEF Send
<1>5. DOMAIN text = 1..Len(text) /\ Len(text) \in Nat /\ binds \in Seq(Value) /\ DOMAIN binds = 1..Len(binds)
    BY TextsType DEF TypeInv
<1>6. DOMAIN text = DOMAIN binds /\ \A i \in DOMAIN text : means[i] = binds[i]
  <2>1. {i \in DOMAIN text : Stays(i)} = 1..Len(binds) /\ \A i \in 1..Len(binds) : means[i] = binds[i]
      BY <1>2 DEF InPlace
  <2>2. DOMAIN text = 1..Len(binds)
      BY <1>3, <2>1
  <2> QED BY <1>5, <2>1, <2>2
<1>7. \A i \in DOMAIN text : Question(text[i])
    BY <1>2, <1>3 DEF Question, Numbered, Stays
<1>8. ASSUME NEW i \in DOMAIN text PROVE Rank(text, i) = i
  <2>1. {j \in DOMAIN text : j <= i /\ Question(text[j])} = 1..i
    <3>1. \A j \in 1..i : j \in DOMAIN text /\ j <= i
        BY <1>5
    <3>2. \A j \in DOMAIN text : j <= i => j \in 1..i
        BY <1>5
    <3> QED BY <1>7, <3>1, <3>2
  <2>2. \A k \in Nat : Cardinality(1..k) = k
      BY FS_Interval
  <2>3. i \in Nat
      BY <1>5
  <2> QED BY <2>1, <2>2, <2>3 DEF Rank
<1>9. ASSUME NEW i \in DOMAIN text PROVE Asks(i)' = i
  <2>1. Asks(i)' = Rank(text, i)
      BY <1>2, <1>4 DEF Asks
  <2> QED BY <1>8, <2>1
<1>10. BoundAsMeant'
  <2>1. \A i \in DOMAIN text' : Given(i)' = means'[i]
      BY <1>1, <1>4, <1>6, <1>9 DEF Given
  <2> QED BY <2>1 DEF BoundAsMeant
<1>11. ArgumentsMatch'
  <2>1. {Asks(i)' : i \in DOMAIN text'} = DOMAIN text
      BY <1>4, <1>9
  <2> QED BY <1>4, <1>6, <2>1 DEF ArgumentsMatch
<1>12. QuestionsInv'
    BY <1>1, <1>2, <1>4 DEF QuestionsInv
<1> QED BY <1>10, <1>11, <1>12

-----------------------------------------------------------------------------
(* The invariant holds.                                                    *)

LEMMA UntouchedStep ==
    ASSUME TypeInv, Untouched, Next PROVE Untouched'
<1>1. base' = base /\ count' = count /\ paging' = paging /\ dialect' = dialect
    BY DEF Next, Prepare, Start, Conditions, Page, Renumber, Send, request
<1>2. TheUse' \in Uses
    BY <1>1 DEF Untouched, TheUse
<1>3. pc' # "trim"
    BY DEF Next, Prepare, Start, Conditions, Page, Renumber, Send, TypeInv, TypeOK
<1>4. pc' \in {"start", "bind"} => DOMAIN oldToNew' = {} /\ reordered' = <<>>
    BY DEF Next, Prepare, Start, Conditions, Page, Renumber, Send, Untouched
<1>5. pc' = "number" => \A i \in DOMAIN text' : Stays(i)'
  <2>1. CASE Page
      BY <2>1, PageUntouched
  <2>2. CASE Renumber
      BY <1>1, <2>2 DEF Renumber, Untouched, Stays
  <2> QED BY <2>1, <2>2 DEF Next, Prepare, Start, Conditions, Send
<1> QED BY <1>2, <1>3, <1>4, <1>5 DEF Untouched

\* The uses are those for which the scheme is sound.
UsesSound == \A use \in Uses : Sound(use)

LEMMA BoundStart ==
    ASSUME UsesSound, Init PROVE BoundInv
<1>1. PICK use \in Uses : base = use.text /\ paging = use.paging /\ dialect = use.dialect
    BY DEF Init
<1>2. use \in Use
    BY <1>1, UsesAssumption
<1>3. TheUse = use
    BY <1>1, <1>2 DEF TheUse, Use
<1>4. Untouched
    BY <1>1, <1>3 DEF Untouched, Init
<1>5. TypeInv
    BY TypeStart
<1>6. Sound(TheUse) /\ TheUse.text = text /\ TheUse.dialect = dialect /\ pc = "trim"
    BY <1>1, <1>3 DEF UsesSound, TheUse, Init
<1>7. NumbersInv
    BY <1>6 DEF NumbersInv, Sound, NumbersInOrder, QuestionsFirst
<1>8. QuestionsInv
  <2>1. DOMAIN oldToNew = {} /\ reordered = <<>>
      BY DEF Init
  <2> QED BY <1>6, <2>1 DEF QuestionsInv, Sound, NumbersInOrder, QuestionsFirst
<1> QED BY <1>4, <1>5, <1>6, <1>7, <1>8 DEF BoundInv, BoundAsMeant, ArgumentsMatch

LEMMA BoundStep ==
    ASSUME UsesSound, BoundInv, [Next]_vars PROVE BoundInv'
<1>1. TypeInv /\ Untouched /\ NumbersInv /\ QuestionsInv /\ BoundAsMeant /\ ArgumentsMatch
    BY DEF BoundInv
<1>2. TypeInv'
    BY <1>1, TypeStep
<1>3. CASE UNCHANGED vars
  <2>1. /\ base' = base /\ count' = count /\ paging' = paging /\ dialect' = dialect /\ pc' = pc
        /\ text' = text /\ means' = means /\ binds' = binds /\ original' = original /\ next' = next
        /\ pos' = pos /\ oldToNew' = oldToNew /\ reordered' = reordered
      BY <1>3 DEF vars
  <2>2. Untouched'
      BY <1>1, <2>1 DEF Untouched, TheUse, Stays
  <2>3. NumbersInv'
    <3>1. (\A i : Stays(i)' <=> Stays(i)) /\ (\A n : BindPosition(n)' = BindPosition(n))
          /\ MaxExisting' = MaxExisting /\ Found' = Found /\ Places' = Places
        BY <2>1 DEF Stays, BindPosition, MaxExisting, Found, Places
    <3>2. Resolves' <=> Resolves
        BY <2>1, <3>1 DEF Resolves
    <3>3. Continues' <=> Continues
        BY <2>1, <3>1 DEF Continues, U8
    <3>4. Moved' <=> Moved
        BY <2>1, <3>1 DEF Moved
    <3> QED BY <1>1, <2>1, <3>1, <3>2, <3>3, <3>4 DEF NumbersInv
  <2>4. QuestionsInv'
      BY <1>1, <2>1 DEF QuestionsInv, InPlace, Stays
  <2>5. BoundAsMeant' /\ ArgumentsMatch'
    <3>1. (\A i : Asks(i)' = Asks(i)) /\ (\A i : Given(i)' = Given(i))
        BY <2>1 DEF Asks, Given
    <3> QED BY <1>1, <2>1, <3>1 DEF BoundAsMeant, ArgumentsMatch
  <2> QED BY <1>2, <2>2, <2>3, <2>4, <2>5 DEF BoundInv
<1>4. CASE Next
  <2>1. Untouched'
      BY <1>1, <1>4, UntouchedStep
  <2>2. dialect' = dialect
      BY <1>4 DEF Next, Prepare, Start, Conditions, Page, Renumber, Send, request
  <2>3. NumbersInv'
    <3>1. CASE dialect = "mysql"
        BY <2>2, <3>1 DEF NumbersInv
    <3>2. CASE dialect # "mysql"
      <4>1. CASE Prepare
        <5>1. NumbersInOrder(TheUse) /\ NumbersFit(TheUse)
            BY <1>1, <3>2 DEF Untouched, UsesSound, Sound, QuestionsFirst, TheUse
        <5> QED BY <1>1, <1>2, <4>1, <5>1, PrepareNumbers
      <4>2. CASE Start
          BY <1>1, <4>2, StartNumbers
      <4>3. CASE Conditions
          BY <1>1, <4>3, ConditionsNumbers
      <4>4. CASE Page
          BY <1>1, <4>4, PageNumbers
      <4>5. CASE Renumber
          BY <1>1, <1>2, <4>5, RenumberNumbers
      <4>6. CASE Send
          BY <1>1, <3>2, <4>6, SendNumbers
      <4> QED BY <1>4, <4>1, <4>2, <4>3, <4>4, <4>5, <4>6 DEF Next
    <3> QED BY <3>1, <3>2
  <2>4. QuestionsInv'
    <3>1. CASE dialect # "mysql"
        BY <2>2, <3>1 DEF QuestionsInv
    <3>2. CASE dialect = "mysql"
      <4>1. CASE Prepare
        <5>1. QuestionsFirst(TheUse)
            BY <1>1, <3>2 DEF Untouched, UsesSound, Sound, NumbersInOrder, TheUse
        <5> QED BY <1>1, <1>2, <4>1, <5>1, PrepareQuestions
      <4>2. CASE Start
          BY <1>1, <4>2, StartQuestions
      <4>3. CASE Conditions
          BY <1>1, <4>3, ConditionsQuestions
      <4>4. CASE Page
          BY <1>1, <4>4, PageQuestions
      <4>5. CASE Renumber
          BY <1>1, <4>5, RenumberQuestions
      <4>6. CASE Send
          BY <1>1, <3>2, <4>6, SendQuestions
      <4> QED BY <1>4, <4>1, <4>2, <4>3, <4>4, <4>5, <4>6 DEF Next
    <3> QED BY <3>1, <3>2
  <2>5. BoundAsMeant' /\ ArgumentsMatch'
    <3>1. CASE Send
        BY <1>1, <3>1, SendNumbers, SendQuestions
    <3>2. CASE ~Send
      <4>1. pc' # "sent"
          BY <1>4, <3>2 DEF Next, Prepare, Start, Conditions, Page, Renumber
      <4> QED BY <4>1 DEF BoundAsMeant, ArgumentsMatch
    <3> QED BY <3>1, <3>2
  <2> QED BY <1>2, <2>1, <2>3, <2>4, <2>5 DEF BoundInv
<1> QED BY <1>3, <1>4

LEMMA Bound ==
    ASSUME UsesSound PROVE Spec => []BoundInv
<1>1. Init => BoundInv
    BY BoundStart
<1>2. BoundInv /\ [Next]_vars => BoundInv'
    BY BoundStep
<1> QED BY <1>1, <1>2, PTL DEF Spec

\* For every sound query, however many SELECTs take the conditions of the
\* request and however many values these have: each placeholder of the statement
\* gets the parameter its author named, or the value of the condition it belongs
\* to, after trimming, after numbering, and after the values were moved.
THEOREM PlaceholdersGetTheirValues ==
    ASSUME UsesSound PROVE Spec => []BoundAsMeant
<1>1. BoundInv => BoundAsMeant
    BY DEF BoundInv
<1> QED BY <1>1, Bound, PTL

\* For every sound query, the statement asks for all the values that are sent
\* and for no other: the renumbering leaves neither a gap nor a value over.
THEOREM EveryValueIsAskedFor ==
    ASSUME UsesSound PROVE Spec => []ArgumentsMatch
<1>1. BoundInv => ArgumentsMatch
    BY DEF BoundInv
<1> QED BY <1>1, Bound, PTL
===============================================================================
