----------------------- MODULE OffsetPagination_proofs -----------------------
(***************************************************************************)
(* What holds of Serial and Slice pages for every table, every page size   *)
(* and every number of other writers.                                      *)
(***************************************************************************)
EXTENDS OffsetPagination, FiniteSetTheorems, TLAPS

-----------------------------------------------------------------------------
(* Ranks.  Keys are unique, so the rows of a table are numbered from 1 in  *)
(* the order of the statement, and a page is an interval of these numbers. *)

Rank(t, r) == Cardinality({s \in t : Key[s] <= Key[r]})

\* Tables are finite, and none has more rows than there may be.
LEMMA TableFinite ==
    ASSUME NEW t \in SUBSET Row
    PROVE  IsFiniteSet(t) /\ Cardinality(t) \in Nat /\ Cardinality(t) <= Cardinality(Row)
BY RowAssumption, FS_Subset, FS_CardinalityType

\* Keys are numbers.
LEMMA KeyInt == \A r \in Row : Key[r] \in Int
BY KeyAssumption

\* A row has a rank; the rows of a table are numbered up to their number.
LEMMA RankType ==
    ASSUME NEW t \in SUBSET Row, NEW r \in t
    PROVE  Rank(t, r) \in 1..Cardinality(t)
<1> DEFINE below == {s \in t : Key[s] <= Key[r]}
<1>1. below \in SUBSET t /\ r \in below
  BY KeyInt
<1>2. IsFiniteSet(below) /\ Cardinality(below) \in Nat /\ Cardinality(below) <= Cardinality(t)
  BY <1>1, TableFinite, FS_Subset, FS_CardinalityType
<1>3. Cardinality(below) # 0
  BY <1>1, <1>2, FS_EmptySet
<1> QED
  BY <1>2, <1>3, TableFinite DEF Rank

\* Rows that go lower no rank, and rows that come raise none.
LEMMA RankMonotone ==
    ASSUME NEW t \in SUBSET Row, NEW u \in SUBSET t, NEW r
    PROVE  Rank(u, r) <= Rank(t, r) /\ Rank(u, r) \in Nat /\ Rank(t, r) \in Nat
<1> DEFINE low(x) == {s \in x : Key[s] <= Key[r]}
<1>1. low(t) \in SUBSET Row /\ low(u) \in SUBSET low(t) /\ low(u) \in SUBSET Row
  OBVIOUS
<1>2. IsFiniteSet(low(t)) /\ Cardinality(low(t)) \in Nat /\ Cardinality(low(u)) \in Nat
  BY <1>1, TableFinite
<1>3. Cardinality(low(u)) <= Cardinality(low(t))
  BY <1>1, <1>2, FS_Subset
<1> QED
  BY <1>2, <1>3 DEF Rank

\* Ranks follow the keys.
LEMMA RankOrder ==
    ASSUME NEW t \in SUBSET Row, NEW r \in t, NEW s \in t, Key[r] < Key[s]
    PROVE  Rank(t, r) < Rank(t, s)
<1> DEFINE low(x) == {y \in t : Key[y] <= Key[x]}
<1>1. low(r) \in SUBSET (low(s) \ {s}) /\ s \in low(s) /\ low(s) \in SUBSET Row
  BY KeyInt
<1>2. IsFiniteSet(low(s)) /\ Cardinality(low(s)) \in Nat
  BY <1>1, TableFinite
<1>3. IsFiniteSet(low(s) \ {s}) /\ Cardinality(low(s) \ {s}) = Cardinality(low(s)) - 1
  BY <1>1, <1>2, FS_RemoveElement
<1>4. Cardinality(low(r)) <= Cardinality(low(s) \ {s}) /\ Cardinality(low(r)) \in Nat
  BY <1>1, <1>3, FS_Subset, TableFinite
<1> QED
  BY <1>2, <1>3, <1>4 DEF Rank

\* No two rows have the same rank.
LEMMA RankInjective ==
    ASSUME NEW t \in SUBSET Row, NEW r \in t, NEW s \in t, Rank(t, r) = Rank(t, s)
    PROVE  r = s
<1> SUFFICES ASSUME r # s PROVE FALSE
  OBVIOUS
<1>1. Key[r] # Key[s] /\ Key[r] \in Int /\ Key[s] \in Int
  BY KeyAssumption DEF IsInjective
<1>2. Rank(t, r) \in Int /\ Rank(t, s) \in Int
  BY RankType, TableFinite
<1>3. CASE Key[r] < Key[s]
  BY <1>2, <1>3, RankOrder
<1>4. CASE Key[s] < Key[r]
  BY <1>2, <1>4, RankOrder
<1> QED
  BY <1>1, <1>3, <1>4

\* Every number up to the size of the table is the rank of a row.
LEMMA RankOnto ==
    ASSUME NEW t \in SUBSET Row, NEW i \in 1..Cardinality(t)
    PROVE  \E r \in t : Rank(t, r) = i
<1> DEFINE n == Cardinality(t)
           f == [r \in t |-> Rank(t, r)]
<1>1. n \in Nat /\ IsFiniteSet(t)
  BY TableFinite
<1>2. f \in [t -> 1..n]
  BY RankType
<1>3. \A r, s \in t : f[r] = f[s] => r = s
  BY RankInjective
<1>4. f \in Injection(t, 1..n)
  <2> HIDE DEF f
  <2> QED
    BY <1>2, <1>3 DEF Injection, IsInjective
<1>5. IsFiniteSet(1..n) /\ Cardinality(1..n) = n
  BY <1>1, FS_Interval
<1>6. f \in Surjection(t, 1..n)
  BY <1>4, <1>5, FS_Injection
<1> QED
  BY <1>6 DEF Surjection

\* A page is what its name says.
LEMMA RankedIs ==
    ASSUME NEW t, NEW a, NEW b
    PROVE  Ranked(t, a, b) = {r \in t : Rank(t, r) \in a..b}
BY DEF Ranked, Rank

\* How many rows an interval of ranks holds.
LEMMA RankedCardinality ==
    ASSUME NEW t \in SUBSET Row, NEW a \in Nat \ {0}, NEW b \in Int
    PROVE  /\ IsFiniteSet(Ranked(t, a, b))
           /\ Cardinality(Ranked(t, a, b)) = Cardinality(a..Min2(b, Cardinality(t)))
           /\ Cardinality(a..Min2(b, Cardinality(t))) =
                IF a > Min2(b, Cardinality(t)) THEN 0 ELSE Min2(b, Cardinality(t)) - a + 1
<1> DEFINE m == Min2(b, Cardinality(t))
           cut == Ranked(t, a, b)
           f == [r \in cut |-> Rank(t, r)]
<1>1. m \in Int /\ m <= b /\ m <= Cardinality(t) /\ Cardinality(t) \in Nat
      /\ (m = b \/ m = Cardinality(t))
  BY TableFinite DEF Min2
<1>2. cut = {r \in t : Rank(t, r) \in a..b}
  BY RankedIs
<1>3. \A r \in t : Rank(t, r) \in 1..Cardinality(t)
  BY RankType
<1> HIDE DEF m, cut
<1>4. f \in [cut -> a..m]
  BY <1>1, <1>2, <1>3
<1>5. \A r, s \in cut : f[r] = f[s] => r = s
  BY <1>2, RankInjective
<1>6. \A i \in a..m : \E r \in cut : f[r] = i
  BY <1>1, <1>2, RankOnto
<1>7. f \in Bijection(cut, a..m)
  <2> HIDE DEF f
  <2>1. f \in Injection(cut, a..m)
    BY <1>4, <1>5 DEF Injection, IsInjective
  <2>2. f \in Surjection(cut, a..m)
    BY <1>4, <1>6 DEF Surjection
  <2> QED
    BY <2>1, <2>2 DEF Bijection
<1>8. ExistsBijection(cut, a..m)
  BY <1>7 DEF ExistsBijection
<1>9. cut \in SUBSET Row /\ IsFiniteSet(cut)
  BY <1>2, TableFinite
<1>10. Cardinality(a..m) = Cardinality(cut)
  BY <1>8, <1>9, FS_Bijection
<1>11. Cardinality(a..m) = IF a > m THEN 0 ELSE m - a + 1
  BY <1>1, FS_Interval
<1> QED
  BY <1>9, <1>10, <1>11 DEF m, cut

\* Within a page that starts at rank a, ranks count from there.
LEMMA RankWithin ==
    ASSUME NEW t \in SUBSET Row, NEW a \in Nat \ {0}, NEW b \in Int, NEW r \in Ranked(t, a, b)
    PROVE  Rank(Ranked(t, a, b), r) = Rank(t, r) - (a - 1)
<1> DEFINE cut == Ranked(t, a, b)
           k == Rank(t, r)
<1>1. cut = {s \in t : Rank(t, s) \in a..b}
  BY RankedIs
<1>2. r \in t /\ k \in a..b /\ k \in 1..Cardinality(t) /\ Cardinality(t) \in Nat
  BY <1>1, RankType, TableFinite
<1>3. ASSUME NEW s \in t PROVE Key[s] <= Key[r] <=> Rank(t, s) <= k
  <2>1. Key[s] \in Int /\ Key[r] \in Int /\ Rank(t, s) \in Int /\ k \in Int
    BY <1>2, KeyInt, RankType, TableFinite
  <2>2. Key[s] < Key[r] => Rank(t, s) < k
    BY <1>2, RankOrder
  <2>3. Key[r] < Key[s] => k < Rank(t, s)
    BY <1>2, RankOrder
  <2>4. Key[s] = Key[r] => s = r
    BY <1>2, KeyAssumption DEF IsInjective
  <2> HIDE DEF k
  <2> QED
    BY <2>1, <2>2, <2>3, <2>4 DEF k
<1>4. {s \in cut : Key[s] <= Key[r]} = {s \in t : Rank(t, s) \in a..k}
  <2> HIDE DEF k, cut
  <2>1. \A s \in t : Rank(t, s) \in Int
    BY RankType, TableFinite
  <2> QED
    BY <1>1, <1>2, <1>3, <2>1
<1>5. {s \in t : Rank(t, s) \in a..k} = Ranked(t, a, k)
  BY RankedIs
<1>6. Cardinality(Ranked(t, a, k)) = k - a + 1
  <2> HIDE DEF k
  <2>1. Min2(k, Cardinality(t)) = k
    BY <1>2 DEF Min2
  <2> QED
    BY <1>2, <2>1, RankedCardinality
<1>7. Rank(cut, r) = k - a + 1
  BY <1>4, <1>5, <1>6 DEF Rank
<1> QED
  BY <1>2, <1>7

-----------------------------------------------------------------------------
(* The answer to a statement lists its rows by rank.                       *)

Listed(u) == [i \in 1..Cardinality(u) |-> CHOOSE r \in u : Ranked(u, i, i) = {r}]

\* The row of rank i stands at place i, and every row stands at its rank.
LEMMA ListedByRank ==
    ASSUME NEW u \in SUBSET Row
    PROVE  /\ Listed(u) \in Seq(u) /\ Len(Listed(u)) = Cardinality(u)
           /\ \A i \in 1..Cardinality(u) : Rank(u, Listed(u)[i]) = i
           /\ \A r \in u : Rank(u, r) \in 1..Cardinality(u) /\ Listed(u)[Rank(u, r)] = r
<1> DEFINE n == Cardinality(u)
           at(i) == CHOOSE r \in u : Ranked(u, i, i) = {r}
<1>1. n \in Nat /\ \A r \in u : Rank(u, r) \in 1..n
  BY TableFinite, RankType
<1>2. ASSUME NEW i \in 1..n PROVE at(i) \in u /\ Rank(u, at(i)) = i
  <2>1. PICK r \in u : Rank(u, r) = i
    BY RankOnto
  <2>2. Ranked(u, i, i) = {r}
    <3>1. Ranked(u, i, i) = {s \in u : Rank(u, s) \in i..i}
      BY RankedIs
    <3>2. \A s \in u : Rank(u, s) \in i..i => s = r
      BY <1>1, <1>2, <2>1, RankInjective
    <3>3. Rank(u, r) \in i..i
      BY <1>2, <2>1
    <3> QED
      BY <3>1, <3>2, <3>3
  <2>3. at(i) \in u /\ Ranked(u, i, i) = {at(i)}
    BY <2>2
  <2> QED
    BY <2>1, <2>2, <2>3
<1>3. Listed(u) = [i \in 1..n |-> at(i)]
  BY DEF Listed
<1> HIDE DEF at
<1>4. Listed(u) \in Seq(u) /\ Len(Listed(u)) = n
  BY <1>1, <1>2, <1>3
<1>5. \A r \in u : at(Rank(u, r)) = r
  BY <1>1, <1>2, RankInjective
<1> QED
  BY <1>1, <1>2, <1>3, <1>4, <1>5

\* The last rank a statement asks for.
Upto(q, t) == IF q.limit = None THEN Cardinality(t) ELSE From(q) + FetchLimit(q)

\* What a statement with LIMIT and OFFSET answers is a page of the table.
LEMMA AnswerIs ==
    ASSUME NEW q, NEW t
    PROVE  Answer(q, t) = Listed(Ranked(t, From(q) + 1, Upto(q, t)))
BY DEF Answer, Listed, Upto

-----------------------------------------------------------------------------
(* The requests a client sends: what into_params makes of a page number    *)
(* and a page size.                                                        *)

Sent(q) ==
    /\ q \in Request
    /\ q.pagination # "None" =>
         /\ q.page \in 1..MaxU32 /\ q.limit = q.size /\ q.offset = Offset(q.page, q.size)
         /\ \E size \in Sizes : q.size = AtLeastOne(size)
    /\ q.walking => q.pagination = q.method

\* A page size is at least one row and fits a u32.
LEMMA SizeType == \A size \in Sizes : AtLeastOne(size) \in 1..MaxU32
BY NumbersAssumption DEF AtLeastOne

\* An offset is a u32, however large the page number: both steps saturate.
LEMMA OffsetType ==
    ASSUME NEW n \in 1..MaxU32, NEW size \in 1..MaxU32
    PROVE  /\ Offset(n, size) \in U32
           /\ (n - 1) * size \in Nat
           /\ Offset(n, size) = (n - 1) * size \/ (Offset(n, size) = MaxU32 /\ (n - 1) * size > MaxU32)
<1> DEFINE k == (n - 1) * size
<1>1. k \in Nat /\ MaxU32 \in Nat
  BY NumbersAssumption
<1>2. Offset(n, size) = Min2(k, MaxU32)
  BY DEF Offset
<1> HIDE DEF k
<1>3. Offset(n, size) \in U32 /\ (Offset(n, size) = k \/ (Offset(n, size) = MaxU32 /\ k > MaxU32))
  BY <1>1, <1>2 DEF Min2, U32
<1> QED
  BY <1>1, <1>3 DEF k

\* Both ways of asking for a page by its number.
LEMMA PagedSent ==
    ASSUME NEW method \in Methods, NEW pagination \in Paginations \ {"None"}, NEW n \in U32,
           NEW counted \in BOOLEAN, NEW walking \in BOOLEAN, walking => pagination = method,
           NEW size \in Int, \E s \in Sizes : AtLeastOne(size) = AtLeastOne(s)
    PROVE  Sent(Paged(method, pagination, n, size, counted, walking))
<1> DEFINE m == AtLeastOne(n)
           z == AtLeastOne(size)
<1>1. m \in 1..MaxU32 /\ z \in 1..MaxU32 /\ 1..MaxU32 \in SUBSET U32
  BY SizeType, NumbersAssumption DEF AtLeastOne, U32
<1>2. Offset(m, z) \in U32
  BY <1>1, OffsetType
<1> HIDE DEF m, z
<1>3. Paged(method, pagination, n, size, counted, walking) =
        [method |-> method, pagination |-> pagination, page |-> m, size |-> z,
         counted |-> counted, limit |-> z, offset |-> Offset(m, z), walking |-> walking]
  BY DEF Paged, m, z
<1>4. Paged(method, pagination, n, size, counted, walking) \in Request
  BY <1>1, <1>2, <1>3 DEF Request
<1>5. \E s \in Sizes : z = AtLeastOne(s)
  BY DEF z
<1> QED
  BY <1>1, <1>3, <1>4, <1>5 DEF Sent

\* A limit and an offset without pagination.
LEMMA PlainSent ==
    ASSUME NEW method \in Methods, "None" \in Paginations,
           NEW limit \in U32 \cup {None}, NEW offset \in U32 \cup {None}
    PROVE  Sent(Plain(method, limit, offset))
BY NumbersAssumption DEF Plain, Sent, Request, U32

\* The rows a statement asks for start and end at natural numbers.
LEMMA BoundsType ==
    ASSUME NEW q \in Request
    PROVE  /\ From(q) \in U32
           /\ q.limit # None => FetchLimit(q) \in U32
<1>1. MaxU32 \in Nat /\ q.limit \in U32 \cup {None} /\ q.offset \in U32 \cup {None}
  BY NumbersAssumption DEF Request
<1> QED
  BY <1>1 DEF From, FetchLimit, U32, None

\* An answer is a sequence of rows of the table it reads, one each.
LEMMA AnswerType ==
    ASSUME NEW q \in Request, NEW t \in SUBSET Row
    PROVE  Answer(q, t) \in Seq(Row)
<1> DEFINE cut == Ranked(t, From(q) + 1, Upto(q, t))
<1>1. cut \in SUBSET Row
  BY DEF Ranked
<1>2. Listed(cut) \in Seq(cut)
  BY <1>1, ListedByRank
<1> HIDE DEF cut
<1>3. Listed(cut) \in Seq(Row)
  BY <1>1, <1>2
<1> QED
  BY <1>3, AnswerIs DEF cut

-----------------------------------------------------------------------------
(* Types.  A response is well formed whatever pagination its request has.  *)

\* The number of pages is said in a u32.
LEMMA TotalPagesType ==
    ASSUME NEW n \in Nat, NEW size \in Nat \ {0}
    PROVE  TotalPages(n, size) \in U32
<1> DEFINE pages == (n + size - 1) \div size
<1>1. pages \in Nat
  OBVIOUS
<1> HIDE DEF pages
<1>2. TotalPages(n, size) = IF pages <= MaxU32 THEN pages ELSE 1
  BY DEF TotalPages, pages
<1> QED
  BY <1>1, <1>2, NumbersAssumption DEF U32

\* So is the page number computed from an offset.
LEMMA PageOfOffsetType ==
    ASSUME NEW offset \in U32, NEW size \in U32 \ {0}
    PROVE  PageOfOffset(offset, size) \in U32
<1> DEFINE k == offset \div size
<1>1. MaxU32 \in Nat /\ offset \in 0..MaxU32 /\ size \in 1..MaxU32
  BY NumbersAssumption DEF U32
<1>2. k \in 0..MaxU32
  <2>1. k \in Int /\ k >= 0
    BY <1>1
  <2>2. k <= offset
    BY <1>1
  <2> QED
    BY <1>1, <2>1, <2>2
<1> HIDE DEF k
<1>3. PageOfOffset(offset, size) = IF k = MaxU32 THEN 0 ELSE k + 1
  BY DEF PageOfOffset, k
<1> QED
  BY <1>1, <1>2, <1>3 DEF U32

\* The size a response states is at least one.
LEMMA PageSizeType ==
    ASSUME NEW q \in Request
    PROVE  PageSize(q) \in U32 \ {0}
<1>1. q.limit \in U32 \cup {None} /\ MaxU32 \in Nat /\ DefaultLimit \in 1..MaxU32
  BY NumbersAssumption DEF Request
<1> QED
  BY <1>1 DEF PageSize, AtLeastOne, U32, None

\* Trimming keeps the first rows, at most the page size of them.
LEMMA TrimmedType ==
    ASSUME NEW fetched \in Seq(Row), NEW size \in Nat
    PROVE  /\ Trimmed(fetched, size) \in Seq(Row)
           /\ Len(Trimmed(fetched, size)) = Min2(size, Len(fetched))
           /\ \A i \in 1..Min2(size, Len(fetched)) : Trimmed(fetched, size)[i] = fetched[i]
<1> DEFINE m == Min2(size, Len(fetched))
<1>1. m \in 0..Len(fetched)
  BY DEF Min2
<1> HIDE DEF m
<1>2. Trimmed(fetched, size) = SubSeq(fetched, 1, m)
  BY DEF Trimmed, m
<1>3. SubSeq(fetched, 1, m) \in Seq(Row) /\ Len(SubSeq(fetched, 1, m)) = m
      /\ \A i \in 1..m : SubSeq(fetched, 1, m)[i] = fetched[i]
  BY <1>1
<1> QED
  BY <1>2, <1>3 DEF m

\* Whatever was asked, fetched and counted, the method answers with a page.
LEMMA NewPageType ==
    ASSUME NEW q, Sent(q), NEW fetched \in Seq(Row), NEW n \in Nat
    PROVE  NewPage(q, fetched, n) \in Page /\ NewPage(q, fetched, n) # NoPage
<1>0. q \in Request /\ q.method \in {"Serial", "Slice"} /\ 1..MaxU32 \in SUBSET (U32 \ {0})
      /\ {0, 1} \in SUBSET U32 /\ U32 \in SUBSET Nat /\ q.page \in U32
      /\ q.counted \in BOOLEAN
  <2>1. q \in Request
    BY DEF Sent
  <2>2. MaxU32 \in Nat /\ MaxU32 >= 1
    BY NumbersAssumption
  <2>3. q.method \in Methods /\ q.page \in U32 /\ q.counted \in BOOLEAN
    BY <2>1 DEF Request
  <2>4. q.method \in {"Serial", "Slice"}
    BY <2>3, MethodsAssumption
  <2>5. 1..MaxU32 \in SUBSET (U32 \ {0}) /\ {0, 1} \in SUBSET U32 /\ U32 \in SUBSET Nat
    BY <2>2 DEF U32
  <2> QED
    BY <2>1, <2>3, <2>4, <2>5
<1>1. PageSize(q) \in U32 \ {0}
  BY <1>0, PageSizeType
<1>2. CASE q.method = "Serial"
  <2> DEFINE p == NewSerial(q, fetched, n)
  <2>1. CASE q.pagination = "Serial"
    <3>1. q.size \in U32 \ {0} /\ q.size \in Nat \ {0}
      <4>1. \E size \in Sizes : q.size = AtLeastOne(size)
        BY <2>1 DEF Sent
      <4> QED
        BY <1>0, <4>1, SizeType
    <3>2. TotalPages(n, q.size) \in U32
      BY <3>1, TotalPagesType
    <3>3. p = [data |-> fetched, page |-> q.page, size |-> q.size, total |-> n,
               total_pages |-> TotalPages(n, q.size), has_next |-> FALSE, has_previous |-> FALSE]
      BY <2>1 DEF NewSerial
    <3>4. p \in Page /\ p.size # 0
      BY <1>0, <3>1, <3>2, <3>3 DEF Page
    <3> QED
      BY <1>2, <3>4 DEF NewPage, NoPage
  <2>2. CASE q.pagination # "Serial"
    <3>1. p = [data |-> fetched, page |-> 1, size |-> PageSize(q), total |-> n,
               total_pages |-> 1, has_next |-> FALSE, has_previous |-> FALSE]
      BY <2>2 DEF NewSerial
    <3>2. p \in Page /\ p.size # 0
      BY <1>0, <1>1, <3>1 DEF Page
    <3> QED
      BY <1>2, <3>2 DEF NewPage, NoPage
  <2> QED
    BY <2>1, <2>2
<1>3. CASE q.method = "Slice"
  <2> DEFINE z == PageSize(q)
             p == NewSlice(q, fetched, n)
             number == IF q.pagination = "Slice" THEN q.page ELSE PageOfOffset(From(q), z)
  <2>1. Trimmed(fetched, z) \in Seq(Row) /\ MoreThanPage(fetched, z) \in BOOLEAN
    <3>1. z \in Nat
      BY <1>0, <1>1
    <3> HIDE DEF z
    <3> QED
      BY <3>1, TrimmedType DEF MoreThanPage
  <2>2. PageOfOffset(From(q), z) \in U32
    BY <1>0, <1>1, BoundsType, PageOfOffsetType
  <2> HIDE DEF z
  <2>3. p = [data |-> Trimmed(fetched, z),
             page |-> number,
             size |-> z,
             total |-> IF q.pagination = "Slice" /\ ~q.counted THEN None ELSE n,
             total_pages |-> 0, has_next |-> MoreThanPage(fetched, z), has_previous |-> number > 1]
    BY DEF NewSlice, z
  <2>4. z \in U32 \ {0}
    BY <1>1 DEF z
  <2>5. p \in Page /\ p.size # 0
    BY <1>0, <2>1, <2>2, <2>3, <2>4 DEF Page
  <2> QED
    BY <1>3, <2>5 DEF NewPage, NoPage
<1> QED
  BY <1>0, <1>2, <1>3

-----------------------------------------------------------------------------
(* The calls.  What a request in flight has fetched is the answer of the   *)
(* table it read, and the page a client holds is made of such an answer.   *)

Counted(q, t) == IF Counts(q) THEN Cardinality(t) ELSE 0

Answered ==
    \/ page = NoPage /\ asked = NoAnswer
    \/ /\ Sent(asked.req)
       /\ page = NewPage(asked.req, Answer(asked.req, asked.data),
                         Counted(asked.req, asked.count))

InFlight ==
    /\ saw \in [data : SUBSET Row, count : SUBSET Row]
    /\ pc # "idle" => Sent(req)
    /\ pc \in {"count", "finish"} => rows = Answer(req, saw.data)
    /\ pc = "count" => Counts(req)
    /\ pc = "finish" => total = Counted(req, saw.count)

CallInv == TypeOK /\ InFlight /\ Answered

\* A count is a number.
LEMMA CountedType ==
    ASSUME NEW q, NEW t \in SUBSET Row
    PROVE  Counted(q, t) \in Nat
BY TableFinite DEF Counted

\* The answer to the pagination a method is made for carries its page number.
LEMMA PageNumber ==
    ASSUME NEW q, Sent(q), q.pagination = q.method, NEW fetched, NEW n
    PROVE  /\ NewPage(q, fetched, n).page = q.page
           /\ q.page \in 1..MaxU32 /\ q.size \in 1..MaxU32
           /\ q.method \in {"Serial", "Slice"}
<1>1. q.method \in {"Serial", "Slice"}
  BY MethodsAssumption DEF Sent, Request
<1>2. q.page \in 1..MaxU32 /\ q.size \in 1..MaxU32
  BY <1>1, SizeType DEF Sent
<1>3. NewPage(q, fetched, n).page = q.page
  BY <1>1 DEF NewPage, NewSerial, NewSlice
<1> QED
  BY <1>1, <1>2, <1>3

\* Only who received a page of a walk reads on.
LEMMA ReadsOnSent ==
    ASSUME Answered, asked.req.walking
    PROVE  /\ page # NoPage /\ Sent(asked.req) /\ asked.req.pagination = asked.req.method
           /\ asked.req.method \in {"Serial", "Slice"}
           /\ page.page = asked.req.page
           /\ asked.req.page \in 1..MaxU32 /\ asked.req.size \in 1..MaxU32
<1>1. ~NoAnswer.req.walking
  BY DEF NoAnswer, NoRequest, Plain
<1>2. Sent(asked.req)
      /\ page = NewPage(asked.req, Answer(asked.req, asked.data), Counted(asked.req, asked.count))
  BY <1>1 DEF Answered
<1>3. asked.req.pagination = asked.req.method
  BY <1>2 DEF Sent
<1>4. page.page = asked.req.page /\ asked.req.page \in 1..MaxU32 /\ asked.req.size \in 1..MaxU32
      /\ asked.req.method \in {"Serial", "Slice"}
  BY <1>2, <1>3, PageNumber
<1>5. NoPage.page = 0
  BY DEF NoPage
<1> QED
  BY <1>2, <1>3, <1>4, <1>5

\* What a client sends is a request of into_params, whichever way it asks.
LEMMA SendsRequests ==
    ASSUME CallInv, FirstPage \/ NextPage \/ JumpTo \/ LimitOffset
    PROVE  Sent(req')
<1>1. CASE FirstPage
  <2>1. PICK method \in Methods, size \in Sizes, counted \in BOOLEAN :
          method \in Paginations /\ req' = Paged(method, method, 1, size, counted, TRUE)
    BY <1>1 DEF FirstPage, Call, Choice
  <2>2. method # "None" /\ 1 \in U32 /\ size \in Int
    BY MethodsAssumption, NumbersAssumption DEF U32
  <2> QED
    BY <2>1, <2>2, PagedSent
<1>2. CASE NextPage
  <2> DEFINE q == asked.req
  <2>1. q.walking /\ page.page < MaxU32
        /\ req' = Paged(q.method, q.pagination, q.page + 1, q.size, q.counted, TRUE)
    BY <1>2 DEF NextPage, Call
  <2>2. Sent(q) /\ q.pagination = q.method /\ q.method \in {"Serial", "Slice"}
        /\ page.page = q.page /\ q.page \in 1..MaxU32 /\ q.size \in 1..MaxU32
    BY <2>1, ReadsOnSent DEF CallInv
  <2>3. q.method \in Methods /\ q.pagination \in Paginations \ {"None"} /\ q.counted \in BOOLEAN
    BY <2>2 DEF Sent, Request
  <2>4. q.page + 1 \in U32 /\ q.size \in Int
    BY <2>1, <2>2, NumbersAssumption DEF U32
  <2>5. \E s \in Sizes : AtLeastOne(q.size) = AtLeastOne(s)
    <3>1. PICK s \in Sizes : q.size = AtLeastOne(s)
      BY <2>2 DEF Sent
    <3>2. AtLeastOne(q.size) = q.size
      BY <2>2, NumbersAssumption DEF AtLeastOne
    <3> QED
      BY <3>1, <3>2
  <2> HIDE DEF q
  <2> QED
    BY <2>1, <2>2, <2>3, <2>4, <2>5, PagedSent
<1>3. CASE JumpTo
  <2>1. PICK method \in Methods, pagination \in Paginations \ {"None"}, n \in PageNumbers,
             size \in Sizes, counted \in BOOLEAN :
          req' = Paged(method, pagination, n, size, counted, FALSE)
    BY <1>3 DEF JumpTo, Call, Choice
  <2>2. n \in U32 /\ size \in Int
    BY NumbersAssumption DEF U32
  <2> QED
    BY <2>1, <2>2, PagedSent
<1>4. CASE LimitOffset
  <2>1. PICK method \in Methods, limit \in Sizes \cup {None}, offset \in PageNumbers \cup {None} :
          "None" \in Paginations /\ req' = Plain(method, limit, offset)
    BY <1>4 DEF LimitOffset, Call
  <2>2. limit \in U32 \cup {None} /\ offset \in U32 \cup {None}
    BY NumbersAssumption DEF U32
  <2> QED
    BY <2>1, <2>2, PlainSent
<1> QED
  BY <1>1, <1>2, <1>3, <1>4

\* Nothing is in flight at first.
LEMMA CallInvInit == Init => CallInv
<1> SUFFICES ASSUME Init PROVE CallInv
  OBVIOUS
<1>1. NoPage \in Page
  BY NumbersAssumption DEF NoPage, Page, U32
<1>2. NoWalk \in [on : BOOLEAN, got : SUBSET Row, repeated : BOOLEAN, stable : SUBSET Row,
                  inserted : BOOLEAN, deleted : BOOLEAN]
  BY DEF NoWalk
<1>3. TypeOK
  BY <1>1, <1>2 DEF Init, TypeOK, NotSeen, NoAnswer
<1>4. InFlight /\ Answered
  BY DEF Init, InFlight, Answered, NotSeen
<1> QED
  BY <1>3, <1>4 DEF CallInv

\* One step at a time; the requests are those of SendsRequests.
LEMMA CallInvNext ==
    ASSUME CallInv, [Next]_vars
    PROVE  CallInv'
<1> DEFINE Walks == [on : BOOLEAN, got : SUBSET Row, repeated : BOOLEAN, stable : SUBSET Row,
                     inserted : BOOLEAN, deleted : BOOLEAN]
<1>t. walk \in Walks /\ page \in Page /\ table \in SUBSET Row
  BY DEF CallInv, TypeOK
<1>n. NoPage \in Page /\ NoWalk \in Walks
  BY NumbersAssumption DEF NoPage, Page, U32, NoWalk
<1>s. NotSeen \in [data : SUBSET Row, count : SUBSET Row]
  BY DEF NotSeen
<1>1. CASE FirstPage \/ NextPage \/ JumpTo \/ LimitOffset
  <2>1. Sent(req') /\ req' \in Request
    BY <1>1, SendsRequests DEF Sent
  <2>2. pc' = "fetch" /\ UNCHANGED <<table, rows, total, saw>>
    BY <1>1 DEF FirstPage, NextPage, JumpTo, LimitOffset, Call
  <2>3. \/ page' = NoPage /\ asked' = NoAnswer
        \/ UNCHANGED <<page, asked>>
    BY <1>1 DEF FirstPage, NextPage, JumpTo, LimitOffset, LeaveWalk, Forget
  <2>4. walk' \in Walks
    BY <1>1, <1>t, <1>n DEF FirstPage, NextPage, JumpTo, LimitOffset, LeaveWalk, NoWalk
  <2>5. TypeOK'
    BY <2>1, <2>2, <2>3, <2>4, <1>n DEF CallInv, TypeOK, NoAnswer
  <2>6. InFlight'
    BY <2>1, <2>2 DEF CallInv, InFlight
  <2>7. Answered'
    BY <2>3 DEF CallInv, Answered
  <2> QED
    BY <2>5, <2>6, <2>7 DEF CallInv
<1>2. CASE Fetch
  <2>1. Sent(req) /\ req \in Request
    BY <1>2 DEF CallInv, InFlight, Fetch, Sent
  <2>2. rows' \in Seq(Row)
    BY <1>2, <1>t, <2>1, AnswerType DEF Fetch
  <2>3. saw' \in [data : SUBSET Row, count : SUBSET Row] /\ saw'.data = table
    BY <1>2, <1>t DEF Fetch
  <2>4. TypeOK'
    BY <1>2, <2>2, <2>3 DEF CallInv, TypeOK, Fetch
  <2>5. InFlight'
    BY <1>2, <2>1, <2>3 DEF Fetch, InFlight, Counted
  <2>6. Answered'
    BY <1>2 DEF Fetch, CallInv, Answered
  <2> QED
    BY <2>4, <2>5, <2>6 DEF CallInv
<1>3. CASE Count
  <2>1. Cardinality(table) \in Nat
    BY <1>t, TableFinite
  <2>2. saw' \in [data : SUBSET Row, count : SUBSET Row]
        /\ saw'.data = saw.data /\ saw'.count = table
    BY <1>3, <1>t DEF Count, CallInv, InFlight
  <2>3. TypeOK'
    BY <1>3, <2>1, <2>2 DEF CallInv, TypeOK, Count
  <2>4. InFlight'
    BY <1>3, <2>2 DEF Count, CallInv, InFlight, Counted
  <2>5. Answered'
    BY <1>3 DEF Count, CallInv, Answered
  <2> QED
    BY <2>3, <2>4, <2>5 DEF CallInv
<1>4. CASE Fail
  <2>1. TypeOK'
    BY <1>4, <1>s DEF CallInv, TypeOK, Fail, NotSeen
  <2>2. InFlight' /\ Answered'
    BY <1>4, <1>s DEF Fail, CallInv, InFlight, Answered
  <2> QED
    BY <2>1, <2>2 DEF CallInv
<1>5. CASE Finish
  <2>1. Sent(req) /\ rows = Answer(req, saw.data) /\ total = Counted(req, saw.count)
        /\ saw.data \in SUBSET Row /\ saw.count \in SUBSET Row
        /\ rows \in Seq(Row) /\ total \in Nat /\ req \in Request
    BY <1>5 DEF Finish, CallInv, InFlight, TypeOK, Sent
  <2>2. page' = NewPage(req, rows, total) /\ page' \in Page
    BY <1>5, <2>1, NewPageType DEF Finish
  <2>3. asked' = [req |-> req, data |-> saw.data, count |-> saw.count]
        /\ pc' = "idle" /\ rows' = <<>> /\ total' = 0 /\ saw' = NotSeen /\ req' = NoRequest
        /\ table' = table
    BY <1>5 DEF Finish
  <2>4. walk' \in Walks
    <3>1. ToSet(page'.data) \in SUBSET Row
      <4>1. page'.data \in Seq(Row)
        BY <2>2 DEF Page
      <4> QED
        BY <4>1 DEF ToSet
    <3> QED
      BY <1>5, <1>t, <3>1 DEF Finish
  <2>5. TypeOK'
    BY <1>t, <1>s, <2>1, <2>2, <2>3, <2>4 DEF TypeOK
  <2>6. InFlight'
    BY <1>s, <2>3 DEF InFlight
  <2>7. Answered'
    BY <2>1, <2>2, <2>3 DEF Answered
  <2> QED
    BY <2>5, <2>6, <2>7 DEF CallInv
<1>6. CASE Insert \/ Delete
  <2>1. UNCHANGED <<pc, req, rows, total, page, asked, saw>>
    BY <1>6 DEF Insert, Delete
  <2>2. table' \in SUBSET Row /\ walk' \in Walks
    BY <1>6, <1>t DEF Insert, Delete
  <2>3. TypeOK'
    BY <2>1, <2>2 DEF CallInv, TypeOK
  <2>4. InFlight' /\ Answered'
    BY <2>1 DEF CallInv, InFlight, Answered
  <2> QED
    BY <2>3, <2>4 DEF CallInv
<1>7. CASE UNCHANGED vars
  BY <1>7 DEF vars, CallInv, TypeOK, InFlight, Answered
<1> QED
  BY <1>1, <1>2, <1>3, <1>4, <1>5, <1>6, <1>7 DEF Next

\* Types, and that page numbers, sizes, limits and offsets stay within a u32
\* though both queries of a call run between other writers' steps.
THEOREM TypeCorrect == Spec => []TypeOK
<1>1. CallInv /\ [Next]_vars => CallInv'
  BY CallInvNext
<1>2. CallInv => TypeOK
  BY DEF CallInv
<1> QED
  BY CallInvInit, <1>1, <1>2, PTL DEF Spec

-----------------------------------------------------------------------------
(* The rows of a page.                                                     *)

\* No table has more rows than a u32 counts: an offset that saturates is then
\* behind every row.
SmallTables == Cardinality(Row) <= MaxU32

\* No caller asks for pages of MaxU32 rows, where the look-ahead row of a
\* Slice makes the limit wrap to 0.
SizesCount == \A size \in Sizes : AtLeastOne(size) < MaxU32

\* An answer that is not trimmed.
LEMMA AllRows ==
    ASSUME NEW u \in SUBSET Row
    PROVE  ToSet(Listed(u)) = u /\ Len(Listed(u)) = Cardinality(u)
<1>1. Listed(u) \in Seq(u) /\ Len(Listed(u)) = Cardinality(u) /\ Cardinality(u) \in Nat
  BY ListedByRank, TableFinite
<1>2. \A r \in u : \E i \in 1..Cardinality(u) : Listed(u)[i] = r
  BY ListedByRank
<1> QED
  BY <1>1, <1>2 DEF ToSet

\* An answer that is trimmed to a page: its first rows by rank.
LEMMA FirstRows ==
    ASSUME NEW t \in SUBSET Row, NEW a \in Nat \ {0}, NEW b \in Int, NEW size \in Nat
    PROVE  /\ ToSet(Trimmed(Listed(Ranked(t, a, b)), size)) = Ranked(t, a, Min2(b, a - 1 + size))
           /\ Len(Trimmed(Listed(Ranked(t, a, b)), size)) =
                Cardinality(Ranked(t, a, Min2(b, a - 1 + size)))
<1> DEFINE u == Ranked(t, a, b)
           first == Trimmed(Listed(u), size)
           m == Min2(size, Cardinality(u))
           v == Ranked(t, a, Min2(b, a - 1 + size))
<1>1. u = {r \in t : Rank(t, r) \in a..b} /\ u \in SUBSET Row /\ Cardinality(u) \in Nat
  <2>1. u = {r \in t : Rank(t, r) \in a..b}
    BY RankedIs
  <2> HIDE DEF u
  <2> QED
    BY <2>1, TableFinite
<1>2. Listed(u) \in Seq(u) /\ Listed(u) \in Seq(Row) /\ Len(Listed(u)) = Cardinality(u)
  <2>1. u \in SUBSET Row
    BY <1>1
  <2> HIDE DEF u
  <2>2. Listed(u) \in Seq(u) /\ Len(Listed(u)) = Cardinality(u)
    BY <2>1, ListedByRank
  <2> QED
    BY <2>1, <2>2
<1>3. \A i \in 1..Cardinality(u) : Listed(u)[i] \in u /\ Rank(u, Listed(u)[i]) = i
  <2>1. u \in SUBSET Row /\ Listed(u) \in Seq(u) /\ Len(Listed(u)) = Cardinality(u)
    BY <1>1, <1>2
  <2> HIDE DEF u
  <2>2. \A i \in 1..Cardinality(u) : Rank(u, Listed(u)[i]) = i
    BY <2>1, ListedByRank
  <2>3. \A i \in 1..Cardinality(u) : Listed(u)[i] \in u
    BY <2>1
  <2> QED
    BY <2>2, <2>3
<1>4. \A r \in u : Rank(u, r) \in 1..Cardinality(u) /\ Listed(u)[Rank(u, r)] = r
  BY <1>1, ListedByRank
<1>5. \A r \in u : Rank(u, r) = Rank(t, r) - (a - 1)
  BY RankWithin
<1>6. v = {r \in u : Rank(u, r) <= size}
  <2>1. v = {r \in t : Rank(t, r) \in a..Min2(b, a - 1 + size)}
    BY RankedIs
  <2>2. \A r \in t : Rank(t, r) \in Int
    BY RankType, TableFinite
  <2> HIDE DEF u, v
  <2>3. \A k \in Int : k \in a..Min2(b, a - 1 + size) <=> k \in a..b /\ k - (a - 1) <= size
    BY DEF Min2
  <2> QED
    BY <1>1, <1>5, <2>1, <2>2, <2>3
<1>7. first \in Seq(Row) /\ Len(first) = m /\ \A i \in 1..m : first[i] = Listed(u)[i]
  <2> HIDE DEF u
  <2> QED
    BY <1>2, TrimmedType
<1>8. m \in Nat /\ \A i \in Int : i \in 1..m <=> i \in 1..Cardinality(u) /\ i <= size
  <2> HIDE DEF u
  <2> QED
    BY <1>1 DEF Min2
<1>9. ToSet(first) = v
  <2> HIDE DEF u, v, m, first
  <2>1. ToSet(first) = {first[i] : i \in 1..m}
    BY <1>7 DEF ToSet
  <2>2. \A i \in 1..m : first[i] \in v
    BY <1>3, <1>6, <1>7, <1>8
  <2>3. \A r \in v : Rank(u, r) \in 1..m /\ first[Rank(u, r)] = r
    BY <1>4, <1>6, <1>7, <1>8
  <2> QED
    BY <2>1, <2>2, <2>3
<1>10. v = Ranked(u, 1, m)
  <2>1. Ranked(u, 1, m) = {r \in u : Rank(u, r) \in 1..m}
    BY RankedIs
  <2> HIDE DEF u, v, m
  <2> QED
    BY <1>4, <1>6, <1>8, <2>1
<1>11. Cardinality(v) = m
  <2> HIDE DEF u, v
  <2>1. m \in Int /\ m <= Cardinality(u)
    BY <1>1 DEF Min2
  <2> HIDE DEF m
  <2>2. Min2(m, Cardinality(u)) = m
    BY <1>1, <2>1 DEF Min2
  <2> QED
    BY <1>1, <1>8, <1>10, <2>1, <2>2, RankedCardinality
<1> QED
  BY <1>7, <1>9, <1>11

\* The rows that page n of a size has, and whether there are more behind
\* them, do not depend on the offset having saturated.
LEMMA SaturatedPage ==
    ASSUME SmallTables, NEW t \in SUBSET Row,
           NEW n \in 1..MaxU32, NEW size \in 1..MaxU32
    PROVE  /\ Ranked(t, Offset(n, size) + 1, Offset(n, size) + size) =
                 Ranked(t, (n - 1) * size + 1, n * size)
           /\ Cardinality(t) > Offset(n, size) + size <=> Cardinality(t) > n * size
           /\ (n - 1) * size \in Nat /\ n * size = (n - 1) * size + size
<1> DEFINE o == Offset(n, size)
           k == (n - 1) * size
           l == n * size
<1>1. k \in Nat /\ o \in Nat /\ l = k + size /\ (o = k \/ (o = MaxU32 /\ k > MaxU32))
  <2>1. l = k + size
    BY NumbersAssumption
  <2> QED
    BY <2>1, OffsetType, NumbersAssumption DEF U32
<1>2. Cardinality(t) \in Nat /\ Cardinality(t) <= MaxU32 /\ size \in Nat /\ MaxU32 \in Nat
      /\ Cardinality(Row) \in Nat
  BY TableFinite, RowAssumption, FS_CardinalityType, NumbersAssumption DEF SmallTables
<1>3. \A r \in t : Rank(t, r) \in 1..Cardinality(t)
  BY RankType
<1>4. /\ Ranked(t, o + 1, o + size) = {r \in t : Rank(t, r) \in o + 1 .. o + size}
      /\ Ranked(t, k + 1, l) = {r \in t : Rank(t, r) \in k + 1 .. l}
  BY RankedIs
<1> HIDE DEF o, k, l
<1>5. \A r \in t : Rank(t, r) \in o + 1 .. o + size <=> Rank(t, r) \in k + 1 .. l
  BY <1>1, <1>2, <1>3
<1>6. Cardinality(t) > o + size <=> Cardinality(t) > l
  BY <1>1, <1>2
<1> QED
  BY <1>1, <1>4, <1>5, <1>6 DEF o, k, l

\* What the two statements of a method ask for: a Slice looks one row ahead.
LEMMA StatementOf ==
    ASSUME NEW q, Sent(q), q.pagination = q.method, NEW t \in SUBSET Row
    PROVE  /\ From(q) = Offset(q.page, q.size) /\ From(q) \in Nat
           /\ PageSize(q) = q.size /\ q.page \in 1..MaxU32 /\ q.size \in 1..MaxU32
           /\ q.method = "Serial" => Upto(q, t) = From(q) + q.size
           /\ q.method = "Slice" =>
                Upto(q, t) = IF q.size = MaxU32 THEN From(q) ELSE From(q) + q.size + 1
<1>1. q.method \in {"Serial", "Slice"} /\ q.page \in 1..MaxU32 /\ q.size \in 1..MaxU32
      /\ q.limit = q.size /\ q.offset = Offset(q.page, q.size)
  <2>1. q.method \in {"Serial", "Slice"}
    BY MethodsAssumption DEF Sent, Request
  <2>2. q.limit = q.size /\ q.offset = Offset(q.page, q.size) /\ q.page \in 1..MaxU32
        /\ q.size \in 1..MaxU32
    BY <2>1, SizeType DEF Sent
  <2> QED
    BY <2>1, <2>2
<1>2. q.offset \in Nat /\ MaxU32 \in Nat
  BY <1>1, OffsetType, NumbersAssumption DEF U32
<1>3. From(q) = q.offset /\ q.limit # None /\ PageSize(q) = q.size
  BY <1>1, <1>2 DEF From, PageSize, AtLeastOne, None
<1>4. q.method = "Serial" => q.pagination # "Slice"
  OBVIOUS
<1>5. q.method = "Serial" => FetchLimit(q) = q.size
  BY <1>1, <1>4 DEF FetchLimit
<1>6. q.method = "Slice" => FetchLimit(q) = IF q.size = MaxU32 THEN 0 ELSE q.size + 1
  BY <1>1 DEF FetchLimit
<1>7. Upto(q, t) = From(q) + FetchLimit(q)
  BY <1>3 DEF Upto
<1> QED
  BY <1>1, <1>2, <1>3, <1>5, <1>6, <1>7

\* A Serial says there are more pages exactly when more rows were counted
\* than its pages up to this one hold.
LEMMA PagesAhead ==
    ASSUME NEW n \in Nat, n <= MaxU32, NEW size \in Nat \ {0}, NEW m \in Nat \ {0}
    PROVE  m < TotalPages(n, size) <=> n > m * size
<1> DEFINE pages == (n + size - 1) \div size
           k == pages * size
           l == m * size
<1>1. pages \in Nat /\ k <= n + size - 1 /\ n + size - 1 < k + size /\ k \in Nat /\ l \in Nat
  OBVIOUS
<1>2. pages <= n \/ n = 0
  <2>1. CASE pages > n /\ n > 0
    <3>1. k >= (n + 1) * size
      BY <1>1, <2>1
    <3>2. (n + 1) * size = n * size + size /\ n * size >= n
      BY <2>1
    <3> HIDE DEF k, pages
    <3> QED
      BY <1>1, <3>1, <3>2
  <2> QED
    BY <1>1, <2>1
<1>3. n = 0 => pages = 0
  OBVIOUS
<1>4. m < pages => l + size <= k
  <2>1. m < pages => (m + 1) * size <= pages * size
    BY <1>1
  <2>2. (m + 1) * size = l + size
    OBVIOUS
  <2> QED
    BY <2>1, <2>2
<1>5. ~(m < pages) => k <= l
  BY <1>1
<1>6. MaxU32 \in Nat
  BY NumbersAssumption
<1>7. TotalPages(n, size) = pages
  <2>1. TotalPages(n, size) = IF pages <= MaxU32 THEN pages ELSE 1
    BY DEF TotalPages
  <2> HIDE DEF pages
  <2> QED
    BY <1>1, <1>2, <1>3, <1>6, <2>1
<1> HIDE DEF pages, k, l
<1>8. m < pages <=> n > l
  BY <1>1, <1>4, <1>5
<1> QED
  BY <1>7, <1>8 DEF l

\* What a page of either kind holds and says, from the table its query read.
LEMMA PageRows ==
    ASSUME SmallTables, NEW q, Sent(q), q.pagination = q.method,
           NEW t \in SUBSET Row, NEW n \in Nat, n <= MaxU32
    PROVE  LET p == NewPage(q, Answer(q, t), n)
               asks == Ranked(t, (q.page - 1) * q.size + 1, q.page * q.size)
           IN  /\ ToSet(p.data) \subseteq asks
               /\ q.size < MaxU32 => ToSet(p.data) = asks /\ Len(p.data) = Cardinality(asks)
               /\ q.method = "Slice" /\ q.size < MaxU32 =>
                    (ReadsOn(p) <=> Cardinality(t) > q.page * q.size)
               /\ q.method = "Serial" => (ReadsOn(p) <=> n > q.page * q.size)
               /\ p.total = IF q.method = "Slice" /\ ~q.counted THEN None ELSE n
<1> DEFINE p == NewPage(q, Answer(q, t), n)
           o == From(q)
           l == q.page * q.size
           asks == Ranked(t, (q.page - 1) * q.size + 1, l)
<1>1. o = Offset(q.page, q.size) /\ o \in Nat /\ PageSize(q) = q.size
      /\ q.page \in 1..MaxU32 /\ q.size \in 1..MaxU32 /\ q.size \in Nat \ {0}
      /\ q.page \in Nat \ {0} /\ MaxU32 \in Nat
  <2>1. MaxU32 \in Nat
    BY NumbersAssumption
  <2> QED
    BY <2>1, StatementOf
<1>2. asks = Ranked(t, o + 1, o + q.size) /\ (Cardinality(t) > o + q.size <=> Cardinality(t) > l)
      /\ l \in Nat
  <2>1. /\ Ranked(t, Offset(q.page, q.size) + 1, Offset(q.page, q.size) + q.size) = asks
        /\ Cardinality(t) > Offset(q.page, q.size) + q.size <=> Cardinality(t) > l
    BY <1>1, SaturatedPage
  <2>2. l \in Nat
    BY <1>1
  <2> HIDE DEF asks, l
  <2> QED
    BY <1>1, <2>1, <2>2
<1>3. Answer(q, t) = Listed(Ranked(t, o + 1, Upto(q, t)))
  BY AnswerIs
<1>4. q.method \in {"Serial", "Slice"}
  BY MethodsAssumption DEF Sent, Request
<1>5. Cardinality(t) \in Nat
  BY TableFinite
<1>6. CASE q.method = "Serial"
  <2>1. Answer(q, t) = Listed(asks)
    BY <1>2, <1>3, <1>6, StatementOf
  <2>2. asks \in SUBSET Row
    BY DEF Ranked
  <2>3. p = [data |-> Answer(q, t), page |-> q.page, size |-> q.size, total |-> n,
             total_pages |-> TotalPages(n, q.size), has_next |-> FALSE, has_previous |-> FALSE]
    BY <1>6 DEF NewPage, NewSerial
  <2>4. ToSet(p.data) = asks /\ Len(p.data) = Cardinality(asks)
    <3> HIDE DEF asks
    <3> QED
      BY <2>1, <2>2, <2>3, AllRows
  <2>5. ReadsOn(p) <=> q.page < TotalPages(n, q.size)
    BY <2>3 DEF ReadsOn
  <2>6. ReadsOn(p) <=> n > l
    BY <1>1, <2>5, PagesAhead
  <2>7. p.total = n
    BY <2>3
  <2> HIDE DEF p, asks, l
  <2> QED
    BY <1>6, <2>4, <2>6, <2>7 DEF p, asks, l
<1>7. CASE q.method = "Slice"
  <2> DEFINE m == Upto(q, t)
             upto == Min2(m, o + q.size)
             fetched == Ranked(t, o + 1, m)
  <2>1. m = IF q.size = MaxU32 THEN o ELSE o + q.size + 1
    BY <1>7, StatementOf
  <2>2. p = [data |-> Trimmed(Answer(q, t), q.size), page |-> q.page, size |-> q.size,
             total |-> IF ~q.counted THEN None ELSE n, total_pages |-> 0,
             has_next |-> MoreThanPage(Answer(q, t), q.size), has_previous |-> q.page > 1]
    BY <1>1, <1>7 DEF NewPage, NewSlice
  <2>3. m \in Int /\ (upto = o \/ upto = o + q.size) /\ (q.size < MaxU32 => upto = o + q.size)
    <3> HIDE DEF m, o
    <3> QED
      BY <1>1, <2>1 DEF Min2
  <2>4. /\ ToSet(p.data) = Ranked(t, o + 1, upto)
        /\ Len(p.data) = Cardinality(Ranked(t, o + 1, upto))
    <3>1. p.data = Trimmed(Listed(Ranked(t, o + 1, m)), q.size)
      BY <1>3, <2>2
    <3> DEFINE a == o + 1
               z == q.size
    <3>2. a - 1 + z = o + z /\ a \in Nat \ {0} /\ z \in Nat /\ m \in Int
      BY <1>1, <2>3
    <3> HIDE DEF m, o, p, a, z
    <3>3. /\ ToSet(Trimmed(Listed(Ranked(t, a, m)), z)) = Ranked(t, a, Min2(m, a - 1 + z))
          /\ Len(Trimmed(Listed(Ranked(t, a, m)), z)) = Cardinality(Ranked(t, a, Min2(m, a - 1 + z)))
      BY <3>2, FirstRows
    <3> QED
      BY <3>1, <3>2, <3>3 DEF a, z
  <2>5. ToSet(p.data) \subseteq asks
    <3>1. asks = {r \in t : Rank(t, r) \in o + 1 .. o + q.size}
      BY <1>2, RankedIs
    <3>2. Ranked(t, o + 1, upto) = {r \in t : Rank(t, r) \in o + 1 .. upto}
      BY RankedIs
    <3> HIDE DEF asks, upto, o, p
    <3> QED
      BY <1>1, <2>3, <2>4, <3>1, <3>2
  <2>6. q.size < MaxU32 => ToSet(p.data) = asks /\ Len(p.data) = Cardinality(asks)
    <3> HIDE DEF asks, upto, o, p
    <3> QED
      BY <1>2, <2>3, <2>4
  <2>7. ASSUME q.size < MaxU32
        PROVE  ReadsOn(p) <=> Cardinality(t) > l
    <3> DEFINE c == Min2(o + q.size + 1, Cardinality(t))
    <3>1. m = o + q.size + 1
      BY <1>1, <2>1, <2>7
    <3>2. Cardinality(fetched) = IF o + 1 > c THEN 0 ELSE c - (o + 1) + 1
      <4> DEFINE a == o + 1
                 b == o + q.size + 1
      <4>1. a \in Nat \ {0} /\ b \in Int
        BY <1>1
      <4> HIDE DEF a, b, o
      <4>2. Cardinality(Ranked(t, a, b)) =
              IF a > Min2(b, Cardinality(t)) THEN 0 ELSE Min2(b, Cardinality(t)) - a + 1
        BY <4>1, RankedCardinality
      <4>3. fetched = Ranked(t, a, b)
        BY <3>1 DEF a, b
      <4> QED
        BY <4>2, <4>3 DEF a, b
    <3>3. Len(Answer(q, t)) = Cardinality(fetched)
      <4>1. fetched \in SUBSET Row
        BY DEF Ranked
      <4> HIDE DEF fetched
      <4> QED
        BY <1>3, <4>1, AllRows DEF fetched
    <3>4. ReadsOn(p) <=> Cardinality(fetched) > q.size
      <4>1. p.page \in Nat /\ p.total_pages = 0 /\ (p.has_next <=> Cardinality(fetched) > q.size)
        <5>1. p.page = q.page /\ p.total_pages = 0
              /\ p.has_next = MoreThanPage(Answer(q, t), q.size)
          BY <2>2
        <5> HIDE DEF fetched, p
        <5> QED
          BY <1>1, <3>3, <5>1 DEF MoreThanPage
      <4> HIDE DEF p, fetched
      <4> QED
        BY <4>1 DEF ReadsOn
    <3>5. Cardinality(fetched) > q.size <=> Cardinality(t) > o + q.size
      <4> HIDE DEF fetched, o
      <4>1. c = IF o + q.size + 1 < Cardinality(t) THEN o + q.size + 1 ELSE Cardinality(t)
        BY DEF Min2
      <4> HIDE DEF c
      <4> QED
        BY <1>1, <1>5, <3>2, <4>1
    <3> QED
      BY <1>2, <3>4, <3>5
  <2>8. p.total = IF ~q.counted THEN None ELSE n
    BY <2>2
  <2> HIDE DEF p, asks, l
  <2> QED
    BY <1>7, <2>5, <2>6, <2>7, <2>8 DEF p, asks, l
<1> QED
  BY <1>4, <1>6, <1>7

\* The page a client holds, once it answers the pagination its method is for.
LEMMA HeldPage ==
    ASSUME CallInv, SmallTables, Matching
    PROVE  LET q    == asked.req
               asks == Ranked(asked.data, (q.page - 1) * q.size + 1, q.page * q.size)
           IN  /\ Sent(q) /\ asked.data \in SUBSET Row
               /\ ToSet(page.data) \subseteq asks
               /\ q.size < MaxU32 => ToSet(page.data) = asks /\ Len(page.data) = Cardinality(asks)
               /\ q.method = "Slice" /\ q.size < MaxU32 =>
                    (ReadsOn(page) <=> Cardinality(asked.data) > q.page * q.size)
               /\ q.method = "Serial" => (ReadsOn(page) <=> Cardinality(asked.count) > q.page * q.size)
               /\ page.total # None => page.total = Cardinality(asked.count)
<1> DEFINE q == asked.req
           n == Counted(q, asked.count)
<1>1. Sent(q) /\ page = NewPage(q, Answer(q, asked.data), n) /\ q.pagination = q.method
  BY DEF CallInv, Answered, Matching, Received
<1>2. asked.data \in SUBSET Row /\ asked.count \in SUBSET Row
  BY DEF CallInv, TypeOK
<1>3. n \in Nat /\ n <= MaxU32
  <2>1. Cardinality(asked.count) \in Nat /\ Cardinality(asked.count) <= Cardinality(Row)
        /\ Cardinality(Row) \in Nat
    BY <1>2, TableFinite, RowAssumption, FS_CardinalityType
  <2> QED
    BY <2>1, NumbersAssumption DEF Counted, SmallTables
<1>4. q.method = "Serial" => n = Cardinality(asked.count)
  BY DEF Counted, Counts
<1>5. page.total = IF q.method = "Slice" /\ ~q.counted THEN None ELSE n
  BY <1>1, <1>2, <1>3, PageRows
<1>6. page.total # None => page.total = Cardinality(asked.count)
  <2>1. q.method \in {"Serial", "Slice"} /\ q.counted \in BOOLEAN
    BY <1>1, MethodsAssumption DEF Sent, Request
  <2>2. q.method = "Slice" /\ q.counted => n = Cardinality(asked.count)
    BY DEF Counted, Counts
  <2> QED
    BY <1>4, <1>5, <2>1, <2>2
<1>7. LET p == NewPage(q, Answer(q, asked.data), n)
          asks == Ranked(asked.data, (q.page - 1) * q.size + 1, q.page * q.size)
      IN  /\ ToSet(p.data) \subseteq asks
          /\ q.size < MaxU32 => ToSet(p.data) = asks /\ Len(p.data) = Cardinality(asks)
          /\ q.method = "Slice" /\ q.size < MaxU32 =>
               (ReadsOn(p) <=> Cardinality(asked.data) > q.page * q.size)
          /\ q.method = "Serial" => (ReadsOn(p) <=> n > q.page * q.size)
  <2> HIDE DEF n, q
  <2> QED
    BY <1>1, <1>2, <1>3, PageRows
<1> QED
  BY <1>1, <1>2, <1>4, <1>6, <1>7

\* Every page is the page that was asked for, not one next to it, for every
\* page number and size a u32 holds: its rows are those of its ranks, it says
\* that there is more exactly when there is, and its total fits its rows.
\* With pages of MaxU32 rows it is not so: a Slice would fetch none.
THEOREM PagesAreExact ==
    ASSUME SmallTables, SizesCount
    PROVE  Spec => []PageExact
<1>1. CallInv => PageExact
  <2> SUFFICES ASSUME CallInv, Matching PROVE PageExact
    BY DEF PageExact, RowsExact, HasNextExact, TotalsFitPage
  <2> DEFINE q == asked.req
             d == asked.data
             k == (q.page - 1) * q.size
             l == q.page * q.size
             asks == Ranked(d, k + 1, l)
  <2>1. Sent(q) /\ q.pagination = q.method
    BY HeldPage DEF Matching
  <2>2. q.size < MaxU32
    BY <2>1, MethodsAssumption DEF Sent, Request, SizesCount
  <2>3. d \in SUBSET Row /\ ToSet(page.data) = asks /\ Len(page.data) = Cardinality(asks)
    BY <2>2, HeldPage
  <2>4. q.method = "Slice" => (ReadsOn(page) <=> Cardinality(d) > l)
    BY <2>2, HeldPage
  <2>5. q.method = "Serial" => (ReadsOn(page) <=> Cardinality(asked.count) > l)
    BY HeldPage
  <2>6. page.total # None => page.total = Cardinality(asked.count)
    BY HeldPage
  <2>7. q.method \in {"Serial", "Slice"} /\ q.page \in 1..MaxU32 /\ q.size \in 1..MaxU32
    BY <2>1, PageNumber
  <2>8. RowsExact
    BY <2>3 DEF RowsExact
  <2>9. HasNextExact
    BY <2>4, <2>5, <2>7 DEF HasNextExact
  <2>10. TotalsFitPage
    <3> SUFFICES ASSUME page.total # None, asked.data = asked.count
                 PROVE  Len(page.data) = Cardinality(k + 1 .. Min2(page.total, l))
      BY DEF TotalsFitPage
    <3>1. k \in Nat /\ l \in Nat /\ Cardinality(d) \in Nat
      <4>1. q.page - 1 \in Nat /\ q.page \in Nat /\ q.size \in Nat
        BY <2>7, NumbersAssumption
      <4>2. \A m, n \in Nat : m * n \in Nat
        OBVIOUS
      <4>3. Cardinality(d) \in Nat
        BY <2>3, TableFinite
      <4> QED
        BY <4>1, <4>2, <4>3
    <3>2. Min2(page.total, l) = Min2(l, Cardinality(d))
      <4>1. page.total = Cardinality(d)
        BY <2>6
      <4>2. \A m, n \in Int : Min2(m, n) = Min2(n, m)
        BY DEF Min2
      <4> HIDE DEF k, l, d
      <4> QED
        BY <3>1, <4>1, <4>2
    <3>3. Cardinality(asks) = Cardinality(k + 1 .. Min2(l, Cardinality(d)))
      <4> DEFINE a == k + 1
      <4>1. a \in Nat \ {0} /\ l \in Int
        BY <3>1
      <4> HIDE DEF a, k, l, d
      <4>2. Cardinality(Ranked(d, a, l)) = Cardinality(a .. Min2(l, Cardinality(d)))
        BY <2>3, <4>1, RankedCardinality
      <4> QED
        BY <4>2 DEF a
    <3> QED
      BY <2>3, <3>2, <3>3
  <2> QED
    BY <2>8, <2>9, <2>10 DEF PageExact
<1>2. CallInv /\ [Next]_vars => CallInv'
  BY CallInvNext
<1> QED
  BY CallInvInit, <1>1, <1>2, PTL DEF Spec

-----------------------------------------------------------------------------
(* The walk from page 1.  Each page continues where the last one ended, so *)
(* the ranks up to LastRead have been read: rows received move to no       *)
(* higher rank while nobody inserts, rows not received to no lower one     *)
(* while nobody deletes, in the table as in the one the query has read.    *)

LastRead == IF page = NoPage THEN 0 ELSE asked.req.page * asked.req.size

Pace ==
    /\ walk.on /\ page # NoPage => asked.req.walking
    /\ walk.on /\ pc # "idle" => req.walking
    /\ pc # "idle" /\ req.walking => walk.on /\ (req.page - 1) * req.size = LastRead

ReadBelow(t) == \A r \in walk.got \cap t : Rank(t, r) <= LastRead

UnreadAbove(t) == \A r \in walk.stable \ walk.got : Rank(t, r) > LastRead

NoneTwice ==
    /\ walk.repeated => walk.on /\ walk.inserted
    /\ walk.on /\ ~walk.inserted =>
         /\ ReadBelow(table)
         /\ pc \in {"count", "finish"} => table \subseteq saw.data /\ ReadBelow(saw.data)

NoneLeftOut ==
    walk.on /\ ~walk.deleted =>
      /\ walk.stable \subseteq table /\ UnreadAbove(table)
      /\ pc \in {"count", "finish"} =>
           walk.stable \subseteq saw.data /\ saw.data \subseteq table /\ UnreadAbove(saw.data)
      /\ pc = "finish" /\ Counts(req) => saw.data \subseteq saw.count
      /\ page # NoPage /\ ~ReadsOn(page) => walk.stable \subseteq walk.got

WalkInv == CallInv /\ Pace /\ NoneTwice

SkipInv == CallInv /\ Pace /\ NoneLeftOut

\* Only a walk's own calls run while it is on, and each asks for the rows
\* right behind those it has read.
LEMMA PaceNext ==
    ASSUME CallInv, Pace, [Next]_vars
    PROVE  Pace'
<1>1. CASE FirstPage
  <2>1. page' = NoPage /\ walk'.on
    BY <1>1 DEF FirstPage, Forget, CallInv, TypeOK, NoWalk
  <2>2. PICK method \in Methods, size \in Sizes, counted \in BOOLEAN :
          req' = Paged(method, method, 1, size, counted, TRUE)
    BY <1>1 DEF FirstPage, Call, Choice
  <2>3. req'.walking /\ req'.page = 1 /\ req'.size \in Int
    BY <2>2, SizeType DEF Paged, AtLeastOne
  <2> QED
    BY <2>1, <2>3 DEF Pace, LastRead
<1>2. CASE NextPage
  <2> DEFINE q == asked.req
  <2>1. q.walking /\ page.page < MaxU32 /\ walk.on /\ UNCHANGED <<page, asked, walk>>
        /\ req' = Paged(q.method, q.pagination, q.page + 1, q.size, q.counted, TRUE)
    BY <1>2 DEF NextPage, Call
  <2>2. page # NoPage /\ q.page \in 1..MaxU32 /\ q.size \in 1..MaxU32
    BY <2>1, ReadsOnSent DEF CallInv
  <2>3. req'.walking /\ req'.page = q.page + 1 /\ req'.size = q.size
    BY <2>1, <2>2, NumbersAssumption DEF Paged, AtLeastOne
  <2>4. (q.page + 1) - 1 = q.page
    BY <2>2
  <2> QED
    BY <2>1, <2>2, <2>3, <2>4 DEF Pace, LastRead
<1>3. CASE JumpTo \/ LimitOffset
  <2>1. ~walk'.on /\ ~req'.walking
    BY <1>3 DEF JumpTo, LimitOffset, LeaveWalk, NoWalk, Call, Paged, Plain
  <2> QED
    BY <2>1 DEF Pace
<1>4. CASE Fetch \/ Count
  <2>1. pc # "idle" /\ UNCHANGED <<req, page, asked, walk>>
    BY <1>4 DEF Fetch, Count
  <2> QED
    BY <2>1 DEF Pace, LastRead
<1>5. CASE Fail
  <2>1. pc' = "idle" /\ UNCHANGED <<page, asked, walk>>
    BY <1>5 DEF Fail
  <2> QED
    BY <2>1 DEF Pace
<1>6. CASE Finish
  <2>1. pc = "finish" /\ pc' = "idle" /\ asked'.req = req /\ walk'.on = walk.on
    BY <1>6 DEF Finish, CallInv, TypeOK
  <2> QED
    BY <2>1 DEF Pace
<1>7. CASE Insert \/ Delete
  <2>1. UNCHANGED <<pc, req, page, asked>> /\ walk'.on = walk.on
    BY <1>7 DEF Insert, Delete, CallInv, TypeOK
  <2> QED
    BY <2>1 DEF Pace, LastRead
<1>8. CASE UNCHANGED vars
  BY <1>8 DEF vars, Pace, LastRead
<1> QED
  BY <1>1, <1>2, <1>3, <1>4, <1>5, <1>6, <1>7, <1>8 DEF Next

\* A page of a walk: the rows right behind those the walk has read, as far as
\* the page reaches.
LEMMA WalkPage ==
    ASSUME CallInv, Pace, SmallTables, Finish, req.walking
    PROVE  /\ page' # NoPage /\ walk.on /\ req.pagination = req.method
           /\ LastRead \in Nat /\ LastRead' = req.page * req.size /\ LastRead' \in Nat
           /\ LastRead <= LastRead' /\ asked'.req = req
           /\ asked'.data = saw.data /\ asked'.count = saw.count
           /\ saw.data \in SUBSET Row /\ table' = table
           /\ walk' = [walk EXCEPT !.got = walk.got \cup ToSet(page'.data),
                                   !.repeated = walk.repeated \/ ToSet(page'.data) \cap walk.got # {}]
           /\ ToSet(page'.data) \subseteq {r \in saw.data : Rank(saw.data, r) \in LastRead + 1 .. LastRead'}
<1>1. pc = "finish" /\ asked' = [req |-> req, data |-> saw.data, count |-> saw.count]
      /\ page' = NewPage(req, rows, total) /\ table' = table
  BY DEF Finish
<1>2. Sent(req) /\ rows \in Seq(Row) /\ total \in Nat /\ saw.data \in SUBSET Row
  BY <1>1 DEF CallInv, InFlight, TypeOK
<1>3. page' # NoPage
  BY <1>1, <1>2, NewPageType
<1>4. req.pagination = req.method /\ req.page \in 1..MaxU32 /\ req.size \in 1..MaxU32
  BY <1>2, PageNumber DEF Sent
<1>5. walk.on /\ (req.page - 1) * req.size = LastRead
  BY <1>1 DEF Pace
<1>6. LastRead' = req.page * req.size
  BY <1>1, <1>3 DEF LastRead
<1>7. LastRead \in Nat /\ LastRead' \in Nat /\ LastRead <= LastRead'
  <2>1. (req.page - 1) * req.size \in Nat /\ req.page * req.size = (req.page - 1) * req.size + req.size
        /\ req.size \in Nat
    BY <1>4, NumbersAssumption
  <2> QED
    BY <1>5, <1>6, <2>1
<1>8. ToSet(page'.data) \subseteq Ranked(saw.data, LastRead + 1, LastRead')
  <2>2. rows = Answer(req, saw.data) /\ total = Counted(req, saw.count)
    BY <1>1 DEF CallInv, InFlight
  <2>3. total <= MaxU32
    <3>1. Cardinality(saw.count) \in Nat /\ Cardinality(saw.count) <= Cardinality(Row)
          /\ Cardinality(Row) \in Nat
      BY TableFinite, RowAssumption, FS_CardinalityType DEF CallInv, TypeOK
    <3> QED
      BY <2>2, <3>1, NumbersAssumption DEF Counted, SmallTables
  <2>4. ToSet(NewPage(req, Answer(req, saw.data), total).data) \subseteq
          Ranked(saw.data, (req.page - 1) * req.size + 1, req.page * req.size)
    BY <1>2, <1>4, <2>3, PageRows
  <2> QED
    BY <1>1, <1>5, <1>6, <2>2, <2>4
<1>9. Ranked(saw.data, LastRead + 1, LastRead') =
         {r \in saw.data : Rank(saw.data, r) \in LastRead + 1 .. LastRead'}
  BY RankedIs
<1>10. walk' = [walk EXCEPT !.got = walk.got \cup ToSet(page'.data),
                            !.repeated = walk.repeated \/ ToSet(page'.data) \cap walk.got # {}]
  BY DEF Finish
<1> QED
  BY <1>1, <1>2, <1>3, <1>4, <1>5, <1>6, <1>7, <1>8, <1>9, <1>10

\* Rows received come before the next page whoever deletes: nothing is read
\* twice unless somebody inserts.
LEMMA NoneTwiceNext ==
    ASSUME CallInv, Pace, SmallTables, NoneTwice, [Next]_vars
    PROVE  NoneTwice'
<1>t. table \in SUBSET Row /\ walk.got \in SUBSET Row /\ walk.on \in BOOLEAN
      /\ walk.inserted \in BOOLEAN /\ walk.repeated \in BOOLEAN
      /\ walk \in [on : BOOLEAN, got : SUBSET Row, repeated : BOOLEAN, stable : SUBSET Row,
                    inserted : BOOLEAN, deleted : BOOLEAN]
      /\ saw.data \in SUBSET Row
  BY DEF CallInv, TypeOK
<1>1. CASE FirstPage \/ JumpTo \/ LimitOffset
  <2>1. pc' = "fetch" /\ (walk' = NoWalk \/ walk' = [NoWalk EXCEPT !.on = TRUE, !.stable = table])
    BY <1>1 DEF FirstPage, JumpTo, LimitOffset, Call, LeaveWalk
  <2>2. walk'.got = {} /\ ~walk'.repeated
    <3>1. CASE walk' = NoWalk
      BY <3>1 DEF NoWalk
    <3>2. CASE walk' = [NoWalk EXCEPT !.on = TRUE, !.stable = table]
      BY <3>2 DEF NoWalk
    <3> QED
      BY <2>1, <3>1, <3>2
  <2> QED
    BY <2>1, <2>2 DEF NoneTwice, ReadBelow
<1>2. CASE NextPage
  <2>1. pc' = "fetch" /\ UNCHANGED <<table, page, asked, walk>>
    BY <1>2 DEF NextPage, Call
  <2> QED
    BY <2>1 DEF NoneTwice, ReadBelow, Rank, LastRead
<1>3. CASE Fetch
  <2>1. UNCHANGED <<table, page, asked, walk>> /\ saw'.data = table
    BY <1>3 DEF Fetch
  <2> QED
    BY <2>1 DEF NoneTwice, ReadBelow, Rank, LastRead
<1>4. CASE Count
  <2>1. pc = "count" /\ UNCHANGED <<table, page, asked, walk>> /\ saw'.data = saw.data
    BY <1>4 DEF Count, CallInv, InFlight
  <2> QED
    BY <2>1 DEF NoneTwice, ReadBelow, Rank, LastRead
<1>5. CASE Fail
  <2>1. pc' = "idle" /\ UNCHANGED <<table, page, asked, walk>>
    BY <1>5 DEF Fail
  <2> QED
    BY <2>1 DEF NoneTwice, ReadBelow, Rank, LastRead
<1>6. CASE Finish /\ ~req.walking
  <2>1. pc = "finish" /\ pc' = "idle" /\ walk' = walk
    BY <1>6 DEF Finish
  <2>2. ~walk.on
    BY <1>6, <2>1 DEF Pace
  <2> QED
    BY <2>1, <2>2 DEF NoneTwice
<1>7. CASE Finish /\ req.walking
  <2> DEFINE new == ToSet(page'.data)
             d == saw.data
  <2>1. pc = "finish" /\ pc' = "idle" /\ table' = table /\ walk.on
        /\ walk' = [walk EXCEPT !.got = walk.got \cup new,
                                !.repeated = walk.repeated \/ new \cap walk.got # {}]
        /\ new \subseteq {r \in d : Rank(d, r) \in LastRead + 1 .. LastRead'}
        /\ LastRead \in Nat /\ LastRead' \in Nat /\ LastRead <= LastRead'
    BY <1>7, WalkPage DEF Finish
  <2>2. /\ walk'.on = walk.on /\ walk'.inserted = walk.inserted
        /\ walk'.got = walk.got \cup new
        /\ walk'.repeated = (walk.repeated \/ new \cap walk.got # {})
    BY <1>t, <2>1
  <2> SUFFICES ASSUME ~walk.inserted
               PROVE  ~walk'.repeated /\ ReadBelow(table)'
    BY <2>1, <2>2 DEF NoneTwice
  <2>3. table \subseteq d /\ (\A r \in walk.got \cap d : Rank(d, r) <= LastRead) /\ ~walk.repeated
        /\ \A r \in walk.got \cap table : Rank(table, r) <= LastRead
    BY <2>1 DEF NoneTwice, ReadBelow
  <2>4. ASSUME NEW r \in d PROVE Rank(d, r) \in Int
    <3>1. Rank(d, r) \in 1..Cardinality(d)
      BY <1>t, RankType
    <3> QED
      BY <3>1, <1>t, TableFinite
  <2>5. ~walk'.repeated
    <3> HIDE DEF new, d
    <3>1. ASSUME NEW r \in new, r \in walk.got PROVE FALSE
      <4>1. r \in d /\ Rank(d, r) \in LastRead + 1 .. LastRead'
        BY <2>1, <3>1
      <4>2. Rank(d, r) <= LastRead
        BY <2>3, <3>1, <4>1
      <4> QED
        BY <2>1, <4>1, <4>2
    <3>2. new \cap walk.got = {}
      BY <3>1
    <3> QED
      BY <2>2, <2>3, <3>2
  <2>6. \A r \in walk'.got \cap table : Rank(table, r) <= LastRead'
    <3>1. \A r \in table : Rank(table, r) <= Rank(d, r) /\ Rank(table, r) \in Nat /\ Rank(d, r) \in Nat
      BY <1>t, <2>3, RankMonotone
    <3> HIDE DEF new, d
    <3>2. ASSUME NEW r \in walk'.got \cap table PROVE Rank(table, r) <= LastRead'
      <4>1. CASE r \in new
        <5>1. Rank(d, r) \in LastRead + 1 .. LastRead'
          BY <2>1, <4>1
        <5> QED
          BY <2>1, <3>1, <5>1
      <4>2. CASE r \in walk.got
        <5>1. Rank(table, r) <= LastRead
          BY <2>3, <4>2
        <5> QED
          BY <2>1, <3>1, <5>1
      <4> QED
        BY <2>2, <4>1, <4>2
    <3> QED
      BY <3>2
  <2>7. ReadBelow(table)'
    BY <2>1, <2>6 DEF ReadBelow, Rank
  <2> QED
    BY <2>5, <2>7
<1>8. CASE Insert
  <2>1. walk' = [walk EXCEPT !.inserted = walk.on]
    BY <1>8 DEF Insert
  <2>2. walk'.on = walk.on /\ walk'.repeated = walk.repeated /\ walk'.inserted = walk.on
    BY <1>t, <2>1
  <2> QED
    BY <2>2 DEF NoneTwice
<1>9. CASE Delete
  <2>1. PICK x \in table :
          table' = table \ {x} /\ walk' = [walk EXCEPT !.stable = @ \ {x}, !.deleted = walk.on]
    BY <1>9 DEF Delete
  <2>2. walk'.on = walk.on /\ walk'.repeated = walk.repeated /\ walk'.inserted = walk.inserted
        /\ walk'.got = walk.got /\ UNCHANGED <<pc, page, asked, saw>>
    BY <1>9, <1>t, <2>1 DEF Delete
  <2>3. LastRead' = LastRead
    BY <2>2 DEF LastRead
  <2>4. ASSUME ReadBelow(table), walk.on PROVE ReadBelow(table)'
    <3>1. \A r \in table' : Rank(table', r) <= Rank(table, r) /\ Rank(table', r) \in Nat
                             /\ Rank(table, r) \in Nat
      BY <1>t, <2>1, RankMonotone
    <3>2. LastRead \in Nat
      <4>1. page # NoPage => asked.req.page \in 1..MaxU32 /\ asked.req.size \in 1..MaxU32
        BY <2>4, ReadsOnSent DEF Pace, CallInv
      <4> QED
        BY <4>1, NumbersAssumption DEF LastRead
    <3>3. \A r \in walk'.got \cap table' : Rank(table', r) <= LastRead
      BY <2>1, <2>2, <2>4, <3>1, <3>2 DEF ReadBelow
    <3> QED
      BY <2>3, <3>3 DEF ReadBelow, Rank
  <2>5. ReadBelow(saw.data) => ReadBelow(saw.data)'
    BY <2>2, <2>3 DEF ReadBelow, Rank
  <2>6. table \subseteq saw.data => table' \subseteq saw'.data
    BY <2>1, <2>2
  <2> QED
    BY <2>2, <2>4, <2>5, <2>6 DEF NoneTwice
<1>10. CASE UNCHANGED vars
  BY <1>10 DEF vars, NoneTwice, ReadBelow, Rank, LastRead
<1> QED
  BY <1>1, <1>2, <1>3, <1>4, <1>5, <1>6, <1>7, <1>8, <1>9, <1>10 DEF Next

\* Without deletes a row that was there all the time stays behind what has been
\* read until it is received, and the page that says it is the last has it.
LEMMA NoneLeftOutNext ==
    ASSUME CallInv, Pace, SmallTables, SizesCount, NoneLeftOut, [Next]_vars
    PROVE  NoneLeftOut'
<1> DEFINE Walks == [on : BOOLEAN, got : SUBSET Row, repeated : BOOLEAN, stable : SUBSET Row,
                     inserted : BOOLEAN, deleted : BOOLEAN]
<1>t. table \in SUBSET Row /\ saw.data \in SUBSET Row /\ walk \in Walks
  BY DEF CallInv, TypeOK
<1>1. CASE FirstPage
  <2>1. pc' = "fetch" /\ page' = NoPage /\ table' = table
        /\ walk' = [NoWalk EXCEPT !.on = TRUE, !.stable = table]
    BY <1>1 DEF FirstPage, Call, Forget
  <2>2. walk'.got = {} /\ walk'.stable = table
    BY <2>1 DEF NoWalk
  <2>3. ASSUME NEW r \in table PROVE Rank(table, r) > 0
    <3>1. Rank(table, r) \in 1..Cardinality(table)
      BY <1>t, RankType
    <3> QED
      BY <3>1, <1>t, TableFinite
  <2>4. UnreadAbove(table)'
    BY <2>1, <2>2, <2>3 DEF UnreadAbove, LastRead, Rank
  <2> QED
    BY <2>1, <2>2, <2>4 DEF NoneLeftOut
<1>2. CASE JumpTo \/ LimitOffset
  <2>1. walk' = NoWalk
    BY <1>2 DEF JumpTo, LimitOffset, LeaveWalk
  <2>2. ~walk'.on
    BY <2>1 DEF NoWalk
  <2> QED
    BY <2>2 DEF NoneLeftOut
<1>3. CASE NextPage
  <2>1. pc' = "fetch" /\ UNCHANGED <<table, page, asked, walk>>
    BY <1>3 DEF NextPage, Call
  <2> QED
    BY <2>1 DEF NoneLeftOut, UnreadAbove, Rank, LastRead
<1>4. CASE Fetch
  <2>1. pc' # "finish" \/ ~Counts(req)
    BY <1>4 DEF Fetch
  <2>2. UNCHANGED <<table, page, asked, walk, req>> /\ saw'.data = table
    BY <1>4 DEF Fetch
  <2> QED
    BY <2>1, <2>2 DEF NoneLeftOut, UnreadAbove, Rank, LastRead
<1>5. CASE Count
  <2>1. pc = "count" /\ UNCHANGED <<table, page, asked, walk>> /\ saw'.data = saw.data
        /\ saw'.count = table
    BY <1>5 DEF Count, CallInv, InFlight
  <2> QED
    BY <2>1 DEF NoneLeftOut, UnreadAbove, Rank, LastRead
<1>6. CASE Fail
  <2>1. pc' = "idle" /\ UNCHANGED <<table, page, asked, walk>>
    BY <1>6 DEF Fail
  <2> QED
    BY <2>1 DEF NoneLeftOut, UnreadAbove, Rank, LastRead
<1>7. CASE Finish /\ ~req.walking
  <2>1. pc = "finish" /\ walk' = walk
    BY <1>7 DEF Finish
  <2>2. ~walk.on
    BY <1>7, <2>1 DEF Pace
  <2> QED
    BY <2>1, <2>2 DEF NoneLeftOut
<1>8. CASE Finish /\ req.walking
  <2> DEFINE new == ToSet(page'.data)
             d == saw.data
             l == req.page * req.size
  <2>1. pc = "finish" /\ pc' = "idle" /\ table' = table /\ walk.on /\ page' # NoPage
        /\ asked'.req = req /\ asked'.data = d /\ asked'.count = saw.count
        /\ req.pagination = req.method
        /\ walk' = [walk EXCEPT !.got = walk.got \cup new,
                                !.repeated = walk.repeated \/ new \cap walk.got # {}]
        /\ LastRead \in Nat /\ LastRead' = l /\ l \in Nat /\ LastRead <= l
    BY <1>8, WalkPage DEF Finish
  <2>2. walk'.on = walk.on /\ walk'.deleted = walk.deleted /\ walk'.got = walk.got \cup new
        /\ walk'.stable = walk.stable
    BY <1>t, <2>1
  <2> SUFFICES ASSUME ~walk.deleted
               PROVE  /\ walk.stable \subseteq table /\ UnreadAbove(table)'
                      /\ ~ReadsOn(page') => walk.stable \subseteq walk'.got
    BY <2>1, <2>2 DEF NoneLeftOut
  <2>3. walk.stable \subseteq table /\ walk.stable \subseteq d /\ d \subseteq table
        /\ (\A r \in walk.stable \ walk.got : Rank(d, r) > LastRead)
        /\ (Counts(req) => d \subseteq saw.count)
    BY <2>1 DEF NoneLeftOut, UnreadAbove
  <2>4. page' = NewPage(req, Answer(req, d), total) /\ total = Counted(req, saw.count)
        /\ saw.count \in SUBSET Row
    BY <1>8, <2>1 DEF Finish, CallInv, InFlight, TypeOK
  <2>5. Sent(req) /\ req.size < MaxU32 /\ req.method \in {"Serial", "Slice"}
    BY <2>1, MethodsAssumption DEF CallInv, InFlight, Sent, Request, SizesCount
  <2>6. LET asks == Ranked(d, (req.page - 1) * req.size + 1, l)
        IN  /\ new = asks
            /\ req.method = "Slice" => (ReadsOn(page') <=> Cardinality(d) > l)
            /\ req.method = "Serial" => (ReadsOn(page') <=> Cardinality(saw.count) > l)
    <3>1. total \in Nat /\ total <= MaxU32
      <4>1. Cardinality(saw.count) \in Nat /\ Cardinality(saw.count) <= Cardinality(Row)
            /\ Cardinality(Row) \in Nat
        BY <2>4, TableFinite, RowAssumption, FS_CardinalityType
      <4> QED
        BY <2>4, <4>1, NumbersAssumption DEF Counted, SmallTables
    <3>2. req.method = "Serial" => total = Cardinality(saw.count)
      BY <2>4 DEF Counted, Counts
    <3>3. LET p    == NewPage(req, Answer(req, d), total)
              asks == Ranked(d, (req.page - 1) * req.size + 1, req.page * req.size)
          IN  /\ req.size < MaxU32 => ToSet(p.data) = asks
              /\ req.method = "Slice" /\ req.size < MaxU32 =>
                   (ReadsOn(p) <=> Cardinality(d) > req.page * req.size)
              /\ req.method = "Serial" => (ReadsOn(p) <=> total > req.page * req.size)
      <4> HIDE DEF d
      <4> QED
        BY <1>t, <2>1, <2>5, <3>1, PageRows DEF d
    <3> QED
      BY <2>4, <2>5, <3>2, <3>3
  <2>7. new = {r \in d : Rank(d, r) \in LastRead + 1 .. l}
    <3>1. (req.page - 1) * req.size = LastRead
      BY <1>8, <2>1 DEF Pace
    <3> QED
      BY <2>6, <3>1, RankedIs
  <2>8. \A r \in d : Rank(d, r) \in 1..Cardinality(d)
    BY <1>t, RankType
  <2>9. \A r \in walk'.stable \ walk'.got : Rank(d, r) > l
    <3> HIDE DEF new, d, l
    <3>1. ASSUME NEW r \in walk'.stable \ walk'.got PROVE Rank(d, r) > l
      <4>1. r \in d /\ Rank(d, r) > LastRead /\ r \notin new
        BY <2>2, <2>3, <3>1
      <4>2. Rank(d, r) \in Int
        BY <2>8, <4>1
      <4> QED
        BY <2>1, <2>7, <4>1, <4>2
    <3> QED
      BY <3>1
  <2>10. UnreadAbove(table)'
    <3>1. \A r \in table : Rank(d, r) <= Rank(table, r) /\ Rank(d, r) \in Nat /\ Rank(table, r) \in Nat
      BY <1>t, <2>3, RankMonotone
    <3> HIDE DEF new, d, l
    <3>2. \A r \in walk'.stable \ walk'.got : Rank(table, r) > l
      BY <2>1, <2>2, <2>3, <2>9, <3>1
    <3> QED
      BY <2>1, <3>2 DEF UnreadAbove, Rank
  <2>11. ASSUME ~ReadsOn(page') PROVE walk.stable \subseteq walk'.got
    <3>1. Cardinality(d) <= l
      <4>1. Cardinality(d) \in Nat /\ Cardinality(saw.count) \in Nat /\ IsFiniteSet(saw.count)
        BY TableFinite DEF CallInv, TypeOK
      <4>2. CASE req.method = "Slice"
        BY <2>1, <2>6, <2>11, <4>1, <4>2
      <4>3. CASE req.method = "Serial"
        <5>1. d \subseteq saw.count
          BY <2>3, <4>3 DEF Counts
        <5>2. Cardinality(d) <= Cardinality(saw.count)
          BY <4>1, <5>1, FS_Subset
        <5>3. Cardinality(saw.count) <= l
          BY <2>1, <2>6, <2>11, <4>1, <4>3
        <5> HIDE DEF d, l
        <5> QED
          BY <2>1, <4>1, <5>2, <5>3
      <4> QED
        BY <2>5, <4>2, <4>3
    <3>2. Cardinality(d) \in Nat
      BY <1>t, TableFinite
    <3> HIDE DEF new, d, l
    <3> QED
      BY <2>1, <2>2, <2>3, <2>8, <2>9, <3>1, <3>2
  <2> QED
    BY <2>3, <2>10, <2>11
<1>9. CASE Insert
  <2>1. PICK x \in Row \ table :
          table' = table \cup {x} /\ walk' = [walk EXCEPT !.inserted = walk.on]
    BY <1>9 DEF Insert
  <2>2. walk'.on = walk.on /\ walk'.deleted = walk.deleted /\ walk'.got = walk.got
        /\ walk'.stable = walk.stable /\ UNCHANGED <<pc, req, page, asked, saw>>
    BY <1>9, <1>t, <2>1 DEF Insert
  <2>3. LastRead' = LastRead
    BY <2>2 DEF LastRead
  <2>4. ASSUME UnreadAbove(table), walk.on PROVE UnreadAbove(table)'
    <3>1. table' \in SUBSET Row /\ table \in SUBSET table'
      BY <1>t, <2>1
    <3>2. \A r \in table' : Rank(table, r) <= Rank(table', r) /\ Rank(table', r) \in Nat
                             /\ Rank(table, r) \in Nat
      BY <3>1, RankMonotone
    <3>3. LastRead \in Nat
      <4>1. page # NoPage => asked.req.page \in 1..MaxU32 /\ asked.req.size \in 1..MaxU32
        BY <2>4, ReadsOnSent DEF Pace, CallInv
      <4> QED
        BY <4>1, NumbersAssumption DEF LastRead
    <3>4. \A r : Rank(table, r) <= Rank(table', r) /\ Rank(table', r) \in Nat
                 /\ Rank(table, r) \in Nat
      BY <3>1, RankMonotone
    <3>5. \A r \in walk'.stable \ walk'.got : Rank(table', r) > LastRead
      BY <2>2, <2>4, <3>3, <3>4 DEF UnreadAbove
    <3> QED
      BY <2>3, <3>5 DEF UnreadAbove, Rank
  <2>5. UnreadAbove(saw.data) => UnreadAbove(saw.data)'
    BY <2>2, <2>3 DEF UnreadAbove, Rank
  <2> QED
    BY <2>1, <2>2, <2>4, <2>5 DEF NoneLeftOut
<1>10. CASE Delete
  <2>1. walk' = [walk EXCEPT !.stable = walk'.stable, !.deleted = walk.on]
    BY <1>10, <1>t DEF Delete
  <2>2. walk'.on = walk.on /\ walk'.deleted = walk.on
    BY <1>10, <1>t DEF Delete
  <2> QED
    BY <2>2 DEF NoneLeftOut
<1>11. CASE UNCHANGED vars
  BY <1>11 DEF vars, NoneLeftOut, UnreadAbove, Rank, LastRead
<1> QED
  BY <1>1, <1>2, <1>3, <1>4, <1>5, <1>6, <1>7, <1>8, <1>9, <1>10, <1>11 DEF Next

\* A walk receives no row twice, however many rows others delete under it and
\* between its queries, as long as nobody inserts.
THEOREM DeletesRepeatNone ==
    ASSUME SmallTables
    PROVE  Spec => []NoRepeatsWithoutInserts
<1>1. Init => WalkInv
  BY CallInvInit DEF Init, WalkInv, Pace, NoneTwice, NoWalk
<1>2. WalkInv /\ [Next]_vars => WalkInv'
  BY CallInvNext, PaceNext, NoneTwiceNext DEF WalkInv
<1>3. WalkInv => NoRepeatsWithoutInserts
  BY DEF WalkInv, NoneTwice, NoRepeatsWithoutInserts
<1> QED
  BY <1>1, <1>2, <1>3, PTL DEF Spec

\* A walk whose last page says there is no more has received every row that was
\* in the table all the time, however many rows others insert under it and
\* between its queries, as long as nobody deletes.
THEOREM InsertsHideNone ==
    ASSUME SmallTables, SizesCount
    PROVE  Spec => []NoSkipsWithoutDeletes
<1>1. Init => SkipInv
  BY CallInvInit DEF Init, SkipInv, Pace, NoneLeftOut, NoWalk
<1>2. SkipInv /\ [Next]_vars => SkipInv'
  BY CallInvNext, PaceNext, NoneLeftOutNext DEF SkipInv
<1>3. SkipInv => NoSkipsWithoutDeletes
  BY DEF SkipInv, NoneLeftOut, NoSkipsWithoutDeletes, Received
<1> QED
  BY <1>1, <1>2, <1>3, PTL DEF Spec
=============================================================================
