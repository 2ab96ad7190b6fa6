----------------------- MODULE CursorPagination_proofs -----------------------
(***************************************************************************)
(* What holds of CursorPagination for every table, every sort key and      *)
(* every choice of limits, and of the condition that KeysetPredicate       *)
(* builds of a cursor over several fields, for every number of them.       *)
(***************************************************************************)
EXTENDS CursorPagination, KeysetPredicate, FiniteSetTheorems, WellFoundedInduction, TLAPS

-----------------------------------------------------------------------------
(* Sequences: what truncating and reversing the fetched rows do.           *)

\* Truncating a sequence keeps its first elements.
LEMMA Truncated ==
    ASSUME NEW S, NEW s \in Seq(S), NEW n \in Nat, n <= Len(s)
    PROVE  /\ SubSeq(s, 1, n) \in Seq(S)
           /\ Len(SubSeq(s, 1, n)) = n
           /\ \A i \in 1..n : SubSeq(s, 1, n)[i] = s[i]
OBVIOUS

\* Reversing a sequence keeps its length and its elements.
LEMMA Reversed ==
    ASSUME NEW S, NEW s \in Seq(S)
    PROVE  /\ Reverse(s) \in Seq(S)
           /\ Len(Reverse(s)) = Len(s)
           /\ \A i \in 1..Len(s) : Reverse(s)[i] = s[Len(s) + 1 - i]
<1>1. Reverse(s) = [i \in 1..Len(s) |-> s[(Len(s) - i) + 1]]
  BY DEF Reverse
<1>2. \A i \in 1..Len(s) : (Len(s) - i) + 1 \in 1..Len(s)
  OBVIOUS
<1>3. \A i \in 1..Len(s) : s[(Len(s) - i) + 1] \in S
  BY <1>2
<1>4. Reverse(s) \in [1..Len(s) -> S]
  BY <1>1, <1>3
<1> QED
  BY <1>1, <1>4

-----------------------------------------------------------------------------
(* The page size is a positive number, whatever limit the client passed.   *)
LEMMA PageSizeType ==
    ASSUME NEW q \in Request
    PROVE  PageSize(q) \in Nat \ {0}
<1>1. q.limit \in Limits
  BY DEF Request
<1>2. CASE q.limit = NoLimit
  BY <1>2, LimitAssumption DEF PageSize
<1>3. CASE q.limit # NoLimit
  <2>1. q.limit \in 0..MaxU32
    BY <1>1, <1>3, LimitAssumption
  <2> QED
    BY <1>3, <2>1 DEF PageSize
<1> QED
  BY <1>2, <1>3

LEMMA KeptType ==
    ASSUME NEW q \in Request, NEW s \in Seq(Row)
    PROVE  /\ Kept(q, s) \in Seq(Row)
           /\ Len(Kept(q, s)) <= Len(s)
           /\ Len(s) > PageSize(q) => Len(Kept(q, s)) = PageSize(q)
           /\ ~(Len(s) > PageSize(q)) => Kept(q, s) = s
           /\ \A i \in 1..Len(Kept(q, s)) : Kept(q, s)[i] = s[i]
<1>1. PageSize(q) \in Nat \ {0}
  BY PageSizeType
<1>2. CASE Len(s) > PageSize(q)
  <2>1. Kept(q, s) = SubSeq(s, 1, PageSize(q))
    BY <1>2 DEF Kept, HasMore
  <2>2. PageSize(q) \in Nat /\ PageSize(q) <= Len(s)
    BY <1>1, <1>2
  <2> QED
    BY <1>1, <1>2, <2>1, <2>2, Truncated
<1>3. CASE ~(Len(s) > PageSize(q))
  BY <1>3 DEF Kept, HasMore
<1> QED
  BY <1>2, <1>3

\* Cursor::new makes a page, whatever rows it is given.
LEMMA NewPageType ==
    ASSUME NEW q \in Request, NEW s \in Seq(Row)
    PROVE  NewPage(q, s) \in Page
<1>1. Kept(q, s) \in Seq(Row) /\ PageSize(q) \in Nat
  BY KeptType, PageSizeType
<1>2. Data(q, s) \in Seq(Row)
  BY <1>1, Reversed DEF Data
<1>3. Token(NextRow(q, s)) \in Values /\ Token(PrevRow(q, s)) \in Values
  <2>1. Kept(q, s) # <<>> => Last(Kept(q, s)) \in Row /\ Head(Kept(q, s)) \in Row
    BY <1>1 DEF Last
  <2>2. /\ NextRow(q, s) = <<>> \/ \E r \in Row : NextRow(q, s) = <<r>>
        /\ PrevRow(q, s) = <<>> \/ \E r \in Row : PrevRow(q, s) = <<r>>
    BY <2>1 DEF NextRow, PrevRow
  <2> QED
    BY <2>2 DEF Token, Values
<1>4. HasMore(q, s) \in BOOLEAN /\ (q.values # <<>>) \in BOOLEAN
  BY DEF HasMore
<1> QED
  BY <1>1, <1>2, <1>3, <1>4 DEF NewPage, Page

-----------------------------------------------------------------------------
(* Type correctness.                                                       *)

\* The statement reads rows of the table only.
LEMMA SelectedType ==
    ASSUME NEW q, NEW t \in SUBSET Row
    PROVE  Selected(q, t) \in SUBSET t
BY DEF Selected

LEMMA ExecuteType ==
    ASSUME TypeOK, Execute
    PROVE  rows' \in Seq(Row)
<1>1. Selected(req, table) \in SUBSET Row
  BY SelectedType DEF TypeOK
<1>2. Cardinality(Selected(req, table)) \in Nat
  BY <1>1, FS_Subset, FS_CardinalityType, RowAssumption
<1>3. rows' \in SeqOf(Selected(req, table), Cardinality(Selected(req, table)))
  BY DEF Execute
<1>4. PICK m \in 0..Cardinality(Selected(req, table)) : rows' \in [1..m -> Selected(req, table)]
  BY <1>3 DEF SeqOf
<1>5. m \in Nat
  BY <1>2, <1>4
<1> QED
  BY <1>1, <1>4, <1>5

LEMMA CallType ==
    ASSUME TypeOK, NEW d \in Directions, NEW v \in Values, NEW e \in BOOLEAN,
           NEW via \in {"first", "next", "prev", "seek", "bad"},
           Call(d, v, e, via)
    PROVE  /\ req' \in Request /\ pc' = "built"
           /\ req'.direction = d /\ req'.values = v
BY SortGivenAssumption DEF Call, Request

LEMMA NoPageType == NoPage \in Page
BY DEF NoPage, Page, Values

LEMMA NoRequestType == NoRequest \in Request
<1>1. (CHOOSE l \in Limits : TRUE) \in Limits
  BY LimitAssumption
<1> QED
  BY <1>1 DEF NoRequest, Request, Directions, Values

\* The state holds what the Rust types say, whatever the clients and the
\* writers do.
THEOREM TypeCorrect == Spec => []TypeOK
<1>1. Init => TypeOK
  <2> SUFFICES ASSUME Init PROVE TypeOK
    OBVIOUS
  <2>1. rows \in Seq(Row)
    BY DEF Init
  <2>2. asked \in [req : Request, snap : SUBSET Row]
    BY NoRequestType DEF Init
  <2>3. page \in Page /\ trail \in Page /\ req \in Request
    BY NoPageType, NoRequestType DEF Init
  <2> QED
    BY <2>1, <2>2, <2>3 DEF Init, TypeOK
<1>2. TypeOK /\ [Next]_vars => TypeOK'
  <2> SUFFICES ASSUME TypeOK, [Next]_vars PROVE TypeOK'
    OBVIOUS
  <2>1. CASE FirstPage
    <3>1. <<>> \in Values /\ "None" \in Directions
      BY DEF Values, Directions
    <3>2. req' \in Request /\ pc' = "built"
      BY <2>1, <3>1, CallType DEF FirstPage
    <3> QED
      BY <2>1, <3>2, NoPageType, NoRequestType DEF FirstPage, TypeOK, Call
  <2>2. CASE FollowNext
    <3>1. page.next_cursor \in Values /\ "After" \in Directions
      BY DEF TypeOK, Page, Directions
    <3>2. req' \in Request /\ pc' = "built"
      BY <2>2, <3>1, CallType DEF FollowNext
    <3> QED
      BY <2>2, <3>2 DEF FollowNext, TypeOK, Call, history
  <2>3. CASE FollowPrev
    <3>1. page.prev_cursor \in Values /\ "Before" \in Directions
      BY DEF TypeOK, Page, Directions
    <3>2. req' \in Request /\ pc' = "built"
      BY <2>3, <3>1, CallType DEF FollowPrev
    <3> QED
      BY <2>3, <3>2 DEF FollowPrev, TypeOK, Call, LeaveWalk
  <2>4. CASE Seek
    <3>1. PICK d \in {"After", "Before"}, r \in Row : Call(d, <<Key[r]>>, FALSE, "seek")
      BY <2>4 DEF Seek
    <3>2. <<Key[r]>> \in Values /\ d \in Directions
      BY DEF Values, Directions
    <3>3. req' \in Request /\ pc' = "built"
      BY <3>1, <3>2, CallType
    <3> QED
      BY <2>4, <3>1, <3>3 DEF Seek, TypeOK, Call, LeaveWalk
  <2>5. CASE BadToken
    <3>1. PICK d \in {"After", "Before"} : Call(d, <<>>, TRUE, "bad")
      BY <2>5 DEF BadToken
    <3>2. <<>> \in Values /\ d \in Directions
      BY DEF Values, Directions
    <3>3. req' \in Request /\ pc' = "built"
      BY <3>1, <3>2, CallType
    <3> QED
      BY <2>5, <3>1, <3>3 DEF BadToken, TypeOK, Call, LeaveWalk
  <2>6. CASE BuildFails
    BY <2>6 DEF BuildFails, TypeOK, history
  <2>7. CASE Execute
    <3>1. rows' \in Seq(Row)
      BY <2>7, ExecuteType
    <3> QED
      BY <2>7, <3>1 DEF Execute, TypeOK, history
  <2>8. CASE FetchFails
    BY <2>8 DEF FetchFails, TypeOK, history
  <2>9. CASE PageFails
    BY <2>9 DEF PageFails, TypeOK, history
  <2>10. CASE Finish
    <3>1. page' \in Page
      BY <2>10, NewPageType DEF Finish, TypeOK
    <3>2. ToSet(page.data) \subseteq Row
      BY DEF TypeOK, Page, ToSet
    <3>3. asked' \in [req : Request, snap : SUBSET Row]
      BY <2>10 DEF Finish, TypeOK
    <3>4. trail' \in Page
      BY <2>10, NoPageType DEF Finish, TypeOK
    <3>5. before' \subseteq Row
      BY <2>10, <3>2 DEF Finish, TypeOK
    <3> QED
      BY <2>10, <3>1, <3>3, <3>4, <3>5 DEF Finish, TypeOK
  <2>11. CASE Insert
    BY <2>11 DEF Insert, TypeOK
  <2>12. CASE Delete
    BY <2>12 DEF Delete, TypeOK
  <2>13. CASE UNCHANGED vars
    BY <2>13 DEF vars, TypeOK
  <2> QED
    BY <2>1, <2>2, <2>3, <2>4, <2>5, <2>6, <2>7, <2>8, <2>9, <2>10, <2>11, <2>12,
       <2>13 DEF Next
<1> QED
  BY <1>1, <1>2, PTL DEF Spec

-----------------------------------------------------------------------------
(***************************************************************************)
(* No duplicates.  NoDuplicates alone is not inductive: that the next page *)
(* holds no row received before follows from where its cursor points, and  *)
(* so from the order of the page the cursor was taken from.                *)
(***************************************************************************)

\* a sequence of rows is in the order the client sorts by
Ordered(s) ==
    \A i, j \in 1..Len(s) : i < j => ~Precedes(Key[s[j]], Key[s[i]])

\* the page is in order, lies beyond all rows before it, and its token is
\* the key of its last row
WalkPage ==
    /\ Ordered(page.data)
    /\ \A r \in before, i \in 1..Len(page.data) : Precedes(Key[r], Key[page.data[i]])
    /\ page.next_cursor # <<>> =>
         /\ page.data # <<>>
         /\ page.next_cursor = <<Key[page.data[Len(page.data)]]>>
         /\ page.has_next

\* the call in progress asks for the first page or for the one after `page`
WalkRequest ==
    pc # "idle" =>
        \/ /\ req.direction = "None" /\ req.values = <<>>
           /\ page = NoPage /\ before = {}
        \/ /\ req.direction = "After" /\ page.data # <<>> /\ page.has_next
           /\ req.values = <<Key[page.data[Len(page.data)]]>>

\* the rows fetched for it are in order and beyond its cursor
WalkRows ==
    pc = "fetched" =>
        /\ req.sorted => Ordered(rows)
        /\ req.values # <<>> =>
             \A i \in 1..Len(rows) : Precedes(req.values[1], Key[rows[i]])

WalkInv == Forward => WalkPage /\ WalkRequest /\ WalkRows

\* Away from "Before", Cursor::new keeps the fetched order.
LEMMA ForwardPage ==
    ASSUME NEW q \in Request, NEW s \in Seq(Row), q.direction # "Before"
    PROVE  /\ NewPage(q, s).data = Kept(q, s)
           /\ NewPage(q, s).has_next = (Len(s) > PageSize(q))
           /\ NewPage(q, s).per_page = PageSize(q)
           /\ NewPage(q, s).next_cursor # <<>> =>
                /\ Len(s) > PageSize(q) /\ Kept(q, s) # <<>>
                /\ NewPage(q, s).next_cursor = <<Key[Kept(q, s)[Len(Kept(q, s))]]>>
<1>1. Kept(q, s) \in Seq(Row)
  BY KeptType
<1>2. NextRow(q, s) # <<>> =>
        /\ HasMore(q, s) /\ Kept(q, s) # <<>>
        /\ NextRow(q, s) = <<Kept(q, s)[Len(Kept(q, s))]>>
  BY <1>1 DEF NextRow, Last
<1>3. Token(NextRow(q, s)) # <<>> =>
        NextRow(q, s) # <<>> /\ Token(NextRow(q, s)) = <<Key[NextRow(q, s)[1]]>>
  BY DEF Token
<1> QED
  BY <1>1, <1>2, <1>3 DEF NewPage, Data, HasMore

\* The statement of a forward request answers in order, beyond the cursor.
LEMMA ResultInOrder ==
    ASSUME TypeOK, TypeOK', Execute, req.direction # "Before",
           req.values # <<>> => req.direction = "After"
    PROVE  /\ req.sorted => Ordered(rows')
           /\ req.values # <<>> =>
                \A i \in 1..Len(rows') : Precedes(req.values[1], Key[rows'[i]])
<1>1. PICK s \in SeqOf(Selected(req, table), Cardinality(Selected(req, table))) :
         IsResult(s, req, table) /\ rows' = s
  BY DEF Execute
<1>2. rows' \in Seq(Row) /\ DOMAIN rows' = 1..Len(rows')
  BY DEF TypeOK
<1>3. \A i \in 1..Len(rows') : rows'[i] \in Row /\ Key[rows'[i]] \in Int
  BY <1>2, KeyAssumption
<1>4. \A i \in 1..Len(rows') : rows'[i] \in Selected(req, table)
  <2>1. PICK m \in 0..Cardinality(Selected(req, table)) :
           rows' \in [1..m -> Selected(req, table)]
    BY <1>1 DEF SeqOf
  <2> QED
    BY <1>2, <2>1
<1>5. ASSUME req.sorted PROVE Ordered(rows')
  <2>1. \A i, j \in DOMAIN rows' : i < j => InOrder(OrderAsc(req), Key[rows'[i]], Key[rows'[j]])
    BY <1>1, <1>5 DEF IsResult
  <2>2. OrderAsc(req) = Asc
    BY DEF OrderAsc
  <2> QED
    BY <1>2, <1>3, <2>1, <2>2, AscAssumption DEF Ordered, InOrder, Precedes
<1>6. ASSUME req.values # <<>>, NEW i \in 1..Len(rows')
      PROVE  Precedes(req.values[1], Key[rows'[i]])
  <2>1. CursorOperator("After", Key[rows'[i]], req.values[1])
    BY <1>4, <1>6 DEF Selected
  <2> QED
    BY <2>1, AscAssumption DEF CursorOperator, Precedes
<1> QED
  BY <1>5, <1>6

LEMMA WalkFinish ==
    ASSUME TypeOK, TypeOK', WalkInv, Forward, Finish
    PROVE  WalkPage'
<1>1. req \in Request /\ rows \in Seq(Row) /\ req.direction # "Before" /\ req.sorted
      /\ page' = NewPage(req, rows)
  BY DEF TypeOK, WalkInv, WalkRequest, Finish
<1>2. page'.data = Kept(req, rows)
  BY <1>1, ForwardPage
<1>3. /\ Kept(req, rows) \in Seq(Row)
      /\ Len(Kept(req, rows)) <= Len(rows)
      /\ \A i \in 1..Len(Kept(req, rows)) : Kept(req, rows)[i] = rows[i]
  BY <1>1, KeptType
<1>4. Ordered(rows)
  BY <1>1 DEF WalkInv, WalkRows, Finish
<1>5. Ordered(page'.data)
  BY <1>1, <1>2, <1>3, <1>4 DEF Ordered
<1>6. ASSUME NEW r \in before', NEW i \in 1..Len(page'.data)
      PROVE  Precedes(Key[r], Key[page'.data[i]])
  <2>1. before' = before \cup ToSet(page.data)
    BY DEF Finish, Forward
  <2>2. page.data \in Seq(Row) /\ before \subseteq Row
    BY DEF TypeOK, Page
  <2>3. page'.data[i] = rows[i] /\ i \in 1..Len(rows)
    BY <1>1, <1>2, <1>3, <1>6
  <2>4. CASE page = NoPage /\ before = {}
    <3>1. ToSet(page.data) = {}
      BY <2>4 DEF NoPage, ToSet
    <3> QED
      BY <1>6, <2>1, <2>4, <3>1
  <2>5. CASE page.data # <<>> /\ req.values = <<Key[page.data[Len(page.data)]]>>
    <3> DEFINE last == page.data[Len(page.data)]
    <3>1. last \in Row /\ Len(page.data) \in 1..Len(page.data)
      BY <2>2, <2>5
    <3>2. Precedes(Key[last], Key[rows[i]])
      BY <2>3, <2>5 DEF WalkInv, WalkRows, Finish
    <3>3. rows[i] \in Row
      BY <1>1, <2>3
    <3>4. r \in Row /\ (r = last \/ ~Precedes(Key[last], Key[r]))
      <4>1. CASE r \in before
        <5>1. Precedes(Key[r], Key[last])
          BY <3>1, <4>1 DEF WalkInv, WalkPage
        <5>2. r \in Row
          BY <2>2, <4>1
        <5> QED
          BY <3>1, <5>1, <5>2, KeyAssumption DEF Precedes
      <4>2. CASE r \in ToSet(page.data)
        <5>1. PICK k \in 1..Len(page.data) : r = page.data[k]
          BY <2>2, <4>2 DEF ToSet
        <5>2. k = Len(page.data) \/ k < Len(page.data)
          BY <2>2, <5>1
        <5> QED
          BY <2>2, <3>1, <5>1, <5>2 DEF WalkInv, WalkPage, Ordered
      <4> QED
        BY <1>6, <2>1, <4>1, <4>2
    <3>5. Key[r] \in Int /\ Key[last] \in Int /\ Key[rows[i]] \in Int
      BY <3>1, <3>3, <3>4, KeyAssumption
    <3> QED
      BY <2>3, <3>2, <3>4, <3>5 DEF Precedes
  <2> QED
    BY <2>4, <2>5 DEF WalkInv, WalkRequest, Finish
<1>7. page'.next_cursor # <<>> =>
         /\ page'.data # <<>>
         /\ page'.next_cursor = <<Key[page'.data[Len(page'.data)]]>>
         /\ page'.has_next
  BY <1>1, <1>2, ForwardPage
<1> QED
  BY <1>5, <1>6, <1>7 DEF WalkPage

LEMMA WalkInvInductive ==
    ASSUME TypeOK, TypeOK', WalkInv, [Next]_vars
    PROVE  WalkInv'
<1>1. CASE FirstPage
  BY <1>1 DEF FirstPage, Call, WalkInv, WalkPage, WalkRequest, WalkRows, Ordered, NoPage
<1>2. CASE FollowNext
  <2> SUFFICES ASSUME Forward PROVE WalkInv'
    BY <1>2 DEF FollowNext, history, Forward, WalkInv
  <2>1. UNCHANGED <<page, before, walk>> /\ pc' = "built"
        /\ req'.direction = "After" /\ req'.values = page.next_cursor
    BY <1>2 DEF FollowNext, Call, history
  <2>2. WalkPage' /\ WalkRows'
    BY <2>1 DEF WalkInv, WalkPage, WalkRows, Ordered
  <2>3. WalkRequest'
    BY <1>2, <2>1 DEF WalkInv, WalkPage, WalkRequest, FollowNext
  <2> QED
    BY <2>2, <2>3 DEF WalkInv
<1>3. CASE FollowPrev \/ Seek \/ BadToken
  BY <1>3 DEF FollowPrev, Seek, BadToken, LeaveWalk, WalkInv, Forward
<1>4. CASE BuildFails \/ FetchFails \/ PageFails
  BY <1>4 DEF BuildFails, FetchFails, PageFails, history, WalkInv, Forward, WalkPage,
              WalkRequest, WalkRows, Ordered
<1>5. CASE Execute
  <2> SUFFICES ASSUME Forward PROVE WalkInv'
    BY <1>5 DEF Execute, history, Forward, WalkInv
  <2>1. UNCHANGED <<page, before, walk, req>> /\ pc = "built" /\ pc' = "fetched"
    BY <1>5 DEF Execute, history
  <2>2. WalkPage' /\ WalkRequest'
    BY <2>1 DEF WalkInv, WalkPage, WalkRequest, Ordered
  <2>3. /\ req.direction # "Before"
        /\ req.values # <<>> => req.direction = "After"
    BY <2>1 DEF WalkInv, WalkRequest
  <2>4. WalkRows'
    BY <1>5, <2>1, <2>3, ResultInOrder DEF WalkRows, Ordered
  <2> QED
    BY <2>2, <2>4 DEF WalkInv
<1>6. CASE Finish
  <2>1. pc' = "idle" /\ (Forward' <=> Forward)
    BY <1>6 DEF Finish, Forward
  <2> QED
    BY <1>6, <2>1, WalkFinish DEF WalkInv, WalkRequest, WalkRows
<1>7. CASE Insert \/ Delete
  BY <1>7 DEF Insert, Delete, WalkInv, Forward, WalkPage, WalkRequest, WalkRows, Ordered
<1>8. CASE UNCHANGED vars
  BY <1>8 DEF vars, WalkInv, Forward, WalkPage, WalkRequest, WalkRows, Ordered
<1> QED
  BY <1>1, <1>2, <1>3, <1>4, <1>5, <1>6, <1>7, <1>8 DEF Next

LEMMA WalkInvNoDuplicates ==
    ASSUME TypeOK, WalkInv
    PROVE  NoDuplicates
<1> SUFFICES ASSUME Forward, NEW r \in ToSet(page.data), r \in before PROVE FALSE
  BY DEF NoDuplicates
<1>1. page.data \in Seq(Row) /\ before \subseteq Row
  BY DEF TypeOK, Page
<1>2. PICK i \in 1..Len(page.data) : r = page.data[i]
  BY <1>1 DEF ToSet
<1>3. Precedes(Key[r], Key[r])
  BY <1>2 DEF WalkInv, WalkPage
<1> QED
  BY <1>1, <1>3, KeyAssumption DEF Precedes

LEMMA WalkInvariant == Spec => []WalkInv
<1>1. Init => WalkInv
  BY DEF Init, WalkInv, Forward
<1>2. TypeOK /\ TypeOK' /\ WalkInv /\ [Next]_vars => WalkInv'
  BY WalkInvInductive
<1> QED
  BY <1>1, <1>2, TypeCorrect, PTL DEF Spec

\* A walk that follows next_cursor never receives a row twice, whatever other
\* clients write between its calls: for every table, also one whose sort
\* column repeats values, and for every choice of limits.
THEOREM WalksReceiveNoRowTwice == Spec => []NoDuplicates
<1>1. TypeOK /\ WalkInv => NoDuplicates
  BY WalkInvNoDuplicates
<1> QED
  BY <1>1, TypeCorrect, WalkInvariant, PTL

-----------------------------------------------------------------------------
(***************************************************************************)
(* No skips.  A row can only be jumped over when keys repeat or the limit  *)
(* is 0, which asks for one row and takes that one for the whole table, or *)
(* u32::MAX, which overflows to LIMIT 0.                                   *)
(***************************************************************************)
SkipInv ==
    /\ stable \subseteq table
    /\ Forward /\ pc = "fetched" => stable \subseteq snap /\ IsResult(rows, req, snap)
    /\ NoSkips

\* no client asks for 0 rows, or for so many that u32 holds no limit + 1
LimitsCount == Limits \cap {0, MaxU32} = {}

\* A row selected but not kept by Cursor::new comes after every row kept, and
\* there is then a next page.
LEMMA LeftOutComesLater ==
    ASSUME NEW q \in Request, q.sorted, q.direction # "Before",
           UniqueKeys, LimitsCount,
           NEW t \in SUBSET Row, NEW s \in Seq(Row), IsResult(s, q, t),
           NEW r \in Selected(q, t), r \notin ToSet(Kept(q, s))
    PROVE  /\ Len(s) > PageSize(q)
           /\ \A i \in 1..Len(Kept(q, s)) : Precedes(Key[Kept(q, s)[i]], Key[r])
<1>1. /\ Kept(q, s) \in Seq(Row) /\ Len(Kept(q, s)) <= Len(s)
      /\ Len(s) > PageSize(q) => Len(Kept(q, s)) = PageSize(q)
      /\ ~(Len(s) > PageSize(q)) => Kept(q, s) = s
      /\ \A i \in 1..Len(Kept(q, s)) : Kept(q, s)[i] = s[i]
  BY KeptType
<1>2. PageSize(q) \in Nat \ {0} /\ DOMAIN s = 1..Len(s) /\ r \in Row
  BY PageSizeType, SelectedType
<1>3. Len(s) > PageSize(q)
  <2> SUFFICES ASSUME ~(Len(s) > PageSize(q)) PROVE FALSE
    OBVIOUS
  <2>1. r \notin ToSet(s)
    BY <1>1
  <2>2. ~(q.limit = NoLimit \/ Len(s) < FetchLimit(q))
    BY <2>1 DEF IsResult
  <2>3. q.limit \in Nat \ {0} /\ FetchLimit(q) = q.limit + 1
    <3>1. q.limit \in Limits /\ q.limit # NoLimit
      BY <2>2 DEF Request
    <3>2. q.limit \in 0..MaxU32 /\ q.limit # 0 /\ q.limit # MaxU32
      BY <3>1, LimitAssumption DEF LimitsCount
    <3> QED
      BY <3>2, LimitAssumption DEF FetchLimit
  <2>4. PageSize(q) = q.limit
    BY <2>2, <2>3 DEF PageSize
  <2> QED
    BY <2>2, <2>3, <2>4
<1>4. ASSUME NEW i \in 1..Len(Kept(q, s))
      PROVE  Precedes(Key[Kept(q, s)[i]], Key[r])
  <2>1. i \in DOMAIN s /\ Kept(q, s)[i] = s[i] /\ s[i] \in Row
    BY <1>1, <1>2, <1>4
  <2>2. s[i] # r
    BY <1>1, <1>4, <2>1 DEF ToSet
  <2>3. InOrder(OrderAsc(q), Key[s[i]], Key[r])
    <3>1. CASE r \in ToSet(s)
      <4>1. PICK j \in DOMAIN s : s[j] = r
        BY <3>1 DEF ToSet
      <4>2. i < j
        <5>1. j > Len(Kept(q, s))
          BY <1>1, <1>2, <4>1 DEF ToSet
        <5> QED
          BY <1>1, <1>2, <1>4, <4>1, <5>1
      <4> QED
        BY <2>1, <4>1, <4>2 DEF IsResult
    <3>2. CASE r \notin ToSet(s)
      BY <2>1, <3>2 DEF IsResult
    <3> QED
      BY <3>1, <3>2
  <2>4. Key[s[i]] # Key[r] /\ Key[s[i]] \in Int /\ Key[r] \in Int
    BY <1>2, <2>1, <2>2, KeyAssumption DEF UniqueKeys, IsInjective
  <2> QED
    BY <2>1, <2>3, <2>4, AscAssumption DEF OrderAsc, InOrder, Precedes
<1> QED
  BY <1>3, <1>4

\* NoSkips speaks of these variables only.
LEMMA NoSkipsKept ==
    ASSUME NoSkips, UNCHANGED <<walk, before, page>>, stable' \subseteq stable
    PROVE  NoSkips'
BY DEF NoSkips, Forward

LEMMA SkipFinish ==
    ASSUME TypeOK, TypeOK', WalkInv, SkipInv, Forward, Finish,
           UniqueKeys, LimitsCount
    PROVE  NoSkips'
<1>1. req \in Request /\ rows \in Seq(Row) /\ snap \in SUBSET Row
      /\ req.direction # "Before" /\ req.sorted
      /\ page' = NewPage(req, rows) /\ stable' = stable
      /\ before' = before \cup ToSet(page.data)
  BY DEF TypeOK, WalkInv, WalkRequest, Finish, Forward
<1>2. page'.data = Kept(req, rows) /\ page'.has_next = (Len(rows) > PageSize(req))
  BY <1>1, ForwardPage
<1> SUFFICES ASSUME NEW r \in stable' \ (before' \cup ToSet(page'.data))
             PROVE  /\ page'.has_next
                    /\ \A i \in DOMAIN page'.data : Precedes(Key[page'.data[i]], Key[r])
  BY DEF NoSkips
<1>3. r \in snap /\ r \in Row /\ IsResult(rows, req, snap)
  BY <1>1 DEF SkipInv, Finish
<1>4. r \in Selected(req, snap)
  <2>1. CASE req.values = <<>>
    BY <1>3, <2>1 DEF Selected
  <2>2. CASE /\ req.direction = "After" /\ page.data # <<>> /\ page.has_next
             /\ req.values = <<Key[page.data[Len(page.data)]]>>
    <3>1. page # NoPage
      BY <2>2 DEF NoPage
    <3>2. page.data \in Seq(Row)
      BY DEF TypeOK, Page
    <3>3. Len(page.data) \in DOMAIN page.data /\ page.data[Len(page.data)] \in Row
      BY <2>2, <3>2
    <3>4. Precedes(Key[page.data[Len(page.data)]], Key[r])
      BY <1>1, <3>1, <3>3 DEF SkipInv, NoSkips
    <3>5. Precedes(req.values[1], Key[r]) /\ req.values # <<>>
      BY <2>2, <3>4
    <3>6. Key[r] \in Int /\ req.values[1] \in Int
      BY <1>3, <2>2, <3>3, KeyAssumption
    <3>7. CursorOperator("After", Key[r], req.values[1])
      <4>1. CASE Asc
        BY <3>5, <3>6, <4>1 DEF CursorOperator, Precedes
      <4>2. CASE ~Asc
        BY <3>5, <3>6, <4>2 DEF CursorOperator, Precedes
      <4> QED
        BY <4>1, <4>2
    <3> QED
      BY <1>3, <2>2, <3>5, <3>7 DEF Selected
  <2> QED
    BY <2>1, <2>2 DEF WalkInv, WalkRequest, Finish
<1>5. r \notin ToSet(Kept(req, rows))
  BY <1>2
<1>6. Kept(req, rows) \in Seq(Row)
  BY <1>1, KeptType
<1>7. /\ Len(rows) > PageSize(req)
      /\ \A i \in 1..Len(Kept(req, rows)) : Precedes(Key[Kept(req, rows)[i]], Key[r])
  <2> HIDE DEF UniqueKeys
  <2> QED
    BY <1>1, <1>3, <1>4, <1>5, LeftOutComesLater
<1>8. DOMAIN page'.data = 1..Len(Kept(req, rows))
  BY <1>2, <1>6
<1> QED
  BY <1>2, <1>7, <1>8

LEMMA SkipInvInductive ==
    ASSUME TypeOK, TypeOK', WalkInv, SkipInv, [Next]_vars,
           UniqueKeys, LimitsCount
    PROVE  SkipInv'
<1>1. CASE FirstPage
  <2>1. NoSkips'
    BY <1>1 DEF FirstPage, NoSkips
  <2> QED
    BY <1>1, <2>1 DEF FirstPage, Call, SkipInv
<1>2. CASE FollowNext
  <2>1. NoSkips'
    BY <1>2, NoSkipsKept DEF FollowNext, history, SkipInv
  <2> QED
    BY <1>2, <2>1 DEF FollowNext, Call, history, SkipInv
<1>3. CASE FollowPrev \/ Seek \/ BadToken
  <2>1. walk' = "other" /\ stable' = {} 
    BY <1>3 DEF FollowPrev, Seek, BadToken, LeaveWalk
  <2> QED
    BY <2>1 DEF SkipInv, NoSkips, Forward
<1>4. CASE BuildFails \/ FetchFails \/ PageFails
  <2>1. NoSkips'
    BY <1>4, NoSkipsKept DEF BuildFails, FetchFails, PageFails, history, SkipInv
  <2>2. UNCHANGED <<table, stable>> /\ pc' = "idle"
    BY <1>4 DEF BuildFails, FetchFails, PageFails, history
  <2> QED
    BY <2>1, <2>2 DEF SkipInv
<1>5. CASE Execute
  <2>1. NoSkips'
    BY <1>5, NoSkipsKept DEF Execute, history, SkipInv
  <2>2. IsResult(rows', req', snap') /\ UNCHANGED <<table, stable>> /\ snap' = table
    BY <1>5 DEF Execute, history
  <2> QED
    BY <2>1, <2>2 DEF SkipInv
<1>6. CASE Finish
  <2>1. UNCHANGED <<table, stable, walk>> /\ pc' = "idle"
    BY <1>6 DEF Finish
  <2>2. CASE Forward
    BY <1>6, <2>1, <2>2, SkipFinish DEF SkipInv
  <2>3. CASE ~Forward
    BY <2>1, <2>3 DEF SkipInv, NoSkips, Forward
  <2> QED
    BY <2>2, <2>3
<1>7. CASE Insert
  <2>1. NoSkips'
    BY <1>7, NoSkipsKept DEF Insert, SkipInv
  <2> QED
    BY <1>7, <2>1 DEF Insert, SkipInv, Forward, IsResult
<1>8. CASE Delete
  <2>1. stable' \subseteq stable /\ stable' \subseteq table'
    BY <1>8 DEF Delete, SkipInv
  <2>2. NoSkips'
    BY <1>8, <2>1, NoSkipsKept DEF Delete, SkipInv
  <2> QED
    BY <1>8, <2>1, <2>2 DEF Delete, SkipInv, Forward, IsResult
<1>9. CASE UNCHANGED vars
  <2>1. NoSkips'
    BY <1>9, NoSkipsKept DEF vars, SkipInv
  <2> QED
    BY <1>9, <2>1 DEF vars, SkipInv, Forward, IsResult
<1> QED
  BY <1>1, <1>2, <1>3, <1>4, <1>5, <1>6, <1>7, <1>8, <1>9 DEF Next

LEMMA SkipInvariant ==
    ASSUME UniqueKeys, LimitsCount
    PROVE  Spec => []SkipInv
<1>1. Init => SkipInv
  BY DEF Init, SkipInv, NoSkips, Forward
<1>2. TypeOK /\ TypeOK' /\ WalkInv /\ SkipInv /\ [Next]_vars => SkipInv'
  BY SkipInvInductive
<1> QED
  BY <1>1, <1>2, TypeCorrect, WalkInvariant, PTL DEF Spec

\* When keys are unique and no client passes a limit of 0 or of u32::MAX, a walk by
\* next_cursor misses no row that stays in the table while it is on.
THEOREM WalksSkipNoRow ==
    ASSUME UniqueKeys, LimitsCount
    PROVE  Spec => []NoSkips
<1>1. SkipInv => NoSkips
  BY DEF SkipInv
<1> QED
  BY <1>1, SkipInvariant, PTL

-----------------------------------------------------------------------------
(* Pages, tokens and statements implement the promise of KeysetWalk.       *)

\* what the walk has delivered, and whether it said that nothing is left
Delivered == IF Forward THEN before \cup ToSet(page.data) ELSE {}
Done == Forward /\ page # NoPage /\ ~page.has_next

\* A page that follows is one delivery of the promised walk.
LEMMA FinishDelivers ==
    ASSUME TypeOK, TypeOK', WalkInv, WalkInv', SkipInv, SkipInv', Forward, Finish
    PROVE  Promise!Deliver
<1>1. req \in Request /\ rows \in Seq(Row) /\ req.direction # "Before" /\ Forward'
      /\ page' = NewPage(req, rows) /\ before' = before \cup ToSet(page.data)
      /\ UNCHANGED <<table, stable>>
  BY DEF TypeOK, WalkInv, WalkRequest, Finish, Forward
<1>2. page'.data = Kept(req, rows) /\ page'.has_next = (Len(rows) > PageSize(req))
      /\ page'.per_page = PageSize(req)
  BY <1>1, ForwardPage
<1>3. page' # NoPage
  BY <1>1, <1>2, PageSizeType DEF NoPage
<1>4. page'.data \in Seq(Row) /\ ToSet(page'.data) \subseteq Row /\ Delivered = before'
  <2>1. page'.data \in Seq(Row)
    BY DEF TypeOK, Page
  <2> QED
    BY <1>1, <2>1 DEF ToSet, Delivered
<1>5. ~Done
  BY DEF WalkInv, WalkRequest, Finish, Done
<1>6. \A r \in before', s \in ToSet(page'.data) : Precedes(Key[r], Key[s])
  BY <1>1, <1>4 DEF WalkInv, WalkPage, ToSet
<1>7. ToSet(page'.data) \in SUBSET (Row \ Delivered)
  <2>1. NoDuplicates'
    BY WalkInvNoDuplicates, PTL
  <2> QED
    BY <1>1, <1>4, <2>1 DEF NoDuplicates
<1>8. Delivered' = before' \cup ToSet(page'.data)
  BY <1>1 DEF Delivered
<1>9. ASSUME NEW r \in Delivered', NEW s \in stable' \ Delivered'
      PROVE  Precedes(Key[r], Key[s]) /\ page'.has_next
  <2>1. /\ page'.has_next
        /\ \A i \in DOMAIN page'.data : Precedes(Key[page'.data[i]], Key[s])
    BY <1>1, <1>3, <1>8, <1>9 DEF SkipInv, NoSkips
  <2>2. CASE r \in ToSet(page'.data)
    BY <2>1, <2>2 DEF ToSet
  <2>3. CASE r \in before'
    <3>1. 1 \in DOMAIN page'.data
      <4>1. Len(Kept(req, rows)) = PageSize(req) /\ PageSize(req) \in Nat \ {0}
        BY <1>1, <1>2, <2>1, PageSizeType, KeptType
      <4> QED
        BY <1>2, <1>4, <4>1
    <3>2. page'.data[1] \in ToSet(page'.data) /\ page'.data[1] \in Row
      BY <1>4, <3>1 DEF ToSet
    <3>3. Precedes(Key[r], Key[page'.data[1]]) /\ Precedes(Key[page'.data[1]], Key[s])
      BY <1>6, <2>1, <2>3, <3>1, <3>2
    <3>4. r \in Row /\ s \in Row
      BY <1>9, <2>3 DEF TypeOK
    <3> QED
      BY <2>1, <3>2, <3>3, <3>4, KeyAssumption DEF Precedes
  <2> QED
    BY <1>8, <1>9, <2>1, <2>2, <2>3
<1>10. Done' => stable \subseteq Delivered'
  <2> SUFFICES ASSUME Done', NEW s \in stable' \ Delivered' PROVE FALSE
    BY <1>1
  <2> QED
    BY <1>1, <1>3, <1>8 DEF SkipInv, NoSkips, Done
<1> QED
  <2>1. Delivered' = Delivered \cup ToSet(page'.data)
    BY <1>4, <1>8
  <2>2. Done' \in BOOLEAN
    BY DEF Done
  <2>3. \E S \in SUBSET (Row \ Delivered) :
           /\ \A r \in Delivered, s \in S : Promise!Precedes(Key[r], Key[s])
           /\ Delivered' = Delivered \cup S
    <3> WITNESS ToSet(page'.data) \in SUBSET (Row \ Delivered)
    <3> QED
      BY <1>4, <1>6, <2>1 DEF Promise!Precedes, Precedes
  <2>4. \A r \in Delivered', s \in stable \ Delivered' : Promise!Precedes(Key[r], Key[s])
    BY <1>1, <1>9 DEF Promise!Precedes, Precedes
  <2> QED
    BY <1>1, <1>5, <1>10, <2>2, <2>3, <2>4 DEF Promise!Deliver, Delivered, Done

LEMMA StepKeepsPromise ==
    ASSUME TypeOK, TypeOK', WalkInv, WalkInv', SkipInv, SkipInv', [Next]_vars
    PROVE  [Promise!Next]_(Promise!vars)
<1>1. CASE FirstPage
  <2>1. Delivered' = {} /\ ~Done' /\ Forward'
    BY <1>1 DEF FirstPage, Delivered, Done, Forward, NoPage, ToSet
  <2>2. Promise!Begin
    BY <1>1, <2>1 DEF FirstPage, Call, Promise!Begin, Delivered, Done
  <2> QED
    BY <2>2 DEF Promise!Next
<1>2. CASE FollowNext \/ BuildFails \/ FetchFails \/ PageFails \/ Execute \/ UNCHANGED vars
  BY <1>2 DEF FollowNext, Call, BuildFails, FetchFails, PageFails, Execute, vars, history,
              Promise!vars, Forward
<1>3. CASE FollowPrev \/ Seek \/ BadToken
  <2>1. walk' = "other" /\ stable' = {} /\ UNCHANGED table
    BY <1>3 DEF FollowPrev, Seek, BadToken, LeaveWalk, Call
  <2>2. Promise!Leave
    BY <2>1 DEF Promise!Leave, Forward
  <2> QED
    BY <2>2 DEF Promise!Next
<1>4. CASE Finish
  <2>1. CASE Forward
    BY <1>4, <2>1, FinishDelivers DEF Promise!Next
  <2>2. CASE ~Forward
    BY <1>4, <2>2 DEF Finish, Forward, Promise!vars
  <2> QED
    BY <2>1, <2>2
<1>5. CASE Insert \/ Delete
  <2>1. UNCHANGED <<walk, before, page>>
    BY <1>5 DEF Insert, Delete
  <2>2. stable' = stable \cap table' /\ table' \in SUBSET Row
    BY <1>5 DEF Insert, Delete, SkipInv, TypeOK
  <2>3. Promise!Write
    BY <2>1, <2>2 DEF Promise!Write, Forward
  <2> QED
    BY <2>3 DEF Promise!Next
<1> QED
  BY <1>1, <1>2, <1>3, <1>4, <1>5 DEF Next

\* Cursor pagination implements the promise: every step of a client, of the
\* database and of the other writers is a step of KeysetWalk or leaves it alone.
THEOREM WalksKeepTheirPromise ==
    ASSUME UniqueKeys, LimitsCount
    PROVE  Spec => KeepsPromise
<1>1. Init => Promise!Init
  BY DEF Init, Promise!Init, Forward
<1>2. TypeOK /\ TypeOK' /\ WalkInv /\ WalkInv' /\ SkipInv /\ SkipInv' /\ [Next]_vars
        => [Promise!Next]_(Promise!vars)
  BY StepKeepsPromise
<1> QED
  BY <1>1, <1>2, TypeCorrect, WalkInvariant, SkipInvariant, PTL
     DEF Spec, KeepsPromise, Promise!Spec

-----------------------------------------------------------------------------
(***************************************************************************)
(* Pages.  Every page is what Cursor::new makes of an answer to its        *)
(* request, and so says what that answer says, although the rows have been *)
(* truncated and maybe reversed since, and the table has changed.          *)
(***************************************************************************)

\* what fetch_all may return to request q from table t
Answers(q, t) == {s \in Seq(Selected(q, t)) : IsResult(s, q, t)}

\* The page was made of s, an answer to a request a statement could be built from.
MadeOf(p, q, t, s) ==
    /\ s \in Answers(q, t) /\ q.sorted /\ ~BuildError(q)
    /\ p = NewPage(q, s)

PageInv ==
    /\ pc = "fetched" => rows \in Answers(req, snap) /\ ~BuildError(req)
    /\ IF page = NoPage THEN asked = [req |-> NoRequest, snap |-> {}]
       ELSE \E s \in Seq(Row) : MadeOf(page, asked.req, asked.snap, s)

LEMMA NewPageIsAPage ==
    ASSUME NEW q \in Request, NEW s
    PROVE  NewPage(q, s) # NoPage
BY PageSizeType DEF NewPage, NoPage

LEMMA ExecuteAnswers ==
    ASSUME TypeOK, TypeOK', Execute
    PROVE  rows' \in Answers(req', snap')
<1>1. PICK s \in SeqOf(Selected(req, table), Cardinality(Selected(req, table))) :
         IsResult(s, req, table) /\ rows' = s
  BY DEF Execute
<1>2. Selected(req, table) \in SUBSET Row
  BY SelectedType DEF TypeOK
<1>3. Cardinality(Selected(req, table)) \in Nat
  BY <1>2, FS_Subset, FS_CardinalityType, RowAssumption
<1>4. PICK m \in 0..Cardinality(Selected(req, table)) : s \in [1..m -> Selected(req, table)]
  BY <1>1 DEF SeqOf
<1>5. m \in Nat
  BY <1>3, <1>4
<1>6. s \in Seq(Selected(req, table))
  BY <1>4, <1>5
<1> QED
  BY <1>1, <1>6 DEF Execute, Answers

LEMMA PageInvInductive ==
    ASSUME TypeOK, TypeOK', PageInv, [Next]_vars
    PROVE  PageInv'
<1>1. CASE FirstPage
  BY <1>1 DEF FirstPage, Call, PageInv
<1>2. CASE FollowNext \/ FollowPrev \/ Seek \/ BadToken
  BY <1>2 DEF FollowNext, FollowPrev, Seek, BadToken, Call, PageInv
<1>3. CASE BuildFails \/ FetchFails \/ PageFails
  BY <1>3 DEF BuildFails, FetchFails, PageFails, PageInv
<1>4. CASE Execute
  <2>1. rows' \in Answers(req', snap')
    BY <1>4, ExecuteAnswers
  <2> QED
    BY <1>4, <2>1 DEF Execute, PageInv
<1>5. CASE Finish
  <2>1. MadeOf(page', asked'.req, asked'.snap, rows)
    BY <1>5 DEF Finish, PageInv, MadeOf
  <2>2. page' # NoPage
    BY <1>5, NewPageIsAPage DEF Finish, TypeOK
  <2> QED
    BY <1>5, <2>1, <2>2 DEF Finish, PageInv, TypeOK
<1>6. CASE Insert \/ Delete
  BY <1>6 DEF Insert, Delete, PageInv
<1>7. CASE UNCHANGED vars
  BY <1>7 DEF vars, PageInv
<1> QED
  BY <1>1, <1>2, <1>3, <1>4, <1>5, <1>6, <1>7 DEF Next

LEMMA PageInvariant == Spec => []PageInv
<1>1. Init => PageInv
  BY DEF Init, PageInv
<1>2. TypeOK /\ TypeOK' /\ PageInv /\ [Next]_vars => PageInv'
  BY PageInvInductive
<1> QED
  BY <1>1, <1>2, TypeCorrect, PTL DEF Spec

-----------------------------------------------------------------------------
\* What an answer and the part of it that is kept say of each other, in the
\* order the client asked for, which a statement read backwards inverts.

\* k is not on the far side of l, seen from the cursor of request q
NotBeyond(q, k, l) == IF q.direction = "Before" THEN ~Precedes(k, l) ELSE ~Precedes(l, k)

LEMMA AnswerInOrder ==
    ASSUME NEW q \in Request, q.sorted, NEW t \in SUBSET Row, NEW s \in Answers(q, t)
    PROVE  /\ s \in Seq(Row) /\ DOMAIN s = 1..Len(s) /\ ToSet(s) \subseteq Selected(q, t)
           /\ \A i, j \in 1..Len(s) : i < j => NotBeyond(q, Key[s[i]], Key[s[j]])
           /\ \A r \in Selected(q, t) \ ToSet(s) :
                \A i \in 1..Len(s) : NotBeyond(q, Key[s[i]], Key[r])
           /\ \A i, j \in 1..Len(s) : s[i] = s[j] => i = j
<1>1. Selected(q, t) \in SUBSET Row
  BY SelectedType
<1>2. s \in Seq(Row) /\ DOMAIN s = 1..Len(s) /\ ToSet(s) \subseteq Selected(q, t)
  BY <1>1 DEF Answers, ToSet
<1>3. \A r \in Row : Key[r] \in Int
  BY KeyAssumption
<1>4. \A k, l \in Int : InOrder(OrderAsc(q), k, l) <=> NotBeyond(q, k, l)
  BY AscAssumption DEF InOrder, OrderAsc, NotBeyond, Precedes
<1>5. IsResult(s, q, t)
  BY DEF Answers
<1>6. \A i \in 1..Len(s) : s[i] \in Row
  BY <1>2
<1>7. \A i, j \in 1..Len(s) : i < j => NotBeyond(q, Key[s[i]], Key[s[j]])
  BY <1>2, <1>3, <1>4, <1>5, <1>6 DEF IsResult
<1>8. ASSUME NEW r \in Selected(q, t) \ ToSet(s), NEW i \in 1..Len(s)
      PROVE  NotBeyond(q, Key[s[i]], Key[r])
  <2>1. InOrder(OrderAsc(q), Key[s[i]], Key[r])
    BY <1>2, <1>5 DEF IsResult
  <2> QED
    BY <1>1, <1>3, <1>4, <1>6, <2>1
<1>9. \A i, j \in 1..Len(s) : s[i] = s[j] => i = j
  BY <1>2, <1>5 DEF IsResult, IsInjective
<1> QED
  BY <1>2, <1>7, <1>8, <1>9

\* A row that was selected and is not kept lies beyond all that are, and there
\* are then more rows than the page has room for.
LEMMA LeftOutBeyond ==
    ASSUME NEW q \in Request, q.sorted, LimitsCount,
           NEW t \in SUBSET Row, NEW s \in Answers(q, t),
           NEW r \in Selected(q, t), r \notin ToSet(Kept(q, s))
    PROVE  /\ Len(s) > PageSize(q)
           /\ \A i \in 1..Len(Kept(q, s)) : NotBeyond(q, Key[Kept(q, s)[i]], Key[r])
<1>1. /\ s \in Seq(Row) /\ DOMAIN s = 1..Len(s)
      /\ \A i, j \in 1..Len(s) : i < j => NotBeyond(q, Key[s[i]], Key[s[j]])
      /\ \A x \in Selected(q, t) \ ToSet(s) :
           \A i \in 1..Len(s) : NotBeyond(q, Key[s[i]], Key[x])
  BY AnswerInOrder
<1>2. /\ Kept(q, s) \in Seq(Row) /\ Len(Kept(q, s)) <= Len(s)
      /\ ~(Len(s) > PageSize(q)) => Kept(q, s) = s
      /\ \A i \in 1..Len(Kept(q, s)) : Kept(q, s)[i] = s[i]
  BY <1>1, KeptType
<1>3. PageSize(q) \in Nat \ {0}
  BY PageSizeType
<1>4. Len(s) > PageSize(q)
  <2> SUFFICES ASSUME ~(Len(s) > PageSize(q)) PROVE FALSE
    OBVIOUS
  <2>1. r \notin ToSet(s)
    BY <1>2
  <2>2. ~(q.limit = NoLimit \/ Len(s) < FetchLimit(q))
    BY <2>1 DEF IsResult, Answers
  <2>3. q.limit \in Nat \ {0} /\ FetchLimit(q) = q.limit + 1
    <3>1. q.limit \in Limits /\ q.limit # NoLimit
      BY <2>2 DEF Request
    <3>2. q.limit \in 0..MaxU32 /\ q.limit # 0 /\ q.limit # MaxU32
      BY <3>1, LimitAssumption DEF LimitsCount
    <3> QED
      BY <3>2, LimitAssumption DEF FetchLimit
  <2>4. PageSize(q) = q.limit
    BY <2>2, <2>3 DEF PageSize
  <2> QED
    BY <1>1, <2>2, <2>3, <2>4
<1>5. ASSUME NEW i \in 1..Len(Kept(q, s))
      PROVE  NotBeyond(q, Key[Kept(q, s)[i]], Key[r])
  <2>1. i \in 1..Len(s) /\ Kept(q, s)[i] = s[i]
    BY <1>1, <1>2, <1>5
  <2>2. CASE r \in ToSet(s)
    <3>1. PICK j \in 1..Len(s) : s[j] = r
      BY <1>1, <2>2 DEF ToSet
    <3>2. i < j
      <4>1. ~(j \in 1..Len(Kept(q, s)))
        BY <1>2, <3>1 DEF ToSet
      <4> QED
        BY <1>1, <1>2, <3>1, <4>1
    <3> QED
      BY <1>1, <2>1, <3>1, <3>2
  <2>3. CASE r \notin ToSet(s)
    BY <1>1, <2>1, <2>3
  <2> QED
    BY <2>2, <2>3
<1> QED
  BY <1>4, <1>5

\* The rows asked for by the request are the rows its statement selects.
LEMMA WantedSelected ==
    ASSUME NEW q \in Request, ~BuildError(q), NEW t \in SUBSET Row,
           asked = [req |-> q, snap |-> t]
    PROVE  Wanted = Selected(q, t)
<1>1. q.values = <<>> \/ q.direction \in {"After", "Before"}
  BY DEF BuildError, Request, Directions
<1>2. ASSUME NEW r \in Row, NEW v
      PROVE  /\ CursorOperator("After", Key[r], v) <=> Precedes(v, Key[r])
             /\ CursorOperator("Before", Key[r], v) <=> Precedes(Key[r], v)
  <2>1. Key[r] > v <=> v < Key[r]
    OBVIOUS
  <2> QED
    BY <2>1, AscAssumption DEF CursorOperator, Precedes
<1>3. CASE q.values = <<>>
  BY <1>3 DEF Wanted, Selected
<1>4. CASE q.values # <<>> /\ q.direction = "After"
  BY <1>2, <1>4 DEF Wanted, Selected
<1>5. CASE q.values # <<>> /\ q.direction = "Before"
  BY <1>2, <1>5 DEF Wanted, Selected
<1> QED
  BY <1>1, <1>3, <1>4, <1>5

LEMMA MadePageExact ==
    ASSUME TypeOK, LimitsCount, NEW s \in Seq(Row), MadeOf(page, asked.req, asked.snap, s)
    PROVE  PageExact
<1> DEFINE q == asked.req
           kept == Kept(q, s)
<1>1. /\ q \in Request /\ asked.snap \in SUBSET Row /\ q.sorted /\ ~BuildError(q)
      /\ s \in Answers(q, asked.snap) /\ page = NewPage(q, s)
      /\ asked = [req |-> q, snap |-> asked.snap]
  BY DEF TypeOK, MadeOf
<1> HIDE DEF q
<1>2. Wanted = Selected(q, asked.snap) /\ Wanted \in SUBSET Row
  BY <1>1, WantedSelected, SelectedType
<1>3. /\ ToSet(s) \subseteq Wanted
      /\ \A i, j \in 1..Len(s) : i < j => NotBeyond(q, Key[s[i]], Key[s[j]])
      /\ \A i, j \in 1..Len(s) : s[i] = s[j] => i = j
  BY <1>1, <1>2, AnswerInOrder
<1>4. /\ kept \in Seq(Row) /\ Len(kept) <= Len(s) /\ DOMAIN kept = 1..Len(kept)
      /\ Len(s) > PageSize(q) => Len(kept) = PageSize(q)
      /\ \A i \in 1..Len(kept) : kept[i] = s[i]
      /\ PageSize(q) \in Nat \ {0}
  BY <1>1, KeptType, PageSizeType
<1> HIDE DEF kept
<1>5. /\ page.data = IF q.direction = "Before" THEN Reverse(kept) ELSE kept
      /\ page.per_page = PageSize(q)
      /\ (IF q.direction = "Before" THEN page.has_prev ELSE page.has_next)
           <=> Len(s) > PageSize(q)
  BY <1>1 DEF NewPage, Data, HasMore, kept
<1>6. /\ page.data \in Seq(Row) /\ Len(page.data) = Len(kept)
      /\ DOMAIN page.data = 1..Len(kept)
      /\ \A i \in 1..Len(kept) :
           page.data[i] = IF q.direction = "Before" THEN kept[Len(kept) + 1 - i] ELSE kept[i]
  BY <1>4, <1>5, Reversed
<1>7. ToSet(page.data) = ToSet(kept)
  <2>1. ASSUME NEW i \in 1..Len(kept) PROVE page.data[i] \in ToSet(kept)
    <3>1. Len(kept) + 1 - i \in 1..Len(kept)
      BY <1>4
    <3> QED
      BY <1>4, <1>6, <3>1 DEF ToSet
  <2>2. ASSUME NEW i \in 1..Len(kept) PROVE kept[i] \in ToSet(page.data)
    <3>1. Len(kept) + 1 - i \in 1..Len(kept) /\ Len(kept) + 1 - (Len(kept) + 1 - i) = i
      BY <1>4
    <3>2. kept[i] = page.data[i] \/ kept[i] = page.data[Len(kept) + 1 - i]
      BY <1>6, <3>1
    <3> QED
      BY <1>6, <3>1, <3>2 DEF ToSet
  <2>3. ToSet(page.data) = {page.data[i] : i \in 1..Len(kept)}
    BY <1>6 DEF ToSet
  <2>4. ToSet(kept) = {kept[i] : i \in 1..Len(kept)}
    BY <1>4 DEF ToSet
  <2> QED
    BY <2>1, <2>2, <2>3, <2>4
<1>8. ToSet(page.data) \subseteq Wanted
  <2>1. ASSUME NEW i \in 1..Len(kept) PROVE kept[i] \in Wanted
    <3>1. i \in 1..Len(s) /\ kept[i] = s[i]
      BY <1>4
    <3> QED
      BY <1>3, <3>1 DEF ToSet
  <2>2. ToSet(kept) = {kept[i] : i \in 1..Len(kept)}
    BY <1>4 DEF ToSet
  <2> QED
    BY <1>7, <2>1, <2>2
<1>9. ASSUME NEW i \in DOMAIN page.data, NEW j \in DOMAIN page.data, i < j
      PROVE  ~Precedes(Key[page.data[j]], Key[page.data[i]])
  <2>1. i \in 1..Len(kept) /\ j \in 1..Len(kept)
    BY <1>6, <1>9
  <2>2. CASE q.direction = "Before"
    <3> DEFINE a == Len(kept) + 1 - i
               b == Len(kept) + 1 - j
    <3>1. a \in 1..Len(s) /\ b \in 1..Len(s) /\ b < a
          /\ a \in 1..Len(kept) /\ b \in 1..Len(kept)
      BY <1>4, <1>9, <2>1
    <3>2. page.data[i] = s[a] /\ page.data[j] = s[b]
      BY <1>4, <1>6, <2>1, <2>2, <3>1
    <3> HIDE DEF a, b
    <3> QED
      BY <1>3, <2>2, <3>1, <3>2 DEF NotBeyond
  <2>3. CASE q.direction # "Before"
    <3>1. page.data[i] = s[i] /\ page.data[j] = s[j] /\ i \in 1..Len(s) /\ j \in 1..Len(s)
      BY <1>4, <1>6, <2>1, <2>3
    <3> QED
      BY <1>3, <1>9, <2>3, <3>1 DEF NotBeyond
  <2> QED
    BY <2>2, <2>3
<1>10. ASSUME NEW r \in LeftOut
       PROVE  /\ Len(s) > PageSize(q)
              /\ \A i \in 1..Len(kept) : NotBeyond(q, Key[kept[i]], Key[r])
  <2>1. r \in Selected(q, asked.snap) /\ r \notin ToSet(Kept(q, s))
    BY <1>2, <1>7, <1>10 DEF LeftOut, kept
  <2> QED
    BY <1>1, <2>1, LeftOutBeyond DEF kept
<1>11. ASSUME NEW r \in LeftOut, NEW i \in DOMAIN page.data
       PROVE  NotBeyond(q, Key[page.data[i]], Key[r])
  <2>1. i \in 1..Len(kept) /\ Len(kept) + 1 - i \in 1..Len(kept)
    BY <1>4, <1>6, <1>11
  <2> QED
    BY <1>6, <1>10, <1>11, <2>1
<1>12. Len(s) > PageSize(q) => LeftOut # {}
  <2> SUFFICES ASSUME Len(s) > PageSize(q) PROVE LeftOut # {}
    OBVIOUS
  <2>1. Len(s) \in 1..Len(s) /\ Len(s) \notin 1..Len(kept) /\ Len(s) \in Nat
    BY <1>4
  <2>2. s[Len(s)] \in Wanted
    BY <1>1, <1>3, <2>1 DEF ToSet
  <2>3. s[Len(s)] \notin ToSet(kept)
    <3>1. ASSUME NEW i \in 1..Len(kept), kept[i] = s[Len(s)] PROVE FALSE
      <4>1. i \in 1..Len(s) /\ s[i] = s[Len(s)] /\ i # Len(s)
        BY <1>4, <2>1, <3>1
      <4> QED
        BY <1>3, <2>1, <4>1
    <3> QED
      BY <1>4, <3>1 DEF ToSet
  <2> QED
    BY <1>7, <2>2, <2>3 DEF LeftOut
<1>13. LeftOut # {} => Len(page.data) = page.per_page
  BY <1>4, <1>5, <1>6, <1>10
<1>14. RowsExact
  BY <1>8, <1>9, <1>11, <1>13 DEF RowsExact, NotBeyond, q
<1>15. HasMoreExact
  BY <1>5, <1>10, <1>12 DEF HasMoreExact, q
<1> QED
  BY <1>14, <1>15 DEF PageExact

\* No request was made yet: the page is empty, and says so.
LEMMA NoPageExact ==
    ASSUME page = NoPage, asked = [req |-> NoRequest, snap |-> {}]
    PROVE  PageExact /\ TokensAtEnds
<1>1. Wanted = {} /\ ToSet(page.data) = {} /\ DOMAIN page.data = {}
  BY DEF Wanted, NoRequest, NoPage, ToSet
<1> QED
  BY <1>1 DEF PageExact, RowsExact, HasMoreExact, LeftOut, TokensAtEnds, NoPage, NoRequest

LEMMA MadePageTokens ==
    ASSUME TypeOK, NEW s \in Seq(Row), MadeOf(page, asked.req, asked.snap, s)
    PROVE  TokensAtEnds
<1> DEFINE q == asked.req
           kept == Kept(q, s)
           backward == q.direction = "Before"
           more == IF backward THEN page.has_prev ELSE page.has_next
           came == IF backward THEN page.has_next ELSE page.has_prev
<1>1. /\ q \in Request /\ asked.snap \in SUBSET Row /\ q.sorted
      /\ s \in Answers(q, asked.snap) /\ page = NewPage(q, s)
  BY DEF TypeOK, MadeOf
<1>2. \A k, l : ReadBefore(k, l) <=> IF backward THEN Precedes(l, k) ELSE Precedes(k, l)
  BY DEF ReadBefore
<1> HIDE DEF q
<1>3. /\ kept \in Seq(Row) /\ Len(kept) \in Nat /\ Len(kept) <= Len(s) /\ DOMAIN kept = 1..Len(kept)
      /\ Len(s) > PageSize(q) => Len(kept) = PageSize(q)
      /\ \A i \in 1..Len(kept) : kept[i] = s[i]
      /\ PageSize(q) \in Nat \ {0}
  BY <1>1, KeptType, PageSizeType
<1>4. kept # <<>> <=> Len(kept) # 0
  BY <1>3
<1>5. /\ page.data = IF backward THEN Reverse(kept) ELSE kept
      /\ more <=> HasMore(q, s)
      /\ came <=> q.values # <<>>
      /\ page.next_cursor = Token(NextRow(q, s)) /\ page.prev_cursor = Token(PrevRow(q, s))
  BY <1>1 DEF NewPage, Data
<1> HIDE DEF backward, more, came
<1>6. /\ page.data \in Seq(Row) /\ Len(page.data) = Len(kept) /\ DOMAIN page.data = 1..Len(kept)
      /\ \A i \in 1..Len(kept) :
           page.data[i] = IF backward THEN kept[Len(kept) + 1 - i] ELSE kept[i]
  BY <1>3, <1>5, Reversed
<1>7. /\ page.next_cursor # <<>> <=> more
      /\ page.next_cursor # <<>> => kept # <<>> /\ page.next_cursor = <<Key[kept[Len(kept)]]>>
      /\ page.prev_cursor # <<>> <=> came /\ kept # <<>>
      /\ page.prev_cursor # <<>> => page.prev_cursor = <<Key[kept[1]]>>
  <2>1. HasMore(q, s) => kept # <<>>
    BY <1>3, <1>4 DEF HasMore
  <2>2. /\ NextRow(q, s) # <<>> <=> HasMore(q, s)
        /\ NextRow(q, s) # <<>> => NextRow(q, s) = <<kept[Len(kept)]>>
    BY <2>1 DEF NextRow, Last
  <2>3. /\ PrevRow(q, s) # <<>> <=> q.values # <<>> /\ kept # <<>>
        /\ PrevRow(q, s) # <<>> => PrevRow(q, s) = <<kept[1]>>
    BY <1>3 DEF PrevRow
  <2>4. \A row : (Token(row) = <<>> <=> row = <<>>) /\ (row # <<>> => Token(row) = <<Key[row[1]]>>)
    BY DEF Token
  <2> HIDE DEF kept
  <2>5. /\ page.next_cursor # <<>> <=> HasMore(q, s)
        /\ page.next_cursor # <<>> => page.next_cursor = <<Key[kept[Len(kept)]]>>
    BY <1>5, <2>2, <2>4
  <2>6. /\ page.prev_cursor # <<>> <=> q.values # <<>> /\ kept # <<>>
        /\ page.prev_cursor # <<>> => page.prev_cursor = <<Key[kept[1]]>>
    BY <1>5, <2>3, <2>4
  <2> QED
    BY <1>5, <2>1, <2>5, <2>6
<1>8. page.data # <<>> <=> kept # <<>>
  BY <1>4, <1>6
<1> HIDE DEF kept
<1>9. ASSUME NEW i \in 1..Len(kept), NEW j \in 1..Len(kept), i <= j
      PROVE  ~ReadBefore(Key[kept[j]], Key[kept[i]])
  <2>1. \A a, b \in 1..Len(s) : a < b => NotBeyond(q, Key[s[a]], Key[s[b]])
    BY <1>1, AnswerInOrder
  <2>2. Key[kept[i]] \in Int
    BY <1>3, KeyAssumption
  <2>3. CASE i = j
    <3>1. ~Precedes(Key[kept[i]], Key[kept[i]])
      BY <2>2 DEF Precedes
    <3> QED
      BY <1>2, <2>3, <3>1
  <2>4. CASE i < j
    <3>1. NotBeyond(q, Key[kept[i]], Key[kept[j]])
      BY <1>3, <2>1, <2>4
    <3> QED
      BY <1>2, <3>1 DEF NotBeyond, backward
  <2> QED
    BY <1>9, <2>3, <2>4
<1>10. ASSUME NEW i \in DOMAIN page.data
       PROVE  /\ page.next_cursor # <<>> => ~ReadBefore(page.next_cursor[1], Key[page.data[i]])
              /\ page.prev_cursor # <<>> => ~ReadBefore(Key[page.data[i]], page.prev_cursor[1])
  <2>4. i \in 1..Len(kept) /\ Len(kept) + 1 - i \in 1..Len(kept)
    BY <1>3, <1>6, <1>10
  <2>5. page.data[i] = kept[i] \/ page.data[i] = kept[Len(kept) + 1 - i]
    BY <1>6, <2>4
  <2>1. PICK j \in 1..Len(kept) : page.data[i] = kept[j]
    BY <2>4, <2>5
  <2>2. 1 \in 1..Len(kept) /\ Len(kept) \in 1..Len(kept) /\ 1 <= j /\ j <= Len(kept)
    BY <1>3, <2>1
  <2>3. ~ReadBefore(Key[kept[Len(kept)]], Key[kept[j]]) /\ ~ReadBefore(Key[kept[j]], Key[kept[1]])
    BY <1>9, <2>2
  <2> QED
    BY <1>7, <2>1, <2>3
<1> QED
  BY <1>7, <1>8, <1>10 DEF TokensAtEnds, more, came, backward, q

\* For every table and all that is written to it: a page read in either
\* direction holds exactly the rows nearest to its cursor, in the order the
\* client sorts by, and its flag tells exactly whether rows are left over,
\* if no client passes a limit of 0 or of u32::MAX.  Keys may repeat.
THEOREM PagesAreExact ==
    ASSUME LimitsCount
    PROVE  Spec => []PageExact
<1>1. TypeOK /\ PageInv => PageExact
  BY MadePageExact, NoPageExact DEF PageInv
<1> QED
  BY <1>1, TypeCorrect, PageInvariant, PTL

\* On every page, read in either direction, the tokens are there exactly when the
\* flags of that direction say so, and lie at its ends, whatever the limits are.
THEOREM TokensMatchFlags == Spec => []TokensAtEnds
<1>1. TypeOK /\ PageInv => TokensAtEnds
  BY MadePageTokens, NoPageExact DEF PageInv
<1> QED
  BY <1>1, TypeCorrect, PageInvariant, PTL

-----------------------------------------------------------------------------
(***************************************************************************)
(* There and back.  Without a write since the walk began, prev_cursor of   *)
(* the page that next_cursor led to brings back the page before it.        *)
(***************************************************************************)

\* A set of numbers has a least one: the intervals that end in its elements
\* are finite, so that one of them is within no other.
LEMMA Least ==
    ASSUME NEW S \in SUBSET Nat, S # {}
    PROVE  \E n \in S : \A m \in S : n <= m
<1> DEFINE T == {1..n : n \in S}
<1>1. \A n \in Nat : 1..n \in FiniteSubsetsOf(Nat)
  BY FS_Interval DEF FiniteSubsetsOf
<1>2. T \subseteq FiniteSubsetsOf(Nat) /\ T # {}
  BY <1>1
<1>3. PICK x \in T : \A y \in T : <<y, x>> \notin StrictSubsetOrdering(Nat)
  BY <1>2, FS_StrictSubsetOrderingWellFounded, WFMin
<1>4. PICK n \in S : x = 1..n
  BY <1>3
<1>5. ASSUME NEW m \in S, m < n PROVE FALSE
  <2>1. m \in Nat /\ n \in Nat /\ n \in 1..n /\ n \notin 1..m
    BY <1>5
  <2>2. 1..m \subseteq 1..n /\ 1..m # 1..n
    BY <1>5, <2>1
  <2>3. 1..m \in SUBSET Nat /\ 1..n \in SUBSET Nat
    BY <2>1
  <2>4. <<1..m, 1..n>> \in StrictSubsetOrdering(Nat)
    BY <2>2, <2>3 DEF StrictSubsetOrdering
  <2>5. 1..m \in T
    OBVIOUS
  <2> QED
    BY <1>3, <1>4, <2>4, <2>5
<1> QED
  BY <1>4, <1>5

\* What a statement with a cursor selects, in the order the client asked for.
LEMMA SelectedSide ==
    ASSUME NEW q, q.values # <<>>, NEW t \in SUBSET Row
    PROVE  /\ q.direction = "After" =>
                Selected(q, t) = {r \in t : Precedes(q.values[1], Key[r])}
           /\ q.direction = "Before" =>
                Selected(q, t) = {r \in t : Precedes(Key[r], q.values[1])}
<1>1. ASSUME NEW r \in Row, NEW v
      PROVE  /\ CursorOperator("After", Key[r], v) <=> Precedes(v, Key[r])
             /\ CursorOperator("Before", Key[r], v) <=> Precedes(Key[r], v)
  <2>1. Key[r] > v <=> v < Key[r]
    OBVIOUS
  <2> QED
    BY <2>1, AscAssumption DEF CursorOperator, Precedes
<1> QED
  BY <1>1 DEF Selected

\* With unique keys the rows kept of a forward answer are strictly in order.
LEMMA KeptStrictly ==
    ASSUME UniqueKeys, NEW q \in Request, q.sorted, q.direction # "Before",
           NEW t \in SUBSET Row, NEW s \in Answers(q, t)
    PROVE  \A i, j \in 1..Len(Kept(q, s)) :
              i < j => Precedes(Key[Kept(q, s)[i]], Key[Kept(q, s)[j]])
<1> DEFINE k == Kept(q, s)
<1>1. /\ s \in Seq(Row)
      /\ \A i, j \in 1..Len(s) : i < j => NotBeyond(q, Key[s[i]], Key[s[j]])
      /\ \A i, j \in 1..Len(s) : s[i] = s[j] => i = j
  BY AnswerInOrder
<1>2. k \in Seq(Row) /\ Len(k) <= Len(s) /\ \A i \in 1..Len(k) : k[i] = s[i]
  BY <1>1, KeptType
<1> HIDE DEF k
<1>3. ASSUME NEW i \in 1..Len(k), NEW j \in 1..Len(k), i < j
      PROVE  Precedes(Key[k[i]], Key[k[j]])
  <2>1. i \in 1..Len(s) /\ j \in 1..Len(s) /\ k[i] = s[i] /\ k[j] = s[j]
    BY <1>1, <1>2
  <2>2. k[i] \in Row /\ k[j] \in Row /\ k[i] # k[j]
    BY <1>1, <1>3, <2>1
  <2>3. ~Precedes(Key[k[j]], Key[k[i]])
    BY <1>1, <1>3, <2>1 DEF NotBeyond
  <2>4. Key[k[i]] \in Int /\ Key[k[j]] \in Int /\ Key[k[i]] # Key[k[j]]
    BY <2>2, KeyAssumption DEF UniqueKeys, IsInjective
  <2> QED
    BY <2>3, <2>4 DEF Precedes
<1> QED
  BY <1>3 DEF k

\* Three pages of one table: the second goes on after the first, the third
\* goes back from the second, with the page size of the first.
LEMMA BackPage ==
    ASSUME UniqueKeys, LimitsCount, NEW t \in SUBSET Row,
           NEW q1 \in Request, q1.sorted, ~BuildError(q1), q1.direction # "Before",
           NEW s1 \in Answers(q1, t), Len(s1) > PageSize(q1),
           NEW q2 \in Request, q2.sorted, q2.direction = "After",
           q2.values = <<Key[Kept(q1, s1)[PageSize(q1)]]>>,
           NEW s2 \in Answers(q2, t), Kept(q2, s2) # <<>>,
           NEW q3 \in Request, q3.sorted, q3.direction = "Before",
           q3.values = <<Key[Kept(q2, s2)[1]]>>,
           NEW s3 \in Answers(q3, t), PageSize(q3) = PageSize(q1)
    PROVE  Reverse(Kept(q3, s3)) = Kept(q1, s1)
<1> DEFINE n == PageSize(q1)
           k1 == Kept(q1, s1)
           k3 == Kept(q3, s3)
           last == k1[n]
           head == Kept(q2, s2)[1]
<1>1. /\ s1 \in Seq(Row) /\ ToSet(s1) \subseteq Selected(q1, t) /\ DOMAIN s1 = 1..Len(s1)
      /\ \A i, j \in 1..Len(s1) : s1[i] = s1[j] => i = j
  BY AnswerInOrder
<1>2. /\ n \in Nat \ {0} /\ k1 \in Seq(Row) /\ Len(k1) = n
      /\ \A i \in 1..n : k1[i] = s1[i] /\ i \in 1..Len(s1)
  BY <1>1, PageSizeType, KeptType
<1>3. \A i, j \in 1..n : i < j => Precedes(Key[k1[i]], Key[k1[j]])
  BY <1>2, KeptStrictly
<1>4. \A i \in 1..n : k1[i] \in Selected(q1, t) /\ k1[i] \in t /\ k1[i] \in Row
  BY <1>1, <1>2, SelectedType DEF ToSet
<1>5. \A i, j \in 1..n : k1[i] = k1[j] => i = j
  BY <1>1, <1>2
<1>6. n \in 1..n /\ last \in Row
  BY <1>2, <1>4
<1>7. Len(s1) > n
  OBVIOUS
<1> HIDE DEF n, k1
<1>8. /\ head \in t /\ head \in Row
      /\ Precedes(Key[last], Key[head])
      /\ \A r \in t : Precedes(Key[last], Key[r]) => ~Precedes(Key[r], Key[head])
  <2>1. /\ s2 \in Seq(Row) /\ ToSet(s2) \subseteq Selected(q2, t) /\ DOMAIN s2 = 1..Len(s2)
        /\ \A i, j \in 1..Len(s2) : i < j => NotBeyond(q2, Key[s2[i]], Key[s2[j]])
        /\ \A r \in Selected(q2, t) \ ToSet(s2) :
             \A i \in 1..Len(s2) : NotBeyond(q2, Key[s2[i]], Key[r])
    BY AnswerInOrder
  <2>2. 1 \in 1..Len(s2) /\ head = s2[1]
    BY <2>1, KeptType
  <2>3. Selected(q2, t) = {r \in t : Precedes(Key[last], Key[r])}
    <3>1. q2.values # <<>> /\ q2.values[1] = Key[last]
      BY DEF n, k1
    <3>2. Selected(q2, t) = {r \in t : Precedes(q2.values[1], Key[r])}
      BY <3>1, SelectedSide
    <3> QED
      BY <3>1, <3>2
  <2>4. head \in Selected(q2, t)
    BY <2>1, <2>2 DEF ToSet
  <2> HIDE DEF head
  <2>5. ASSUME NEW r \in Selected(q2, t) PROVE ~Precedes(Key[r], Key[head])
    <3>1. CASE r \notin ToSet(s2)
      BY <2>1, <2>2, <3>1 DEF NotBeyond
    <3>2. CASE r \in ToSet(s2)
      <4>1. PICK j \in 1..Len(s2) : r = s2[j]
        BY <2>1, <3>2 DEF ToSet
      <4>2. j = 1 \/ 1 < j
        BY <4>1
      <4>3. Key[head] \in Int
        BY <2>1, <2>2, KeyAssumption
      <4> QED
        BY <2>1, <2>2, <4>1, <4>2, <4>3 DEF NotBeyond, Precedes
    <3> QED
      BY <3>1, <3>2
  <2> QED
    BY <2>3, <2>4, <2>5
<1>9. Selected(q3, t) = {r \in t : Precedes(Key[r], Key[head])}
  <2>1. q3.values # <<>> /\ q3.values[1] = Key[head]
    BY DEF head
  <2>2. Selected(q3, t) = {r \in t : Precedes(Key[r], q3.values[1])}
    BY <2>1, SelectedSide
  <2> QED
    BY <2>1, <2>2
<1> HIDE DEF head
<1>10. \A r \in t : r \in Selected(q3, t) <=> ~Precedes(Key[last], Key[r])
  <2> SUFFICES ASSUME NEW r \in t
               PROVE  Precedes(Key[r], Key[head]) <=> ~Precedes(Key[last], Key[r])
    BY <1>9
  <2>1. Key[r] \in Int /\ Key[last] \in Int /\ Key[head] \in Int
    BY <1>6, <1>8, KeyAssumption
  <2> QED
    BY <1>8, <2>1 DEF Precedes
<1>11. \A i \in 1..n : k1[i] \in Selected(q3, t)
  <2> SUFFICES ASSUME NEW i \in 1..n PROVE ~Precedes(Key[last], Key[k1[i]])
    BY <1>4, <1>10
  <2>1. Key[last] \in Int /\ Key[k1[i]] \in Int
    BY <1>4, <1>6, KeyAssumption
  <2>2. i = n \/ Precedes(Key[k1[i]], Key[last])
    BY <1>2, <1>3, <1>6
  <2> QED
    BY <2>1, <2>2 DEF Precedes
<1>12. ASSUME NEW r \in Selected(q3, t), r \notin ToSet(k1), NEW i \in 1..n
       PROVE  Precedes(Key[r], Key[k1[i]])
  <2>1. r \in t /\ r \in Row /\ ~Precedes(Key[last], Key[r])
    BY <1>9, <1>10, <1>12
  <2>2. r \notin Selected(q1, t)
    <3> SUFFICES ASSUME r \in Selected(q1, t) PROVE FALSE
      OBVIOUS
    <3>1. NotBeyond(q1, Key[last], Key[r]) /\ last \in Row /\ last # r
      BY <1>2, <1>6, <1>12, LeftOutBeyond DEF k1, ToSet
    <3>2. Key[last] \in Int /\ Key[r] \in Int /\ Key[last] # Key[r]
      BY <2>1, <3>1, KeyAssumption DEF UniqueKeys, IsInjective
    <3> QED
      BY <2>1, <3>1, <3>2 DEF NotBeyond, Precedes
  <2>3. q1.values # <<>> /\ q1.direction = "After"
    BY <2>1, <2>2 DEF Selected, BuildError, Request, Directions
  <2>4. Selected(q1, t) = {x \in t : Precedes(q1.values[1], Key[x])}
    BY <2>3, SelectedSide
  <2>5. ~Precedes(q1.values[1], Key[r]) /\ Precedes(q1.values[1], Key[k1[i]])
    BY <1>4, <2>1, <2>2, <2>4
  <2>6. q1.values[1] \in Int /\ Key[r] \in Int /\ Key[k1[i]] \in Int
    BY <1>4, <2>1, <2>3, KeyAssumption DEF Request, Values
  <2> QED
    BY <2>5, <2>6 DEF Precedes
<1>13. /\ s3 \in Seq(Row) /\ ToSet(s3) \subseteq Selected(q3, t) /\ DOMAIN s3 = 1..Len(s3)
       /\ \A i, j \in 1..Len(s3) : i < j => ~Precedes(Key[s3[i]], Key[s3[j]])
       /\ \A r \in Selected(q3, t) \ ToSet(s3) :
            \A i \in 1..Len(s3) : ~Precedes(Key[s3[i]], Key[r])
       /\ \A i, j \in 1..Len(s3) : s3[i] = s3[j] => i = j
  BY AnswerInOrder DEF NotBeyond
<1>14. /\ k3 \in Seq(Row) /\ Len(k3) <= Len(s3)
       /\ Len(s3) > n => Len(k3) = n
       /\ ~(Len(s3) > n) => k3 = s3
       /\ \A i \in 1..Len(k3) : k3[i] = s3[i]
       /\ \A r \in Selected(q3, t) : r \notin ToSet(k3) => Len(s3) > n
  BY <1>13, KeptType, LeftOutBeyond DEF n
<1> HIDE DEF k3
<1>15. \A i \in 1..n : i <= Len(s3) /\ s3[i] = k1[n + 1 - i]
  <2> DEFINE Off == {i \in 1..n : ~(i <= Len(s3) /\ s3[i] = k1[n + 1 - i])}
  <2> SUFFICES ASSUME Off # {} PROVE FALSE
    OBVIOUS
  <2>0. Off \in SUBSET Nat
    BY <1>2
  <2>1. PICK i \in Off : \A j \in Off : i <= j
    <3> HIDE DEF Off
    <3> QED
      BY <2>0, Least
  <2>2. \A j \in 1..n : j < i => j <= Len(s3) /\ s3[j] = k1[n + 1 - j]
    BY <1>2, <2>1
  <2> DEFINE a == k1[n + 1 - i]
  <2>3. i \in 1..n /\ n + 1 - i \in 1..n /\ a \in Selected(q3, t)
    BY <1>2, <1>11
  <2>4. ASSUME NEW j \in 1..Len(s3), j < i PROVE s3[j] # a
    <3>1. j \in 1..n /\ n + 1 - j \in 1..n /\ n + 1 - j # n + 1 - i
      BY <1>2, <1>13, <2>3, <2>4
    <3> QED
      BY <1>5, <2>2, <2>3, <2>4, <3>1
  <2>5. i <= Len(s3)
    <3> SUFFICES ASSUME ~(i <= Len(s3)) PROVE FALSE
      OBVIOUS
    <3>1. \A j \in 1..Len(s3) : s3[j] # a
      BY <1>13, <2>3, <2>4
    <3>2. k3 = s3
      BY <1>2, <1>13, <1>14, <2>3
    <3>3. a \notin ToSet(k3)
      BY <1>13, <3>1, <3>2 DEF ToSet
    <3> QED
      BY <1>2, <1>13, <1>14, <2>3, <3>3
  <2> DEFINE b == s3[i]
  <2>6. i \in 1..Len(s3) /\ b # a /\ b \in Selected(q3, t)
    BY <1>13, <2>1, <2>3, <2>5 DEF ToSet
  <2>7. Precedes(Key[b], Key[a])
    <3>1. CASE b \in ToSet(k1)
      <4>1. PICK m \in 1..n : b = k1[m]
        BY <1>2, <3>1 DEF ToSet
      <4>2. ~(m > n + 1 - i)
        <5> SUFFICES ASSUME m > n + 1 - i PROVE FALSE
          OBVIOUS
        <5> DEFINE j == n + 1 - m
        <5>1. j \in 1..n /\ j < i /\ n + 1 - j = m
          BY <1>2, <2>3, <4>1
        <5>2. s3[j] = b /\ j \in 1..Len(s3)
          BY <1>13, <2>2, <4>1, <5>1
        <5> QED
          BY <1>13, <2>6, <5>1, <5>2
      <4>3. m < n + 1 - i
        BY <1>2, <2>3, <2>6, <4>1, <4>2
      <4> QED
        BY <1>3, <2>3, <4>1, <4>3
    <3>2. CASE b \notin ToSet(k1)
      BY <1>12, <2>3, <2>6, <3>2
    <3> QED
      BY <3>1, <3>2
  <2>8. CASE a \in ToSet(s3)
    <3>1. PICK j \in 1..Len(s3) : s3[j] = a
      BY <1>13, <2>8 DEF ToSet
    <3>2. j > i
      BY <1>13, <2>3, <2>4, <2>6, <3>1
    <3> QED
      BY <1>13, <2>6, <2>7, <3>1, <3>2
  <2>9. CASE a \notin ToSet(s3)
    BY <1>13, <2>3, <2>6, <2>7, <2>9
  <2> QED
    BY <2>8, <2>9
<1>16. Len(k3) = n
  BY <1>2, <1>6, <1>13, <1>14, <1>15
<1>17. Reverse(k3) \in Seq(Row) /\ Len(Reverse(k3)) = n
       /\ \A i \in 1..n : Reverse(k3)[i] = k3[n + 1 - i]
  BY <1>14, <1>16, Reversed
<1>18. ASSUME NEW i \in 1..n PROVE Reverse(k3)[i] = k1[i]
  <2>1. n + 1 - i \in 1..n /\ n + 1 - (n + 1 - i) = i
    BY <1>2
  <2> QED
    BY <1>14, <1>15, <1>16, <1>17, <2>1
<1>19. Reverse(k3) = k1
  BY <1>2, <1>17, <1>18
<1> QED
  BY <1>19 DEF k1, k3

-----------------------------------------------------------------------------
\* Without a write since the walk began, every statement read this table.
QuietInv ==
    quiet => /\ pc = "fetched" => snap = table
             /\ page # NoPage => asked.snap = table

\* A call by prev_cursor goes back from the page the client has.
PrevCall ==
    pc # "idle" /\ req.via = "prev" =>
        req.direction = "Before" /\ page.prev_cursor # <<>> /\ req.values = page.prev_cursor

ForwardAsked == Forward => asked.req.direction # "Before"

\* page is the one that follows p
Follows(p) ==
    \E q \in Request, s \in Seq(Row) :
        /\ MadeOf(p, q, table, s) /\ q.direction # "Before" /\ Len(s) > PageSize(q)
        /\ asked.req.direction = "After"
        /\ asked.req.values = <<Key[Kept(q, s)[PageSize(q)]]>>

TrailInv == asked.req.via = "next" /\ trail # NoPage /\ quiet => Follows(trail)

BackInv == QuietInv /\ PrevCall /\ ForwardAsked /\ TrailInv /\ BackReturns

\* A page of a forward walk is followed by one that goes on after its last row.
LEMMA FollowedByNext ==
    ASSUME TypeOK, TypeOK', PageInv, WalkInv, BackInv, Finish, Forward, page # NoPage, quiet
    PROVE  \E q \in Request, s \in Seq(Row) :
              /\ MadeOf(page, q, table', s) /\ q.direction # "Before" /\ Len(s) > PageSize(q)
              /\ asked'.req.direction = "After"
              /\ asked'.req.values = <<Key[Kept(q, s)[PageSize(q)]]>>
<1> DEFINE q == asked.req
<1>1. PICK s \in Seq(Row) : MadeOf(page, q, asked.snap, s)
  BY DEF PageInv
<1>2. /\ q \in Request /\ q.direction # "Before" /\ asked.snap = table
      /\ s \in Seq(Row) /\ page = NewPage(q, s)
  BY <1>1 DEF TypeOK, BackInv, ForwardAsked, QuietInv, MadeOf
<1>3. page.data = Kept(q, s) /\ page.has_next = (Len(s) > PageSize(q))
  BY <1>2, ForwardPage
<1>4. /\ req.direction = "After" /\ page.has_next
      /\ req.values = <<Key[page.data[Len(page.data)]]>>
  BY DEF Finish, WalkInv, WalkRequest
<1>5. Len(s) > PageSize(q) /\ Len(Kept(q, s)) = PageSize(q)
  BY <1>2, <1>3, <1>4, KeptType
<1>6. asked'.req = req /\ table' = table
  BY DEF Finish, TypeOK
<1> QED
  BY <1>1, <1>2, <1>3, <1>4, <1>5, <1>6

LEMMA BackFinish ==
    ASSUME UniqueKeys, LimitsCount,
           TypeOK, TypeOK', PageInv, WalkInv, BackInv, Finish
    PROVE  BackReturns'
<1> SUFFICES ASSUME req.via = "prev", quiet, trail' # NoPage, trail'.per_page = page'.per_page
             PROVE  page'.data = trail'.data
  BY DEF Finish, BackReturns, TypeOK
<1>1. /\ req.direction = "Before" /\ page.prev_cursor # <<>> /\ req.values = page.prev_cursor
      /\ ~Forward
  BY DEF Finish, BackInv, PrevCall, WalkInv, WalkRequest
<1>2. trail' = trail /\ trail # NoPage /\ asked.req.via = "next"
  BY <1>1 DEF Finish, Forward
<1>3. PICK q1 \in Request, s1 \in Seq(Row) :
        /\ MadeOf(trail, q1, table, s1) /\ q1.direction # "Before" /\ Len(s1) > PageSize(q1)
        /\ asked.req.direction = "After"
        /\ asked.req.values = <<Key[Kept(q1, s1)[PageSize(q1)]]>>
  BY <1>2 DEF BackInv, TrailInv, Follows
<1>4. page # NoPage
  BY <1>1 DEF NoPage
<1>5. PICK s2 \in Seq(Row) : MadeOf(page, asked.req, asked.snap, s2)
  BY <1>4 DEF PageInv
<1>6. asked.snap = table /\ snap = table /\ table \in SUBSET Row
      /\ asked.req \in Request /\ req \in Request
  BY <1>4 DEF BackInv, QuietInv, Finish, TypeOK
<1>7. Kept(asked.req, s2) # <<>> /\ page.prev_cursor = <<Key[Kept(asked.req, s2)[1]]>>
  <2>1. page.prev_cursor = Token(PrevRow(asked.req, s2))
    BY <1>5 DEF MadeOf, NewPage
  <2>2. PrevRow(asked.req, s2) # <<>>
    BY <1>1, <2>1 DEF Token
  <2> QED
    BY <2>1, <2>2 DEF PrevRow, Token
<1>8. rows \in Answers(req, table) /\ req.sorted /\ page' = NewPage(req, rows)
  BY <1>6 DEF Finish, PageInv
<1>9. page'.data = Reverse(Kept(req, rows)) /\ page'.per_page = PageSize(req)
  BY <1>1, <1>8 DEF NewPage, Data
<1>10. trail.data = Kept(q1, s1) /\ trail.per_page = PageSize(q1)
  BY <1>3, ForwardPage DEF MadeOf
<1>11. /\ s1 \in Answers(q1, table) /\ q1.sorted /\ ~BuildError(q1)
       /\ s2 \in Answers(asked.req, table) /\ asked.req.sorted
  BY <1>3, <1>5, <1>6 DEF MadeOf
<1>12. PageSize(req) = PageSize(q1)
  BY <1>2, <1>9, <1>10
<1>13. Reverse(Kept(req, rows)) = Kept(q1, s1)
  <2> HIDE DEF UniqueKeys, LimitsCount
  <2> QED
    BY <1>1, <1>3, <1>6, <1>7, <1>8, <1>11, <1>12, BackPage
<1> QED
  BY <1>2, <1>9, <1>10, <1>13

LEMMA BackInvInductive ==
    ASSUME UniqueKeys, LimitsCount,
           TypeOK, TypeOK', PageInv, WalkInv, BackInv, [Next]_vars
    PROVE  BackInv'
<1>1. CASE FirstPage
  <2>1. /\ page' = NoPage /\ asked'.req = NoRequest /\ trail' = NoPage
        /\ pc' = "built" /\ req'.via = "first"
    BY <1>1 DEF FirstPage, Call
  <2> QED
    BY <2>1 DEF BackInv, QuietInv, PrevCall, ForwardAsked, TrailInv, BackReturns, NoRequest
<1>2. CASE FollowNext
  <2>1. pc' = "built" /\ req'.via = "next" /\ UNCHANGED <<table, page, asked, history>>
    BY <1>2 DEF FollowNext, Call
  <2> QED
    BY <2>1 DEF history, BackInv, QuietInv, PrevCall, ForwardAsked, Forward, TrailInv, Follows,
                BackReturns
<1>3. CASE FollowPrev \/ Seek \/ BadToken
  <2>1. /\ pc' = "built" /\ walk' = "other" /\ UNCHANGED <<table, page, asked, trail, quiet>>
        /\ req'.via = "prev" => /\ req'.direction = "Before" /\ page.prev_cursor # <<>>
                                /\ req'.values = page.prev_cursor
    BY <1>3 DEF FollowPrev, Seek, BadToken, Call, LeaveWalk
  <2> QED
    BY <2>1 DEF BackInv, QuietInv, PrevCall, ForwardAsked, Forward, TrailInv, Follows,
                BackReturns
<1>4. CASE BuildFails \/ FetchFails \/ PageFails
  <2>1. pc' = "idle" /\ UNCHANGED <<table, page, asked, history>>
    BY <1>4 DEF BuildFails, FetchFails, PageFails
  <2> QED
    BY <2>1 DEF history, BackInv, QuietInv, PrevCall, ForwardAsked, Forward, TrailInv, Follows,
                BackReturns
<1>5. CASE Execute
  <2>1. snap' = table /\ pc = "built" /\ UNCHANGED <<table, req, page, asked, history>>
    BY <1>5 DEF Execute
  <2> QED
    BY <2>1 DEF history, BackInv, QuietInv, PrevCall, ForwardAsked, Forward, TrailInv, Follows,
                BackReturns
<1>6. CASE Finish
  <2>1. /\ pc = "fetched" /\ pc' = "idle" /\ asked' = [req |-> req, snap |-> snap]
        /\ UNCHANGED <<table, walk, quiet>>
    BY <1>6 DEF Finish
  <2>2. QuietInv' /\ PrevCall'
    BY <2>1 DEF BackInv, QuietInv, PrevCall
  <2>3. ForwardAsked'
    BY <2>1 DEF ForwardAsked, Forward, WalkInv, WalkRequest
  <2>4. TrailInv'
    <3> SUFFICES ASSUME req.via = "next", trail' # NoPage, quiet PROVE Follows(trail)'
      BY <2>1 DEF TrailInv
    <3>1. Forward /\ trail' = page
      BY <1>6 DEF Finish, Forward
    <3>2. PICK q \in Request, s \in Seq(Row) :
             /\ MadeOf(page, q, table', s) /\ q.direction # "Before" /\ Len(s) > PageSize(q)
             /\ asked'.req.direction = "After"
             /\ asked'.req.values = <<Key[Kept(q, s)[PageSize(q)]]>>
      BY <1>6, <3>1, FollowedByNext
    <3> QED
      BY <3>1, <3>2 DEF Follows
  <2>5. BackReturns'
    BY <1>6, BackFinish
  <2> QED
    BY <2>2, <2>3, <2>4, <2>5 DEF BackInv
<1>7. CASE Insert \/ Delete
  <2>1. quiet' = FALSE /\ UNCHANGED <<pc, req, page, asked, walk>>
    BY <1>7 DEF Insert, Delete
  <2> QED
    BY <2>1 DEF BackInv, QuietInv, PrevCall, ForwardAsked, Forward, TrailInv, BackReturns
<1>8. CASE UNCHANGED vars
  BY <1>8 DEF vars, BackInv, QuietInv, PrevCall, ForwardAsked, Forward, TrailInv, Follows,
              BackReturns
<1> QED
  BY <1>1, <1>2, <1>3, <1>4, <1>5, <1>6, <1>7, <1>8 DEF Next

\* With unique keys, going one page on and one page back with the same page
\* size brings the client the page it came from, as long as nobody wrote since
\* the walk began.
THEOREM PreviousUndoesNext ==
    ASSUME UniqueKeys, LimitsCount
    PROVE  Spec => []BackReturns
<1>1. Init => BackInv
  BY DEF Init, BackInv, QuietInv, PrevCall, ForwardAsked, Forward, TrailInv, BackReturns, NoRequest
<1>2. TypeOK /\ TypeOK' /\ PageInv /\ WalkInv /\ BackInv /\ [Next]_vars => BackInv'
  BY BackInvInductive
<1>3. BackInv => BackReturns
  BY DEF BackInv
<1> QED
  BY <1>1, <1>2, <1>3, TypeCorrect, PageInvariant, WalkInvariant, PTL DEF Spec

-----------------------------------------------------------------------------
(* The condition of a cursor over any number of sort fields, each with its *)
(* own direction, selects the rows beyond the cursor, whenever a           *)
(* placeholder may stand twice or there is one field only: it stands for   *)
(* the rank by which the pages above are cut.                              *)
(*                                                                         *)
(* The argument follows the recursion: on the way in field i is bound as   *)
(* value i, on the way out the levels below field i refer to their own     *)
(* fields, and the database, reading from the inside, has selected by the  *)
(* fields from i on exactly the rows beyond the cursor in those fields.    *)

Level == [op : {"Gt", "Lt"}, opSlot : Nat, eqSlot : Nat]

LEMMA TuplesType ==
    ASSUME NEW S, NEW s \in Tuples(S)
    PROVE  s \in Seq(S) /\ Len(s) <= MaxFields
<1>1. PICK n \in 0..MaxFields : s \in [1..n -> S]
  BY DEF Tuples
<1>2. n \in Nat
  BY MaxFieldsAssumption
<1> QED
  BY <1>1, <1>2, MaxFieldsAssumption

-----------------------------------------------------------------------------
(* Type correctness needs to know how far the build has come.              *)

Shape ==
    /\ Depth <= MaxFields
    /\ stage = "start" => Len(binds) = 0 /\ Len(slots) = 0
    /\ stage \in {"descend", "ascend", "read"} => Fits /\ index \in 1..Depth
    /\ stage = "descend" => Len(binds) = index - 1 /\ Len(slots) = index - 1
    /\ stage \in {"ascend", "read"} => Len(slots) = Depth /\ Len(binds) >= Depth
    /\ stage = "ascend" => Len(levels) = Depth - index + 1
    /\ stage = "read" => Len(levels) = Depth /\ index >= 2

CTypeInv == ConditionTypeOK /\ Shape

LEMMA EqualityType ==
    ASSUME ConditionTypeOK, NEW i \in 1..Len(values), i \in DOMAIN slots
    PROVE  /\ Equality(i).slot \in Nat
           /\ Equality(i).bound \in Seq(Value)
           /\ Len(Equality(i).bound) >= Len(binds)
<1>1. values[i] \in Value /\ slots[i] \in Nat /\ Len(binds) \in Nat
  BY DEF ConditionTypeOK
<1>2. CASE Reuse
  BY <1>1, <1>2 DEF Equality, ConditionTypeOK
<1>3. CASE ~Reuse
  BY <1>1, <1>3 DEF Equality, ConditionTypeOK
<1> QED
  BY <1>2, <1>3

LEMMA ConditionTypeStep ==
    ASSUME CTypeInv, [KNext]_kvars
    PROVE  CTypeInv'
<1> USE DEF request, Depth
<1>0. /\ Len(sorts) \in Nat /\ Len(values) \in Nat /\ Len(binds) \in Nat /\ Len(slots) \in Nat
      /\ Len(levels) \in Nat
  BY DEF CTypeInv, ConditionTypeOK
<1>1. CASE NoCursor
  BY <1>1, <1>0 DEF NoCursor, Rows, Fields, CTypeInv, ConditionTypeOK, Shape
<1>2. CASE Reject
  BY <1>2, <1>0 DEF Reject, Rows, Fields, CTypeInv, ConditionTypeOK, Shape
<1>3. CASE Accept
  <2>1. Len(sorts) >= 1
    BY <1>3, <1>0 DEF Accept, Fits, CTypeInv, ConditionTypeOK
  <2> QED
    BY <1>0, <1>3, <2>1 DEF Accept, Rows, Fields, Fits, CTypeInv, ConditionTypeOK, Shape
<1>4. CASE Descend
  <2>1. /\ index \in 1..Len(values) /\ index \in 1..Len(sorts) /\ Fits
        /\ Len(binds) = index - 1 /\ Len(slots) = index - 1
    BY <1>4, <1>0 DEF Descend, CTypeInv, Shape, Fits
  <2>2. values[index] \in Value
    BY <2>1 DEF CTypeInv, ConditionTypeOK
  <2>3. /\ binds' \in Seq(Value) /\ Len(binds') = index
        /\ slots' \in Seq(Nat) /\ Len(slots') = index
    BY <1>0, <1>4, <2>1, <2>2 DEF Descend, CTypeInv, ConditionTypeOK
  <2>4. CASE index = Depth
    <3>1. [op |-> Operator(index), opSlot |-> Len(binds) + 1, eqSlot |-> 0] \in Level
      BY <1>0 DEF Operator, Level
    <3> DEFINE l == [op |-> Operator(index), opSlot |-> Len(binds) + 1, eqSlot |-> 0]
    <3>3. levels' = <<l>>
      BY <1>4, <2>4 DEF Descend
    <3> HIDE DEF l
    <3>2. levels' \in Seq(Level) /\ Len(levels') = 1
      BY <3>1, <3>3 DEF l
    <3> QED
      BY <1>0, <1>4, <2>1, <2>3, <2>4, <3>2 DEF Descend, Rows, Fields, Fits, CTypeInv,
                          ConditionTypeOK, Shape, Level
  <2>5. CASE index # Depth
    BY <1>0, <1>4, <2>1, <2>3, <2>5 DEF Descend, Rows, Fields, Fits, CTypeInv,
                          ConditionTypeOK, Shape
  <2> QED
    BY <2>4, <2>5
<1>5. CASE Ascend
  <2> DEFINE i == index - 1
  <2>1. /\ i \in 1..Len(values) /\ i \in DOMAIN slots /\ i \in 1..Len(sorts) /\ Fits
        /\ Len(levels) = Len(sorts) - index + 1 /\ Len(binds) >= Len(sorts)
        /\ Len(slots) = Len(sorts)
    BY <1>5, <1>0 DEF Ascend, CTypeInv, ConditionTypeOK, Shape, Fits
  <2>2. /\ Equality(i).slot \in Nat /\ Equality(i).bound \in Seq(Value)
        /\ Len(Equality(i).bound) >= Len(binds)
    BY <2>1, EqualityType DEF CTypeInv
  <2>3. slots[i] \in Nat
    BY <2>1 DEF CTypeInv, ConditionTypeOK
  <2>4. [op |-> Operator(i), opSlot |-> slots[i], eqSlot |-> Equality(i).slot] \in Level
    BY <2>2, <2>3 DEF Operator, Level
  <2> DEFINE l == [op |-> Operator(i), opSlot |-> slots[i], eqSlot |-> Equality(i).slot]
  <2>5. levels' = <<l>> \o levels
    BY <1>5 DEF Ascend
  <2> HIDE DEF l
  <2>6. levels' \in Seq(Level) /\ Len(levels') = Len(levels) + 1
    BY <2>4, <2>5 DEF CTypeInv, ConditionTypeOK, Level, l
  <2>7. binds' \in Seq(Value) /\ Len(binds') >= Len(sorts) /\ Len(binds') \in Nat
    BY <1>0, <1>5, <2>1, <2>2 DEF Ascend
  <2>8. stage = "ascend" /\ index' = i
        /\ UNCHANGED <<sorts, values, direction, stage, slots, chosen>>
    BY <1>5 DEF Ascend
  <2>9. ConditionTypeOK'
    BY <1>0, <2>1, <2>6, <2>7, <2>8 DEF Rows, Fields, CTypeInv, ConditionTypeOK, Level
  <2>10. Shape'
    BY <1>0, <2>1, <2>6, <2>7, <2>8 DEF Fits, CTypeInv, Shape
  <2> QED
    BY <2>9, <2>10 DEF CTypeInv
<1>6. CASE Send
  <2>1. Len(sorts) >= 1 /\ Fits /\ Len(levels) = Len(sorts)
    BY <1>6, <1>0 DEF Send, CTypeInv, ConditionTypeOK, Shape
  <2>2. chosen' \subseteq Rows'
    BY <1>6 DEF Send, Rows, Fields
  <2> QED
    BY <1>0, <1>6, <2>1, <2>2 DEF Send, Fits, CTypeInv, ConditionTypeOK, Shape
<1>7. CASE Read
  <2>1. index - 1 \in 1..Len(sorts) /\ Fits /\ Len(levels) = Len(sorts)
    BY <1>7, <1>0 DEF Read, CTypeInv, ConditionTypeOK, Shape
  <2>2. chosen' \subseteq Rows'
    BY <1>7 DEF Read, Rows, Fields
  <2> QED
    BY <1>0, <1>7, <2>1, <2>2 DEF Read, Fits, CTypeInv, ConditionTypeOK, Shape
<1>8. CASE UNCHANGED kvars
  BY <1>8 DEF kvars, CTypeInv, ConditionTypeOK, Shape, Fits, Rows, Fields
<1> QED
  BY <1>1, <1>2, <1>3, <1>4, <1>5, <1>6, <1>7, <1>8 DEF KNext

LEMMA ConditionTypeInit == KInit => CTypeInv
<1> SUFFICES ASSUME KInit PROVE CTypeInv
  OBVIOUS
<1>1. sorts \in Seq(BOOLEAN) /\ Len(sorts) <= MaxFields /\ values \in Seq(Value)
  BY TuplesType DEF KInit
<1> QED
  BY <1>1 DEF KInit, CTypeInv, ConditionTypeOK, Shape, Depth, Rows

\* Requests, the condition under construction and its arguments keep their
\* types for every number of sort fields.
THEOREM ConditionTypeCorrect == KSpec => []ConditionTypeOK
<1>1. CTypeInv /\ [KNext]_kvars => CTypeInv'
  BY ConditionTypeStep
<1>2. CTypeInv => ConditionTypeOK
  BY DEF CTypeInv
<1> QED
  BY <1>1, <1>2, ConditionTypeInit, PTL DEF KSpec

-----------------------------------------------------------------------------
(* What the condition means while it is built and read.                    *)

\* Placeholders that stand twice are the only way to more than one field.
Resolves == Reuse \/ MaxFields <= 1

\* the value of each field is bound once, as the value of its own number
Bound ==
    /\ \A i \in DOMAIN slots : slots[i] = i
    /\ \A i \in DOMAIN binds : i <= Depth => binds[i] = values[i]

\* the levels are those of the fields from i on
LevelsFrom(i) ==
    \A k \in DOMAIN levels :
        /\ levels[k].op = Operator(i + k - 1)
        /\ levels[k].opSlot = i + k - 1
        /\ Reuse /\ i + k - 1 < Depth => levels[k].eqSlot = i + k - 1

Meaning ==
    /\ stage \in {"start", "descend", "ascend", "read"} => Bound
    /\ stage = "ascend" => LevelsFrom(index)
    /\ stage = "read" => LevelsFrom(1) /\ chosen = {r \in Rows : Beyond(r, index)}
    /\ SelectsBeyond

ConditionInv == CTypeInv /\ Meaning

\* row r is beyond the cursor in field i alone
BeyondAt(r, i) == Compare(Operator(i), r[i], values[i])

LEMMA BeyondField ==
    ASSUME CTypeInv, Fits, NEW r \in Rows, NEW i \in Fields
    PROVE  BeyondAt(r, i) <=> IF direction = "After" THEN Earlier(i, values[i], r[i])
                                                     ELSE Earlier(i, r[i], values[i])
<1>0. i \in 1..Len(sorts) /\ i \in 1..Len(values)
  BY DEF Fields, Fits, CTypeInv, ConditionTypeOK
<1>1. r[i] \in Int /\ values[i] \in Int /\ sorts[i] \in BOOLEAN
  <2>1. r[i] \in Value
    BY DEF Rows
  <2>2. values[i] \in Value /\ sorts[i] \in BOOLEAN
    BY <1>0 DEF CTypeInv, ConditionTypeOK
  <2> QED
    BY <2>1, <2>2, ValueAssumption
<1> QED
  BY <1>1 DEF BeyondAt, Compare, Operator, Earlier

\* The innermost level decides by its field alone ...
LEMMA BeyondLast ==
    ASSUME CTypeInv, Fits, NEW r \in Rows
    PROVE  Depth \in Fields /\ (Beyond(r, Depth) <=> BeyondAt(r, Depth))
<1>1. Fields = 1..Depth /\ Depth \in Nat /\ Depth >= 1
  BY DEF Fields, Depth, Fits, CTypeInv, ConditionTypeOK
<1>2. Depth \in Fields
  BY <1>1
<1>3. Beyond(r, Depth) <=> IF direction = "After" THEN Earlier(Depth, values[Depth], r[Depth])
                                                 ELSE Earlier(Depth, r[Depth], values[Depth])
  BY <1>1 DEF Beyond
<1> QED
  BY <1>2, <1>3, BeyondField

\* ... and every other level by its own field, or the levels inside it.
LEMMA BeyondStep ==
    ASSUME CTypeInv, Fits, NEW r \in Rows, NEW i \in Fields, i < Depth
    PROVE  Beyond(r, i) <=> BeyondAt(r, i) \/ (r[i] = values[i] /\ Beyond(r, i + 1))
<1> DEFINE Here(j) == IF direction = "After" THEN Earlier(j, values[j], r[j])
                                             ELSE Earlier(j, r[j], values[j])
<1>0. Fields = 1..Depth /\ Depth \in Nat /\ i \in Nat
  BY DEF Fields, Depth, CTypeInv, ConditionTypeOK
<1>1. BeyondAt(r, i) <=> Here(i)
  BY BeyondField
<1>2. \A m \in Nat : Beyond(r, m) <=> \E j \in Fields :
                        j >= m /\ (\A k \in Fields : m <= k /\ k < j => r[k] = values[k]) /\ Here(j)
  BY DEF Beyond
<1> HIDE DEF Here
<1>3. ASSUME Beyond(r, i) PROVE BeyondAt(r, i) \/ (r[i] = values[i] /\ Beyond(r, i + 1))
  <2>1. PICK j \in Fields : /\ j >= i
                            /\ \A k \in Fields : i <= k /\ k < j => r[k] = values[k]
                            /\ Here(j)
    BY <1>0, <1>2, <1>3
  <2>2. CASE j = i
    BY <1>1, <2>1, <2>2
  <2>3. CASE j # i
    <3>1. j >= i + 1 /\ r[i] = values[i]
      BY <1>0, <2>1, <2>3
    <3>2. \A k \in Fields : i + 1 <= k /\ k < j => r[k] = values[k]
      BY <1>0, <2>1
    <3> QED
      BY <1>0, <1>2, <2>1, <3>1, <3>2
  <2> QED
    BY <2>2, <2>3
<1>4. ASSUME BeyondAt(r, i) PROVE Beyond(r, i)
  BY <1>0, <1>1, <1>2, <1>4
<1>5. ASSUME r[i] = values[i], Beyond(r, i + 1) PROVE Beyond(r, i)
  <2>1. PICK j \in Fields : /\ j >= i + 1
                            /\ \A k \in Fields : i + 1 <= k /\ k < j => r[k] = values[k]
                            /\ Here(j)
    BY <1>0, <1>2, <1>5
  <2>2. \A k \in Fields : i <= k /\ k < j => r[k] = values[k]
    BY <1>0, <1>5, <2>1
  <2> QED
    BY <1>0, <1>2, <2>1, <2>2
<1> QED
  BY <1>3, <1>4, <1>5

LEMMA OneBefore ==
    ASSUME NEW S, NEW x \in S, NEW s \in Seq(S), NEW t, t = <<x>> \o s
    PROVE  /\ DOMAIN t = 1..(Len(s) + 1)
           /\ \A k \in 1..(Len(s) + 1) : t[k] = IF k = 1 THEN x ELSE s[k - 1]
OBVIOUS

LEMMA ConditionStep ==
    ASSUME Resolves, ConditionInv, [KNext]_kvars
    PROVE  ConditionInv'
<1>0. CTypeInv'
  BY ConditionTypeStep DEF ConditionInv
<1>1. /\ Len(sorts) \in Nat /\ Len(values) \in Nat /\ Len(binds) \in Nat /\ Len(slots) \in Nat
      /\ Len(levels) \in Nat /\ Fields = 1..Depth /\ Depth = Len(sorts)
      /\ DOMAIN binds = 1..Len(binds) /\ DOMAIN slots = 1..Len(slots)
      /\ DOMAIN levels = 1..Len(levels)
  BY DEF ConditionInv, CTypeInv, ConditionTypeOK, Fields, Depth
<1>2. CASE NoCursor
  BY <1>0, <1>2 DEF NoCursor, request, ConditionInv, Meaning, SelectsBeyond
<1>3. CASE Reject
  BY <1>0, <1>3 DEF Reject, request, ConditionInv, Meaning, SelectsBeyond
<1>4. CASE Accept
  BY <1>0, <1>4 DEF Accept, request, ConditionInv, Meaning, SelectsBeyond, Bound, Depth
<1>5. CASE Descend
  <2>1. /\ stage = "descend" /\ index \in 1..Depth
        /\ Len(binds) = index - 1 /\ Len(slots) = index - 1 /\ Bound
        /\ UNCHANGED <<sorts, values, direction>>
        /\ binds' = Append(binds, values[index]) /\ slots' = Append(slots, index)
    BY <1>1, <1>5 DEF Descend, request, ConditionInv, CTypeInv, Shape, Meaning
  <2>2. Bound'
    BY <1>1, <2>1 DEF Bound, Depth, ConditionInv, CTypeInv, ConditionTypeOK
  <2>3. CASE index = Depth
    <3>1. levels' = <<[op |-> Operator(index), opSlot |-> index, eqSlot |-> 0]>>
          /\ stage' = "ascend" /\ index' = index
      BY <1>1, <1>5, <2>1, <2>3 DEF Descend
    <3>2. LevelsFrom(index)'
      BY <1>1, <2>1, <2>3, <3>1 DEF LevelsFrom, Operator, Depth
    <3> QED
      BY <1>0, <2>2, <3>1, <3>2 DEF ConditionInv, Meaning, SelectsBeyond
  <2>4. CASE index # Depth
    BY <1>0, <1>5, <2>1, <2>2, <2>4 DEF Descend, ConditionInv, Meaning, SelectsBeyond
  <2> QED
    BY <2>3, <2>4
<1>6. CASE Ascend
  <2>a. /\ stage = "ascend" /\ index > 1 /\ index' = index - 1 /\ stage' = "ascend"
        /\ UNCHANGED <<sorts, values, direction, slots>>
    BY <1>6 DEF Ascend, request
  <2>b. index \in 1..Depth /\ Len(levels) = Depth - index + 1 /\ Len(slots) = Depth
    BY <2>a DEF ConditionInv, CTypeInv, Shape
  <2>c. PICK i \in 1..Depth : i = index - 1
    BY <1>1, <2>a, <2>b
  <2> DEFINE l == [op |-> Operator(i), opSlot |-> slots[i], eqSlot |-> Equality(i).slot]
  <2>d. Bound /\ LevelsFrom(index) /\ i + 1 = index
    BY <1>1, <2>a, <2>b, <2>c DEF ConditionInv, Meaning
  <2>1. /\ i \in 1..Depth /\ index = i + 1 /\ index <= Depth /\ Len(levels) = Depth - i
        /\ Bound /\ LevelsFrom(i + 1)
        /\ index' = i /\ levels' = <<l>> \o levels
    BY <1>1, <1>6, <2>a, <2>b, <2>c, <2>d DEF Ascend
  <2>2. Reuse
    BY <1>1, <2>a, <2>b, MaxFieldsAssumption DEF Resolves, ConditionInv, CTypeInv, Shape
  <2>3. binds' = binds /\ slots[i] = i /\ Equality(i).slot = i
    BY <1>1, <1>6, <2>b, <2>c, <2>1, <2>2 DEF Ascend, Equality, Bound
  <2>4. l = [op |-> Operator(i), opSlot |-> i, eqSlot |-> i]
    BY <2>3
  <2>5. DOMAIN levels' = 1..(Len(levels) + 1)
        /\ \A k \in 1..(Len(levels) + 1) : levels'[k] = IF k = 1 THEN l ELSE levels[k - 1]
    <3>1. l \in Level
      BY <1>1, <2>4 DEF Level, Operator
    <3>2. levels \in Seq(Level)
      BY DEF ConditionInv, CTypeInv, ConditionTypeOK, Level
    <3> HIDE DEF l
    <3> QED
      BY <2>1, <3>1, <3>2, OneBefore
  <2> HIDE DEF l
  <2>6. LevelsFrom(i)'
    <3> SUFFICES ASSUME NEW k \in 1..(Len(levels) + 1)
                 PROVE  /\ levels'[k].op = Operator(i + k - 1)
                        /\ levels'[k].opSlot = i + k - 1
                        /\ Reuse /\ i + k - 1 < Depth => levels'[k].eqSlot = i + k - 1
      BY <2>a, <2>1, <2>5 DEF LevelsFrom, Operator, Depth
    <3>1. CASE k = 1
      <4>1. i + k - 1 = i
        BY <2>1, <3>1
      <4> QED
        BY <2>4, <2>5, <3>1, <4>1
    <3>2. CASE k # 1
      <4>1. k - 1 \in DOMAIN levels /\ (i + 1) + (k - 1) - 1 = i + k - 1
        BY <1>1, <2>1, <3>2
      <4> QED
        BY <2>1, <2>5, <3>2, <4>1 DEF LevelsFrom
    <3> QED
      BY <3>1, <3>2
  <2>7. Bound' /\ LevelsFrom(index)'
    <3>1. Bound'
      BY <2>a, <2>d, <2>3 DEF Bound, Depth
    <3> QED
      BY <2>1, <2>6, <3>1 DEF LevelsFrom, Operator, Depth
  <2> QED
    BY <1>0, <2>a, <2>7 DEF ConditionInv, Meaning, SelectsBeyond
<1>7. CASE Send
  <2>1. /\ stage = "ascend" /\ index = 1 /\ Fits /\ Depth >= 1
        /\ Len(levels) = Depth /\ Len(binds) >= Depth /\ Bound /\ LevelsFrom(1)
        /\ UNCHANGED <<sorts, values, direction, levels, slots, binds>>
    <3>1. /\ stage = "ascend" /\ index = 1
          /\ UNCHANGED <<sorts, values, direction, levels, slots, binds>>
      BY <1>7 DEF Send, request
    <3>2. Fits /\ 1 \in 1..Depth /\ Len(levels) = Depth - 1 + 1 /\ Len(binds) >= Depth
      BY <3>1 DEF ConditionInv, CTypeInv, Shape
    <3>3. Bound /\ LevelsFrom(1)
      BY <3>1 DEF ConditionInv, Meaning
    <3> QED
      BY <1>1, <3>1, <3>2, <3>3
  <2>2. levels[Depth].op = Operator(Depth) /\ levels[Depth].opSlot = Depth
    BY <1>1, <2>1 DEF LevelsFrom
  <2>3. Argument(levels[Depth].opSlot, 2 * Depth - 1) = values[Depth]
    <3>1. Reuse \/ 2 * Depth - 1 = Depth
      BY <1>1, <2>1, MaxFieldsAssumption DEF Resolves, ConditionInv, CTypeInv, Shape
    <3> QED
      BY <1>1, <2>1, <2>2, <3>1 DEF Argument, Bound
  <2>4. chosen' = {r \in Rows : Beyond(r, Depth)}
    <3>1. chosen' = {r \in Rows : BeyondAt(r, Depth)}
      BY <1>7, <2>2, <2>3 DEF Send, BeyondAt
    <3> QED
      BY <2>1, <3>1, BeyondLast DEF ConditionInv
  <2>5. /\ chosen' = {r \in Rows' : Beyond(r, Depth)'}
        /\ Bound' /\ LevelsFrom(1)' /\ index' = Depth
        /\ IF Depth = 1 THEN stage' = "done" ELSE stage' = "read"
    BY <1>7, <2>1, <2>4 DEF Send, Bound, LevelsFrom, Operator, Depth, Rows, Fields, Beyond, Earlier
  <2>6. CASE Depth = 1
    BY <1>0, <2>1, <2>5, <2>6 DEF ConditionInv, Meaning, SelectsBeyond, Beyond,
                                     Fields, Earlier, Depth
  <2>7. CASE Depth # 1
    BY <1>0, <2>1, <2>5, <2>7 DEF ConditionInv, Meaning, SelectsBeyond, Beyond,
                                     Fields, Earlier, Depth
  <2> QED
    BY <2>6, <2>7
<1>8. CASE Read
  <2>a. /\ stage = "read" /\ UNCHANGED <<sorts, values, direction, levels, slots, binds>>
    BY <1>8 DEF Read, request
  <2>b. Fits /\ index \in 2..Depth /\ Len(levels) = Depth /\ Len(binds) >= Depth
    <3>1. Fits /\ index \in 1..Depth /\ index >= 2 /\ Len(levels) = Depth /\ Len(binds) >= Depth
      BY <2>a DEF ConditionInv, CTypeInv, Shape
    <3> QED
      BY <1>1, <3>1
  <2>c. PICK i \in 1..Depth : i = index - 1
    BY <1>1, <2>b
  <2>d. Bound /\ LevelsFrom(1) /\ chosen = {r \in Rows : Beyond(r, index)} /\ index = i + 1
    BY <1>1, <2>a, <2>b, <2>c DEF ConditionInv, Meaning
  <2>1. i < Depth /\ chosen = {r \in Rows : Beyond(r, i + 1)}
    BY <1>1, <2>b, <2>d
  <2>2. Reuse
    BY <1>1, <2>1, <2>b, MaxFieldsAssumption DEF Resolves, ConditionInv, CTypeInv, Shape
  <2>3. levels[i].op = Operator(i) /\ levels[i].opSlot = i /\ levels[i].eqSlot = i
    BY <1>1, <2>b, <2>d, <2>1, <2>2 DEF LevelsFrom
  <2>4. Argument(levels[i].opSlot, 2 * i - 1) = values[i]
        /\ Argument(levels[i].eqSlot, 2 * i) = values[i]
    BY <1>1, <2>b, <2>d, <2>2, <2>3 DEF Argument, Bound
  <2>5. chosen' = {r \in Rows : BeyondAt(r, i) \/ (r[i] = values[i] /\ r \in chosen)}
    BY <1>8, <2>c, <2>3, <2>4 DEF Read, BeyondAt
  <2>6. chosen' = {r \in Rows : Beyond(r, i)}
    <3>1. \A r \in Rows : Beyond(r, i) <=> BeyondAt(r, i) \/ (r[i] = values[i] /\ Beyond(r, i + 1))
      BY <1>1, <2>b, <2>1, BeyondStep DEF ConditionInv
    <3> QED
      BY <2>1, <2>5, <3>1
  <2>7. /\ chosen' = {r \in Rows' : Beyond(r, i)'}
        /\ Bound' /\ LevelsFrom(1)' /\ index' = i
        /\ IF i = 1 THEN stage' = "done" ELSE stage' = "read"
    <3>1. index' = i /\ IF i = 1 THEN stage' = "done" ELSE stage' = "read"
      BY <1>8, <2>c DEF Read
    <3>2. Bound' /\ LevelsFrom(1)'
      BY <2>a, <2>d DEF Bound, LevelsFrom, Operator, Depth
    <3>3. Rows' = Rows /\ \A r \in Rows : Beyond(r, i)' <=> Beyond(r, i)
      BY <2>a DEF Rows, Fields, Beyond, Earlier
    <3> QED
      BY <2>6, <3>1, <3>2, <3>3
  <2>8. CASE i = 1
    BY <1>0, <2>7, <2>8 DEF ConditionInv, Meaning, SelectsBeyond
  <2>9. CASE i # 1
    <3>1. chosen' = {r \in Rows' : Beyond(r, index)'}
      BY <2>7
    <3> QED
      BY <1>0, <2>7, <2>9, <3>1 DEF ConditionInv, Meaning, SelectsBeyond
  <2> QED
    BY <2>8, <2>9
<1>9. CASE UNCHANGED kvars
  BY <1>0, <1>9 DEF kvars, ConditionInv, Meaning, SelectsBeyond, Bound, LevelsFrom, Operator, Depth,
                    Rows, Fields, Beyond, Earlier
<1> QED
  BY <1>2, <1>3, <1>4, <1>5, <1>6, <1>7, <1>8, <1>9 DEF KNext

\* For any number of sort fields, any directions and any values: where a
\* placeholder may stand twice, or there is one field only, the condition of a
\* cursor selects exactly the rows beyond it in the order of ORDER BY.
THEOREM ConditionSelectsBeyond ==
    ASSUME Resolves
    PROVE  KSpec => []SelectsBeyond
<1>1. KInit => ConditionInv
  BY ConditionTypeInit DEF KInit, ConditionInv, Meaning, SelectsBeyond, Bound
<1>2. ConditionInv /\ [KNext]_kvars => ConditionInv'
  BY ConditionStep
<1>3. ConditionInv => SelectsBeyond
  BY DEF ConditionInv, Meaning
<1> QED
  BY <1>1, <1>2, <1>3, PTL DEF KSpec
=============================================================================
