--------------------------- MODULE CursorPagination ---------------------------
(***************************************************************************)
(* Keyset ("cursor") pagination from the request a client builds to the    *)
(* page it gets back, over a table other writers change meanwhile.         *)
(*                                                                         *)
(*   CursorBuilder          sqlx-data-params/src/builder.rs                *)
(*   process_query/select   sqlx-data-parser/src/dynamic/builder.rs        *)
(*   Cursor::new            sqlx-data-params/src/response.rs               *)
(*   the generated method   sqlx-data-macros/src/code_generator.rs         *)
(*                                                                         *)
(* One call is three steps, because the generated method awaits the        *)
(* database: the request is built, the statement runs against the table of *)
(* that instant, and Cursor::new turns the fetched rows into a page.  Any  *)
(* number of writes may fall between two of them.                          *)
(*                                                                         *)
(* The sort is over one column; a row is an identity and its sort key is   *)
(* Key[row], a rank.  KeysetPredicate treats several columns.              *)
(***************************************************************************)
EXTENDS Integers, SequencesExt

CONSTANTS
    Row,            \* identities of the rows the table may hold
    Key,            \* Key[r]: the value of the sort column of row r
    Asc,            \* Sort::is_asc of the one sort field
    Limits,         \* what a client passes to ParamsBuilder::limit ...
    NoLimit,        \* ... or NoLimit when it does not call it
    DefaultLimit,   \* Cursor::DEFAULT_LIMIT
    MaxU32,         \* the greatest u32, the type of a limit
    SortGiven,      \* may a request carry a sort_by?  A subset of BOOLEAN
    Opaque          \* rows whose extract_whitelisted_fields returns an error

ASSUME RowAssumption  == IsFiniteSet(Row)
ASSUME KeyAssumption  == Key \in [Row -> Int]
ASSUME AscAssumption  == Asc \in BOOLEAN
ASSUME LimitAssumption ==
    /\ MaxU32 \in Nat
    /\ Limits \subseteq (0..MaxU32) \cup {NoLimit} /\ Limits # {}
    /\ NoLimit \notin Nat
    /\ DefaultLimit \in Nat \ {0}
ASSUME SortGivenAssumption == SortGiven \subseteq BOOLEAN

VARIABLES
    table,      \* the rows the database holds now
    pc,         \* where the client's call stands
    req,        \* the Params of the call in progress
    rows,       \* what fetch_all returned to the call in progress
    snap,       \* the table that statement saw (history)
    page,       \* the last page the client received
    asked,      \* the request and the table that page answers (history)
    walk,       \* "forward": first_page followed by next_cursor only (history)
    before,     \* rows the walk received before `page` (history)
    stable,     \* rows in the table ever since the walk began (history)
    trail,      \* the page the walk moved on from, for the way back (history)
    quiet       \* no write since the walk began (history)

vars == <<table, pc, req, rows, snap, page, asked,
          walk, before, stable, trail, quiet>>
history == <<walk, before, stable, trail, quiet>>

-----------------------------------------------------------------------------
(* The sort order, and the values that travel in cursors.                  *)

\* k comes strictly before l in the order the client asked for
Precedes(k, l) == IF Asc THEN k < l ELSE l < k

\* Vec<FilterValue> of a cursor, and Option<String> of a token: empty is None
Values == {<<>>} \cup {<<Key[r]>> : r \in Row}

Directions == {"None", "After", "Before"}

Request == [direction : Directions, values : Values, error : BOOLEAN,
            limit : Limits, sorted : BOOLEAN,
            via : {"first", "next", "prev", "seek", "bad"}]

Page == [data : Seq(Row), per_page : Nat, has_next : BOOLEAN,
         has_prev : BOOLEAN, next_cursor : Values, prev_cursor : Values]

\* The client has received nothing yet.
NoPage == [data |-> <<>>, per_page |-> 0, has_next |-> FALSE,
           has_prev |-> FALSE, next_cursor |-> <<>>, prev_cursor |-> <<>>]

-----------------------------------------------------------------------------
(* build_dynamic_sql: the statement a request becomes.                     *)

\* Mutant: >= and <= for > and <, so that a page begins with the row its
\* cursor was taken from.
CursorOperatorOrEqual(direction, k, value) ==
    IF Asc <=> direction = "After" THEN k >= value ELSE k <= value

\* the comparison process_select puts between the sort field and the value
CursorOperator(direction, k, value) ==
    \/ direction = "After"  /\ Asc  /\ k > value
    \/ direction = "After"  /\ ~Asc /\ k < value
    \/ direction = "Before" /\ Asc  /\ k < value
    \/ direction = "Before" /\ ~Asc /\ k > value

\* WHERE: a cursor without values adds no condition
Selected(q, t) ==
    IF q.values = <<>> THEN t
    ELSE {r \in t : CursorOperator(q.direction, Key[r], q.values[1])}

\* Mutant: ORDER BY keeps its direction for a page read backwards.
OrderAscKept(q) == Asc

\* ORDER BY: inverted for BEFORE
OrderAsc(q) == IF q.direction = "Before" THEN ~Asc ELSE Asc

InOrder(asc, k, l) == IF asc THEN k <= l ELSE l <= k

\* LIMIT: limit.0 + limit_plus_one() in u32, which a release build wraps
FetchLimit(q) == IF q.limit = MaxU32 THEN 0 ELSE q.limit + 1

\* What the database may answer: the selected rows in the statement's order,
\* cut at the LIMIT if there is one.  Rows of equal key come in any order.
IsResult(s, q, t) ==
    /\ IsInjective(s)
    /\ q.sorted =>
         /\ \A i, j \in DOMAIN s : i < j => InOrder(OrderAsc(q), Key[s[i]], Key[s[j]])
         /\ \A r \in Selected(q, t) \ ToSet(s) :
              \A i \in DOMAIN s : InOrder(OrderAsc(q), Key[s[i]], Key[r])
    /\ q.limit # NoLimit => Len(s) <= FetchLimit(q)
    /\ q.limit = NoLimit \/ Len(s) < FetchLimit(q) => Selected(q, t) \subseteq ToSet(s)

\* The errors of process_select.  The test for a cursor whose token failed to
\* decode stands behind !cursor.is_empty(), as the other two do.
BuildError(q) ==
    q.values # <<>> /\ (q.error \/ ~q.sorted \/ q.direction = "None")

-----------------------------------------------------------------------------
(* Cursor::new                                                             *)

PageSize(q) ==
    LET limit == IF q.limit = NoLimit THEN DefaultLimit ELSE q.limit
    IN  IF limit < 1 THEN 1 ELSE limit

\* Mutant: a full page counts as a sign of more.
HasMoreWhenFull(q, fetched) == Len(fetched) >= PageSize(q)

HasMore(q, fetched) == Len(fetched) > PageSize(q)

\* data.truncate(requested_limit)
Kept(q, fetched) ==
    IF HasMore(q, fetched) THEN SubSeq(fetched, 1, PageSize(q)) ELSE fetched

\* Mutant: a page read backwards stays in the order of its statement.
DataUnreversed(q, fetched) == Kept(q, fetched)

Data(q, fetched) ==
    IF q.direction = "Before" THEN Reverse(Kept(q, fetched)) ELSE Kept(q, fetched)

\* Mutants: the next token is taken from the look-ahead row; it is there
\* although the page is the last one.
NextRowLookAhead(q, fetched) ==
    IF HasMore(q, fetched) THEN <<Last(fetched)>> ELSE <<>>
NextRowAlways(q, fetched) ==
    IF Kept(q, fetched) # <<>> THEN <<Last(Kept(q, fetched))>> ELSE <<>>

\* generate_cursors, before the page is reversed: the row the next token is
\* taken from, and the row the previous token is taken from
NextRow(q, fetched) ==
    IF HasMore(q, fetched) /\ Kept(q, fetched) # <<>>
    THEN <<Last(Kept(q, fetched))>> ELSE <<>>

PrevRow(q, fetched) ==
    IF q.values # <<>> /\ Kept(q, fetched) # <<>>
    THEN <<Head(Kept(q, fetched))>> ELSE <<>>

Token(row) == IF row = <<>> THEN <<>> ELSE <<Key[row[1]]>>

\* extract_whitelisted_fields refuses a row a token is to be taken from
TokenFails(q, fetched) ==
    \E row \in {NextRow(q, fetched), PrevRow(q, fetched)} : row # <<>> /\ row[1] \in Opaque

NewPage(q, fetched) ==
    LET is_backward == q.direction = "Before"
        has_more    == HasMore(q, fetched)
        had_prev    == q.values # <<>>
    IN  [data        |-> Data(q, fetched),
         per_page    |-> PageSize(q),
         has_next    |-> IF is_backward THEN had_prev ELSE has_more,
         has_prev    |-> IF is_backward THEN has_more ELSE had_prev,
         next_cursor |-> Token(NextRow(q, fetched)),
         prev_cursor |-> Token(PrevRow(q, fetched))]

-----------------------------------------------------------------------------
NoRequest == [direction |-> "None", values |-> <<>>, error |-> FALSE,
              limit |-> CHOOSE l \in Limits : TRUE, sorted |-> TRUE, via |-> "first"]

Init ==
    /\ table \in SUBSET Row
    /\ pc = "idle"
    /\ req = NoRequest
    /\ rows = <<>>
    /\ snap = {}
    /\ page = NoPage
    /\ asked = [req |-> NoRequest, snap |-> {}]
    /\ walk = "none"
    /\ before = {}
    /\ stable = {}
    /\ trail = NoPage
    /\ quiet = FALSE

\* The client calls the repository method with the Params it has built.
Call(direction, values, error, via) ==
    /\ pc = "idle"
    /\ \E limit \in Limits, sorted \in SortGiven :
         req' = [direction |-> direction, values |-> values, error |-> error,
                 limit |-> limit, sorted |-> sorted, via |-> via]
    /\ pc' = "built"
    /\ UNCHANGED <<table, rows, snap>>

LeaveWalk ==
    /\ walk' = "other"
    /\ before' = {}
    /\ stable' = {}
    /\ UNCHANGED <<trail, quiet>>

\* .first_page(): a cursor without direction and values; a walk begins.
FirstPage ==
    /\ Call("None", <<>>, FALSE, "first")
    /\ page' = NoPage
    /\ asked' = [req |-> NoRequest, snap |-> {}]
    /\ walk' = "forward"
    /\ before' = {}
    /\ stable' = table
    /\ trail' = NoPage
    /\ quiet' = TRUE

\* .next_cursor::<T>(page.next_cursor)
FollowNext ==
    /\ page.next_cursor # <<>>
    /\ Call("After", page.next_cursor, FALSE, "next")
    /\ UNCHANGED <<page, asked, history>>

\* .prev_cursor::<T>(page.prev_cursor)
FollowPrev ==
    /\ page.prev_cursor # <<>>
    /\ Call("Before", page.prev_cursor, FALSE, "prev")
    /\ LeaveWalk
    /\ UNCHANGED <<page, asked>>

\* .after(value) and .before(value) with a value of the client's own
Seek ==
    /\ \E direction \in {"After", "Before"}, r \in Row :
         Call(direction, <<Key[r]>>, FALSE, "seek")
    /\ LeaveWalk
    /\ UNCHANGED <<page, asked>>

\* .next_cursor or .prev_cursor with a token T::decode refuses:
\* CursorParams::with_error keeps the direction and no values.
BadToken ==
    /\ \E direction \in {"After", "Before"} : Call(direction, <<>>, TRUE, "bad")
    /\ LeaveWalk
    /\ UNCHANGED <<page, asked>>

\* build_dynamic_sql returns an error: no statement is sent.
BuildFails ==
    /\ pc = "built"
    /\ BuildError(req)
    /\ pc' = "idle"
    /\ UNCHANGED <<table, req, rows, snap, page, asked, history>>

\* fetch_all runs the statement: it reads the table of one instant.
Execute ==
    /\ pc = "built"
    /\ ~BuildError(req)
    /\ \E s \in SeqOf(Selected(req, table), Cardinality(Selected(req, table))) :
         /\ IsResult(s, req, table)
         /\ rows' = s
    /\ snap' = table
    /\ pc' = "fetched"
    /\ UNCHANGED <<table, req, page, asked, history>>

\* Mutant: the method never comes back from a database error.
FetchFailsHanging ==
    /\ pc = "built"
    /\ ~BuildError(req)
    /\ pc' = "failed"
    /\ UNCHANGED <<table, req, rows, snap, page, asked, history>>

\* fetch_all returns a database error, which the method passes on.
FetchFails ==
    /\ pc = "built"
    /\ ~BuildError(req)
    /\ pc' = "idle"
    /\ UNCHANGED <<table, req, rows, snap, page, asked, history>>

\* Cursor::new refuses Params without sort_by, and a token it cannot make.
PageFails ==
    /\ pc = "fetched"
    /\ ~req.sorted \/ TokenFails(req, rows)
    /\ pc' = "idle"
    /\ rows' = <<>>
    /\ snap' = {}
    /\ UNCHANGED <<table, req, page, asked, history>>

\* Cursor::new makes the page; the client has its answer.
Finish ==
    /\ pc = "fetched"
    /\ req.sorted /\ ~TokenFails(req, rows)
    /\ page' = NewPage(req, rows)
    /\ asked' = [req |-> req, snap |-> snap]
    /\ before' = IF walk = "forward" THEN before \cup ToSet(page.data) ELSE {}
    /\ trail' = IF walk = "forward" THEN page
                ELSE IF req.via = "prev" /\ asked.req.via = "next" THEN trail
                ELSE NoPage
    /\ pc' = "idle"
    /\ rows' = <<>>
    /\ snap' = {}
    /\ UNCHANGED <<table, req, walk, stable, quiet>>

\* Other writers of the same table.
Insert ==
    /\ \E r \in Row \ table : table' = table \cup {r}
    /\ quiet' = FALSE
    /\ UNCHANGED <<pc, req, rows, snap, page, asked, walk, before, stable, trail>>

Delete ==
    /\ \E r \in table :
         /\ table' = table \ {r}
         /\ stable' = stable \ {r}
    /\ quiet' = FALSE
    /\ UNCHANGED <<pc, req, rows, snap, page, asked, walk, before, trail>>

Next ==
    \/ FirstPage \/ FollowNext \/ FollowPrev \/ Seek \/ BadToken
    \/ BuildFails \/ Execute \/ FetchFails \/ PageFails \/ Finish
    \/ Insert \/ Delete

Spec == Init /\ [][Next]_vars

(***************************************************************************)
(* A client that only walks forward, as the loops of the integration tests *)
(* do.  Its own steps are fair: the method it awaits completes, and it     *)
(* asks for the next page while has_next says there is one.  The writers   *)
(* owe nothing and may write for ever.  A database that fails every call   *)
(* is left out here: no walk survives it.                                  *)
(***************************************************************************)
WalkOn == page.has_next /\ FollowNext

WalkNext ==
    \/ walk = "none" /\ FirstPage
    \/ WalkOn \/ BuildFails \/ Execute \/ PageFails \/ Finish
    \/ Insert \/ Delete

WalkSpec ==
    /\ Init /\ [][WalkNext]_vars
    /\ WF_vars(WalkOn) /\ WF_vars(Execute) /\ WF_vars(Finish)

-----------------------------------------------------------------------------
(* Properties                                                              *)

TypeOK ==
    /\ table \subseteq Row /\ snap \subseteq Row
    /\ pc \in {"idle", "built", "fetched"}
    /\ req \in Request
    /\ rows \in Seq(Row)
    /\ page \in Page /\ trail \in Page
    /\ asked \in [req : Request, snap : SUBSET Row]
    /\ walk \in {"none", "forward", "other"}
    /\ before \subseteq Row /\ stable \subseteq Row
    /\ quiet \in BOOLEAN

Forward == walk = "forward"
UniqueKeys == IsInjective(Key)

\* The rows the page asked for may come from, by the request's own words
Wanted ==
    LET v == asked.req.values[1]
    IN  CASE asked.req.values = <<>> -> asked.snap
          [] asked.req.values # <<>> /\ asked.req.direction = "After" ->
               {r \in asked.snap : Precedes(v, Key[r])}
          [] OTHER -> {r \in asked.snap : Precedes(Key[r], v)}

LeftOut == Wanted \ ToSet(page.data)

RowsExact ==
    /\ ToSet(page.data) \subseteq Wanted
    /\ \A i, j \in DOMAIN page.data :
         i < j => ~Precedes(Key[page.data[j]], Key[page.data[i]])
    /\ \A r \in LeftOut, i \in DOMAIN page.data :
         IF asked.req.direction = "Before"
         THEN ~Precedes(Key[page.data[i]], Key[r])
         ELSE ~Precedes(Key[r], Key[page.data[i]])
    /\ LeftOut # {} => Len(page.data) = page.per_page

HasMoreExact ==
    (IF asked.req.direction = "Before" THEN page.has_prev ELSE page.has_next)
        <=> LeftOut # {}

\* A page holds the rows nearest to its cursor on the side asked for, in the
\* order the client sorts by, also when it was read backwards and reversed; and
\* its look-ahead row (LIMIT + 1) tells exactly whether rows are left over on
\* the side the client moves to, although that row is dropped from the page.
PageExact == RowsExact /\ HasMoreExact

\* k comes before l as the statement of the page reads
ReadBefore(k, l) == IF asked.req.direction = "Before" THEN Precedes(l, k) ELSE Precedes(k, l)

\* In the direction a page was read, in either one: it has a next token exactly
\* when rows are left over, and a previous one when it began at a cursor and has
\* rows, and no row of the page lies outside its tokens, although flags and rows
\* are turned around for BEFORE and tokens are not.
TokensAtEnds ==
    LET backward == asked.req.direction = "Before"
        more     == IF backward THEN page.has_prev ELSE page.has_next
        came     == IF backward THEN page.has_next ELSE page.has_prev
    IN  /\ page.next_cursor # <<>> <=> more
        /\ page.prev_cursor # <<>> <=> came /\ page.data # <<>>
        /\ \A i \in DOMAIN page.data :
             /\ page.next_cursor # <<>> => ~ReadBefore(page.next_cursor[1], Key[page.data[i]])
             /\ page.prev_cursor # <<>> => ~ReadBefore(Key[page.data[i]], page.prev_cursor[1])

\* next_cursor leads to the next page, and prev_cursor to the previous one: no
\* row of this page comes after the one or before the other.
TokensLeadOn ==
    \A i \in DOMAIN page.data :
        /\ page.next_cursor # <<>> => ~Precedes(page.next_cursor[1], Key[page.data[i]])
        /\ page.prev_cursor # <<>> => ~Precedes(Key[page.data[i]], page.prev_cursor[1])

\* No walk receives a row twice, whatever is written between its pages, even
\* when a row is deleted and inserted again and even when keys repeat.
NoDuplicates == Forward => ToSet(page.data) \cap before = {}

\* A row that was in the table all along and that does not come after the last
\* row received has been received; and the walk ends only when none is left.
NoSkips ==
    Forward =>
        \A r \in stable \ (before \cup ToSet(page.data)) :
            page # NoPage =>
                /\ page.has_next
                /\ \A i \in DOMAIN page.data : Precedes(Key[page.data[i]], Key[r])

\* prev_cursor undoes next_cursor: with no write in between, the page before
\* the second page is the first page again.
BackReturns ==
    /\ asked.req.via = "prev" /\ quiet
    /\ trail # NoPage /\ trail.per_page = page.per_page
    => page.data = trail.data

\* The whole promise of a walk: rows in order, none twice, none that stays in
\* the table left out.
Promise == INSTANCE KeysetWalk WITH
    on        <- Forward,
    delivered <- IF Forward THEN before \cup ToSet(page.data) ELSE {},
    stable    <- stable,
    done      <- Forward /\ page # NoPage /\ ~page.has_next

KeepsPromise == Promise!Spec

\* A walk comes to its last page, although rows are inserted for ever.
WalkEnds == Forward ~> (Forward /\ pc = "idle" /\ page # NoPage /\ ~page.has_next)
=============================================================================
