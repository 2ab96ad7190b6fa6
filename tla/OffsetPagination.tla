--------------------------- MODULE OffsetPagination ---------------------------
(***************************************************************************)
(* Serial and Slice pagination: a page is asked for by its number, counted *)
(* from 1, and a client reads on by asking for the next number.            *)
(*                                                                         *)
(*   SerialParams, SliceParams   sqlx-data-params/src/serial.rs, slice.rs  *)
(*   Serial::new, Slice::new     sqlx-data-params/src/response.rs          *)
(*   the generated method        sqlx-data-macros/src/code_generator.rs    *)
(*                                                                         *)
(* A call awaits the database twice, once for the rows and once for the    *)
(* COUNT query, and is in no transaction: other writers may come before,   *)
(* between and after.  The method fixes the kind of page it returns, its   *)
(* caller the pagination in the Params; nothing makes them agree.          *)
(***************************************************************************)
EXTENDS Integers, SequencesExt

CONSTANTS
    Row,            \* rows the table may hold
    Key,            \* Key[r]: what ORDER BY sorts row r by, ascending
    Methods,        \* kinds of page methods return: "Serial", "Slice"
    Paginations,    \* paginations callers use: "Serial", "Slice", "None"
    Sizes,          \* page sizes callers ask for
    PageNumbers,    \* page numbers they jump to
    DefaultLimit,   \* DEFAULT_LIMIT of Serial and Slice
    MaxU32          \* the greatest u32

ASSUME RowAssumption == IsFiniteSet(Row)
\* No ties: the order of a statement is total.
ASSUME KeyAssumption == Key \in [Row -> Int] /\ IsInjective(Key)
ASSUME MethodsAssumption == Methods \subseteq {"Serial", "Slice"}
ASSUME PaginationsAssumption == Paginations \subseteq {"Serial", "Slice", "None"}
ASSUME NumbersAssumption ==
    /\ MaxU32 \in Nat /\ DefaultLimit \in 1..MaxU32
    /\ Sizes \subseteq 0..MaxU32 /\ PageNumbers \subseteq 0..MaxU32

VARIABLES
    table,      \* the rows the database holds
    pc,         \* where the call stands
    req,        \* the Params of the call
    rows,       \* what fetch_all returned
    total,      \* what the COUNT query returned
    page,       \* the last page the client received
    saw,        \* the tables the data query and the COUNT query read (history)
    asked,      \* what the page answers, and what saw was then (history)
    walk        \* the pages read one after the other since page 1 (history)

vars == <<table, pc, req, rows, total, saw, page, asked, walk>>

None == -1      \* of an Option<u32> or Option<i64>

U32 == 0..MaxU32

Request == [method : Methods, pagination : Paginations, page : U32, size : U32,
            counted : BOOLEAN, limit : U32 \cup {None}, offset : U32 \cup {None},
            walking : BOOLEAN]

\* No page of a walk yet; then what it received, what has stayed in the table
\* since it began, and what others did meanwhile.
NoWalk == [on |-> FALSE, got |-> {}, repeated |-> FALSE, stable |-> {},
           inserted |-> FALSE, deleted |-> FALSE]

Min2(m, n) == IF m < n THEN m ELSE n

-----------------------------------------------------------------------------
(* SerialParams and SliceParams                                            *)

AtLeastOne(n) == IF n < 1 THEN 1 ELSE n

\* Mutants: the product outgrows a u32; it wraps.
OffsetWide(n, size) == (n - 1) * size
OffsetWrapped(n, size) == ((n - 1) * size) % (MaxU32 + 1)

\* offset: saturating_sub, saturating_mul
Offset(n, size) == Min2((n - 1) * size, MaxU32)

\* new, then into_params, SerialBuilder::done or SliceBuilder::done
Paged(method, pagination, n, size, counted, walking) ==
    [method |-> method, pagination |-> pagination, page |-> AtLeastOne(n),
     size |-> AtLeastOne(size), counted |-> counted, limit |-> AtLeastOne(size),
     offset |-> Offset(AtLeastOne(n), AtLeastOne(size)), walking |-> walking]

\* ParamsBuilder::limit and offset alone
Plain(method, limit, offset) ==
    [method |-> method, pagination |-> "None", page |-> 0, size |-> 0, counted |-> TRUE,
     limit |-> limit, offset |-> offset, walking |-> FALSE]

-----------------------------------------------------------------------------
(* The statements                                                          *)

\* limit.0 + limit_plus_one() in u32, which a release build wraps
FetchLimit(q) ==
    IF q.pagination # "Slice" THEN q.limit
    ELSE IF q.limit = MaxU32 THEN 0 ELSE q.limit + 1

From(q) == IF q.offset = None THEN 0 ELSE q.offset

\* The rows of t at ranks from..upto, counted from 1, by key.
Ranked(t, from, upto) ==
    {r \in t : Cardinality({s \in t : Key[s] <= Key[r]}) \in from..upto}

\* The answer to ORDER BY .. LIMIT .. OFFSET
Answer(q, t) ==
    LET upto == IF q.limit = None THEN Cardinality(t) ELSE From(q) + FetchLimit(q)
        cut  == Ranked(t, From(q) + 1, upto)
    IN  [i \in 1..Cardinality(cut) |-> CHOOSE r \in cut : Ranked(cut, i, i) = {r}]

-----------------------------------------------------------------------------
(* The generated method.                                                   *)

\* is_disable_total_count is asked for a Slice only.
Counts(q) == q.method = "Serial" \/ q.pagination # "Slice" \/ q.counted

PageSize(q) == AtLeastOne(IF q.limit = None THEN DefaultLimit ELSE q.limit)

\* Mutant: a last page that is not full is not counted.
TotalPagesFloor(n, size) == n \div size

\* calculate_total_pages: more pages than a u32 counts are said to be one
TotalPages(n, size) ==
    LET pages == (n + size - 1) \div size
    IN  IF pages <= MaxU32 THEN pages ELSE 1

\* Serial::new: without serial pagination everything is said to be on page 1.  The
\* flags are a Slice's.
NewSerial(q, fetched, n) ==
    LET serial == q.pagination = "Serial"
    IN  [data |-> fetched, page |-> IF serial THEN q.page ELSE 1,
         size |-> IF serial THEN q.size ELSE PageSize(q),
         total |-> n, total_pages |-> IF serial THEN TotalPages(n, q.size) ELSE 1,
         has_next |-> FALSE, has_previous |-> FALSE]

\* Mutant: a full page is taken for a sign of more.
MoreWhenFull(fetched, size) == Len(fetched) >= size

\* trim_to_page: what it returns
MoreThanPage(fetched, size) == Len(fetched) > size

\* Mutant: the look-ahead row stays on the page.
TrimmedNot(fetched, size) == fetched

\* trim_to_page: what it leaves
Trimmed(fetched, size) == SubSeq(fetched, 1, Min2(size, Len(fetched)))

\* page_offset: an i64 cast to u32
PageOfOffset(offset, size) ==
    IF offset \div size = MaxU32 THEN 0 ELSE offset \div size + 1

\* Slice::new: the page number of a plain limit and offset is computed.
NewSlice(q, fetched, n) ==
    LET size  == PageSize(q)
        slice == q.pagination = "Slice"
        number == IF slice THEN q.page ELSE PageOfOffset(From(q), size)
    IN  [data |-> Trimmed(fetched, size),
         page |-> number,
         size |-> size,
         total |-> IF slice /\ ~q.counted THEN None ELSE n,
         total_pages |-> 0,
         has_next |-> MoreThanPage(fetched, size), has_previous |-> number > 1]

NewPage(q, fetched, n) ==
    IF q.method = "Serial" THEN NewSerial(q, fetched, n) ELSE NewSlice(q, fetched, n)

\* What tells a client to read on: has_next of a Slice, page < total_pages of a Serial.
ReadsOn(p) == p.has_next \/ p.page < p.total_pages

-----------------------------------------------------------------------------
NoRequest == Plain(CHOOSE m \in Methods : TRUE, None, None)

NoPage == [data |-> <<>>, page |-> 0, size |-> 0, total |-> 0, total_pages |-> 0,
           has_next |-> FALSE, has_previous |-> FALSE]

NotSeen == [data |-> {}, count |-> {}]

NoAnswer == [req |-> NoRequest, data |-> {}, count |-> {}]

Init ==
    /\ table \in SUBSET Row
    /\ pc = "idle"
    /\ req = NoRequest
    /\ rows = <<>>
    /\ total = 0
    /\ page = NoPage
    /\ saw = NotSeen
    /\ asked = NoAnswer
    /\ walk = NoWalk

\* disable_total_count is a field of SliceParams.
Choice(pagination) == IF pagination = "Slice" THEN BOOLEAN ELSE {TRUE}

\* The client calls the method.
Call(q) ==
    /\ pc = "idle"
    /\ req' = q
    /\ pc' = "fetch"
    /\ UNCHANGED <<table, rows, total, saw>>

\* Every other call is off the walk; its client drops what it had.
Forget == page' = NoPage /\ asked' = NoAnswer

LeaveWalk == walk' = NoWalk /\ Forget

\* Page 1: a walk begins.
FirstPage ==
    /\ \E method \in Methods, size \in Sizes : \E counted \in Choice(method) :
         /\ method \in Paginations
         /\ Call(Paged(method, method, 1, size, counted, TRUE))
    /\ walk' = [NoWalk EXCEPT !.on = TRUE, !.stable = table]
    /\ Forget

\* The page after the last one received, when that one says there is more.
NextPage ==
    /\ walk.on /\ asked.req.walking /\ ReadsOn(page)
    /\ page.page < MaxU32
    /\ Call(Paged(asked.req.method, asked.req.pagination, asked.req.page + 1, asked.req.size,
                  asked.req.counted, TRUE))
    /\ UNCHANGED <<page, asked, walk>>

\* A page by its number, maybe with the pagination of another kind of method.
JumpTo ==
    /\ \E method \in Methods, pagination \in Paginations \ {"None"}, n \in PageNumbers,
          size \in Sizes : \E counted \in Choice(pagination) :
         Call(Paged(method, pagination, n, size, counted, FALSE))
    /\ LeaveWalk

\* A limit and an offset without pagination
LimitOffset ==
    /\ "None" \in Paginations
    /\ \E method \in Methods, limit \in Sizes \cup {None}, offset \in PageNumbers \cup {None} :
         Call(Plain(method, limit, offset))
    /\ LeaveWalk

\* fetch_all answers with the table of one instant.
Fetch ==
    /\ pc = "fetch"
    /\ rows' = Answer(req, table)
    /\ saw' = [data |-> table, count |-> {}]
    /\ pc' = IF Counts(req) THEN "count" ELSE "finish"
    /\ total' = 0
    /\ UNCHANGED <<table, req, page, asked, walk>>

\* Mutant: the COUNT query keeps the LIMIT of the page.
CountLimited ==
    /\ pc = "count"
    /\ total' = Len(rows)
    /\ saw' = [saw EXCEPT !.count = table]
    /\ pc' = "finish"
    /\ UNCHANGED <<table, req, rows, page, asked, walk>>

\* The COUNT query answers with the table of another.
Count ==
    /\ pc = "count"
    /\ total' = Cardinality(table)
    /\ saw' = [saw EXCEPT !.count = table]
    /\ pc' = "finish"
    /\ UNCHANGED <<table, req, rows, page, asked, walk>>

\* Either query may fail; the rows already fetched are dropped with it.
Fail ==
    /\ pc \in {"fetch", "count"}
    /\ pc' = "idle"
    /\ rows' = <<>>
    /\ total' = 0
    /\ saw' = NotSeen
    /\ req' = NoRequest
    /\ UNCHANGED <<table, page, asked, walk>>

Finish ==
    /\ pc = "finish"
    /\ page' = NewPage(req, rows, total)
    /\ asked' = [req |-> req, data |-> saw.data, count |-> saw.count]
    /\ walk' = IF req.walking
               THEN [walk EXCEPT !.got = @ \cup ToSet(page'.data),
                                 !.repeated = @ \/ ToSet(page'.data) \cap walk.got # {}]
               ELSE walk
    /\ pc' = "idle"
    /\ rows' = <<>>
    /\ total' = 0
    /\ saw' = NotSeen
    /\ req' = NoRequest
    /\ UNCHANGED table

\* Other writers
Insert ==
    /\ \E r \in Row \ table : table' = table \cup {r}
    /\ walk' = [walk EXCEPT !.inserted = walk.on]
    /\ UNCHANGED <<pc, req, rows, total, page, asked, saw>>

Delete ==
    /\ \E r \in table :
         /\ table' = table \ {r}
         /\ walk' = [walk EXCEPT !.stable = @ \ {r}, !.deleted = walk.on]
    /\ UNCHANGED <<pc, req, rows, total, page, asked, saw>>

Next ==
    \/ FirstPage \/ NextPage \/ JumpTo \/ LimitOffset
    \/ Fetch \/ Count \/ Fail \/ Finish
    \/ Insert \/ Delete

Spec == Init /\ [][Next]_vars

-----------------------------------------------------------------------------
(* Properties                                                              *)

Page == [data : Seq(Row), page : U32, size : U32, total : Nat \cup {None},
         total_pages : U32, has_next : BOOLEAN, has_previous : BOOLEAN]

\* Types.  Page numbers and sizes stay within a u32.
TypeOK ==
    /\ table \in SUBSET Row
    /\ pc \in {"idle", "fetch", "count", "finish"}
    /\ {req, asked.req} \subseteq Request \cup {NoRequest}
    /\ rows \in Seq(Row) /\ total \in Nat
    /\ page \in Page
    /\ saw.data \subseteq Row /\ saw.count \subseteq Row
    /\ asked.data \subseteq Row /\ asked.count \subseteq Row
    /\ walk \in [on : BOOLEAN, got : SUBSET Row, repeated : BOOLEAN, stable : SUBSET Row,
                 inserted : BOOLEAN, deleted : BOOLEAN]

Received == page # NoPage

\* the request is one the method's response is made for
Matching == Received /\ asked.req.pagination = asked.req.method

RowsExact ==
    Matching =>
        ToSet(page.data) = Ranked(asked.data, (asked.req.page - 1) * asked.req.size + 1,
                                            asked.req.page * asked.req.size)

HasNextExact ==
    Matching =>
        (ReadsOn(page) <=> IF asked.req.method = "Slice"
                           THEN Cardinality(asked.data) > asked.req.page * asked.req.size
                           ELSE Cardinality(asked.count) > asked.req.page * asked.req.size)

TotalsFitPage ==
    Matching /\ page.total # None /\ asked.data = asked.count =>
        Len(page.data) = Cardinality((asked.req.page - 1) * asked.req.size + 1 ..
                                     Min2(page.total, asked.req.page * asked.req.size))

\* The page that was asked for, not one next to it: the answer holds exactly
\* the rows that page n of that size has in the table the query read, also
\* when (n - 1) * size does not fit a u32; what tells the client to read on is
\* true of the table it comes from (a Slice looks one row ahead, a Serial
\* counts); and without a write between the two queries rows and total agree.
PageExact == RowsExact /\ HasNextExact /\ TotalsFitPage

\* A walk from page 1 to the page that says it is the last receives every row
\* that was there all the time, whatever others inserted meanwhile, as long
\* as nobody deleted.
NoSkipsWithoutDeletes ==
    pc = "idle" /\ walk.on /\ asked.req.walking /\ Received /\ ~ReadsOn(page) /\ ~walk.deleted =>
        walk.stable \subseteq walk.got

\* No row is received twice, whatever others deleted, as long as nobody inserted.
NoRepeatsWithoutInserts == walk.repeated => walk.inserted
=============================================================================
