---------------------------- MODULE ParamsBuilding ----------------------------
(***************************************************************************)
(* ParamsBuilder and its sub-builders (sqlx-data-params/src/builder.rs),   *)
(* and validate_fields (sqlx-data-parser/src/dynamic/validation.rs), which *)
(* the generated method calls on what they built.                          *)
(*                                                                         *)
(* A sub-builder owns its parent until done() gives it back: at most one   *)
(* is open.  A sub-builder can also be made without a parent, and then     *)
(* becomes a request by itself.  The typestates of the source are guards:  *)
(* what does not compile is no step.                                       *)
(***************************************************************************)
EXTENDS Integers, Sequences, SequencesExt

CONSTANTS
    Cond,               \* a field, an operator and a value
    Field,              \* columns to sort by
    Lists,              \* lists given to with_allowed_columns
    Queries,            \* what to search for; "" is the empty text
    Pages, Sizes,       \* arguments of page()
    Numbers,            \* arguments of limit() and offset()
    DefaultSize,        \* page_size of SerialParams::default, SliceParams::default: 20
    CursorSize,         \* per_page of CursorParams::into_params: 20
    MaxU32,
    MaxCursorFields,    \* MAX_CURSOR_FIELDS
    MaxCalls            \* bound: calls other than done() and build()

ASSUME DefaultSizeAssumption == DefaultSize \in 1..MaxU32 /\ CursorSize \in 0..MaxU32
ASSUME NumbersAssumption == MaxU32 \in Nat /\ Pages \cup Sizes \cup Numbers \subseteq 0..MaxU32
ASSUME BoundsAssumption == MaxCursorFields \in Nat /\ MaxCalls \in Nat

VARIABLES
    params,     \* the Params being built
    open,       \* the sub-builder that owns it, <<>> if none does
    pc,         \* "building", "built", "accepted" or "rejected"
    calls,      \* how many calls so far
    attached,   \* sort builders handed back: their list and unsafe columns (history)
    resized     \* did limit() or offset() follow the last page? (history)

vars == <<params, open, pc, calls, attached, resized>>

\* Option<T>
None == <<>>
Some(x) == <<x>>

-----------------------------------------------------------------------------
(* The parts of a request.                                                 *)

Params(filters, search, sort_by, pagination, limit, offset) ==
    [filters |-> filters, search |-> search, sort_by |-> sort_by,
     pagination |-> pagination, limit |-> limit, offset |-> offset]

NoParams == Params(None, None, None, None, None, None)

Filter(c) == [cond |-> c, not |-> FALSE]

Sort(field, direction, unsafe) ==
    [field |-> field, direction |-> direction, nulls |-> "Default", unsafe |-> unsafe]

NoSorts == [sorts |-> <<>>, unsafe_fields |-> <<>>, allowed_columns |-> None]

\* Mutant: nothing keeps a page from being empty.
AsGiven(n) == n

AtLeastOne(n) == IF n < 1 THEN 1 ELSE n

Page(kind, page, size, counted) ==
    [kind |-> kind, page |-> AtLeastOne(page), size |-> AtLeastOne(size), counted |-> counted]

PageLimit(p) == p.size

\* saturating_sub and saturating_mul
PageOffset(p) == IF (p.page - 1) * p.size > MaxU32 THEN MaxU32 ELSE (p.page - 1) * p.size

\* The values of a cursor are only counted.
Cursor(values, direction, error) ==
    [kind |-> "Cursor", values |-> values, direction |-> direction, error |-> error]

-----------------------------------------------------------------------------
(* SortingParams                                                           *)

push(sp, s) ==
    [sp EXCEPT !.sorts = Append(@, s),
               !.unsafe_fields = IF s.unsafe THEN Append(@, s.field) ELSE @]

\* asc and desc do not look at what they push.
sort_by(sp, s) == [sp EXCEPT !.sorts = Append(@, s)]

apply_nulls(sp, n) ==
    IF sp.sorts = <<>> THEN sp ELSE [sp EXCEPT !.sorts[Len(sp.sorts)].nulls = n]

\* Mutant: the last list wins.
ExtendWithLastList(sp, other) ==
    [sorts           |-> sp.sorts \o other.sorts,
     unsafe_fields   |-> sp.unsafe_fields \o other.unsafe_fields,
     allowed_columns |-> IF other.allowed_columns = None THEN sp.allowed_columns
                                                         ELSE other.allowed_columns]

extend_with(sp, other) ==
    [sorts           |-> sp.sorts \o other.sorts,
     unsafe_fields   |-> sp.unsafe_fields \o other.unsafe_fields,
     allowed_columns |-> IF sp.allowed_columns = None THEN other.allowed_columns
                                                      ELSE sp.allowed_columns]

SortsRefused(sp) ==
    /\ sp.unsafe_fields # <<>>
    /\ \/ sp.allowed_columns = None
       \/ \E f \in ToSet(sp.unsafe_fields) : f \notin sp.allowed_columns[1]

\* validate_fields
Refused(p) ==
    \/ p.sort_by # None /\ SortsRefused(p.sort_by[1])
    \/ p.pagination # None /\ p.pagination[1].kind = "Cursor"
         /\ p.pagination[1].values > MaxCursorFields

-----------------------------------------------------------------------------
(* The sub-builders.  b.at is the typestate.                               *)

SortBuilder(parent)   == [kind |-> "Sort", parent |-> parent, at |-> "Safe", sorts |-> NoSorts]
FilterBuilder(parent) == [kind |-> "Filter", parent |-> parent, filters |-> <<>>]
SearchBuilder(parent) == [kind |-> "Search", parent |-> parent,
    search |-> [query |-> "", fields |-> {}, exact |-> FALSE, case_sensitive |-> FALSE]]
SerialBuilder(parent) == [kind |-> "Page", parent |-> parent, page |-> Page("Serial", 1, DefaultSize, TRUE)]
SliceBuilder(parent)  == [kind |-> "Page", parent |-> parent, page |-> Page("Slice", 1, DefaultSize, FALSE)]
CursorBuilder(parent) == [kind |-> "Cursor", parent |-> parent, at |-> "Initial",
                          cursor |-> Cursor(0, "None", FALSE)]

Builders(parent) ==
    {SortBuilder(parent), FilterBuilder(parent), SearchBuilder(parent),
     SerialBuilder(parent), SliceBuilder(parent), CursorBuilder(parent)}

\* SortingParams used without a builder: push takes unsafe columns without a list.
BareSorts == [kind |-> "Sort", parent |-> FALSE, at |-> "Bare", sorts |-> NoSorts]

\* CursorParams used without a builder: default, and_field, from_values, with_error.
BareCursor == [kind |-> "Cursor", parent |-> FALSE, at |-> "Bare", cursor |-> Cursor(0, "None", FALSE)]

Init ==
    /\ params = NoParams
    /\ open \in {<<>>} \cup {<<b>> : b \in Builders(FALSE) \cup {BareSorts, BareCursor}}
    /\ pc = "building"
    /\ calls = 0
    /\ attached = <<>>
    /\ resized = FALSE

Calling == pc = "building" /\ calls < MaxCalls /\ calls' = calls + 1

Opened(kind) == open # <<>> /\ open[1].kind = kind

\* sort(), filter(), search(), serial(), slice(), cursor()
Open ==
    /\ Calling /\ open = <<>>
    /\ \E b \in Builders(TRUE) : open' = <<b>>
    /\ UNCHANGED <<params, pc, attached, resized>>

\* A call of the open sub-builder, which becomes b.
Set(b) ==
    /\ Calling
    /\ open' = <<b>>
    /\ UNCHANGED <<params, pc, attached, resized>>

\* limit() and offset() of the ParamsBuilder
LimitOffset ==
    /\ Calling /\ open = <<>>
    /\ \E n \in Numbers : \/ params' = [params EXCEPT !.limit = Some(n)]
                          \/ params' = [params EXCEPT !.offset = Some(n)]
    /\ resized' = TRUE
    /\ UNCHANGED <<open, pc, attached>>

-----------------------------------------------------------------------------
(* SortBuilder                                                             *)

\* asc, desc
SortSafe ==
    /\ Opened("Sort") /\ open[1].at \in {"Safe", "Bare"}
    /\ \E f \in Field, d \in {"Asc", "Desc"} :
          Set([open[1] EXCEPT !.sorts = sort_by(@, Sort(f, d, FALSE))])

WithAllowedColumns ==
    /\ Opened("Sort") /\ open[1].at \in {"Safe", "Bare"}
    /\ \E list \in Lists :
          Set([open[1] EXCEPT !.sorts.allowed_columns = Some(list),
                              !.at = IF @ = "Safe" THEN "Unsafe" ELSE @])

\* asc_unsafe, desc_unsafe; the push of SortingParams
SortUnsafe ==
    /\ Opened("Sort") /\ open[1].at \in {"Unsafe", "Bare"}
    /\ \E f \in Field, d \in {"Asc", "Desc"} :
          Set([open[1] EXCEPT !.sorts = push(@, Sort(f, d, TRUE))])

\* nulls_first, nulls_last, nulls_default
Nulls ==
    /\ Opened("Sort")
    /\ \E n \in {"First", "Last", "Default"} :
          Set([open[1] EXCEPT !.sorts = apply_nulls(@, n)])

\* done
WithSorts(p, sp) ==
    IF sp.sorts = <<>> THEN p
    ELSE [p EXCEPT !.sort_by = IF @ = None THEN Some(sp) ELSE Some(extend_with(@[1], sp))]

-----------------------------------------------------------------------------
(* FilterBuilder                                                           *)

\* eq .. contains: push
FilterCall ==
    /\ Opened("Filter")
    /\ \E c \in Cond : Set([open[1] EXCEPT !.filters = Append(@, Filter(c))])

\* not: the last filter of this builder
FilterNot ==
    /\ Opened("Filter")
    /\ LET n == Len(open[1].filters)
       IN  Set(IF n = 0 THEN open[1] ELSE [open[1] EXCEPT !.filters[n].not = TRUE])

\* Mutant: a second filter() replaces the first.
WithFiltersReplaced(p, fs) == [p EXCEPT !.filters = Some(fs)]

\* done
WithFilters(p, fs) ==
    [p EXCEPT !.filters = IF @ = None THEN Some(fs) ELSE Some(@[1] \o fs)]

-----------------------------------------------------------------------------
(* SearchBuilder                                                           *)

\* query, fields, and search, which is both
SearchFor ==
    /\ Opened("Search")
    /\ \E q \in Queries, fs \in SUBSET Field :
         \/ Set([open[1] EXCEPT !.search.query = q])
         \/ Set([open[1] EXCEPT !.search.fields = fs])
         \/ Set([open[1] EXCEPT !.search.query = q, !.search.fields = fs])

\* exact, case_sensitive
SearchHow ==
    /\ Opened("Search")
    /\ \E yes \in BOOLEAN : \/ Set([open[1] EXCEPT !.search.exact = yes])
                            \/ Set([open[1] EXCEPT !.search.case_sensitive = yes])

\* done
WithSearch(p, s) == IF s.query = "" THEN p ELSE [p EXCEPT !.search = Some(s)]

-----------------------------------------------------------------------------
(* SerialBuilder and SliceBuilder                                          *)

\* page; SliceParams::new forgets enable_total_count
SetPage ==
    /\ Opened("Page")
    /\ \E n \in Pages, size \in Sizes :
          Set([open[1] EXCEPT !.page = Page(@.kind, n, size, @.kind = "Serial")])

EnableTotalCount ==
    /\ Opened("Page") /\ open[1].page.kind = "Slice"
    /\ Set([open[1] EXCEPT !.page.counted = TRUE])

\* Mutant: the offset of an earlier page stays.
WithPageOnly(p, page) ==
    [p EXCEPT !.pagination = Some(page), !.limit = Some(PageLimit(page)),
              !.offset = IF @ = None THEN Some(PageOffset(page)) ELSE @]

\* done
WithPage(p, page) ==
    [p EXCEPT !.pagination = Some(page), !.limit = Some(PageLimit(page)),
              !.offset = Some(PageOffset(page))]

-----------------------------------------------------------------------------
(* CursorBuilder                                                           *)

FirstPage ==
    /\ Opened("Cursor") /\ open[1].at = "Initial"
    /\ Set([open[1] EXCEPT !.at = "FirstPage", !.cursor = Cursor(0, "None", FALSE)])

\* The cursor is made anew; a builder then has its direction.
Sought(c) ==
    Set([open[1] EXCEPT !.at = IF @ = "Initial" THEN "Seek" ELSE @, !.cursor = c])

\* after, before; CursorParams::new
Seek ==
    /\ Opened("Cursor") /\ open[1].at \in {"Initial", "Bare"}
    /\ \E d \in {"After", "Before"} : Sought(Cursor(1, d, FALSE))

\* next_cursor, prev_cursor: the token decodes into any number of values, or not.
\* CursorParams: from_values, with_error
Decoded ==
    /\ Opened("Cursor") /\ open[1].at \in {"Initial", "Bare"}
    /\ \E d \in {"After", "Before"} :
         \/ \E n \in {0, 1, MaxCursorFields, MaxCursorFields + 1} : Sought(Cursor(n, d, FALSE))
         \/ Sought(Cursor(0, d, TRUE))

AndField ==
    /\ Opened("Cursor") /\ open[1].at \in {"Seek", "Bare"}
    /\ Set([open[1] EXCEPT !.cursor.values = @ + 1])

\* done; the initial state has none
WithCursor(p, c) == [p EXCEPT !.pagination = Some(c)]

-----------------------------------------------------------------------------
(* Handing back, building and validating.                                  *)

\* What done() makes of the parent's params.
HandedBack(b, p) ==
    CASE b.kind = "Sort"   -> WithSorts(p, b.sorts)
      [] b.kind = "Filter" -> WithFilters(p, b.filters)
      [] b.kind = "Search" -> WithSearch(p, b.search)
      [] b.kind = "Page"   -> WithPage(p, b.page)
      [] b.kind = "Cursor" -> WithCursor(p, b.cursor)

\* into_params of CursorParams, which brings a limit; that of a CursorBuilder brings none.
CursorAlone(c) == [NoParams EXCEPT !.pagination = Some(c), !.limit = Some(CursorSize)]

\* into_params of a sub-builder without a parent
Alone(b) ==
    CASE b.kind = "Filter" /\ b.filters = <<>> -> NoParams
      [] b.kind = "Cursor" /\ b.at = "Initial" -> NoParams
      [] b.kind = "Cursor" /\ b.at = "Bare"    -> CursorAlone(b.cursor)
      [] b.kind = "Sort" /\ b.at = "Bare"      -> [NoParams EXCEPT !.sort_by = Some(b.sorts)]
      [] OTHER                                 -> HandedBack(b, NoParams)

\* into_params of what build() of a sub-builder without a parent returns
Built(b) ==
    CASE b.kind = "Filter" -> [NoParams EXCEPT !.filters = Some(b.filters)]
      [] b.kind = "Search" -> [NoParams EXCEPT !.search = Some(b.search)]
      [] b.kind = "Cursor" -> CursorAlone(b.cursor)
      [] OTHER             -> Alone(b)

History(b) ==
    /\ attached' = IF b.kind = "Sort" /\ b.sorts.sorts # <<>>
                   THEN Append(attached, [list |-> b.sorts.allowed_columns,
                          columns |-> {s.field : s \in {t \in ToSet(b.sorts.sorts) : t.unsafe}}])
                   ELSE attached
    /\ resized' = (resized /\ b.kind # "Page")

Done ==
    /\ pc = "building" /\ open # <<>> /\ open[1].parent
    /\ open[1].kind = "Cursor" => open[1].at # "Initial"
    /\ params' = HandedBack(open[1], params)
    /\ open' = <<>>
    /\ History(open[1])
    /\ UNCHANGED <<pc, calls>>

\* A sub-builder without a parent is given to the method, or built first.
Become ==
    /\ pc = "building" /\ open # <<>> /\ ~open[1].parent
    /\ params' \in {Alone(open[1])} \cup
                   (IF open[1].kind = "Cursor" /\ open[1].at \in {"FirstPage", "Seek"}
                    THEN {} ELSE {Built(open[1])})
    /\ open' = <<>>
    /\ pc' = "built"
    /\ History(open[1])
    /\ UNCHANGED calls

Build ==
    /\ pc = "building" /\ open = <<>>
    /\ pc' = "built"
    /\ UNCHANGED <<params, open, calls, attached, resized>>

Validate ==
    /\ pc = "built"
    /\ pc' = IF Refused(params) THEN "rejected" ELSE "accepted"
    /\ UNCHANGED <<params, open, calls, attached, resized>>

Next ==
    \/ Open \/ LimitOffset
    \/ SortSafe \/ WithAllowedColumns \/ SortUnsafe \/ Nulls
    \/ FilterCall \/ FilterNot
    \/ SearchFor \/ SearchHow
    \/ SetPage \/ EnableTotalCount
    \/ FirstPage \/ Seek \/ Decoded \/ AndField
    \/ Done \/ Become \/ Build \/ Validate

Spec == Init /\ [][Next]_vars

-----------------------------------------------------------------------------
(* Properties.                                                             *)

U32 == 0..MaxU32

FilterSet == [cond : Cond, not : BOOLEAN]
SortSet == [field : Field, direction : {"Asc", "Desc"}, nulls : {"First", "Last", "Default"},
            unsafe : BOOLEAN]
SortsSet == [sorts : Seq(SortSet), unsafe_fields : Seq(Field),
             allowed_columns : {None} \cup {Some(list) : list \in Lists}]
SearchSet == [query : Queries \cup {""}, fields : SUBSET Field, exact : BOOLEAN,
              case_sensitive : BOOLEAN]
PageSet == [kind : {"Serial", "Slice"}, page : U32 \ {0}, size : U32 \ {0}, counted : BOOLEAN]
CursorSet == [kind : {"Cursor"}, values : Nat, direction : {"After", "Before", "None"},
              error : BOOLEAN]

Opt(S) == {None} \cup {Some(x) : x \in S}

\* Pages and page sizes are at least 1, an unsafe column is a column asked for,
\* and only a finished request is judged.
TypeOK ==
    /\ params.filters = None \/ params.filters[1] \in Seq(FilterSet)
    /\ params.search \in Opt(SearchSet)
    /\ params.sort_by = None \/ params.sort_by[1] \in SortsSet
    /\ params.pagination = None \/ params.pagination[1] \in PageSet \cup CursorSet
    /\ params.limit \in Opt(U32) /\ params.offset \in Opt(U32)
    /\ pc \in {"building", "built", "accepted", "rejected"}
    /\ pc # "building" => open = <<>>
    /\ calls \in 0..MaxCalls

Flat(option) == IF option = None THEN <<>> ELSE option[1]

FlatFilters ==
    Flat(params.filters) \o (IF Opened("Filter") THEN open[1].filters ELSE <<>>)

FlatSorts ==
    (IF params.sort_by = None THEN <<>> ELSE params.sort_by[1].sorts)
      \o (IF Opened("Sort") THEN open[1].sorts.sorts ELSE <<>>)

R == INSTANCE RequestCalls WITH
        Condition <- {Filter(c) : c \in Cond},
        Column  <- {Sort(f, d, u) : f \in Field, d \in {"Asc", "Desc"}, u \in BOOLEAN},
        Lookup  <- {s \in SearchSet : s.query # ""},
        Numbered <- PageSet,
        Keyed   <- [kind : {"Cursor"}, values : 0..(MaxCursorFields + MaxCalls),
                    direction : {"After", "Before", "None"}, error : BOOLEAN],
        KeyedLimit <- CursorSize,
        filters <- FlatFilters,
        sorts   <- FlatSorts,
        search  <- IF params.search = None \/ params.search[1].query = "" THEN None
                   ELSE params.search,
        paging  <- [pagination |-> params.pagination, limit |-> params.limit,
                    offset |-> params.offset]

\* However the sub-builders are opened, mixed and handed back, what is built is
\* what was asked for: no condition or sort column is lost, doubled or moved by
\* a done(), not() and nulls_..() reach the last one only, an empty search
\* displaces no earlier one, a page brings its limit and offset along, a
\* CursorBuilder leaves those of an earlier page where they are, and CursorParams
\* that are the whole request bring the limit of their own.
ImplementsRequest == R!Spec

\* The list that is in force: the first that came with a sort column.
ListInForce ==
    LET given == {i \in DOMAIN attached : attached[i].list # None}
    IN  IF given = {} THEN {}
        ELSE attached[CHOOSE i \in given : \A j \in given : i <= j].list[1]

UnsafeColumns == UNION {a.columns : a \in ToSet(attached)}

\* The method runs a request exactly when every column given as a run-time text,
\* by whichever sort builder, is in the list in force and the cursor is not too
\* long.  A later builder's own list counts for nothing.
JudgedByFirstList ==
    pc \in {"accepted", "rejected"} =>
        (pc = "accepted" <=>
            /\ UnsafeColumns \subseteq ListInForce
            /\ \A c \in ToSet(params.pagination) :
                  c.kind = "Cursor" => c.values <= MaxCursorFields)

\* The page a response will speak of is the page the statement will fetch, as
\* long as limit() and offset() do not come after serial() or slice().
SizesAgree ==
    \A p \in ToSet(params.pagination) :
        p.kind # "Cursor" /\ ~resized =>
            params.limit = Some(PageLimit(p)) /\ params.offset = Some(PageOffset(p))
=============================================================================
