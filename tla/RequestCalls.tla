----------------------------- MODULE RequestCalls -----------------------------
(***************************************************************************)
(* What the fluent interface of sqlx-data-params promises: every call adds *)
(* to one flat request.  There are no builders within builders here, and   *)
(* nothing to hand back: a condition or a sort column asked for stays in   *)
(* its place, .not() and .nulls_..() change the last one only, a page      *)
(* brings its own limit and offset, and a cursor alone a limit.            *)
(* ParamsBuilding implements it.                                           *)
(***************************************************************************)
EXTENDS Integers, Sequences

CONSTANTS
    Condition,  \* conditions as they are first asked for
    Column,     \* sort columns as they are first asked for
    Lookup,     \* searches with something to look for
    Numbered,   \* paginations by page number
    Keyed,      \* paginations by cursor
    KeyedLimit, \* how many rows a cursor takes that is the whole request
    U32,        \* arguments of limit() and offset()
    PageLimit(_), PageOffset(_)     \* what a page says of the rows it takes

VARIABLES
    filters,    \* the conditions, all of which must hold
    sorts,      \* the sort columns, the first one first
    search,     \* <<>> or <<the search>>
    paging      \* [pagination, limit, offset], each <<>> or of length one

vars == <<filters, sorts, search, paging>>

Init ==
    /\ filters = <<>>
    /\ sorts = <<>>
    /\ search = <<>>
    /\ paging = [pagination |-> <<>>, limit |-> <<>>, offset |-> <<>>]

AddFilter ==
    /\ \E f \in Condition : filters' = Append(filters, f)
    /\ UNCHANGED <<sorts, search, paging>>

NegateLast ==
    /\ filters # <<>>
    /\ filters' = [filters EXCEPT ![Len(filters)].not = TRUE]
    /\ UNCHANGED <<sorts, search, paging>>

AddSort ==
    /\ \E s \in Column : sorts' = Append(sorts, s)
    /\ UNCHANGED <<filters, search, paging>>

NullsOfLast ==
    /\ sorts # <<>>
    /\ \E n \in {"First", "Last", "Default"} :
          sorts' = [sorts EXCEPT ![Len(sorts)].nulls = n]
    /\ UNCHANGED <<filters, search, paging>>

LookFor ==
    /\ \E s \in Lookup : search' = <<s>>
    /\ UNCHANGED <<filters, sorts, paging>>

TakePage ==
    /\ \E p \in Numbered :
          paging' = [pagination |-> <<p>>, limit |-> <<PageLimit(p)>>, offset |-> <<PageOffset(p)>>]
    /\ UNCHANGED <<filters, sorts, search>>

TakeCursor ==
    /\ \E c \in Keyed : paging' = [paging EXCEPT !.pagination = <<c>>]
    /\ UNCHANGED <<filters, sorts, search>>

\* A cursor that is the whole request says how many rows it takes.
OnlyCursor ==
    /\ <<filters, sorts, search>> = <<<<>>, <<>>, <<>>>>
    /\ paging = [pagination |-> <<>>, limit |-> <<>>, offset |-> <<>>]
    /\ \E c \in Keyed :
          paging' = [paging EXCEPT !.pagination = <<c>>, !.limit = <<KeyedLimit>>]
    /\ UNCHANGED <<filters, sorts, search>>

Resize ==
    /\ \E n \in U32 : \/ paging' = [paging EXCEPT !.limit = <<n>>]
                      \/ paging' = [paging EXCEPT !.offset = <<n>>]
    /\ UNCHANGED <<filters, sorts, search>>

Next ==
    \/ AddFilter \/ NegateLast \/ AddSort \/ NullsOfLast
    \/ LookFor \/ TakePage \/ TakeCursor \/ OnlyCursor \/ Resize

Spec == Init /\ [][Next]_vars
=============================================================================
