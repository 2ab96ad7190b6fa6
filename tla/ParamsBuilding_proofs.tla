------------------------ MODULE ParamsBuilding_proofs ------------------------
(***************************************************************************)
(* What holds of requests however their builders are opened, called, mixed *)
(* and handed back, for any columns, lists, page sizes and numbers of      *)
(* calls: they are judged by the first list, a page and its limit agree,   *)
(* and what is built is what was asked for.                                *)
(***************************************************************************)
EXTENDS ParamsBuilding, SequenceTheorems, TLAPS

-----------------------------------------------------------------------------
(* Types                                                                   *)

UnsafeOf(sorts) == {s.field : s \in {t \in ToSet(sorts) : t.unsafe}}

SortingSet == {sp \in SortsSet : ToSet(sp.unsafe_fields) = UnsafeOf(sp.sorts)}

SortB   == [kind : {"Sort"}, parent : BOOLEAN, at : {"Safe", "Unsafe", "Bare"}, sorts : SortingSet]
FilterB == [kind : {"Filter"}, parent : BOOLEAN, filters : Seq(FilterSet)]
SearchB == [kind : {"Search"}, parent : BOOLEAN, search : SearchSet]
PageB   == [kind : {"Page"}, parent : BOOLEAN, page : PageSet]
CursorB == [kind : {"Cursor"}, parent : BOOLEAN, at : {"Initial", "FirstPage", "Seek", "Bare"},
            cursor : CursorSet]

Builder == SortB \cup FilterB \cup SearchB \cup PageB \cup CursorB

ParamsSet ==
    [filters : Opt(Seq(FilterSet)), search : Opt(SearchSet), sort_by : Opt(SortingSet),
     pagination : Opt(PageSet \cup CursorSet), limit : Opt(U32), offset : Opt(U32)]

\* A sort builder that was handed back, as it is remembered
Given == [list : Opt(Lists), columns : SUBSET Field]

BuildInv ==
    /\ params \in ParamsSet
    /\ open \in Opt(Builder)
    /\ pc \in {"building", "built", "accepted", "rejected"}
    /\ pc # "building" => open = <<>>
    /\ calls \in 0..MaxCalls
    /\ attached \in Seq(Given)
    /\ resized \in BOOLEAN
    /\ open # <<>> /\ ~open[1].parent => params = NoParams /\ attached = <<>> /\ ~resized
    /\ open # <<>> /\ open[1].kind = "Cursor" =>
         open[1].cursor.values <= MaxCursorFields + calls

\* An option is empty or holds one thing.
LEMMA Options ==
    /\ \A x : Some(x) # None /\ Some(x)[1] = x /\ Some(x) = <<x>>
    /\ \A S : None \in Opt(S)
    /\ \A S : \A x \in S : Some(x) \in Opt(S)
    /\ \A S : \A o \in Opt(S) : o # None => o[1] \in S /\ o = Some(o[1])
BY DEF Some, None, Opt

\* The limits of the numbers.
LEMMA Numerals ==
    /\ MaxU32 \in Nat /\ DefaultSize \in U32 \ {0} /\ CursorSize \in U32 /\ {0, 1} \subseteq U32
    /\ Pages \subseteq U32 /\ Sizes \subseteq U32 /\ Numbers \subseteq U32
    /\ \A n \in U32 : AtLeastOne(n) \in U32 \ {0}
BY DefaultSizeAssumption, NumbersAssumption DEF U32, AtLeastOne

\* The set of a sequence that grows.
LEMMA ToSetAppend ==
    ASSUME NEW S, NEW s \in Seq(S), NEW x \in S
    PROVE  ToSet(Append(s, x)) = ToSet(s) \cup {x}
<1>1. Append(s, x) \in Seq(S) /\ Len(Append(s, x)) = Len(s) + 1
      /\ (\A i \in 1..Len(s) : Append(s, x)[i] = s[i]) /\ Append(s, x)[Len(s) + 1] = x
  OBVIOUS
<1>2. DOMAIN s = 1..Len(s) /\ DOMAIN Append(s, x) = 1..(Len(s) + 1) /\ Len(s) \in Nat
  BY <1>1
<1>3. 1..(Len(s) + 1) = 1..Len(s) \cup {Len(s) + 1}
  BY <1>2
<1> QED
  BY <1>1, <1>2, <1>3 DEF ToSet

\* The set of two sequences, one after the other.
LEMMA ToSetConcat ==
    ASSUME NEW S, NEW s \in Seq(S), NEW t \in Seq(S)
    PROVE  ToSet(s \o t) = ToSet(s) \cup ToSet(t)
<1>1. s \o t \in Seq(S) /\ Len(s \o t) = Len(s) + Len(t) /\ Len(s) \in Nat /\ Len(t) \in Nat
      /\ \A i \in 1..(Len(s) + Len(t)) : (s \o t)[i] = IF i <= Len(s) THEN s[i] ELSE t[i - Len(s)]
  BY ConcatProperties
<1>2. DOMAIN s = 1..Len(s) /\ DOMAIN t = 1..Len(t) /\ DOMAIN (s \o t) = 1..(Len(s) + Len(t))
  BY <1>1
<1>3. \A i \in 1..(Len(s) + Len(t)) : (s \o t)[i] \in ToSet(s) \cup ToSet(t)
  <2>1. ASSUME NEW i \in 1..(Len(s) + Len(t)) PROVE (s \o t)[i] \in ToSet(s) \cup ToSet(t)
    <3>1. CASE i <= Len(s)
      BY <1>1, <1>2, <3>1 DEF ToSet
    <3>2. CASE i > Len(s)
      <4>1. i - Len(s) \in 1..Len(t) /\ (s \o t)[i] = t[i - Len(s)]
        BY <1>1, <3>2
      <4> QED
        BY <1>2, <4>1 DEF ToSet
    <3> QED
      BY <1>1, <3>1, <3>2
  <2> QED
    BY <2>1
<1>4. \A i \in 1..Len(s) : s[i] \in ToSet(s \o t)
  <2>1. \A i \in 1..Len(s) : i \in DOMAIN (s \o t) /\ (s \o t)[i] = s[i]
    BY <1>1, <1>2
  <2> QED
    BY <2>1 DEF ToSet
<1>5. \A i \in 1..Len(t) : t[i] \in ToSet(s \o t)
  <2>1. \A i \in 1..Len(t) : Len(s) + i \in DOMAIN (s \o t) /\ (s \o t)[Len(s) + i] = t[i]
    BY <1>1, <1>2
  <2> QED
    BY <2>1 DEF ToSet
<1> QED
  BY <1>2, <1>3, <1>4, <1>5 DEF ToSet

\* The last element of a sequence can be changed.
LEMMA LastChanged ==
    ASSUME NEW S, NEW s \in Seq(S), s # <<>>, NEW x \in S
    PROVE  /\ [s EXCEPT ![Len(s)] = x] \in Seq(S)
           /\ Len([s EXCEPT ![Len(s)] = x]) = Len(s)
           /\ Len(s) \in 1..Len(s) /\ s[Len(s)] \in S
BY ExceptSeq, EmptySeq

-----------------------------------------------------------------------------
(* SortingParams.  The unsafe columns it keeps apart are those of its      *)
(* unsafe sorts.                                                           *)

\* What sorts are made of.
LEMMA SortType ==
    ASSUME NEW f \in Field, NEW d \in {"Asc", "Desc"}, NEW unsafe \in BOOLEAN
    PROVE  Sort(f, d, unsafe) \in SortSet /\ Sort(f, d, unsafe).field = f
           /\ Sort(f, d, unsafe).unsafe = unsafe
BY DEF Sort, SortSet

\* No sorts yet.
LEMMA NoSortsType == NoSorts \in SortingSet /\ NoSorts.sorts = <<>>
BY Options DEF NoSorts, SortingSet, SortsSet, UnsafeOf, ToSet, Opt, None

\* The parts of a SortingParams.
LEMMA SortingParts ==
    ASSUME NEW sp \in SortingSet
    PROVE  /\ sp.sorts \in Seq(SortSet) /\ sp.unsafe_fields \in Seq(Field)
           /\ sp.allowed_columns \in Opt(Lists)
           /\ ToSet(sp.unsafe_fields) = UnsafeOf(sp.sorts)
           /\ \A ss, us : [sp EXCEPT !.sorts = ss, !.unsafe_fields = us] =
                [sorts |-> ss, unsafe_fields |-> us, allowed_columns |-> sp.allowed_columns]
           /\ \A ss : [sp EXCEPT !.sorts = ss] =
                [sorts |-> ss, unsafe_fields |-> sp.unsafe_fields,
                 allowed_columns |-> sp.allowed_columns]
           /\ \A list : [sp EXCEPT !.allowed_columns = list] =
                [sorts |-> sp.sorts, unsafe_fields |-> sp.unsafe_fields, allowed_columns |-> list]
<1>1. sp \in [sorts : Seq(SortSet), unsafe_fields : Seq(Field), allowed_columns : Opt(Lists)]
      /\ ToSet(sp.unsafe_fields) = UnsafeOf(sp.sorts)
  BY DEF SortingSet, SortsSet, Opt
<1>2. \A ss, us : [sp EXCEPT !.sorts = ss, !.unsafe_fields = us] =
                [sorts |-> ss, unsafe_fields |-> us, allowed_columns |-> sp.allowed_columns]
  <2> TAKE ss, us
  <2> DEFINE mid == [sp EXCEPT !.sorts = ss]
  <2>1. mid = [sorts |-> ss, unsafe_fields |-> sp.unsafe_fields,
               allowed_columns |-> sp.allowed_columns]
    BY <1>1
  <2>2. [sp EXCEPT !.sorts = ss, !.unsafe_fields = us] = [mid EXCEPT !.unsafe_fields = us]
    OBVIOUS
  <2> HIDE DEF mid
  <2>3. [mid EXCEPT !.unsafe_fields = us] =
          [sorts |-> ss, unsafe_fields |-> us, allowed_columns |-> sp.allowed_columns]
    BY <2>1
  <2> QED
    BY <2>2, <2>3
<1>3. \A ss : [sp EXCEPT !.sorts = ss] =
                [sorts |-> ss, unsafe_fields |-> sp.unsafe_fields,
                 allowed_columns |-> sp.allowed_columns]
  BY <1>1
<1>4. \A list : [sp EXCEPT !.allowed_columns = list] =
                [sorts |-> sp.sorts, unsafe_fields |-> sp.unsafe_fields, allowed_columns |-> list]
  BY <1>1
<1> QED
  BY <1>1, <1>2, <1>3, <1>4

\* A SortingParams made of its parts.
LEMMA SortingMade ==
    ASSUME NEW ss \in Seq(SortSet), NEW us \in Seq(Field), NEW list \in Opt(Lists),
           ToSet(us) = UnsafeOf(ss)
    PROVE  [sorts |-> ss, unsafe_fields |-> us, allowed_columns |-> list] \in SortingSet
BY DEF SortingSet, SortsSet, Opt

\* asc, desc: what is pushed is not unsafe.
LEMMA SortSafely ==
    ASSUME NEW sp \in SortingSet, NEW x \in SortSet, ~x.unsafe
    PROVE  /\ sort_by(sp, x) \in SortingSet
           /\ sort_by(sp, x).sorts = Append(sp.sorts, x)
<1> DEFINE new == sort_by(sp, x)
<1>1. sp.sorts \in Seq(SortSet) /\ sp.unsafe_fields \in Seq(Field)
      /\ sp.allowed_columns \in Opt(Lists) /\ ToSet(sp.unsafe_fields) = UnsafeOf(sp.sorts)
  BY SortingParts
<1>2. new = [sorts |-> Append(sp.sorts, x), unsafe_fields |-> sp.unsafe_fields,
             allowed_columns |-> sp.allowed_columns]
  <2> DEFINE ss == Append(sp.sorts, x)
  <2>1. new = [sp EXCEPT !.sorts = ss]
    BY DEF sort_by
  <2> HIDE DEF ss, new
  <2>2. new = [sorts |-> ss, unsafe_fields |-> sp.unsafe_fields,
               allowed_columns |-> sp.allowed_columns]
    BY <2>1, SortingParts
  <2> QED
    BY <2>2 DEF ss
<1>3. ToSet(Append(sp.sorts, x)) = ToSet(sp.sorts) \cup {x}
  BY <1>1, ToSetAppend
<1>4. UnsafeOf(Append(sp.sorts, x)) = UnsafeOf(sp.sorts)
  BY <1>3 DEF UnsafeOf
<1>5. Append(sp.sorts, x) \in Seq(SortSet)
  BY <1>1
<1>6. new \in SortingSet
  BY <1>1, <1>2, <1>4, <1>5, SortingMade
<1> QED
  BY <1>2, <1>6

\* push: of an unsafe sort, the column is kept apart.
LEMMA SortUnsafely ==
    ASSUME NEW sp \in SortingSet, NEW x \in SortSet, x.unsafe
    PROVE  /\ push(sp, x) \in SortingSet
           /\ push(sp, x).sorts = Append(sp.sorts, x)
<1> DEFINE new == push(sp, x)
<1>1. sp.sorts \in Seq(SortSet) /\ sp.unsafe_fields \in Seq(Field)
      /\ sp.allowed_columns \in Opt(Lists) /\ ToSet(sp.unsafe_fields) = UnsafeOf(sp.sorts)
  BY SortingParts
<1>2. new = [sorts |-> Append(sp.sorts, x), unsafe_fields |-> Append(sp.unsafe_fields, x.field),
             allowed_columns |-> sp.allowed_columns]
  <2> DEFINE ss == Append(sp.sorts, x)
             us == Append(sp.unsafe_fields, x.field)
  <2>1. new = [sp EXCEPT !.sorts = ss, !.unsafe_fields = us]
    BY DEF push
  <2> HIDE DEF ss, us, new
  <2>2. new = [sorts |-> ss, unsafe_fields |-> us, allowed_columns |-> sp.allowed_columns]
    BY <2>1, SortingParts
  <2> QED
    BY <2>2 DEF ss, us
<1>3. x.field \in Field
  BY DEF SortSet
<1>4. ToSet(Append(sp.sorts, x)) = ToSet(sp.sorts) \cup {x}
      /\ ToSet(Append(sp.unsafe_fields, x.field)) = ToSet(sp.unsafe_fields) \cup {x.field}
  BY <1>1, <1>3, ToSetAppend
<1>5. UnsafeOf(Append(sp.sorts, x)) = UnsafeOf(sp.sorts) \cup {x.field}
  BY <1>4 DEF UnsafeOf
<1>6. Append(sp.sorts, x) \in Seq(SortSet) /\ Append(sp.unsafe_fields, x.field) \in Seq(Field)
  BY <1>1, <1>3
<1>7. ToSet(Append(sp.unsafe_fields, x.field)) = UnsafeOf(Append(sp.sorts, x))
  BY <1>1, <1>4, <1>5
<1>8. new \in SortingSet
  BY <1>1, <1>2, <1>6, <1>7, SortingMade
<1> QED
  BY <1>2, <1>8

\* nulls_..: the last sort keeps its column, and whether it is unsafe.
LEMMA NullsApplied ==
    ASSUME NEW sp \in SortingSet, sp.sorts # <<>>, NEW n \in {"First", "Last", "Default"}
    PROVE  /\ apply_nulls(sp, n) \in SortingSet
           /\ apply_nulls(sp, n).sorts = [sp.sorts EXCEPT ![Len(sp.sorts)].nulls = n]
<1> DEFINE ss == sp.sorts
           k == Len(ss)
           y == [ss[k] EXCEPT !.nulls = n]
           tt == [ss EXCEPT ![k] = y]
           new == apply_nulls(sp, n)
<1>1. ss \in Seq(SortSet) /\ sp.unsafe_fields \in Seq(Field)
      /\ sp.allowed_columns \in Opt(Lists) /\ ToSet(sp.unsafe_fields) = UnsafeOf(ss)
  BY SortingParts
<1>2. k \in 1..k /\ ss[k] \in SortSet
  BY <1>1, LastChanged
<1>3. y \in SortSet /\ y.field = ss[k].field /\ y.unsafe = ss[k].unsafe
  BY <1>2 DEF SortSet
<1>4. tt \in Seq(SortSet)
  <2> HIDE DEF y
  <2> QED
    BY <1>1, <1>3, LastChanged
<1>5. new = [sorts |-> tt, unsafe_fields |-> sp.unsafe_fields,
             allowed_columns |-> sp.allowed_columns]
  <2>1. new = [sp EXCEPT !.sorts = tt]
    BY DEF apply_nulls
  <2> HIDE DEF tt, new
  <2> QED
    BY <2>1, SortingParts
<1>6. DOMAIN tt = DOMAIN ss /\ k \in DOMAIN ss
      /\ \A i \in DOMAIN ss : tt[i].field = ss[i].field /\ tt[i].unsafe = ss[i].unsafe
  BY <1>1, <1>2, <1>3
<1>7. UnsafeOf(tt) = UnsafeOf(ss)
  <2>1. \A s : UnsafeOf(s) = {s[i].field : i \in {j \in DOMAIN s : s[j].unsafe}}
    BY DEF UnsafeOf, ToSet
  <2>2. {tt[i].field : i \in {j \in DOMAIN tt : tt[j].unsafe}} =
        {ss[i].field : i \in {j \in DOMAIN ss : ss[j].unsafe}}
    BY <1>6
  <2> QED
    BY <2>1, <2>2
<1>8. new \in SortingSet /\ new.sorts = tt
  <2> HIDE DEF tt, ss, new
  <2> QED
    BY <1>1, <1>4, <1>5, <1>7, SortingMade
<1> QED
  BY <1>8

\* extend_with: the list of the one extended stays in force if it has one.
LEMMA Extended ==
    ASSUME NEW sp \in SortingSet, NEW other \in SortingSet
    PROVE  /\ extend_with(sp, other) \in SortingSet
           /\ extend_with(sp, other).sorts = sp.sorts \o other.sorts
           /\ ToSet(extend_with(sp, other).unsafe_fields) =
                 UnsafeOf(sp.sorts) \cup UnsafeOf(other.sorts)
           /\ extend_with(sp, other).allowed_columns =
                 IF sp.allowed_columns = None THEN other.allowed_columns ELSE sp.allowed_columns
<1> DEFINE new == extend_with(sp, other)
<1>1. sp.sorts \in Seq(SortSet) /\ sp.unsafe_fields \in Seq(Field)
      /\ sp.allowed_columns \in Opt(Lists) /\ ToSet(sp.unsafe_fields) = UnsafeOf(sp.sorts)
      /\ other.sorts \in Seq(SortSet) /\ other.unsafe_fields \in Seq(Field)
      /\ other.allowed_columns \in Opt(Lists)
      /\ ToSet(other.unsafe_fields) = UnsafeOf(other.sorts)
  BY SortingParts
<1>2. new = [sorts |-> sp.sorts \o other.sorts,
             unsafe_fields |-> sp.unsafe_fields \o other.unsafe_fields,
             allowed_columns |-> IF sp.allowed_columns = None THEN other.allowed_columns
                                                              ELSE sp.allowed_columns]
  BY DEF extend_with
<1>3. ToSet(sp.sorts \o other.sorts) = ToSet(sp.sorts) \cup ToSet(other.sorts)
      /\ ToSet(sp.unsafe_fields \o other.unsafe_fields) =
           ToSet(sp.unsafe_fields) \cup ToSet(other.unsafe_fields)
  BY <1>1, ToSetConcat
<1>4. UnsafeOf(sp.sorts \o other.sorts) = UnsafeOf(sp.sorts) \cup UnsafeOf(other.sorts)
  BY <1>3 DEF UnsafeOf
<1>5. sp.sorts \o other.sorts \in Seq(SortSet)
      /\ sp.unsafe_fields \o other.unsafe_fields \in Seq(Field)
  BY <1>1
<1> DEFINE list == IF sp.allowed_columns = None THEN other.allowed_columns ELSE sp.allowed_columns
<1>6. list \in Opt(Lists)
  BY <1>1
<1>7. ToSet(sp.unsafe_fields \o other.unsafe_fields) = UnsafeOf(sp.sorts \o other.sorts)
  BY <1>1, <1>3, <1>4
<1>8. new \in SortingSet
  <2> HIDE DEF list
  <2> QED
    BY <1>2, <1>5, <1>6, <1>7, SortingMade DEF list
<1>9. new.sorts = sp.sorts \o other.sorts
      /\ new.unsafe_fields = sp.unsafe_fields \o other.unsafe_fields /\ new.allowed_columns = list
  <2>1. new = [sorts |-> sp.sorts \o other.sorts,
               unsafe_fields |-> sp.unsafe_fields \o other.unsafe_fields,
               allowed_columns |-> list]
    BY <1>2
  <2> HIDE DEF new, list
  <2> QED
    BY <2>1
<1> HIDE DEF new
<1>10. ToSet(new.unsafe_fields) = UnsafeOf(sp.sorts) \cup UnsafeOf(other.sorts)
  BY <1>1, <1>3, <1>9
<1> QED
  BY <1>8, <1>9, <1>10 DEF new

-----------------------------------------------------------------------------
(* The sub-builders.                                                       *)

\* A page has a number and a size of at least one, its limit and offset are u32.
LEMMA PageType ==
    ASSUME NEW kind \in {"Serial", "Slice"}, NEW n \in U32, NEW size \in U32, NEW counted \in BOOLEAN
    PROVE  Page(kind, n, size, counted) \in PageSet
BY Numerals DEF Page, PageSet

\* A page takes and skips as many rows as a u32 can say.
LEMMA PageNumbers ==
    ASSUME NEW p \in PageSet
    PROVE  PageLimit(p) \in U32 /\ PageOffset(p) \in U32
<1> DEFINE k == (p.page - 1) * p.size
<1>1. p.page \in U32 \ {0} /\ p.size \in U32 \ {0} /\ MaxU32 \in Nat
  BY Numerals DEF PageSet
<1>2. k \in Nat
  BY <1>1 DEF U32
<1>3. PageOffset(p) = IF k > MaxU32 THEN MaxU32 ELSE k
  BY DEF PageOffset
<1> HIDE DEF k
<1> QED
  BY <1>1, <1>2, <1>3 DEF PageLimit, U32

\* The kind of a sub-builder tells what it is.
LEMMA Kinds ==
    ASSUME NEW b \in Builder
    PROVE  /\ b.kind \in {"Sort", "Filter", "Search", "Page", "Cursor"} /\ b.parent \in BOOLEAN
           /\ b.kind = "Sort" => b \in SortB
           /\ b.kind = "Filter" => b \in FilterB
           /\ b.kind = "Search" => b \in SearchB
           /\ b.kind = "Page" => b \in PageB
           /\ b.kind = "Cursor" => b \in CursorB
BY DEF Builder, SortB, FilterB, SearchB, PageB, CursorB

\* A sub-builder that was just opened asks for nothing.
LEMMA OpenedType ==
    ASSUME NEW parent \in BOOLEAN, NEW b \in Builders(parent) \cup {BareSorts, BareCursor}
    PROVE  /\ b \in Builder
           /\ b.kind = "Sort" => b.sorts.sorts = <<>>
           /\ b.kind = "Filter" => b.filters = <<>>
           /\ b.kind = "Cursor" => b.cursor.values = 0
<1>1. CASE b = SortBuilder(parent)
  BY <1>1, NoSortsType DEF SortBuilder, SortB, Builder
<1>2. CASE b = FilterBuilder(parent)
  BY <1>2 DEF FilterBuilder, FilterB, Builder
<1>3. CASE b = SearchBuilder(parent)
  BY <1>3 DEF SearchBuilder, SearchB, SearchSet, Builder
<1>4. CASE b = SerialBuilder(parent) \/ b = SliceBuilder(parent)
  <2>1. Page("Serial", 1, DefaultSize, TRUE) \in PageSet
        /\ Page("Slice", 1, DefaultSize, FALSE) \in PageSet
    BY Numerals, PageType
  <2>2. \A pg \in PageSet : [kind |-> "Page", parent |-> parent, page |-> pg] \in Builder
    BY DEF PageB, Builder
  <2>3. \E pg \in PageSet : b = [kind |-> "Page", parent |-> parent, page |-> pg]
    BY <1>4, <2>1 DEF SerialBuilder, SliceBuilder
  <2> QED
    BY <2>2, <2>3
<1>5. CASE b = CursorBuilder(parent)
  BY <1>5 DEF CursorBuilder, Cursor, CursorB, CursorSet, Builder
<1>6. CASE b = BareSorts
  BY <1>6, NoSortsType DEF BareSorts, SortB, Builder
<1>7. CASE b = BareCursor
  BY <1>7 DEF BareCursor, Cursor, CursorB, CursorSet, Builder
<1> QED
  BY <1>1, <1>2, <1>3, <1>4, <1>5, <1>6, <1>7 DEF Builders

\* One opened by the ParamsBuilder has a parent.
LEMMA OpenedParent ==
    ASSUME NEW b \in Builders(TRUE)
    PROVE  b.parent
<1>1. CASE b = SortBuilder(TRUE)
  BY <1>1, Zenon DEF SortBuilder
<1>2. CASE b = FilterBuilder(TRUE)
  BY <1>2, Zenon DEF FilterBuilder
<1>3. CASE b = SearchBuilder(TRUE)
  BY <1>3, Zenon DEF SearchBuilder
<1>4. CASE b = SerialBuilder(TRUE)
  BY <1>4, Zenon DEF SerialBuilder
<1>5. CASE b = SliceBuilder(TRUE)
  BY <1>5, Zenon DEF SliceBuilder
<1>6. CASE b = CursorBuilder(TRUE)
  BY <1>6, Zenon DEF CursorBuilder
<1> QED
  BY <1>1, <1>2, <1>3, <1>4, <1>5, <1>6 DEF Builders

\* The builder that is open.
LEMMA OpenBuilder ==
    ASSUME BuildInv, open # <<>>
    PROVE  open[1] \in Builder /\ open = <<open[1]>>
BY Options DEF BuildInv, None, Some

\* What one call makes of the sorts of a builder, and of its filters.
SortsMoved(old, new) ==
    \/ new = old
    \/ \E f \in Field, d \in {"Asc", "Desc"}, u \in BOOLEAN : new = Append(old, Sort(f, d, u))
    \/ old # <<>> /\ \E n \in {"First", "Last", "Default"} : new = [old EXCEPT ![Len(old)].nulls = n]

FiltersMoved(old, new) ==
    \/ new = old
    \/ \E c \in Cond : new = Append(old, Filter(c))
    \/ old # <<>> /\ new = [old EXCEPT ![Len(old)].not = TRUE]

\* A call of a sub-builder: it stays what it is, and does one thing.
Called(old, b) ==
    /\ b \in Builder /\ b.kind = old.kind /\ b.parent = old.parent
    /\ b.kind = "Sort" => SortsMoved(old.sorts.sorts, b.sorts.sorts)
    /\ b.kind = "Filter" => FiltersMoved(old.filters, b.filters)
    /\ b.kind = "Cursor" =>
         b.cursor.values <= MaxCursorFields + 1 \/ b.cursor.values = old.cursor.values + 1

CallOfBuilder ==
    \/ SortSafe \/ WithAllowedColumns \/ SortUnsafe \/ Nulls
    \/ FilterCall \/ FilterNot
    \/ SearchFor \/ SearchHow
    \/ SetPage \/ EnableTotalCount
    \/ FirstPage \/ Seek \/ Decoded \/ AndField

\* The calls of a sort builder.
LEMMA SortCalls ==
    ASSUME BuildInv, SortSafe \/ WithAllowedColumns \/ SortUnsafe \/ Nulls
    PROVE  open # <<>> /\ \E b : Called(open[1], b) /\ Set(b)
<1> DEFINE o == open[1]
<1>1. open # <<>> /\ o.kind = "Sort" /\ o \in SortB
  <2>1. open # <<>> /\ o.kind = "Sort"
    BY DEF SortSafe, WithAllowedColumns, SortUnsafe, Nulls, Opened
  <2> QED
    BY <2>1, OpenBuilder, Kinds
<1>2. o = [kind |-> "Sort", parent |-> o.parent, at |-> o.at, sorts |-> o.sorts]
      /\ o.parent \in BOOLEAN /\ o.at \in {"Safe", "Unsafe", "Bare"} /\ o.sorts \in SortingSet
  BY <1>1 DEF SortB
<1> DEFINE with(sp) == [o EXCEPT !.sorts = sp]
<1>3. ASSUME NEW sp \in SortingSet, SortsMoved(o.sorts.sorts, sp.sorts)
      PROVE  Called(o, with(sp))
  <2>1. with(sp) = [kind |-> "Sort", parent |-> o.parent, at |-> o.at, sorts |-> sp]
    BY <1>2
  <2> HIDE DEF with, o
  <2>2. with(sp) \in SortB
    BY <1>2, <2>1 DEF SortB
  <2>3. with(sp).kind = "Sort" /\ with(sp).parent = o.parent /\ with(sp).sorts = sp
    BY <2>1
  <2> QED
    BY <1>1, <1>3, <2>2, <2>3 DEF Called, Builder
<1>4. CASE SortSafe
  <2>1. PICK f \in Field, d \in {"Asc", "Desc"} : Set(with(sort_by(o.sorts, Sort(f, d, FALSE))))
    BY <1>4 DEF SortSafe
  <2> DEFINE x == Sort(f, d, FALSE)
             sp == sort_by(o.sorts, x)
  <2>2. x \in SortSet /\ ~x.unsafe
    BY SortType
  <2>3. sp \in SortingSet /\ sp.sorts = Append(o.sorts.sorts, x)
    <3> HIDE DEF x
    <3> QED
      BY <1>2, <2>2, SortSafely
  <2>4. SortsMoved(o.sorts.sorts, sp.sorts)
    BY <2>3 DEF SortsMoved
  <2> HIDE DEF sp, with, o
  <2> QED
    BY <1>1, <1>3, <2>1, <2>3, <2>4 DEF sp, o
<1>5. CASE SortUnsafe
  <2>1. PICK f \in Field, d \in {"Asc", "Desc"} : Set(with(push(o.sorts, Sort(f, d, TRUE))))
    BY <1>5 DEF SortUnsafe
  <2> DEFINE x == Sort(f, d, TRUE)
             sp == push(o.sorts, x)
  <2>2. x \in SortSet /\ x.unsafe
    BY SortType
  <2>3. sp \in SortingSet /\ sp.sorts = Append(o.sorts.sorts, x)
    <3> HIDE DEF x
    <3> QED
      BY <1>2, <2>2, SortUnsafely
  <2>4. SortsMoved(o.sorts.sorts, sp.sorts)
    BY <2>3 DEF SortsMoved
  <2> HIDE DEF sp, with, o
  <2> QED
    BY <1>1, <1>3, <2>1, <2>3, <2>4 DEF sp, o
<1>6. CASE Nulls
  <2>1. PICK n \in {"First", "Last", "Default"} : Set(with(apply_nulls(o.sorts, n)))
    BY <1>6 DEF Nulls
  <2> DEFINE sp == apply_nulls(o.sorts, n)
  <2>2. sp \in SortingSet /\ SortsMoved(o.sorts.sorts, sp.sorts)
    <3>1. CASE o.sorts.sorts = <<>>
      <4>1. sp = o.sorts
        BY <3>1 DEF apply_nulls
      <4> QED
        BY <1>2, <4>1 DEF SortsMoved
    <3>2. CASE o.sorts.sorts # <<>>
      <4> HIDE DEF o
      <4> QED
        BY <1>2, <3>2, NullsApplied DEF SortsMoved
    <3> QED
      BY <3>1, <3>2
  <2> HIDE DEF sp, with, o
  <2> QED
    BY <1>1, <1>3, <2>1, <2>2 DEF sp, o
<1>7. CASE WithAllowedColumns
  <2> DEFINE to(list) == [o EXCEPT !.sorts.allowed_columns = Some(list),
                                   !.at = IF @ = "Safe" THEN "Unsafe" ELSE @]
  <2>1. PICK list \in Lists : Set(to(list))
    BY <1>7 DEF WithAllowedColumns
  <2> DEFINE sp == [o.sorts EXCEPT !.allowed_columns = Some(list)]
             at == IF o.at = "Safe" THEN "Unsafe" ELSE o.at
  <2>2. sp \in SortingSet /\ sp.sorts = o.sorts.sorts
    <3>1. sp = [sorts |-> o.sorts.sorts, unsafe_fields |-> o.sorts.unsafe_fields,
                allowed_columns |-> Some(list)]
      BY <1>2, SortingParts
    <3>2. o.sorts.sorts \in Seq(SortSet) /\ o.sorts.unsafe_fields \in Seq(Field)
          /\ ToSet(o.sorts.unsafe_fields) = UnsafeOf(o.sorts.sorts)
      BY <1>2, SortingParts
    <3>3. Some(list) \in Opt(Lists)
      BY Options
    <3> HIDE DEF sp, o
    <3> QED
      BY <3>1, <3>2, <3>3, SortingMade
  <2>3. to(list) = [kind |-> "Sort", parent |-> o.parent, at |-> at, sorts |-> sp]
    <3>1. to(list) = [[o EXCEPT !.sorts = sp] EXCEPT !.at = at]
      BY <1>2
    <3> DEFINE mid == [o EXCEPT !.sorts = sp]
    <3> HIDE DEF to, sp, at, o
    <3>2. mid = [kind |-> "Sort", parent |-> o.parent, at |-> o.at, sorts |-> sp]
      BY <1>2
    <3>3. to(list) = [mid EXCEPT !.at = at]
      BY <3>1
    <3> HIDE DEF mid
    <3> QED
      BY <3>2, <3>3
  <2>4. at \in {"Safe", "Unsafe", "Bare"}
    BY <1>2
  <2> HIDE DEF sp, at, to, o
  <2>5. to(list) \in SortB
    BY <1>2, <2>2, <2>3, <2>4 DEF SortB
  <2>6. to(list).kind = "Sort" /\ to(list).parent = o.parent /\ to(list).sorts = sp
    BY <2>3
  <2>7. Called(o, to(list))
    BY <1>1, <2>2, <2>5, <2>6 DEF Called, Builder, SortsMoved
  <2> QED
    BY <1>1, <2>1, <2>7 DEF o
<1> QED
  BY <1>4, <1>5, <1>6, <1>7

\* The calls of a filter builder.
LEMMA FilterCalls ==
    ASSUME BuildInv, FilterCall \/ FilterNot
    PROVE  open # <<>> /\ \E b : Called(open[1], b) /\ Set(b)
<1> DEFINE o == open[1]
           fs == o.filters
<1>1. open # <<>> /\ o.kind = "Filter" /\ o \in FilterB
  <2>1. open # <<>> /\ o.kind = "Filter"
    BY DEF FilterCall, FilterNot, Opened
  <2> QED
    BY <2>1, OpenBuilder, Kinds
<1>2. o = [kind |-> "Filter", parent |-> o.parent, filters |-> fs]
      /\ o.parent \in BOOLEAN /\ fs \in Seq(FilterSet)
  BY <1>1 DEF FilterB
<1> DEFINE with(gs) == [o EXCEPT !.filters = gs]
<1>3. ASSUME NEW gs \in Seq(FilterSet), FiltersMoved(fs, gs)
      PROVE  Called(o, with(gs))
  <2>1. with(gs) = [kind |-> "Filter", parent |-> o.parent, filters |-> gs]
    BY <1>2
  <2> HIDE DEF with, o, fs
  <2>2. with(gs) \in FilterB
    BY <1>2, <2>1 DEF FilterB
  <2>3. with(gs).kind = "Filter" /\ with(gs).parent = o.parent /\ with(gs).filters = gs
    BY <2>1
  <2> QED
    BY <1>1, <1>3, <2>2, <2>3 DEF Called, Builder, fs
<1>4. CASE FilterCall
  <2>1. PICK c \in Cond : Set([o EXCEPT !.filters = Append(@, Filter(c))])
    BY <1>4 DEF FilterCall
  <2> DEFINE gs == Append(fs, Filter(c))
  <2>2. Set(with(gs))
    BY <2>1
  <2>3. Filter(c) \in FilterSet
    BY DEF Filter, FilterSet
  <2>4. gs \in Seq(FilterSet) /\ FiltersMoved(fs, gs)
    <3> HIDE DEF fs
    <3> QED
      BY <1>2, <2>3 DEF FiltersMoved
  <2> HIDE DEF gs, with, o
  <2> QED
    BY <1>1, <1>3, <2>2, <2>4 DEF o
<1>5. CASE FilterNot
  <2> DEFINE gs == [fs EXCEPT ![Len(fs)].not = TRUE]
  <2>1. CASE Len(fs) = 0
    <3>1. Set(o)
      BY <1>5, <2>1 DEF FilterNot
    <3>2. Called(o, o)
      BY <1>1, OpenBuilder DEF Called, FiltersMoved
    <3> QED
      BY <1>1, <3>1, <3>2
  <2>2. CASE Len(fs) # 0
    <3>1. Set([o EXCEPT !.filters[Len(fs)].not = TRUE])
      BY <1>5, <2>2 DEF FilterNot
    <3>2. Set(with(gs))
      BY <3>1
    <3>3. fs # <<>>
      BY <2>2
    <3>4. [fs[Len(fs)] EXCEPT !.not = TRUE] \in FilterSet
      <4>1. fs[Len(fs)] \in FilterSet
        BY <1>2, <3>3, LastChanged
      <4> QED
        BY <4>1 DEF FilterSet
    <3>5. gs \in Seq(FilterSet)
      <4> DEFINE x == [fs[Len(fs)] EXCEPT !.not = TRUE]
      <4>1. gs = [fs EXCEPT ![Len(fs)] = x]
        OBVIOUS
      <4> HIDE DEF x, fs, gs
      <4> QED
        BY <1>2, <3>3, <3>4, <4>1, LastChanged DEF x
    <3>6. FiltersMoved(fs, gs)
      BY <3>3 DEF FiltersMoved
    <3> HIDE DEF gs, with, o
    <3> QED
      BY <1>1, <1>3, <3>2, <3>5, <3>6 DEF o
  <2> QED
    BY <2>1, <2>2
<1> QED
  BY <1>4, <1>5

\* The calls of a search builder.
LEMMA SearchCalls ==
    ASSUME BuildInv, SearchFor \/ SearchHow
    PROVE  open # <<>> /\ \E b : Called(open[1], b) /\ Set(b)
<1> DEFINE o == open[1]
           s == o.search
<1>1. open # <<>> /\ o.kind = "Search" /\ o \in SearchB
  <2>1. open # <<>> /\ o.kind = "Search"
    BY DEF SearchFor, SearchHow, Opened
  <2> QED
    BY <2>1, OpenBuilder, Kinds
<1>2. o = [kind |-> "Search", parent |-> o.parent, search |-> s]
      /\ o.parent \in BOOLEAN /\ s \in SearchSet
  BY <1>1 DEF SearchB
<1> DEFINE with(t) == [o EXCEPT !.search = t]
<1>3. ASSUME NEW t \in SearchSet
      PROVE  Called(o, with(t))
  <2>1. with(t) = [kind |-> "Search", parent |-> o.parent, search |-> t]
    BY <1>2
  <2> HIDE DEF with, o, s
  <2>2. with(t) \in SearchB
    BY <1>2, <2>1 DEF SearchB
  <2>3. with(t).kind = "Search" /\ with(t).parent = o.parent
    BY <2>1
  <2> QED
    BY <1>1, <2>2, <2>3 DEF Called, Builder
<1>4. \E t \in SearchSet : Set(with(t))
  <2>1. CASE SearchFor
    <3>1. PICK q \in Queries, fs \in SUBSET Field :
            \/ Set(with([s EXCEPT !.query = q]))
            \/ Set(with([s EXCEPT !.fields = fs]))
            \/ Set([o EXCEPT !.search.query = q, !.search.fields = fs])
      BY <2>1 DEF SearchFor
    <3>2. [s EXCEPT !.query = q] \in SearchSet /\ [s EXCEPT !.fields = fs] \in SearchSet
          /\ [[s EXCEPT !.query = q] EXCEPT !.fields = fs] \in SearchSet
      <4> HIDE DEF s
      <4> QED
        BY <1>2 DEF SearchSet
    <3>3. [o EXCEPT !.search.query = q, !.search.fields = fs] =
            with([[s EXCEPT !.query = q] EXCEPT !.fields = fs])
      BY <1>2
    <3> HIDE DEF with, s, o
    <3> QED
      BY <3>1, <3>2, <3>3 DEF o, s
  <2>2. CASE SearchHow
    <3>1. PICK yes \in BOOLEAN : \/ Set(with([s EXCEPT !.exact = yes]))
                                 \/ Set(with([s EXCEPT !.case_sensitive = yes]))
      BY <2>2 DEF SearchHow
    <3>2. [s EXCEPT !.exact = yes] \in SearchSet /\ [s EXCEPT !.case_sensitive = yes] \in SearchSet
      <4> HIDE DEF s
      <4> QED
        BY <1>2 DEF SearchSet
    <3> HIDE DEF with, s, o
    <3> QED
      BY <3>1, <3>2
  <2> QED
    BY <2>1, <2>2
<1> HIDE DEF with
<1> QED
  BY <1>1, <1>3, <1>4

\* The calls of a page builder.
LEMMA PageCalls ==
    ASSUME BuildInv, SetPage \/ EnableTotalCount
    PROVE  open # <<>> /\ \E b : Called(open[1], b) /\ Set(b)
<1> DEFINE o == open[1]
<1>1. open # <<>> /\ o.kind = "Page" /\ o \in PageB
  <2>1. open # <<>> /\ o.kind = "Page"
    BY DEF SetPage, EnableTotalCount, Opened
  <2> QED
    BY <2>1, OpenBuilder, Kinds
<1>2. o = [kind |-> "Page", parent |-> o.parent, page |-> o.page]
      /\ o.parent \in BOOLEAN /\ o.page \in PageSet
  BY <1>1 DEF PageB
<1> DEFINE with(p) == [o EXCEPT !.page = p]
<1>3. ASSUME NEW p \in PageSet
      PROVE  Called(o, with(p))
  <2>1. with(p) = [kind |-> "Page", parent |-> o.parent, page |-> p]
    BY <1>2
  <2> HIDE DEF with, o
  <2>2. with(p) \in PageB
    BY <1>2, <2>1 DEF PageB
  <2>3. with(p).kind = "Page" /\ with(p).parent = o.parent
    BY <2>1
  <2> QED
    BY <1>1, <2>2, <2>3 DEF Called, Builder
<1>4. \E p \in PageSet : Set(with(p))
  <2>1. CASE SetPage
    <3>1. PICK n \in Pages, size \in Sizes :
            Set(with(Page(o.page.kind, n, size, o.page.kind = "Serial")))
      BY <2>1 DEF SetPage
    <3>2. o.page.kind \in {"Serial", "Slice"}
      BY <1>2 DEF PageSet
    <3>3. Page(o.page.kind, n, size, o.page.kind = "Serial") \in PageSet
      BY <3>2, Numerals, PageType
    <3> HIDE DEF with, o
    <3> QED
      BY <3>1, <3>3 DEF o
  <2>2. CASE EnableTotalCount
    <3>1. Set(with([o.page EXCEPT !.counted = TRUE]))
      BY <2>2 DEF EnableTotalCount
    <3>2. [o.page EXCEPT !.counted = TRUE] \in PageSet
      BY <1>2 DEF PageSet
    <3> HIDE DEF with, o
    <3> QED
      BY <3>1, <3>2
  <2> QED
    BY <2>1, <2>2
<1> HIDE DEF with
<1> QED
  BY <1>1, <1>3, <1>4

\* The calls of a cursor builder.
LEMMA CursorCalls ==
    ASSUME BuildInv, FirstPage \/ Seek \/ Decoded \/ AndField
    PROVE  open # <<>> /\ \E b : Called(open[1], b) /\ Set(b)
<1> DEFINE o == open[1]
           Ats == {"Initial", "FirstPage", "Seek", "Bare"}
           sought == IF o.at = "Initial" THEN "Seek" ELSE o.at
<1>1. open # <<>> /\ o.kind = "Cursor" /\ o \in CursorB
  <2>1. open # <<>> /\ o.kind = "Cursor"
    BY DEF FirstPage, Seek, Decoded, AndField, Opened
  <2> QED
    BY <2>1, OpenBuilder, Kinds
<1>2. o = [kind |-> "Cursor", parent |-> o.parent, at |-> o.at, cursor |-> o.cursor]
      /\ o.parent \in BOOLEAN /\ o.at \in Ats /\ o.cursor \in CursorSet
  BY <1>1 DEF CursorB
<1> DEFINE with(at, c) == [o EXCEPT !.at = at, !.cursor = c]
           Within(c) == c.values <= MaxCursorFields + 1 \/ c.values = o.cursor.values + 1
<1>3. ASSUME NEW at \in Ats, NEW c \in CursorSet, Within(c)
      PROVE  Called(o, with(at, c))
  <2>1. with(at, c) = [kind |-> "Cursor", parent |-> o.parent, at |-> at, cursor |-> c]
    <3> DEFINE mid == [o EXCEPT !.at = at]
    <3>1. mid = [kind |-> "Cursor", parent |-> o.parent, at |-> at, cursor |-> o.cursor]
      BY <1>2
    <3>2. with(at, c) = [mid EXCEPT !.cursor = c]
      OBVIOUS
    <3> HIDE DEF mid, with
    <3> QED
      BY <3>1, <3>2
  <2> HIDE DEF with, o
  <2>2. with(at, c) \in CursorB
    BY <1>2, <2>1 DEF CursorB
  <2>3. with(at, c).kind = "Cursor" /\ with(at, c).parent = o.parent /\ with(at, c).cursor = c
    BY <2>1
  <2> QED
    BY <1>1, <1>3, <2>2, <2>3 DEF Called, Builder
<1>4. MaxCursorFields \in Nat
  BY BoundsAssumption
<1>a. sought \in Ats
  <2> HIDE DEF o
  <2> QED
    BY <1>2
<1>b. \A c : Sought(c) => Set(with(sought, c))
  BY DEF Sought
<1>5. \E at \in Ats, c \in CursorSet : Within(c) /\ Set(with(at, c))
  <2>1. CASE FirstPage
    <3>1. Set(with("FirstPage", Cursor(0, "None", FALSE)))
      BY <2>1 DEF FirstPage
    <3>2. Cursor(0, "None", FALSE) \in CursorSet /\ Within(Cursor(0, "None", FALSE))
      <4> HIDE DEF o
      <4> QED
        BY <1>4 DEF Cursor, CursorSet
    <3> HIDE DEF with
    <3> QED
      BY <3>1, <3>2
  <2>2. CASE Seek
    <3>1. PICK d \in {"After", "Before"} : Sought(Cursor(1, d, FALSE))
      BY <2>2 DEF Seek
    <3>2. Cursor(1, d, FALSE) \in CursorSet /\ Within(Cursor(1, d, FALSE))
      <4> HIDE DEF o
      <4> QED
        BY <1>4 DEF Cursor, CursorSet
    <3> HIDE DEF with, sought, Within
    <3> QED
      BY <1>a, <1>b, <3>1, <3>2
  <2>3. CASE Decoded
    <3>1. PICK d \in {"After", "Before"} :
            \/ \E n \in {0, 1, MaxCursorFields, MaxCursorFields + 1} :
                 Sought(Cursor(n, d, FALSE))
            \/ Sought(Cursor(0, d, TRUE))
      BY <2>3 DEF Decoded
    <3>2. \A n \in {0, 1, MaxCursorFields, MaxCursorFields + 1} :
            /\ Cursor(n, d, FALSE) \in CursorSet /\ Within(Cursor(n, d, FALSE))
            /\ Cursor(n, d, TRUE) \in CursorSet /\ Within(Cursor(n, d, TRUE))
      <4> HIDE DEF o
      <4> QED
        BY <1>4 DEF Cursor, CursorSet
    <3>3. ASSUME NEW c, Sought(c), c \in CursorSet, Within(c)
          PROVE  \E at \in Ats, k \in CursorSet : Within(k) /\ Set(with(at, k))
      <4> HIDE DEF with, sought, Within, Ats
      <4> QED
        BY <1>a, <1>b, <3>3
    <3> HIDE DEF with, sought, Within, Ats
    <3> QED
      BY <3>1, <3>2, <3>3
  <2>4. CASE AndField
    <3>1. Set([o EXCEPT !.cursor.values = @ + 1])
      BY <2>4 DEF AndField
    <3> DEFINE c == [o.cursor EXCEPT !.values = o.cursor.values + 1]
    <3>2. c \in CursorSet /\ c.values = o.cursor.values + 1
      <4> HIDE DEF o
      <4> QED
        BY <1>2 DEF CursorSet
    <3>3. [o EXCEPT !.cursor.values = @ + 1] = with(o.at, c)
      BY <1>2
    <3> HIDE DEF with, c
    <3> QED
      BY <1>2, <3>1, <3>2, <3>3
  <2> QED
    BY <2>1, <2>2, <2>3, <2>4
<1> HIDE DEF with
<1> QED
  BY <1>1, <1>3, <1>5

\* Whatever is called, the open builder takes one step and nothing else moves.
LEMMA BuilderCalls ==
    ASSUME BuildInv, CallOfBuilder
    PROVE  open # <<>> /\ \E b : Called(open[1], b) /\ Set(b)
BY SortCalls, FilterCalls, SearchCalls, PageCalls, CursorCalls DEF CallOfBuilder

-----------------------------------------------------------------------------
(* What done() makes of the parent's params.                               *)

\* The parts of Params: each can be replaced alone.
LEMMA ParamsParts ==
    ASSUME NEW p \in ParamsSet
    PROVE  /\ p.filters \in Opt(Seq(FilterSet)) /\ p.search \in Opt(SearchSet)
           /\ p.sort_by \in Opt(SortingSet) /\ p.pagination \in Opt(PageSet \cup CursorSet)
           /\ p.limit \in Opt(U32) /\ p.offset \in Opt(U32)
           /\ \A x \in Opt(Seq(FilterSet)) : [p EXCEPT !.filters = x] \in ParamsSet
           /\ \A x \in Opt(SearchSet) : [p EXCEPT !.search = x] \in ParamsSet
           /\ \A x \in Opt(SortingSet) : [p EXCEPT !.sort_by = x] \in ParamsSet
           /\ \A x \in Opt(PageSet \cup CursorSet) : [p EXCEPT !.pagination = x] \in ParamsSet
           /\ \A x \in Opt(U32) : [p EXCEPT !.limit = x] \in ParamsSet
           /\ \A x \in Opt(U32) : [p EXCEPT !.offset = x] \in ParamsSet
<1>1. p \in ParamsSet
  OBVIOUS
<1>2. \A x \in Opt(Seq(FilterSet)) : [p EXCEPT !.filters = x] \in ParamsSet
  BY <1>1 DEF ParamsSet
<1>3. \A x \in Opt(SearchSet) : [p EXCEPT !.search = x] \in ParamsSet
  BY <1>1 DEF ParamsSet
<1>4. \A x \in Opt(SortingSet) : [p EXCEPT !.sort_by = x] \in ParamsSet
  BY <1>1 DEF ParamsSet
<1>5. \A x \in Opt(PageSet \cup CursorSet) : [p EXCEPT !.pagination = x] \in ParamsSet
  BY <1>1 DEF ParamsSet
<1>6. \A x \in Opt(U32) : [p EXCEPT !.limit = x] \in ParamsSet
  BY <1>1 DEF ParamsSet
<1>7. \A x \in Opt(U32) : [p EXCEPT !.offset = x] \in ParamsSet
  BY <1>1 DEF ParamsSet
<1> QED
  BY <1>1, <1>2, <1>3, <1>4, <1>5, <1>6, <1>7 DEF ParamsSet

\* A request nobody has asked anything of.
LEMMA NoParamsType ==
    /\ NoParams \in ParamsSet
    /\ NoParams.filters = None /\ NoParams.search = None /\ NoParams.sort_by = None
    /\ NoParams.pagination = None /\ NoParams.limit = None /\ NoParams.offset = None
<1>1. NoParams = [filters |-> None, search |-> None, sort_by |-> None,
                  pagination |-> None, limit |-> None, offset |-> None]
  BY DEF NoParams, Params
<1> QED
  BY <1>1, Options DEF ParamsSet

\* Each kind of builder brings its own part.
LEMMA HandsBack ==
    ASSUME NEW b \in Builder, NEW p
    PROVE  /\ b.kind = "Sort" => HandedBack(b, p) = WithSorts(p, b.sorts)
           /\ b.kind = "Filter" => HandedBack(b, p) = WithFilters(p, b.filters)
           /\ b.kind = "Search" => HandedBack(b, p) = WithSearch(p, b.search)
           /\ b.kind = "Page" => HandedBack(b, p) = WithPage(p, b.page)
           /\ b.kind = "Cursor" => HandedBack(b, p) = WithCursor(p, b.cursor)
BY DEF HandedBack

\* Params stay Params.
LEMMA WithType ==
    ASSUME NEW p \in ParamsSet
    PROVE  /\ \A sp \in SortingSet : WithSorts(p, sp) \in ParamsSet
           /\ \A fs \in Seq(FilterSet) : WithFilters(p, fs) \in ParamsSet
           /\ \A s \in SearchSet : WithSearch(p, s) \in ParamsSet
           /\ \A g \in PageSet : WithPage(p, g) \in ParamsSet
           /\ \A c \in CursorSet : WithCursor(p, c) \in ParamsSet
<1>1. ASSUME NEW sp \in SortingSet PROVE WithSorts(p, sp) \in ParamsSet
  <2> DEFINE x == IF p.sort_by = None THEN Some(sp) ELSE Some(extend_with(p.sort_by[1], sp))
  <2>1. x \in Opt(SortingSet)
    <3>1. p.sort_by # None => p.sort_by[1] \in SortingSet
      BY ParamsParts, Options
    <3>2. p.sort_by # None => extend_with(p.sort_by[1], sp) \in SortingSet
      BY <3>1, Extended
    <3> QED
      BY <3>2, Options
  <2>2. WithSorts(p, sp) = IF sp.sorts = <<>> THEN p ELSE [p EXCEPT !.sort_by = x]
    BY DEF WithSorts
  <2> HIDE DEF x
  <2> QED
    BY <2>1, <2>2, ParamsParts
<1>2. ASSUME NEW fs \in Seq(FilterSet) PROVE WithFilters(p, fs) \in ParamsSet
  <2> DEFINE x == IF p.filters = None THEN Some(fs) ELSE Some(p.filters[1] \o fs)
  <2>1. x \in Opt(Seq(FilterSet))
    <3>1. p.filters # None => p.filters[1] \in Seq(FilterSet)
      BY ParamsParts, Options
    <3>2. p.filters # None => p.filters[1] \o fs \in Seq(FilterSet)
      BY <3>1
    <3> QED
      BY <3>2, Options
  <2>2. WithFilters(p, fs) = [p EXCEPT !.filters = x]
    BY DEF WithFilters
  <2> HIDE DEF x
  <2> QED
    BY <2>1, <2>2, ParamsParts
<1>3. ASSUME NEW s \in SearchSet PROVE WithSearch(p, s) \in ParamsSet
  <2>1. Some(s) \in Opt(SearchSet)
    BY Options
  <2> QED
    BY <2>1, ParamsParts DEF WithSearch
<1>4. ASSUME NEW g \in PageSet PROVE WithPage(p, g) \in ParamsSet
  <2> DEFINE x == Some(g)
             y == Some(PageLimit(g))
             z == Some(PageOffset(g))
  <2>1. x \in Opt(PageSet \cup CursorSet) /\ y \in Opt(U32) /\ z \in Opt(U32)
    BY PageNumbers, Options
  <2>2. WithPage(p, g) = [[[p EXCEPT !.pagination = x] EXCEPT !.limit = y] EXCEPT !.offset = z]
    BY DEF WithPage
  <2> HIDE DEF x, y, z
  <2> DEFINE paged == [p EXCEPT !.pagination = x]
             limited == [paged EXCEPT !.limit = y]
  <2>3. paged \in ParamsSet
    BY <2>1, ParamsParts
  <2> HIDE DEF paged
  <2>4. limited \in ParamsSet
    BY <2>1, <2>3, ParamsParts
  <2> HIDE DEF limited
  <2>5. [limited EXCEPT !.offset = z] \in ParamsSet
    BY <2>1, <2>4, ParamsParts
  <2> QED
    BY <2>2, <2>5 DEF paged, limited
<1>5. ASSUME NEW c \in CursorSet PROVE WithCursor(p, c) \in ParamsSet
  <2>1. Some(c) \in Opt(PageSet \cup CursorSet)
    BY Options
  <2> QED
    BY <2>1, ParamsParts DEF WithCursor
<1> QED
  BY <1>1, <1>2, <1>3, <1>4, <1>5

\* The params a builder is handed back to stay Params.
LEMMA HandedBackType ==
    ASSUME NEW b \in Builder, NEW p \in ParamsSet
    PROVE  HandedBack(b, p) \in ParamsSet
BY Kinds, HandsBack, WithType DEF SortB, FilterB, SearchB, PageB, CursorB

\* A request of one builder alone.
LEMMA AloneType ==
    ASSUME NEW b \in Builder
    PROVE  Alone(b) \in ParamsSet /\ Built(b) \in ParamsSet
<1>1. HandedBack(b, NoParams) \in ParamsSet
  BY HandedBackType, NoParamsType
<1>5. b.kind = "Cursor" => CursorAlone(b.cursor) \in ParamsSet
  <2> SUFFICES ASSUME b.kind = "Cursor" PROVE CursorAlone(b.cursor) \in ParamsSet
    OBVIOUS
  <2> DEFINE paged == [NoParams EXCEPT !.pagination = Some(b.cursor)]
  <2>1. Some(b.cursor) \in Opt(PageSet \cup CursorSet) /\ Some(CursorSize) \in Opt(U32)
    BY Kinds, Options, Numerals DEF CursorB
  <2>2. paged \in ParamsSet
    BY <2>1, ParamsParts, NoParamsType
  <2>3. CursorAlone(b.cursor) = [paged EXCEPT !.limit = Some(CursorSize)]
    BY DEF CursorAlone
  <2> HIDE DEF paged
  <2> QED
    BY <2>1, <2>2, <2>3, ParamsParts
<1>2. Alone(b) \in ParamsSet
  <2>1. b.kind = "Sort" => [NoParams EXCEPT !.sort_by = Some(b.sorts)] \in ParamsSet
    BY Kinds, Options, ParamsParts, NoParamsType DEF SortB
  <2> QED
    BY <1>1, <1>5, <2>1, NoParamsType DEF Alone
<1>3. b.kind = "Filter" => [NoParams EXCEPT !.filters = Some(b.filters)] \in ParamsSet
  BY Kinds, Options, ParamsParts, NoParamsType DEF FilterB
<1>4. b.kind = "Search" => [NoParams EXCEPT !.search = Some(b.search)] \in ParamsSet
  BY Kinds, Options, ParamsParts, NoParamsType DEF SearchB
<1>6. Built(b) \in ParamsSet
  BY <1>2, <1>3, <1>4, <1>5 DEF Built
<1> QED
  BY <1>2, <1>6

-----------------------------------------------------------------------------
(* The types are kept.                                                     *)

\* The types hold at first.
LEMMA BuildInvInit == Init => BuildInv
<1> SUFFICES ASSUME Init PROVE BuildInv
  OBVIOUS
<1>1. open \in Opt(Builder)
  <2>1. \A b \in Builders(FALSE) \cup {BareSorts, BareCursor} : b \in Builder
    BY OpenedType
  <2>2. open = None \/ \E b \in Builders(FALSE) \cup {BareSorts, BareCursor} : open = Some(b)
    BY DEF Init, Some, None
  <2>3. CASE open = None
    BY <2>3, Options
  <2>4. ASSUME NEW b \in Builders(FALSE) \cup {BareSorts, BareCursor}, open = Some(b)
        PROVE  open \in Opt(Builder)
    BY <2>1, <2>4, Options
  <2> QED
    BY <2>2, <2>3, <2>4
<1>2. open # <<>> /\ open[1].kind = "Cursor" => open[1].cursor.values = 0
  <2>1. \A b \in Builders(FALSE) \cup {BareSorts, BareCursor} : b.kind = "Cursor" => b.cursor.values = 0
    BY OpenedType
  <2>2. open # <<>> => \E b \in Builders(FALSE) \cup {BareSorts, BareCursor} : open = <<b>>
    BY DEF Init
  <2>3. ASSUME NEW b \in Builders(FALSE) \cup {BareSorts, BareCursor}, open = <<b>>, open[1].kind = "Cursor"
        PROVE  open[1].cursor.values = 0
    <3>1. open[1] = b
      BY <2>3
    <3> QED
      BY <2>1, <2>3, <3>1
  <2> QED
    BY <2>2, <2>3
<1>3. params = NoParams /\ pc = "building" /\ calls = 0 /\ attached = <<>> /\ resized = FALSE
  BY DEF Init
<1>4. params \in ParamsSet /\ calls \in 0..MaxCalls /\ attached \in Seq(Given)
  BY <1>3, NoParamsType, BoundsAssumption
<1>5. resized \in BOOLEAN /\ ~resized
  BY <1>3, Zenon
<1>6. open # <<>> /\ open[1].kind = "Cursor" => open[1].cursor.values <= MaxCursorFields + calls
  BY <1>2, <1>3, BoundsAssumption
<1> QED
  BY <1>1, <1>3, <1>4, <1>5, <1>6 DEF BuildInv

\* What is remembered of a builder handed back.
LEMMA HistoryType ==
    ASSUME BuildInv, NEW b \in Builder, History(b)
    PROVE  attached' \in Seq(Given) /\ resized' \in BOOLEAN
<1>1. attached \in Seq(Given) /\ resized \in BOOLEAN
  BY DEF BuildInv
<1> DEFINE g == [list |-> b.sorts.allowed_columns, columns |-> UnsafeOf(b.sorts.sorts)]
<1>2. attached' = IF b.kind = "Sort" /\ b.sorts.sorts # <<>> THEN Append(attached, g) ELSE attached
  BY DEF History, UnsafeOf
<1>3. b.kind = "Sort" => g \in Given
  <2> SUFFICES ASSUME b.kind = "Sort" PROVE g \in Given
    OBVIOUS
  <2>1. b.sorts \in SortingSet
    BY Kinds DEF SortB
  <2>2. b.sorts.allowed_columns \in Opt(Lists) /\ b.sorts.sorts \in Seq(SortSet)
    BY <2>1, SortingParts
  <2>3. ToSet(b.sorts.sorts) \subseteq SortSet
    BY <2>2 DEF ToSet
  <2>4. UnsafeOf(b.sorts.sorts) \subseteq Field
    BY <2>3 DEF UnsafeOf, SortSet
  <2> QED
    BY <2>2, <2>4 DEF Given
<1>4. attached' \in Seq(Given)
  <2> HIDE DEF g
  <2> QED
    BY <1>1, <1>2, <1>3
<1>5. resized' \in BOOLEAN
  BY DEF History
<1> QED
  BY <1>4, <1>5

\* Every call keeps them.
LEMMA BuildInvNext ==
    ASSUME BuildInv, [Next]_vars
    PROVE  BuildInv'
<1>0. calls \in 0..MaxCalls /\ MaxCalls \in Nat /\ MaxCursorFields \in Nat
  BY BoundsAssumption DEF BuildInv
<1>1. CASE Open
  <2>1. PICK b \in Builders(TRUE) : open' = <<b>>
    BY <1>1 DEF Open
  <2>2. b \in Builder /\ (b.kind = "Cursor" => b.cursor.values = 0)
    BY OpenedType
  <2>3. open' \in Opt(Builder) /\ open' # <<>> /\ open'[1] = b
    BY <2>1, <2>2, Options
  <2>4. b.parent
    BY OpenedParent
  <2>5. pc = "building" /\ calls < MaxCalls /\ calls' = calls + 1
        /\ UNCHANGED <<params, pc, attached, resized>>
    BY <1>1 DEF Open, Calling
  <2> QED
    BY <1>0, <2>2, <2>3, <2>4, <2>5 DEF BuildInv
<1>2. CASE LimitOffset
  <2>1. PICK n \in Numbers : \/ params' = [params EXCEPT !.limit = Some(n)]
                             \/ params' = [params EXCEPT !.offset = Some(n)]
    BY <1>2 DEF LimitOffset
  <2>2. Some(n) \in Opt(U32)
    BY Numerals, Options
  <2>3. params' \in ParamsSet
    BY <2>1, <2>2, ParamsParts DEF BuildInv
  <2>4. open = <<>> /\ pc = "building" /\ calls < MaxCalls /\ calls' = calls + 1
        /\ resized' = TRUE /\ UNCHANGED <<open, pc, attached>>
    BY <1>2 DEF LimitOffset, Calling
  <2> QED
    BY <1>0, <2>3, <2>4 DEF BuildInv
<1>3. CASE CallOfBuilder
  <2>1. open # <<>>
    BY <1>3, BuilderCalls
  <2>2. PICK b : Called(open[1], b) /\ Set(b)
    BY <1>3, BuilderCalls
  <2>3. open' = <<b>> /\ calls < MaxCalls /\ calls' = calls + 1 /\ pc = "building"
        /\ UNCHANGED <<params, pc, attached, resized>>
    BY <2>2 DEF Set, Calling
  <2>4. open' \in Opt(Builder) /\ open' # <<>> /\ open'[1] = b
    BY <2>2, <2>3, Options DEF Called
  <2>5. b.kind = "Cursor" => b.cursor.values <= MaxCursorFields + calls'
    <3> SUFFICES ASSUME b.kind = "Cursor" PROVE b.cursor.values <= MaxCursorFields + calls'
      OBVIOUS
    <3>1. b.cursor.values <= MaxCursorFields + 1 \/ b.cursor.values = open[1].cursor.values + 1
      BY <2>2 DEF Called
    <3>2. open[1].kind = "Cursor" /\ open[1].cursor.values <= MaxCursorFields + calls
      BY <2>1, <2>2 DEF Called, BuildInv
    <3>3. b.cursor.values \in Nat /\ open[1].cursor.values \in Nat
      BY <2>1, <2>2, <3>2, OpenBuilder, Kinds DEF Called, CursorB, CursorSet
    <3> QED
      BY <1>0, <2>3, <3>1, <3>2, <3>3
  <2> QED
    BY <1>0, <2>1, <2>2, <2>3, <2>4, <2>5 DEF BuildInv, Called
<1>4. CASE Done
  <2>1. open[1] \in Builder /\ open # <<>>
    BY <1>4, OpenBuilder DEF Done
  <2>2. params' \in ParamsSet
    BY <1>4, <2>1, HandedBackType DEF Done, BuildInv
  <2>3. attached' \in Seq(Given) /\ resized' \in BOOLEAN
    BY <1>4, <2>1, HistoryType DEF Done
  <2>4. open' = <<>> /\ UNCHANGED <<pc, calls>>
    BY <1>4 DEF Done
  <2>5. open' \in Opt(Builder)
    BY <2>4, Options DEF None
  <2> QED
    BY <2>2, <2>3, <2>4, <2>5 DEF BuildInv
<1>5. CASE Become
  <2>1. open[1] \in Builder /\ open # <<>>
    BY <1>5, OpenBuilder DEF Become
  <2>2. params' \in ParamsSet
    BY <1>5, <2>1, AloneType DEF Become
  <2>3. attached' \in Seq(Given) /\ resized' \in BOOLEAN
    BY <1>5, <2>1, HistoryType DEF Become
  <2>4. open' = <<>> /\ pc' = "built" /\ UNCHANGED calls
    BY <1>5 DEF Become
  <2>5. open' \in Opt(Builder)
    BY <2>4, Options DEF None
  <2> QED
    BY <2>2, <2>3, <2>4, <2>5 DEF BuildInv
<1>6. CASE Build \/ Validate
  <2>1. pc' \in {"built", "accepted", "rejected"} /\ open = <<>>
        /\ UNCHANGED <<params, open, calls, attached, resized>>
    BY <1>6 DEF Build, Validate, BuildInv
  <2> QED
    BY <2>1 DEF BuildInv
<1>7. CASE UNCHANGED vars
  BY <1>7 DEF vars, BuildInv
<1> QED
  BY <1>1, <1>2, <1>3, <1>4, <1>5, <1>6, <1>7 DEF Next, CallOfBuilder

\* Pages, sizes, limits and offsets stay within a u32 and pages and sizes at
\* least one, and only a finished request is judged.
THEOREM TypeCorrect == Spec => []TypeOK
<1>1. BuildInv /\ [Next]_vars => BuildInv'
  BY BuildInvNext
<1>2. BuildInv => TypeOK
  <2> SUFFICES ASSUME BuildInv PROVE TypeOK
    OBVIOUS
  <2>1. params \in ParamsSet
    BY DEF BuildInv
  <2>2. params.filters = None \/ params.filters[1] \in Seq(FilterSet)
    BY <2>1, ParamsParts, Options
  <2>3. params.sort_by = None \/ params.sort_by[1] \in SortsSet
    BY <2>1, ParamsParts, Options DEF SortingSet
  <2>4. params.pagination = None \/ params.pagination[1] \in PageSet \cup CursorSet
    BY <2>1, ParamsParts, Options
  <2>5. params.search \in Opt(SearchSet) /\ params.limit \in Opt(U32) /\ params.offset \in Opt(U32)
    BY <2>1, ParamsParts
  <2> QED
    BY <2>2, <2>3, <2>4, <2>5 DEF TypeOK, BuildInv
<1> QED
  BY BuildInvInit, <1>1, <1>2, PTL DEF Spec

-----------------------------------------------------------------------------
(* What a builder brings to the request it is handed back to, part by part. *)

SortsOf(b) == IF b.kind = "Sort" THEN b.sorts.sorts ELSE <<>>
FiltersOf(b) == IF b.kind = "Filter" THEN b.filters ELSE <<>>

SortsIn(p) == IF p.sort_by = None THEN <<>> ELSE p.sort_by[1].sorts
UnsafeIn(p) == IF p.sort_by = None THEN {} ELSE ToSet(p.sort_by[1].unsafe_fields)
ListOf(p) == IF p.sort_by = None THEN None ELSE p.sort_by[1].allowed_columns
SearchIn(p) == IF p.search = None \/ p.search[1].query = "" THEN None ELSE p.search
PagingOf(p) == [pagination |-> p.pagination, limit |-> p.limit, offset |-> p.offset]
PageOnly(g) ==
    [pagination |-> Some(g), limit |-> Some(PageLimit(g)), offset |-> Some(PageOffset(g))]

BringsFilters(b, p, q) == Flat(q.filters) = Flat(p.filters) \o FiltersOf(b)

BringsSorts(b, p, q) ==
    /\ SortsIn(q) = SortsIn(p) \o SortsOf(b)
    /\ UnsafeIn(q) = UnsafeIn(p) \cup UnsafeOf(SortsOf(b))
    /\ SortsOf(b) # <<>> =>
         ListOf(q) = IF ListOf(p) = None THEN b.sorts.allowed_columns ELSE ListOf(p)

BringsSearch(b, p, q) ==
    SearchIn(q) = IF b.kind = "Search" /\ b.search.query # "" THEN Some(b.search) ELSE SearchIn(p)

CursorOnly(c) == [pagination |-> Some(c), limit |-> Some(CursorSize), offset |-> None]

BringsPaging(b, p, q) ==
    /\ b.kind = "Page" => PagingOf(q) = PageOnly(b.page)
    /\ b.kind = "Cursor" =>
         \/ PagingOf(q) \in {PagingOf(p), [PagingOf(p) EXCEPT !.pagination = Some(b.cursor)]}
         \/ p = NoParams /\ PagingOf(q) = CursorOnly(b.cursor)
    /\ b.kind \notin {"Page", "Cursor"} => PagingOf(q) = PagingOf(p)

Brings(b, p, q) ==
    BringsFilters(b, p, q) /\ BringsSorts(b, p, q) /\ BringsSearch(b, p, q) /\ BringsPaging(b, p, q)

\* Params with one part replaced.
LEMMA PartReplaced ==
    ASSUME NEW p \in ParamsSet, NEW x
    PROVE  /\ [p EXCEPT !.filters = x] =
                Params(x, p.search, p.sort_by, p.pagination, p.limit, p.offset)
           /\ [p EXCEPT !.search = x] =
                Params(p.filters, x, p.sort_by, p.pagination, p.limit, p.offset)
           /\ [p EXCEPT !.sort_by = x] =
                Params(p.filters, p.search, x, p.pagination, p.limit, p.offset)
           /\ [p EXCEPT !.pagination = x] =
                Params(p.filters, p.search, p.sort_by, x, p.limit, p.offset)
           /\ [p EXCEPT !.limit = x] =
                Params(p.filters, p.search, p.sort_by, p.pagination, x, p.offset)
           /\ [p EXCEPT !.offset = x] =
                Params(p.filters, p.search, p.sort_by, p.pagination, p.limit, x)
<1>1. [p EXCEPT !.filters = x] = Params(x, p.search, p.sort_by, p.pagination, p.limit, p.offset)
  BY DEF ParamsSet, Params
<1>2. [p EXCEPT !.search = x] = Params(p.filters, x, p.sort_by, p.pagination, p.limit, p.offset)
  BY DEF ParamsSet, Params
<1>3. [p EXCEPT !.sort_by = x] = Params(p.filters, p.search, x, p.pagination, p.limit, p.offset)
  BY DEF ParamsSet, Params
<1>4. [p EXCEPT !.pagination = x] = Params(p.filters, p.search, p.sort_by, x, p.limit, p.offset)
  BY DEF ParamsSet, Params
<1>5. [p EXCEPT !.limit = x] = Params(p.filters, p.search, p.sort_by, p.pagination, x, p.offset)
  BY DEF ParamsSet, Params
<1>6. [p EXCEPT !.offset = x] = Params(p.filters, p.search, p.sort_by, p.pagination, p.limit, x)
  BY DEF ParamsSet, Params
<1> QED
  BY <1>1, <1>2, <1>3, <1>4, <1>5, <1>6

\* The parts of Params are what they were made of.
LEMMA PartsOf ==
    ASSUME NEW f, NEW s, NEW o, NEW g, NEW l, NEW n
    PROVE  LET p == Params(f, s, o, g, l, n)
           IN  /\ p.filters = f /\ p.search = s /\ p.sort_by = o
               /\ p.pagination = g /\ p.limit = l /\ p.offset = n
BY DEF Params

\* A builder that brings nothing of its kind.
LEMMA BringsNothing ==
    ASSUME NEW b \in Builder, NEW p \in ParamsSet
    PROVE  /\ b.kind # "Filter" => \A q : q.filters = p.filters => BringsFilters(b, p, q)
           /\ SortsOf(b) = <<>> => \A q : q.sort_by = p.sort_by => BringsSorts(b, p, q)
           /\ (b.kind = "Search" => b.search.query = "") =>
                \A q : q.search = p.search => BringsSearch(b, p, q)
           /\ b.kind \notin {"Page", "Cursor"} =>
                \A q : q.pagination = p.pagination /\ q.limit = p.limit /\ q.offset = p.offset
                       => BringsPaging(b, p, q)
<1>1. ASSUME b.kind # "Filter", NEW q, q.filters = p.filters PROVE BringsFilters(b, p, q)
  <2>1. Flat(p.filters) \in Seq(FilterSet)
    BY ParamsParts, Options DEF Flat
  <2>2. Flat(p.filters) \o <<>> = Flat(p.filters)
    BY <2>1, ConcatEmptySeq
  <2>3. FiltersOf(b) = <<>> /\ Flat(q.filters) = Flat(p.filters)
    BY <1>1 DEF FiltersOf
  <2> QED
    BY <2>2, <2>3 DEF BringsFilters
<1>2. ASSUME SortsOf(b) = <<>>, NEW q, q.sort_by = p.sort_by PROVE BringsSorts(b, p, q)
  <2>1. SortsIn(p) \in Seq(SortSet)
    <3>1. CASE p.sort_by = None
      BY <3>1 DEF SortsIn
    <3>2. CASE p.sort_by # None
      <4>1. p.sort_by[1] \in SortingSet
        BY <3>2, ParamsParts, Options
      <4> QED
        BY <3>2, <4>1, SortingParts DEF SortsIn
    <3> QED
      BY <3>1, <3>2
  <2>2. SortsIn(p) \o <<>> = SortsIn(p)
    BY <2>1, ConcatEmptySeq
  <2>3. UnsafeOf(<<>>) = {}
    BY DEF UnsafeOf, ToSet
  <2>4. SortsIn(q) = SortsIn(p) /\ UnsafeIn(q) = UnsafeIn(p)
    BY <1>2 DEF SortsIn, UnsafeIn
  <2> QED
    BY <1>2, <2>2, <2>3, <2>4 DEF BringsSorts
<1>3. ASSUME b.kind = "Search" => b.search.query = "", NEW q, q.search = p.search
      PROVE  BringsSearch(b, p, q)
  BY <1>3 DEF BringsSearch, SearchIn
<1>4. ASSUME b.kind \notin {"Page", "Cursor"}, NEW q,
             q.pagination = p.pagination, q.limit = p.limit, q.offset = p.offset
      PROVE  BringsPaging(b, p, q)
  BY <1>4 DEF BringsPaging, PagingOf
<1> QED
  BY <1>1, <1>2, <1>3, <1>4

\* A builder that brings what it holds.
LEMMA BringsItsOwn ==
    ASSUME NEW b \in Builder, NEW p \in ParamsSet
    PROVE  /\ b.kind = "Filter" =>
                \A q : \/ q.filters = Some(b.filters) /\ p.filters = None
                       \/ q.filters = Some(p.filters[1] \o b.filters) /\ p.filters # None
                       => BringsFilters(b, p, q)
           /\ b.kind = "Sort" =>
                \A q : \/ q.sort_by = Some(b.sorts) /\ p.sort_by = None
                       \/ q.sort_by = Some(extend_with(p.sort_by[1], b.sorts)) /\ p.sort_by # None
                       => BringsSorts(b, p, q)
           /\ b.kind = "Search" => \A q : q.search = Some(b.search) /\ b.search.query # ""
                                          => BringsSearch(b, p, q)
           /\ b.kind = "Page" => \A q : PagingOf(q) = PageOnly(b.page) => BringsPaging(b, p, q)
           /\ b.kind = "Cursor" =>
                \A q : q.pagination = Some(b.cursor) /\ q.limit = p.limit /\ q.offset = p.offset
                       => BringsPaging(b, p, q)
<1>1. ASSUME b.kind = "Filter", NEW q,
             \/ q.filters = Some(b.filters) /\ p.filters = None
             \/ q.filters = Some(p.filters[1] \o b.filters) /\ p.filters # None
      PROVE  BringsFilters(b, p, q)
  <2>1. b.filters \in Seq(FilterSet) /\ FiltersOf(b) = b.filters
    BY <1>1, Kinds DEF FilterB, FiltersOf
  <2>2. <<>> \o b.filters = b.filters
    BY <2>1, ConcatEmptySeq
  <2>3. Flat(q.filters) = IF p.filters = None THEN b.filters ELSE p.filters[1] \o b.filters
    BY <1>1, Options DEF Flat
  <2> QED
    BY <2>1, <2>2, <2>3 DEF BringsFilters, Flat
<1>2. ASSUME b.kind = "Sort", NEW q,
             \/ q.sort_by = Some(b.sorts) /\ p.sort_by = None
             \/ q.sort_by = Some(extend_with(p.sort_by[1], b.sorts)) /\ p.sort_by # None
      PROVE  BringsSorts(b, p, q)
  <2>1. b.sorts \in SortingSet /\ SortsOf(b) = b.sorts.sorts
    BY <1>2, Kinds DEF SortB, SortsOf
  <2>2. b.sorts.sorts \in Seq(SortSet) /\ ToSet(b.sorts.unsafe_fields) = UnsafeOf(b.sorts.sorts)
    BY <2>1, SortingParts
  <2>3. CASE p.sort_by = None
    <3>1. q.sort_by # None /\ q.sort_by[1] = b.sorts
      BY <1>2, <2>3, Options
    <3>2. <<>> \o b.sorts.sorts = b.sorts.sorts
      BY <2>2, ConcatEmptySeq
    <3> QED
      BY <2>1, <2>2, <2>3, <3>1, <3>2 DEF BringsSorts, SortsIn, UnsafeIn, ListOf
  <2>4. CASE p.sort_by # None
    <3> DEFINE sp == p.sort_by[1]
    <3>1. sp \in SortingSet
      BY <2>4, ParamsParts, Options
    <3>2. q.sort_by # None /\ q.sort_by[1] = extend_with(sp, b.sorts)
      BY <1>2, <2>4, Options
    <3>3. ToSet(sp.unsafe_fields) = UnsafeOf(sp.sorts)
      BY <3>1, SortingParts
    <3> DEFINE e == extend_with(sp, b.sorts)
    <3>4. /\ e.sorts = sp.sorts \o b.sorts.sorts
          /\ ToSet(e.unsafe_fields) = UnsafeOf(sp.sorts) \cup UnsafeOf(b.sorts.sorts)
          /\ e.allowed_columns = IF sp.allowed_columns = None THEN b.sorts.allowed_columns
                                                              ELSE sp.allowed_columns
      BY <2>1, <3>1, Extended
    <3> HIDE DEF e
    <3> QED
      BY <2>1, <2>4, <3>2, <3>3, <3>4 DEF e, BringsSorts, SortsIn, UnsafeIn, ListOf
  <2> QED
    BY <2>3, <2>4
<1>3. ASSUME b.kind = "Search", NEW q, q.search = Some(b.search), b.search.query # ""
      PROVE  BringsSearch(b, p, q)
  BY <1>3, Options DEF BringsSearch, SearchIn
<1>4. ASSUME b.kind = "Page", NEW q, PagingOf(q) = PageOnly(b.page)
      PROVE  BringsPaging(b, p, q)
  BY <1>4 DEF BringsPaging
<1>5. ASSUME b.kind = "Cursor", NEW q, q.pagination = Some(b.cursor), q.limit = p.limit,
             q.offset = p.offset
      PROVE  BringsPaging(b, p, q)
  <2>1. PagingOf(q) = [PagingOf(p) EXCEPT !.pagination = Some(b.cursor)]
    BY <1>5 DEF PagingOf
  <2> QED
    BY <1>5, <2>1 DEF BringsPaging
<1> QED
  BY <1>1, <1>2, <1>3, <1>4, <1>5

\* done(): the part of the builder's own kind, and no other.
LEMMA HandedBackBrings ==
    ASSUME NEW b \in Builder, NEW p \in ParamsSet
    PROVE  /\ Brings(b, p, HandedBack(b, p))
           /\ SortsOf(b) = <<>> => ListOf(HandedBack(b, p)) = ListOf(p)
<1> DEFINE q == HandedBack(b, p)
<1>1. CASE b.kind = "Sort"
  <2>1. q = WithSorts(p, b.sorts) /\ SortsOf(b) = b.sorts.sorts /\ b.kind # "Filter"
        /\ b.kind # "Search" /\ b.kind \notin {"Page", "Cursor"}
    BY <1>1, HandsBack DEF SortsOf
  <2>2. CASE b.sorts.sorts = <<>>
    <3>1. q = p
      BY <2>1, <2>2 DEF WithSorts
    <3> HIDE DEF q
    <3> QED
      BY <2>1, <2>2, <3>1, BringsNothing DEF Brings, q
  <2>3. CASE b.sorts.sorts # <<>>
    <3> DEFINE x == IF p.sort_by = None THEN Some(b.sorts)
                    ELSE Some(extend_with(p.sort_by[1], b.sorts))
    <3>1. q = [p EXCEPT !.sort_by = x]
      BY <2>1, <2>3 DEF WithSorts
    <3> HIDE DEF q, x
    <3>2. q = Params(p.filters, p.search, x, p.pagination, p.limit, p.offset)
      BY <3>1, PartReplaced
    <3>3. q.filters = p.filters /\ q.search = p.search /\ q.sort_by = x
          /\ q.pagination = p.pagination /\ q.limit = p.limit /\ q.offset = p.offset
      BY <3>2, PartsOf
    <3>4. BringsSorts(b, p, q)
      BY <1>1, <3>3, BringsItsOwn DEF x
    <3> QED
      BY <2>1, <2>3, <3>3, <3>4, BringsNothing DEF Brings, q
  <2> QED
    BY <2>2, <2>3
<1>2. CASE b.kind = "Filter"
  <2> DEFINE x == IF p.filters = None THEN Some(b.filters) ELSE Some(p.filters[1] \o b.filters)
  <2>1. q = [p EXCEPT !.filters = x]
    BY <1>2, HandsBack DEF WithFilters
  <2> HIDE DEF q, x
  <2>2. q = Params(x, p.search, p.sort_by, p.pagination, p.limit, p.offset)
    BY <2>1, PartReplaced
  <2>3. q.filters = x /\ q.search = p.search /\ q.sort_by = p.sort_by
        /\ q.pagination = p.pagination /\ q.limit = p.limit /\ q.offset = p.offset
    BY <2>2, PartsOf
  <2>4. BringsFilters(b, p, q)
    BY <1>2, <2>3, BringsItsOwn DEF x
  <2>5. SortsOf(b) = <<>> /\ b.kind # "Search" /\ b.kind \notin {"Page", "Cursor"}
    BY <1>2 DEF SortsOf
  <2>6. ListOf(q) = ListOf(p)
    BY <2>3 DEF ListOf
  <2> QED
    BY <2>3, <2>4, <2>5, <2>6, BringsNothing DEF Brings, q
<1>3. CASE b.kind = "Search"
  <2>1. q = WithSearch(p, b.search)
    BY <1>3, HandsBack
  <2>2. SortsOf(b) = <<>> /\ b.kind # "Filter" /\ b.kind \notin {"Page", "Cursor"}
    BY <1>3 DEF SortsOf
  <2>3. CASE b.search.query = ""
    <3>1. q = p
      BY <2>1, <2>3 DEF WithSearch
    <3> HIDE DEF q
    <3> QED
      BY <2>2, <2>3, <3>1, BringsNothing DEF Brings, q
  <2>4. CASE b.search.query # ""
    <3> DEFINE x == Some(b.search)
    <3>1. q = [p EXCEPT !.search = x]
      BY <2>1, <2>4 DEF WithSearch
    <3> HIDE DEF q, x
    <3>2. q = Params(p.filters, x, p.sort_by, p.pagination, p.limit, p.offset)
      BY <3>1, PartReplaced
    <3>3. q.filters = p.filters /\ q.search = x /\ q.sort_by = p.sort_by
          /\ q.pagination = p.pagination /\ q.limit = p.limit /\ q.offset = p.offset
      BY <3>2, PartsOf
    <3>4. BringsSearch(b, p, q)
      BY <1>3, <2>4, <3>3, BringsItsOwn DEF x
    <3>5. ListOf(q) = ListOf(p)
      BY <3>3 DEF ListOf
    <3> QED
      BY <2>2, <3>3, <3>4, <3>5, BringsNothing DEF Brings, q
  <2> QED
    BY <2>3, <2>4
<1>4. CASE b.kind = "Page"
  <2> DEFINE x == Some(b.page)
             y == Some(PageLimit(b.page))
             z == Some(PageOffset(b.page))
             paged == [p EXCEPT !.pagination = x]
             limited == [paged EXCEPT !.limit = y]
  <2>1. q = [limited EXCEPT !.offset = z]
    BY <1>4, HandsBack DEF WithPage
  <2>2. x \in Opt(PageSet \cup CursorSet) /\ y \in Opt(U32)
    <3>1. b.page \in PageSet
      BY <1>4, Kinds DEF PageB
    <3> QED
      BY <3>1, PageNumbers, Options
  <2> HIDE DEF x, y, z
  <2>3. paged \in ParamsSet
        /\ paged = Params(p.filters, p.search, p.sort_by, x, p.limit, p.offset)
    BY <2>2, ParamsParts, PartReplaced
  <2>4. paged.filters = p.filters /\ paged.search = p.search /\ paged.sort_by = p.sort_by
        /\ paged.pagination = x /\ paged.offset = p.offset
    BY <2>3, PartsOf
  <2> HIDE DEF paged
  <2>5. limited \in ParamsSet /\ limited = Params(p.filters, p.search, p.sort_by, x, y, p.offset)
    <3>1. paged \in ParamsSet /\ limited \in ParamsSet
      BY <2>2, <2>3, ParamsParts
    <3>2. limited = Params(paged.filters, paged.search, paged.sort_by, paged.pagination, y,
                           paged.offset)
      BY <3>1, PartReplaced, Zenon
    <3> HIDE DEF limited
    <3> QED
      BY <2>4, <3>1, <3>2
  <2> HIDE DEF limited, q
  <2>6. limited.filters = p.filters /\ limited.search = p.search /\ limited.sort_by = p.sort_by
        /\ limited.pagination = x /\ limited.limit = y
    BY <2>5, PartsOf
  <2>7. q = Params(p.filters, p.search, p.sort_by, x, y, z)
    <3>1. limited \in ParamsSet
      BY <2>5
    <3>2. [limited EXCEPT !.offset = z] =
            Params(limited.filters, limited.search, limited.sort_by, limited.pagination,
                   limited.limit, z)
      BY <3>1, PartReplaced, Zenon
    <3> QED
      BY <2>1, <2>6, <3>2
  <2>8. q.filters = p.filters /\ q.search = p.search /\ q.sort_by = p.sort_by
        /\ q.pagination = x /\ q.limit = y /\ q.offset = z
    BY <2>7, PartsOf
  <2>9. BringsPaging(b, p, q)
    BY <1>4, <2>8, BringsItsOwn DEF PagingOf, PageOnly, x, y, z
  <2>10. SortsOf(b) = <<>> /\ b.kind # "Filter" /\ b.kind # "Search" /\ ListOf(q) = ListOf(p)
    BY <1>4, <2>8 DEF SortsOf, ListOf
  <2> QED
    BY <2>8, <2>9, <2>10, BringsNothing DEF Brings, q
<1>5. CASE b.kind = "Cursor"
  <2> DEFINE x == Some(b.cursor)
  <2>1. q = [p EXCEPT !.pagination = x]
    BY <1>5, HandsBack DEF WithCursor
  <2> HIDE DEF q, x
  <2>2. q = Params(p.filters, p.search, p.sort_by, x, p.limit, p.offset)
    BY <2>1, PartReplaced
  <2>3. q.filters = p.filters /\ q.search = p.search /\ q.sort_by = p.sort_by
        /\ q.pagination = x /\ q.limit = p.limit /\ q.offset = p.offset
    BY <2>2, PartsOf
  <2>4. BringsPaging(b, p, q)
    BY <1>5, <2>3, BringsItsOwn DEF x
  <2>5. SortsOf(b) = <<>> /\ b.kind # "Filter" /\ b.kind # "Search" /\ ListOf(q) = ListOf(p)
    BY <1>5, <2>3 DEF SortsOf, ListOf
  <2> QED
    BY <2>3, <2>4, <2>5, BringsNothing DEF Brings, q
<1> QED
  BY <1>1, <1>2, <1>3, <1>4, <1>5, Kinds

\* A builder without a parent brings the same to a request of its own.
LEMMA AloneBrings ==
    ASSUME NEW b \in Builder
    PROVE  Brings(b, NoParams, Alone(b)) /\ Brings(b, NoParams, Built(b))
<1> DEFINE p == NoParams
<1>1. p \in ParamsSet /\ p.filters = None /\ p.search = None /\ p.sort_by = None
      /\ p.pagination = None /\ p.limit = None /\ p.offset = None
  BY NoParamsType
<1>2. Brings(b, p, HandedBack(b, p))
  BY <1>1, HandedBackBrings
<1>3. ASSUME b.kind = "Filter"
      PROVE  Brings(b, p, [p EXCEPT !.filters = Some(b.filters)])
             /\ (b.filters = <<>> => Brings(b, p, p))
  <2> DEFINE x == Some(b.filters)
             q == [p EXCEPT !.filters = x]
  <2> HIDE DEF x, p
  <2>1. q = Params(x, p.search, p.sort_by, p.pagination, p.limit, p.offset)
    BY <1>1, PartReplaced
  <2>2. q.filters = x /\ q.search = p.search /\ q.sort_by = p.sort_by
        /\ q.pagination = p.pagination /\ q.limit = p.limit /\ q.offset = p.offset
    BY <2>1, PartsOf
  <2> HIDE DEF q
  <2>3. BringsFilters(b, p, q)
    BY <1>1, <1>3, <2>2, BringsItsOwn DEF x
  <2>4. SortsOf(b) = <<>> /\ b.kind # "Search" /\ b.kind \notin {"Page", "Cursor"}
    BY <1>3 DEF SortsOf
  <2>5. Brings(b, p, q)
    BY <1>1, <2>2, <2>3, <2>4, BringsNothing DEF Brings
  <2>6. ASSUME b.filters = <<>> PROVE BringsFilters(b, p, p)
    <3>1. Flat(p.filters) = <<>> /\ FiltersOf(b) = <<>>
      BY <1>1, <1>3, <2>6 DEF Flat, FiltersOf
    <3> QED
      BY <3>1 DEF BringsFilters
  <2> QED
    BY <1>1, <2>4, <2>5, <2>6, BringsNothing DEF Brings, q, x
<1>4. ASSUME b.kind = "Search"
      PROVE  Brings(b, p, [p EXCEPT !.search = Some(b.search)])
  <2> DEFINE x == Some(b.search)
             q == [p EXCEPT !.search = x]
  <2> HIDE DEF x, p
  <2>1. q = Params(p.filters, x, p.sort_by, p.pagination, p.limit, p.offset)
    BY <1>1, PartReplaced
  <2>2. q.filters = p.filters /\ q.search = x /\ q.sort_by = p.sort_by
        /\ q.pagination = p.pagination /\ q.limit = p.limit /\ q.offset = p.offset
    BY <2>1, PartsOf
  <2> HIDE DEF q
  <2>3. BringsSearch(b, p, q)
    <3>1. x # None /\ x[1] = b.search
      BY Options DEF x
    <3>2. SearchIn(p) = None
      BY <1>1 DEF SearchIn
    <3>3. SearchIn(q) = IF b.search.query = "" THEN None ELSE x
      BY <2>2, <3>1 DEF SearchIn
    <3> QED
      BY <1>4, <3>2, <3>3 DEF BringsSearch, x
  <2>4. SortsOf(b) = <<>> /\ b.kind # "Filter" /\ b.kind \notin {"Page", "Cursor"}
    BY <1>4 DEF SortsOf
  <2> QED
    BY <1>1, <2>2, <2>3, <2>4, BringsNothing DEF Brings, q, x
<1>5. ASSUME b.kind = "Sort"
      PROVE  Brings(b, p, [p EXCEPT !.sort_by = Some(b.sorts)])
  <2> DEFINE x == Some(b.sorts)
             q == [p EXCEPT !.sort_by = x]
  <2> HIDE DEF x, p
  <2>1. q = Params(p.filters, p.search, x, p.pagination, p.limit, p.offset)
    BY <1>1, PartReplaced
  <2>2. q.filters = p.filters /\ q.search = p.search /\ q.sort_by = x
        /\ q.pagination = p.pagination /\ q.limit = p.limit /\ q.offset = p.offset
    BY <2>1, PartsOf
  <2> HIDE DEF q
  <2>3. BringsSorts(b, p, q)
    BY <1>1, <1>5, <2>2, BringsItsOwn DEF x
  <2>4. b.kind # "Search" /\ b.kind # "Filter" /\ b.kind \notin {"Page", "Cursor"}
    BY <1>5
  <2> QED
    BY <1>1, <2>2, <2>3, <2>4, BringsNothing DEF Brings, q, x
<1>6. ASSUME b.kind = "Cursor"
      PROVE  Brings(b, p, [p EXCEPT !.pagination = Some(b.cursor)]) /\ Brings(b, p, p)
  <2> DEFINE x == Some(b.cursor)
             q == [p EXCEPT !.pagination = x]
  <2> HIDE DEF x, p
  <2>1. q = Params(p.filters, p.search, p.sort_by, x, p.limit, p.offset)
    BY <1>1, PartReplaced
  <2>2. q.filters = p.filters /\ q.search = p.search /\ q.sort_by = p.sort_by
        /\ q.pagination = x /\ q.limit = p.limit /\ q.offset = p.offset
    BY <2>1, PartsOf
  <2> HIDE DEF q
  <2>3. BringsPaging(b, p, q)
    BY <1>1, <1>6, <2>2, BringsItsOwn DEF x
  <2>4. SortsOf(b) = <<>> /\ b.kind # "Filter" /\ b.kind # "Search"
    BY <1>6 DEF SortsOf
  <2>5. BringsPaging(b, p, p)
    BY <1>6 DEF BringsPaging
  <2> QED
    BY <1>1, <2>2, <2>3, <2>4, <2>5, BringsNothing DEF Brings, q, x
<1>c. ASSUME b.kind = "Cursor"
      PROVE  Brings(b, p, CursorAlone(b.cursor))
  <2> DEFINE x == Some(b.cursor)
             y == Some(CursorSize)
             paged == [p EXCEPT !.pagination = x]
             q == [paged EXCEPT !.limit = y]
  <2>a. q = CursorAlone(b.cursor)
    BY DEF CursorAlone
  <2>b. p = NoParams /\ x \in Opt(PageSet \cup CursorSet)
    BY <1>c, Kinds, Options DEF CursorB
  <2> HIDE DEF x, y, p
  <2>1. paged \in ParamsSet
    BY <1>1, <2>b, ParamsParts
  <2>2. paged = Params(p.filters, p.search, p.sort_by, x, p.limit, p.offset)
    BY <1>1, PartReplaced
  <2>3. paged.filters = p.filters /\ paged.search = p.search /\ paged.sort_by = p.sort_by
        /\ paged.pagination = x /\ paged.offset = p.offset
    BY <2>2, PartsOf
  <2> HIDE DEF paged
  <2>4. q = Params(paged.filters, paged.search, paged.sort_by, paged.pagination, y, paged.offset)
    BY <2>1, PartReplaced
  <2>5. q.filters = p.filters /\ q.search = p.search /\ q.sort_by = p.sort_by
        /\ q.pagination = x /\ q.limit = y /\ q.offset = None
    BY <1>1, <2>3, <2>4, PartsOf
  <2> HIDE DEF q
  <2>6. BringsPaging(b, p, q)
    BY <1>c, <2>5, <2>b DEF BringsPaging, CursorOnly, PagingOf, x, y
  <2>7. SortsOf(b) = <<>> /\ b.kind # "Filter" /\ b.kind # "Search"
    BY <1>c DEF SortsOf
  <2> QED
    BY <1>1, <2>a, <2>5, <2>6, <2>7, BringsNothing DEF Brings
<1> DEFINE alone == Alone(b)
           built == Built(b)
<1>7. \/ b.kind = "Filter" /\ b.filters = <<>> /\ alone = p
      \/ b.kind = "Cursor" /\ alone \in {p, CursorAlone(b.cursor)}
      \/ b.kind = "Sort" /\ alone = [p EXCEPT !.sort_by = Some(b.sorts)]
      \/ alone = HandedBack(b, p)
  BY DEF Alone
<1>8. \/ b.kind = "Filter" /\ built = [p EXCEPT !.filters = Some(b.filters)]
      \/ b.kind = "Search" /\ built = [p EXCEPT !.search = Some(b.search)]
      \/ b.kind = "Cursor" /\ built = CursorAlone(b.cursor)
      \/ built = alone
  BY DEF Built
<1> HIDE DEF alone, built, p
<1>9. Brings(b, p, alone)
  BY <1>2, <1>3, <1>5, <1>6, <1>7, <1>c
<1>10. Brings(b, p, built)
  BY <1>3, <1>4, <1>8, <1>9, <1>c
<1> QED
  BY <1>9, <1>10 DEF alone, built, p

\* Handing back and becoming a request are the only steps by which a builder's
\* part reaches the params.
LEMMA Handing ==
    ASSUME BuildInv, Done \/ Become
    PROVE  /\ open # <<>> /\ open[1] \in Builder /\ open = <<open[1]>>
           /\ Brings(open[1], params, params') /\ History(open[1]) /\ open' = <<>>
<1>1. open # <<>>
  BY DEF Done, Become
<1>2. open[1] \in Builder /\ open = <<open[1]>>
  BY <1>1, OpenBuilder
<1>3. Brings(open[1], params, params')
  <2>1. CASE Done
    BY <1>2, <2>1, HandedBackBrings DEF Done, BuildInv
  <2>2. CASE Become
    <3>1. params = NoParams
      BY <1>1, <2>2 DEF Become, BuildInv
    <3>2. params' = Alone(open[1]) \/ params' = Built(open[1])
      BY <2>2 DEF Become
    <3> QED
      BY <1>2, <3>1, <3>2, AloneBrings
  <2> QED
    BY <2>1, <2>2
<1> QED
  BY <1>1, <1>2, <1>3 DEF Done, Become

\* Every other step but limit() and offset() leaves the params alone, and what
\* is remembered with them.
LEMMA Elsewhere ==
    ASSUME BuildInv, [Next]_vars, ~Done, ~Become
    PROVE  /\ UNCHANGED attached
           /\ LimitOffset \/ UNCHANGED <<params, resized>>
<1>1. CASE CallOfBuilder
  <2>1. PICK b : Set(b)
    BY <1>1, BuilderCalls
  <2> QED
    BY <2>1 DEF Set
<1>2. CASE Open \/ Build \/ Validate \/ UNCHANGED vars
  BY <1>2 DEF Open, Build, Validate, vars
<1>3. CASE LimitOffset
  BY <1>3 DEF LimitOffset
<1> QED
  BY <1>1, <1>2, <1>3 DEF Next, CallOfBuilder

-----------------------------------------------------------------------------
(* A page and its limit and offset.                                        *)

Sized(p) ==
    \A x : p.pagination = Some(x) /\ x.kind # "Cursor" =>
        p.limit = Some(PageLimit(x)) /\ p.offset = Some(PageOffset(x))

SizeInv == resized = TRUE \/ Sized(params)

\* A page brings its own limit and offset, and a cursor has none.
LEMMA SizedBrought ==
    ASSUME NEW b \in Builder, NEW p, NEW q, Brings(b, p, q), b.kind = "Page" \/ Sized(p)
    PROVE  Sized(q)
<1>1. \A x, y : Some(x) = Some(y) => x = y
  BY Options
<1>2. CASE b.kind = "Page"
  <2>1. PagingOf(q) = PageOnly(b.page)
    BY <1>2 DEF Brings, BringsPaging
  <2>2. q.pagination = Some(b.page) /\ q.limit = Some(PageLimit(b.page))
        /\ q.offset = Some(PageOffset(b.page))
    BY <2>1 DEF PagingOf, PageOnly
  <2> QED
    BY <1>1, <2>2 DEF Sized
<1>3. CASE PagingOf(q) = PagingOf(p) /\ Sized(p)
  <2>1. q.pagination = p.pagination /\ q.limit = p.limit /\ q.offset = p.offset
    BY <1>3 DEF PagingOf
  <2> QED
    BY <1>3, <2>1 DEF Sized
<1>4. CASE b.kind = "Cursor" /\ PagingOf(q) \in {[PagingOf(p) EXCEPT !.pagination = Some(b.cursor)],
                                               CursorOnly(b.cursor)}
  <2>1. q.pagination = Some(b.cursor)
    BY <1>4 DEF PagingOf, CursorOnly
  <2>2. b.cursor.kind = "Cursor"
    BY <1>4, Kinds DEF CursorB, CursorSet
  <2> QED
    BY <1>1, <2>1, <2>2 DEF Sized
<1>5. b.kind # "Page" => \/ PagingOf(q) = PagingOf(p)
                         \/ b.kind = "Cursor"
                            /\ PagingOf(q) \in {[PagingOf(p) EXCEPT !.pagination = Some(b.cursor)],
                                                CursorOnly(b.cursor)}
  BY DEF Brings, BringsPaging
<1> QED
  BY <1>2, <1>3, <1>4, <1>5

\* The page a response speaks of is the page the statement fetches: whichever
\* builders are opened and in whichever order they are handed back, a numbered
\* page stands beside its own limit and offset, until limit() or offset() is
\* called after it.
THEOREM PagesSizeTheirStatement == Spec => []SizesAgree
<1>1. Init => SizeInv
  BY NoParamsType, Options DEF Init, SizeInv, Sized
<1>2. BuildInv /\ SizeInv /\ [Next]_vars => SizeInv'
  <2> SUFFICES ASSUME BuildInv, SizeInv, [Next]_vars PROVE SizeInv'
    OBVIOUS
  <2>1. CASE Done \/ Become
    <3>1. open[1] \in Builder /\ Brings(open[1], params, params') /\ History(open[1])
      BY <2>1, Handing
    <3>2. CASE Sized(params) \/ open[1].kind = "Page"
      <4>1. Sized(params')
        BY <3>1, <3>2, SizedBrought
      <4> QED
        BY <4>1 DEF SizeInv, Sized
    <3>3. CASE resized = TRUE /\ open[1].kind # "Page"
      BY <3>1, <3>3 DEF History, SizeInv
    <3> QED
      BY <3>2, <3>3 DEF SizeInv
  <2>2. CASE LimitOffset
    BY <2>2 DEF LimitOffset, SizeInv
  <2>3. CASE UNCHANGED <<params, resized>>
    BY <2>3 DEF SizeInv, Sized
  <2> QED
    BY <2>1, <2>2, <2>3, Elsewhere
<1>3. BuildInv /\ SizeInv => SizesAgree
  <2> SUFFICES ASSUME BuildInv, Sized(params) \/ resized = TRUE, NEW g \in ToSet(params.pagination),
                      g.kind # "Cursor", ~resized
               PROVE  params.limit = Some(PageLimit(g)) /\ params.offset = Some(PageOffset(g))
    BY DEF SizesAgree, SizeInv
  <2>1. params.pagination \in Opt(PageSet \cup CursorSet)
    BY ParamsParts DEF BuildInv
  <2>2. params.pagination = Some(g)
    <3>1. params.pagination # None
      BY DEF ToSet, None
    <3>2. params.pagination = <<params.pagination[1]>>
      BY <2>1, <3>1, Options
    <3>3. g = params.pagination[1]
      BY <3>2 DEF ToSet
    <3> QED
      BY <3>2, <3>3, Options
  <2> QED
    BY <2>2 DEF Sized
<1>4. Spec => []BuildInv
  BY BuildInvInit, BuildInvNext, PTL DEF Spec
<1> QED
  BY <1>1, <1>2, <1>3, <1>4, PTL DEF Spec

-----------------------------------------------------------------------------
(* The list a request is judged by.                                        *)

\* The unsafe columns of the sort builders handed back
UnsafeGiven(given) == UNION {g.columns : g \in ToSet(given)}

\* The list is the first that came with one of them, None if none brought one.
FirstOf(list, given) ==
    \/ list = None /\ \A i \in DOMAIN given : given[i].list = None
    \/ \E i \in DOMAIN given :
         /\ list # None /\ given[i].list = list
         /\ \A j \in DOMAIN given : given[j].list # None => i <= j

JudgeInv ==
    /\ UnsafeIn(params) = UnsafeGiven(attached)
    /\ FirstOf(ListOf(params), attached) \/ (pc # "building" /\ UnsafeGiven(attached) = {})
    /\ pc = "accepted" => ~Refused(params)
    /\ pc = "rejected" => Refused(params)

\* One more sort builder is handed back.
LEMMA OneMoreGiven ==
    ASSUME NEW given \in Seq(Given), NEW g \in Given, NEW list
    PROVE  /\ UnsafeGiven(Append(given, g)) = UnsafeGiven(given) \cup g.columns
           /\ FirstOf(list, given) =>
                FirstOf(IF list = None THEN g.list ELSE list, Append(given, g))
<1> DEFINE more == Append(given, g)
           n == Len(given)
<1>1. n \in Nat /\ DOMAIN given = 1..n /\ DOMAIN more = 1..(n + 1) /\ more[n + 1] = g
      /\ \A i \in 1..n : more[i] = given[i]
  OBVIOUS
<1>2. UnsafeGiven(more) = UnsafeGiven(given) \cup g.columns
  <2>1. ToSet(more) = ToSet(given) \cup {g}
    BY ToSetAppend
  <2> QED
    BY <2>1 DEF UnsafeGiven
<1> HIDE DEF more, n
<1>3. ASSUME list = None, \A i \in DOMAIN given : given[i].list = None
      PROVE  FirstOf(g.list, more)
  <2>1. \A j \in DOMAIN more : j # n + 1 => more[j].list = None
    BY <1>1, <1>3
  <2>2. CASE g.list = None
    BY <1>1, <2>1, <2>2 DEF FirstOf
  <2>3. CASE g.list # None
    <3>1. n + 1 \in DOMAIN more /\ more[n + 1].list = g.list
          /\ \A j \in DOMAIN more : more[j].list # None => n + 1 <= j
      BY <1>1, <2>1
    <3> QED
      BY <2>3, <3>1 DEF FirstOf
  <2> QED
    BY <2>2, <2>3
<1>4. ASSUME list # None, NEW i \in DOMAIN given, given[i].list = list,
             \A j \in DOMAIN given : given[j].list # None => i <= j
      PROVE  FirstOf(list, more)
  <2>1. i \in DOMAIN more /\ more[i].list = list
    BY <1>1, <1>4
  <2>2. ASSUME NEW j \in DOMAIN more, more[j].list # None PROVE i <= j
    <3>1. CASE j \in 1..n
      BY <1>1, <1>4, <2>2, <3>1
    <3>2. CASE j = n + 1
      BY <1>1, <3>2
    <3> QED
      BY <1>1, <3>1, <3>2
  <2> QED
    BY <1>4, <2>1, <2>2 DEF FirstOf
<1> QED
  BY <1>2, <1>3, <1>4 DEF FirstOf, more

\* What a builder brings is what is remembered of it.
LEMMA JudgedAlike ==
    ASSUME BuildInv, JudgeInv, Done \/ Become
    PROVE  /\ UnsafeIn(params') = UnsafeGiven(attached')
           /\ \/ FirstOf(ListOf(params'), attached')
              \/ pc' # "building" /\ UnsafeGiven(attached') = {}
<1> DEFINE b == open[1]
           ss == SortsOf(b)
           g == [list |-> b.sorts.allowed_columns, columns |-> UnsafeOf(b.sorts.sorts)]
<1>1. open # <<>> /\ b \in Builder /\ Brings(b, params, params') /\ History(b)
  BY Handing
<1>2. attached \in Seq(Given) /\ pc = "building"
  BY DEF Done, Become, BuildInv
<1>3. BringsSorts(b, params, params')
  BY <1>1 DEF Brings
<1>4. FirstOf(ListOf(params), attached) /\ UnsafeIn(params) = UnsafeGiven(attached)
  BY <1>2 DEF JudgeInv
<1>5. CASE ss # <<>>
  <2>1. b.kind = "Sort" /\ ss = b.sorts.sorts
    BY <1>5 DEF SortsOf
  <2>2. attached' = Append(attached, g)
    BY <1>1, <1>5, <2>1 DEF History, UnsafeOf
  <2>3. g \in Given
    <3>1. b.sorts \in SortingSet
      BY <1>1, <2>1, Kinds DEF SortB
    <3>2. b.sorts.allowed_columns \in Opt(Lists) /\ b.sorts.sorts \in Seq(SortSet)
      BY <3>1, SortingParts
    <3>3. ToSet(b.sorts.sorts) \subseteq SortSet
      BY <3>2 DEF ToSet
    <3>4. UnsafeOf(b.sorts.sorts) \subseteq Field
      BY <3>3 DEF UnsafeOf, SortSet
    <3> QED
      BY <3>2, <3>4 DEF Given
  <2>4. g.list = b.sorts.allowed_columns /\ g.columns = UnsafeOf(ss)
    BY <2>1
  <2>5. UnsafeIn(params') = UnsafeIn(params) \cup UnsafeOf(ss)
        /\ ListOf(params') = IF ListOf(params) = None THEN b.sorts.allowed_columns
                                                      ELSE ListOf(params)
    BY <1>3, <1>5 DEF BringsSorts
  <2> HIDE DEF g, ss, b
  <2>6. UnsafeGiven(Append(attached, g)) = UnsafeGiven(attached) \cup g.columns
        /\ FirstOf(IF ListOf(params) = None THEN g.list ELSE ListOf(params), Append(attached, g))
    BY <1>2, <1>4, <2>3, OneMoreGiven
  <2> QED
    BY <1>4, <2>2, <2>4, <2>5, <2>6
<1>6. CASE ss = <<>>
  <2>1. attached' = attached
    <3>1. ~(b.kind = "Sort" /\ b.sorts.sorts # <<>>)
      BY <1>6 DEF SortsOf
    <3> QED
      BY <1>1, <3>1 DEF History
  <2>2. UnsafeIn(params') = UnsafeIn(params)
    <3>1. UnsafeOf(ss) = {}
      BY <1>6 DEF UnsafeOf, ToSet
    <3> QED
      BY <1>3, <3>1 DEF BringsSorts
  <2>3. CASE Done
    <3>1. ListOf(params') = ListOf(params)
      BY <1>1, <1>6, <2>3, HandedBackBrings DEF Done, BuildInv
    <3> QED
      BY <1>4, <2>1, <2>2, <3>1
  <2>4. CASE Become
    <3>1. params = NoParams /\ pc' = "built"
      BY <1>1, <2>4 DEF Become, BuildInv
    <3>2. UnsafeIn(params) = {}
      BY <3>1, NoParamsType DEF UnsafeIn
    <3> QED
      BY <1>4, <2>1, <2>2, <3>1, <3>2
  <2> QED
    BY <2>3, <2>4
<1> QED
  BY <1>5, <1>6

\* A request is refused for an unsafe column outside its list, or a long cursor.
LEMMA WhatIsRefused ==
    ASSUME NEW p \in ParamsSet
    PROVE  Refused(p) <=>
             \/ UnsafeIn(p) # {} /\ (ListOf(p) = None \/ ~(UnsafeIn(p) \subseteq ListOf(p)[1]))
             \/ \E c \in ToSet(p.pagination) : c.kind = "Cursor" /\ ~(c.values <= MaxCursorFields)
<1>1. p.sort_by # None /\ SortsRefused(p.sort_by[1]) <=>
        UnsafeIn(p) # {} /\ (ListOf(p) = None \/ ~(UnsafeIn(p) \subseteq ListOf(p)[1]))
  <2>1. CASE p.sort_by = None
    BY <2>1 DEF UnsafeIn
  <2>2. CASE p.sort_by # None
    <3> DEFINE sp == p.sort_by[1]
    <3>1. sp \in SortingSet
      BY <2>2, ParamsParts, Options
    <3>2. sp.unsafe_fields \in Seq(Field)
      BY <3>1, SortingParts
    <3>3. sp.unsafe_fields # <<>> <=> ToSet(sp.unsafe_fields) # {}
      <4> DEFINE us == sp.unsafe_fields
      <4> HIDE DEF us
      <4>1. us \in Seq(Field)
        BY <3>2 DEF us
      <4>2. us # <<>> <=> DOMAIN us # {}
        BY <4>1, EmptySeq
      <4> QED
        BY <4>2 DEF ToSet, us
    <3>4. UnsafeIn(p) = ToSet(sp.unsafe_fields) /\ ListOf(p) = sp.allowed_columns
      BY <2>2 DEF UnsafeIn, ListOf
    <3> HIDE DEF sp
    <3>5. SortsRefused(sp) <=>
            UnsafeIn(p) # {} /\ (ListOf(p) = None \/ ~(UnsafeIn(p) \subseteq ListOf(p)[1]))
      BY <3>3, <3>4 DEF SortsRefused
    <3> QED
      BY <2>2, <3>5 DEF sp
  <2> QED
    BY <2>1, <2>2
<1>2. p.pagination # None /\ p.pagination[1].kind = "Cursor"
        /\ p.pagination[1].values > MaxCursorFields <=>
      \E c \in ToSet(p.pagination) : c.kind = "Cursor" /\ ~(c.values <= MaxCursorFields)
  <2>1. p.pagination \in Opt(PageSet \cup CursorSet) /\ MaxCursorFields \in Nat
    BY ParamsParts, BoundsAssumption
  <2>2. CASE p.pagination = None
    BY <2>2 DEF ToSet, None
  <2>3. CASE p.pagination # None
    <3> DEFINE c == p.pagination[1]
    <3>1. p.pagination = <<c>> /\ c \in PageSet \cup CursorSet
      BY <2>1, <2>3, Options
    <3>2. ToSet(p.pagination) = {c}
      BY <3>1 DEF ToSet
    <3> HIDE DEF c
    <3>3. c.kind = "Cursor" => c.values \in Nat
      BY <3>1 DEF PageSet, CursorSet
    <3>4. c.kind = "Cursor" => (c.values > MaxCursorFields <=> ~(c.values <= MaxCursorFields))
      BY <2>1, <3>3
    <3> QED
      BY <2>3, <3>2, <3>4 DEF c
  <2> QED
    BY <2>2, <2>3
<1> QED
  BY <1>1, <1>2 DEF Refused

\* The list in force is the one the request keeps.
LEMMA InForce ==
    ASSUME NEW list, FirstOf(list, attached), attached \in Seq(Given)
    PROVE  ListInForce = IF list = None THEN {} ELSE list[1]
<1> DEFINE given == {i \in DOMAIN attached : attached[i].list # None}
           first == CHOOSE i \in given : \A j \in given : i <= j
<1>1. CASE list = None
  <2>1. given = {}
    BY <1>1 DEF FirstOf
  <2> QED
    BY <1>1, <2>1 DEF ListInForce
<1>2. CASE list # None
  <2>1. PICK i \in given : attached[i].list = list /\ \A j \in given : i <= j
    BY <1>2 DEF FirstOf
  <2>2. first \in given /\ \A j \in given : first <= j
    BY <2>1
  <2>3. first = i
    <3>1. given \subseteq Nat
      OBVIOUS
    <3>2. first <= i /\ i <= first
      BY <2>1, <2>2
    <3> HIDE DEF first
    <3> QED
      BY <2>1, <2>2, <3>1, <3>2
  <2> HIDE DEF first
  <2>4. given # {} /\ ListInForce = attached[first].list[1]
    BY <2>1 DEF ListInForce, first
  <2> QED
    BY <1>2, <2>1, <2>3, <2>4
<1> QED
  BY <1>1, <1>2

\* The method runs a request exactly when every unsafe column of every sort
\* builder is in the first list that came with a sort column, and its cursor is
\* not too long: no order of the builders gets a column past the list, and none
\* has a listed column refused.
THEOREM JudgedByItsFirstList == Spec => []JudgedByFirstList
<1>1. Init => JudgeInv
  <2> SUFFICES ASSUME Init PROVE JudgeInv
    OBVIOUS
  <2>1. params = NoParams /\ attached = <<>> /\ pc = "building"
    BY DEF Init
  <2>2. ListOf(params) = None /\ UnsafeIn(params) = {}
    BY <2>1, NoParamsType DEF ListOf, UnsafeIn
  <2>3. UnsafeGiven(attached) = {} /\ DOMAIN attached = {}
    BY <2>1 DEF UnsafeGiven, ToSet
  <2> QED
    BY <2>1, <2>2, <2>3 DEF JudgeInv, FirstOf
<1>2. BuildInv /\ JudgeInv /\ [Next]_vars => JudgeInv'
  <2> SUFFICES ASSUME BuildInv, JudgeInv, [Next]_vars PROVE JudgeInv'
    OBVIOUS
  <2>1. CASE Done \/ Become
    <3>1. pc' \in {"building", "built"}
      BY <2>1 DEF Done, Become
    <3>2. /\ UnsafeIn(params') = UnsafeGiven(attached')
          /\ \/ FirstOf(ListOf(params'), attached')
             \/ pc' # "building" /\ UnsafeGiven(attached') = {}
      BY <2>1, JudgedAlike
    <3> QED
      BY <3>1, <3>2 DEF JudgeInv, UnsafeIn, UnsafeGiven, ListOf, FirstOf
  <2>2. CASE LimitOffset
    <3>1. PICK n : params' = [params EXCEPT !.limit = n] \/ params' = [params EXCEPT !.offset = n]
      BY <2>2 DEF LimitOffset
    <3>2. params'.sort_by = params.sort_by
      <4>1. params \in ParamsSet
        BY DEF BuildInv
      <4> QED
        BY <3>1, <4>1 DEF ParamsSet
    <3>3. UNCHANGED <<attached, pc>> /\ pc = "building"
      BY <2>2 DEF LimitOffset, Calling
    <3> QED
      BY <3>2, <3>3 DEF JudgeInv, UnsafeIn, UnsafeGiven, ListOf, FirstOf
  <2>3. CASE Validate
    <3>1. UNCHANGED <<params, attached>> /\ pc = "built"
          /\ pc' = IF Refused(params) THEN "rejected" ELSE "accepted"
      BY <2>3 DEF Validate
    <3> QED
      BY <3>1 DEF JudgeInv, UnsafeIn, UnsafeGiven, ListOf, FirstOf, Refused
  <2>4. CASE Build
    <3>1. UNCHANGED <<params, attached>> /\ pc = "building" /\ pc' = "built"
      BY <2>4 DEF Build
    <3> QED
      BY <3>1 DEF JudgeInv, UnsafeIn, UnsafeGiven, ListOf, FirstOf
  <2>5. CASE Open \/ CallOfBuilder \/ UNCHANGED vars
    <3>1. UNCHANGED <<params, attached, pc>>
      <4>1. CASE CallOfBuilder
        <5>1. PICK b : Set(b)
          BY <4>1, BuilderCalls
        <5> QED
          BY <5>1 DEF Set
      <4> QED
        BY <2>5, <4>1 DEF Open, vars
    <3> QED
      BY <3>1 DEF JudgeInv, UnsafeIn, UnsafeGiven, ListOf, FirstOf, Refused
  <2> QED
    BY <2>1, <2>2, <2>3, <2>4, <2>5 DEF Next, CallOfBuilder
<1>3. BuildInv /\ JudgeInv => JudgedByFirstList
  <2> SUFFICES ASSUME BuildInv, JudgeInv, pc \in {"accepted", "rejected"}
               PROVE  pc = "accepted" <=>
                        /\ UnsafeColumns \subseteq ListInForce
                        /\ \A c \in ToSet(params.pagination) :
                              c.kind = "Cursor" => c.values <= MaxCursorFields
    BY DEF JudgedByFirstList
  <2>1. params \in ParamsSet /\ attached \in Seq(Given)
    BY DEF BuildInv
  <2>2. pc = "accepted" <=> ~Refused(params)
    BY DEF JudgeInv
  <2>3. UnsafeColumns = UnsafeIn(params)
    BY DEF JudgeInv, UnsafeColumns, UnsafeGiven
  <2>4. UnsafeIn(params) \subseteq ListInForce <=>
          ~(UnsafeIn(params) # {} /\ (ListOf(params) = None
                                     \/ ~(UnsafeIn(params) \subseteq ListOf(params)[1])))
    <3>1. CASE FirstOf(ListOf(params), attached)
      <4>1. ListInForce = IF ListOf(params) = None THEN {} ELSE ListOf(params)[1]
        BY <2>1, <3>1, InForce
      <4> QED
        BY <4>1
    <3>2. CASE UnsafeIn(params) = {}
      BY <3>2
    <3> QED
      BY <3>1, <3>2 DEF JudgeInv
  <2>5. Refused(params) <=>
          \/ UnsafeIn(params) # {} /\ (ListOf(params) = None
                                       \/ ~(UnsafeIn(params) \subseteq ListOf(params)[1]))
          \/ \E c \in ToSet(params.pagination) :
                c.kind = "Cursor" /\ ~(c.values <= MaxCursorFields)
    BY <2>1, WhatIsRefused
  <2> QED
    BY <2>2, <2>3, <2>4, <2>5
<1>4. Spec => []BuildInv
  BY BuildInvInit, BuildInvNext, PTL DEF Spec
<1> QED
  BY <1>1, <1>2, <1>3, <1>4, PTL DEF Spec

-----------------------------------------------------------------------------
(* What is built is what was asked for.                                    *)

\* Growing, or changing the last of, the second of two sequences.
LEMMA AfterOthers ==
    ASSUME NEW S, NEW s \in Seq(S), NEW t \in Seq(S), NEW x \in S
    PROVE  /\ s \o Append(t, x) = Append(s \o t, x)
           /\ t # <<>> => /\ s \o t # <<>> /\ (s \o t)[Len(s \o t)] = t[Len(t)]
                          /\ s \o [t EXCEPT ![Len(t)] = x] = [s \o t EXCEPT ![Len(s \o t)] = x]
<1>1. s \o Append(t, x) = Append(s \o t, x)
  OBVIOUS
<1>2. ASSUME t # <<>>
      PROVE  /\ s \o t # <<>> /\ (s \o t)[Len(s \o t)] = t[Len(t)]
             /\ s \o [t EXCEPT ![Len(t)] = x] = [s \o t EXCEPT ![Len(s \o t)] = x]
  <2> DEFINE u == [t EXCEPT ![Len(t)] = x]
             m == Len(s)
             n == Len(t)
  <2>1. u \in Seq(S) /\ Len(u) = n /\ n \in 1..n
    BY <1>2, LastChanged
  <2>2. m \in Nat /\ n \in Nat /\ n >= 1
    BY <2>1
  <2>3. s \o t \in Seq(S) /\ Len(s \o t) = m + n
        /\ \A i \in 1..(m + n) : (s \o t)[i] = IF i <= m THEN s[i] ELSE t[i - m]
    BY ConcatProperties
  <2>4. s \o u \in Seq(S) /\ Len(s \o u) = m + n
        /\ \A i \in 1..(m + n) : (s \o u)[i] = IF i <= m THEN s[i] ELSE u[i - m]
    BY <2>1, ConcatProperties
  <2>5. s \o t # <<>> /\ (s \o t)[m + n] = t[n]
    <3>1. m + n \in 1..(m + n) /\ ~(m + n <= m) /\ (m + n) - m = n
      BY <2>2
    <3> QED
      BY <2>3, <3>1
  <2> DEFINE w == [s \o t EXCEPT ![m + n] = x]
  <2>6. w \in Seq(S) /\ Len(w) = m + n
    BY <2>3, <2>5, LastChanged
  <2>7. ASSUME NEW i \in 1..(m + n) PROVE (s \o u)[i] = w[i]
    <3>1. CASE i = m + n
      <4>1. ~(i <= m) /\ i - m = n /\ n \in DOMAIN t /\ u[n] = x
        BY <2>1, <2>2, <3>1
      <4>2. w[i] = x
        BY <2>3, <3>1
      <4> QED
        BY <2>4, <4>1, <4>2
    <3>2. CASE i # m + n
      <4>1. w[i] = (s \o t)[i]
        <5> DEFINE c == s \o t
        <5>1. c \in Seq(S) /\ DOMAIN c = 1..(m + n) /\ w = [c EXCEPT ![m + n] = x]
          BY <2>3
        <5> HIDE DEF c, w, m, n
        <5>2. w[i] = c[i]
          BY <3>2, <5>1
        <5> QED
          BY <5>2 DEF c
      <4>2. ~(i <= m) => i - m \in 1..n /\ i - m # n
        BY <2>2, <3>2
      <4>3. ~(i <= m) => u[i - m] = t[i - m]
        BY <4>2
      <4> HIDE DEF u, w
      <4> QED
        BY <2>3, <2>4, <4>1, <4>3
    <3> QED
      BY <3>1, <3>2
  <2>8. s \o u = w
    <3> HIDE DEF u, w
    <3> QED
      BY <2>4, <2>6, <2>7, SeqEqual
  <2> QED
    BY <2>3, <2>5, <2>8
<1> QED
  BY <1>1, <1>2

OpenFilters(option) == IF option = <<>> THEN <<>> ELSE FiltersOf(option[1])
OpenSorts(option) == IF option = <<>> THEN <<>> ELSE SortsOf(option[1])

\* The request that was asked for, in terms of what is built so far.
LEMMA AskedFor ==
    /\ FlatFilters = Flat(params.filters) \o OpenFilters(open)
    /\ FlatSorts = SortsIn(params) \o OpenSorts(open)
BY DEF FlatFilters, FlatSorts, OpenFilters, OpenSorts, FiltersOf, SortsOf, SortsIn, Opened

\* What a builder holds, and what was handed back.
LEMMA HeldType ==
    /\ \A b \in Builder : FiltersOf(b) \in Seq(FilterSet) /\ SortsOf(b) \in Seq(SortSet)
    /\ \A p \in ParamsSet : Flat(p.filters) \in Seq(FilterSet) /\ SortsIn(p) \in Seq(SortSet)
<1>1. ASSUME NEW b \in Builder
      PROVE  FiltersOf(b) \in Seq(FilterSet) /\ SortsOf(b) \in Seq(SortSet)
  <2>1. b.kind = "Filter" => b.filters \in Seq(FilterSet)
    BY Kinds DEF FilterB
  <2>2. b.kind = "Sort" => b.sorts \in SortingSet
    BY Kinds DEF SortB
  <2>3. b.kind = "Sort" => b.sorts.sorts \in Seq(SortSet)
    BY <2>2, SortingParts
  <2> QED
    BY <2>1, <2>3 DEF FiltersOf, SortsOf
<1>2. ASSUME NEW p \in ParamsSet
      PROVE  Flat(p.filters) \in Seq(FilterSet) /\ SortsIn(p) \in Seq(SortSet)
  <2>1. Flat(p.filters) \in Seq(FilterSet)
    BY ParamsParts, Options DEF Flat
  <2>2. p.sort_by # None => p.sort_by[1] \in SortingSet
    BY ParamsParts, Options
  <2>3. p.sort_by # None => p.sort_by[1].sorts \in Seq(SortSet)
    BY <2>2, SortingParts
  <2> QED
    BY <2>1, <2>3 DEF SortsIn
<1> QED
  BY <1>1, <1>2

Asked == <<FlatFilters, FlatSorts, SearchIn(params), PagingOf(params)>>

\* A call of the open builder adds one condition or one sort column, changes the
\* last one, or is not seen.
LEMMA CallAsks ==
    ASSUME BuildInv, CallOfBuilder
    PROVE  R!Next \/ UNCHANGED Asked
<1> DEFINE o == open[1]
           F == Flat(params.filters)
           T == SortsIn(params)
<1>1. open # <<>> /\ o \in Builder
  BY BuilderCalls, OpenBuilder
<1>2. PICK b : Called(o, b) /\ Set(b)
  BY BuilderCalls
<1>3. open' = <<b>> /\ params' = params /\ b \in Builder /\ b.kind = o.kind
  BY <1>2 DEF Set, Called
<1>4. F \in Seq(FilterSet) /\ T \in Seq(SortSet)
  BY HeldType DEF BuildInv
<1>5. FlatFilters = F \o FiltersOf(o) /\ FlatFilters' = F \o FiltersOf(b)
  BY <1>1, <1>3, AskedFor DEF FlatFilters, Opened, FiltersOf, OpenFilters
<1>6. FlatSorts = T \o SortsOf(o) /\ FlatSorts' = T \o SortsOf(b)
  BY <1>1, <1>3, AskedFor DEF FlatSorts, Opened, SortsOf, OpenSorts, SortsIn
<1>7. UNCHANGED <<SearchIn(params), PagingOf(params)>>
  BY <1>3 DEF SearchIn, PagingOf
<1>8. FiltersOf(o) \in Seq(FilterSet) /\ SortsOf(o) \in Seq(SortSet)
  BY <1>1, HeldType
<1>9. b.kind # "Filter" => UNCHANGED FlatFilters
  BY <1>3, <1>5 DEF FiltersOf
<1>10. b.kind # "Sort" => UNCHANGED FlatSorts
  BY <1>3, <1>6 DEF SortsOf
<1>11. CASE b.kind = "Filter"
  <2> DEFINE fs == FiltersOf(o)
             all == FlatFilters
  <2>1. FiltersMoved(fs, FiltersOf(b)) /\ b.kind # "Sort"
    BY <1>2, <1>3, <1>11 DEF Called, FiltersOf
  <2>2. UNCHANGED <<FlatSorts, SearchIn(params), PagingOf(params)>>
    BY <1>7, <1>10, <2>1
  <2>3. CASE FiltersOf(b) = fs
    BY <1>5, <2>2, <2>3 DEF Asked
  <2>4. ASSUME NEW c \in Cond, FiltersOf(b) = Append(fs, Filter(c)) PROVE R!AddFilter
    <3>1. Filter(c) \in FilterSet
      BY DEF Filter, FilterSet
    <3>2. FlatFilters' = Append(FlatFilters, Filter(c))
      <4>1. F \in Seq(FilterSet) /\ fs \in Seq(FilterSet)
        BY <1>4, <1>8
      <4> HIDE DEF F, fs
      <4>2. F \o Append(fs, Filter(c)) = Append(F \o fs, Filter(c))
        BY <3>1, <4>1, AfterOthers
      <4>3. FlatFilters = F \o fs /\ FlatFilters' = F \o FiltersOf(b)
        BY <1>5 DEF fs
      <4> QED
        BY <2>4, <4>2, <4>3
    <3> QED
      BY <2>2, <3>2 DEF R!AddFilter, SearchIn, PagingOf
  <2>5. ASSUME fs # <<>>, FiltersOf(b) = [fs EXCEPT ![Len(fs)].not = TRUE] PROVE R!NegateLast
    <3> DEFINE x == [fs[Len(fs)] EXCEPT !.not = TRUE]
    <3>1. x \in FilterSet
      <4>1. fs[Len(fs)] \in FilterSet
        BY <1>8, <2>5, LastChanged
      <4> QED
        BY <4>1 DEF FilterSet
    <3>2. FiltersOf(b) = [fs EXCEPT ![Len(fs)] = x]
      BY <2>5
    <3> HIDE DEF x, fs
    <3>3. F \o fs # <<>> /\ (F \o fs)[Len(F \o fs)] = fs[Len(fs)]
          /\ F \o FiltersOf(b) = [F \o fs EXCEPT ![Len(F \o fs)] = x]
      <4>1. fs # <<>>
        BY <2>5
      <4>2. fs \in Seq(FilterSet)
        BY <1>8 DEF fs
      <4> HIDE DEF F
      <4>3. F \o fs # <<>> /\ (F \o fs)[Len(F \o fs)] = fs[Len(fs)]
            /\ F \o [fs EXCEPT ![Len(fs)] = x] = [F \o fs EXCEPT ![Len(F \o fs)] = x]
        BY <1>4, <4>1, <3>1, <4>2, AfterOthers
      <4> QED
        BY <3>2, <4>3, Zenon
    <3>4. all # <<>> /\ all[Len(all)] = fs[Len(fs)] /\ FlatFilters' = [all EXCEPT ![Len(all)] = x]
      BY <1>5, <3>3 DEF fs
    <3>5. FlatFilters' = [all EXCEPT ![Len(all)].not = TRUE]
      BY <3>4 DEF x
    <3>6. UNCHANGED <<FlatSorts, SearchIn(params), PagingOf(params)>>
      BY <2>2
    <3> QED
      BY <3>4, <3>5, <3>6 DEF R!NegateLast, SearchIn, PagingOf
  <2> QED
    BY <2>1, <2>3, <2>4, <2>5 DEF FiltersMoved, R!Next
<1>12. CASE b.kind = "Sort"
  <2> DEFINE ss == SortsOf(o)
             all == FlatSorts
  <2>1. SortsMoved(ss, SortsOf(b)) /\ b.kind # "Filter"
    BY <1>2, <1>3, <1>12 DEF Called, SortsOf
  <2>2. UNCHANGED <<FlatFilters, SearchIn(params), PagingOf(params)>>
    BY <1>7, <1>9, <2>1
  <2>3. CASE SortsOf(b) = ss
    BY <1>6, <2>2, <2>3 DEF Asked
  <2>4. ASSUME NEW f \in Field, NEW d \in {"Asc", "Desc"}, NEW u \in BOOLEAN,
               SortsOf(b) = Append(ss, Sort(f, d, u))
        PROVE  R!AddSort
    <3>1. Sort(f, d, u) \in SortSet
      BY SortType
    <3>2. FlatSorts' = Append(FlatSorts, Sort(f, d, u))
      <4>1. T \in Seq(SortSet) /\ ss \in Seq(SortSet)
        BY <1>4, <1>8
      <4> HIDE DEF T, ss
      <4>2. T \o Append(ss, Sort(f, d, u)) = Append(T \o ss, Sort(f, d, u))
        BY <3>1, <4>1, AfterOthers
      <4>3. FlatSorts = T \o ss /\ FlatSorts' = T \o SortsOf(b)
        BY <1>6 DEF ss
      <4> QED
        BY <2>4, <4>2, <4>3
    <3> DEFINE columns == {Sort(g, e, v) : g \in Field, e \in {"Asc", "Desc"}, v \in BOOLEAN}
    <3>3. Sort(f, d, u) \in columns
      OBVIOUS
    <3>4. R!AddSort <=> /\ \E s \in columns : FlatSorts' = Append(FlatSorts, s)
                        /\ UNCHANGED <<FlatFilters, SearchIn(params), PagingOf(params)>>
      BY DEF R!AddSort, SearchIn, PagingOf
    <3> HIDE DEF columns
    <3> QED
      BY <2>2, <3>2, <3>3, <3>4
  <2>5. ASSUME ss # <<>>, NEW n \in {"First", "Last", "Default"},
               SortsOf(b) = [ss EXCEPT ![Len(ss)].nulls = n]
        PROVE  R!NullsOfLast
    <3> DEFINE x == [ss[Len(ss)] EXCEPT !.nulls = n]
    <3>1. x \in SortSet
      <4>1. ss[Len(ss)] \in SortSet
        BY <1>8, <2>5, LastChanged
      <4> QED
        BY <4>1 DEF SortSet
    <3>2. SortsOf(b) = [ss EXCEPT ![Len(ss)] = x]
      BY <2>5
    <3> HIDE DEF x, ss
    <3>3. T \o ss # <<>> /\ (T \o ss)[Len(T \o ss)] = ss[Len(ss)]
          /\ T \o SortsOf(b) = [T \o ss EXCEPT ![Len(T \o ss)] = x]
      <4>1. ss # <<>>
        BY <2>5
      <4>2. ss \in Seq(SortSet)
        BY <1>8 DEF ss
      <4> HIDE DEF T
      <4>3. T \o ss # <<>> /\ (T \o ss)[Len(T \o ss)] = ss[Len(ss)]
            /\ T \o [ss EXCEPT ![Len(ss)] = x] = [T \o ss EXCEPT ![Len(T \o ss)] = x]
        BY <1>4, <4>1, <3>1, <4>2, AfterOthers
      <4> QED
        BY <3>2, <4>3, Zenon
    <3>4. all # <<>> /\ all[Len(all)] = ss[Len(ss)] /\ FlatSorts' = [all EXCEPT ![Len(all)] = x]
      BY <1>6, <3>3 DEF ss
    <3>5. FlatSorts' = [all EXCEPT ![Len(all)].nulls = n]
      BY <3>4 DEF x
    <3> QED
      BY <2>2, <3>4, <3>5 DEF R!NullsOfLast, SearchIn, PagingOf
  <2> QED
    BY <2>1, <2>3, <2>4, <2>5 DEF SortsMoved, R!Next
<1>13. CASE b.kind \notin {"Filter", "Sort"}
  BY <1>7, <1>9, <1>10, <1>13 DEF Asked
<1> QED
  BY <1>11, <1>12, <1>13

\* Handing a builder back moves no condition and no sort column: they were asked
\* for before.  It takes a page, a cursor or a search.
LEMMA HandingAsks ==
    ASSUME BuildInv, BuildInv', Done \/ Become
    PROVE  R!Next \/ UNCHANGED Asked
<1> DEFINE b == open[1]
<1>1. open # <<>> /\ b \in Builder /\ open' = <<>> /\ Brings(b, params, params')
  BY Handing
<1>2. params \in ParamsSet /\ params' \in ParamsSet
  BY DEF BuildInv
<1>3. UNCHANGED FlatFilters
  <2>1. FlatFilters = Flat(params'.filters)
    BY <1>1, AskedFor DEF Brings, BringsFilters, OpenFilters
  <2>2. Flat(params'.filters) \in Seq(FilterSet)
    BY <1>2, HeldType
  <2>3. FlatFilters' = Flat(params'.filters) \o <<>>
    BY <1>1 DEF FlatFilters, Opened
  <2> QED
    BY <2>1, <2>2, <2>3, ConcatEmptySeq
<1>4. UNCHANGED FlatSorts
  <2>1. FlatSorts = SortsIn(params')
    BY <1>1, AskedFor DEF Brings, BringsSorts, OpenSorts
  <2>2. SortsIn(params') \in Seq(SortSet)
    BY <1>2, HeldType
  <2>3. FlatSorts' = SortsIn(params') \o <<>>
    BY <1>1 DEF FlatSorts, Opened, SortsIn
  <2> QED
    BY <2>1, <2>2, <2>3, ConcatEmptySeq
<1>5. CASE b.kind = "Search"
  <2>1. PagingOf(params') = PagingOf(params)
    BY <1>1, <1>5 DEF Brings, BringsPaging
  <2>2. CASE b.search.query = ""
    <3>1. SearchIn(params') = SearchIn(params)
      BY <1>1, <2>2 DEF Brings, BringsSearch
    <3> QED
      BY <1>3, <1>4, <2>1, <3>1 DEF Asked, SearchIn, PagingOf
  <2>3. CASE b.search.query # ""
    <3>1. SearchIn(params') = Some(b.search)
      BY <1>1, <1>5, <2>3 DEF Brings, BringsSearch
    <3>2. b.search \in SearchSet
      BY <1>1, <1>5, Kinds DEF SearchB
    <3>3. R!LookFor
      BY <1>3, <1>4, <2>1, <2>3, <3>1, <3>2 DEF R!LookFor, SearchIn, PagingOf, Some
    <3> QED
      BY <3>3 DEF R!Next
  <2> QED
    BY <2>2, <2>3
<1>6. b.kind # "Search" => SearchIn(params') = SearchIn(params)
  BY <1>1 DEF Brings, BringsSearch
<1>7. CASE b.kind = "Page"
  <2>1. PagingOf(params') = PageOnly(b.page) /\ SearchIn(params') = SearchIn(params)
    BY <1>1, <1>6, <1>7 DEF Brings, BringsPaging
  <2>2. b.page \in PageSet
    BY <1>1, <1>7, Kinds DEF PageB
  <2>3. R!TakePage
    BY <1>3, <1>4, <2>1, <2>2 DEF R!TakePage, SearchIn, PagingOf, PageOnly, Some
  <2> QED
    BY <2>3 DEF R!Next
<1>8. CASE b.kind = "Cursor"
  <2> DEFINE Keyed == [kind : {"Cursor"}, values : 0..(MaxCursorFields + MaxCalls),
                       direction : {"After", "Before", "None"}, error : BOOLEAN]
  <2>1. SearchIn(params') = SearchIn(params)
    BY <1>6, <1>8
  <2>2. b.cursor \in Keyed
    <3>1. b.cursor \in CursorSet /\ b.cursor.values <= MaxCursorFields + calls
          /\ calls \in 0..MaxCalls
      BY <1>1, <1>8, Kinds DEF BuildInv, CursorB
    <3>2. b.cursor.values \in 0..(MaxCursorFields + MaxCalls)
      <4>1. b.cursor.values \in Nat
        BY <3>1 DEF CursorSet
      <4> QED
        BY <3>1, <4>1, BoundsAssumption
    <3> QED
      BY <3>1, <3>2 DEF CursorSet
  <2>3. CASE PagingOf(params') = PagingOf(params)
    BY <1>3, <1>4, <2>1, <2>3 DEF Asked, SearchIn, PagingOf
  <2>4. CASE PagingOf(params') = [PagingOf(params) EXCEPT !.pagination = Some(b.cursor)]
    <3>1. R!TakeCursor
      BY <1>3, <1>4, <2>1, <2>2, <2>4 DEF R!TakeCursor, SearchIn, PagingOf, Some
    <3> QED
      BY <3>1 DEF R!Next
  <2>5. CASE params = NoParams /\ PagingOf(params') = CursorOnly(b.cursor)
    <3>1. FlatFilters = <<>> /\ FlatSorts = <<>>
      <4>1. Flat(params.filters) = <<>> /\ SortsIn(params) = <<>>
        BY <2>5, NoParamsType DEF Flat, SortsIn
      <4>2. OpenFilters(open) = <<>> /\ OpenSorts(open) = <<>>
        BY <1>1, <1>8 DEF OpenFilters, OpenSorts, FiltersOf, SortsOf
      <4> QED
        BY <4>1, <4>2, AskedFor, ConcatEmptySeq
    <3>2. SearchIn(params) = <<>> /\ PagingOf(params) = [pagination |-> <<>>, limit |-> <<>>, offset |-> <<>>]
      BY <2>5, NoParamsType DEF SearchIn, PagingOf, None
    <3>3. PagingOf(params') = [PagingOf(params) EXCEPT !.pagination = <<b.cursor>>, !.limit = <<CursorSize>>]
      <4> DEFINE c == b.cursor
      <4>1. CursorOnly(c) = [pagination |-> <<c>>, limit |-> <<CursorSize>>, offset |-> <<>>]
        BY DEF CursorOnly, Some, None
      <4> HIDE DEF c
      <4>2. [PagingOf(params) EXCEPT !.pagination = <<c>>, !.limit = <<CursorSize>>] =
              [pagination |-> <<c>>, limit |-> <<CursorSize>>, offset |-> <<>>]
        <5> DEFINE mid == [PagingOf(params) EXCEPT !.pagination = <<c>>]
        <5>1. mid = [pagination |-> <<c>>, limit |-> <<>>, offset |-> <<>>]
          BY <3>2
        <5>2. [PagingOf(params) EXCEPT !.pagination = <<c>>, !.limit = <<CursorSize>>] =
                [mid EXCEPT !.limit = <<CursorSize>>]
          OBVIOUS
        <5> HIDE DEF mid
        <5> QED
          BY <5>1, <5>2
      <4> QED
        BY <2>5, <4>1, <4>2 DEF c
    <3> HIDE DEF b, Keyed
    <3>4. R!OnlyCursor
      BY <1>3, <1>4, <2>1, <2>2, <3>1, <3>2, <3>3 DEF R!OnlyCursor, SearchIn, PagingOf, Keyed
    <3> QED
      BY <3>4 DEF R!Next
  <2> QED
    BY <1>1, <1>8, <2>3, <2>4, <2>5 DEF Brings, BringsPaging
<1>9. CASE b.kind \notin {"Search", "Page", "Cursor"}
  <2>1. PagingOf(params') = PagingOf(params) /\ SearchIn(params') = SearchIn(params)
    BY <1>1, <1>6, <1>9 DEF Brings, BringsPaging
  <2> QED
    BY <1>3, <1>4, <2>1 DEF Asked, SearchIn, PagingOf
<1> QED
  BY <1>5, <1>7, <1>8, <1>9

\* Every other step asks for nothing, but limit() and offset().
LEMMA RestAsks ==
    ASSUME BuildInv, Open \/ LimitOffset \/ Build \/ Validate \/ UNCHANGED vars
    PROVE  R!Next \/ UNCHANGED Asked
<1>1. CASE Open
  <2>1. PICK b \in Builders(TRUE) : open' = <<b>>
    BY <1>1 DEF Open
  <2>2. SortsOf(b) = <<>> /\ FiltersOf(b) = <<>>
    BY OpenedType DEF SortsOf, FiltersOf
  <2>3. open = <<>> /\ params' = params
    BY <1>1 DEF Open
  <2>4. UNCHANGED FlatFilters
    BY <2>1, <2>2, <2>3 DEF FlatFilters, Opened, FiltersOf
  <2>5. UNCHANGED FlatSorts
    BY <2>1, <2>2, <2>3 DEF FlatSorts, Opened, SortsOf
  <2> QED
    BY <2>3, <2>4, <2>5 DEF Asked, SearchIn, PagingOf
<1>2. CASE LimitOffset
  <2>1. PICK n \in Numbers : \/ params' = [params EXCEPT !.limit = Some(n)]
                             \/ params' = [params EXCEPT !.offset = Some(n)]
    BY <1>2 DEF LimitOffset
  <2>2. params \in ParamsSet /\ n \in U32 /\ UNCHANGED open
    BY <1>2, Numerals DEF BuildInv, LimitOffset
  <2>3. /\ params'.filters = params.filters /\ params'.sort_by = params.sort_by
        /\ params'.search = params.search
        /\ \/ PagingOf(params') = [PagingOf(params) EXCEPT !.limit = Some(n)]
           \/ PagingOf(params') = [PagingOf(params) EXCEPT !.offset = Some(n)]
    BY <2>1, <2>2 DEF ParamsSet, PagingOf
  <2>4. UNCHANGED <<FlatFilters, FlatSorts, SearchIn(params)>>
    BY <2>2, <2>3 DEF FlatFilters, FlatSorts, SearchIn, Opened
  <2>5. R!Resize
    BY <2>2, <2>3, <2>4 DEF R!Resize, SearchIn, PagingOf, Some
  <2> QED
    BY <2>5 DEF R!Next
<1>3. CASE Build \/ Validate \/ UNCHANGED vars
  <2>1. UNCHANGED <<params, open>>
    BY <1>3 DEF Build, Validate, vars
  <2> QED
    BY <2>1 DEF Asked, FlatFilters, FlatSorts, SearchIn, PagingOf, Opened
<1> QED
  BY <1>1, <1>2, <1>3

\* ParamsBuilder and its sub-builders implement the flat request: the builders
\* within the builder, and when they are handed back, are not to be seen.
THEOREM BuildersImplementRequest == Spec => ImplementsRequest
<1>1. Init => R!Init
  <2> SUFFICES ASSUME Init PROVE R!Init
    OBVIOUS
  <2>1. params = NoParams
    BY DEF Init
  <2>2. open = <<>> \/ \E b \in Builders(FALSE) \cup {BareSorts, BareCursor} : open = <<b>>
    BY DEF Init
  <2>3. OpenFilters(open) = <<>> /\ OpenSorts(open) = <<>>
    <3>1. ASSUME NEW b \in Builders(FALSE) \cup {BareSorts, BareCursor}, open = <<b>>
          PROVE  OpenFilters(open) = <<>> /\ OpenSorts(open) = <<>>
      <4>1. FiltersOf(b) = <<>> /\ SortsOf(b) = <<>>
        BY OpenedType DEF FiltersOf, SortsOf
      <4>2. open # <<>> /\ open[1] = b
        BY <3>1
      <4> QED
        BY <4>1, <4>2 DEF OpenFilters, OpenSorts
    <3>2. CASE open = <<>>
      BY <3>2 DEF OpenFilters, OpenSorts
    <3> QED
      BY <2>2, <3>1, <3>2
  <2>4. Flat(params.filters) = <<>> /\ SortsIn(params) = <<>>
    BY <2>1, NoParamsType DEF Flat, SortsIn
  <2>5. FlatFilters = <<>> /\ FlatSorts = <<>>
    BY <2>3, <2>4, AskedFor, ConcatEmptySeq
  <2> QED
    BY <2>1, <2>5, NoParamsType DEF R!Init, None
<1>2. BuildInv /\ BuildInv' /\ [Next]_vars => [R!Next]_(R!vars)
  <2> SUFFICES ASSUME BuildInv, BuildInv', [Next]_vars PROVE [R!Next]_(R!vars)
    OBVIOUS
  <2>1. R!Next \/ UNCHANGED Asked
    BY CallAsks, HandingAsks, RestAsks DEF Next, CallOfBuilder
  <2> QED
    BY <2>1 DEF Asked, SearchIn, PagingOf, R!vars
<1>3. Spec => []BuildInv
  BY BuildInvInit, BuildInvNext, PTL DEF Spec
<1> QED
  BY <1>1, <1>2, <1>3, PTL DEF Spec, ImplementsRequest, R!Spec
=============================================================================
