# sqlx-data in TLA+

sqlx-data generates repository methods for Rust traits: a macro reads the SQL of
a method, and the code it generates combines that SQL at run time with the
filters, sorting and pagination of a request, sends it through sqlx, and turns
rows into pages. This directory holds a verification development of it: TLA+
modules translated from the source, TLC configurations that model-check them on
small instances, and TLAPS proofs of the results that matter most for every
instance. Paths below are relative to the repository.

Contents: 1 inventory, 2 modules and code, 3 what the runs check, 4 what is
proved, 5 where code and words disagree, 6 what is not modelled, 7 plan.

## 1. Inventory

| Component | Code | State | Operations |
|---|---|---|---|
| Cursor pagination | `sqlx-data-params/src/{builder,cursor,params,response}.rs` | `Params`, `CursorParams` (direction, values, error), the page with its two tokens; the client keeps the page | `first_page`, `after`, `before`, `next_cursor`, `prev_cursor`, `done`; `Cursor::new`, `generate_cursors` |
| Cursor condition | `sqlx-data-parser/src/dynamic/builder.rs` 575-729 | values bound so far, recursion depth | `process_select`, `build_cursor_condition_recursive` |
| Serial and Slice pagination | `sqlx-data-params/src/{serial,slice,response}.rs`, `sqlx-data-macros/src/code_generator.rs` 1443-1590 | page number and size, rows fetched, total | `new`, `offset`, `into_params`, the data query, the COUNT query, `Serial::new`, `Slice::new`, `trim_to_page` |
| Placeholder binding | `sqlx-data-parser/src/dynamic/builder.rs` 19-262, 736-758 | text, bind values, numbers of the declared query, next `u8` | trim, collect, generate, renumber and reorder |
| Filter, search and WHERE construction | `sqlx-data-parser/src/dynamic/builder.rs` 264-575, 625-656, 760-915, `sqlx-data-params/src/{filter,search}.rs` | the statement's tree, the values bound | filters, search, cursor, grouping, for each SELECT of a union |
| Count query | `sqlx-data-parser/src/core/parser_count.rs` | none | choice of a strategy, rewriting |
| Params builders, field validation | `sqlx-data-params/src/{builder,sort,filter,search,...}.rs`, `sqlx-data-parser/src/dynamic/validation.rs` | `Params` under construction, the open sub-builder | every call of the fluent interface, nested builders and their `done`; `validate_fields` |
| Parse and count caches | `sqlx-data-parser/src/{global_cache,core/parser,dynamic/count}.rs` | two process-wide moka caches, hit and miss statistics in a DashMap | `get`, `insert`, `record_hit`, `record_miss`, eviction; `parse_sql`, `build_count_query_from_sql` |
| Alias substitution | `sqlx-data-macros/src/alias_system.rs` | text, set of names substituted | `substitute_aliases`, `validate_no_unresolved_aliases`, (de)serialisation |
| Scopes | `sqlx-data-macros/src/scope_system.rs` | scopes and names to ignore, in hidden attributes | (de)serialisation, injection of SELECT, FROM, JOIN, WHERE, GROUP BY, HAVING, ORDER BY |
| Macros | `sqlx-data-macros/src/{repo_system,dml,lib,fetch,method_variants}.rs` | a method on its way through the passes | inject, extract, aliases, scopes, @name to placeholders, kind, validations; variants with an executor |
| Generators, type analysis, INSERT parsing | `sqlx-data-macros/src/{code_generator,type_analyzer}.rs`, `sqlx-data-parser/src/core/parser_insert.rs` | none; a call has the rows it fetched | choice of a generator and of a fetch method, casts, multi-row INSERT, two queries of a page |
| Adapters, facade, test helpers | `sqlx-data-params/src/adapter`, `sqlx-data/src`, `sqlx-data-integration/src`, `test_framework.rs` | none | pure functions, re-exports |

How they interact. When a crate is compiled, `#[repo]` writes the aliases and scopes of a trait
into hidden string attributes of its methods; `#[dml]` reads them back, substitutes, merges and
numbers, and generates the method's body for its return type. When the program runs, a caller builds
a `Params` with the fluent interface. A generated method of a paginated kind collects its arguments
into `initial_binds`, calls `build_dynamic_sql` (which asks the parse cache for
the tree, edits a copy of it, binds values and renumbers placeholders), awaits
`fetch_all`, for Serial and Slice asks the count cache for a COUNT query and
awaits it, and calls `Serial::new`, `Slice::new` or `Cursor::new`. The caches are
shared by all threads; everything else belongs to one call. There is no
transaction: between two awaits, and between two calls of a client that reads
on, other writers change the table.

What is hard, and what makes each component correct:

- Cursor pagination: a token is the key of a row of an earlier page of a table
  that has changed since. Backward pages are fetched in the opposite order, and
  tokens, flags and data are turned around at different points. Correct: a page
  is what its request asks for; a walk repeats no row, misses none that stays,
  and ends.
- Cursor condition: a recursion creates placeholders on the way in and on the way
  out. Correct: the rows selected are exactly those beyond the cursor, in
  lexicographic order with a direction per field.
- Serial and Slice: page numbers count rows of a moving table, the total is that
  of a third instant, and offsets saturate. Correct: the page is the one asked
  for, the flags are true, and drift has the causes it must have and no others.
- Placeholder binding: three representations (`$n`, `?`, `?` made from `$n`) and
  values that are dropped, appended and reordered. Correct: each placeholder gets
  the value it stands for, and there are as many values as placeholders.
- Caches: lookup and insert are two steps, an entry can vanish between any two,
  the key is a 64-bit fingerprint. Correct: nobody can tell that there is a cache.
- Alias substitution: the order of a HashMap decides which alias goes first.
  Correct: what is reported depends on the aliases, not on the order; it ends.
- Requests: builders own their parent, may be opened again and handed back in any order.
  Correct: what is built is what was asked for, call by call; columns given at run time pass only
  through a list.
- WHERE: three sources of conditions are joined with a WHERE of any shape, in text where AND
  binds tighter, over columns that may be NULL. Correct: the rows are those of the method's own
  WHERE for which every condition of the request holds.
- Count: several strategies replace the select list. Correct: the total is the number of rows.
- Methods: text passes through strings with separators and through HashMaps. Correct: nothing is
  lost on the way, whatever the order; each argument arrives at its place; what the database answers
  is what the caller receives.

`PROJECT.json` lists these hazards, each at the line where it bites, with the
properties that watch it or the reason why none does yet.

## 2. Modules and code

| Module | Models |
|---|---|
| `CursorPagination` | a client, a method call in three steps, other writers |
| `KeysetWalk` | what a forward walk promises, without pages, tokens or statements |
| `KeysetPredicate` | the recursion that builds the condition of several sort fields |
| `OffsetPagination` | Serial and Slice: a call with its two queries, and other writers |
| `PlaceholderBinding` | one run of `build_dynamic_sql` over placeholders and values |
| `ParseCache` | both caches under concurrent callers |
| `AliasSubstitution` | the substitution loop in any order of the map |
| `RequestCalls` | what the fluent interface promises: one flat request |
| `ParamsBuilding` | the builders with their parents, and `validate_fields` |
| `WhereConditions` | the conditions of a request in every SELECT of a statement, and what they select |
| `CountQuery` | extends `WhereConditions` with the count statement and its answer |
| `MethodText` | the text of a method from `#[repo]` to its placeholders |
| `GeneratedMethod` | extends `MethodText` with the generated body and a call of it |
| `*_proofs` | theorems about the module of that name |
| `MC*` | small instances for TLC |

Operators that follow a "Mutant" comment are not part of any specification: each
is a definition as a plausible bug would have it, and replacing the definition by
it makes TLC report the property named for it in `PROJECT.json`.

**CursorPagination.** `table` is the database; `req` the `Params`; `rows` what
`fetch_all` returned; `page` what the client holds. Requests are made by
`FirstPage`, `FollowNext`, `FollowPrev`, `Seek` (`after` and `before` with a value
of the client's own) and `BadToken` (a token that does not decode). The generated
method is `BuildFails` or `Execute` (the statement reads the table of one
instant: `IsResult` says which answers to WHERE, ORDER BY and LIMIT are allowed,
ties in any order) or `FetchFails`, then `Finish` (`Cursor::new` with its tokens)
or `PageFails`. `Insert` and `Delete` may happen between any two steps. A row is an
identity with a key, a rank in the order of the sort; whether the condition of
several sort columns stands for such a rank is the business of `KeysetPredicate`.
Variables marked history record what the properties need and decide nothing.
`KeysetWalk` is implemented by the refinement in `Promise`.

**KeysetPredicate.** One field per step of the recursion: `Descend` binds a
value on the way in, `Ascend` makes the equality on the way out, binding the value
once more where placeholders cannot stand twice (`Reuse` is FALSE: MySQL). `Send`
and `Read` evaluate the condition level by level, with the arguments a database
gives to its placeholders; `NoCursor`, `Reject` and `Accept` are the tests before.

**OffsetPagination.** `Paged` is what `SerialParams`/`SliceParams` and their
builders put in `Params`; `Fetch`, `Count`, `Fail` and `Finish` are the generated
method; `NewSerial` and `NewSlice` are the responses, with the fallbacks they have
for a request of another kind. Page numbers and sizes are u32 with the code's
saturating, wrapping and clamped arithmetic. A walk asks for page + 1 while the
response says there is more.

**PlaceholderBinding.** A statement is the sequence of its placeholders and of the
places where conditions go. `Prepare` is `trim_limit_offset_placeholder_binds` and
`collect_numbered_placeholders`, `Start` and `Conditions` the generator with its
u8, `Page` the replacement of LIMIT and OFFSET, `Renumber` and `Send` the last
pass. The history variable `means` carries what each placeholder stands for through
every edit. `Sound` names the queries whose values stay with their placeholders, by the text alone:
`NumbersInOrder` (with `NumbersFit`, enough numbers in a u8) or, for MySQL, `QuestionsFirst`.

**ParseCache.** The stages of a call are `pc`; each lookup and each insert is one
step on the cache and, later, one step on the statistics (`Record`), because the
code does the one and then the other without a lock over both. `Evict` may drop
any entry at any time, which is all that moka promises.

**AliasSubstitution.** `String::replace` replaces all occurrences, so a text is the
set of names in it. `Init` chooses the contents of every alias, the query and the
order of the map; `Skip`, `Substitute`, `Circular`, `Again` and `Return` are the
loop.

**ParamsBuilding.** `params` is the `Params`, `open` the sub-builder that owns it. Every call of a
builder is an action whose guard is its typestate: what does not compile is no step. `Done` hands the
parent back, `Become` is a sub-builder used without a parent (given to the method, or built first),
`Validate` is `validate_fields`. A `CursorBuilder` brings its cursor only, but `CursorParams`, which its
`build()` returns and which can be given to a method as they are, bring a limit as well (`Built`, `CursorAlone`;
`OnlyCursor` of the request). The refinement to `RequestCalls` joins what is handed back and what
the open builder still holds; there, a call appends, replaces or changes the last, and `done()` is
a stutter.

**WhereConditions and CountQuery.** A condition is the text it prints, a sequence of disjuncts of
conjunctions, with `Nested` for `Expr::Nested`; `and`, `or` and `grouped_and` are the functions of
that name, and joining two texts side by side lets the last disjunct of one and the first of the other
become one, which is how precedence shows. `Select` is `process_select` (all filters, then the search, then
the cursor, then the join with the existing WHERE), `Pass` a body without WHERE, `Fail` its errors. `Holds`
and `Selects` evaluate the text over rows with NULL. `Generate` chooses a strategy (`Analysis`) and `Count` is
the database's answer, compared with the number of rows of the data statement (`RowsOfAll`).

**MethodText and GeneratedMethod.** Text is a sequence of tokens; those at which the attributes are
split (`;` `|` `:` `=` and the escape) are tokens of their own. `Inject` is `#[repo]`, in any order of its
maps; `Extract`, `ApplyAliases`, `ApplyScopes`, `Convert` and `Detect` are the passes of `#[dml]` in their order,
each with its errors. `Generate` chooses the generator or refuses; `Send`, `Respond` and `Insert` are a call,
for any answer of the database: `Cell` decodes or casts, `PoolExpr` chooses the executor. A parameter
is named after the column it is compared with, so that the meaning of a placeholder can be read off the
text. `Pieces` and `OneOfEach` are the splits and what the HashMap keeps of the entries read (one of each
name, any one). Aliases name no further alias here (`AliasSubstitution` has those), and a scope's expression is a
condition or an item of a list.

## 3. What the runs check

All runs take at most a minute or two. "Violation" runs are those of section 5.

| Run | Result | Instance |
|---|---|---|
| `cursor_walk` | passes | 3 rows, limits 1, 2 and none (default 2), descending, one row that refuses to be a token, with and without sort |
| `cursor_ends` | passes | 4 rows, limits 1 and 2, `WalkSpec` |
| `keyset_numbered` | passes | up to 3 fields of 3 values |
| `offset` | passes | 3 rows, sizes 0 and 2, pages 0, 2, 5, 7, u32 of 3 bits |
| `binding` | passes | up to 5 placeholders, 1 or 2 SELECTs, up to 3 values each |
| `alias_order` | passes | 3 aliases, 1 unknown name |
| `parse_cache` | passes | 2 threads, 4 texts, 3 calls |
| `params` | passes | 6 calls, 2 conditions, 2 columns, 2 lists |
| `statement` | passes | 12 rows with NULLs, pairs of 55 filters, 9 searches, 11 cursors, 5 shapes of WHERE, 62 statements |
| `statement_not_in` | violation | `not_in` with lists of 1 and 2 |
| `method` | passes | 15 scopes in pairs, 6 that can be torn, 5 such aliases, 2 parameters, 7 wrappers of return types, 3 types, 3 builds |
| `method_scope_params` | violation | the documentation's scopes |

`cursor_walk`. `PageExact`: a page holds the rows nearest to its cursor on the side
asked for, in the client's order, and the look-ahead row decides the flag. `TokensAtEnds`: in the direction a page was read, in either one,
tokens go with flags and no row of the page lies outside them. `NoDuplicates`
and `NoSkips`: walks under concurrent writes. `BackReturns`: prev after next, with no
write in between, is the page before. `KeepsPromise`: refinement of `KeysetWalk`.
Three rows are the smallest table with a page in the middle of limit 1, a short
last page of limit 2, and more rows than the default limit; since a row may be
deleted and inserted again at any time, longer walks over few rows are covered. The
sort is descending so that no comparison is right by accident. Limits of 0 and of the
greatest u32 are left out: with either in `cursor_walk.cfg`, `PageExact` and
`NoSkips` fail (section 5).

`cursor_ends` has `WalkEnds` under `WalkSpec`: weak fairness of the client's
`WalkOn`, of `Execute` and of `Finish`. It is what the code gives: an `async` method
that is awaited is polled until it completes, and the loops of the integration tests
ask for the next page while `has_next` holds. Writers have no fairness and may write
for ever. A database that fails every call is left out, as no walk survives it.

`keyset_numbered`: `SelectsBeyond` against the textbook definition of lexicographic
order (`Beyond`). Three fields have an
outermost, a middle and a last level; three values have one below, one equal and one
above.

`offset`: `PageExact` compares each page with the rank of rows in the table its query read
(`RowsExact`), the flag with the rows that are left (`HasNextExact`), and the rows with the total
if nobody wrote between the two queries (`TotalsFitPage`); and `NoSkipsWithoutDeletes` and `NoRepeatsWithoutInserts` say of walks
that a row can only be missed if somebody deleted and only be repeated if somebody
inserted. `MaxU32` is 7: pages 5 and 7 of size 2 begin behind it, so saturation happens. Keys
are unique here (a constant assumption).

`binding`: `BoundAsMeant` and `ArgumentsMatch` (as many values as placeholders). `MaxU8` is 10, the greatest number any
of these uses makes, so the boundary is tight: one more would wrap. `SoundUses` are the
`Sound` ones of three families: up to four numbers in one SELECT or a UNION of two, LIMIT $1 OFFSET $2
before the other numbers, and MySQL queries whose `?` stand before the conditions. The others are section 5.

`alias_order`: `UnknownReported` and `CirclesReported` compare the outcome with `Reach`,
everything the query needs however deep; `Returns` that the loop ends. `WF_vars(Next)` is the function running.
Every contents of three aliases over four names is tried in each of the six orders:
chains, diamonds, and circles of length 1, 2 and 3.

`parse_cache`: `AnswersRight` (transparency), `WorkShared` (a text is parsed at most once per
thread while its entry is not evicted) and `CallsReturn`. Fairness is weak for
each thread that is in a call, as the operating system schedules it; `Start` and `Evict` have
none. Two threads are enough to miss together. The texts are one statement and each kind of
text that is none; `MaxCalls` bounds the calls in all, since counters grow with each, and
three calls allow a hit after two concurrent misses. Fingerprints are distinct: with a
collision in the cfg, `AnswersRight` fails, as it must.

`params`: `ImplementsRequest` is the refinement. `JudgedByFirstList`: a request is accepted exactly when
all its run-time columns are in the first list that came with a sort column, and its cursor is not too
long. `SizesAgree`: the page a response will speak of is the page that is fetched, unless `limit()` or
`offset()` comes after it. Six calls are enough for two sort builders with a list and a column each, or three
builders with a call each. `DefaultSize` is 1, the size a bare
cursor brings (`CursorSize`) is 2, and page 3 of size 2 begins behind `MaxU32` = 3.

`statement`: `SelectsAsAsked` says of one row and without SQL what a filter, a search and a cursor mean, for
SELECTs whose own WHERE has no OR outside parentheses, and for every operator, with NULL among its values or not,
but those of section 5 (`Faithful`): a `%` or `_` that is to be taken literally is among these. `NeverMoreThanWritten` has no premise: no request widens a method's WHERE. `BoundInTextOrder` is
what dialects without numbers need. `TotalExact` compares every strategy with the rows of the statement.
All pairs of filters meet all shapes of WHERE, and all statements meet a few requests; the two halves interact in
the WHERE only. The build is one without `postgres`, the one with more cases. Row values are two numbers and three
texts, so that each comparison has a row below, at and above, and LIKE one that matches in one case only.

`method`: `RowsAsMeant` compares the conditions as executed (precedence, and the argument each placeholder gets)
with the conditions as written, for every order of the maps; its premises (`InOrder`: without scopes each `?` would get
its argument, and no scope has one; no OR in a condition that is joined with another; `NoEntryInside`) are section 5.
`ClausesExtended` is the same of the other clauses.
`Delivered` compares what the method returns with what the database answered. `InsertedAsWritten`: an INSERT of
many rows. `CountAsksSame`: data and count ask one executor with the same arguments. Scopes come in pairs, so that
two of one target, one ignored beside one that is not, and separators in either position happen; `TornMethods` have
texts that hold an entry, a list or a name of their own, with and without `NoEntryInside`. `MaxU8` is 3, and the answers
hold a value that does not fit.

`CHECK_DEADLOCK FALSE` stands where a run of the program ends (`alias_order`, `binding`, `keyset_numbered`, `statement*`,
`method*`: a statement is built, or a call made, once) or where a bound ends it (`MaxCalls` in `parse_cache` and `params`,
where a judged request is the end besides).

## 4. What is proved

All theorems hold for every value of the constants that satisfies the module's named
assumptions; conditions beyond these are in the theorem's ASSUME.

**CursorPagination_proofs.** `TypeCorrect`. `WalksReceiveNoRowTwice` (`NoDuplicates`), also for
equal keys and any limit: the inductive invariant `WalkInv` says that the page is in order,
that it lies strictly beyond all rows before it, that its next token is not before any of them
(`WalkPage`), that a request under way carries this token (`WalkRequest`), and that rows under
way lie beyond it (`WalkRows`). None of these is stable without the others, since the token is
made in one step, used in a second and its effect seen in a third. `WalksSkipNoRow` (`NoSkips`)
assumes unique keys (`UniqueKeys`) and limits that count (`LimitsCount`: neither 0 nor u32::MAX);
`SkipInv` adds that stable rows were in the table the statement read and that the rows are
an answer to it. The central lemma is `LeftOutComesLater`: a row selected and not kept comes after
all rows kept, and there is a next page. `WalksKeepTheirPromise` proves the refinement step by
step from both invariants. `PagesAreExact` (`PageExact`, with `LimitsCount`, keys may repeat) and
`TokensMatchFlags` (`TokensAtEnds`, no condition: pages of both directions) rest on `PageInv`: the page is made (`MadeOf`) of an answer the
statement may give for the request and the table it read. `PreviousUndoesNext` (`BackReturns`, with both conditions):
`BackInv` has the table of every statement since the last write (`QuietInv`), the request of `prev_cursor`
(`PrevCall`), and that the page in hand follows the page to come back to (`TrailInv`); rows ranked by a
unique key have one answer only, so the page fetched backwards and turned around is the old one.

The last part of the same module is about `KeysetPredicate`: `ConditionTypeCorrect` (`ConditionTypeOK`) and
`ConditionSelectsBeyond` (`SelectsBeyond`), for any
number of fields, directions and values, if placeholders may stand twice or there is
one field (`Resolves`). The invariant relates each level to its field (`LevelsFrom`), each slot to
its value (`Bound`), and the rows chosen so far to `Beyond` from the field read last;
`BeyondStep` unfolds the lexicographic order once, which is what one level of the condition does.

**ParseCache_proofs.** `TypeCorrect` and `CachesAreTransparent` (`AnswersRight`), for any number of
threads and calls, if `Fingerprint` is injective. The invariant: each entry is the value of a
text that parses and has this key (`EntriesTrue`), and a statement a thread holds is that of its
own text (`StatementsOwn`). Injectivity is needed exactly once, at a hit (`EntryOwn`).
`WorkIsShared` (`WorkShared`), for any finite number of threads and colliding fingerprints too: the parses of a text and
the threads that have missed it and not parsed it yet are together no more than the threads, and once it is parsed its
entry is there (`Shared`).

**AliasSubstitution_proofs.** `TypeCorrect`, `NamesAreResolved` (`UnknownReported`) and
`CirclesAreReported` (`CirclesReported`), for any finite set of aliases and any order. The invariant:
the text and the names substituted cover what the query needs and nothing else (`Covered`); a
pass that changed nothing has left no alias it has seen (`Passed`); a circle among substituted
aliases is still in the text (`Broken`), which is why `ok` is impossible with one.

**OffsetPagination_proofs.** `CallInv`: what a call has fetched is the answer of the table its query read, the
count that of the table the COUNT query read (`InFlight`), and the page is made of the two (`Answered`).
`TypeCorrect` follows, and `PagesAreExact` (`PageExact`) for tables a u32 can count (`SmallTables`) and sizes below
u32::MAX (`SizesCount`); without the first a saturated offset shows a page that was not asked for. The walks:
`Pace` (a call of a walk goes on where the last page ended), `NoneTwice` for `DeletesRepeatNone`
(`NoRepeatsWithoutInserts`) and `NoneLeftOut` for `InsertsHideNone` (`NoSkipsWithoutDeletes`). Both are about
ranks: rows received move to no higher rank while nobody inserts, rows not received to no lower one
while nobody deletes, in the table and in those the queries have read.

**ParamsBuilding_proofs.** `BuildInv` types the request and the open builder, and ties the unsafe columns of a
sort builder to its sorts. Each call is one of few moves (`Called`), and handing a builder back brings
its part and leaves the rest (`Brings`); from these two, `TypeCorrect`, `PagesSizeTheirStatement` (`SizesAgree`, by
`SizeInv`), `JudgedByItsFirstList` (`JudgedByFirstList`: the unsafe columns of the request are those of the
builders handed back, its list the first of theirs, `JudgeInv`) and `BuildersImplementRequest`, the refinement, for
any number of calls, builders and columns.

**CountQuery_proofs.** `OwnWhereStands` (`NeverMoreThanWritten`) for every shape of WHERE and every request: joining never adds
a disjunct and never takes an atom from one (`KeepsOwn` in `OwnInv`), and what has more atoms selects fewer rows
(`KeptNarrows`), in three truth values. `RequestsAreKept` (`SelectsAsAsked`) for every operator, any number of filters,
search fields, sort columns and SELECTs: `PlacedInv` says that a SELECT that is done has its own WHERE joined with the
conditions of the request, and that the arguments these are about lie where their placeholders look; so joining,
grouped as it is, means "and" (`CombinedMeans`), each argument is found among those bound for all filters before it
(`FlattenAt`, `BoundAt`), and each condition means what the caller meant (`FilterMeans`, `SearchMeans`,
`CursorMeans`). `ArgumentsInTextOrder` (`BoundInTextOrder`), of statements with any arguments of their own: the
WHEREs that are done have, read one after the other, one number for each argument bound so far (`OrderInv`). For
this, a text goes on with the numbers of the one before it and repeats at most some of them (`GoesOn`, `OrderBeside`), as
the depths of a cursor do (`CursorPlaces`); joining two conditions and putting one in parentheses leave their
placeholders in order (`PlacesBeside`, `PlacesNested`); and what is written by hand holds no number above the
method's own arguments (`WrittenAssumption`: a name becomes the number of its parameter, and the macros of sqlx that the
generated method calls count the arguments against the statement). `TotalsAreExact` (`TotalExact`) for every strategy,
table and statement, by cases of `Analysis` (`Strategies`, `AnswerCounts`). `TypeCorrect`. The assumptions on the requests (`CallsAssumption`, `ArgsAssumption`, `CountAssumption`) say
that lists are sequences, filters those a `FilterBuilder` makes, with an array where one is expected (an array
elsewhere panics when it is bound, adapter/sqlx.rs 102), and statements are statements. `OrderAssumption` is that of a
cursor's value and a row's one comes first or they are the same, and `PatternAssumption` that a pattern is not NULL.

**PlaceholderBinding_proofs.** `TypeCorrect` for every query, `PlaceholdersGetTheirValues` (`BoundAsMeant`) and
`EveryValueIsAskedFor` (`ArgumentsMatch`) for queries that are `Sound` (`UsesSound`), with any number of SELECTs,
placeholders and values; queries outside `Sound` are section 5. `BoundInv`: the value of every number that stays
is found where the last pass looks for it (`Resolves`), new numbers continue the old ones as their values
do and fit a u8 (`Continues`), the values moved are those of the numbers met (`Moved`); with `?`, the text that stays
begins with a `?` for each value (`InPlace`). The step the scheme depends on is collecting:
numbers that first appear in ascending order are collected in the order of their values, which the lemmas
about the k-th element of a finite set (`Place`, `Nth`, `Ascending`) say.

**GeneratedMethod_proofs.** About `MethodText` and `GeneratedMethod` together, for any traits, arguments, builds and
answers. `TextInv`: the clauses of the statement, the two attributes, and the aliases and scopes read back from them are
texts of whole tokens, whose numbers are at least 1; after `Extract` a method has at most one executor. It rests on
what each pass does to a text (`SubstituteType`, `SplitType`, `AliasesWritten`, `ScopesWritten`, `ScopesRead`, `ScopedType`,
`PositionalType`). `CallInv`: the generator is the one the declaration asks for, and what was sent and returned is what it
makes of the statement and the answer, or of the list (`Inserted`). `TypeCorrect` follows from both. `RowsAreDelivered`
(`Delivered`): a return type has one outermost wrapper other than Result (`OuterIs`), a checked scalar in an Option is the one
case where a NULL is asked for as such (`ScalarIs`), a value that fits its type is the same cast and decoded (`CellIs`), so
rows that fit are converted without error to what they hold (`RowIs`), and each way to fetch returns those of them its type has
room for (`OutcomeDelivers`). `InsertsAreExact` (`InsertedAsWritten`), for lists of any length. `CountsAskTheSame`
(`CountAsksSame`): only the select list of the count differs, so unless it holds a `?` as many of them stand
before any place of WHERE and HAVING as before (`CountPlaces`), and the executor is the only one there is. The
assumptions are those of the Rust types: a page stands in `Result` and nowhere else (`ReturnsAssumption`; a trait method of
another type does not compile), rows hold integers and NULL (`AnswersAssumption`), and a list of tuples has an
element for each of the VALUES, as the database refuses another number of columns (`InputsAssumption`).

Where an answer is a sequence, its i-th row is the one of rank i in a finite set, and a claim about all ranks is
refuted at the least one that breaks it; where sequences are joined to one, a claim about the first i of them goes
from each i to the next (`Upwards`, which says of a set of numbers what induction says of a predicate).

`ClausesAreExtended` (`ClausesExtended`) and `RowsAreAsMeant` (`RowsAsMeant`), for any traits, aliases and scopes, by `MergeInv`: it
follows the text from the attributes to the statement. When `#[dml]` begins, the attributes are what some order of the
maps makes of the declared aliases and scopes (`Hidden`); when it has read them, the active scopes are the declared
ones (`ScopesKept`), and so are the aliases, or what was read of them ends in a `\` (`AliasesKept`); then the clauses are the written ones with their
aliases replaced (`Replaced`), then these with each scope merged once, in some order (`Merged`), and last the same with
its names numbered (`Numbering`). The step that is hard is reading. Splitting undoes joining where no part holds the mark
(`PiecesBeside`), and where one does, a piece has no `=`, no prefix or no target, or keeps a `\` that no parser takes, and
the method is refused, but for the texts `NoEntryInside` leaves out. So the proof is by cases of where the
first separator of a text stands, and its result is that what compiles has crossed whole. From `Merged`, the other
clauses follow one by one. For the conditions, a clause of a statement is what is written with a tail of
the scopes' tokens, and under `InOrder` a token of the tail asks for nothing by its position (`Fixed`), so the `?` before a place
are those that stand there without scopes and the place is bound to the same parameter (`BoundTo`); and without an OR a
condition holds if all its atoms do, those of the tail as well as its own.

Every safety invariant and every action property of the runs is stated by one of these theorems. Only model-checked is
liveness (`WalkEnds`, `Returns`, `CallsReturn`), as the installed provers do not reach fairness and ENABLED. Induction
theorems with a predicate as their parameter are not available to them either, so the recursion of `KeysetPredicate` is
a state machine, whose steps the invariant follows. No module declares a RECURSIVE operator.

## 5. Where code and words disagree

With a run of its own:

- `statement_not_in`: `.not_in(column, list)` prints `IN`, since `NotIn` is built like `In` with the filter's `not`
  flag, which `not_in` leaves off; the rows returned are exactly those to be left out.
- `method_scope_params`: a scope with a `?` beside a method with one, as in the book: arguments are bound in the
  order of the parameters and the scope's condition comes last in the text, so each gets the other's argument.

Modelled, without a run of their own (each can be seen by the change named):

- On a page read backwards `next_cursor` is the key of the page's *first* row and `prev_cursor` that of
  its last, since both are made before the page is reversed and do not change places with the flags (response.rs
  190-203); either one leads back into the page. They are what `TokensAtEnds` says: tokens of the reading, not of the
  order shown. The names and the book ("Encoded cursor for next page", 06-pagination-strategies.md 353-354) promise
  `TokensLeadOn`: put it into `cursor_walk.cfg` in place of the properties there.
- `like`, `ilike` and `contains` are documented to escape `%` and `_` ("searching "test_file%" will match exactly
  "test_file%"", filter.rs 12-17, 29-31, builder.rs of sqlx-data-params 340-349, a comment at builder.rs 815), but the code
  adds an ESCAPE clause at most and binds the text as it is, so both stay wildcards. `Meant` takes the text literally
  (`Literal`), and `Faithful` leaves such texts out of `SelectsAsAsked`: `Calls <- LikeCalls` in `statement_not_in.cfg`
  shows the rows that should not be there.
- On MySQL a cursor of two fields or more binds v1, v2, v1 to placeholders that want v1, v1, v2 (builder.rs 717):
  `Reuse = FALSE`, `MaxFields = 2` in `keyset_numbered.cfg`.
- A query with `LIMIT $1 OFFSET $2` behind greater numbers and a request without a limit: values lie in the order of
  parameters and are taken in the order of the text (builder.rs 226): `Uses <- KeptLimits` in `binding.cfg`.
- SQLite queries written with `?` lose their arguments when a condition of the request adds a `$n` (builder.rs 254):
  `Uses <- SqliteQuestions` in `binding.cfg`.
- On MySQL a `?` after the conditions (HAVING) is given a value of the conditions: `Uses <- QuestionsBehind` in
  `binding.cfg`.
- `LIMIT $1 OFFSET $1` that a request replaces: the number is removed twice, and the value behind it is lost
  (builder.rs 118-138; `Shared`).
- An alias used by the query and by another alias is reported as a circle in one order of the map and not in the other
  (alias_system.rs 76-82): with `Alias <- Aliases2`, check `pc = "circular" => IsCircular`.
- A token that does not decode leaves no values, and `process_select` looks at the error only if
  there are some (builder.rs 578-583): the client gets the first page, not an error
  (`BadToken`, `BuildError`).
- A limit of 0 fetches one row and the page size is 1, so `has_next` is always false; a limit of
  u32::MAX wraps in a release build to LIMIT 0 (`FetchLimit`, `PageSize`). Put 0 or 7 into the limits of
  `cursor_walk.cfg`.
- A Slice method called with a plain limit asks for no look-ahead row, so `has_next` is always false
  (`FetchLimit` of `OffsetPagination`); a Serial method without serial pagination answers page 1 of 1,
  behind a comment that says it is never reached (`NewSerial`).
- `limit()` or `offset()` after `serial().done()` leaves the response with the size of the page (`SizesAgree`, premise
  `resized`); `cursor()` after `serial()` keeps the OFFSET of the page (`WithCursor`).
- A `CursorParams` on its own, also that of `CursorBuilder::build()`, asks for 20 rows (cursor.rs 491-503), a
  `CursorBuilder` on its own sets no limit, and the statement has no LIMIT then (builder.rs 740-751, 980-1014;
  `CursorAlone`, `Alone`). The limit is there as `CursorSize` in `params.cfg`, different from `DefaultSize`.
- With two sort builders the first allowed list is in force for both, and the second one's own list counts for nothing
  (`extend_with`).
- `not()` of an ILIKE is dropped in builds without `postgres` (builder.rs 434-451; `Faithful`), and a WHERE or a scope with
  a top-level OR is joined with AND without parentheses (builder.rs 648-653, scope_system.rs 615-648; premises of
  `SelectsAsAsked` and `RowsAsMeant`).
- The count of `SELECT DISTINCT x` misses NULL (`NullLost`); `DISTINCT *, x` is counted by x alone, and an aggregate
  without GROUP BY and HAVING as the rows it aggregates (`CountedOtherwise`).
- A search passes `%` and `_` of its query on as wildcards (builder.rs 542-548), and `SelectsAsAsked`
  means them so; the book has LIKE operations escape by default (06-pagination-strategies.md 829).
- A `?` in the select list shifts every argument of the count on MySQL, which takes the first values (code_generator.rs
  1474-1490; premise of `CountAsksSame`).
- On MySQL `@name` takes arguments in the order of the parameters, however often and in whatever order names appear,
  in the method and in its scopes (dml.rs 901; `InOrder`); an unknown `@name` is not reported when the method has no arguments (dml.rs 891).
- An alias whose text holds a `;` and then a `=` is read back as two: of `d ; b = x` the first half is not what was
  declared, as the `;` is escaped and yet split at (alias_system.rs 126-163), and `{b}` is replaced by `x` even if
  the trait declares another `b` or none. A scope whose text holds `:`, a target and `|` is read back in part, the
  rest being taken for a list of its own or ignored (scope_system.rs 244-302). Both compile (`NoEntryInside`: drop it
  from `RowsAsMeant`). Every other text with a separator either survives the way through the attribute or stops the
  compilation, which is what the theorems about `RowsAsMeant` and `ClausesExtended` show; what is sent as it is, of
  kind "Unknown", is no SELECT and not their subject.
- A JOIN scope attaches to the last table of FROM, a FROM scope's included; of a SELECT scope with several items the first is
  added; in a trait with active scopes every INSERT and UPDATE method must ignore them to compile (`ApplyScopes`).
- A multi-row INSERT follows the order of the tuple, not of `VALUES ($2, $1)`; of a generic iterator, or where one row is
  due, an empty list sends a statement without rows; other parameters of the method are not bound (`Placed`, `EmptyReturns`).
- On SQLite an integer wider than the declared type is cut by a cast (code_generator.rs 1933-1958); an unchecked `Option<T>`
  fails on NULL (code_generator.rs 775-783); a stream of tuples longer than the columns compiles and fails when read
  (`RowFits`, `TupleWrong`).
- DDL is refused with `unchecked` as without (dml.rs 1048-1109), although the error's text offers `unchecked` as the way out.

## 6. What is not modelled

- sqlx, the drivers and the databases, beyond the definitions marked external: a statement reads the
  table of one instant, and rows of equal key come in any order.
- NULL as a sort key in walks: keys of `CursorPagination` are integers. A NULL satisfies no comparison
  (`WhereConditions`), and its row is on no page after the first.
- Literals that look like placeholders.
- In the macros: parsing of attributes, `file =` sources, `tracing` and `instrument`, and the transformation of `impl Trait`
  parameters (code_generator.rs 1017-1254). The check of `query!` against a database at compile time.
- The paths by which types are recognised (type_analyzer.rs 169-330): return types are given by what they are recognised as.
- JSON and array values of filters; the escape character itself as a part of a LIKE pattern.
- `SELECT TOP .. WITH TIES`, which `has_with_ties` tests for and none of the databases has (parser_count.rs 43).
- Argument encoding, the facade, type tables and the macros' test helpers: functions without protocol or state.
- `get_or_insert_with`, `invalidate` and `clear` of the caches have no caller.
- The encoding of a token: a token is its values, and `Opaque` rows and `BadToken` are the ways it fails.

## 7. Plan

Done, in this order: `CursorPagination` with `KeysetWalk`, `ParseCache`, `KeysetPredicate`,
`PlaceholderBinding`, `OffsetPagination`, `AliasSubstitution` and the proofs above; then `ParamsBuilding` with
`RequestCalls`, `WhereConditions`, `CountQuery`, `MethodText`, `GeneratedMethod`.

What could follow: `OffsetPagination` over the totals of `CountQuery`, which it takes as the number of rows; sort keys
that are NULL in `CursorPagination`; literals in `PlaceholderBinding`.

Theorems worth proving next: that `WalkEnds` and `CallsReturn` follow from a rank that falls with each step, which needs
provers with ENABLED.
