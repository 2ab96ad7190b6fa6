------------------------------ MODULE ParseCache ------------------------------
(***************************************************************************)
(* The two process-wide caches every dynamic query goes through:           *)
(*                                                                         *)
(*   GlobalCache                   sqlx-data-parser/src/global_cache.rs    *)
(*   parse_sql                     sqlx-data-parser/src/core/parser.rs     *)
(*   build_count_query_from_sql    sqlx-data-parser/src/dynamic/count.rs   *)
(*                                                                         *)
(* Many threads call them at once.  Nothing is locked between a lookup and *)
(* the insert that follows a miss, and moka may drop an entry at any time, *)
(* also between the two.  Entries are found by a 64-bit fingerprint of the *)
(* SQL text and nothing checks that the entry belongs to the text.         *)
(*                                                                         *)
(* A statement is represented by the text it was parsed from, and a count  *)
(* query by the statement it counts.                                       *)
(***************************************************************************)
EXTENDS Integers, FiniteSets, Functions

CONSTANTS
    Thread,         \* threads that build queries
    Sql,            \* texts of SQL
    Empty,          \* the empty text, if it is among them: Err
    Unparsable,     \* texts Parser::parse_sql refuses: Ok(None)
    Several,        \* texts of no statement or of more than one: Err
    Key,            \* u64
    Fingerprint,    \* Fingerprint[s]: GlobalCache::fingerprint
    MaxCalls        \* calls made in all (a bound for TLC)

ASSUME ThreadAssumption == IsFiniteSet(Thread)
ASSUME SqlAssumption == Empty \cup Unparsable \cup Several \subseteq Sql
ASSUME FingerprintAssumption == Fingerprint \in [Sql -> Key]
ASSUME MaxCallsAssumption == MaxCalls \in Nat

Cache == {"ast", "count"}
Good  == Sql \ (Empty \cup Unparsable \cup Several)

VARIABLES
    cached,     \* cached[c]: moka's entries, a function on the keys present
    stats,      \* stats[c][k]: hits and misses of key k, absent until recorded
    pc,         \* pc[t]: the call of thread t has come to
    sql,        \* sql[t]: the text it was called with
    op,         \* op[t]: "parse" for parse_sql, "count" for the count query
    stmt,       \* stmt[t]: the statement it holds
    pending,    \* pending[t]: the hit or miss it has yet to record
    answer,     \* answer[t]: what its last call returned
    calls,      \* calls made
    parses      \* parses[s]: parses of s since its entry was last evicted (history)

vars == <<cached, stats, pc, sql, op, stmt, pending, answer, calls, parses>>

NoPending == [kind |-> "none"]
NoAnswer  == [kind |-> "none"]
Answers   == [kind : {"ok"}, of : Sql] \cup [kind : {"none", "unparsed", "error"}]

-----------------------------------------------------------------------------
\* Mutant: the fingerprint keeps nothing of the text.
KeyOfNothing(s) == CHOOSE k \in Key : TRUE

KeyOf(s) == Fingerprint[s]

Access(t, c, kind) == pending' = [pending EXCEPT ![t] =
                        [kind |-> kind, cache |-> c, key |-> KeyOf(sql[t])]]

\* Mutant: a miss takes back the hit an insert has counted.
CountedBack(s, p) ==
    LET old == IF p.key \in DOMAIN s THEN s[p.key] ELSE [hits |-> 0, misses |-> 0]
        new == IF p.kind = "hit" THEN [old EXCEPT !.hits = @ + 1]
                                 ELSE [old EXCEPT !.hits = @ - 1, !.misses = @ + 1]
    IN  [k \in DOMAIN s \cup {p.key} |-> IF k = p.key THEN new ELSE s[k]]

\* record_hit, record_miss: one entry of the DashMap, held while it is changed
Counted(s, p) ==
    LET old == IF p.key \in DOMAIN s THEN s[p.key] ELSE [hits |-> 0, misses |-> 0]
        new == IF p.kind = "hit" THEN [old EXCEPT !.hits = @ + 1]
                                 ELSE [old EXCEPT !.misses = @ + 1]
    IN  [k \in DOMAIN s \cup {p.key} |-> IF k = p.key THEN new ELSE s[k]]

With(f, k, v) == [x \in DOMAIN f \cup {k} |-> IF x = k THEN v ELSE f[x]]

-----------------------------------------------------------------------------
Init ==
    /\ cached = [c \in Cache |-> [k \in {} |-> {}]]
    /\ stats = [c \in Cache |-> [k \in {} |-> {}]]
    /\ pc = [t \in Thread |-> "idle"]
    /\ \E s \in Sql : sql = [t \in Thread |-> s] /\ stmt = [t \in Thread |-> s]
    /\ op = [t \in Thread |-> "parse"]
    /\ pending = [t \in Thread |-> NoPending]
    /\ answer = [t \in Thread |-> NoAnswer]
    /\ calls = 0
    /\ parses = [s \in Sql |-> 0]

At(t, where) == pc[t] = where /\ pending[t] = NoPending
GoTo(t, where) == pc' = [pc EXCEPT ![t] = where]

Return(t, a) ==
    /\ answer' = [answer EXCEPT ![t] = a]
    /\ GoTo(t, "idle")

\* build_dynamic_sql or an INSERT calls parse_sql, a paginated method the
\* count query.
Start(t) ==
    /\ At(t, "idle")
    /\ calls < MaxCalls
    /\ calls' = calls + 1
    /\ \E s \in Sql : sql' = [sql EXCEPT ![t] = s]
    /\ \/ op' = [op EXCEPT ![t] = "parse"] /\ GoTo(t, "parse")
       \/ op' = [op EXCEPT ![t] = "count"] /\ GoTo(t, "count")
    /\ answer' = [answer EXCEPT ![t] = NoAnswer]
    /\ UNCHANGED <<cached, stats, stmt, pending, parses>>

\* GlobalCache::get finds the key and the call goes on at `where` ...
Hit(t, c, where) ==
    /\ KeyOf(sql[t]) \in DOMAIN cached[c]
    /\ stmt' = [stmt EXCEPT ![t] = cached[c][KeyOf(sql[t])]]
    /\ Access(t, c, "hit")
    /\ GoTo(t, where)
    /\ UNCHANGED <<cached, stats, sql, op, answer, calls, parses>>

\* ... or does not.
Miss(t, c, where) ==
    /\ KeyOf(sql[t]) \notin DOMAIN cached[c]
    /\ Access(t, c, "miss")
    /\ GoTo(t, where)
    /\ UNCHANGED <<cached, stats, sql, op, stmt, answer, calls, parses>>

\* build_count_query_from_sql: the count cache, then the AST cache, then
\* parse_sql, which looks into the AST cache once more
CountHit(t)  == At(t, "count") /\ Hit(t, "count", "return")
CountMiss(t) == At(t, "count") /\ Miss(t, "count", "tree")
TreeHit(t)   == At(t, "tree") /\ Hit(t, "ast", "generate")
TreeMiss(t)  == At(t, "tree") /\ Miss(t, "ast", "parse")

\* parse_sql: an empty text is refused before the lookup
ParseEmpty(t) ==
    /\ At(t, "parse")
    /\ sql[t] \in Empty
    /\ Return(t, [kind |-> "error"])
    /\ UNCHANGED <<cached, stats, sql, op, stmt, pending, calls, parses>>

ParseHit(t)  == At(t, "parse") /\ sql[t] \notin Empty
                /\ Hit(t, "ast", IF op[t] = "count" THEN "generate" ELSE "return")
ParseMiss(t) == At(t, "parse") /\ sql[t] \notin Empty /\ Miss(t, "ast", "parser")

\* Parser::parse_sql fails: parse_sql returns Ok(None), which the count query
\* turns into an error
ParserFails(t) ==
    /\ At(t, "parser")
    /\ sql[t] \in Unparsable
    /\ Return(t, [kind |-> IF op[t] = "count" THEN "error" ELSE "unparsed"])
    /\ UNCHANGED <<cached, stats, sql, op, stmt, pending, calls, parses>>

\* more than one statement
ParserRejects(t) ==
    /\ At(t, "parser")
    /\ sql[t] \in Several
    /\ Return(t, [kind |-> "error"])
    /\ UNCHANGED <<cached, stats, sql, op, stmt, pending, calls, parses>>

\* GlobalCache::insert overwrites, and records a hit
Insert(t, c, value, where) ==
    /\ cached' = [cached EXCEPT ![c] = With(@, KeyOf(sql[t]), value)]
    /\ Access(t, c, "hit")
    /\ GoTo(t, where)
    /\ UNCHANGED <<stats, sql, op, answer, calls>>

\* Mutant: the tree goes into the other cache.
ParsedElsewhere(t) ==
    /\ At(t, "parser") /\ sql[t] \in Good
    /\ stmt' = [stmt EXCEPT ![t] = sql[t]]
    /\ parses' = [parses EXCEPT ![sql[t]] = @ + 1]
    /\ Insert(t, "count", sql[t], IF op[t] = "count" THEN "generate" ELSE "return")

Parsed(t) ==
    /\ At(t, "parser") /\ sql[t] \in Good
    /\ stmt' = [stmt EXCEPT ![t] = sql[t]]
    /\ parses' = [parses EXCEPT ![sql[t]] = @ + 1]
    /\ Insert(t, "ast", sql[t], IF op[t] = "count" THEN "generate" ELSE "return")

Generated(t) ==
    /\ At(t, "generate")
    /\ Insert(t, "count", stmt[t], "return")
    /\ UNCHANGED <<stmt, parses>>

Returned(t) ==
    /\ At(t, "return")
    /\ Return(t, [kind |-> "ok", of |-> stmt[t]])
    /\ UNCHANGED <<cached, stats, sql, op, stmt, pending, calls, parses>>

\* Mutant: a thread that records waits for every other thread to have recorded.
RecordWaits(t) ==
    /\ pending[t] # NoPending
    /\ \A u \in Thread \ {t} : pending[u] = NoPending
    /\ stats' = [stats EXCEPT ![pending[t].cache] = Counted(@, pending[t])]
    /\ pending' = [pending EXCEPT ![t] = NoPending]
    /\ UNCHANGED <<cached, pc, sql, op, stmt, answer, calls, parses>>

Record(t) ==
    /\ pending[t] # NoPending
    /\ stats' = [stats EXCEPT ![pending[t].cache] = Counted(@, pending[t])]
    /\ pending' = [pending EXCEPT ![t] = NoPending]
    /\ UNCHANGED <<cached, pc, sql, op, stmt, answer, calls, parses>>

\* moka makes room; the stats of the key stay.
Evict ==
    /\ \E c \in Cache : \E k \in DOMAIN cached[c] :
         /\ cached' = [cached EXCEPT ![c] = Restrict(@, DOMAIN @ \ {k})]
         /\ parses' = [s \in Sql |-> IF c = "ast" /\ KeyOf(s) = k THEN 0 ELSE parses[s]]
    /\ UNCHANGED <<stats, pc, sql, op, stmt, pending, answer, calls>>

Step(t) ==
    \/ CountHit(t) \/ CountMiss(t) \/ TreeHit(t) \/ TreeMiss(t)
    \/ ParseEmpty(t) \/ ParseHit(t) \/ ParseMiss(t)
    \/ ParserFails(t) \/ ParserRejects(t) \/ Parsed(t) \/ Generated(t)
    \/ Record(t) \/ Returned(t)

Next == Evict \/ \E t \in Thread : Start(t) \/ Step(t)

Spec == Init /\ [][Next]_vars

\* A thread that is in a call keeps running; moka may evict for ever.
FairSpec == Spec /\ \A t \in Thread : WF_vars(Step(t))

-----------------------------------------------------------------------------
(* Properties                                                              *)

TypeOK ==
    /\ DOMAIN cached = Cache /\ DOMAIN stats = Cache
    /\ \A c \in Cache :
         /\ DOMAIN cached[c] \subseteq Key /\ \A k \in DOMAIN cached[c] : cached[c][k] \in Sql
         /\ DOMAIN stats[c] \subseteq Key
         /\ \A k \in DOMAIN stats[c] : stats[c][k] \in [hits : Nat, misses : Nat]
    /\ pc \in [Thread -> {"idle", "count", "tree", "parse", "parser", "generate", "return"}]
    /\ sql \in [Thread -> Sql] /\ stmt \in [Thread -> Sql]
    /\ op \in [Thread -> {"parse", "count"}]
    /\ pending \in [Thread -> {NoPending} \cup [kind : {"hit", "miss"}, cache : Cache, key : Key]]
    /\ answer \in [Thread -> Answers]
    /\ calls \in Nat /\ parses \in [Sql -> Nat]

\* However lookups, inserts and evictions of several threads interleave, a call
\* that succeeds returns the statement, or the count query, of the very text it
\* was given, and a text that is no single statement never succeeds.
AnswersRight ==
    \A t \in Thread :
        answer[t].kind = "ok" => answer[t].of = sql[t] /\ sql[t] \in Good

\* Nobody waits for a parse under way, so threads that miss together all parse;
\* but each of them at most once until the entry is evicted.
WorkShared == \A s \in Sql : parses[s] <= Cardinality(Thread)

\* Every call returns, although entries are evicted under it for ever.
CallsReturn == \A t \in Thread : pc[t] # "idle" ~> pc[t] = "idle"
=============================================================================
