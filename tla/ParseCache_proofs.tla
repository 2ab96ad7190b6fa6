--------------------------- MODULE ParseCache_proofs ---------------------------
(***************************************************************************)
(* The caches are transparent: for any number of threads and texts, as     *)
(* long as no two texts have the same fingerprint, a call gets what        *)
(* parsing its own text would have given it.                               *)
(***************************************************************************)
EXTENDS ParseCache, FiniteSetTheorems, TLAPS

-----------------------------------------------------------------------------
(* Type correctness, one lemma per building block of the actions.          *)

LEMMA CountedType ==
    ASSUME NEW s, NEW p, DOMAIN s \subseteq Key, p.key \in Key,
           \A k \in DOMAIN s : s[k] \in [hits : Nat, misses : Nat]
    PROVE  /\ DOMAIN Counted(s, p) \subseteq Key
           /\ \A k \in DOMAIN Counted(s, p) : Counted(s, p)[k] \in [hits : Nat, misses : Nat]
<1> DEFINE old == IF p.key \in DOMAIN s THEN s[p.key] ELSE [hits |-> 0, misses |-> 0]
           new == IF p.kind = "hit" THEN [old EXCEPT !.hits = @ + 1]
                                    ELSE [old EXCEPT !.misses = @ + 1]
<1>1. old \in [hits : Nat, misses : Nat]
  OBVIOUS
<1>2. new \in [hits : Nat, misses : Nat]
  BY <1>1
<1> HIDE DEF new
<1>3. Counted(s, p) = [k \in DOMAIN s \cup {p.key} |-> IF k = p.key THEN new ELSE s[k]]
  BY DEF Counted, new
<1> QED
  BY <1>2, <1>3

\* a lookup or an insert of thread t leaves a record of the right type
LEMMA AccessType ==
    ASSUME TypeOK, NEW t \in Thread, NEW c \in Cache, NEW kind \in {"hit", "miss"},
           Access(t, c, kind)
    PROVE  pending' \in [Thread -> {NoPending} \cup [kind : {"hit", "miss"}, cache : Cache, key : Key]]
<1>1. KeyOf(sql[t]) \in Key
  BY FingerprintAssumption DEF TypeOK, KeyOf
<1> QED
  BY <1>1 DEF Access, TypeOK

Places == {"idle", "count", "tree", "parse", "parser", "generate", "return"}

LEMMA HitType ==
    ASSUME TypeOK, NEW t \in Thread, NEW c \in Cache, NEW where \in Places, Hit(t, c, where)
    PROVE  TypeOK'
<1>1. pending' \in [Thread -> {NoPending} \cup [kind : {"hit", "miss"}, cache : Cache, key : Key]]
  BY AccessType DEF Hit
<1>2. stmt' \in [Thread -> Sql]
  BY DEF Hit, TypeOK
<1> QED
  BY <1>1, <1>2 DEF Hit, TypeOK, GoTo, Places

LEMMA MissType ==
    ASSUME TypeOK, NEW t \in Thread, NEW c \in Cache, NEW where \in Places, Miss(t, c, where)
    PROVE  TypeOK'
<1>1. pending' \in [Thread -> {NoPending} \cup [kind : {"hit", "miss"}, cache : Cache, key : Key]]
  BY AccessType DEF Miss
<1> QED
  BY <1>1 DEF Miss, TypeOK, GoTo, Places

LEMMA InsertType ==
    ASSUME TypeOK, NEW t \in Thread, NEW c \in Cache, NEW v \in Sql, NEW where \in Places,
           Insert(t, c, v, where), stmt' \in [Thread -> Sql], parses' \in [Sql -> Nat]
    PROVE  TypeOK'
<1>1. pending' \in [Thread -> {NoPending} \cup [kind : {"hit", "miss"}, cache : Cache, key : Key]]
  BY AccessType DEF Insert
<1>2. KeyOf(sql[t]) \in Key
  BY FingerprintAssumption DEF TypeOK, KeyOf
<1>3. /\ DOMAIN cached' = Cache
      /\ cached'[c] = With(cached[c], KeyOf(sql[t]), v)
      /\ \A d \in Cache \ {c} : cached'[d] = cached[d]
  BY DEF Insert, TypeOK
<1>4. \A d \in Cache : /\ DOMAIN cached'[d] \subseteq Key
                       /\ \A k \in DOMAIN cached'[d] : cached'[d][k] \in Sql
  BY <1>2, <1>3 DEF With, TypeOK
<1> QED
  BY <1>1, <1>3, <1>4 DEF Insert, TypeOK, GoTo, Places

LEMMA ReturnType ==
    ASSUME TypeOK, NEW t \in Thread, NEW a \in Answers, Return(t, a),
           UNCHANGED <<cached, stats, sql, op, stmt, pending, calls, parses>>
    PROVE  TypeOK'
BY DEF Return, GoTo, TypeOK

LEMMA RecordType ==
    ASSUME TypeOK, NEW t \in Thread, Record(t)
    PROVE  TypeOK'
<1> DEFINE p == pending[t]
<1>1. p \in [kind : {"hit", "miss"}, cache : Cache, key : Key]
  BY DEF Record, TypeOK
<1>2. p.cache \in Cache /\ p.key \in Key
  BY <1>1
<1>3. /\ DOMAIN stats' = Cache
      /\ stats'[p.cache] = Counted(stats[p.cache], p)
      /\ \A d \in Cache \ {p.cache} : stats'[d] = stats[d]
  BY <1>2 DEF Record, TypeOK
<1> HIDE DEF p
<1>4. \A d \in Cache :
        /\ DOMAIN stats'[d] \subseteq Key
        /\ \A k \in DOMAIN stats'[d] : stats'[d][k] \in [hits : Nat, misses : Nat]
  <2> TAKE d \in Cache
  <2>1. CASE d = p.cache
    BY <1>2, <1>3, <2>1, CountedType DEF TypeOK
  <2>2. CASE d # p.cache
    BY <1>3, <2>2 DEF TypeOK
  <2> QED
    BY <2>1, <2>2
<1>5. pending' \in [Thread -> {NoPending} \cup [kind : {"hit", "miss"}, cache : Cache, key : Key]]
  BY DEF Record, TypeOK
<1> QED
  BY <1>3, <1>4, <1>5 DEF Record, TypeOK

LEMMA EvictType ==
    ASSUME TypeOK, Evict
    PROVE  TypeOK'
<1>1. PICK c \in Cache : \E k \in DOMAIN cached[c] :
         /\ cached' = [cached EXCEPT ![c] = Restrict(@, DOMAIN @ \ {k})]
         /\ parses' = [s \in Sql |-> IF c = "ast" /\ KeyOf(s) = k THEN 0 ELSE parses[s]]
  BY DEF Evict
<1>2. PICK k \in DOMAIN cached[c] :
         /\ cached' = [cached EXCEPT ![c] = Restrict(@, DOMAIN @ \ {k})]
         /\ parses' = [s \in Sql |-> IF c = "ast" /\ KeyOf(s) = k THEN 0 ELSE parses[s]]
  BY <1>1
<1>3. parses' \in [Sql -> Nat]
  BY <1>2 DEF TypeOK
<1>4. /\ DOMAIN cached' = Cache
      /\ \A d \in Cache : /\ DOMAIN cached'[d] \subseteq DOMAIN cached[d]
                          /\ \A x \in DOMAIN cached'[d] : cached'[d][x] = cached[d][x]
  BY <1>2 DEF TypeOK, Restrict
<1> QED
  BY <1>3, <1>4 DEF Evict, TypeOK

LEMMA TypeInductive ==
    ASSUME TypeOK, [Next]_vars
    PROVE  TypeOK'
<1>1. CASE Evict
  BY <1>1, EvictType
<1>2. ASSUME NEW t \in Thread, Start(t) PROVE TypeOK'
  <2>1. sql' \in [Thread -> Sql] /\ op' \in [Thread -> {"parse", "count"}]
        /\ answer' \in [Thread -> Answers] /\ calls' \in Nat
    BY <1>2 DEF Start, TypeOK, NoAnswer, Answers
  <2>2. pc' \in [Thread -> Places]
    BY <1>2 DEF Start, TypeOK, GoTo, Places
  <2> QED
    BY <1>2, <2>1, <2>2 DEF Start, TypeOK, Places
<1>3. ASSUME NEW t \in Thread, Step(t) PROVE TypeOK'
  <2> USE DEF Cache, Places
  <2>1. CASE CountHit(t) \/ TreeHit(t) \/ ParseHit(t)
    BY <1>3, <2>1, HitType DEF CountHit, TreeHit, ParseHit
  <2>2. CASE CountMiss(t) \/ TreeMiss(t) \/ ParseMiss(t)
    BY <1>3, <2>2, MissType DEF CountMiss, TreeMiss, ParseMiss
  <2>3. CASE ParseEmpty(t) \/ ParserFails(t) \/ ParserRejects(t)
    <3>1. /\ [kind |-> "error"] \in Answers
          /\ [kind |-> IF op[t] = "count" THEN "error" ELSE "unparsed"] \in Answers
      BY DEF Answers
    <3> QED
      BY <1>3, <2>3, <3>1, ReturnType DEF ParseEmpty, ParserFails, ParserRejects
  <2>4. CASE Parsed(t)
    <3>1. sql[t] \in Sql /\ stmt' \in [Thread -> Sql] /\ parses' \in [Sql -> Nat]
      BY <2>4 DEF Parsed, TypeOK
    <3> QED
      BY <1>3, <2>4, <3>1, InsertType DEF Parsed
  <2>5. CASE Generated(t)
    <3>1. stmt[t] \in Sql /\ stmt' \in [Thread -> Sql] /\ parses' \in [Sql -> Nat]
      BY <2>5 DEF Generated, TypeOK
    <3> QED
      BY <1>3, <2>5, <3>1, InsertType DEF Generated
  <2>6. CASE Record(t)
    BY <1>3, <2>6, RecordType
  <2>7. CASE Returned(t)
    <3>1. [kind |-> "ok", of |-> stmt[t]] \in Answers
      BY DEF Answers, TypeOK
    <3> QED
      BY <1>3, <2>7, <3>1, ReturnType DEF Returned
  <2> QED
    BY <1>3, <2>1, <2>2, <2>3, <2>4, <2>5, <2>6, <2>7 DEF Step
<1>4. CASE UNCHANGED vars
  BY <1>4 DEF vars, TypeOK
<1> QED
  BY <1>1, <1>2, <1>3, <1>4 DEF Next

\* The caches, the statistics and the calls in progress keep their types.
THEOREM TypeCorrect == Spec => []TypeOK
<1>1. Init => TypeOK
  BY DEF Init, TypeOK, Cache, NoAnswer, Answers
<1>2. TypeOK /\ [Next]_vars => TypeOK'
  BY TypeInductive
<1> QED
  BY <1>1, <1>2, PTL DEF Spec

-----------------------------------------------------------------------------
(* Transparency.  An entry is true to its key: its statement is one that   *)
(* parses and has that fingerprint.  With fingerprints that tell texts     *)
(* apart, the statement a thread takes from a cache is its own.            *)

EntriesTrue ==
    \A c \in Cache : \A k \in DOMAIN cached[c] :
        cached[c][k] \in Good /\ KeyOf(cached[c][k]) = k

StatementsOwn ==
    \A t \in Thread : pc[t] \in {"generate", "return"} => stmt[t] = sql[t] /\ sql[t] \in Good

IInv == TypeOK /\ EntriesTrue /\ StatementsOwn /\ AnswersRight

LEMMA EntryOwn ==
    ASSUME IsInjective(Fingerprint), IInv, NEW t \in Thread, NEW c \in Cache,
           KeyOf(sql[t]) \in DOMAIN cached[c]
    PROVE  cached[c][KeyOf(sql[t])] = sql[t] /\ sql[t] \in Good
<1>1. sql[t] \in Sql
  BY DEF IInv, TypeOK
<1>2. cached[c][KeyOf(sql[t])] \in Good /\ KeyOf(cached[c][KeyOf(sql[t])]) = KeyOf(sql[t])
  BY DEF IInv, EntriesTrue
<1>3. cached[c][KeyOf(sql[t])] = sql[t]
  BY <1>1, <1>2, FingerprintAssumption DEF IsInjective, KeyOf, Good
<1> QED
  BY <1>2, <1>3

LEMMA HitTrue ==
    ASSUME IsInjective(Fingerprint), IInv, NEW t \in Thread, NEW c \in Cache,
           NEW where \in Places, Hit(t, c, where)
    PROVE  (EntriesTrue /\ StatementsOwn /\ AnswersRight)'
<1>1. stmt'[t] = sql[t] /\ sql[t] \in Good
  BY EntryOwn DEF Hit, IInv, TypeOK
<1>2. EntriesTrue'
  BY DEF Hit, IInv, EntriesTrue, KeyOf
<1>3. StatementsOwn'
  BY <1>1 DEF Hit, GoTo, IInv, StatementsOwn, TypeOK
<1> QED
  BY <1>2, <1>3 DEF Hit, IInv, AnswersRight

LEMMA MissTrue ==
    ASSUME IInv, NEW t \in Thread, NEW c \in Cache,
           NEW where \in Places \ {"generate", "return"}, Miss(t, c, where)
    PROVE  (EntriesTrue /\ StatementsOwn /\ AnswersRight)'
BY DEF Miss, GoTo, IInv, EntriesTrue, StatementsOwn, AnswersRight, KeyOf, TypeOK

\* What is inserted is the statement of the thread's own text.
LEMMA InsertTrue ==
    ASSUME IInv, NEW t \in Thread, NEW c \in Cache, NEW where \in Places,
           Insert(t, c, sql[t], where), sql[t] \in Good, stmt' = [stmt EXCEPT ![t] = sql[t]]
    PROVE  (EntriesTrue /\ StatementsOwn /\ AnswersRight)'
<1>1. /\ DOMAIN cached' = Cache
      /\ cached'[c] = With(cached[c], KeyOf(sql[t]), sql[t])
      /\ \A d \in Cache \ {c} : cached'[d] = cached[d]
  BY DEF Insert, IInv, TypeOK
<1>2. EntriesTrue'
  BY <1>1 DEF With, IInv, EntriesTrue, KeyOf
<1>3. StatementsOwn'
  BY DEF Insert, GoTo, IInv, StatementsOwn, TypeOK
<1> QED
  BY <1>2, <1>3 DEF Insert, IInv, AnswersRight

\* Whatever leaves the caches and the texts alone, and returns no statement.
LEMMA ReturnTrue ==
    ASSUME IInv, NEW t \in Thread, NEW a \in Answers, Return(t, a),
           a.kind = "ok" => a.of = sql[t] /\ sql[t] \in Good,
           UNCHANGED <<cached, sql, stmt>>
    PROVE  (EntriesTrue /\ StatementsOwn /\ AnswersRight)'
BY DEF Return, GoTo, IInv, EntriesTrue, StatementsOwn, AnswersRight, KeyOf, TypeOK

LEMMA EvictTrue ==
    ASSUME IInv, Evict
    PROVE  (EntriesTrue /\ StatementsOwn /\ AnswersRight)'
<1>1. PICK c \in Cache : \E k \in DOMAIN cached[c] :
         cached' = [cached EXCEPT ![c] = Restrict(@, DOMAIN @ \ {k})]
  BY DEF Evict
<1>2. \A d \in Cache : /\ DOMAIN cached'[d] \subseteq DOMAIN cached[d]
                       /\ \A x \in DOMAIN cached'[d] : cached'[d][x] = cached[d][x]
  BY <1>1 DEF IInv, TypeOK, Restrict
<1>3. EntriesTrue'
  BY <1>2 DEF IInv, EntriesTrue, KeyOf
<1> QED
  BY <1>3 DEF Evict, IInv, StatementsOwn, AnswersRight

LEMMA TransparencyInductive ==
    ASSUME IsInjective(Fingerprint), IInv, [Next]_vars
    PROVE  IInv'
<1>1. TypeOK'
  BY TypeInductive DEF IInv
<1>2. CASE Evict
  BY <1>1, <1>2, EvictTrue DEF IInv
<1>3. ASSUME NEW t \in Thread, Start(t) PROVE IInv'
  <2>1. EntriesTrue' /\ StatementsOwn'
    BY <1>3 DEF Start, GoTo, IInv, EntriesTrue, StatementsOwn, KeyOf, TypeOK
  <2>2. AnswersRight'
    BY <1>3 DEF Start, IInv, AnswersRight, NoAnswer, TypeOK
  <2> QED
    BY <1>1, <2>1, <2>2 DEF IInv
<1>4. ASSUME NEW t \in Thread, Step(t) PROVE IInv'
  <2> USE DEF Cache, Places
  <2>1. CASE CountHit(t) \/ TreeHit(t) \/ ParseHit(t)
    BY <1>1, <2>1, HitTrue DEF CountHit, TreeHit, ParseHit, IInv
  <2>2. CASE CountMiss(t) \/ TreeMiss(t) \/ ParseMiss(t)
    BY <1>1, <2>2, MissTrue DEF CountMiss, TreeMiss, ParseMiss, IInv
  <2>3. CASE ParseEmpty(t) \/ ParserFails(t) \/ ParserRejects(t)
    <3>1. PICK a \in {[kind |-> "error"], [kind |-> "unparsed"]} :
             Return(t, a) /\ UNCHANGED <<cached, sql, stmt>>
      BY <2>3 DEF ParseEmpty, ParserFails, ParserRejects
    <3>2. a \in Answers /\ a.kind # "ok"
      BY DEF Answers
    <3> QED
      BY <1>1, <3>1, <3>2, ReturnTrue DEF IInv
  <2>4. CASE Parsed(t)
    BY <1>1, <2>4, InsertTrue DEF Parsed, IInv
  <2>5. CASE Generated(t)
    <3>1. stmt[t] = sql[t] /\ sql[t] \in Good
      BY <2>5 DEF Generated, At, IInv, StatementsOwn
    <3>2. stmt' = [stmt EXCEPT ![t] = sql[t]] /\ Insert(t, "count", sql[t], "return")
      BY <2>5, <3>1 DEF Generated, IInv, TypeOK
    <3> QED
      BY <1>1, <3>1, <3>2, InsertTrue DEF IInv
  <2>6. CASE Record(t)
    BY <1>1, <2>6 DEF Record, IInv, EntriesTrue, StatementsOwn, AnswersRight, KeyOf
  <2>7. CASE Returned(t)
    <3>1. stmt[t] = sql[t] /\ sql[t] \in Good
      BY <2>7 DEF Returned, At, IInv, StatementsOwn
    <3>2. [kind |-> "ok", of |-> stmt[t]] \in Answers
      BY DEF Answers, IInv, TypeOK
    <3> QED
      BY <1>1, <2>7, <3>1, <3>2, ReturnTrue DEF Returned, IInv
  <2> QED
    BY <1>4, <2>1, <2>2, <2>3, <2>4, <2>5, <2>6, <2>7 DEF Step
<1>5. CASE UNCHANGED vars
  BY <1>1, <1>5 DEF vars, IInv, EntriesTrue, StatementsOwn, AnswersRight, KeyOf
<1> QED
  BY <1>2, <1>3, <1>4, <1>5 DEF Next

\* For any number of threads, any texts and any evictions: as long as no two
\* texts share a fingerprint, a call that succeeds was answered with the
\* statement, or the count query, of its own text.
THEOREM CachesAreTransparent ==
    ASSUME IsInjective(Fingerprint)
    PROVE  Spec => []AnswersRight
<1>1. Init => IInv
  <2>1. Init => TypeOK
    BY DEF Init, TypeOK, Cache, NoAnswer, Answers
  <2> QED
    BY <2>1 DEF Init, IInv, EntriesTrue, StatementsOwn, AnswersRight, Cache, NoAnswer
<1>2. IInv /\ [Next]_vars => IInv'
  BY TransparencyInductive
<1>3. IInv => AnswersRight
  BY DEF IInv
<1> QED
  BY <1>1, <1>2, <1>3, PTL DEF Spec

-----------------------------------------------------------------------------
(* The work of parsing is shared.  A thread parses a text only after it    *)
(* has missed it, and nobody misses a text whose entry is there: once the  *)
(* first parse is in, only the threads that were already on their way to   *)
(* the parser can parse it again.  The entry itself may meanwhile be that  *)
(* of another text with the same fingerprint; its key stays.               *)

\* the threads that have missed s and have not parsed it yet
Missed(s) == {t \in Thread : pc[t] = "parser" /\ sql[t] = s}

Shared(s) ==
    /\ parses[s] + Cardinality(Missed(s)) <= Cardinality(Thread)
    /\ parses[s] > 0 => KeyOf(s) \in DOMAIN cached["ast"]

SInv == TypeOK /\ \A s \in Sql : Shared(s)

LEMMA MissedFinite ==
    ASSUME NEW s
    PROVE  /\ IsFiniteSet(Missed(s)) /\ Cardinality(Missed(s)) \in Nat
           /\ Cardinality(Missed(s)) <= Cardinality(Thread)
           /\ Cardinality(Thread) \in Nat
<1>1. Missed(s) \subseteq Thread
  BY DEF Missed
<1> QED
  BY <1>1, ThreadAssumption, FS_Subset, FS_CardinalityType

\* A step on which nobody misses or parses a text and no entry goes away.
LEMMA SharedUnmoved ==
    ASSUME SInv, TypeOK', NEW s \in Sql, parses'[s] = parses[s], Missed(s)' \subseteq Missed(s),
           DOMAIN cached["ast"] \subseteq DOMAIN cached'["ast"]
    PROVE  Shared(s)'
<1>1. Cardinality(Missed(s)') \in Nat /\ Cardinality(Missed(s)') <= Cardinality(Missed(s))
  BY MissedFinite, FS_Subset, FS_CardinalityType
<1> QED
  BY <1>1, MissedFinite DEF SInv, Shared, TypeOK, KeyOf

\* Where thread t goes, if not to the parser, it is nobody's miss.
LEMMA SharedElsewhere ==
    ASSUME SInv, TypeOK', NEW t \in Thread, NEW where \in Places \ {"parser"}, GoTo(t, where),
           \A u \in Thread \ {t} : sql'[u] = sql[u], parses' = parses,
           DOMAIN cached["ast"] \subseteq DOMAIN cached'["ast"]
    PROVE  SInv'
<1>1. ASSUME NEW s \in Sql PROVE Missed(s)' \subseteq Missed(s)
  BY DEF Missed, GoTo, SInv, TypeOK
<1> QED
  BY <1>1, SharedUnmoved DEF SInv

\* A miss: the entry is not there, so nobody has parsed the text since it was
\* evicted.
LEMMA SharedMiss ==
    ASSUME SInv, TypeOK', NEW t \in Thread, Miss(t, "ast", "parser")
    PROVE  SInv'
<1> SUFFICES ASSUME NEW s \in Sql PROVE Shared(s)'
  BY DEF SInv
<1>1. parses' = parses /\ cached' = cached /\ sql' = sql
  BY DEF Miss
<1>2. CASE s = sql[t]
  <2>1. parses[s] = 0
    BY <1>2 DEF Miss, SInv, Shared, TypeOK
  <2>2. /\ Cardinality(Missed(s)') \in Nat /\ Cardinality(Thread) \in Nat
        /\ Cardinality(Missed(s)') <= Cardinality(Thread)
    <3>1. Missed(s)' \subseteq Thread
      BY DEF Missed
    <3> QED
      BY <3>1, ThreadAssumption, FS_Subset, FS_CardinalityType
  <2> QED
    BY <1>1, <2>1, <2>2 DEF Shared
<1>3. CASE s # sql[t]
  <2>1. Missed(s)' \subseteq Missed(s)
    BY <1>3 DEF Miss, GoTo, Missed, SInv, TypeOK
  <2> QED
    BY <1>1, <2>1, SharedUnmoved
<1> QED
  BY <1>2, <1>3

\* A parse: one parse more and one thread less on its way to it.
LEMMA SharedParsed ==
    ASSUME SInv, TypeOK', NEW t \in Thread, Parsed(t)
    PROVE  SInv'
<1> SUFFICES ASSUME NEW s \in Sql PROVE Shared(s)'
  BY DEF SInv
<1>1. /\ sql[t] \in Sql /\ pc[t] = "parser" /\ sql' = sql
      /\ parses' = [parses EXCEPT ![sql[t]] = @ + 1]
      /\ DOMAIN cached'["ast"] = DOMAIN cached["ast"] \cup {KeyOf(sql[t])}
  BY DEF Parsed, At, Insert, With, SInv, TypeOK, Cache
<1>2. /\ pc'[t] # "parser"
      /\ \A u \in Thread \ {t} : pc'[u] = pc[u]
  BY DEF Parsed, Insert, GoTo, SInv, TypeOK
<1>3. CASE s = sql[t]
  <2>1. t \in Missed(s) /\ Missed(s)' = Missed(s) \ {t}
    BY <1>1, <1>2, <1>3 DEF Missed
  <2>2. /\ Cardinality(Missed(s)') = Cardinality(Missed(s)) - 1
        /\ Cardinality(Missed(s)) \in Nat /\ Cardinality(Thread) \in Nat
    BY <2>1, MissedFinite, FS_RemoveElement
  <2>3. parses'[s] = parses[s] + 1 /\ parses[s] \in Nat
    BY <1>1, <1>3 DEF SInv, TypeOK
  <2> QED
    BY <1>1, <1>3, <2>2, <2>3 DEF SInv, Shared, KeyOf
<1>4. CASE s # sql[t]
  <2>1. Missed(s)' \subseteq Missed(s)
    BY <1>1, <1>2 DEF Missed
  <2>2. parses'[s] = parses[s]
    BY <1>1, <1>4 DEF SInv, TypeOK
  <2> QED
    BY <1>1, <2>1, <2>2, SharedUnmoved
<1> QED
  BY <1>3, <1>4

\* An eviction: the entry that goes takes the count of its texts along.
LEMMA SharedEvict ==
    ASSUME SInv, TypeOK', Evict
    PROVE  SInv'
<1>1. PICK c \in Cache : \E k \in DOMAIN cached[c] :
         /\ cached' = [cached EXCEPT ![c] = Restrict(@, DOMAIN @ \ {k})]
         /\ parses' = [s \in Sql |-> IF c = "ast" /\ KeyOf(s) = k THEN 0 ELSE parses[s]]
  BY DEF Evict
<1>2. PICK k \in DOMAIN cached[c] :
         /\ cached' = [cached EXCEPT ![c] = Restrict(@, DOMAIN @ \ {k})]
         /\ parses' = [s \in Sql |-> IF c = "ast" /\ KeyOf(s) = k THEN 0 ELSE parses[s]]
  BY <1>1
<1>3. DOMAIN cached'["ast"] = IF c = "ast" THEN DOMAIN cached["ast"] \ {k} ELSE DOMAIN cached["ast"]
  BY <1>2 DEF SInv, TypeOK, Restrict, Cache
<1> SUFFICES ASSUME NEW s \in Sql PROVE Shared(s)'
  BY DEF SInv
<1>4. Missed(s)' = Missed(s)
  BY DEF Evict, Missed
<1>5. CASE c = "ast" /\ KeyOf(s) = k
  BY <1>2, <1>4, <1>5, MissedFinite DEF Shared
<1>6. CASE ~(c = "ast" /\ KeyOf(s) = k)
  <2>1. parses'[s] = parses[s]
    BY <1>2, <1>6
  <2>2. parses[s] > 0 => KeyOf(s) \in DOMAIN cached'["ast"]
    BY <1>3, <1>6 DEF SInv, Shared
  <2> QED
    BY <1>4, <2>1, <2>2 DEF SInv, Shared, KeyOf
<1> QED
  BY <1>5, <1>6

LEMMA SharedInductive ==
    ASSUME SInv, [Next]_vars
    PROVE  SInv'
<1>1. TypeOK'
  BY TypeInductive DEF SInv
<1>2. CASE Evict
  BY <1>1, <1>2, SharedEvict
<1>3. ASSUME NEW t \in Thread, Start(t) PROVE SInv'
  <2>1. PICK where \in Places \ {"parser"} : GoTo(t, where)
    BY <1>3 DEF Start, Places
  <2>2. \A u \in Thread \ {t} : sql'[u] = sql[u]
    BY <1>3 DEF Start, SInv, TypeOK
  <2> QED
    BY <1>1, <1>3, <2>1, <2>2, SharedElsewhere DEF Start
<1>4. ASSUME NEW t \in Thread, Step(t) PROVE SInv'
  <2> USE DEF Places
  <2>1. CASE CountHit(t) \/ TreeHit(t) \/ ParseHit(t)
    <3>1. PICK where \in Places \ {"parser"} :
             GoTo(t, where) /\ UNCHANGED <<sql, parses, cached>>
      BY <2>1 DEF CountHit, TreeHit, ParseHit, Hit
    <3> QED
      BY <1>1, <3>1, SharedElsewhere
  <2>2. CASE CountMiss(t) \/ TreeMiss(t)
    <3>1. PICK where \in Places \ {"parser"} :
             GoTo(t, where) /\ UNCHANGED <<sql, parses, cached>>
      BY <2>2 DEF CountMiss, TreeMiss, Miss
    <3> QED
      BY <1>1, <3>1, SharedElsewhere
  <2>3. CASE ParseMiss(t)
    BY <1>1, <2>3, SharedMiss DEF ParseMiss
  <2>4. CASE ParseEmpty(t) \/ ParserFails(t) \/ ParserRejects(t) \/ Returned(t)
    <3>1. GoTo(t, "idle") /\ UNCHANGED <<sql, parses, cached>>
      BY <2>4 DEF ParseEmpty, ParserFails, ParserRejects, Returned, Return
    <3> QED
      BY <1>1, <3>1, SharedElsewhere
  <2>5. CASE Parsed(t)
    BY <1>1, <2>5, SharedParsed
  <2>6. CASE Generated(t)
    <3>1. GoTo(t, "return") /\ UNCHANGED <<sql, parses>>
      BY <2>6 DEF Generated, Insert
    <3>2. DOMAIN cached["ast"] \subseteq DOMAIN cached'["ast"]
      BY <2>6 DEF Generated, Insert, SInv, TypeOK, Cache
    <3> QED
      BY <1>1, <3>1, <3>2, SharedElsewhere
  <2>7. CASE Record(t)
    <3>1. \A s \in Sql : Missed(s)' = Missed(s)
      BY <2>7 DEF Record, Missed
    <3> QED
      BY <1>1, <2>7, <3>1, SharedUnmoved DEF Record, SInv
  <2> QED
    BY <1>4, <2>1, <2>2, <2>3, <2>4, <2>5, <2>6, <2>7 DEF Step
<1>5. CASE UNCHANGED vars
  <2>1. \A s \in Sql : Missed(s)' = Missed(s)
    BY <1>5 DEF vars, Missed
  <2> QED
    BY <1>1, <1>5, <2>1, SharedUnmoved DEF vars, SInv
<1> QED
  BY <1>2, <1>3, <1>4, <1>5 DEF Next

\* For any number of threads and texts, whether fingerprints collide or not:
\* between two evictions of its entry a text is parsed at most once by each
\* thread, although nobody waits for a parse under way.
THEOREM WorkIsShared == Spec => []WorkShared
<1>1. Init => SInv
  <2>1. Init => TypeOK
    BY DEF Init, TypeOK, Cache, NoAnswer, Answers
  <2>2. ASSUME Init, NEW s \in Sql PROVE Shared(s)
    BY <2>2, MissedFinite DEF Init, Shared
  <2> QED
    BY <2>1, <2>2 DEF SInv
<1>2. SInv /\ [Next]_vars => SInv'
  BY SharedInductive
<1>3. SInv => WorkShared
  <2> SUFFICES ASSUME SInv, NEW s \in Sql PROVE parses[s] <= Cardinality(Thread)
    BY DEF WorkShared
  <2> QED
    BY MissedFinite DEF SInv, Shared, TypeOK
<1> QED
  BY <1>1, <1>2, <1>3, PTL DEF Spec
=============================================================================
