----------------------- MODULE AliasSubstitution_proofs -----------------------
(***************************************************************************)
(* What substitute_aliases returns, for any aliases, contents and order of *)
(* the map.                                                                *)
(*                                                                         *)
(* Covered: the text and the aliases substituted hold everything the query *)
(* needs, and nothing else.  Broken: a circle among the substituted        *)
(* aliases still has a member in the text, which its next turn reports.    *)
(***************************************************************************)
EXTENDS AliasSubstitution, FiniteSetTheorems, TLAPS

\* The map has a length.
LEMMA OrderLength ==
    ASSUME NEW o \in Orders
    PROVE  /\ Cardinality(Alias) \in Nat
           /\ Len(o) = Cardinality(Alias)
           /\ \A a \in Alias : \E i \in 1..Len(o) : o[i] = a
           /\ \A i \in 1..Len(o) : o[i] \in Alias
<1>1. Cardinality(Alias) \in Nat
  BY AliasAssumption, FS_CardinalityType
<1>2. o \in [1..Cardinality(Alias) -> Alias] /\ \A a \in Alias : \E i \in 1..Cardinality(Alias) : o[i] = a
  BY DEF Orders, Bijection, Injection, Surjection
<1>3. Len(o) = Cardinality(Alias)
  <2>1. o \in Seq(Alias)
    BY <1>1, <1>2
  <2> QED  BY <1>1, <1>2, <2>1
<1> QED  BY <1>1, <1>2, <1>3

-----------------------------------------------------------------------------
LEMMA InitTypeOK == Init => TypeOK
<1> SUFFICES ASSUME Init PROVE TypeOK
  OBVIOUS
<1>1. Len(order) \in Nat
  BY OrderLength DEF Init
<1>2. at \in 0..Len(order)
  BY <1>1 DEF Init
<1>3. contents \in [Alias -> SUBSET Name] /\ sql \subseteq Name /\ result \subseteq Name
  BY DEF Init
<1>4. order \in Orders /\ substituted \subseteq Alias
  BY DEF Init
<1>5. changed \in BOOLEAN /\ pc \in {"loop", "circular", "unresolved", "ok"}
  BY DEF Init
<1> QED  BY <1>2, <1>3, <1>4, <1>5 DEF TypeOK

LEMMA StepTypeOK == TypeOK /\ [Next]_vars => TypeOK'
<1> SUFFICES ASSUME TypeOK, [Next]_vars PROVE TypeOK'
  OBVIOUS
<1>0. /\ Len(order) \in Nat
      /\ \A i \in 1..Len(order) : order[i] \in Alias
  BY OrderLength DEF TypeOK
<1>1. CASE Skip
  BY <1>0, <1>1 DEF TypeOK, Skip, InPass
<1>2. CASE Substitute
  <2>1. alias_name \in Alias
    BY <1>0, <1>2 DEF TypeOK, Substitute, InPass, alias_name
  <2>2. contents[alias_name] \subseteq Name
    BY <2>1 DEF TypeOK
  <2>3. result' \subseteq Name
    BY <1>2, <2>2 DEF TypeOK, Substitute
  <2>4. substituted' \subseteq Alias
    BY <1>2, <2>1 DEF TypeOK, Substitute
  <2>5. at' \in 0..Len(order)
    BY <1>0, <1>2 DEF TypeOK, Substitute, InPass
  <2>6. order' = order /\ contents' = contents /\ sql' = sql /\ pc' = pc
    BY <1>2 DEF Substitute
  <2>7. changed' \in BOOLEAN
    BY <1>2 DEF Substitute
  <2>8. at' \in 0..Len(order')
    BY <2>5, <2>6
  <2>9. /\ contents' \in [Alias -> SUBSET Name] /\ order' \in Orders
        /\ sql' \subseteq Name /\ pc' \in {"loop", "circular", "unresolved", "ok"}
    BY <2>6 DEF TypeOK
  <2> QED  BY <2>3, <2>4, <2>7, <2>8, <2>9 DEF TypeOK
<1>3. CASE Circular
  BY <1>3 DEF TypeOK, Circular
<1>4. CASE Again
  <2>1. /\ order' = order /\ contents' = contents /\ sql' = sql /\ result' = result
        /\ substituted' = substituted /\ pc' = pc
    BY <1>4 DEF Again
  <2>2. at' \in 0..Len(order') /\ changed' \in BOOLEAN
    <3>1. at' = 0 /\ changed' = FALSE
      BY <1>4 DEF Again
    <3>2. Len(order') \in Nat
      BY <1>0, <2>1
    <3>3. at' \in 0..Len(order')
      BY ONLY <3>1, <3>2
    <3> QED  BY <3>1, <3>3
  <2>3. /\ contents' \in [Alias -> SUBSET Name] /\ order' \in Orders
        /\ sql' \subseteq Name /\ result' \subseteq Name /\ substituted' \subseteq Alias
        /\ pc' \in {"loop", "circular", "unresolved", "ok"}
    BY <2>1 DEF TypeOK
  <2> QED  BY <2>2, <2>3 DEF TypeOK
<1>5. CASE Return
  BY <1>5 DEF TypeOK, Return
<1>6. CASE UNCHANGED vars
  BY <1>6 DEF TypeOK, vars
<1> QED  BY <1>1, <1>2, <1>3, <1>4, <1>5, <1>6 DEF Next

\* The variables of substitute_aliases keep their types.
THEOREM TypeCorrect == Spec => []TypeOK
BY InitTypeOK, StepTypeOK, PTL DEF Spec

-----------------------------------------------------------------------------
\* Nothing that was needed is lost; nothing else comes in.
Covered ==
    /\ sql \subseteq substituted \cup result
    /\ \A a \in substituted : contents[a] \subseteq substituted \cup result
    /\ substituted \cup result \subseteq Reach

\* A pass that has changed nothing has left no alias it has seen.
Passed == ~changed => \A i \in 1..at : order[i] \notin result

\* Members of C bring in members of C.
Turning(C) == C # {} /\ \A a \in C : contents[a] \cap C # {}

\* A circle among the substituted aliases is still in the text.
Broken == \A C \in SUBSET substituted : Turning(C) => C \cap result # {}

Ended ==
    /\ pc = "ok" => result = {}
    /\ pc = "unresolved" => result # {} /\ result \cap Alias = {}

IInv == TypeOK /\ Covered /\ Passed /\ Broken /\ Ended

\* The contents of a needed alias are needed.
LEMMA ReachClosed ==
    ASSUME TypeOK, NEW a \in Reach \cap Alias
    PROVE  contents[a] \subseteq Reach
<1> SUFFICES ASSUME NEW n \in contents[a] PROVE n \in Reach
  OBVIOUS
<1>1. n \in Name
  BY DEF TypeOK
<1>2. \A S \in SUBSET Name : sql \subseteq S /\ Closed(S) => n \in S
  BY DEF Reach, Closed
<1> QED  BY <1>1, <1>2 DEF Reach

LEMMA SqlNeeded == TypeOK => sql \subseteq Reach
BY DEF TypeOK, Reach

LEMMA InitInv == Init => IInv
<1> SUFFICES ASSUME Init PROVE IInv
  OBVIOUS
<1>1. TypeOK
  BY InitTypeOK
<1>2. Covered
  BY <1>1, SqlNeeded DEF Init, Covered
<1>3. Passed /\ Broken /\ Ended
  BY DEF Init, Passed, Broken, Turning, Ended
<1> QED  BY <1>1, <1>2, <1>3 DEF IInv

\* Reach looks at what never changes.
LEMMA ReachKept ==
    ASSUME UNCHANGED <<contents, sql>>
    PROVE  Reach' = Reach
BY DEF Reach, Closed

LEMMA StepInv == IInv /\ [Next]_vars => IInv'
<1> SUFFICES ASSUME IInv, [Next]_vars PROVE IInv'
  OBVIOUS
<1> USE DEF IInv
<1>0. /\ TypeOK'
      /\ Len(order) \in Nat
      /\ \A i \in 1..Len(order) : order[i] \in Alias
      /\ \A a \in Alias : \E i \in 1..Len(order) : order[i] = a
      /\ at \in Nat
  BY StepTypeOK, OrderLength DEF TypeOK
<1>1. CASE Skip
  <2>1. Passed'
    BY <1>0, <1>1 DEF Passed, Skip, InPass, alias_name
  <2>2. Covered'
    BY <1>1, ReachKept DEF Covered, Skip
  <2>3. Broken' /\ Ended'
    BY <1>1 DEF Broken, Turning, Ended, Skip
  <2> QED  BY <1>0, <2>1, <2>2, <2>3
<1>2. CASE Substitute
  <2>1. PICK a \in Alias : /\ a = alias_name /\ a \in result \ substituted
                           /\ substituted' = substituted \cup {a}
                           /\ result' = (result \ {a}) \cup contents[a]
    BY <1>0, <1>2 DEF Substitute, InPass, alias_name, TypeOK
  <2>2. UNCHANGED <<contents, order, sql, pc>> /\ changed' /\ pc = "loop"
    BY <1>2 DEF Substitute, InPass
  <2>3. Reach' = Reach
    BY <2>2, ReachKept
  <2>4. contents[a] \subseteq Reach
    BY <2>1, ReachClosed DEF Covered
  <2>5. Covered'
    BY <2>1, <2>2, <2>3, <2>4 DEF Covered
  <2>6. Broken'
    <3> SUFFICES ASSUME NEW C \in SUBSET substituted', Turning(C)'
                 PROVE  C \cap result' # {}
      BY DEF Broken
    <3>1. Turning(C)
      BY <2>2 DEF Turning
    <3>2. CASE a \in C
      <4>1. contents[a] \cap C # {}
        BY <3>1, <3>2 DEF Turning
      <4> QED  BY <4>1, <2>1
    <3>3. CASE a \notin C
      <4>1. C \in SUBSET substituted
        BY <3>3, <2>1
      <4>2. C \cap result # {}
        BY <4>1, <3>1 DEF Broken
      <4> QED  BY <4>2, <3>3, <2>1
    <3> QED  BY <3>2, <3>3
  <2>7. Passed' /\ Ended'
    BY <2>2 DEF Passed, Ended
  <2> QED  BY <1>0, <2>5, <2>6, <2>7
<1>3. CASE Circular
  <2>1. Covered'
    BY <1>3, ReachKept DEF Covered, Circular
  <2>2. Passed' /\ Broken' /\ Ended'
    BY <1>3 DEF Passed, Broken, Turning, Ended, Circular
  <2> QED  BY <1>0, <2>1, <2>2
<1>4. CASE Again
  <2>1. Covered'
    BY <1>4, ReachKept DEF Covered, Again
  <2>2. Passed'
    BY <1>4 DEF Passed, Again
  <2>3. Broken' /\ Ended'
    BY <1>4 DEF Broken, Turning, Ended, Again
  <2> QED  BY <1>0, <2>1, <2>2, <2>3
<1>5. CASE Return
  <2>1. Covered'
    BY <1>5, ReachKept DEF Covered, Return
  <2>2. Passed' /\ Broken'
    BY <1>5 DEF Passed, Broken, Turning, Return
  <2>3. result \cap Alias = {}
    BY <1>0, <1>5 DEF Passed, Return
  <2>4. Ended'
    BY <1>5, <2>3 DEF Ended, Return, Unresolved
  <2> QED  BY <1>0, <2>1, <2>2, <2>4
<1>6. CASE UNCHANGED vars
  <2>1. Covered'
    BY <1>6, ReachKept DEF Covered, vars
  <2>2. Passed' /\ Broken' /\ Ended'
    BY <1>6 DEF Passed, Broken, Turning, Ended, vars
  <2> QED  BY <1>0, <2>1, <2>2
<1> QED  BY <1>1, <1>2, <1>3, <1>4, <1>5, <1>6 DEF Next

\* Once no alias is left in the text, what is needed is what was substituted
\* or is still there.
LEMMA NeededIsCovered ==
    ASSUME TypeOK, Covered, result \cap Alias = {}
    PROVE  Reach = substituted \cup result
<1>1. substituted \cup result \in SUBSET Name
  BY DEF TypeOK, Name
<1>2. Closed(substituted \cup result)
  BY DEF Closed, Covered
<1>3. Reach \subseteq substituted \cup result
  BY <1>1, <1>2 DEF Reach, Covered
<1> QED  BY <1>3 DEF Covered

LEMMA InvImplies == IInv => UnknownReported /\ CirclesReported
<1> SUFFICES ASSUME IInv PROVE UnknownReported /\ CirclesReported
  OBVIOUS
<1> USE DEF IInv
<1>1. UnknownReported
  <2>1. ASSUME pc = "ok" PROVE Reach \subseteq Alias
    BY <2>1, NeededIsCovered DEF Ended, TypeOK
  <2>2. ASSUME pc = "unresolved" PROVE Reach \cap Unknown # {}
    <3>1. result \subseteq Reach /\ result \subseteq Name /\ result \cap Alias = {} /\ result # {}
      BY <2>2 DEF Ended, Covered, TypeOK
    <3> QED  BY <3>1 DEF Name
  <2> QED  BY <2>1, <2>2 DEF UnknownReported
<1>2. CirclesReported
  <2> SUFFICES ASSUME pc \in {"ok", "unresolved"}, IsCircular PROVE FALSE
    BY DEF CirclesReported
  <2>1. result \cap Alias = {}
    BY DEF Ended
  <2>2. PICK C \in SUBSET (Reach \cap Alias) : C # {} /\ \A a \in C : contents[a] \cap C # {}
    BY DEF IsCircular
  <2>3. C \in SUBSET substituted
    BY <2>1, <2>2, NeededIsCovered
  <2>4. C \cap result # {}
    BY <2>2, <2>3 DEF Broken, Turning
  <2> QED  BY <2>1, <2>2, <2>4
<1> QED  BY <1>1, <1>2

LEMMA Invariant == Spec => []IInv
BY InitInv, StepInv, PTL DEF Spec

\* A query is returned only if every name it needs has an alias, and refused
\* as unresolved only if one has none.
THEOREM NamesAreResolved == Spec => []UnknownReported
BY Invariant, InvImplies, PTL

\* A query that needs a circle of aliases is never returned.
THEOREM CirclesAreReported == Spec => []CirclesReported
BY Invariant, InvImplies, PTL
=============================================================================
