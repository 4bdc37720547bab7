-------------------------- MODULE RpcPromiseProofs --------------------------
(* Proofs about RpcPromise, for any finite set of calls and any methods.     *)
EXTENDS RpcPromise, TLAPS, FiniteSetTheorems

LEMMA InitTypeOK == Init => TypeOK
  BY DEF Init, TypeOK

LEMMA NextTypeOK == TypeOK /\ [Next]_vars => TypeOK'
<1> SUFFICES ASSUME TypeOK, [Next]_vars PROVE TypeOK'
  OBVIOUS
<1>1. ASSUME NEW r \in Calls, NEW s \in Statuses, Answer(r, s)
      PROVE  TypeOK'
  BY <1>1 DEF TypeOK, Answer
<1>2. ASSUME NEW r \in Calls, NEW s \in Statuses, NEW m \in Methods, Count(r, m, s)
      PROVE  TypeOK'
  <2>1. <<m, s>> \in Labels
    BY DEF Labels
  <2>2. tally[<<m, s>>] + 1 \in Nat
    BY <2>1 DEF TypeOK
  <2>3. QED
    BY <1>2, <2>1, <2>2 DEF TypeOK, Count
<1>3. ASSUME NEW r \in Calls, NEW s \in OwnCodes, Choose(r, s)
      PROVE  TypeOK'
  BY <1>3 DEF TypeOK, Choose
<1>4. CASE UNCHANGED vars
  BY <1>4 DEF TypeOK, vars
<1>5. QED
  BY <1>1, <1>2, <1>3, <1>4 DEF Next

(* Type correctness: statuses, labels and counters stay in their ranges.     *)
THEOREM PromiseTypeOK == Spec => []TypeOK
<1>1. QED
  BY InitTypeOK, NextTypeOK, PTL DEF Spec

-----------------------------------------------------------------------------

(* A call counted under a status that is neither failure nor its method's    *)
(* choice was answered with no other: whichever of Answer and Count comes    *)
(* first binds the second, and a choice only adds to what is allowed.        *)
THEOREM PromiseCountAgrees == Spec => []CountAgreesWithAnswer
<1>1. Init => CountAgreesWithAnswer
  BY DEF Init, CountAgreesWithAnswer
<1>2. TypeOK /\ CountAgreesWithAnswer /\ [Next]_vars => CountAgreesWithAnswer'
  <2> SUFFICES ASSUME TypeOK, CountAgreesWithAnswer, [Next]_vars
               PROVE  CountAgreesWithAnswer'
    OBVIOUS
  <2>1. ASSUME NEW r \in Calls, NEW s \in Statuses, Answer(r, s)
        PROVE  CountAgreesWithAnswer'
    BY <2>1 DEF CountAgreesWithAnswer, TypeOK, Answer
  <2>2. ASSUME NEW r \in Calls, NEW s \in Statuses, NEW m \in Methods, Count(r, m, s)
        PROVE  CountAgreesWithAnswer'
    BY <2>2 DEF CountAgreesWithAnswer, TypeOK, Count
  <2>3. ASSUME NEW r \in Calls, NEW s \in OwnCodes, Choose(r, s)
        PROVE  CountAgreesWithAnswer'
    BY <2>3 DEF CountAgreesWithAnswer, TypeOK, Choose
  <2>4. CASE UNCHANGED vars
    BY <2>4 DEF CountAgreesWithAnswer, vars
  <2>5. QED
    BY <2>1, <2>2, <2>3, <2>4 DEF Next
<1>3. QED
  BY <1>1, <1>2, PromiseTypeOK, PTL DEF Spec

-----------------------------------------------------------------------------

CountedAs(l) == {r \in Calls : counted[r] = l}

(* Counting one more call under a label adds one to its class and leaves the *)
(* classes of the other labels as they were.                                 *)
LEMMA CountAddsOne ==
  ASSUME IsFiniteSet(Calls), TypeOK, TallyExact,
         NEW r \in Calls, NEW s \in Statuses, NEW m \in Methods, Count(r, m, s)
  PROVE  TallyExact'
<1> DEFINE k == <<m, s>>
<1>1. k \in Labels
  BY DEF Labels
<1>2. ASSUME NEW l \in Labels PROVE tally'[l] = Cardinality(CountedAs(l)')
  <2>1. IsFiniteSet(CountedAs(l)) /\ tally[l] = Cardinality(CountedAs(l))
    BY FS_Subset, <1>2 DEF CountedAs, TallyExact
  <2>2. CASE l = k
    <3>1. CountedAs(l)' = CountedAs(l) \cup {r}
      BY <2>2 DEF CountedAs, Count, TypeOK
    <3>2. r \notin CountedAs(l)
      BY <2>2 DEF CountedAs, Count
    <3>3. Cardinality(CountedAs(l) \cup {r}) = Cardinality(CountedAs(l)) + 1
      BY <2>1, <3>2, FS_AddElement
    <3>4. QED
      BY <1>1, <2>1, <2>2, <3>1, <3>3 DEF Count, TypeOK
  <2>3. CASE l # k
    <3>1. CountedAs(l)' = CountedAs(l)
      BY <2>3, <1>2 DEF CountedAs, Count, TypeOK, Labels
    <3>2. tally'[l] = tally[l]
      BY <2>3, <1>2 DEF Count, TypeOK
    <3>3. QED
      BY <2>1, <3>1, <3>2
  <2>4. QED
    BY <2>2, <2>3
<1>3. QED
  BY <1>2 DEF TallyExact, CountedAs

(* Every series of rpc_calls_total is the number of calls counted under its  *)
(* labels, whatever the number of calls and the order of the steps.          *)
THEOREM PromiseTallyExact == IsFiniteSet(Calls) => (Spec => []TallyExact)
<1> SUFFICES ASSUME IsFiniteSet(Calls) PROVE Spec => []TallyExact
  OBVIOUS
<1>1. Init => TallyExact
  <2> SUFFICES ASSUME Init, NEW l \in Labels
               PROVE  tally[l] = Cardinality({r \in Calls : counted[r] = l})
    BY DEF TallyExact
  <2>1. PICK m \in Methods, s \in Statuses : l = <<m, s>>
    BY DEF Labels
  <2>2. \A r \in Calls : counted[r] = <<>>
    BY DEF Init
  <2>3. {r \in Calls : counted[r] = l} = {}
    BY <2>1, <2>2
  <2>4. QED
    BY <2>3, FS_EmptySet DEF Init
<1>2. TypeOK /\ TallyExact /\ [Next]_vars => TallyExact'
  <2> SUFFICES ASSUME TypeOK, TallyExact, [Next]_vars PROVE TallyExact'
    OBVIOUS
  <2>1. ASSUME NEW r \in Calls, NEW s \in Statuses, Answer(r, s)
        PROVE  TallyExact'
    BY <2>1 DEF TallyExact, Answer
  <2>2. ASSUME NEW r \in Calls, NEW s \in Statuses, NEW m \in Methods, Count(r, m, s)
        PROVE  TallyExact'
    BY <2>2, CountAddsOne
  <2>3. ASSUME NEW r \in Calls, NEW s \in OwnCodes, Choose(r, s)
        PROVE  TallyExact'
    BY <2>3 DEF TallyExact, Choose
  <2>4. CASE UNCHANGED vars
    BY <2>4 DEF TallyExact, vars
  <2>5. QED
    BY <2>1, <2>2, <2>3, <2>4 DEF Next
<1>3. QED
  BY <1>1, <1>2, PromiseTypeOK, PTL DEF Spec

=============================================================================
