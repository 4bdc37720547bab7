--------------------------- MODULE RpcCallProofs ----------------------------
(* Proofs about RpcCall and RpcClient, for any calls, methods and length of  *)
(* a stream.  RpcCall keeps the promise of RpcPromise.  Nothing is lost      *)
(* between the generator's goroutine and a handler that ends well, and such  *)
(* a handler leaves no goroutine behind.  An application receives what was   *)
(* written, in order, and all of it before the channel is closed.            *)
EXTENDS RpcCall, RpcClient, TLAPS, FiniteSetTheorems

-----------------------------------------------------------------------------
(* Type correctness. *)

LEMMA InitTypeOK == Init => TypeOK
  BY MaxItemsNat DEF Init, TypeOK, HandlerPC, GenPC

(* What the first write fixes is a status; the text of an error is a number  *)
(* in the body.                                                              *)
LEMMA CountedUpType ==
  ASSUME NEW S, NEW f \in [S -> Nat], NEW l
  PROVE  [f EXCEPT ![l] = @ + 1] \in [S -> Nat]
<1>1. CASE l \in S
  BY <1>1
<1>2. CASE l \notin S
  BY <1>2
<1>3. QED
  BY <1>1, <1>2

LEMMA CommitType ==
  ASSUME TypeOK, NEW r \in Calls, NEW s \in {0} \union Statuses, Commit(r, s)
  PROVE  wire' \in [Calls -> {0} \union Statuses]
  BY DEF Commit, TypeOK

LEMMA MaybeCommitType ==
  ASSUME TypeOK, NEW r \in Calls, NEW s \in Statuses, Commit(r, s) \/ UNCHANGED wire
  PROVE  wire' \in [Calls -> {0} \union Statuses]
<1>1. CASE Commit(r, s)
  BY <1>1, CommitType
<1>2. CASE UNCHANGED wire
  BY <1>2 DEF TypeOK
<1>3. QED
  BY <1>1, <1>2

LEMMA HttpErrorType ==
  ASSUME TypeOK, NEW r \in Calls, NEW s \in {0} \union Statuses, HttpError(r, s)
  PROVE  /\ wire' \in [Calls -> {0} \union Statuses]
         /\ body' \in [Calls -> Seq(Nat)]
  BY CommitType DEF HttpError, TypeOK, StatusText

LEMMA SetCodeToType ==
  ASSUME TypeOK, NEW r \in Calls, NEW s \in Statuses, NEW then \in HandlerPC,
         SetCodeTo(r, s, then)
  PROVE  code' \in [Calls -> {0} \union Statuses] /\ pc' \in [Calls -> HandlerPC]
  BY DEF SetCodeTo, Goto, TypeOK

(* A select loop whose receive was not ok never answers 204. *)
LEMMA LeaveClosed ==
  ASSUME NEW r \in Calls, LeaveLoop(r, FALSE)
  PROVE  Goto(r, "deferred") /\ UNCHANGED <<code, wire, body>>
  BY DEF LeaveLoop

(* A call that is being counted has a status. *)
LEMMA CodeIsStatus ==
  ASSUME TypeOK, StatusSettled, NEW r \in Calls, pc[r] \in {"refuse", "fail", "count"}
  PROVE  code[r] \in Statuses
<1>1. \A s \in own[r] : s \in Statuses /\ s # 0
  BY OwnCodesFinal DEF TypeOK, Statuses
<1>2. CASE pc[r] = "count"
  <2>1. Agrees(r, code[r])
    BY <1>2 DEF StatusSettled, Settled
  <2>2. code[r] # 0
    BY <1>1, <2>1 DEF Agrees
  <2>3. QED
    BY <2>2 DEF TypeOK
<1>3. CASE pc[r] \in {"refuse", "fail"}
  BY <1>1, <1>3 DEF StatusSettled, Settled, Statuses
<1>4. QED
  BY <1>2, <1>3

LEMMA NextTypeOK == TypeOK /\ StatusSettled /\ [Next]_vars => TypeOK'
<1> SUFFICES ASSUME TypeOK, StatusSettled, [Next]_vars PROVE TypeOK'
  OBVIOUS
<1> USE MaxItemsNat DEF TypeOK, HandlerPC, GenPC, Statuses, Goto, http, stream, metrics
<1>1. ASSUME NEW r \in Calls, NEW m \in Methods, NEW authed \in BOOLEAN,
           NEW encoded \in BOOLEAN, Receive(r, m, authed, encoded)
      PROVE  TypeOK'
  <2>1. rq' \in [Calls -> Request \union {NoRequest}]
    BY <1>1 DEF Receive, Request
  <2>2. /\ pc' \in [Calls -> HandlerPC]
        /\ wire' \in [Calls -> {0} \union Statuses]
        /\ body' \in [Calls -> Seq(Nat)]
    <3>1. CASE m \notin Public /\ ~authed
      <4>1. HttpError(r, 404) /\ pc' = [pc EXCEPT ![r] = "done"]
        BY <1>1, <3>1 DEF Receive
      <4>2. QED
        BY <4>1, HttpErrorType
    <3>2. CASE ~(m \notin Public /\ ~authed)
      <4>1. wire' = wire /\ body' = body
        BY <1>1, <3>2 DEF Receive
      <4>2. pc' = [pc EXCEPT ![r] = IF m \in WithArgs THEN "reading" ELSE "call"]
        BY <1>1, <3>2 DEF Receive
      <4>3. pc' \in [Calls -> HandlerPC]
        BY <4>2
      <4>4. QED
        BY <4>1, <4>3
    <3>3. QED
      BY <3>1, <3>2
  <2>3. UNCHANGED <<alive, conn, code, panicking, own, gpc, offered, taken, label, counts, samples>>
    BY <1>1 DEF Receive
  <2>4. QED
    BY <2>1, <2>2, <2>3
<1>2. ASSUME NEW r \in Calls, Disconnect(r) PROVE TypeOK'
  BY <1>2 DEF Disconnect
<1>3. ASSUME NEW r \in Calls, ReadBody(r) PROVE TypeOK'
  BY <1>3 DEF ReadBody
<1>4. ASSUME NEW r \in Calls, RefuseBody(r) PROVE TypeOK'
  <2>1. SetCodeTo(r, 400, "refuse")
        /\ UNCHANGED <<alive, rq, conn, panicking, wire, body, own, gpc, offered, taken, label, counts, samples>>
    BY <1>4 DEF RefuseBody
  <2>2. code' \in [Calls -> {0} \union Statuses] /\ pc' \in [Calls -> HandlerPC]
    BY <2>1, SetCodeToType
  <2> QED BY <2>1, <2>2
<1>5. ASSUME NEW r \in Calls, CallFunction(r) PROVE TypeOK'
  BY <1>5 DEF CallFunction
<1>6. ASSUME NEW r \in Calls, StartGenerator(r) PROVE TypeOK'
  BY <1>6 DEF StartGenerator
<1>7. ASSUME NEW r \in Calls, SelectItem(r) PROVE TypeOK'
  BY <1>7 DEF SelectItem
<1>8. ASSUME NEW r \in Calls, SelectClosed(r) PROVE TypeOK'
  <2>1. Goto(r, "deferred") /\ UNCHANGED <<code, wire, body>>
    BY <1>8, LeaveClosed DEF SelectClosed
  <2>2. QED
    BY <1>8, <2>1 DEF SelectClosed
<1>9. ASSUME NEW r \in Calls, SelectDone(r) PROVE TypeOK'
  <2>1. Goto(r, "deferred") /\ UNCHANGED <<code, wire, body>>
    BY <1>9, LeaveClosed DEF SelectDone
  <2>2. QED
    BY <1>9, <2>1 DEF SelectDone
<1>10. ASSUME NEW r \in Calls, RefuseItem(r) PROVE TypeOK'
  BY <1>10, SetCodeToType DEF RefuseItem
<1>11. ASSUME NEW r \in Calls, Recover(r) PROVE TypeOK'
  <2>1. code' \in [Calls -> {0} \union Statuses] /\ pc' \in [Calls -> HandlerPC]
    <3>1. CASE panicking[r] \/ code[r] = 0
      <4>1. SetCodeTo(r, 500, "fail")
        BY <1>11, <3>1 DEF Recover
      <4>2. QED
        BY <4>1, SetCodeToType
    <3>2. CASE ~(panicking[r] \/ code[r] = 0)
      <4>1. code' = code /\ pc' = [pc EXCEPT ![r] = "count"]
        BY <1>11, <3>2 DEF Recover
      <4>2. QED
        BY <4>1
    <3>3. QED
      BY <3>1, <3>2
  <2>2. panicking' \in [Calls -> BOOLEAN]
    BY <1>11 DEF Recover
  <2>3. UNCHANGED <<alive, rq, conn, wire, body, own, gpc, offered, taken, label, counts, samples>>
    BY <1>11 DEF Recover
  <2>4. QED
    BY <2>1, <2>2, <2>3
<1>12. ASSUME NEW r \in Calls, CountCall(r) PROVE TypeOK'
  <2>1. <<Method(r), code[r]>> \in Labels
    <3>1. pc[r] = "count"
      BY <1>12 DEF CountCall
    <3>2. Method(r) \in Methods
      BY <3>1 DEF StatusSettled, Settled, Request, Method
    <3>3. code[r] \in Statuses
      BY <3>1, CodeIsStatus
    <3> HIDE DEF TypeOK, Statuses
    <3>4. QED
      BY <3>2, <3>3 DEF Labels
  <2>2. label' \in [Calls -> {<<>>} \union Labels]
    BY <1>12, <2>1 DEF CountCall
  <2>3. counts' \in [Labels -> Nat]
    BY <1>12, CountedUpType DEF CountCall
  <2>4. pc' \in [Calls -> HandlerPC]
    BY <1>12 DEF CountCall
  <2>5. UNCHANGED <<alive, rq, conn, code, panicking, wire, body, own, gpc, offered, taken, samples>>
    BY <1>12 DEF CountCall
  <2>6. QED
    BY <2>2, <2>3, <2>4, <2>5
<1>13. ASSUME NEW r \in Calls, SampleCall(r) PROVE TypeOK'
  <2>1. samples' \in [Labels -> Nat]
    BY <1>13, CountedUpType DEF SampleCall
  <2>2. pc' \in [Calls -> HandlerPC]
    BY <1>13 DEF SampleCall
  <2>3. QED
    BY <1>13, <2>1, <2>2 DEF SampleCall
<1>14. ASSUME NEW r \in Calls, Return(r) PROVE TypeOK'
  BY <1>14, CommitType DEF Return
<1>15. ASSUME NEW r \in Calls, FunctionReplies(r) PROVE TypeOK'
  <2>1. wire' \in [Calls -> {0} \union Statuses]
    <3>1. Commit(r, 200) \/ UNCHANGED wire
      BY <1>15 DEF FunctionReplies
    <3>2. CASE Commit(r, 200)
      <4>1. 200 \in {0} \union Statuses
        OBVIOUS
      <4> HIDE DEF TypeOK, HandlerPC, GenPC, Statuses
      <4> QED BY <3>2, <4>1, CommitType
    <3>3. CASE UNCHANGED wire
      BY <3>3
    <3>4. QED
      BY <3>1, <3>2, <3>3
  <2>2. body' \in [Calls -> Seq(Nat)]
    <3>1. CASE body' = [body EXCEPT ![r] = Append(@, 1)]
      BY <3>1
    <3>2. CASE UNCHANGED body
      BY <3>2
    <3>3. QED
      BY <1>15, <3>1, <3>2 DEF FunctionReplies
  <2>3. code' \in [Calls -> {0} \union Statuses]
    BY <1>15 DEF FunctionReplies
  <2>4. QED
    BY <1>15, <2>1, <2>2, <2>3 DEF FunctionReplies
<1>16. ASSUME NEW r \in Calls, FunctionRefuses(r) PROVE TypeOK'
  <2>1. SetCodeTo(r, 400, "refuse")
        /\ UNCHANGED <<alive, rq, conn, panicking, wire, body, own, gpc, offered, taken, label, counts, samples>>
    BY <1>16 DEF FunctionRefuses
  <2>2. code' \in [Calls -> {0} \union Statuses] /\ pc' \in [Calls -> HandlerPC]
    BY <2>1, SetCodeToType
  <2> QED BY <2>1, <2>2
<1>17. ASSUME NEW r \in Calls, Offer(r) PROVE TypeOK'
  BY <1>17 DEF Offer
<1>18. ASSUME NEW r \in Calls, GiveUp(r) PROVE TypeOK'
  BY <1>18 DEF GiveUp
<1>19. ASSUME NEW r \in Calls, GeneratorReturns(r) PROVE TypeOK'
  BY <1>19 DEF GeneratorReturns
<1>20. ASSUME NEW r \in Calls, GeneratorPanics(r) PROVE TypeOK'
  BY <1>20 DEF GeneratorPanics
<1>21. ASSUME NEW r \in Calls, ProcessDies(r) PROVE TypeOK'
  BY <1>21 DEF ProcessDies
<1>22. ASSUME NEW r \in Calls, NEW blank \in BOOLEAN, WriteItem(r, blank) PROVE TypeOK'
  <2>1. wire' \in [Calls -> {0} \union Statuses]
    <3>1. Commit(r, 200) \/ UNCHANGED wire
      BY <1>22 DEF WriteItem
    <3>2. QED
      BY <3>1, MaybeCommitType
  <2>2. body' \in [Calls -> Seq(Nat)]
    <3>1. taken[r] \in Nat
      OBVIOUS
    <3>2. body' = [body EXCEPT ![r] = IF blank THEN @ ELSE Append(@, taken[r])]
      BY <1>22 DEF WriteItem
    <3>3. QED
      BY <3>1, <3>2
  <2>3. code' \in [Calls -> {0} \union Statuses] /\ pc' \in [Calls -> HandlerPC]
    BY <1>22 DEF WriteItem
  <2>4. UNCHANGED <<alive, rq, conn, panicking, own, gpc, offered, taken, label, counts, samples>>
    BY <1>22 DEF WriteItem
  <2>5. QED
    BY <2>1, <2>2, <2>3, <2>4
<1>23. ASSUME NEW r \in Calls, NEW begun \in BOOLEAN, ItemPanics(r, begun) PROVE TypeOK'
  <2>1. wire' \in [Calls -> {0} \union Statuses]
    <3>1. Commit(r, 200) \/ UNCHANGED wire
      BY <1>23 DEF ItemPanics
    <3>2. QED
      BY <3>1, MaybeCommitType
  <2>2. panicking' \in [Calls -> BOOLEAN] /\ pc' \in [Calls -> HandlerPC]
    BY <1>23 DEF ItemPanics
  <2>3. UNCHANGED <<alive, rq, conn, code, body, own, gpc, offered, taken, label, counts, samples>>
    BY <1>23 DEF ItemPanics
  <2>4. QED
    BY <2>1, <2>2, <2>3
<1>24. ASSUME NEW r \in Calls, NEW begun \in BOOLEAN, FunctionPanics(r, begun) PROVE TypeOK'
  <2>1. wire' \in [Calls -> {0} \union Statuses]
    <3>1. Commit(r, 200) \/ UNCHANGED wire
      BY <1>24 DEF FunctionPanics
    <3>2. QED
      BY <3>1, MaybeCommitType
  <2>2. panicking' \in [Calls -> BOOLEAN] /\ pc' \in [Calls -> HandlerPC]
    BY <1>24 DEF FunctionPanics
  <2>3. UNCHANGED <<alive, rq, conn, code, body, own, gpc, offered, taken, label, counts, samples>>
    BY <1>24 DEF FunctionPanics
  <2>4. QED
    BY <2>1, <2>2, <2>3
<1>25. ASSUME NEW r \in Calls, NEW s \in OwnCodes, SetCode(r, s) PROVE TypeOK'
  BY <1>25 DEF SetCode
<1>26. ASSUME NEW r \in Calls, Tell(r) PROVE TypeOK'
  <2>1. HttpError(r, code[r]) /\ code[r] \in {0} \union Statuses
    BY <1>26 DEF Tell
  <2>2. /\ wire' \in [Calls -> {0} \union Statuses]
        /\ body' \in [Calls -> Seq(Nat)]
    <3> HIDE DEF TypeOK, HandlerPC, GenPC, Statuses
    <3> QED BY <2>1, HttpErrorType
  <2>3. pc' \in [Calls -> HandlerPC]
    BY <1>26 DEF Tell
  <2>4. UNCHANGED <<alive, rq, conn, code, panicking, own, gpc, offered, taken, label, counts, samples>>
    BY <1>26 DEF Tell
  <2>5. QED
    BY <2>2, <2>3, <2>4
<1>27. CASE UNCHANGED vars
  BY <1>27 DEF vars
<1> HIDE DEF TypeOK
<1>28. QED
  BY <1>1, <1>2, <1>3, <1>4, <1>5, <1>6, <1>7, <1>8, <1>9, <1>10, <1>11,
     <1>12, <1>13, <1>14, <1>15, <1>16, <1>17, <1>18, <1>19, <1>20, <1>21,
     <1>22, <1>23, <1>24, <1>25, <1>26, <1>27
     DEF Next, Arrive, UploadStep, HandlerStep, FunctionStep, GeneratorStep

-----------------------------------------------------------------------------
(* How ri.HttpCode and the status line go together. *)

LEMMA InitStatusSettled == Init => StatusSettled
  BY DEF Init, StatusSettled, Settled

SettleKept(q) == UNCHANGED <<pc[q], rq[q], code[q], panicking[q], wire[q], own[q], label[q], gpc[q]>>

LEMMA OthersSettle ==
  ASSUME NEW q \in Calls, Settled(q), SettleKept(q)
  PROVE  Settled(q)'
  BY DEF SettleKept, Settled, Agrees, Method

LEMMA NextStatusSettled == TypeOK /\ StatusSettled /\ [Next]_vars => StatusSettled'
<1> SUFFICES ASSUME TypeOK, StatusSettled, [Next]_vars, NEW q \in Calls PROVE Settled(q)'
  BY DEF StatusSettled
<1>0. Settled(q) /\ \A s \in own[q] : s # 0
  <2>1. own[q] \subseteq OwnCodes /\ \A s \in OwnCodes : s # 0
    BY OwnCodesFinal DEF TypeOK
  <2> QED BY <2>1 DEF StatusSettled
<1> USE DEF TypeOK, HttpError, Commit, Goto, SettleKept, http, stream, metrics
<1>1. ASSUME NEW r \in Calls, NEW m \in Methods, NEW authed \in BOOLEAN,
           NEW encoded \in BOOLEAN, Receive(r, m, authed, encoded) PROVE Settled(q)'
  <2>1. CASE q = r
    BY <1>0, <1>1, <2>1 DEF Receive, Request, Settled, Agrees, Method
  <2>2. CASE q # r
    <3>1. SettleKept(q)
      BY <1>1, <2>2 DEF Receive, Request
    <3> QED BY <1>0, <3>1, OthersSettle
  <2> QED BY <2>1, <2>2
<1>2. ASSUME NEW r \in Calls, Disconnect(r) PROVE Settled(q)'
  <2>1. SettleKept(q)
    BY <1>2 DEF Disconnect
  <2> QED BY <1>0, <2>1, OthersSettle
<1>3. ASSUME NEW r \in Calls, Offer(r) PROVE Settled(q)'
  <2>1. CASE q = r
    BY <1>0, <1>3, <2>1 DEF Offer, Settled, Agrees, Method
  <2>2. CASE q # r
    <3>1. SettleKept(q)
      BY <1>3, <2>2 DEF Offer
    <3> QED BY <1>0, <3>1, OthersSettle
  <2> QED BY <2>1, <2>2
<1>4. ASSUME NEW r \in Calls, GiveUp(r) PROVE Settled(q)'
  <2>1. CASE q = r
    BY <1>0, <1>4, <2>1 DEF GiveUp, Settled, Agrees, Method
  <2>2. CASE q # r
    <3>1. SettleKept(q)
      BY <1>4, <2>2 DEF GiveUp
    <3> QED BY <1>0, <3>1, OthersSettle
  <2> QED BY <2>1, <2>2
<1>5. ASSUME NEW r \in Calls, GeneratorReturns(r) PROVE Settled(q)'
  <2>1. CASE q = r
    BY <1>0, <1>5, <2>1 DEF GeneratorReturns, Settled, Agrees, Method
  <2>2. CASE q # r
    <3>1. SettleKept(q)
      BY <1>5, <2>2 DEF GeneratorReturns
    <3> QED BY <1>0, <3>1, OthersSettle
  <2> QED BY <2>1, <2>2
<1>6. ASSUME NEW r \in Calls, GeneratorPanics(r) PROVE Settled(q)'
  <2>1. CASE q = r
    BY <1>0, <1>6, <2>1 DEF GeneratorPanics, Settled, Agrees, Method
  <2>2. CASE q # r
    <3>1. SettleKept(q)
      BY <1>6, <2>2 DEF GeneratorPanics
    <3> QED BY <1>0, <3>1, OthersSettle
  <2> QED BY <2>1, <2>2
<1>7. ASSUME NEW r \in Calls, ProcessDies(r) PROVE Settled(q)'
  <2>1. SettleKept(q)
    BY <1>7 DEF ProcessDies
  <2> QED BY <1>0, <2>1, OthersSettle
<1>8. ASSUME NEW r \in Calls, ReadBody(r) PROVE Settled(q)'
  <2>1. CASE q = r
    BY <1>0, <1>8, <2>1 DEF ReadBody, Settled, Agrees, Method
  <2>2. CASE q # r
    <3>1. SettleKept(q)
      BY <1>8, <2>2 DEF ReadBody
    <3> QED BY <1>0, <3>1, OthersSettle
  <2> QED BY <2>1, <2>2
<1>9. ASSUME NEW r \in Calls, RefuseBody(r) PROVE Settled(q)'
  <2>1. CASE q = r
    BY <1>0, <1>9, <2>1 DEF RefuseBody, SetCodeTo, Settled, Agrees, Method
  <2>2. CASE q # r
    <3>1. SettleKept(q)
      BY <1>9, <2>2 DEF RefuseBody, SetCodeTo
    <3> QED BY <1>0, <3>1, OthersSettle
  <2> QED BY <2>1, <2>2
<1>10. ASSUME NEW r \in Calls, CallFunction(r) PROVE Settled(q)'
  <2>1. CASE q = r
    BY <1>0, <1>10, <2>1 DEF CallFunction, Settled, Agrees, Method
  <2>2. CASE q # r
    <3>1. SettleKept(q)
      BY <1>10, <2>2 DEF CallFunction
    <3> QED BY <1>0, <3>1, OthersSettle
  <2> QED BY <2>1, <2>2
<1>11. ASSUME NEW r \in Calls, StartGenerator(r) PROVE Settled(q)'
  <2>1. CASE q = r
    BY <1>0, <1>11, <2>1 DEF StartGenerator, Settled, Agrees, Method
  <2>2. CASE q # r
    <3>1. SettleKept(q)
      BY <1>11, <2>2 DEF StartGenerator
    <3> QED BY <1>0, <3>1, OthersSettle
  <2> QED BY <2>1, <2>2
<1>12. ASSUME NEW r \in Calls, SelectItem(r) PROVE Settled(q)'
  <2>1. CASE q = r
    BY <1>0, <1>12, <2>1 DEF SelectItem, Settled, Agrees, Method
  <2>2. CASE q # r
    <3>1. SettleKept(q)
      BY <1>12, <2>2 DEF SelectItem
    <3> QED BY <1>0, <3>1, OthersSettle
  <2> QED BY <2>1, <2>2
<1>13. ASSUME NEW r \in Calls, SelectClosed(r) PROVE Settled(q)'
  <2>1. CASE q = r
    BY <1>0, <1>13, <2>1 DEF SelectClosed, LeaveLoop, SetCodeTo, First, Settled, Agrees, Method
  <2>2. CASE q # r
    <3>1. SettleKept(q)
      BY <1>13, <2>2 DEF SelectClosed, LeaveLoop, SetCodeTo, First
    <3> QED BY <1>0, <3>1, OthersSettle
  <2> QED BY <2>1, <2>2
<1>14. ASSUME NEW r \in Calls, SelectDone(r) PROVE Settled(q)'
  <2>1. CASE q = r
    BY <1>0, <1>14, <2>1 DEF SelectDone, LeaveLoop, SetCodeTo, First, Settled, Agrees, Method
  <2>2. CASE q # r
    <3>1. SettleKept(q)
      BY <1>14, <2>2 DEF SelectDone, LeaveLoop, SetCodeTo, First
    <3> QED BY <1>0, <3>1, OthersSettle
  <2> QED BY <2>1, <2>2
<1>15. ASSUME NEW r \in Calls, RefuseItem(r) PROVE Settled(q)'
  <2>1. CASE q = r
    BY <1>0, <1>15, <2>1 DEF RefuseItem, SetCodeTo, First, Settled, Agrees, Method
  <2>2. CASE q # r
    <3>1. SettleKept(q)
      BY <1>15, <2>2 DEF RefuseItem, SetCodeTo, First
    <3> QED BY <1>0, <3>1, OthersSettle
  <2> QED BY <2>1, <2>2
<1>16. ASSUME NEW r \in Calls, FunctionRefuses(r) PROVE Settled(q)'
  <2>1. CASE q = r
    BY <1>0, <1>16, <2>1 DEF FunctionRefuses, SetCodeTo, Settled, Agrees, Method
  <2>2. CASE q # r
    <3>1. SettleKept(q)
      BY <1>16, <2>2 DEF FunctionRefuses, SetCodeTo
    <3> QED BY <1>0, <3>1, OthersSettle
  <2> QED BY <2>1, <2>2
<1>17. ASSUME NEW r \in Calls, FunctionReplies(r) PROVE Settled(q)'
  <2>1. CASE q = r
    BY <1>0, <1>17, <2>1 DEF FunctionReplies, Settled, Agrees, Method
  <2>2. CASE q # r
    <3>1. SettleKept(q)
      BY <1>17, <2>2 DEF FunctionReplies
    <3> QED BY <1>0, <3>1, OthersSettle
  <2> QED BY <2>1, <2>2
<1>18. ASSUME NEW r \in Calls, Recover(r) PROVE Settled(q)'
  <2>1. CASE q = r
    BY <1>0, <1>18, <2>1 DEF Recover, SetCodeTo, Settled, Agrees, Method
  <2>2. CASE q # r
    <3>1. SettleKept(q)
      BY <1>18, <2>2 DEF Recover, SetCodeTo
    <3> QED BY <1>0, <3>1, OthersSettle
  <2> QED BY <2>1, <2>2
<1>19. ASSUME NEW r \in Calls, CountCall(r) PROVE Settled(q)'
  <2>1. CASE q = r
    BY <1>0, <1>19, <2>1 DEF CountCall, Settled, Agrees, Method
  <2>2. CASE q # r
    <3>1. SettleKept(q)
      BY <1>19, <2>2 DEF CountCall
    <3> QED BY <1>0, <3>1, OthersSettle
  <2> QED BY <2>1, <2>2
<1>20. ASSUME NEW r \in Calls, SampleCall(r) PROVE Settled(q)'
  <2>1. CASE q = r
    BY <1>0, <1>20, <2>1 DEF SampleCall, Settled, Agrees, Method
  <2>2. CASE q # r
    <3>1. SettleKept(q)
      BY <1>20, <2>2 DEF SampleCall
    <3> QED BY <1>0, <3>1, OthersSettle
  <2> QED BY <2>1, <2>2
<1>21. ASSUME NEW r \in Calls, Return(r) PROVE Settled(q)'
  <2>1. CASE q = r
    BY <1>0, <1>21, <2>1 DEF Return, Settled, Agrees, Method
  <2>2. CASE q # r
    <3>1. SettleKept(q)
      BY <1>21, <2>2 DEF Return
    <3> QED BY <1>0, <3>1, OthersSettle
  <2> QED BY <2>1, <2>2
<1>22. ASSUME NEW r \in Calls, Tell(r) PROVE Settled(q)'
  <2>1. CASE q = r
    BY <1>0, <1>22, <2>1 DEF Tell, Settled, Agrees, Method
  <2>2. CASE q # r
    <3>1. SettleKept(q)
      BY <1>22, <2>2 DEF Tell
    <3> QED BY <1>0, <3>1, OthersSettle
  <2> QED BY <2>1, <2>2
<1>23. ASSUME NEW r \in Calls, NEW blank \in BOOLEAN, WriteItem(r, blank) PROVE Settled(q)'
  <2>1. CASE q = r
    BY <1>0, <1>23, <2>1 DEF WriteItem, First, Settled, Agrees, Method
  <2>2. CASE q # r
    <3>1. SettleKept(q)
      BY <1>23, <2>2 DEF WriteItem, First
    <3> QED BY <1>0, <3>1, OthersSettle
  <2> QED BY <2>1, <2>2
<1>24. ASSUME NEW r \in Calls, NEW begun \in BOOLEAN, ItemPanics(r, begun) PROVE Settled(q)'
  <2>1. CASE q = r
    BY <1>0, <1>24, <2>1 DEF ItemPanics, Settled, Agrees, Method
  <2>2. CASE q # r
    <3>1. SettleKept(q)
      BY <1>24, <2>2 DEF ItemPanics
    <3> QED BY <1>0, <3>1, OthersSettle
  <2> QED BY <2>1, <2>2
<1>25. ASSUME NEW r \in Calls, NEW begun \in BOOLEAN, FunctionPanics(r, begun) PROVE Settled(q)'
  <2>1. CASE q = r
    BY <1>0, <1>25, <2>1 DEF FunctionPanics, Settled, Agrees, Method
  <2>2. CASE q # r
    <3>1. SettleKept(q)
      BY <1>25, <2>2 DEF FunctionPanics
    <3> QED BY <1>0, <3>1, OthersSettle
  <2> QED BY <2>1, <2>2
<1>26. ASSUME NEW r \in Calls, NEW s \in OwnCodes, SetCode(r, s) PROVE Settled(q)'
  <2>1. CASE q = r
    BY <1>0, <1>26, <2>1 DEF SetCode, Settled, Agrees, Method
  <2>2. CASE q # r
    <3>1. SettleKept(q)
      BY <1>26, <2>2 DEF SetCode
    <3> QED BY <1>0, <3>1, OthersSettle
  <2> QED BY <2>1, <2>2
<1>27. CASE UNCHANGED vars
  <2>1. SettleKept(q)
    BY <1>27 DEF vars
  <2> QED BY <1>0, <2>1, OthersSettle
<1> HIDE DEF TypeOK
<1>28. QED
  BY <1>1, <1>2, <1>3, <1>4, <1>5, <1>6, <1>7, <1>8, <1>9, <1>10, <1>11,
     <1>12, <1>13, <1>14, <1>15, <1>16, <1>17, <1>18, <1>19, <1>20, <1>21, <1>22,
     <1>23, <1>24, <1>25, <1>26, <1>27
     DEF Next, Arrive, UploadStep, HandlerStep, FunctionStep, GeneratorStep

LEMMA AlwaysSettled == Spec => [](TypeOK /\ StatusSettled)
<1>1. Init => TypeOK /\ StatusSettled
  BY InitTypeOK, InitStatusSettled
<1>2. (TypeOK /\ StatusSettled) /\ [Next]_vars => (TypeOK /\ StatusSettled)'
  BY NextTypeOK, NextStatusSettled
<1>3. QED
  BY <1>1, <1>2, PTL DEF Spec

(* Type correctness of the server's call path.                               *)
THEOREM RpcTypeOK == Spec => []TypeOK
  BY AlwaysSettled, PTL

(* The status a call is counted under and the one its client saw differ only *)
(* for a failure that came after the status line, and for a method that put  *)
(* a status of its own into ri.HttpCode, at every step of service.go.        *)
THEOREM RpcStatusSettled == Spec => []StatusSettled
  BY AlwaysSettled, PTL

-----------------------------------------------------------------------------
(* The server implements RpcPromise. *)

Promised == Promise!Next \/ UNCHANGED Promise!vars

(* A step that fixes the status of a call, or finds it fixed, and counts     *)
(* nothing, is an Answer of the promise, or none of its steps.               *)
LEMMA CommitAnswers ==
  ASSUME TypeOK, NEW r \in Calls, NEW s \in Statuses, Commit(r, s),
         wire[r] = 0 => label[r] = <<>> \/ label[r][2] \in {s} \union own[r],
         UNCHANGED <<label, own, counts>>
  PROVE  Promised
<1>1. CASE wire[r] = 0
  <2>1. wire' = [wire EXCEPT ![r] = s]
    BY <1>1 DEF Commit, TypeOK
  <2>2. Promise!Answer(r, s)
    BY <1>1, <2>1 DEF Promise!Answer
  <2>3. s \in Promise!Statuses
    BY DEF Statuses, Promise!Statuses
  <2>4. QED
    BY <2>2, <2>3 DEF Promised, Promise!Next
<1>2. CASE wire[r] # 0
  <2>1. wire' = wire
    BY <1>2 DEF Commit, TypeOK
  <2>2. QED
    BY <2>1 DEF Promised, Promise!vars
<1>3. QED
  BY <1>1, <1>2

(* A step that neither answers, counts nor chooses is a stutter of it.       *)
LEMMA QuietStutters ==
  ASSUME UNCHANGED <<wire, label, own, counts>>
  PROVE  Promised
  BY DEF Promised, Promise!vars

(* A call is counted when its handler is about to sample or return. *)
LEMMA Uncounted ==
  ASSUME StatusSettled, NEW r \in Calls, pc[r] \notin {"sample", "return", "done"}
  PROVE  label[r] = <<>>
  BY DEF StatusSettled, Settled

LEMMA StepPromised ==
  ASSUME TypeOK, StatusSettled, [Next]_vars
  PROVE  Promised
<1> USE DEF Goto, http, stream, metrics
<1>1. ASSUME NEW r \in Calls, ReadBody(r) PROVE Promised
  BY <1>1, QuietStutters DEF ReadBody
<1>2. ASSUME NEW r \in Calls, CallFunction(r) PROVE Promised
  BY <1>2, QuietStutters DEF CallFunction
<1>3. ASSUME NEW r \in Calls, StartGenerator(r) PROVE Promised
  BY <1>3, QuietStutters DEF StartGenerator
<1>4. ASSUME NEW r \in Calls, SelectItem(r) PROVE Promised
  BY <1>4, QuietStutters DEF SelectItem
<1>5. ASSUME NEW r \in Calls, SampleCall(r) PROVE Promised
  BY <1>5, QuietStutters DEF SampleCall
<1>6. ASSUME NEW r \in Calls, Disconnect(r) PROVE Promised
  BY <1>6, QuietStutters DEF Disconnect
<1>7. ASSUME NEW r \in Calls, Offer(r) PROVE Promised
  BY <1>7, QuietStutters DEF Offer
<1>8. ASSUME NEW r \in Calls, GiveUp(r) PROVE Promised
  BY <1>8, QuietStutters DEF GiveUp
<1>9. ASSUME NEW r \in Calls, GeneratorReturns(r) PROVE Promised
  BY <1>9, QuietStutters DEF GeneratorReturns
<1>10. ASSUME NEW r \in Calls, GeneratorPanics(r) PROVE Promised
  BY <1>10, QuietStutters DEF GeneratorPanics
<1>11. ASSUME NEW r \in Calls, ProcessDies(r) PROVE Promised
  BY <1>11, QuietStutters DEF ProcessDies
<1>12. ASSUME NEW r \in Calls, SelectClosed(r) PROVE Promised
  BY <1>12, QuietStutters DEF SelectClosed, LeaveLoop
<1>13. ASSUME NEW r \in Calls, SelectDone(r) PROVE Promised
  BY <1>13, QuietStutters DEF SelectDone, LeaveLoop
<1>14. ASSUME NEW r \in Calls, RefuseBody(r) PROVE Promised
  BY <1>14, QuietStutters DEF RefuseBody
<1>15. ASSUME NEW r \in Calls, FunctionRefuses(r) PROVE Promised
  BY <1>15, QuietStutters DEF FunctionRefuses
<1>16. ASSUME NEW r \in Calls, RefuseItem(r) PROVE Promised
  BY <1>16, QuietStutters DEF RefuseItem
<1>17. ASSUME NEW r \in Calls, Recover(r) PROVE Promised
  BY <1>17, QuietStutters DEF Recover
<1>18. ASSUME NEW r \in Calls, NEW m \in Methods, NEW authed \in BOOLEAN,
           NEW encoded \in BOOLEAN, Receive(r, m, authed, encoded)
      PROVE Promised
  <2>1. label[r] = <<>> /\ UNCHANGED <<label, own, counts>>
    BY <1>18, Uncounted DEF Receive
  <2>2. CASE m \notin Public /\ ~authed
    <3>1. Commit(r, 404) /\ 404 \in Statuses
      BY <1>18, <2>2 DEF Receive, HttpError, Statuses
    <3>2. QED
      BY <2>1, <3>1, CommitAnswers
  <2>3. CASE ~(m \notin Public /\ ~authed)
    BY <1>18, <2>1, <2>3, QuietStutters DEF Receive
  <2>4. QED
    BY <2>2, <2>3
<1>19. ASSUME NEW r \in Calls, NEW begun \in BOOLEAN, FunctionPanics(r, begun) PROVE Promised
  <2>1. label[r] = <<>> /\ UNCHANGED <<label, own, counts>>
    BY <1>19, Uncounted DEF FunctionPanics
  <2>2. (Commit(r, 200) \/ UNCHANGED wire) /\ 200 \in Statuses
    BY <1>19 DEF FunctionPanics, Statuses
  <2>3. CASE Commit(r, 200)
    BY <2>1, <2>2, <2>3, CommitAnswers
  <2>4. CASE UNCHANGED wire
    BY <2>1, <2>4, QuietStutters
  <2>5. QED
    BY <2>2, <2>3, <2>4
<1>20. ASSUME NEW r \in Calls, NEW begun \in BOOLEAN, ItemPanics(r, begun) PROVE Promised
  <2>1. label[r] = <<>> /\ UNCHANGED <<label, own, counts>>
    BY <1>20, Uncounted DEF ItemPanics
  <2>2. (Commit(r, 200) \/ UNCHANGED wire) /\ 200 \in Statuses
    BY <1>20 DEF ItemPanics, Statuses
  <2>3. CASE Commit(r, 200)
    BY <2>1, <2>2, <2>3, CommitAnswers
  <2>4. CASE UNCHANGED wire
    BY <2>1, <2>4, QuietStutters
  <2>5. QED
    BY <2>2, <2>3, <2>4
<1>21. ASSUME NEW r \in Calls, FunctionReplies(r) PROVE Promised
  <2>1. label[r] = <<>> /\ UNCHANGED <<label, own, counts>>
    BY <1>21, Uncounted DEF FunctionReplies
  <2>2. (Commit(r, 200) \/ UNCHANGED wire) /\ 200 \in Statuses
    BY <1>21 DEF FunctionReplies, Statuses
  <2>3. CASE Commit(r, 200)
    BY <2>1, <2>2, <2>3, CommitAnswers
  <2>4. CASE UNCHANGED wire
    BY <2>1, <2>4, QuietStutters
  <2>5. QED
    BY <2>2, <2>3, <2>4
<1>22. ASSUME NEW r \in Calls, NEW blank \in BOOLEAN, WriteItem(r, blank) PROVE Promised
  <2>1. label[r] = <<>> /\ UNCHANGED <<label, own, counts>>
    BY <1>22, Uncounted DEF WriteItem
  <2>2. (Commit(r, 200) \/ UNCHANGED wire) /\ 200 \in Statuses
    BY <1>22 DEF WriteItem, Statuses
  <2>3. CASE Commit(r, 200)
    BY <2>1, <2>2, <2>3, CommitAnswers
  <2>4. CASE UNCHANGED wire
    BY <2>1, <2>4, QuietStutters
  <2>5. QED
    BY <2>2, <2>3, <2>4
<1>23. ASSUME NEW r \in Calls, Tell(r) PROVE Promised
  <2>1. label[r] = <<>> /\ UNCHANGED <<label, own, counts>>
    BY <1>23, Uncounted DEF Tell
  <2>2. Commit(r, code[r]) /\ code[r] \in Statuses
    BY <1>23, CodeIsStatus DEF Tell, HttpError
  <2>3. QED
    BY <2>1, <2>2, CommitAnswers
<1>24. ASSUME NEW r \in Calls, Return(r) PROVE Promised
  <2>1. UNCHANGED <<label, own, counts>>
    BY <1>24 DEF Return
  <2>2. wire[r] = 0 => label[r] = <<>> \/ label[r][2] \in {200} \union own[r]
    BY <1>24 DEF StatusSettled, Settled, Agrees
  <2>3. Commit(r, 200) /\ 200 \in Statuses
    BY <1>24 DEF Return, Statuses
  <2>4. QED
    BY <2>1, <2>2, <2>3, CommitAnswers
<1>25. ASSUME NEW r \in Calls, NEW s \in OwnCodes, SetCode(r, s) PROVE Promised
  <2>1. Promise!Choose(r, s)
    BY <1>25 DEF SetCode, Promise!Choose
  <2>2. s \in Promise!Statuses
    BY DEF Promise!Statuses
  <2>3. QED
    BY <2>1, <2>2 DEF Promised, Promise!Next
<1>26. ASSUME NEW r \in Calls, CountCall(r) PROVE Promised
  <2> DEFINE m == Method(r)
             s == code[r]
  <2>1. m \in Methods /\ s \in Promise!Statuses
    BY <1>26, CodeIsStatus DEF CountCall, StatusSettled, Settled, Request, Method, Statuses, Promise!Statuses
  <2>2. label[r] = <<>>
    BY <1>26, Uncounted DEF CountCall
  <2>3. wire[r] \in {0, s} \/ s \in {Promise!Failure} \union own[r]
    BY <1>26 DEF CountCall, StatusSettled, Settled, Agrees, Promise!Failure
  <2>4. /\ label' = [label EXCEPT ![r] = <<m, s>>]
        /\ counts' = [counts EXCEPT ![<<m, s>>] = @ + 1]
        /\ UNCHANGED <<wire, own>>
    BY <1>26 DEF CountCall
  <2>5. Promise!Count(r, m, s)
    BY <2>2, <2>3, <2>4 DEF Promise!Count
  <2>6. QED
    BY <2>1, <2>5 DEF Promised, Promise!Next
<1>27. CASE UNCHANGED vars
  BY <1>27, QuietStutters DEF vars
<1>28. QED
  BY <1>1, <1>2, <1>3, <1>4, <1>5, <1>6, <1>7, <1>8, <1>9, <1>10, <1>11,
     <1>12, <1>13, <1>14, <1>15, <1>16, <1>17, <1>18, <1>19, <1>20, <1>21, <1>22,
     <1>23, <1>24, <1>25, <1>26, <1>27
     DEF Next, Arrive, UploadStep, HandlerStep, FunctionStep, GeneratorStep

(* service.go keeps the promise of RpcPromise: each call has one answer, is  *)
(* counted at most once, and under the status its client saw, as a failure,  *)
(* or under a status its method chose.                                       *)
THEOREM RpcKeepsPromise == Spec => KeepsPromise
<1>1. Init => Promise!Init
  BY DEF Init, Promise!Init, Labels, Statuses, Promise!Labels, Promise!Statuses
<1>2. TypeOK /\ StatusSettled /\ [Next]_vars => [Promise!Next]_(Promise!vars)
  BY StepPromised DEF Promised
<1>3. QED
  BY <1>1, <1>2, AlwaysSettled, PTL DEF Spec, KeepsPromise, Promise!Spec

(* What RpcPromiseProofs shows of the promise, for the server's variables.   *)
Kept == INSTANCE RpcPromiseProofs
          WITH answer <- wire, counted <- label, chosen <- own, tally <- counts

(* rpc_calls_total is exact for any number of concurrent calls.              *)
THEOREM RpcTallyExact == Spec => []TallyExact
<1>1. Kept!Spec => []Kept!TallyExact
  <2>1. Kept!IsFiniteSet(Calls)
    BY FiniteCalls DEF IsFiniteSet, Kept!IsFiniteSet
  <2>2. QED
    BY <2>1, Kept!PromiseTallyExact
<1>2. Promise!Spec => Kept!Spec
  BY DEF Promise!Spec, Kept!Spec, Promise!Init, Kept!Init, Promise!Next, Kept!Next,
         Promise!vars, Kept!vars, Promise!Answer, Kept!Answer, Promise!Count, Kept!Count,
         Promise!Choose, Kept!Choose,
         Promise!Labels, Kept!Labels, Promise!Statuses, Kept!Statuses,
         Promise!Failure, Kept!Failure
<1>3. Kept!TallyExact => TallyExact
  <2>1. ASSUME NEW S PROVE Kept!Cardinality(S) = Promise!Cardinality(S)
    BY DEF Kept!Cardinality, Promise!Cardinality
  <2>2. QED
    BY <2>1 DEF Kept!TallyExact, TallyExact, Promise!TallyExact, Kept!Labels, Promise!Labels,
         Kept!Statuses, Promise!Statuses
<1>4. QED
  BY <1>1, <1>2, <1>3, RpcKeepsPromise, PTL DEF KeepsPromise

-----------------------------------------------------------------------------
(* The streams, and what a client receives of them. *)

Over == {"refuse", "deferred", "fail", "count", "sample", "return", "done"}

(* The handler has seen the channel closed, with every item received. *)
Received(r) == taken[r] = offered[r] /\ gpc[r] \in {"unwinding", "closed"}

(* The call fails, or has been refused: its client is told, or will be. *)
Failing(r) ==
  \/ pc[r] \in {"refuse", "fail"}
  \/ pc[r] = "deferred" /\ panicking[r]
  \/ ~Clean(r)

(* No generator was started: it is no stream. *)
NotStarted(r) == gpc[r] = "none" /\ ~IsGen(r)

(* The handshake of the unbuffered channel, before, in and after the loop of *)
(* handleGenerator, as long as the client is there.                          *)
Handshake(r) ==
  /\ pc[r] \in {"idle", "reading", "call", "calling"} =>
       gpc[r] = "none" /\ offered[r] = 0 /\ taken[r] = 0
  /\ pc[r] = "calling" => ~IsGen(r)
  /\ pc[r] \in {"select", "item"} /\ conn[r] /\ gpc[r] # "sending" => taken[r] = offered[r]
  /\ pc[r] = "item" => gpc[r] # "none"
  /\ pc[r] \in Over /\ conn[r] => Received(r) \/ Failing(r) \/ NotStarted(r)

IInv == TypeOK /\ StatusSettled /\ \A r \in Calls : Handshake(r)

LEMMA InitHandshake == Init => \A r \in Calls : Handshake(r)
  BY DEF Init, Handshake, Over

CallKept(q) ==
  UNCHANGED <<pc[q], rq[q], conn[q], body[q], panicking[q], gpc[q], offered[q], taken[q]>>

(* A step of one call leaves the others where they are. *)
LEMMA OthersKeep ==
  ASSUME NEW q \in Calls, Handshake(q), CallKept(q)
  PROVE  Handshake(q)'
  BY DEF CallKept, Handshake, Received, Failing, NotStarted, Clean, IsGen, Method

(* After the loop a call that fails goes on failing, and nothing else that   *)
(* the handshake speaks of changes.                                          *)
LEMMA OverKept ==
  ASSUME NEW q \in Calls, Handshake(q), pc[q] \in Over, pc'[q] \in Over,
         UNCHANGED <<rq[q], conn[q], body[q], gpc[q], offered[q], taken[q]>>,
         pc[q] \in {"refuse", "fail"} \/ (pc[q] = "deferred" /\ panicking[q])
           => pc'[q] \in {"refuse", "fail"}
  PROVE  Handshake(q)'
<1>1. (Clean(q)' <=> Clean(q)) /\ (IsGen(q)' <=> IsGen(q))
  BY DEF Clean, IsGen, Method
<1>2. (Received(q)' <=> Received(q)) /\ (NotStarted(q)' <=> NotStarted(q))
  BY <1>1 DEF Received, NotStarted
<1>3. Failing(q) => Failing(q)'
  BY <1>1 DEF Failing
<1>4. conn'[q] => Received(q)' \/ Failing(q)' \/ NotStarted(q)'
  BY <1>2, <1>3 DEF Handshake
<1>5. pc'[q] \notin {"idle", "reading", "call", "calling", "select", "item"}
  BY DEF Over
<1> QED BY <1>4, <1>5 DEF Handshake

(* A status text makes the body unclean for good. *)
LEMMA TextUnclean ==
  ASSUME TypeOK, NEW q \in Calls, body'[q] = Append(body[q], StatusText)
  PROVE  ~Clean(q)'
<1>1. /\ Len(body[q]) + 1 \in DOMAIN body'[q]
      /\ body'[q][Len(body[q]) + 1] = StatusText
  BY DEF TypeOK
<1> QED BY <1>1 DEF Clean

LEMMA StepHandshake ==
  ASSUME IInv, [Next]_vars, NEW q \in Calls
  PROVE  Handshake(q)'
<1> USE DEF TypeOK, Goto, http, stream, metrics, IInv, CallKept
<1>1. ASSUME NEW r \in Calls, NEW m \in Methods, NEW authed \in BOOLEAN,
            NEW encoded \in BOOLEAN, Receive(r, m, authed, encoded) PROVE Handshake(q)'
  <2>1. CASE q = r
    BY <1>1, <2>1, TextUnclean DEF Receive, HttpError, Handshake, Over, Received, Failing, NotStarted, Clean, IsGen, Method
  <2>2. CASE q # r
    <3>1. CallKept(q)
      BY <1>1, <2>2 DEF Receive, HttpError
    <3> QED BY <3>1, OthersKeep
  <2> QED BY <2>1, <2>2
<1>2. ASSUME NEW r \in Calls, ReadBody(r) PROVE Handshake(q)'
  <2>1. CASE q = r
    BY <1>2, <2>1 DEF ReadBody, Handshake, Over, Received, Failing, NotStarted, Clean, IsGen, Method
  <2>2. CASE q # r
    <3>1. CallKept(q)
      BY <1>2, <2>2 DEF ReadBody
    <3> QED BY <3>1, OthersKeep
  <2> QED BY <2>1, <2>2
<1>3. ASSUME NEW r \in Calls, CallFunction(r) PROVE Handshake(q)'
  <2>1. CASE q = r
    BY <1>3, <2>1 DEF CallFunction, Handshake, Over, Received, Failing, NotStarted, Clean, IsGen, Method
  <2>2. CASE q # r
    <3>1. CallKept(q)
      BY <1>3, <2>2 DEF CallFunction
    <3> QED BY <3>1, OthersKeep
  <2> QED BY <2>1, <2>2
<1>4. ASSUME NEW r \in Calls, StartGenerator(r) PROVE Handshake(q)'
  <2>1. CASE q = r
    BY <1>4, <2>1 DEF StartGenerator, Handshake, Over, Received, Failing, NotStarted, Clean, IsGen, Method
  <2>2. CASE q # r
    <3>1. CallKept(q)
      BY <1>4, <2>2 DEF StartGenerator
    <3> QED BY <3>1, OthersKeep
  <2> QED BY <2>1, <2>2
<1>5. ASSUME NEW r \in Calls, SelectItem(r) PROVE Handshake(q)'
  <2>1. CASE q = r
    BY <1>5, <2>1 DEF SelectItem, Handshake, Over, Received, Failing, NotStarted, Clean, IsGen, Method
  <2>2. CASE q # r
    <3>1. CallKept(q)
      BY <1>5, <2>2 DEF SelectItem
    <3> QED BY <3>1, OthersKeep
  <2> QED BY <2>1, <2>2
<1>6. ASSUME NEW r \in Calls, SelectClosed(r) PROVE Handshake(q)'
  <2>1. CASE q = r
    BY <1>6, <2>1 DEF SelectClosed, LeaveLoop, Handshake, Over, Received, Failing, NotStarted, Clean, IsGen, Method
  <2>2. CASE q # r
    <3>1. CallKept(q)
      BY <1>6, <2>2 DEF SelectClosed, LeaveLoop
    <3> QED BY <3>1, OthersKeep
  <2> QED BY <2>1, <2>2
<1>7. ASSUME NEW r \in Calls, SelectDone(r) PROVE Handshake(q)'
  <2>1. CASE q = r
    BY <1>7, <2>1 DEF SelectDone, LeaveLoop, CtxDone, Handshake, Over, Received, Failing, NotStarted, Clean, IsGen, Method
  <2>2. CASE q # r
    <3>1. CallKept(q)
      BY <1>7, <2>2 DEF SelectDone, LeaveLoop
    <3> QED BY <3>1, OthersKeep
  <2> QED BY <2>1, <2>2
<1>8. ASSUME NEW r \in Calls, RefuseBody(r) PROVE Handshake(q)'
  <2>1. CASE q = r
    BY <1>8, <2>1 DEF RefuseBody, SetCodeTo, Handshake, Over, Received, Failing, NotStarted, Clean, IsGen, Method
  <2>2. CASE q # r
    <3>1. CallKept(q)
      BY <1>8, <2>2 DEF RefuseBody, SetCodeTo
    <3> QED BY <3>1, OthersKeep
  <2> QED BY <2>1, <2>2
<1>9. ASSUME NEW r \in Calls, RefuseItem(r) PROVE Handshake(q)'
  <2>1. CASE q = r
    BY <1>9, <2>1 DEF RefuseItem, SetCodeTo, Handshake, Over, Received, Failing, NotStarted, Clean, IsGen, Method
  <2>2. CASE q # r
    <3>1. CallKept(q)
      BY <1>9, <2>2 DEF RefuseItem, SetCodeTo
    <3> QED BY <3>1, OthersKeep
  <2> QED BY <2>1, <2>2
<1>10. ASSUME NEW r \in Calls, FunctionReplies(r) PROVE Handshake(q)'
  <2>1. CASE q = r
    BY <1>10, <2>1 DEF FunctionReplies, Handshake, Over, Received, Failing, NotStarted, Clean, IsGen, Method
  <2>2. CASE q # r
    <3>1. CallKept(q)
      BY <1>10, <2>2 DEF FunctionReplies
    <3> QED BY <3>1, OthersKeep
  <2> QED BY <2>1, <2>2
<1>11. ASSUME NEW r \in Calls, FunctionRefuses(r) PROVE Handshake(q)'
  <2>1. CASE q = r
    BY <1>11, <2>1 DEF FunctionRefuses, SetCodeTo, Handshake, Over, Received, Failing, NotStarted, Clean, IsGen, Method
  <2>2. CASE q # r
    <3>1. CallKept(q)
      BY <1>11, <2>2 DEF FunctionRefuses, SetCodeTo
    <3> QED BY <3>1, OthersKeep
  <2> QED BY <2>1, <2>2
<1>12. ASSUME NEW r \in Calls, Recover(r) PROVE Handshake(q)'
  <2>1. CASE q = r
    <3>1. /\ pc[q] = "deferred" /\ pc'[q] \in {"fail", "count"}
          /\ panicking[q] => pc'[q] = "fail"
          /\ UNCHANGED <<rq[q], conn[q], body[q], gpc[q], offered[q], taken[q]>>
      BY <1>12, <2>1 DEF Recover, SetCodeTo, Goto, stream
    <3> QED BY <3>1, OverKept DEF Over
  <2>2. CASE q # r
    <3>1. CallKept(q)
      BY <1>12, <2>2 DEF Recover, SetCodeTo
    <3> QED BY <3>1, OthersKeep
  <2> QED BY <2>1, <2>2
<1>13. ASSUME NEW r \in Calls, CountCall(r) PROVE Handshake(q)'
  <2>1. CASE q = r
    <3>1. /\ pc[r] = "count" /\ pc'[r] \in {"return", "sample"}
          /\ UNCHANGED <<rq[r], conn[r], body[r], panicking[r], gpc[r], offered[r], taken[r]>>
      BY <1>13 DEF CountCall
    <3> QED BY <2>1, <3>1, OverKept DEF Over
  <2>2. CASE q # r
    <3>1. CallKept(q)
      BY <1>13, <2>2 DEF CountCall
    <3> QED BY <3>1, OthersKeep
  <2> QED BY <2>1, <2>2
<1>14. ASSUME NEW r \in Calls, SampleCall(r) PROVE Handshake(q)'
  <2>1. CASE q = r
    <3>1. /\ pc[r] = "sample" /\ pc'[r] = "return"
          /\ UNCHANGED <<rq[r], conn[r], body[r], panicking[r], gpc[r], offered[r], taken[r]>>
      BY <1>14 DEF SampleCall
    <3> QED BY <2>1, <3>1, OverKept DEF Over
  <2>2. CASE q # r
    <3>1. CallKept(q)
      BY <1>14, <2>2 DEF SampleCall
    <3> QED BY <3>1, OthersKeep
  <2> QED BY <2>1, <2>2
<1>15. ASSUME NEW r \in Calls, Return(r) PROVE Handshake(q)'
  <2>1. CASE q = r
    BY <1>15, <2>1 DEF Return, Handshake, Over, Received, Failing, NotStarted, Clean, IsGen, Method
  <2>2. CASE q # r
    <3>1. CallKept(q)
      BY <1>15, <2>2 DEF Return
    <3> QED BY <3>1, OthersKeep
  <2> QED BY <2>1, <2>2
<1>16. ASSUME NEW r \in Calls, Disconnect(r) PROVE Handshake(q)'
  <2>1. CASE q = r
    BY <1>16, <2>1 DEF Disconnect, Handshake, Over, Received, Failing, NotStarted, Clean, IsGen, Method
  <2>2. CASE q # r
    <3>1. CallKept(q)
      BY <1>16, <2>2 DEF Disconnect
    <3> QED BY <3>1, OthersKeep
  <2> QED BY <2>1, <2>2
<1>17. ASSUME NEW r \in Calls, Offer(r) PROVE Handshake(q)'
  <2>1. CASE q = r
    <3>1. /\ gpc[q] = "running" /\ gpc'[q] = "sending"
          /\ pc' = pc /\ body' = body /\ conn' = conn /\ panicking' = panicking /\ taken' = taken
      BY <1>17, <2>1 DEF Offer
    <3>2. Handshake(q)
      OBVIOUS
    <3> QED BY <3>1, <3>2 DEF Handshake, Over, Received, Failing, NotStarted, Clean, IsGen
  <2>2. CASE q # r
    <3>1. CallKept(q)
      BY <1>17, <2>2 DEF Offer
    <3> QED BY <3>1, OthersKeep
  <2> QED BY <2>1, <2>2
<1>18. ASSUME NEW r \in Calls, GiveUp(r) PROVE Handshake(q)'
  <2>1. CASE q = r
    <3>1. /\ gpc[q] = "sending" /\ gpc'[q] = "running" /\ (~conn[q] \/ pc[q] = "done")
          /\ pc' = pc /\ body' = body /\ conn' = conn /\ panicking' = panicking
          /\ taken' = taken /\ offered' = offered
      BY <1>18, <2>1 DEF GiveUp, CtxDone
    <3>2. Handshake(q)
      OBVIOUS
    <3> QED BY <3>1, <3>2 DEF Handshake, Over, Received, Failing, NotStarted, Clean, IsGen
  <2>2. CASE q # r
    <3>1. CallKept(q)
      BY <1>18, <2>2 DEF GiveUp
    <3> QED BY <3>1, OthersKeep
  <2> QED BY <2>1, <2>2
<1>19. ASSUME NEW r \in Calls, GeneratorReturns(r) PROVE Handshake(q)'
  <2>1. CASE q = r
    BY <1>19, <2>1 DEF GeneratorReturns, Handshake, Over, Received, Failing, NotStarted, Clean, IsGen, Method
  <2>2. CASE q # r
    <3>1. CallKept(q)
      BY <1>19, <2>2 DEF GeneratorReturns
    <3> QED BY <3>1, OthersKeep
  <2> QED BY <2>1, <2>2
<1>20. ASSUME NEW r \in Calls, GeneratorPanics(r) PROVE Handshake(q)'
  <2>1. CASE q = r
    BY <1>20, <2>1 DEF GeneratorPanics, Handshake, Over, Received, Failing, NotStarted, Clean, IsGen, Method
  <2>2. CASE q # r
    <3>1. CallKept(q)
      BY <1>20, <2>2 DEF GeneratorPanics
    <3> QED BY <3>1, OthersKeep
  <2> QED BY <2>1, <2>2
<1>21. ASSUME NEW r \in Calls, ProcessDies(r) PROVE Handshake(q)'
  <2>1. CASE q = r
    BY <1>21, <2>1 DEF ProcessDies, Handshake, Over, Received, Failing, NotStarted, Clean, IsGen, Method
  <2>2. CASE q # r
    <3>1. CallKept(q)
      BY <1>21, <2>2 DEF ProcessDies
    <3> QED BY <3>1, OthersKeep
  <2> QED BY <2>1, <2>2
<1>22. ASSUME NEW r \in Calls, NEW blank \in BOOLEAN, WriteItem(r, blank) PROVE Handshake(q)'
  <2>1. CASE q = r
    BY <1>22, <2>1 DEF WriteItem, Handshake, Over, Received, Failing, NotStarted, Clean, IsGen, Method
  <2>2. CASE q # r
    <3>1. CallKept(q)
      BY <1>22, <2>2 DEF WriteItem
    <3> QED BY <3>1, OthersKeep
  <2> QED BY <2>1, <2>2
<1>23. ASSUME NEW r \in Calls, NEW begun \in BOOLEAN, ItemPanics(r, begun) PROVE Handshake(q)'
  <2>1. CASE q = r
    BY <1>23, <2>1 DEF ItemPanics, Handshake, Over, Received, Failing, NotStarted, Clean, IsGen, Method
  <2>2. CASE q # r
    <3>1. CallKept(q)
      BY <1>23, <2>2 DEF ItemPanics
    <3> QED BY <3>1, OthersKeep
  <2> QED BY <2>1, <2>2
<1>24. ASSUME NEW r \in Calls, NEW begun \in BOOLEAN, FunctionPanics(r, begun) PROVE Handshake(q)'
  <2>1. CASE q = r
    BY <1>24, <2>1 DEF FunctionPanics, Handshake, Over, Received, Failing, NotStarted, Clean, IsGen, Method
  <2>2. CASE q # r
    <3>1. CallKept(q)
      BY <1>24, <2>2 DEF FunctionPanics
    <3> QED BY <3>1, OthersKeep
  <2> QED BY <2>1, <2>2
<1>25. ASSUME NEW r \in Calls, NEW s \in OwnCodes, SetCode(r, s) PROVE Handshake(q)'
  <2>1. CallKept(q)
    BY <1>25 DEF SetCode
  <2> QED BY <2>1, OthersKeep
<1>26. ASSUME NEW r \in Calls, Tell(r) PROVE Handshake(q)'
  <2>1. CASE q = r
    <3>1. /\ pc[q] \in {"refuse", "fail"} /\ pc'[q] \in {"deferred", "count"}
          /\ body'[q] = Append(body[q], StatusText)
      BY <1>26, <2>1 DEF Tell, HttpError
    <3> QED BY <3>1, TextUnclean DEF Handshake, Over, Failing
  <2>2. CASE q # r
    <3>1. CallKept(q)
      BY <1>26, <2>2 DEF Tell, HttpError
    <3> QED BY <3>1, OthersKeep
  <2> QED BY <2>1, <2>2
<1>27. CASE UNCHANGED vars
  <2>1. CallKept(q)
    BY <1>27 DEF vars
  <2> QED BY <2>1, OthersKeep
<1> HIDE DEF TypeOK, IInv
<1> QED
  BY <1>1, <1>2, <1>3, <1>4, <1>5, <1>6, <1>7, <1>8,
     <1>9, <1>10, <1>11, <1>12, <1>13, <1>14, <1>15, <1>16,
     <1>17, <1>18, <1>19, <1>20, <1>21, <1>22, <1>23, <1>24, <1>25,
     <1>26, <1>27
     DEF Next, Arrive, UploadStep, HandlerStep, FunctionStep, GeneratorStep

LEMMA AlwaysHandshake == Spec => []IInv
<1>1. Init => IInv
  BY InitTypeOK, InitStatusSettled, InitHandshake DEF IInv
<1>2. IInv /\ [Next]_vars => IInv'
  BY NextTypeOK, NextStatusSettled, StepHandshake DEF IInv
<1> QED BY <1>1, <1>2, PTL DEF Spec

(* Whatever the interleaving of generator, handler and client: a stream that *)
(* ends well while its client is there was received whole (service.go:472).  *)
THEOREM RpcNoItemLost == Spec => []NoItemLost
<1>1. IInv => NoItemLost
  BY DEF IInv, Handshake, NoItemLost, Over, Received, Failing, NotStarted
<1> QED BY <1>1, AlwaysHandshake, PTL

(* A goroutine stays blocked in a send for good only behind a client that    *)
(* went away or a call that failed, never behind a good stream.              *)
THEOREM RpcBlockedOnlyIfAbandoned == Spec => []BlockedOnlyIfAbandoned
<1>1. IInv => BlockedOnlyIfAbandoned
  BY DEF IInv, Handshake, BlockedOnlyIfAbandoned, Over, Received, Failing, NotStarted
<1> QED BY <1>1, AlwaysHandshake, PTL


-----------------------------------------------------------------------------
(* What a handler writes of a stream: the items in the order of the sends,   *)
(* and the status texts, which are 0, anywhere between.                      *)

Ordered(q) == \A i, j \in DOMAIN q : i < j /\ q[i] # 0 /\ q[j] # 0 => q[i] < q[j]

Written(r) ==
  /\ taken[r] <= offered[r]
  /\ gpc[r] = "sending" => taken[r] < offered[r]
  /\ pc[r] = "idle" => body[r] = <<>>
  /\ IsGen(r) => Ordered(body[r]) /\ \A i \in DOMAIN body[r] : body[r][i] <= taken[r]
  /\ IsGen(r) /\ pc[r] = "item" =>
       taken[r] > 0 /\ \A i \in DOMAIN body[r] : body[r][i] < taken[r]

(* The handler only adds to the body, until it is done.                      *)
Grows(r) ==
  /\ body'[r] = body[r] \/ \E x \in Nat : body'[r] = Append(body[r], x)
  /\ pc[r] # "idle" => rq'[r] = rq[r] /\ pc'[r] # "idle"
  /\ pc[r] = "done" => pc'[r] = "done" /\ body'[r] = body[r]

LEMMA InitWritten == Init => \A r \in Calls : Written(r)
  BY DEF Init, Written, Ordered

LEMMA Appended ==
  ASSUME NEW q \in Seq(Nat), NEW n \in Nat, NEW m \in Nat, n <= m, NEW x \in 0 .. m,
         Ordered(q), \A i \in DOMAIN q : q[i] <= n,
         x # 0 => \A i \in DOMAIN q : q[i] < x
  PROVE  Ordered(Append(q, x)) /\ \A i \in DOMAIN Append(q, x) : Append(q, x)[i] <= m
<1> DEFINE p == Append(q, x)
<1>1. /\ p \in Seq(Nat)
      /\ \A i \in DOMAIN p : (i \in DOMAIN q /\ p[i] = q[i]) \/ (i = Len(q) + 1 /\ p[i] = x)
      /\ DOMAIN q = 1 .. Len(q) /\ DOMAIN p = 1 .. Len(q) + 1 /\ Len(q) \in Nat
  OBVIOUS
<1>2. \A i \in DOMAIN q : q[i] \in Nat
  OBVIOUS
<1> HIDE DEF p
<1>3. Ordered(p)
  <2> SUFFICES ASSUME NEW i \in DOMAIN p, NEW j \in DOMAIN p, i < j, p[i] # 0, p[j] # 0
               PROVE  p[i] < p[j]
    BY DEF Ordered
  <2>1. i \in DOMAIN q /\ p[i] = q[i]
    BY <1>1
  <2>2. CASE j \in DOMAIN q /\ p[j] = q[j]
    BY <2>1, <2>2 DEF Ordered
  <2>3. CASE j = Len(q) + 1 /\ p[j] = x
    BY <2>1, <2>3
  <2> QED BY <1>1, <2>2, <2>3
<1>4. \A i \in DOMAIN p : p[i] <= m
  BY <1>1, <1>2, SMTT(30)
<1> QED BY <1>3, <1>4 DEF p

(* A step that leaves the body of a call as it is, or adds a status text.    *)
LEMMA TextWritten ==
  ASSUME TypeOK, NEW q \in Calls, Written(q), pc[q] # "idle", rq'[q] = rq[q], taken'[q] = taken[q],
         pc'[q] \notin {"idle", "item"},
         body'[q] = body[q] \/ (body'[q] = Append(body[q], 0) /\ pc[q] # "done"),
         pc[q] = "done" => pc'[q] = "done",
         taken[q] <= offered'[q], gpc'[q] = "sending" => taken[q] < offered'[q]
  PROVE  Written(q)' /\ Grows(q)
<1>1. body[q] \in Seq(Nat) /\ taken[q] \in Nat
  BY MaxItemsNat DEF TypeOK
<1>2. IsGen(q)' = IsGen(q)
  BY DEF IsGen, Method
<1>3. IsGen(q) => Ordered(body'[q]) /\ \A i \in DOMAIN body'[q] : body'[q][i] <= taken[q]
  <2>1. CASE body'[q] = body[q]
    BY <2>1 DEF Written
  <2>2. CASE body'[q] = Append(body[q], 0)
    <3>1. 0 \in 0 .. taken[q]
      BY <1>1
    <3> QED BY <1>1, <2>2, <3>1, Appended DEF Written
  <2> QED BY <2>1, <2>2
<1>4. Written(q)'
  BY <1>2, <1>3 DEF Written
<1>5. Grows(q)
  BY DEF Grows
<1> QED BY <1>4, <1>5

WriteKept(q) == UNCHANGED <<pc[q], rq[q], body[q], gpc[q], offered[q], taken[q]>>

LEMMA OthersWritten ==
  ASSUME NEW q \in Calls, Written(q), WriteKept(q)
  PROVE  Written(q)' /\ Grows(q)
  BY DEF WriteKept, Written, Grows, IsGen, Method

LEMMA StepWritten ==
  ASSUME IInv, [Next]_vars, NEW q \in Calls, Written(q)
  PROVE  Written(q)' /\ Grows(q)
<1> USE MaxItemsNat DEF TypeOK, Goto, http, stream, metrics, IInv, WriteKept
<1>1. ASSUME NEW r \in Calls, NEW m \in Methods, NEW authed \in BOOLEAN,
            NEW encoded \in BOOLEAN, Receive(r, m, authed, encoded) PROVE Written(q)' /\ Grows(q)
  <2>1. CASE q = r
    <3>1. /\ pc[q] = "idle" /\ pc'[q] \notin {"idle", "item"} /\ body[q] = <<>>
          /\ taken'[q] = taken[q] /\ offered'[q] = offered[q] /\ gpc'[q] = gpc[q]
          /\ body'[q] = body[q] \/ body'[q] = Append(body[q], 0)
      BY <1>1, <2>1 DEF Receive, HttpError, StatusText, Written
    <3>2. Ordered(body'[q]) /\ \A i \in DOMAIN body'[q] : body'[q][i] = 0
      BY <3>1 DEF Ordered
    <3> QED BY <3>1, <3>2 DEF Written, Grows
  <2>2. CASE q # r
    <3>1. WriteKept(q)
      BY <1>1, <2>2 DEF Receive, HttpError
    <3> QED BY <3>1, OthersWritten
  <2> QED BY <2>1, <2>2
<1>2. ASSUME NEW r \in Calls, ReadBody(r) PROVE Written(q)' /\ Grows(q)
  <2>1. CASE q = r
    <3>1. /\ pc[q] \notin {"idle", "done"} /\ pc'[q] \notin {"idle", "item"}
          /\ rq'[q] = rq[q] /\ taken'[q] = taken[q] /\ offered'[q] = offered[q]
          /\ gpc'[q] # "sending" \/ gpc'[q] = gpc[q]
          /\ body'[q] = body[q] \/ body'[q] = Append(body[q], 0)
      BY <1>2, <2>1 DEF ReadBody
    <3> QED BY <3>1, TextWritten DEF Written
  <2>2. CASE q # r
    <3>1. WriteKept(q)
      BY <1>2, <2>2 DEF ReadBody
    <3> QED BY <3>1, OthersWritten
  <2> QED BY <2>1, <2>2
<1>3. ASSUME NEW r \in Calls, CallFunction(r) PROVE Written(q)' /\ Grows(q)
  <2>1. CASE q = r
    <3>1. /\ pc[q] \notin {"idle", "done"} /\ pc'[q] \notin {"idle", "item"}
          /\ rq'[q] = rq[q] /\ taken'[q] = taken[q] /\ offered'[q] = offered[q]
          /\ gpc'[q] # "sending" \/ gpc'[q] = gpc[q]
          /\ body'[q] = body[q] \/ body'[q] = Append(body[q], 0)
      BY <1>3, <2>1 DEF CallFunction
    <3> QED BY <3>1, TextWritten DEF Written
  <2>2. CASE q # r
    <3>1. WriteKept(q)
      BY <1>3, <2>2 DEF CallFunction
    <3> QED BY <3>1, OthersWritten
  <2> QED BY <2>1, <2>2
<1>4. ASSUME NEW r \in Calls, StartGenerator(r) PROVE Written(q)' /\ Grows(q)
  <2>1. CASE q = r
    <3>1. /\ pc[q] \notin {"idle", "done"} /\ pc'[q] \notin {"idle", "item"}
          /\ rq'[q] = rq[q] /\ taken'[q] = taken[q] /\ offered'[q] = offered[q]
          /\ gpc'[q] # "sending" \/ gpc'[q] = gpc[q]
          /\ body'[q] = body[q] \/ body'[q] = Append(body[q], 0)
      BY <1>4, <2>1 DEF StartGenerator
    <3> QED BY <3>1, TextWritten DEF Written
  <2>2. CASE q # r
    <3>1. WriteKept(q)
      BY <1>4, <2>2 DEF StartGenerator
    <3> QED BY <3>1, OthersWritten
  <2> QED BY <2>1, <2>2
<1>5. ASSUME NEW r \in Calls, SelectClosed(r) PROVE Written(q)' /\ Grows(q)
  <2>1. CASE q = r
    <3>1. /\ pc[q] \notin {"idle", "done"} /\ pc'[q] \notin {"idle", "item"}
          /\ rq'[q] = rq[q] /\ taken'[q] = taken[q] /\ offered'[q] = offered[q]
          /\ gpc'[q] # "sending" \/ gpc'[q] = gpc[q]
          /\ body'[q] = body[q] \/ body'[q] = Append(body[q], 0)
      BY <1>5, <2>1 DEF SelectClosed, LeaveLoop
    <3> QED BY <3>1, TextWritten DEF Written
  <2>2. CASE q # r
    <3>1. WriteKept(q)
      BY <1>5, <2>2 DEF SelectClosed, LeaveLoop
    <3> QED BY <3>1, OthersWritten
  <2> QED BY <2>1, <2>2
<1>6. ASSUME NEW r \in Calls, SelectDone(r) PROVE Written(q)' /\ Grows(q)
  <2>1. CASE q = r
    <3>1. /\ pc[q] \notin {"idle", "done"} /\ pc'[q] \notin {"idle", "item"}
          /\ rq'[q] = rq[q] /\ taken'[q] = taken[q] /\ offered'[q] = offered[q]
          /\ gpc'[q] # "sending" \/ gpc'[q] = gpc[q]
          /\ body'[q] = body[q] \/ body'[q] = Append(body[q], 0)
      BY <1>6, <2>1 DEF SelectDone, LeaveLoop
    <3> QED BY <3>1, TextWritten DEF Written
  <2>2. CASE q # r
    <3>1. WriteKept(q)
      BY <1>6, <2>2 DEF SelectDone, LeaveLoop
    <3> QED BY <3>1, OthersWritten
  <2> QED BY <2>1, <2>2
<1>7. ASSUME NEW r \in Calls, RefuseBody(r) PROVE Written(q)' /\ Grows(q)
  <2>1. CASE q = r
    <3>1. /\ pc[q] \notin {"idle", "done"} /\ pc'[q] \notin {"idle", "item"}
          /\ rq'[q] = rq[q] /\ taken'[q] = taken[q] /\ offered'[q] = offered[q]
          /\ gpc'[q] # "sending" \/ gpc'[q] = gpc[q]
          /\ body'[q] = body[q] \/ body'[q] = Append(body[q], 0)
      BY <1>7, <2>1 DEF RefuseBody, SetCodeTo
    <3> QED BY <3>1, TextWritten DEF Written
  <2>2. CASE q # r
    <3>1. WriteKept(q)
      BY <1>7, <2>2 DEF RefuseBody, SetCodeTo
    <3> QED BY <3>1, OthersWritten
  <2> QED BY <2>1, <2>2
<1>8. ASSUME NEW r \in Calls, RefuseItem(r) PROVE Written(q)' /\ Grows(q)
  <2>1. CASE q = r
    <3>1. /\ pc[q] \notin {"idle", "done"} /\ pc'[q] \notin {"idle", "item"}
          /\ rq'[q] = rq[q] /\ taken'[q] = taken[q] /\ offered'[q] = offered[q]
          /\ gpc'[q] # "sending" \/ gpc'[q] = gpc[q]
          /\ body'[q] = body[q] \/ body'[q] = Append(body[q], 0)
      BY <1>8, <2>1 DEF RefuseItem, SetCodeTo
    <3> QED BY <3>1, TextWritten DEF Written
  <2>2. CASE q # r
    <3>1. WriteKept(q)
      BY <1>8, <2>2 DEF RefuseItem, SetCodeTo
    <3> QED BY <3>1, OthersWritten
  <2> QED BY <2>1, <2>2
<1>9. ASSUME NEW r \in Calls, FunctionRefuses(r) PROVE Written(q)' /\ Grows(q)
  <2>1. CASE q = r
    <3>1. /\ pc[q] \notin {"idle", "done"} /\ pc'[q] \notin {"idle", "item"}
          /\ rq'[q] = rq[q] /\ taken'[q] = taken[q] /\ offered'[q] = offered[q]
          /\ gpc'[q] # "sending" \/ gpc'[q] = gpc[q]
          /\ body'[q] = body[q] \/ body'[q] = Append(body[q], 0)
      BY <1>9, <2>1 DEF FunctionRefuses, SetCodeTo
    <3> QED BY <3>1, TextWritten DEF Written
  <2>2. CASE q # r
    <3>1. WriteKept(q)
      BY <1>9, <2>2 DEF FunctionRefuses, SetCodeTo
    <3> QED BY <3>1, OthersWritten
  <2> QED BY <2>1, <2>2
<1>10. ASSUME NEW r \in Calls, Recover(r) PROVE Written(q)' /\ Grows(q)
  <2>1. CASE q = r
    <3>1. /\ pc[q] \notin {"idle", "done"} /\ pc'[q] \notin {"idle", "item"}
          /\ rq'[q] = rq[q] /\ taken'[q] = taken[q] /\ offered'[q] = offered[q]
          /\ gpc'[q] # "sending" \/ gpc'[q] = gpc[q]
          /\ body'[q] = body[q] \/ body'[q] = Append(body[q], 0)
      BY <1>10, <2>1 DEF Recover, SetCodeTo
    <3> QED BY <3>1, TextWritten DEF Written
  <2>2. CASE q # r
    <3>1. WriteKept(q)
      BY <1>10, <2>2 DEF Recover, SetCodeTo
    <3> QED BY <3>1, OthersWritten
  <2> QED BY <2>1, <2>2
<1>11. ASSUME NEW r \in Calls, CountCall(r) PROVE Written(q)' /\ Grows(q)
  <2>1. CASE q = r
    <3>1. /\ pc[q] \notin {"idle", "done"} /\ pc'[q] \notin {"idle", "item"}
          /\ rq'[q] = rq[q] /\ taken'[q] = taken[q] /\ offered'[q] = offered[q]
          /\ gpc'[q] # "sending" \/ gpc'[q] = gpc[q]
          /\ body'[q] = body[q] \/ body'[q] = Append(body[q], 0)
      BY <1>11, <2>1 DEF CountCall
    <3> QED BY <3>1, TextWritten DEF Written
  <2>2. CASE q # r
    <3>1. WriteKept(q)
      BY <1>11, <2>2 DEF CountCall
    <3> QED BY <3>1, OthersWritten
  <2> QED BY <2>1, <2>2
<1>12. ASSUME NEW r \in Calls, SampleCall(r) PROVE Written(q)' /\ Grows(q)
  <2>1. CASE q = r
    <3>1. /\ pc[q] \notin {"idle", "done"} /\ pc'[q] \notin {"idle", "item"}
          /\ rq'[q] = rq[q] /\ taken'[q] = taken[q] /\ offered'[q] = offered[q]
          /\ gpc'[q] # "sending" \/ gpc'[q] = gpc[q]
          /\ body'[q] = body[q] \/ body'[q] = Append(body[q], 0)
      BY <1>12, <2>1 DEF SampleCall
    <3> QED BY <3>1, TextWritten DEF Written
  <2>2. CASE q # r
    <3>1. WriteKept(q)
      BY <1>12, <2>2 DEF SampleCall
    <3> QED BY <3>1, OthersWritten
  <2> QED BY <2>1, <2>2
<1>13. ASSUME NEW r \in Calls, Return(r) PROVE Written(q)' /\ Grows(q)
  <2>1. CASE q = r
    <3>1. /\ pc[q] \notin {"idle", "done"} /\ pc'[q] \notin {"idle", "item"}
          /\ rq'[q] = rq[q] /\ taken'[q] = taken[q] /\ offered'[q] = offered[q]
          /\ gpc'[q] # "sending" \/ gpc'[q] = gpc[q]
          /\ body'[q] = body[q] \/ body'[q] = Append(body[q], 0)
      BY <1>13, <2>1 DEF Return
    <3> QED BY <3>1, TextWritten DEF Written
  <2>2. CASE q # r
    <3>1. WriteKept(q)
      BY <1>13, <2>2 DEF Return
    <3> QED BY <3>1, OthersWritten
  <2> QED BY <2>1, <2>2
<1>14. ASSUME NEW r \in Calls, NEW begun \in BOOLEAN, FunctionPanics(r, begun) PROVE Written(q)' /\ Grows(q)
  <2>1. CASE q = r
    <3>1. /\ pc[q] \notin {"idle", "done"} /\ pc'[q] \notin {"idle", "item"}
          /\ rq'[q] = rq[q] /\ taken'[q] = taken[q] /\ offered'[q] = offered[q]
          /\ gpc'[q] # "sending" \/ gpc'[q] = gpc[q]
          /\ body'[q] = body[q] \/ body'[q] = Append(body[q], 0)
      BY <1>14, <2>1 DEF FunctionPanics
    <3> QED BY <3>1, TextWritten DEF Written
  <2>2. CASE q # r
    <3>1. WriteKept(q)
      BY <1>14, <2>2 DEF FunctionPanics
    <3> QED BY <3>1, OthersWritten
  <2> QED BY <2>1, <2>2
<1>15. ASSUME NEW r \in Calls, NEW begun \in BOOLEAN, ItemPanics(r, begun) PROVE Written(q)' /\ Grows(q)
  <2>1. CASE q = r
    <3>1. /\ pc[q] \notin {"idle", "done"} /\ pc'[q] \notin {"idle", "item"}
          /\ rq'[q] = rq[q] /\ taken'[q] = taken[q] /\ offered'[q] = offered[q]
          /\ gpc'[q] # "sending" \/ gpc'[q] = gpc[q]
          /\ body'[q] = body[q] \/ body'[q] = Append(body[q], 0)
      BY <1>15, <2>1 DEF ItemPanics
    <3> QED BY <3>1, TextWritten DEF Written
  <2>2. CASE q # r
    <3>1. WriteKept(q)
      BY <1>15, <2>2 DEF ItemPanics
    <3> QED BY <3>1, OthersWritten
  <2> QED BY <2>1, <2>2
<1>16. ASSUME NEW r \in Calls, Offer(r) PROVE Written(q)' /\ Grows(q)
  <2>1. CASE q = r
    <3>1. UNCHANGED <<pc[q], rq[q], body[q], taken[q]>>
      BY <1>16, <2>1 DEF Offer
    <3>2. taken[q] <= offered'[q] /\ (gpc'[q] = "sending" => taken[q] < offered'[q])
      BY <1>16, <2>1 DEF Offer, Written
    <3> QED BY <3>1, <3>2 DEF Written, Grows, IsGen, Method
  <2>2. CASE q # r
    <3>1. WriteKept(q)
      BY <1>16, <2>2 DEF Offer
    <3> QED BY <3>1, OthersWritten
  <2> QED BY <2>1, <2>2
<1>17. ASSUME NEW r \in Calls, GiveUp(r) PROVE Written(q)' /\ Grows(q)
  <2>1. CASE q = r
    <3>1. UNCHANGED <<pc[q], rq[q], body[q], taken[q]>>
      BY <1>17, <2>1 DEF GiveUp
    <3>2. taken[q] <= offered'[q] /\ (gpc'[q] = "sending" => taken[q] < offered'[q])
      BY <1>17, <2>1 DEF GiveUp, Written
    <3> QED BY <3>1, <3>2 DEF Written, Grows, IsGen, Method
  <2>2. CASE q # r
    <3>1. WriteKept(q)
      BY <1>17, <2>2 DEF GiveUp
    <3> QED BY <3>1, OthersWritten
  <2> QED BY <2>1, <2>2
<1>18. ASSUME NEW r \in Calls, GeneratorReturns(r) PROVE Written(q)' /\ Grows(q)
  <2>1. CASE q = r
    <3>1. UNCHANGED <<pc[q], rq[q], body[q], taken[q]>>
      BY <1>18, <2>1 DEF GeneratorReturns
    <3>2. taken[q] <= offered'[q] /\ (gpc'[q] = "sending" => taken[q] < offered'[q])
      BY <1>18, <2>1 DEF GeneratorReturns, Written
    <3> QED BY <3>1, <3>2 DEF Written, Grows, IsGen, Method
  <2>2. CASE q # r
    <3>1. WriteKept(q)
      BY <1>18, <2>2 DEF GeneratorReturns
    <3> QED BY <3>1, OthersWritten
  <2> QED BY <2>1, <2>2
<1>19. ASSUME NEW r \in Calls, GeneratorPanics(r) PROVE Written(q)' /\ Grows(q)
  <2>1. CASE q = r
    <3>1. UNCHANGED <<pc[q], rq[q], body[q], taken[q]>>
      BY <1>19, <2>1 DEF GeneratorPanics
    <3>2. taken[q] <= offered'[q] /\ (gpc'[q] = "sending" => taken[q] < offered'[q])
      BY <1>19, <2>1 DEF GeneratorPanics, Written
    <3> QED BY <3>1, <3>2 DEF Written, Grows, IsGen, Method
  <2>2. CASE q # r
    <3>1. WriteKept(q)
      BY <1>19, <2>2 DEF GeneratorPanics
    <3> QED BY <3>1, OthersWritten
  <2> QED BY <2>1, <2>2
<1>20. ASSUME NEW r \in Calls, Disconnect(r) PROVE Written(q)' /\ Grows(q)
  <2>1. CASE q = r
    <3>1. UNCHANGED <<pc[q], rq[q], body[q], taken[q]>>
      BY <1>20, <2>1 DEF Disconnect
    <3>2. taken[q] <= offered'[q] /\ (gpc'[q] = "sending" => taken[q] < offered'[q])
      BY <1>20, <2>1 DEF Disconnect, Written
    <3> QED BY <3>1, <3>2 DEF Written, Grows, IsGen, Method
  <2>2. CASE q # r
    <3>1. WriteKept(q)
      BY <1>20, <2>2 DEF Disconnect
    <3> QED BY <3>1, OthersWritten
  <2> QED BY <2>1, <2>2
<1>21. ASSUME NEW r \in Calls, ProcessDies(r) PROVE Written(q)' /\ Grows(q)
  <2>1. CASE q = r
    <3>1. UNCHANGED <<pc[q], rq[q], body[q], taken[q]>>
      BY <1>21, <2>1 DEF ProcessDies
    <3>2. taken[q] <= offered'[q] /\ (gpc'[q] = "sending" => taken[q] < offered'[q])
      BY <1>21, <2>1 DEF ProcessDies, Written
    <3> QED BY <3>1, <3>2 DEF Written, Grows, IsGen, Method
  <2>2. CASE q # r
    <3>1. WriteKept(q)
      BY <1>21, <2>2 DEF ProcessDies
    <3> QED BY <3>1, OthersWritten
  <2> QED BY <2>1, <2>2
<1>22. ASSUME NEW r \in Calls, SelectItem(r) PROVE Written(q)' /\ Grows(q)
  <2>1. CASE q = r
    <3>1. /\ UNCHANGED <<rq[q], body[q], offered[q]>> /\ pc[q] = "select" /\ pc'[q] = "item"
          /\ taken'[q] = offered[q] /\ gpc'[q] = "running" /\ taken[q] < offered[q]
      BY <1>22, <2>1 DEF SelectItem, Written
    <3>2. taken[q] \in Nat /\ offered[q] \in Nat /\ \A i \in DOMAIN body[q] : body[q][i] \in Nat
      OBVIOUS
    <3>3. IsGen(q) => \A i \in DOMAIN body[q] : body[q][i] < taken'[q]
      BY <3>1, <3>2 DEF Written
    <3> QED BY <3>1, <3>2, <3>3 DEF Written, Grows, IsGen, Method
  <2>2. CASE q # r
    <3>1. WriteKept(q)
      BY <1>22, <2>2 DEF SelectItem
    <3> QED BY <3>1, OthersWritten
  <2> QED BY <2>1, <2>2
<1>23. ASSUME NEW r \in Calls, NEW blank \in BOOLEAN, WriteItem(r, blank) PROVE Written(q)' /\ Grows(q)
  <2>1. CASE q = r
    <3>1. /\ UNCHANGED <<rq[q], gpc[q], offered[q], taken[q]>> /\ pc[q] = "item" /\ pc'[q] = "select"
          /\ body'[q] = body[q] \/ body'[q] = Append(body[q], taken[q])
      BY <1>23, <2>1 DEF WriteItem
    <3>2. taken[q] \in Nat /\ taken[q] \in 0 .. taken[q] /\ body[q] \in Seq(Nat)
      OBVIOUS
    <3>3. IsGen(q) => Ordered(body'[q]) /\ \A i \in DOMAIN body'[q] : body'[q][i] <= taken[q]
      <4> SUFFICES ASSUME IsGen(q)
                   PROVE  Ordered(body'[q]) /\ \A i \in DOMAIN body'[q] : body'[q][i] <= taken[q]
        OBVIOUS
      <4>1. /\ Ordered(body[q])
            /\ \A i \in DOMAIN body[q] : body[q][i] <= taken[q]
            /\ \A i \in DOMAIN body[q] : body[q][i] < taken[q]
        BY <3>1 DEF Written
      <4>2. CASE body'[q] = body[q]
        BY <4>1, <4>2
      <4>3. CASE body'[q] = Append(body[q], taken[q])
        BY <3>2, <4>1, <4>3, Appended, SMTT(30)
      <4> QED BY <3>1, <4>2, <4>3
    <3> QED BY <3>1, <3>2, <3>3 DEF Written, Grows, IsGen, Method
  <2>2. CASE q # r
    <3>1. WriteKept(q)
      BY <1>23, <2>2 DEF WriteItem
    <3> QED BY <3>1, OthersWritten
  <2> QED BY <2>1, <2>2
<1>24. ASSUME NEW r \in Calls, FunctionReplies(r) PROVE Written(q)' /\ Grows(q)
  <2>1. CASE q = r
    <3>1. /\ UNCHANGED <<rq[q], gpc[q], offered[q], taken[q]>> /\ pc[q] = "calling" /\ pc'[q] = "deferred"
          /\ body'[q] = body[q] \/ body'[q] = Append(body[q], 1)
      BY <1>24, <2>1 DEF FunctionReplies
    <3>2. ~IsGen(q)
      BY <3>1 DEF Handshake
    <3> QED BY <3>1, <3>2 DEF Written, Grows, IsGen, Method
  <2>2. CASE q # r
    <3>1. WriteKept(q)
      BY <1>24, <2>2 DEF FunctionReplies
    <3> QED BY <3>1, OthersWritten
  <2> QED BY <2>1, <2>2
<1>25. ASSUME NEW r \in Calls, NEW s \in OwnCodes, SetCode(r, s) PROVE Written(q)' /\ Grows(q)
  <2>1. WriteKept(q)
    BY <1>25 DEF SetCode
  <2> QED BY <2>1, OthersWritten
<1>26. ASSUME NEW r \in Calls, Tell(r) PROVE Written(q)' /\ Grows(q)
  <2>1. CASE q = r
    <3>1. /\ pc[q] \notin {"idle", "done"} /\ pc'[q] \notin {"idle", "item"}
          /\ rq'[q] = rq[q] /\ taken'[q] = taken[q] /\ offered'[q] = offered[q]
          /\ gpc'[q] # "sending" \/ gpc'[q] = gpc[q]
          /\ body'[q] = body[q] \/ body'[q] = Append(body[q], 0)
      BY <1>26, <2>1 DEF Tell, HttpError, StatusText
    <3> QED BY <3>1, TextWritten DEF Written
  <2>2. CASE q # r
    <3>1. WriteKept(q)
      BY <1>26, <2>2 DEF Tell, HttpError
    <3> QED BY <3>1, OthersWritten
  <2> QED BY <2>1, <2>2
<1>27. CASE UNCHANGED vars
  <2>1. WriteKept(q)
    BY <1>27 DEF vars
  <2> QED BY <2>1, OthersWritten
<1> HIDE DEF TypeOK, IInv
<1> QED
  BY <1>1, <1>2, <1>3, <1>4, <1>5, <1>6, <1>7, <1>8, <1>9, <1>10, <1>11, <1>12,
     <1>13, <1>14, <1>15, <1>16, <1>17, <1>18, <1>19, <1>20, <1>21, <1>22, <1>23, <1>24, <1>25,
     <1>26, <1>27
     DEF Next, Arrive, UploadStep, HandlerStep, FunctionStep, GeneratorStep

-----------------------------------------------------------------------------
(* The client's side: what the stub has passed on to the application is what *)
(* it has decoded of the body so far, without the status texts.              *)

ClientTyped ==
  /\ cpc \in [Calls -> ClientPC]
  /\ net \in [Calls -> Nat] /\ pos \in [Calls -> Nat]
  /\ got \in [Calls -> Seq(Nat)]

(* Parts of the body that the application has, or that were no elements.     *)
Seen(r) == IF cpc[r] = "holding" THEN pos[r] - 1 ELSE pos[r]

Relayed(r) ==
  /\ \A i \in DOMAIN got[r] : \E k \in 1 .. Seen(r) : got[r][i] = body[r][k] /\ body[r][k] # 0
  /\ \A k \in 1 .. Seen(r) : body[r][k] # 0 => \E i \in DOMAIN got[r] : got[r][i] = body[r][k]
  /\ \A i, j \in DOMAIN got[r] : i < j => got[r][i] < got[r][j]

Stub(r) ==
  /\ pc[r] = "idle" => cpc[r] = "none"
  /\ cpc[r] = "none" => net[r] = 0
  /\ cpc[r] \in {"none", "other", "sent", "panicked"} => pos[r] = 0 /\ got[r] = <<>>
  /\ cpc[r] \in {"streaming", "ended"} => IsGen(r)
  /\ cpc[r] = "returned" => ~IsGen(r)
  /\ pos[r] <= Len(body[r])
  /\ net[r] <= Len(body[r]) + 1
  /\ net[r] > Len(body[r]) => pc[r] = "done"
  /\ cpc[r] = "holding" /\ IsGen(r) => pos[r] >= 1 /\ body[r][pos[r]] # 0
  /\ cpc[r] = "ended" => pc[r] = "done" /\ pos[r] = Len(body[r])
  /\ IsGen(r) => Relayed(r)

ClientInv ==
  /\ IInv /\ ClientTyped
  /\ \A r \in Calls : Written(r)
  /\ \A r \in Calls : Stub(r)

LEMMA InitClientInv == ClientInit => ClientInv
<1> SUFFICES ASSUME ClientInit PROVE ClientInv
  OBVIOUS
<1>1. IInv /\ \A r \in Calls : Written(r)
  BY InitTypeOK, InitStatusSettled, InitHandshake, InitWritten DEF ClientInit, IInv
<1>2. ClientTyped
  BY DEF ClientInit, ClientTyped, ClientPC
<1>3. ASSUME NEW r \in Calls PROVE Stub(r)
  BY DEF ClientInit, Init, Stub, Relayed, Seen
<1> QED BY <1>1, <1>2, <1>3 DEF ClientInv

(* A connection that is lost after the handler is done changes nothing else. *)
LEMMA LoseTailKeeps ==
  ASSUME ClientInv, NEW r \in Calls, LoseTail(r)
  PROVE  IInv' /\ \A q \in Calls : Written(q)' /\ Grows(q)
<1>1. /\ conn' = [conn EXCEPT ![r] = FALSE]
      /\ UNCHANGED <<alive, rq, pc, code, panicking, wire, body, own, gpc, offered, taken, label, counts, samples>>
  BY DEF LoseTail, http, stream, metrics
<1>2. TypeOK'
  BY <1>1 DEF ClientInv, IInv, TypeOK
<1>3. StatusSettled'
  BY <1>1 DEF ClientInv, IInv, StatusSettled, Settled, Agrees, Method
<1>4. ASSUME NEW q \in Calls PROVE Handshake(q)'
  <2>1. conn'[q] => conn[q]
    BY <1>1 DEF ClientInv, IInv, TypeOK
  <2>2. Handshake(q)
    BY DEF ClientInv, IInv
  <2> QED BY <1>1, <2>1, <2>2 DEF Handshake, Over, Received, Failing, NotStarted, Clean, IsGen, Method
<1>5. ASSUME NEW q \in Calls PROVE Written(q)' /\ Grows(q)
  <2>1. WriteKept(q) /\ Written(q)
    BY <1>1 DEF WriteKept, ClientInv
  <2> QED BY <2>1, OthersWritten
<1> QED BY <1>2, <1>3, <1>4, <1>5 DEF IInv

LEMMA ServerSide ==
  ASSUME ClientInv, [Next]_vars \/ \E r \in Calls : LoseTail(r)
  PROVE  IInv' /\ \A q \in Calls : Written(q)' /\ Grows(q)
<1>1. CASE [Next]_vars
  <2>1. IInv'
    BY <1>1, NextTypeOK, NextStatusSettled, StepHandshake DEF ClientInv, IInv
  <2>2. \A q \in Calls : Written(q)' /\ Grows(q)
    BY <1>1, StepWritten DEF ClientInv
  <2> QED BY <2>1, <2>2
<1> QED BY <1>1, LoseTailKeeps

(* Where the body only grows, what the stub has done of it stays true.       *)
LEMMA StubKept ==
  ASSUME TypeOK, ClientTyped, NEW q \in Calls, Stub(q), Grows(q), pc'[q] = "idle" => pc[q] = "idle",
         UNCHANGED <<net[q], pos[q], got[q]>>,
         cpc'[q] = cpc[q] \/ (cpc[q] = "none" /\ cpc'[q] \in {"sent", "other"} /\ pc'[q] # "idle")
  PROVE  Stub(q)'
<1>1. /\ body[q] \in Seq(Nat) /\ Len(body[q]) \in Nat /\ DOMAIN body[q] = 1 .. Len(body[q])
      /\ pos[q] \in Nat /\ net[q] \in Nat
  BY DEF TypeOK, ClientTyped
<1>2. /\ Len(body'[q]) >= Len(body[q]) /\ Len(body'[q]) \in Nat
      /\ \A k \in 1 .. Len(body[q]) : body'[q][k] = body[q][k]
  BY <1>1 DEF Grows
<1>3. pos[q] <= Len(body[q])
  BY DEF Stub
<1>4. CASE cpc[q] = "none"
  <2>1. /\ pos'[q] = 0 /\ got'[q] = <<>> /\ net'[q] = 0
        /\ cpc'[q] \in {"none", "sent", "other"} /\ (pc'[q] = "idle" => cpc'[q] = "none")
    BY <1>4 DEF Stub
  <2>2. Relayed(q)'
    BY <2>1 DEF Relayed, Seen
  <2>3. pos'[q] <= Len(body'[q]) /\ net'[q] <= Len(body'[q]) + 1 /\ ~(net'[q] > Len(body'[q]))
    BY <1>2, <2>1
  <2> QED BY <2>1, <2>2, <2>3 DEF Stub
<1>5. CASE cpc[q] # "none"
  <2>1. pc[q] # "idle" /\ cpc'[q] = cpc[q]
    BY <1>5 DEF Stub
  <2>2. IsGen(q)' = IsGen(q)
    BY <2>1 DEF Grows, IsGen, Method
  <2>3. Seen(q)' = Seen(q) /\ \A k \in 1 .. Seen(q) : k \in 1 .. Len(body[q])
    BY <1>1, <1>3, <2>1 DEF Seen
  <2>4. IsGen(q) => Relayed(q)'
    <3> SUFFICES ASSUME IsGen(q) PROVE Relayed(q)'
      OBVIOUS
    <3>1. Relayed(q)
      BY DEF Stub
    <3>2. \A k \in 1 .. Seen(q) : body'[q][k] = body[q][k]
      BY <1>2, <2>3
    <3>3. got'[q] = got[q]
      OBVIOUS
    <3>4. \A i \in DOMAIN got[q] : \E k \in 1 .. Seen(q) : got[q][i] = body'[q][k] /\ body'[q][k] # 0
      BY <3>1, <3>2 DEF Relayed
    <3>5. \A k \in 1 .. Seen(q) : body'[q][k] # 0 => \E i \in DOMAIN got[q] : got[q][i] = body'[q][k]
      BY <3>1, <3>2 DEF Relayed
    <3>6. \A i, j \in DOMAIN got[q] : i < j => got[q][i] < got[q][j]
      BY <3>1 DEF Relayed
    <3>7. pos'[q] = pos[q] /\ cpc'[q] = cpc[q]
      BY <2>1
    <3> QED BY <3>3, <3>4, <3>5, <3>6, <3>7 DEF Relayed, Seen
  <2>5. net[q] <= Len(body'[q]) + 1 /\ (net[q] > Len(body'[q]) => pc'[q] = "done")
    BY <1>1, <1>2 DEF Stub, Grows
  <2>6. cpc'[q] = "holding" /\ IsGen(q) => pos[q] >= 1 /\ body'[q][pos[q]] # 0
    BY <1>1, <1>2, <2>1 DEF Stub
  <2>7. cpc'[q] = "ended" => pc'[q] = "done" /\ pos[q] = Len(body'[q])
    BY <2>1 DEF Stub, Grows
  <2>8. pos'[q] <= Len(body'[q])
    BY <1>1, <1>2, <1>3
  <2>9. pc'[q] # "idle" /\ Stub(q) /\ UNCHANGED <<net[q], pos[q], got[q]>>
    BY <2>1 DEF Grows
  <2> QED BY <2>1, <2>2, <2>4, <2>5, <2>6, <2>7, <2>8, <2>9 DEF Stub
<1> QED BY <1>4, <1>5

(* A step of the stub of r: the server and the other stubs are as they were. *)
LEMMA StubSteps ==
  ASSUME ClientInv, NEW r \in Calls, StubStep(r) \/ Take(r), NEW q \in Calls
  PROVE  Stub(q)'
<1>1. TypeOK /\ ClientTyped /\ Stub(q) /\ Stub(r) /\ Written(r)
  BY DEF ClientInv, IInv
<1>2. /\ body[r] \in Seq(Nat) /\ Len(body[r]) \in Nat /\ DOMAIN body[r] = 1 .. Len(body[r])
      /\ pos[r] \in Nat /\ net[r] \in Nat /\ got[r] \in Seq(Nat)
  BY <1>1 DEF TypeOK, ClientTyped
<1>3. UNCHANGED <<pc, rq, body>> /\ IsGen(r)' = IsGen(r)
  BY DEF StubStep, Deliver, DoReturns, DoFails, StubReturns, Decode, DecodeOr, EndOfStream, EndIf,
         Take, vars, IsGen, Method
<1>4. CASE q # r
  <2>1. UNCHANGED <<net[q], pos[q], got[q], cpc[q]>>
    BY <1>1, <1>4 DEF StubStep, Deliver, DoReturns, DoFails, StubReturns, Decode, DecodeOr,
       EndOfStream, EndIf, Take, CGoto, ClientTyped
  <2>2. Grows(q)
    BY <1>3 DEF Grows
  <2> QED BY <1>1, <1>3, <2>1, <2>2, StubKept
<1>5. CASE q = r /\ Deliver(r)
  <2>1. /\ UNCHANGED <<cpc, pos, got>> /\ net' = [net EXCEPT ![r] = @ + 1]
        /\ cpc[r] \notin {"none", "other"}
        /\ net[r] < Len(body[r]) + (IF pc[r] = "done" THEN 1 ELSE 0)
    BY <1>5 DEF Deliver
  <2>2. net'[r] = net[r] + 1
    BY <1>1, <2>1 DEF ClientTyped
  <2>3. net[r] + 1 <= Len(body[r]) + 1 /\ (net[r] + 1 > Len(body[r]) => pc[r] = "done")
    <3>1. CASE pc[r] = "done"
      BY <1>2, <2>1, <3>1
    <3>2. CASE pc[r] # "done"
      BY <1>2, <2>1, <3>2
    <3> QED BY <3>1, <3>2
  <2>4. IsGen(r) => Relayed(r)'
    BY <1>1, <1>3, <2>1 DEF Stub, Relayed, Seen
  <2> QED BY <1>1, <1>3, <1>5, <2>1, <2>2, <2>3, <2>4 DEF Stub
<1>6. CASE q = r /\ DoReturns(r)
  <2>1. /\ UNCHANGED <<net, pos, got>> /\ cpc[r] = "sent"
        /\ cpc'[r] = IF IsGen(r) THEN "streaming" ELSE "holding"
    BY <1>1, <1>6 DEF DoReturns, CGoto, ClientTyped
  <2>2. IsGen(r) => Relayed(r)'
    BY <1>1, <1>3, <2>1 DEF Stub, Relayed, Seen
  <2> QED BY <1>1, <1>3, <1>6, <2>1, <2>2 DEF Stub
<1>7. CASE q = r /\ DoFails(r)
  <2>1. UNCHANGED <<net, pos, got>> /\ cpc[r] = "sent" /\ cpc'[r] = "panicked"
    BY <1>1, <1>7 DEF DoFails, CGoto, ClientTyped
  <2>2. IsGen(r) => Relayed(r)'
    BY <1>1, <1>3, <2>1 DEF Stub, Relayed, Seen
  <2> QED BY <1>1, <1>3, <1>7, <2>1, <2>2 DEF Stub
<1>8. CASE q = r /\ StubReturns(r)
  <2>1. UNCHANGED <<net, pos>> /\ cpc[r] = "holding" /\ cpc'[r] = "returned" /\ ~IsGen(r)
    BY <1>1, <1>8 DEF StubReturns, CGoto, ClientTyped
  <2> QED BY <1>1, <1>3, <1>8, <2>1 DEF Stub
<1>9. CASE q = r /\ Decode(r)
  <2> DEFINE e == body[r][pos[r] + 1]
  <2>1. /\ UNCHANGED <<net, got>> /\ cpc[r] = "streaming" /\ pos[r] < Len(body[r])
        /\ pos'[r] = pos[r] + 1
        /\ cpc'[r] = IF body[r][pos'[r]] = 0 THEN "streaming" ELSE "holding"
    BY <1>1, <1>9 DEF Decode, DecodeOr, CGoto, ClientTyped, StatusText
  <2>2. IsGen(r) /\ Relayed(r) /\ Seen(r) = pos[r]
    BY <1>1, <2>1 DEF Stub, Seen
  <2>3. CASE e = 0
    <3>1. Seen(r)' = pos[r] + 1
      BY <2>1, <2>3 DEF Seen
    <3>2. \A k \in 1 .. pos[r] + 1 : body[r][k] # 0 => k \in 1 .. pos[r]
      BY <1>2, <2>3
    <3>3. \A k \in 1 .. pos[r] : k \in 1 .. pos[r] + 1
      BY <1>2
    <3>4. Relayed(r)'
      BY <1>3, <2>1, <2>2, <3>1, <3>2, <3>3 DEF Relayed
    <3> QED BY <1>1, <1>2, <1>3, <1>9, <2>1, <2>2, <2>3, <3>4 DEF Stub
  <2>4. CASE e # 0
    <3>1. Seen(r)' = pos[r]
      BY <1>2, <2>1, <2>4 DEF Seen
    <3>2. Relayed(r)'
      BY <1>3, <2>1, <2>2, <3>1 DEF Relayed
    <3> QED BY <1>1, <1>2, <1>3, <1>9, <2>1, <2>2, <2>4, <3>2 DEF Stub
  <2> QED BY <2>3, <2>4
<1>10. CASE q = r /\ Take(r)
  <2> DEFINE e == body[r][pos[r]]
  <2>1. /\ UNCHANGED <<net, pos>> /\ cpc[r] = "holding" /\ IsGen(r) /\ cpc'[r] = "streaming"
        /\ got'[r] = Append(got[r], e)
    BY <1>1, <1>10 DEF Take, CGoto, ClientTyped
  <2>2. Relayed(r) /\ Seen(r) = pos[r] - 1 /\ Seen(r)' = pos[r] /\ pos[r] \in 1 .. Len(body[r]) /\ e # 0
    BY <1>1, <1>2, <2>1 DEF Stub, Seen
  <2>3. /\ e \in Nat /\ Ordered(body[r]) /\ \A i \in 1 .. pos[r] - 1 : i \in DOMAIN body[r] /\ i < pos[r]
    <3>1. body[r] \in Seq(Nat) /\ DOMAIN body[r] = 1 .. Len(body[r]) /\ Len(body[r]) \in Nat
      BY <1>2
    <3>2. e \in Nat
      BY <2>2, <3>1
    <3>3. Ordered(body[r])
      BY <1>1, <1>2, <2>1 DEF Written
    <3>4. \A i \in 1 .. pos[r] - 1 : i \in DOMAIN body[r] /\ i < pos[r]
      BY <2>2, <3>1
    <3> QED BY <3>2, <3>3, <3>4
  <2> HIDE DEF e
  <2>4. /\ DOMAIN got'[r] = 1 .. Len(got[r]) + 1 /\ DOMAIN got[r] = 1 .. Len(got[r]) /\ Len(got[r]) \in Nat
        /\ \A i \in DOMAIN got[r] : got'[r][i] = got[r][i]
        /\ got'[r][Len(got[r]) + 1] = e
    BY <1>2, <2>1, <2>3
  <2>5. \A i \in DOMAIN got[r] : got[r][i] < e
    <3> SUFFICES ASSUME NEW i \in DOMAIN got[r] PROVE got[r][i] < e
      OBVIOUS
    <3>1. PICK k \in 1 .. pos[r] - 1 : got[r][i] = body[r][k] /\ body[r][k] # 0
      BY <2>2 DEF Relayed
    <3> QED BY <1>2, <2>2, <2>3, <3>1 DEF Ordered, e
  <2>6. Relayed(r)'
    <3>1. ASSUME NEW i \in DOMAIN got'[r]
          PROVE  \E k \in 1 .. pos[r] : got'[r][i] = body[r][k] /\ body[r][k] # 0
      <4>1. CASE i \in DOMAIN got[r]
        <5>1. PICK k \in 1 .. pos[r] - 1 : got[r][i] = body[r][k] /\ body[r][k] # 0
          BY <2>2, <4>1 DEF Relayed
        <5>2. k \in 1 .. pos[r]
          BY <1>2
        <5> QED BY <2>4, <4>1, <5>1, <5>2
      <4>2. CASE i = Len(got[r]) + 1
        BY <2>2, <2>4, <4>2 DEF e
      <4> QED BY <2>4, <4>1, <4>2
    <3>2. ASSUME NEW k \in 1 .. pos[r], body[r][k] # 0
          PROVE  \E i \in DOMAIN got'[r] : got'[r][i] = body[r][k]
      <4>1. CASE k = pos[r]
        BY <2>4, <4>1 DEF e
      <4>2. CASE k # pos[r]
        <5>1. k \in 1 .. pos[r] - 1
          BY <1>2, <4>2
        <5>2. PICK i \in DOMAIN got[r] : got[r][i] = body[r][k]
          BY <2>2, <3>2, <5>1 DEF Relayed
        <5> QED BY <2>4, <5>2
      <4> QED BY <4>1, <4>2
    <3>3. ASSUME NEW i \in DOMAIN got'[r], NEW j \in DOMAIN got'[r], i < j
          PROVE  got'[r][i] < got'[r][j]
      <4>1. i \in DOMAIN got[r] /\ got'[r][i] = got[r][i]
        BY <2>4, <3>3
      <4>2. CASE j \in DOMAIN got[r]
        BY <2>2, <2>4, <3>3, <4>1, <4>2 DEF Relayed
      <4>3. CASE j = Len(got[r]) + 1
        BY <2>4, <2>5, <4>1, <4>3
      <4> QED BY <2>4, <4>2, <4>3
    <3> QED BY <1>3, <2>2, <3>1, <3>2, <3>3 DEF Relayed
  <2> QED BY <1>1, <1>3, <1>10, <2>1, <2>6 DEF Stub
<1>11. CASE q = r /\ EndOfStream(r)
  <2>1. /\ UNCHANGED <<net, pos, got>> /\ cpc[r] = "streaming" /\ cpc'[r] = "ended"
        /\ pos[r] = Len(body[r]) /\ net[r] > pos[r]
    BY <1>1, <1>11 DEF EndOfStream, EndIf, AtEnd, CGoto, ClientTyped
  <2>2. Relayed(r)'
    BY <1>1, <1>3, <2>1 DEF Stub, Relayed, Seen
  <2> QED BY <1>1, <1>3, <1>11, <2>1, <2>2 DEF Stub
<1> QED BY <1>4, <1>5, <1>6, <1>7, <1>8, <1>9, <1>10, <1>11 DEF StubStep

LEMMA NextClientInv == ClientInv /\ [ClientNext]_allVars => ClientInv'
<1> SUFFICES ASSUME ClientInv, [ClientNext]_allVars PROVE ClientInv'
  OBVIOUS
<1>1. [Next]_vars \/ \E r \in Calls : LoseTail(r)
  <2>1. CASE \E r \in Calls : Send(r)
    BY <2>1 DEF Send, Next
  <2>2. CASE \E r \in Calls : ServerNext(r)
    BY <2>2 DEF ServerNext, Next
  <2>3. CASE \E r \in Calls : StubStep(r) \/ Take(r)
    <3>1. UNCHANGED vars
      BY <2>3 DEF StubStep, Deliver, DoReturns, DoFails, StubReturns, Decode, DecodeOr,
         EndOfStream, EndIf, Take
    <3> QED BY <3>1
  <2>4. CASE UNCHANGED allVars
    BY <2>4 DEF allVars
  <2> QED BY <2>1, <2>2, <2>3, <2>4 DEF ClientNext
<1>2. IInv' /\ \A q \in Calls : Written(q)' /\ Grows(q)
  BY <1>1, ServerSide
<1>3. /\ TypeOK /\ ClientTyped /\ \A q \in Calls : Stub(q)
      /\ \A q \in Calls : pc'[q] = "idle" => pc[q] = "idle"
  BY <1>2 DEF ClientInv, IInv, Grows
<1>4. ClientTyped'
  <2>1. ASSUME NEW r \in Calls, StubStep(r) \/ Take(r) PROVE ClientTyped'
    <3>1. body[r] \in Seq(Nat) /\ pos[r] \in Nat /\ pos[r] <= Len(body[r])
      BY <1>3 DEF TypeOK, ClientTyped, Stub
    <3>2. CASE Deliver(r)
      BY <1>3, <3>2 DEF Deliver, ClientTyped, ClientPC
    <3>3. CASE DoReturns(r) \/ DoFails(r) \/ EndOfStream(r)
      BY <1>3, <3>3 DEF DoReturns, DoFails, EndOfStream, EndIf, CGoto, ClientTyped, ClientPC
    <3>4. CASE StubReturns(r)
      <4>1. PICK e \in Nat : got' = [got EXCEPT ![r] = <<e>>]
        <5>1. CASE net[r] > 0 /\ body[r] # <<>>
          <6>1. body[r][1] \in Nat
            BY <3>1, <5>1
          <6> QED BY <3>4, <5>1, <6>1 DEF StubReturns
        <5>2. CASE ~(net[r] > 0 /\ body[r] # <<>>)
          BY <3>4, <5>2 DEF StubReturns, StatusText
        <5> QED BY <5>1, <5>2
      <4>2. UNCHANGED <<net, pos>> /\ cpc' = [cpc EXCEPT ![r] = "returned"]
        BY <3>4 DEF StubReturns, CGoto
      <4> QED BY <1>3, <4>1, <4>2 DEF ClientTyped, ClientPC
    <3>5. CASE Decode(r)
      BY <1>3, <3>5 DEF Decode, DecodeOr, CGoto, ClientTyped, ClientPC
    <3>6. CASE Take(r)
      <4>1. /\ UNCHANGED <<net, pos>> /\ cpc' = [cpc EXCEPT ![r] = "streaming"]
            /\ got' = [got EXCEPT ![r] = Append(@, body[r][pos[r]])]
            /\ cpc[r] = "holding" /\ IsGen(r)
        BY <3>6 DEF Take, CGoto
      <4>2. body[r][pos[r]] \in Nat
        BY <1>3, <3>1, <4>1 DEF Stub
      <4> QED BY <1>3, <4>1, <4>2 DEF ClientTyped, ClientPC
    <3> QED BY <2>1, <3>2, <3>3, <3>4, <3>5, <3>6 DEF StubStep
  <2>2. ASSUME NEW r \in Calls, Send(r) PROVE ClientTyped'
    BY <1>3, <2>2 DEF Send, CGoto, ClientTyped, ClientPC
  <2>3. ASSUME NEW r \in Calls, ServerNext(r) PROVE ClientTyped'
    BY <1>3, <2>3 DEF ServerNext, client, ClientTyped
  <2>4. CASE UNCHANGED allVars
    BY <1>3, <2>4 DEF allVars, client, ClientTyped
  <2> QED BY <2>1, <2>2, <2>3, <2>4 DEF ClientNext
<1>5. ASSUME NEW q \in Calls PROVE Stub(q)'
  <2>1. CASE \E r \in Calls : StubStep(r) \/ Take(r)
    BY <2>1, StubSteps
  <2>2. ASSUME NEW r \in Calls, Send(r) PROVE Stub(q)'
    <3>1. /\ UNCHANGED <<net, pos, got>> /\ pc[r] = "idle" /\ pc'[r] # "idle"
          /\ cpc' = [cpc EXCEPT ![r] = IF rq'[r].encoded THEN "sent" ELSE "other"]
      BY <1>3, <2>2 DEF Send, Arrive, Receive, CGoto, Goto, TypeOK
    <3>2. cpc[r] = "none"
      BY <1>3, <3>1 DEF Stub
    <3>3. cpc'[q] = cpc[q] \/ (cpc[q] = "none" /\ cpc'[q] \in {"sent", "other"} /\ pc'[q] # "idle")
      BY <1>3, <3>1, <3>2 DEF ClientTyped
    <3> QED BY <1>2, <1>3, <3>1, <3>3, StubKept
  <2>3. ASSUME NEW r \in Calls, ServerNext(r) PROVE Stub(q)'
    <3>1. UNCHANGED <<net, pos, got, cpc>>
      BY <2>3 DEF ServerNext, client
    <3> QED BY <1>2, <1>3, <3>1, StubKept
  <2>4. CASE UNCHANGED allVars
    <3>1. UNCHANGED <<net, pos, got, cpc>>
      BY <2>4 DEF allVars, client
    <3> QED BY <1>2, <1>3, <3>1, StubKept
  <2> QED BY <2>1, <2>2, <2>3, <2>4 DEF ClientNext
<1> QED BY <1>2, <1>4, <1>5 DEF ClientInv

LEMMA AlwaysClientInv == ClientSpec => []ClientInv
<1>1. ClientInit => ClientInv
  BY InitClientInv
<1>2. ClientInv /\ [ClientNext]_allVars => ClientInv'
  BY NextClientInv
<1> QED BY <1>1, <1>2, PTL DEF ClientSpec

(* An application receives the elements of a stream in the order they were   *)
(* sent, each once, and never the text of an error, for a stream of any      *)
(* length and however parts of it arrive.                                    *)
THEOREM RpcGotInOrder == ClientSpec => []GotInOrder
<1>1. ClientInv => GotInOrder
  <2> SUFFICES ASSUME ClientInv, NEW r \in Calls, NEW i \in DOMAIN got[r], NEW j \in DOMAIN got[r],
                      IsGen(r), i <= j
               PROVE  got[r][i] # 0 /\ (i < j => got[r][i] < got[r][j])
    BY DEF GotInOrder, StatusText
  <2>1. Relayed(r)
    BY DEF ClientInv, Stub
  <2> QED BY <2>1 DEF Relayed
<1> QED BY <1>1, AlwaysClientInv, PTL

(* A channel is closed only at the end of a stream, with all of it received. *)
THEOREM RpcClosedIsComplete == ClientSpec => []ClosedIsComplete
<1>1. ClientInv => ClosedIsComplete
  <2> SUFFICES ASSUME ClientInv, NEW r \in Calls, cpc[r] = "ended"
               PROVE  /\ pc[r] = "done"
                      /\ Values(got[r]) = Values(body[r]) \ {0}
                      /\ Clean(r) /\ conn[r] => taken[r] = offered[r]
    BY DEF ClosedIsComplete, StatusText
  <2>1. pc[r] = "done" /\ IsGen(r) /\ Relayed(r) /\ Seen(r) = Len(body[r])
    BY DEF ClientInv, Stub, Seen
  <2>2. DOMAIN body[r] = 1 .. Len(body[r])
    BY DEF ClientInv, IInv, TypeOK
  <2>3. Values(got[r]) = Values(body[r]) \ {0}
    BY <2>1, <2>2 DEF Relayed, Values
  <2>4. Clean(r) /\ conn[r] => taken[r] = offered[r]
    BY <2>1 DEF ClientInv, IInv, Handshake, Over, Received, Failing, NotStarted
  <2> QED BY <2>1, <2>3, <2>4
<1> QED BY <1>1, AlwaysClientInv, PTL
=============================================================================
