--------------------------- MODULE LogFanoutProofs --------------------------
(* Proofs about LogFanout, for any goroutines, subscriptions, levels, sizes  *)
(* of a channel and number of records: no log call panics on a channel, and  *)
(* no subscription misses a record it wants without a count of it.           *)
EXTENDS LogFanout, TLAPS

(* The part of the type that the argument needs. *)
Begun == [by : Loggers, n : 0 .. MaxLogs, level : Levels \union {0}, sink : Subs \union {Nobody}]

Typed ==
  /\ mu      \in Loggers \union {Nobody}
  /\ minSub  \in Levels \union {Sentinel}
  /\ open    \subseteq Subs
  /\ closed  \subseteq Subs
  /\ sub     \in [Subs -> [level : Levels, all : BOOLEAN]]
  /\ sent    \in [Subs -> Seq(Record)]
  /\ dropped \in [Subs -> SUBSET Record]
  /\ lpc     \in [Loggers -> LoggerPC]
  /\ rec     \in [Loggers -> Begun]
  /\ \A l \in Loggers : lpc[l] # "idle" => rec[l] \in Record
  /\ visited \in [Loggers -> SUBSET Subs]
  /\ cur     \in [Loggers -> Subs \union {Nobody}]
  /\ owed    \in [Subs -> SUBSET Record]

(* hub.mu excludes: whoever is past Lock holds it, and what it is about to   *)
(* send to is still open.  A loop starts with nothing visited.               *)
Locked ==
  /\ \A l \in Loggers : lpc[l] \in Holding => mu = l
  /\ \A l \in Loggers : lpc[l] = "send" => cur[l] \in open
  /\ \A l \in Loggers : lpc[l] \notin {"range", "send"} => visited[l] = {}
  /\ open \cap closed = {}
  /\ ~panicked

(* The gate lets through whatever a subscription wants. *)
GateIsLow == \A s \in open : minSub <= sub[s].level

(* Only what a subscription wanted when it was open is owed to it. *)
OwedIsWanted == \A s \in Subs : \A r \in owed[s] : Wants(s, r) /\ s \in open \union closed

Delivered(s, r) == r \in Elements(sent[s]) \/ r \in dropped[s]

(* The log call of l has yet to come to s. *)
OnItsWay(s, l) ==
  \/ lpc[l] \in {"level", "min", "lock"}
  \/ lpc[l] \in {"range", "send"} /\ s \notin visited[l]
  \/ lpc[l] = "send" /\ s = cur[l]

(* What is owed has been delivered, or its log call has yet to come to it. *)
NothingSkipped ==
  \A s \in open : \A r \in owed[s] : Delivered(s, r) \/ (rec[r.by] = r /\ OnItsWay(s, r.by))

IInv == Typed /\ Locked /\ GateIsLow /\ OwedIsWanted /\ NothingSkipped

-----------------------------------------------------------------------------

LEMMA InitIInv == Init => IInv
<1> SUFFICES ASSUME Init PROVE IInv
  OBVIOUS
<1>1. Typed
  BY BoundsNat DEF Init, Typed, Begun, LoggerPC
<1>2. Locked
  BY DEF Init, Locked, Holding
<1>3. GateIsLow /\ OwedIsWanted /\ NothingSkipped
  BY DEF Init, GateIsLow, OwedIsWanted, NothingSkipped
<1> QED BY <1>1, <1>2, <1>3 DEF IInv

LEMMA ElementsOfAppend ==
  ASSUME NEW S, NEW q \in Seq(S), NEW e \in S
  PROVE  Elements(Append(q, e)) = Elements(q) \union {e}
<1>1. DOMAIN Append(q, e) = DOMAIN q \union {Len(q) + 1}
  OBVIOUS
<1>2. \A i \in DOMAIN q : Append(q, e)[i] = q[i]
  OBVIOUS
<1>3. Append(q, e)[Len(q) + 1] = e
  OBVIOUS
<1> QED BY <1>1, <1>2, <1>3, Zenon DEF Elements

(* recomputeMinLocked finds a level at or below that of every subscription. *)
LEMMA RecomputedMin ==
  ASSUME NEW S \in SUBSET Subs, sub \in [Subs -> [level : Levels, all : BOOLEAN]], RecomputeMin(S)
  PROVE  minSub' \in Levels \union {Sentinel} /\ \A s \in S : minSub' <= sub[s].level
  BY DEF RecomputeMin

LEMMA StepIInv == IInv /\ [Next]_vars => IInv'
<1> SUFFICES ASSUME IInv, [Next]_vars PROVE IInv'
  OBVIOUS
<1> USE LevelsBelowSentinel, NobodyIsNobody, BoundsNat
<1> USE DEF IInv, Typed, Goto, hub, feeds, bases, caller
<1>1. ASSUME NEW l \in Loggers, NEW v \in Levels, NEW c \in Subs \union {Nobody}, Log(l, v, c)
      PROVE  IInv'
  <2>1. rec'[l] \in Record /\ rec'[l].by = l /\ rec' \in [Loggers -> Begun]
    BY <1>1 DEF Log, Record, Begun
  <2>2. Typed'
    BY <1>1, <2>1 DEF Log, LoggerPC
  <2>3. Locked'
    BY <1>1 DEF Log, Locked, Holding
  <2>4. GateIsLow' /\ OwedIsWanted'
    BY <1>1 DEF Log, GateIsLow, OwedIsWanted, Wants
  <2>5. NothingSkipped'
    BY <1>1, <2>1 DEF Log, NothingSkipped, OnItsWay, Delivered, Record
  <2> QED BY <2>2, <2>3, <2>4, <2>5
<1>2. ASSUME NEW l \in Loggers, ReadLevel(l) PROVE IInv'
  <2>1. Typed' /\ Locked' /\ GateIsLow' /\ OwedIsWanted'
    BY <1>2 DEF ReadLevel, LoggerPC, Locked, Holding, GateIsLow, OwedIsWanted, Wants
  <2>2. NothingSkipped'
    BY <1>2 DEF ReadLevel, NothingSkipped, OnItsWay, Delivered, Record
  <2> QED BY <2>1, <2>2
<1>3. ASSUME NEW l \in Loggers, ReadMin(l) PROVE IInv'
  <2>1. Typed' /\ Locked' /\ GateIsLow' /\ OwedIsWanted'
    BY <1>3 DEF ReadMin, LoggerPC, Locked, Holding, GateIsLow, OwedIsWanted, Wants
  <2>2. ASSUME NEW s \in open, NEW r \in owed[s], ~Delivered(s, r)
        PROVE  rec[r.by] = r /\ OnItsWay(s, r.by)'
    <3>1. rec[r.by] = r /\ OnItsWay(s, r.by) /\ r \in Record
      BY <2>2 DEF NothingSkipped
    <3>2. CASE r.by = l
      <4>1. r.level >= sub[s].level /\ sub[s].level >= minSub
        BY DEF OwedIsWanted, Wants, GateIsLow
      <4>2. rec[l].level >= minSub
        BY <3>1, <3>2, <4>1 DEF Record
      <4> QED BY <1>3, <3>1, <3>2, <4>2 DEF ReadMin, OnItsWay
    <3>3. CASE r.by # l
      BY <1>3, <3>1, <3>3 DEF ReadMin, OnItsWay, Record
    <3> QED BY <3>1, <3>2, <3>3
  <2>3. NothingSkipped'
    BY <1>3, <2>2 DEF ReadMin, NothingSkipped, Delivered
  <2> QED BY <2>1, <2>3
<1>4. ASSUME NEW l \in Loggers, Lock(l) PROVE IInv'
  <2>1. Typed' /\ GateIsLow' /\ OwedIsWanted'
    BY <1>4 DEF Lock, LoggerPC, GateIsLow, OwedIsWanted, Wants
  <2>2. Locked'
    BY <1>4 DEF Lock, Locked, Holding
  <2>3. NothingSkipped'
    BY <1>4 DEF Lock, Locked, NothingSkipped, OnItsWay, Delivered, Record
  <2> QED BY <2>1, <2>2, <2>3
<1>5. ASSUME NEW l \in Loggers, NEW s \in Subs, RangeNext(l, s) PROVE IInv'
  <2>1. Typed' /\ GateIsLow' /\ OwedIsWanted'
    <3>1. CASE Wants(s, rec[l])
      <4>1. /\ visited' = [visited EXCEPT ![l] = @ \union {s}]
            /\ cur' = [cur EXCEPT ![l] = s] /\ lpc' = [lpc EXCEPT ![l] = "send"]
            /\ lpc[l] = "range" /\ UNCHANGED <<mu, level, hub, feeds, bases, rec, eff, owed, panicked>>
        BY <1>5, <3>1 DEF RangeNext
      <4>2. visited' \in [Loggers -> SUBSET Subs] /\ cur' \in [Loggers -> Subs \union {Nobody}]
        BY <4>1
      <4> QED BY <4>1, <4>2 DEF LoggerPC, GateIsLow, OwedIsWanted, Wants
    <3>2. CASE ~Wants(s, rec[l])
      BY <1>5, <3>2 DEF RangeNext, LoggerPC, GateIsLow, OwedIsWanted, Wants
    <3> QED BY <3>1, <3>2
  <2>2. Locked'
    BY <1>5 DEF RangeNext, Locked, Holding
  <2>3. ASSUME NEW t \in open, NEW r \in owed[t], ~Delivered(t, r)
        PROVE  rec[r.by] = r /\ OnItsWay(t, r.by)'
    <3>1. rec[r.by] = r /\ OnItsWay(t, r.by) /\ r \in Record /\ Wants(t, r)
      BY <2>3 DEF NothingSkipped, OwedIsWanted
    <3>2. CASE r.by = l /\ t = s
      BY <1>5, <3>1, <3>2 DEF RangeNext, OnItsWay, Record
    <3>3. CASE r.by = l /\ t # s
      BY <1>5, <3>1, <3>3 DEF RangeNext, OnItsWay, Record
    <3>4. CASE r.by # l
      BY <1>5, <3>1, <3>4 DEF RangeNext, OnItsWay, Record
    <3> QED BY <3>1, <3>2, <3>3, <3>4
  <2>4. NothingSkipped'
    BY <1>5, <2>3 DEF RangeNext, NothingSkipped, Delivered
  <2> QED BY <2>1, <2>2, <2>4
<1>6. ASSUME NEW l \in Loggers, RangeDone(l) PROVE IInv'
  <2>1. Typed' /\ GateIsLow' /\ OwedIsWanted'
    BY <1>6 DEF RangeDone, LoggerPC, GateIsLow, OwedIsWanted, Wants
  <2>2. Locked'
    BY <1>6 DEF RangeDone, Locked, Holding
  <2>3. NothingSkipped'
    BY <1>6 DEF RangeDone, NothingSkipped, OnItsWay, Delivered, Record
  <2> QED BY <2>1, <2>2, <2>3
<1>7. ASSUME NEW l \in Loggers, Send(l) PROVE IInv'
  <2>1. cur[l] \in open /\ cur[l] \notin closed
    BY <1>7 DEF Send, Locked
  <2>2. rec[l] \in Record /\ panicked' = panicked
    BY <1>7, <2>1 DEF Send
  <2>3. \/ sent' = [sent EXCEPT ![cur[l]] = Append(@, rec[l])] /\ dropped' = dropped
        \/ sent' = sent /\ dropped' = [dropped EXCEPT ![cur[l]] = @ \union {rec[l]}]
    BY <1>7, <2>1 DEF Send
  <2>4. sent' \in [Subs -> Seq(Record)] /\ dropped' \in [Subs -> SUBSET Record]
    <3>1. cur[l] \in Subs /\ Append(sent[cur[l]], rec[l]) \in Seq(Record)
      BY <2>1, <2>2
    <3>2. CASE sent' = [sent EXCEPT ![cur[l]] = Append(@, rec[l])] /\ dropped' = dropped
      BY <3>1, <3>2
    <3>3. CASE sent' = sent /\ dropped' = [dropped EXCEPT ![cur[l]] = @ \union {rec[l]}]
      BY <2>2, <3>1, <3>3
    <3> QED BY <2>3, <3>2, <3>3
  <2>5. Typed' /\ GateIsLow' /\ OwedIsWanted'
    BY <1>7, <2>4 DEF Send, LoggerPC, GateIsLow, OwedIsWanted, Wants
  <2>6. Locked'
    BY <1>7, <2>2 DEF Send, Locked, Holding
  <2>7. Elements(Append(sent[cur[l]], rec[l])) = Elements(sent[cur[l]]) \union {rec[l]}
    <3>1. cur[l] \in Subs /\ sent[cur[l]] \in Seq(Record)
      BY <2>1
    <3> QED BY <2>2, <3>1, ElementsOfAppend
  <2>8. /\ \A t \in Subs : Elements(sent[t]) \subseteq Elements(sent'[t]) /\ dropped[t] \subseteq dropped'[t]
        /\ rec[l] \in Elements(sent'[cur[l]]) \/ rec[l] \in dropped'[cur[l]]
    <3>1. cur[l] \in Subs
      BY <2>1
    <3>2. CASE sent' = [sent EXCEPT ![cur[l]] = Append(@, rec[l])] /\ dropped' = dropped
      BY <2>7, <3>1, <3>2
    <3>3. CASE sent' = sent /\ dropped' = [dropped EXCEPT ![cur[l]] = @ \union {rec[l]}]
      BY <3>1, <3>3
    <3> QED BY <2>3, <3>2, <3>3
  <2>9. ASSUME NEW t \in open, NEW r \in owed[t], ~Delivered(t, r)'
        PROVE  rec[r.by] = r /\ OnItsWay(t, r.by)'
    <3>1. ~Delivered(t, r)
      BY <1>7, <2>8, <2>9 DEF Send, Delivered
    <3>2. rec[r.by] = r /\ OnItsWay(t, r.by) /\ r \in Record
      BY <3>1 DEF NothingSkipped
    <3>3. CASE r.by = l
      <4>1. t # cur[l]
        BY <1>7, <2>8, <2>9, <3>2, <3>3 DEF Send, Delivered
      <4> QED BY <1>7, <3>2, <3>3, <4>1 DEF Send, OnItsWay
    <3>4. CASE r.by # l
      BY <1>7, <3>2, <3>4 DEF Send, OnItsWay, Record
    <3> QED BY <3>2, <3>3, <3>4
  <2>10. NothingSkipped'
    BY <1>7, <2>9 DEF Send, NothingSkipped
  <2> QED BY <2>5, <2>6, <2>10
<1>8. ASSUME NEW l \in Loggers, WriteBase(l) PROVE IInv'
  <2>1. Typed' /\ Locked' /\ GateIsLow' /\ OwedIsWanted'
    BY <1>8 DEF WriteBase, LoggerPC, Locked, Holding, GateIsLow, OwedIsWanted, Wants
  <2>2. NothingSkipped'
    BY <1>8 DEF WriteBase, NothingSkipped, OnItsWay, Delivered, Record
  <2> QED BY <2>1, <2>2
<1>9. ASSUME NEW l \in Loggers, Unlock(l) PROVE IInv'
  <2>1. Typed' /\ GateIsLow' /\ OwedIsWanted'
    BY <1>9 DEF Unlock, LoggerPC, GateIsLow, OwedIsWanted, Wants
  <2>2. Locked'
    BY <1>9 DEF Unlock, Locked, Holding
  <2>3. NothingSkipped'
    BY <1>9 DEF Unlock, NothingSkipped, OnItsWay, Delivered, Record
  <2> QED BY <2>1, <2>2, <2>3
<1>10. ASSUME NEW s \in Subs, Subscribe(s) PROVE IInv'
  <2>1. open' \in SUBSET Subs /\ RecomputeMin(open')
    BY <1>10 DEF Subscribe
  <2>2. Typed' /\ GateIsLow'
    BY <1>10, <2>1, RecomputedMin DEF Subscribe, GateIsLow
  <2>3. Locked' /\ OwedIsWanted'
    BY <1>10 DEF Subscribe, Locked, OwedIsWanted, Wants
  <2>4. owed[s] = {}
    BY <1>10 DEF Subscribe, OwedIsWanted
  <2>5. NothingSkipped'
    BY <1>10, <2>4 DEF Subscribe, NothingSkipped, OnItsWay, Delivered
  <2> QED BY <2>2, <2>3, <2>5
<1>11. ASSUME NEW s \in Subs, Close(s) PROVE IInv'
  <2>1. CASE s \in open
    <3>1. open' \in SUBSET Subs /\ RecomputeMin(open')
      BY <1>11, <2>1 DEF Close
    <3>2. Typed' /\ GateIsLow'
      BY <1>11, <2>1, <3>1, RecomputedMin DEF Close, GateIsLow
    <3>3. \A l \in Loggers : lpc[l] \notin Holding
      BY <1>11 DEF Close, Locked
    <3>4. Locked'
      BY <1>11, <2>1, <3>3 DEF Close, Locked, Holding
    <3>5. OwedIsWanted' /\ NothingSkipped'
      BY <1>11, <2>1 DEF Close, OwedIsWanted, Wants, NothingSkipped, OnItsWay, Delivered
    <3> QED BY <3>2, <3>4, <3>5
  <2>2. CASE s \notin open
    BY <1>11, <2>2 DEF Close, Locked, GateIsLow, OwedIsWanted, Wants, NothingSkipped, OnItsWay,
         Delivered
  <2> QED BY <2>1, <2>2
<1>12. ASSUME NEW s \in Subs, Receive(s) PROVE IInv'
  BY <1>12 DEF Receive, Locked, GateIsLow, OwedIsWanted, Wants, NothingSkipped, OnItsWay, Delivered
<1>13. ASSUME NEW v \in Levels, SetLevel(v) PROVE IInv'
  BY <1>13 DEF SetLevel, Locked, GateIsLow, OwedIsWanted, Wants, NothingSkipped, OnItsWay, Delivered
<1>14. ASSUME SetBase PROVE IInv'
  BY <1>14 DEF SetBase, Locked, GateIsLow, OwedIsWanted, Wants, NothingSkipped, OnItsWay, Delivered
<1>15. CASE UNCHANGED vars
  BY <1>15 DEF vars, Locked, GateIsLow, OwedIsWanted, Wants, NothingSkipped, OnItsWay, Delivered
<1> HIDE DEF IInv
<1> QED
  BY <1>1, <1>2, <1>3, <1>4, <1>5, <1>6, <1>7, <1>8, <1>9, <1>10, <1>11, <1>12, <1>13, <1>14, <1>15
     DEF Next, HandleStep

LEMMA AlwaysIInv == Spec => []IInv
  BY InitIInv, StepIInv, PTL DEF Spec

-----------------------------------------------------------------------------

(* The comment at logtee.go:210 is right, for any number of goroutines and   *)
(* subscriptions: Close and the sends exclude each other, no channel is      *)
(* closed twice and no log call panics.                                      *)
THEOREM FanoutNoChannelPanic == Spec => []NoChannelPanic
<1>1. IInv => NoChannelPanic
  BY DEF IInv, Locked, NoChannelPanic
<1> QED BY <1>1, AlwaysIInv, PTL

(* The two gates that Enabled reads without the lock hide nothing: a record  *)
(* whose call begins after a subscription that wants it was made reaches its *)
(* channel, or its count of dropped records, before the call returns.        *)
THEOREM FanoutNoSilentLoss == Spec => []NoSilentLoss
<1>1. ASSUME IInv, NEW s \in open, NEW r \in owed[s]
      PROVE  InCall(r) \/ r \in Elements(sent[s]) \/ r \in dropped[s]
  <2>1. r.by \in Loggers
    BY <1>1 DEF IInv, Typed, Record
  <2>2. CASE rec[r.by] = r /\ OnItsWay(s, r.by)
    BY <2>1, <2>2 DEF OnItsWay, InCall
  <2> QED BY <1>1, <2>2 DEF IInv, NothingSkipped, Delivered
<1>2. IInv => NoSilentLoss
  BY <1>1 DEF NoSilentLoss
<1> QED BY <1>2, AlwaysIInv, PTL

-----------------------------------------------------------------------------
(* One order.  The goroutine that holds hub.mu has its record nowhere but at *)
(* the end of a feed, and not yet in those it has still to come to; the      *)
(* records of all others are of calls that have left the lock, or none.      *)

Feeds == {sent[s] : s \in Subs} \union {Written}

Past(r) == r.n < rec[r.by].n \/ (r = rec[r.by] /\ lpc[r.by] \in Holding \union {"idle"})

OnlyLast(q, r) == \A i \in DOMAIN q : q[i] = r => i = Len(q)

Ordered ==
  /\ base \in Nat /\ out \in Seq([rec : Record, base : Nat])
  /\ \A l \in Loggers : rec[l].by = l
  /\ \A q \in Feeds : \A i \in DOMAIN q : Past(q[i])
  /\ \A l \in Loggers : lpc[l] \in Holding => \A q \in Feeds : OnlyLast(q, rec[l])
  /\ \A l \in Loggers : lpc[l] = "send" =>
       cur[l] \in visited[l] /\ rec[l] \notin Elements(sent[cur[l]])
  /\ \A l \in Loggers : lpc[l] \in {"range", "send"} =>
       \A s \in Subs \ visited[l] : rec[l] \notin Elements(sent[s])
  /\ \A l \in Loggers : lpc[l] \in {"range", "send", "base"} => rec[l] \notin Elements(Written)

LEMMA FeedsType ==
  ASSUME Typed, out \in Seq([rec : Record, base : Nat])
  PROVE  \A q \in Feeds : q \in Seq(Record)
<1> DEFINE S == [rec : Record, base : Nat]
<1>0. \A x \in S : x.rec \in Record
  OBVIOUS
<1> HIDE DEF S
<1>1. Len(out) \in Nat /\ DOMAIN out = 1 .. Len(out) /\ \A i \in DOMAIN out : out[i].rec \in Record
  <2>1. out \in Seq(S)
    BY DEF S
  <2> QED BY <1>0, <2>1
<1>2. Written \in [1 .. Len(out) -> Record]
  BY <1>1 DEF Written
<1>3. Written \in Seq(Record)
  BY <1>1, <1>2
<1> QED BY <1>3 DEF Typed, Feeds

LEMMA WrittenGrows ==
  ASSUME out \in Seq([rec : Record, base : Nat]), base \in Nat, NEW r \in Record,
         out' = Append(out, [rec |-> r, base |-> base])
  PROVE  Written' = Append(Written, r)
<1>1. /\ Len(out) \in Nat /\ DOMAIN out = 1 .. Len(out)
      /\ DOMAIN out' = 1 .. Len(out) + 1
      /\ \A i \in 1 .. Len(out) : out'[i] = out[i]
      /\ out'[Len(out) + 1].rec = r
  BY DEF Record
<1>2. Written = [i \in 1 .. Len(out) |-> out[i].rec] /\ Len(Written) = Len(out)
  BY <1>1 DEF Written
<1>3. Written' = [i \in 1 .. Len(out) + 1 |-> out'[i].rec]
  BY <1>1 DEF Written
<1> QED BY <1>1, <1>2, <1>3

(* Two feeds keep one order when one of them gets a record that the other    *)
(* has at its end, if at all.                                                *)
LEMMA AppendKeepsOrder ==
  ASSUME NEW p \in Seq(Record), NEW q \in Seq(Record), NEW e \in Record,
         e \notin Elements(p), OnlyLast(q, e)
  PROVE  /\ SameOrder(p, q) => SameOrder(Append(p, e), q)
         /\ SameOrder(q, p) => SameOrder(q, Append(p, e))
         /\ SameOrder(p, p) => SameOrder(Append(p, e), Append(p, e))
<1> DEFINE a == Append(p, e)
<1>1. /\ Len(p) \in Nat /\ DOMAIN p = 1 .. Len(p) /\ DOMAIN a = 1 .. Len(p) + 1
      /\ \A i \in DOMAIN p : a[i] = p[i]
      /\ a[Len(p) + 1] = e
      /\ Len(q) \in Nat /\ DOMAIN q = 1 .. Len(q)
  OBVIOUS
<1>2. \A i \in DOMAIN p : p[i] # e
  BY DEF Elements
<1>3. \A i \in DOMAIN q : q[i] = e => i = Len(q)
  BY DEF OnlyLast
<1> HIDE DEF a
<1>4. ASSUME SameOrder(p, q) PROVE SameOrder(a, q)
  <2> SUFFICES ASSUME NEW i \in DOMAIN a, NEW j \in DOMAIN a, NEW k \in DOMAIN q, NEW m \in DOMAIN q,
                      a[i] = q[k], a[j] = q[m], i < j
               PROVE  k < m
    BY DEF SameOrder
  <2>1. i \in DOMAIN p /\ p[i] = q[k] /\ q[k] # e
    BY <1>1, <1>2
  <2>2. CASE j \in DOMAIN p
    BY <1>1, <1>4, <2>1, <2>2 DEF SameOrder
  <2>3. CASE j = Len(p) + 1
    BY <1>1, <1>3, <2>1, <2>3
  <2> QED BY <1>1, <2>2, <2>3
<1>5. ASSUME SameOrder(q, p) PROVE SameOrder(q, a)
  <2> SUFFICES ASSUME NEW i \in DOMAIN q, NEW j \in DOMAIN q, NEW k \in DOMAIN a, NEW m \in DOMAIN a,
                      q[i] = a[k], q[j] = a[m], i < j
               PROVE  k < m
    BY DEF SameOrder
  <2>1. q[i] # e /\ k \in DOMAIN p
    BY <1>1, <1>3
  <2>2. CASE m \in DOMAIN p
    BY <1>1, <1>5, <2>1, <2>2 DEF SameOrder
  <2>3. CASE m = Len(p) + 1
    BY <1>1, <2>1, <2>3
  <2> QED BY <1>1, <2>2, <2>3
<1>6. ASSUME SameOrder(p, p) PROVE SameOrder(a, a)
  <2> SUFFICES ASSUME NEW i \in DOMAIN a, NEW j \in DOMAIN a, NEW k \in DOMAIN a, NEW m \in DOMAIN a,
                      a[i] = a[k], a[j] = a[m], i < j
               PROVE  k < m
    BY DEF SameOrder
  <2>1. i \in DOMAIN p /\ k \in DOMAIN p
    BY <1>1, <1>2
  <2>2. CASE j \in DOMAIN p /\ m \in DOMAIN p
    BY <1>1, <1>6, <2>1, <2>2 DEF SameOrder
  <2>3. CASE j = Len(p) + 1 \/ m = Len(p) + 1
    BY <1>1, <1>2, <2>1, <2>3
  <2> QED BY <1>1, <2>2, <2>3
<1> QED BY <1>4, <1>5, <1>6 DEF a

LEMMA InitOrdered == Init => Ordered /\ OneOrder
<1> SUFFICES ASSUME Init PROVE Ordered /\ OneOrder
  OBVIOUS
<1>1. Written = <<>> /\ \A s \in Subs : sent[s] = <<>>
  BY DEF Init, Written
<1>2. DOMAIN <<>> = {}
  OBVIOUS
<1>3. \A q \in Feeds : DOMAIN q = {}
  BY <1>1, <1>2 DEF Feeds
<1>4. Ordered
  BY <1>3 DEF Init, Ordered, Holding
<1>5. OneOrder
  BY <1>1, <1>2 DEF OneOrder, SameOrder
<1> QED BY <1>4, <1>5

(* A step that sends and writes nothing. *)
LEMMA QuietOrder ==
  ASSUME UNCHANGED <<sent, out>>
  PROVE  /\ Feeds' = Feeds /\ Written' = Written
         /\ OneOrder => OneOrder'
  BY DEF Feeds, Written, OneOrder, SameOrder

(* A record stays of a call past the lock if none of those comes back to it. *)
LEMMA PastStays ==
  ASSUME Typed, NEW l \in Loggers, NEW p, rec' = rec, lpc' = [lpc EXCEPT ![l] = p],
         p \in Holding \union {"idle"} \/ lpc[l] \notin Holding \union {"idle"}
  PROVE  \A r : Past(r) => Past(r)'
<1>1. \A k : lpc[k] \in Holding \union {"idle"} => lpc'[k] \in Holding \union {"idle"}
  BY DEF Typed
<1> QED BY <1>1 DEF Past

(* The holder of the lock gives its record to a feed. *)
LEMMA GrowsOrdered ==
  ASSUME Typed, Locked, Ordered, NEW l \in Loggers, lpc[l] \in {"send", "base"}, rec' = rec,
         lpc' = [lpc EXCEPT ![l] = IF lpc[l] = "send" THEN "range" ELSE "unlock"],
         \A q \in Feeds' : \/ q \in Feeds
                            \/ \E p \in Feeds : q = Append(p, rec[l]) /\ rec[l] \notin Elements(p)
  PROVE  /\ \A q \in Feeds' : \A i \in DOMAIN q : Past(q[i])'
         /\ \A k \in Loggers : lpc'[k] \in Holding => \A q \in Feeds' : OnlyLast(q, rec[k])
<1>0. \A q \in Feeds : q \in Seq(Record)
  BY FeedsType DEF Ordered
<1>1. rec[l].by = l /\ rec[l] \in Record /\ mu = l
  BY DEF Ordered, Typed, Locked, Holding
<1>2. \A r : Past(r) => Past(r)'
  BY DEF Past, Holding, Typed
<1>3. Past(rec[l])'
  BY <1>1 DEF Past, Holding, Typed
<1>4. ASSUME NEW q \in Feeds', NEW i \in DOMAIN q PROVE Past(q[i])'
  <2>1. CASE q \in Feeds
    BY <1>2, <2>1 DEF Ordered
  <2>2. ASSUME NEW p \in Feeds, q = Append(p, rec[l]) PROVE Past(q[i])'
    <3>1. p \in Seq(Record)
      BY <1>0
    <3>2. (i \in DOMAIN p /\ q[i] = p[i]) \/ q[i] = rec[l]
      BY <1>1, <2>2, <3>1
    <3> QED BY <1>2, <1>3, <3>2 DEF Ordered
  <2> QED BY <2>1, <2>2
<1>5. \A k \in Loggers : lpc'[k] \in Holding => k = l
  BY <1>1 DEF Locked, Holding, Typed
<1>6. ASSUME NEW q \in Feeds' PROVE OnlyLast(q, rec[l])
  <2>1. \A p \in Feeds : OnlyLast(p, rec[l])
    BY DEF Ordered, Holding
  <2>2. ASSUME NEW p \in Feeds, q = Append(p, rec[l]), rec[l] \notin Elements(p)
        PROVE  OnlyLast(q, rec[l])
    <3>1. p \in Seq(Record)
      BY <1>0
    <3> QED BY <1>1, <2>2, <3>1 DEF OnlyLast, Elements
  <2> QED BY <2>1, <2>2
<1> QED BY <1>4, <1>5, <1>6

LEMMA StepOrdered == IInv /\ Ordered /\ OneOrder /\ [Next]_vars => Ordered' /\ OneOrder'
<1> SUFFICES ASSUME IInv, Ordered, OneOrder, [Next]_vars PROVE Ordered' /\ OneOrder'
  OBVIOUS
<1> USE DEF Goto, hub, feeds, bases, caller
<1>0. Typed /\ Locked /\ \A l \in Loggers : rec[l].n \in Nat
  BY BoundsNat DEF IInv, Typed, Begun
<1>q. ASSUME UNCHANGED <<sent, out>>
      PROVE  Feeds' = Feeds /\ Written' = Written /\ OneOrder'
  BY <1>q, QuietOrder
<1>1. ASSUME NEW l \in Loggers, NEW v \in Levels, NEW c \in Subs \union {Nobody}, Log(l, v, c)
      PROVE  Ordered' /\ OneOrder'
  <2>1. Feeds' = Feeds /\ Written' = Written /\ OneOrder'
    BY <1>1, <1>q DEF Log
  <2>2. \A q \in Feeds : \A i \in DOMAIN q : Past(q[i])'
    <3> SUFFICES ASSUME NEW q \in Feeds, NEW i \in DOMAIN q PROVE Past(q[i])'
      OBVIOUS
    <3>1. Past(q[i]) /\ q[i] \in Record
      BY <1>0, FeedsType DEF Ordered
    <3>2. q[i].by \in Loggers /\ q[i].n \in Nat
      BY <3>1 DEF Record
    <3>3. CASE q[i].by = l
      BY <1>0, <1>1, <3>1, <3>2, <3>3 DEF Log, Past, Typed
    <3>4. CASE q[i].by # l
      BY <1>0, <1>1, <3>1, <3>2, <3>4 DEF Log, Past, Typed
    <3> QED BY <3>3, <3>4
  <2> QED BY <1>0, <1>1, <2>1, <2>2 DEF Log, Ordered, Typed, Holding
<1>2. ASSUME NEW l \in Loggers, ReadLevel(l) \/ ReadMin(l) PROVE Ordered' /\ OneOrder'
  <2>1. Feeds' = Feeds /\ Written' = Written /\ OneOrder'
    BY <1>2, <1>q DEF ReadLevel, ReadMin
  <2>2. \A r : Past(r) => Past(r)'
    BY <1>0, <1>2, PastStays DEF ReadLevel, ReadMin, Holding
  <2> QED BY <1>0, <1>2, <2>1, <2>2, ZenonT(30) DEF ReadLevel, ReadMin, Ordered, Typed, Holding
<1>3. ASSUME NEW l \in Loggers, Lock(l) PROVE Ordered' /\ OneOrder'
  <2>1. Feeds' = Feeds /\ Written' = Written /\ OneOrder'
    BY <1>3, <1>q DEF Lock
  <2>2. \A r : Past(r) => Past(r)'
    BY <1>0, <1>3, PastStays DEF Lock, Holding
  <2>3. \A q \in Feeds : \A i \in DOMAIN q : q[i] # rec[l]
    BY <1>0, <1>3 DEF Lock, Ordered, Past, Holding
  <2>4. /\ \A s \in Subs : rec[l] \notin Elements(sent[s])
        /\ rec[l] \notin Elements(Written)
    BY <2>3 DEF Feeds, Elements
  <2> QED BY <1>0, <1>3, <2>1, <2>2, <2>3, <2>4 DEF Lock, Ordered, Typed, Holding, OnlyLast
<1>4. ASSUME NEW l \in Loggers, NEW s \in Subs, RangeNext(l, s) PROVE Ordered' /\ OneOrder'
  <2>1. Feeds' = Feeds /\ Written' = Written /\ OneOrder'
    BY <1>4, <1>q DEF RangeNext
  <2>2. CASE Wants(s, rec[l])
    <3>1. \A r : Past(r) => Past(r)'
      BY <1>0, <1>4, <2>2, PastStays DEF RangeNext, Holding
    <3>2. /\ lpc[l] = "range" /\ lpc' = [lpc EXCEPT ![l] = "send"] /\ rec' = rec
          /\ cur' = [cur EXCEPT ![l] = s] /\ visited' = [visited EXCEPT ![l] = @ \union {s}]
          /\ s \notin visited[l] /\ UNCHANGED <<sent, out, base>>
      BY <1>4, <2>2 DEF RangeNext
    <3>3. \A k \in Loggers : lpc'[k] = "send" =>
            cur'[k] \in visited'[k] /\ rec'[k] \notin Elements(sent'[cur'[k]])
      BY <1>0, <3>2 DEF Ordered, Typed
    <3>4. \A k \in Loggers : lpc'[k] \in {"range", "send"} =>
            \A u \in Subs \ visited'[k] : rec'[k] \notin Elements(sent'[u])
      BY <1>0, <3>2 DEF Ordered, Typed
    <3>5. \A k \in Loggers : /\ lpc'[k] \in Holding => lpc[k] \in Holding
                             /\ lpc'[k] \in {"range", "send", "base"} => lpc[k] \in {"range", "send", "base"}
      BY <1>0, <3>2 DEF Typed, Holding
    <3>6. ASSUME NEW q \in Feeds, NEW i \in DOMAIN q PROVE Past(q[i])'
      <4>1. Past(q[i])
        BY DEF Ordered
      <4> QED BY <3>1, <4>1
    <3>7. \A k \in Loggers : lpc'[k] \in Holding => \A q \in Feeds : OnlyLast(q, rec'[k])
      <4>1. rec' = rec
        BY <3>2
      <4>2. \A k \in Loggers : lpc[k] \in Holding => \A q \in Feeds : OnlyLast(q, rec[k])
        BY DEF Ordered
      <4>3. ASSUME NEW k \in Loggers, lpc'[k] \in Holding, NEW q \in Feeds PROVE OnlyLast(q, rec'[k])
        <5>1. OnlyLast(q, rec[k])
          BY <3>5, <4>2, <4>3
        <5> QED BY <4>1, <5>1
      <4> QED BY <4>3
    <3>8. \A k \in Loggers : lpc'[k] \in {"range", "send", "base"} => rec'[k] \notin Elements(Written)
      BY <3>2, <3>5 DEF Ordered
    <3>9. base' \in Nat /\ out' \in Seq([rec : Record, base : Nat]) /\ \A k \in Loggers : rec'[k].by = k
      BY <3>2 DEF Ordered
    <3> QED BY <2>1, <3>3, <3>4, <3>6, <3>7, <3>8, <3>9 DEF Ordered
  <2>3. CASE ~Wants(s, rec[l])
    <3>1. \A r : Past(r) => Past(r)'
      BY <1>4, <2>3 DEF RangeNext, Past
    <3> QED BY <1>0, <1>4, <2>1, <2>3, <3>1 DEF RangeNext, Ordered, Typed, Holding
  <2> QED BY <2>2, <2>3
<1>5. ASSUME NEW l \in Loggers, RangeDone(l) \/ Unlock(l) PROVE Ordered' /\ OneOrder'
  <2>1. Feeds' = Feeds /\ Written' = Written /\ OneOrder'
    BY <1>5, <1>q DEF RangeDone, Unlock
  <2>2. \A r : Past(r) => Past(r)'
    BY <1>0, <1>5, PastStays DEF RangeDone, Unlock, Holding
  <2> QED BY <1>0, <1>5, <2>1, <2>2, ZenonT(30) DEF RangeDone, Unlock, Ordered, Typed, Holding
<1>6. ASSUME NEW l \in Loggers, Send(l) PROVE Ordered' /\ OneOrder'
  <2> DEFINE c == cur[l]
             e == rec[l]
  <2>1. c \in open /\ c \in Subs /\ c \notin closed /\ e \in Record
    BY <1>0, <1>6 DEF Send, Locked, Typed
  <2>2. /\ lpc[l] = "send" /\ rec' = rec /\ lpc' = [lpc EXCEPT ![l] = "range"] /\ mu = l
        /\ UNCHANGED <<out, base, visited, cur>>
    BY <1>0, <1>6 DEF Send, Locked, Holding
  <2>3. CASE sent' = sent
    <3>1. Feeds' = Feeds /\ Written' = Written /\ OneOrder'
      BY <2>3, <2>2, <1>q
    <3>2. \A r : Past(r) => Past(r)'
      BY <1>0, <2>2, PastStays DEF Holding
    <3> QED BY <1>0, <2>3, <2>2, <3>1, <3>2 DEF Ordered, Typed, Holding
  <2>4. CASE sent' = [sent EXCEPT ![c] = Append(@, e)]
    <3>0. \A q \in Feeds : q \in Seq(Record)
      BY <1>0, FeedsType DEF Ordered
    <3>1. /\ Written' = Written /\ sent[c] \in Feeds /\ Written \in Feeds
          /\ \A t \in Subs : sent'[t] = (IF t = c THEN Append(sent[c], e) ELSE sent[t]) /\ sent[t] \in Feeds
      BY <1>0, <1>6, <2>1, <2>4 DEF Send, Feeds, Written, Typed
    <3>2. e \notin Elements(sent[c]) /\ \A q \in Feeds : OnlyLast(q, e) /\ q \in Seq(Record)
      <4>1. e \notin Elements(sent[c])
        BY <2>2 DEF Ordered
      <4>2. \A q \in Feeds : OnlyLast(q, e)
        BY <2>2 DEF Ordered, Holding
      <4> QED BY <3>0, <4>1, <4>2
    <3>3. \A q \in Feeds' : q \in Feeds \/ \E p \in Feeds : q = Append(p, e) /\ e \notin Elements(p)
      <4>1. \A q \in Feeds' : q = Written' \/ \E t \in Subs : q = sent'[t]
        BY DEF Feeds
      <4>2. ASSUME NEW t \in Subs
            PROVE  sent'[t] \in Feeds \/ \E p \in Feeds : sent'[t] = Append(p, e) /\ e \notin Elements(p)
        <5>1. CASE t = c
          <6>1. sent'[t] = Append(sent[c], e) /\ sent[c] \in Feeds
            BY <3>1, <5>1
          <6>2. e \notin Elements(sent[c])
            BY <3>2
          <6> HIDE DEF c, e
          <6> QED BY <6>1, <6>2, Zenon
        <5>2. CASE t # c
          BY <3>1, <5>2
        <5> QED BY <5>1, <5>2
      <4> QED BY <3>1, <4>1, <4>2
    <3>4. lpc[l] = "send" /\ rec' = rec /\ lpc' = [lpc EXCEPT ![l] = "range"] /\ mu = l
      BY <1>0, <1>6 DEF Send, Locked, Holding
    <3>5. /\ \A q \in Feeds' : \A i \in DOMAIN q : Past(q[i])'
          /\ \A k \in Loggers : lpc'[k] \in Holding => \A q \in Feeds' : OnlyLast(q, rec[k])
      BY <1>0, <3>3, <3>4, GrowsOrdered
    <3>6. \A k \in Loggers : lpc'[k] \in Holding => k = l
      BY <1>0, <3>4 DEF Locked, Holding, Typed
    <3>7. \A t \in Subs \ visited[l] : e \notin Elements(sent'[t])
      BY <1>0, <3>1, <3>4 DEF Ordered
    <3>8. Ordered'
      BY <1>0, <1>6, <3>1, <3>4, <3>5, <3>6, <3>7 DEF Send, Ordered, Typed, Holding
    <3>9. /\ SameOrder(Append(sent[c], e), Written) /\ SameOrder(Append(sent[c], e), Append(sent[c], e))
          /\ \A t \in Subs : /\ SameOrder(Append(sent[c], e), sent[t])
                             /\ SameOrder(sent[t], Append(sent[c], e))
      BY <2>1, <3>1, <3>2, AppendKeepsOrder DEF OneOrder
    <3>10. OneOrder'
      BY <2>1, <3>1, <3>9 DEF OneOrder
    <3> QED BY <3>8, <3>10
  <2> QED BY <1>6, <2>1, <2>3, <2>4 DEF Send
<1>7. ASSUME NEW l \in Loggers, WriteBase(l) PROVE Ordered' /\ OneOrder'
  <2> DEFINE e == rec[l]
  <2>1. e \in Record
    BY <1>0, <1>7 DEF WriteBase, Typed
  <2>2. CASE out' = out
    <3>1. Feeds' = Feeds /\ Written' = Written /\ OneOrder'
      BY <1>7, <2>2, <1>q DEF WriteBase
    <3>2. \A r : Past(r) => Past(r)'
      BY <1>0, <1>7, PastStays DEF WriteBase, Holding
    <3> QED BY <1>0, <1>7, <2>2, <3>1, <3>2 DEF WriteBase, Ordered, Typed, Holding
  <2>3. CASE out' = Append(out, [rec |-> e, base |-> base])
    <3>1. /\ Written' = Append(Written, e) /\ sent' = sent /\ Written \in Feeds
          /\ \A t \in Subs : sent[t] \in Feeds
      BY <1>7, <2>1, <2>3, WrittenGrows DEF WriteBase, Ordered, Feeds
    <3>2. e \notin Elements(Written) /\ \A q \in Feeds : OnlyLast(q, e) /\ q \in Seq(Record)
      BY <1>0, <1>7, FeedsType DEF WriteBase, Ordered, Holding
    <3>3. \A q \in Feeds' : q \in Feeds \/ \E p \in Feeds : q = Append(p, e) /\ e \notin Elements(p)
      BY <3>1, <3>2 DEF Feeds
    <3>4. lpc[l] = "base" /\ rec' = rec /\ lpc' = [lpc EXCEPT ![l] = "unlock"] /\ mu = l
      BY <1>0, <1>7 DEF WriteBase, Locked, Holding
    <3>5. /\ \A q \in Feeds' : \A i \in DOMAIN q : Past(q[i])'
          /\ \A k \in Loggers : lpc'[k] \in Holding => \A q \in Feeds' : OnlyLast(q, rec[k])
      BY <1>0, <3>3, <3>4, GrowsOrdered
    <3>6. \A k \in Loggers : lpc'[k] \in Holding => k = l
      BY <1>0, <3>4 DEF Locked, Holding, Typed
    <3>7. out' \in Seq([rec : Record, base : Nat]) /\ base' = base
      <4> DEFINE S == [rec : Record, base : Nat]
      <4>1. [rec |-> e, base |-> base] \in S /\ out \in Seq(S) /\ base' = base
        BY <1>7, <2>1 DEF WriteBase, Ordered
      <4> HIDE DEF S
      <4>2. out' \in Seq(S)
        BY <2>3, <4>1
      <4> QED BY <4>1, <4>2 DEF S
    <3>8. Ordered'
      BY <1>0, <1>7, <3>1, <3>4, <3>5, <3>6, <3>7 DEF WriteBase, Ordered, Typed, Holding
    <3>9. \A t \in Subs : SameOrder(sent[t], Append(Written, e))
      BY <2>1, <3>1, <3>2, AppendKeepsOrder DEF OneOrder
    <3>10. OneOrder'
      BY <3>1, <3>9 DEF OneOrder
    <3> QED BY <3>8, <3>10
  <2> QED BY <1>7, <2>2, <2>3 DEF WriteBase
<1>8. ASSUME UNCHANGED <<caller, sent, out, base>> \/ SetBase PROVE Ordered' /\ OneOrder'
  <2>1. UNCHANGED <<caller, sent, out>> /\ base' \in Nat
    BY <1>8 DEF SetBase, Ordered
  <2>2. Feeds' = Feeds /\ Written' = Written /\ OneOrder'
    BY <2>1, <1>q
  <2>3. \A r : Past(r) => Past(r)'
    BY <2>1 DEF Past
  <2> QED BY <2>1, <2>2, <2>3 DEF Ordered
<1>9. ASSUME NEW s \in Subs, Subscribe(s) \/ Close(s) \/ Receive(s)
      PROVE  UNCHANGED <<caller, sent, out, base>>
  BY <1>9 DEF Subscribe, Close, Receive
<1>10. ASSUME NEW v \in Levels, SetLevel(v) PROVE UNCHANGED <<caller, sent, out, base>>
  BY <1>10 DEF SetLevel
<1>11. CASE UNCHANGED vars
  BY <1>8, <1>11 DEF vars
<1> QED BY <1>1, <1>2, <1>3, <1>4, <1>5, <1>6, <1>7, <1>8, <1>9, <1>10, <1>11 DEF Next, HandleStep

(* Whatever two watchers, or a watcher and the log file, both have comes in  *)
(* the same order in both, for any number of goroutines that log at once and *)
(* however subscriptions come and go, since all are fed under one lock.      *)
THEOREM FanoutOneOrder == Spec => []OneOrder
<1>1. Spec => [](IInv /\ Ordered /\ OneOrder)
  <2>1. Init => IInv /\ Ordered /\ OneOrder
    BY InitIInv, InitOrdered
  <2>2. (IInv /\ Ordered /\ OneOrder) /\ [Next]_vars => (IInv /\ Ordered /\ OneOrder)'
    BY StepIInv, StepOrdered
  <2> QED BY <2>1, <2>2, PTL DEF Spec
<1> QED BY <1>1, PTL

-----------------------------------------------------------------------------
(* The rest of the type: what the channels hold, the bases and the levels.   *)

Numbers == 0 .. MaxBases

RestTyped ==
  /\ level \in Levels
  /\ fill  \in [Subs -> 0 .. SubBuffer]
  /\ base  \in Numbers
  /\ out   \in Seq([rec : Record, base : Numbers])
  /\ \A l \in Loggers : rec[l] \in Record \/ (rec[l].n = 0 /\ lpc[l] = "idle")
  /\ eff   \in [Loggers -> Levels \union {0}]
  /\ panicked \in BOOLEAN

LEMMA InitRest == Init => RestTyped
<1> SUFFICES ASSUME Init PROVE RestTyped
  OBVIOUS
<1>1. panicked = FALSE
  BY Zenon DEF Init
<1>2. panicked \in BOOLEAN
  BY ONLY <1>1
<1> QED BY <1>2, SubBufferNat, BoundsNat DEF Init, RestTyped, Numbers

LEMMA RestKept ==
  ASSUME RestTyped, UNCHANGED <<fill, base, out, rec, eff>>, level' \in Levels, panicked' \in BOOLEAN,
         \A l \in Loggers : lpc[l] = "idle" => rec[l] \in Record \/ lpc'[l] = "idle"
  PROVE  RestTyped'
BY DEF RestTyped

LEMMA StepRest == IInv /\ RestTyped /\ [Next]_vars => RestTyped'
<1> SUFFICES ASSUME IInv, RestTyped, [Next]_vars PROVE RestTyped'
  OBVIOUS
<1> USE DEF Goto, hub, feeds, bases, caller
<1>0. lpc \in [Loggers -> LoggerPC] /\ rec \in [Loggers -> Begun] /\ level \in Levels /\ panicked \in BOOLEAN
  BY DEF IInv, Typed, RestTyped
<1>1. ASSUME NEW l \in Loggers, NEW v \in Levels, NEW c \in Subs \union {Nobody}, Log(l, v, c)
      PROVE  RestTyped'
  <2>1. rec[l].n \in 0 .. MaxLogs /\ rec[l].n + 1 \in 1 .. MaxLogs
    BY <1>0, <1>1, BoundsNat DEF Log, Begun
  <2>2. rec'[l] \in Record
    BY <1>0, <1>1, <2>1 DEF Log, Record
  <2> QED BY <1>0, <1>1, <2>2 DEF Log, RestTyped
<1>2. ASSUME NEW l \in Loggers, ReadLevel(l) PROVE RestTyped'
  BY <1>0, <1>2 DEF ReadLevel, RestTyped
<1>3. ASSUME NEW l \in Loggers, ReadMin(l) PROVE RestTyped'
  BY <1>0, <1>3 DEF ReadMin, RestTyped
<1>4. ASSUME NEW l \in Loggers, Lock(l) PROVE RestTyped'
  BY <1>0, <1>4, RestKept DEF Lock
<1>5. ASSUME NEW l \in Loggers, NEW s \in Subs, RangeNext(l, s) PROVE RestTyped'
  BY <1>0, <1>5, RestKept DEF RangeNext
<1>6. ASSUME NEW l \in Loggers, RangeDone(l) PROVE RestTyped'
  BY <1>0, <1>6, RestKept DEF RangeDone
<1>7. ASSUME NEW l \in Loggers, Send(l) PROVE RestTyped'
  <2>1. cur[l] \in Subs /\ fill \in [Subs -> 0 .. SubBuffer]
    BY <1>7 DEF IInv, Typed, Locked, Send, RestTyped
  <2>2. fill' \in [Subs -> 0 .. SubBuffer]
    BY <1>7, <2>1, SubBufferNat DEF Send
  <2> QED BY <1>0, <1>7, <2>2 DEF Send, RestTyped
<1>8. ASSUME NEW l \in Loggers, WriteBase(l) PROVE RestTyped'
  <2>1. rec[l] \in Record
    BY <1>8 DEF IInv, Typed, WriteBase
  <2> DEFINE T == [rec : Record, base : Numbers]  e == [rec |-> rec[l], base |-> base]
  <2>2. e \in T /\ out \in Seq(T)
    BY <2>1 DEF RestTyped
  <2>3. out' = out \/ out' = Append(out, e)
    BY <1>8 DEF WriteBase
  <2> HIDE DEF T, e
  <2>4. out' \in Seq(T)
    BY <2>2, <2>3
  <2> QED BY <1>0, <1>8, <2>4 DEF WriteBase, RestTyped, T
<1>9. ASSUME NEW l \in Loggers, Unlock(l) PROVE RestTyped'
  BY <1>0, <1>9, RestKept DEF Unlock
<1>10. ASSUME NEW s \in Subs, Subscribe(s) \/ Close(s) PROVE RestTyped'
  BY <1>0, <1>10, RestKept DEF Subscribe, Close
<1>11. ASSUME NEW s \in Subs, Receive(s) PROVE RestTyped'
  <2>1. fill' \in [Subs -> 0 .. SubBuffer]
    BY <1>11, SubBufferNat DEF Receive, RestTyped
  <2> QED BY <1>0, <1>11, <2>1 DEF Receive, RestTyped
<1>12. ASSUME NEW v \in Levels, SetLevel(v) PROVE RestTyped'
  BY <1>0, <1>12, RestKept DEF SetLevel
<1>13. CASE SetBase
  BY <1>0, <1>13, BoundsNat DEF SetBase, RestTyped, Numbers
<1>14. CASE UNCHANGED vars
  BY <1>0, <1>14, RestKept DEF vars
<1> QED
  BY <1>1, <1>2, <1>3, <1>4, <1>5, <1>6, <1>7, <1>8, <1>9, <1>10, <1>11, <1>12, <1>13, <1>14 DEF Next, HandleStep

(* A channel never holds more than it has room for, a log call that is under *)
(* way has a record, and no other variable leaves its type (TypeOK;          *)
(* logtee.go:36-92).                                                         *)
THEOREM FanoutTypeOK == Spec => []TypeOK
<1>1. IInv /\ RestTyped => TypeOK
  BY DEF IInv, Typed, Locked, RestTyped, TypeOK, Numbers
<1>2. Init => IInv /\ RestTyped
  BY InitIInv, InitRest
<1>3. IInv /\ RestTyped /\ [Next]_vars => (IInv /\ RestTyped)'
  BY StepIInv, StepRest
<1> QED BY <1>1, <1>2, <1>3, PTL DEF Spec

=============================================================================
