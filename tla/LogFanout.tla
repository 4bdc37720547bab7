----------------------------- MODULE LogFanout ------------------------------
(* The fan-out log handler (logtee/logtee.go): goroutines log records, each  *)
(* reading the level gates without a lock and then delivering under hub.mu   *)
(* to every matching subscription and to the base handler, while             *)
(* subscriptions come and go, the level changes and the base is swapped.     *)
EXTENDS Naturals, Sequences

CONSTANTS
  Loggers,      \* goroutines that log
  Subs,         \* subscriptions that may be made
  Levels,       \* levels of records and subscriptions, and of the global gate
  Sentinel,     \* noSubSentinel: above every level
  SubBuffer,    \* capacity of a subscription's channel
  MaxLogs,      \* bound: records each goroutine logs
  MaxBases      \* bound: bases installed one after the other

ASSUME LevelsBelowSentinel ==
  Sentinel \in Nat /\ \A l \in Levels : l \in Nat /\ l < Sentinel

ASSUME SubBufferNat == SubBuffer \in Nat

ASSUME BoundsNat == MaxLogs \in Nat /\ MaxBases \in Nat

(* The holder of hub.mu and the sink of a context: "nobody" when there is    *)
(* none, which is no goroutine and no subscription.                          *)
Nobody == "nobody"

ASSUME NobodyIsNobody == Nobody \notin Loggers \union Subs

VARIABLES
  mu,           \* who holds hub.mu
  level,        \* hub.level, atomic
  minSub,       \* hub.minSub, atomic
  open,         \* keys of hub.subs
  closed,       \* subscriptions whose channel is closed
  sub,          \* what a subscription asked for: [level, all]
  fill,         \* records waiting in a subscription's channel
  sent,         \* history: records sent to a subscription's channel
  dropped,      \* records counted by a subscription's dropped counter
  base,         \* hub.base: the number of the base installed last
  out,          \* history: what the bases were given, [rec, base]
  lpc,          \* where a goroutine is in its log call
  rec,          \* the record it is logging: [by, n, level, sink]
  eff,          \* `eff` of Enabled
  visited,      \* subscriptions its range loop has been through
  cur,          \* the subscription it is about to send to
  owed,         \* history: records begun while a subscription that wants them was open
  panicked      \* a send on, or a close of, a closed channel

hub    == <<minSub, open, closed, sub>>
feeds  == <<fill, sent, dropped>>
bases  == <<base, out>>
caller == <<lpc, rec, eff, visited, cur>>
vars   == <<mu, level, minSub, open, closed, sub, fill, sent, dropped, base, out,
            lpc, rec, eff, visited, cur, owed, panicked>>

Record    == [by : Loggers, n : 1 .. MaxLogs, level : Levels, sink : Subs \union {Nobody}]
LoggerPC  == {"idle", "level", "min", "lock", "range", "send", "base", "unlock"}
Holding   == {"range", "send", "base", "unlock"}

(* `if r.Level < s.level` and `if !s.all && s != sink`, negated. *)
Wants(s, r) == r.level >= sub[s].level /\ (sub[s].all \/ r.sink = s)

-----------------------------------------------------------------------------

Init ==
  /\ mu = Nobody
  /\ level \in Levels
  /\ minSub = Sentinel
  /\ open = {} /\ closed = {}
  /\ sub \in [Subs -> [level : Levels, all : BOOLEAN]]
  /\ fill = [s \in Subs |-> 0]
  /\ sent = [s \in Subs |-> <<>>]
  /\ dropped = [s \in Subs |-> {}]
  /\ base = 0 /\ out = <<>>
  /\ lpc = [l \in Loggers |-> "idle"]
  /\ rec = [l \in Loggers |-> [by |-> l, n |-> 0, level |-> 0, sink |-> Nobody]]
  /\ eff = [l \in Loggers |-> 0]
  /\ visited = [l \in Loggers |-> {}]
  /\ cur = [l \in Loggers |-> Nobody]
  /\ owed = [s \in Subs |-> {}]
  /\ panicked = FALSE

Goto(l, p) == lpc' = [lpc EXCEPT ![l] = p]

(* recomputeMinLocked: the lowest level asked for by a subscription of S, or *)
(* the sentinel.                                                             *)
RecomputeMin(S) ==
  \E m \in {Sentinel} \union {sub[s].level : s \in S} :
    /\ \A s \in S : m <= sub[s].level
    /\ m = Sentinel => S = {}
    /\ minSub' = m

-----------------------------------------------------------------------------
(* A log call: slog asks Enabled, then calls Handle.  A local variable that  *)
(* goes out of scope takes its first value again.                            *)

(* The call begins, with a context that may carry a sink: a subscription     *)
(* made by SubscribeContext, perhaps closed by now.                          *)
Log(l, v, c) ==
  /\ lpc[l] = "idle" /\ rec[l].n < MaxLogs
  /\ c \in {Nobody} \union {s \in open \union closed : ~sub[s].all}
  /\ rec' = [rec EXCEPT ![l] = [by |-> l, n |-> @.n + 1, level |-> v, sink |-> c]]
  /\ owed' = [s \in Subs |-> IF s \in open /\ Wants(s, rec'[l])
                             THEN owed[s] \union {rec'[l]} ELSE owed[s]]
  /\ Goto(l, "level")
  /\ UNCHANGED <<mu, level, hub, feeds, bases, eff, visited, cur, panicked>>

(* Enabled reads the global level ... *)
ReadLevel(l) ==
  /\ lpc[l] = "level"
  /\ eff' = [eff EXCEPT ![l] = level]
  /\ Goto(l, "min")
  /\ UNCHANGED <<mu, level, hub, feeds, bases, rec, visited, cur, owed, panicked>>

(* ... and then the lowest level any subscriber wants. *)
ReadMin(l) ==
  /\ lpc[l] = "min"
  /\ Goto(l, IF rec[l].level >= eff[l] \/ rec[l].level >= minSub THEN "lock" ELSE "idle")
  /\ eff' = [eff EXCEPT ![l] = 0]
  /\ UNCHANGED <<mu, level, hub, feeds, bases, rec, visited, cur, owed, panicked>>

Lock(l) ==
  /\ lpc[l] = "lock" /\ mu = Nobody
  /\ mu' = l
  /\ Goto(l, "range")
  /\ UNCHANGED <<level, hub, feeds, bases, rec, eff, visited, cur, owed, panicked>>

(* The range over hub.subs yields a subscription, in any order. *)
RangeNext(l, s) ==
  /\ lpc[l] = "range" /\ s \in open \ visited[l]
  /\ visited' = [visited EXCEPT ![l] = @ \union {s}]
  /\ IF Wants(s, rec[l])
     THEN cur' = [cur EXCEPT ![l] = s] /\ Goto(l, "send")
     ELSE UNCHANGED <<cur, lpc>>
  /\ UNCHANGED <<mu, level, hub, feeds, bases, rec, eff, owed, panicked>>

RangeDone(l) ==
  /\ lpc[l] = "range" /\ open \subseteq visited[l]
  /\ visited' = [visited EXCEPT ![l] = {}]
  /\ cur' = [cur EXCEPT ![l] = Nobody]
  /\ Goto(l, "base")
  /\ UNCHANGED <<mu, level, hub, feeds, bases, rec, eff, owed, panicked>>

(* Mutant of Send: it waits for the watcher to make room. *)
SendBlocking(l) ==
  /\ lpc[l] = "send" /\ fill[cur[l]] < SubBuffer
  /\ fill' = [fill EXCEPT ![cur[l]] = @ + 1]
  /\ sent' = [sent EXCEPT ![cur[l]] = Append(@, rec[l])]
  /\ Goto(l, "range")
  /\ UNCHANGED <<mu, level, hub, dropped, bases, rec, eff, visited, cur, owed, panicked>>

(* The select with a default: sent if there is room, else counted dropped.   *)
(* A send on a closed channel panics, even in a select.                      *)
Send(l) ==
  /\ lpc[l] = "send"
  /\ LET s == cur[l] IN
     IF s \in closed
     THEN panicked' = TRUE /\ UNCHANGED feeds
     ELSE /\ UNCHANGED panicked
          /\ IF fill[s] < SubBuffer
             THEN /\ fill' = [fill EXCEPT ![s] = @ + 1]
                  /\ sent' = [sent EXCEPT ![s] = Append(@, rec[l])]
                  /\ UNCHANGED dropped
             ELSE /\ dropped' = [dropped EXCEPT ![s] = @ \union {rec[l]}]
                  /\ UNCHANGED <<fill, sent>>
  /\ Goto(l, "range")
  /\ UNCHANGED <<mu, level, hub, bases, rec, eff, visited, cur, owed>>

(* Mutant of WriteBase: hub.mu is released before the base is written. *)
WriteBaseUnlocked(l) ==
  /\ \/ /\ lpc[l] = "base" /\ mu = l
        /\ mu' = Nobody /\ UNCHANGED <<lpc, out>>
     \/ /\ lpc[l] = "base" /\ mu # l
        /\ out' = IF rec[l].level >= level THEN Append(out, [rec |-> rec[l], base |-> base]) ELSE out
        /\ Goto(l, "idle") /\ UNCHANGED mu
  /\ UNCHANGED <<level, hub, feeds, base, rec, eff, visited, cur, owed, panicked>>

(* The base gets the record if it is at or above the global level by now. *)
WriteBase(l) ==
  /\ lpc[l] = "base"
  /\ out' = IF rec[l].level >= level THEN Append(out, [rec |-> rec[l], base |-> base]) ELSE out
  /\ Goto(l, "unlock")
  /\ UNCHANGED <<mu, level, hub, feeds, base, rec, eff, visited, cur, owed, panicked>>

Unlock(l) ==
  /\ lpc[l] = "unlock"
  /\ mu' = Nobody
  /\ Goto(l, "idle")
  /\ UNCHANGED <<level, hub, feeds, bases, rec, eff, visited, cur, owed, panicked>>

-----------------------------------------------------------------------------
(* Subscriptions and reconfiguration: each is one critical section. *)

(* Mutant of Subscribe: minSub is left as it was. *)
SubscribeNoMin(s) ==
  /\ mu = Nobody /\ s \notin open \union closed
  /\ open' = open \union {s}
  /\ UNCHANGED <<mu, level, minSub, closed, sub, feeds, bases, caller, owed, panicked>>

(* hub.add, for Subscribe and SubscribeContext. *)
Subscribe(s) ==
  /\ mu = Nobody /\ s \notin open \union closed
  /\ open' = open \union {s}
  /\ RecomputeMin(open')
  /\ UNCHANGED <<mu, level, closed, sub, feeds, bases, caller, owed, panicked>>

(* Mutant of Close: it does not take hub.mu. *)
CloseUnlocked(s) ==
  /\ s \in open
  /\ open' = open \ {s}
  /\ RecomputeMin(open')
  /\ closed' = closed \union {s}
  /\ UNCHANGED <<mu, level, sub, feeds, bases, caller, owed, panicked>>

(* Close, which may be called more than once. *)
Close(s) ==
  /\ mu = Nobody /\ s \in open \union closed
  /\ IF s \in open
     THEN /\ open' = open \ {s}
          /\ RecomputeMin(open')
          /\ panicked' = (panicked \/ s \in closed)
          /\ closed' = closed \union {s}
     ELSE UNCHANGED <<open, minSub, panicked, closed>>
  /\ UNCHANGED <<mu, level, sub, feeds, bases, caller, owed>>

(* The watcher takes a record from C. *)
Receive(s) ==
  /\ fill[s] > 0
  /\ fill' = [fill EXCEPT ![s] = @ - 1]
  /\ UNCHANGED <<mu, level, hub, sent, dropped, bases, caller, owed, panicked>>

SetLevel(v) ==
  /\ level' = v
  /\ UNCHANGED <<mu, hub, feeds, bases, caller, owed, panicked>>

SetBase ==
  /\ mu = Nobody /\ base < MaxBases
  /\ base' = base + 1
  /\ UNCHANGED <<mu, level, hub, feeds, out, caller, owed, panicked>>

-----------------------------------------------------------------------------

HandleStep(l) ==
  \/ \E s \in Subs : RangeNext(l, s)
  \/ RangeDone(l) \/ Send(l) \/ WriteBase(l) \/ Unlock(l)

Next ==
  \/ \E l \in Loggers :
       \/ \E v \in Levels, c \in Subs \union {Nobody} : Log(l, v, c)
       \/ ReadLevel(l) \/ ReadMin(l) \/ Lock(l) \/ HandleStep(l)
  \/ \E s \in Subs : Subscribe(s) \/ Close(s) \/ Receive(s)
  \/ \E v \in Levels : SetLevel(v)
  \/ SetBase

Spec == Init /\ [][Next]_vars

(* A goroutine in a log call runs on, and sync.Mutex starves no waiter (it   *)
(* hands itself over after a millisecond).  Watchers need not read.          *)
Fairness ==
  \A l \in Loggers :
    WF_vars(ReadLevel(l)) /\ WF_vars(ReadMin(l)) /\ SF_vars(Lock(l)) /\ WF_vars(HandleStep(l))

FairSpec == Spec /\ Fairness

-----------------------------------------------------------------------------
(* Properties. *)

TypeOK ==
  /\ mu       \in Loggers \union {Nobody}
  /\ level    \in Levels
  /\ minSub   \in Levels \union {Sentinel}
  /\ open     \subseteq Subs
  /\ closed   \subseteq Subs
  /\ sub      \in [Subs -> [level : Levels, all : BOOLEAN]]
  /\ fill     \in [Subs -> 0 .. SubBuffer]
  /\ sent     \in [Subs -> Seq(Record)]
  /\ dropped  \in [Subs -> SUBSET Record]
  /\ base     \in 0 .. MaxBases
  /\ out      \in Seq([rec : Record, base : 0 .. MaxBases])
  /\ lpc      \in [Loggers -> LoggerPC]
  /\ \A l \in Loggers : rec[l] \in Record \/ (rec[l].n = 0 /\ lpc[l] = "idle")
  /\ eff      \in [Loggers -> Levels \union {0}]
  /\ visited  \in [Loggers -> SUBSET Subs]
  /\ cur      \in [Loggers -> Subs \union {Nobody}]
  /\ owed     \in [Subs -> SUBSET Record]
  /\ panicked \in BOOLEAN

(* "Sends and Close are mutually excluded by hub.mu, so no send races the    *)
(* close" (logtee.go:210), and a second Close does not close C again: no     *)
(* log call panics on a channel.                                             *)
NoChannelPanic == ~panicked

Elements(q) == {q[i] : i \in DOMAIN q}
InCall(r)   == \E l \in Loggers : rec[l] = r /\ lpc[l] # "idle"

(* A record whose log call began after a subscription that wants it was made *)
(* has been sent to it or counted as dropped when the call returns, although *)
(* Enabled reads its two gates without the lock.                             *)
NoSilentLoss ==
  \A s \in open : \A r \in owed[s] :
    InCall(r) \/ r \in Elements(sent[s]) \/ r \in dropped[s]

(* Everybody sees records in one order: whatever two feeds (or a feed and    *)
(* the bases) have in common comes in the same order in both.                *)
SameOrder(p, q) ==
  \A i, j \in DOMAIN p : \A k, m \in DOMAIN q :
    p[i] = q[k] /\ p[j] = q[m] /\ i < j => k < m

Written == [i \in DOMAIN out |-> out[i].rec]

OneOrder ==
  \A s \in Subs : SameOrder(sent[s], Written) /\ \A t \in Subs : SameOrder(sent[s], sent[t])

(* "Logging never blocks on a slow watcher" (logtee.go:20): every log call   *)
(* returns, even if nobody reads a subscription.                             *)
LoggingReturns == \A l \in Loggers : lpc[l] # "idle" ~> lpc[l] = "idle"

=============================================================================
