------------------------------ MODULE Metrics -------------------------------
(* The metrics registry (kettlingar/metrics.go): a public and a private      *)
(* store, each with its own lock, which handlers of calls count and sample   *)
(* into and the application publishes in, and a scrape that copies one store *)
(* after the other and renders them as OpenMetrics.  A histogram holds its   *)
(* sum in slot 1 and cumulative buckets from slot 2: slot i counts samples   *)
(* of at most 2^(i+3), the last slot all of them.  (Slot 0 is a timestamp.)  *)
EXTENDS Naturals, FiniteSets, Sequences, FiniteSetsExt

CONSTANTS
  Callers,      \* goroutines that serve calls
  PublicLabels, PrivateLabels, \* label sets (method and status) of calls
  Durations,    \* how long a call may take
  CallFamily, TimeFamily,      \* rpc_calls_total and rpc_calls_time_us
  Settings,     \* [store, kind, key] the application publishes
  Brace,        \* the code of "{" among the characters of a name
  LastSlot,     \* the last slot of a histogram (19 in the code)
  MaxCalls      \* bound: calls served

Stores == {"public", "private"}
Labels == PublicLabels \union PrivateLabels
Kinds  == {"info", "counter", "gauge", "histogram"}

ASSUME Parameters ==
  /\ LastSlot \in Nat /\ LastSlot > 2 /\ MaxCalls \in Nat
  /\ Durations \subseteq Nat
  /\ Labels \subseteq Nat \ {0} /\ PublicLabels \intersect PrivateLabels = {}
  /\ \A s \in Settings : s.store \in Stores /\ s.kind \in {"info", "gauge"}

(* A family is what comes before the first brace of a name. *)
Families == {CallFamily, TimeFamily} \union {s.key.family : s \in Settings}

ASSUME FamiliesCut ==
  /\ Brace \in Nat
  /\ \A f \in Families : f \in Seq(Nat) /\ \A i \in DOMAIN f : f[i] # Brace
  /\ \A s \in Settings : s.key = [family |-> s.key.family, labels |-> s.key.labels] /\ s.key.labels \in Nat

VARIABLES
  series,       \* store -> kind -> key -> value
  pc,           \* what a caller does next
  label,        \* the labels of its call
  spc,          \* where the scrape is
  authed,       \* whether it came with the secret
  view,         \* the copies it made: store -> kind -> key -> value
  text,         \* the keys it rendered, in order
  timed,        \* history: (labels, duration) -> samples taken
  served        \* calls counted so far

calls  == <<pc, label, timed, served>>
scrape == <<spc, authed, view, text>>
vars   == <<series, calls, scrape>>

(* A key is a family (a name, character by character) and its labels; 0      *)
(* stands for none, and the text of other labels sorts by their number.      *)
CallKey(l) == [family |-> CallFamily, labels |-> l]
TimeKey(l) == [family |-> TimeFamily, labels |-> l]

Slots      == 1 .. LastSlot
Empty      == [kind \in Kinds |-> [k \in {} |-> 0]]
StoreOf(l) == IF l \in PublicLabels THEN "public" ELSE "private"

Put(f, k, v) == [x \in DOMAIN f \union {k} |-> IF x = k THEN v ELSE f[x]]
Get(f, k, v) == IF k \in DOMAIN f THEN f[k] ELSE v

-----------------------------------------------------------------------------
(* Histograms. *)

(* ceil(log2 v) of a positive number: how many powers of two are below it,   *)
(* as far as there are slots.                                                *)
CeilLog2(v) == Cardinality({n \in 0 .. LastSlot + 3 : 2 ^ n < v})

(* The lowest slot a sample counts in.  Of zero the logarithm is minus       *)
(* infinity; as an integer less 3 that wraps round to a large number.        *)
Bucket(v) ==
  IF v = 0 \/ CeilLog2(v) > LastSlot + 3 THEN LastSlot
  ELSE IF CeilLog2(v) < 5 THEN 2 ELSE CeilLog2(v) - 3

SampledFrom(h, v, slot) ==
  [i \in Slots |-> IF i = 1 THEN h[1] + v ELSE IF i >= slot THEN h[i] + 1 ELSE h[i]]

(* Mutant of Sampled: a sample counts in the slot below as well, of what is  *)
(* smaller.                                                                  *)
SampledBelow(h, v) == SampledFrom(h, v, IF Bucket(v) > 2 THEN Bucket(v) - 1 ELSE 2)

Sampled(h, v) == SampledFrom(h, v, Bucket(v))

ShownIf(h, whole) ==
  LET shown[i \in 2 .. LastSlot] ==
        h[i] # 0 /\ ~(i # LastSlot /\ h[i] = h[LastSlot] /\ h[i] = h[i - 1]
                        /\ (whole \/ \E j \in 2 .. i - 1 : shown[j]))
  IN  {i \in 2 .. LastSlot : shown[i]}

(* Mutant of Shown: slot 2 is compared with the one before it, the sum. *)
ShownSum(h) == ShownIf(h, TRUE)

(* renderHistogram: empty buckets are left out, and those that repeat the    *)
(* bucket before when that already had every sample; but not the first one   *)
(* shown.                                                                    *)
Shown(h) == ShownIf(h, FALSE)

-----------------------------------------------------------------------------
(* Keys in the order of their text, as slices.Sort puts them. *)

Text(k) == IF k.labels = 0 THEN k.family ELSE k.family \o <<Brace, k.labels>>

Before(a, b) ==
  \E i \in 1 .. Len(b) :
    /\ Len(a) >= i - 1 /\ SubSeq(a, 1, i - 1) = SubSeq(b, 1, i - 1)
    /\ Len(a) = i - 1 \/ a[i] < b[i]

(* Mutant of Sorted: sorted by labels first. *)
SortedByLabels(keys) ==
  [i \in 1 .. Cardinality(keys) |->
     CHOOSE k \in keys :
       i = 1 + Cardinality({x \in keys : Before(<<x.labels>> \o Text(x), <<k.labels>> \o Text(k))})]

Sorted(keys) ==
  [i \in 1 .. Cardinality(keys) |->
     CHOOSE k \in keys : i = 1 + Cardinality({x \in keys : Before(Text(x), Text(k))})]

-----------------------------------------------------------------------------

Init ==
  /\ series = [s \in Stores |-> Empty]
  /\ pc = [c \in Callers |-> "count"]
  /\ label = [c \in Callers |-> 0]
  /\ spc = "public" /\ authed \in BOOLEAN
  /\ view = [s \in Stores |-> Empty]
  /\ text = <<>>
  /\ timed = [x \in Labels \X Durations |-> 0]
  /\ served = 0

(* MetricsCount, one critical section of the store ... *)
Count(c, l) ==
  /\ pc[c] = "count" /\ served < MaxCalls
  /\ series' = [series EXCEPT ![StoreOf(l)].counter = Put(@, CallKey(l), Get(@, CallKey(l), 0) + 1)]
  /\ label' = [label EXCEPT ![c] = l]
  /\ pc' = [pc EXCEPT ![c] = "sample"]
  /\ served' = served + 1
  /\ UNCHANGED <<timed, scrape>>

(* ... and MetricsSample, the next. *)
Sample(c, d) ==
  /\ pc[c] = "sample"
  /\ LET k == TimeKey(label[c]) IN
     series' = [series EXCEPT ![StoreOf(label[c])].histogram =
                  Put(@, k, Sampled(Get(@, k, [i \in Slots |-> 0]), d))]
  /\ timed' = [timed EXCEPT ![<<label[c], d>>] = @ + 1]
  /\ pc' = [pc EXCEPT ![c] = "count"]
  /\ UNCHANGED <<label, served, scrape>>

(* MetricsGuage and MetricsInfo: the value published replaces the one before. *)
Publish(s) ==
  /\ series' = [series EXCEPT ![s.store][s.kind] = Put(@, s.key, 1)]
  /\ UNCHANGED <<calls, scrape>>

-----------------------------------------------------------------------------
(* PublicApiMetrics and RenderOpenMetrics. *)

(* Mutant of Snapshots: the counters are copied before the lock is taken. *)
SnapshotsTorn(s) ==
  {[series[s] EXCEPT !.counter = [k \in DOMAIN @ |-> IF n < @[k] THEN n ELSE @[k]]] : n \in 0 .. MaxCalls}

(* snapshot(): what a copy of a store holds, made under its lock. *)
Snapshots(s) == {series[s]}

CopyStore(s, next) ==
  /\ spc = s
  /\ \E v \in Snapshots(s) : view' = [view EXCEPT ![s] = v]
  /\ spc' = next
  /\ UNCHANGED <<series, calls, authed, text>>

(* The public store, and with the secret the private one. *)
CopyPublic  == CopyStore("public", IF authed THEN "private" ELSE "render")
CopyPrivate == CopyStore("private", "render")

Keys(kind) == DOMAIN view["public"][kind] \union DOMAIN view["private"][kind]

(* A private series replaces a public one of the same key. *)
Value(kind, k) == Get(view["private"][kind], k, Get(view["public"][kind], k, 0))

Render ==
  /\ spc = "render"
  /\ text' = Sorted(UNION {Keys(kind) : kind \in Kinds})
  /\ spc' = "done"
  /\ UNCHANGED <<series, calls, authed, view>>

(* Where the HELP and TYPE of a family are written. *)
Heads == {i \in DOMAIN text : i = 1 \/ text[i - 1].family # text[i].family}

Next ==
  \/ \E c \in Callers : (\E l \in Labels : Count(c, l)) \/ (\E d \in Durations : Sample(c, d))
  \/ \E s \in Settings : Publish(s)
  \/ CopyPublic \/ CopyPrivate \/ Render

Spec == Init /\ [][Next]_vars

-----------------------------------------------------------------------------
(* Properties. *)

AllKeys == {CallKey(l) : l \in Labels} \union {TimeKey(l) : l \in Labels} \union {s.key : s \in Settings}

MapOK(f, values) == DOMAIN f \subseteq AllKeys /\ \A k \in DOMAIN f : f[k] \in values

TypeOK ==
  /\ \A f \in {series, view} : \A s \in Stores :
       /\ MapOK(f[s].info, {1}) /\ MapOK(f[s].gauge, {1})
       /\ MapOK(f[s].counter, 1 .. MaxCalls) /\ MapOK(f[s].histogram, [Slots -> Nat])
  /\ pc \in [Callers -> {"count", "sample"}]
  /\ label \in [Callers -> Labels \union {0}]
  /\ spc \in {"public", "private", "render", "done"} /\ authed \in BOOLEAN
  /\ timed \in [Labels \X Durations -> 0 .. MaxCalls]
  /\ served \in 0 .. MaxCalls

(* Each bucket holds exactly the samples up to its bound, whatever calls are *)
(* mixed (MetricsSample), the last one all of them, and slot 1 their sum; a  *)
(* call of no measurable length counts in the last one only.                 *)
BucketsExact ==
  \A l \in Labels :
    LET h     == Get(series[StoreOf(l)].histogram, TimeKey(l), [i \in Slots |-> 0])
        taken == [d \in Durations |-> timed[<<l, d>>]]
        time  == [d \in Durations |-> d * timed[<<l, d>>]]
    IN  /\ \A i \in 2 .. LastSlot - 1 :
             h[i] = SumFunctionOnSet(taken, {d \in Durations : 0 < d /\ d <= 2 ^ (i + 3)})
        /\ h[LastSlot] = SumFunction(taken)
        /\ h[1] = SumFunction(time)

(* A scrape never sees more calls timed than calls made, although the two    *)
(* are recorded one after the other and read while calls go on.              *)
ScrapeConsistent ==
  \A l \in Labels :
    TimeKey(l) \in Keys("histogram") =>
      Value("histogram", TimeKey(l))[LastSlot] <= (IF CallKey(l) \in Keys("counter")
                                                   THEN Value("counter", CallKey(l)) ELSE 0)

(* What renderHistogram leaves out of a histogram loses nothing: a reader    *)
(* who takes the bucket shown before it, or zero, has every bucket.          *)
SkippedIsImplied ==
  \A k \in Keys("histogram") :
    LET h == Value("histogram", k)
    IN  \A i \in 2 .. LastSlot :
          h[i] = LET below == {j \in Shown(h) : j <= i}
                 IN  IF below = {} THEN 0 ELSE h[CHOOSE j \in below : \A x \in below : x <= j]

(* Each family is announced once: nothing comes between its series, unless   *)
(* it has one without labels, which the text of another family may follow.   *)
OneHeadPerFamily ==
  \A i, j \in Heads :
    i < j /\ text[i].family = text[j].family =>
      \E k \in DOMAIN text : text[k] = [family |-> text[i].family, labels |-> 0]

=============================================================================
