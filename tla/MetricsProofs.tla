---------------------------- MODULE MetricsProofs ---------------------------
(* Proofs about Metrics, for any goroutines that serve calls, any labels,    *)
(* durations and settings and any number of slots: a scrape never shows more *)
(* calls timed than calls made, what the rendering leaves out of a histogram *)
(* can be told from what it shows, and every slot counts what it should (of  *)
(* finitely many durations); and a family is announced once.                 *)
EXTENDS Metrics, TLAPS, FiniteSetTheorems, WellFoundedInduction

(* What a store, or a copy of one, says of the calls with labels l. *)
Made(store, l)  == Get(store.counter, CallKey(l), 0)
Timed(store, l) == IF TimeKey(l) \in DOMAIN store.histogram
                   THEN store.histogram[TimeKey(l)][LastSlot] ELSE 0

(* Both stores have all kinds of series. *)
Shaped(f) ==
  /\ f = [s \in Stores |-> f[s]]
  /\ \A s \in Stores : f[s] = [kind \in Kinds |-> f[s][kind]]

(* A store holds the calls that belong in it, none timed before it is made. *)
StoreOK(s, store) ==
  /\ \A k \in DOMAIN store.counter   : \E l \in Labels : StoreOf(l) = s /\ k = CallKey(l)
  /\ \A k \in DOMAIN store.histogram : \E l \in Labels : StoreOf(l) = s /\ k = TimeKey(l)
  /\ \A l \in Labels : StoreOf(l) = s =>
       /\ Made(store, l) \in Nat /\ Timed(store, l) \in Nat
       /\ Timed(store, l) <= Made(store, l)

(* Calls that are made and not yet timed. *)
Between(l) == {c \in Callers : pc[c] = "sample" /\ label[c] = l}

(* However many goroutines there are, finitely many are there at a time.     *)
Busy == {c \in Callers : pc[c] = "sample"}

IInv ==
  /\ IsFiniteSet(Busy)
  /\ Shaped(series) /\ Shaped(view)
  /\ pc \in [Callers -> {"count", "sample"}] /\ label \in [Callers -> Labels \union {0}]
  /\ \A c \in Callers : pc[c] = "sample" => label[c] \in Labels
  /\ \A s \in Stores : StoreOK(s, series[s]) /\ StoreOK(s, view[s])
  /\ \A l \in Labels :
       LET store == series[StoreOf(l)]
       IN  Made(store, l) = Timed(store, l) + Cardinality(Between(l))

-----------------------------------------------------------------------------

LEMMA StoreOfType == \A l \in Labels : StoreOf(l) \in Stores
  BY DEF StoreOf, Stores

LEMMA KeysDiffer ==
  ASSUME NEW l, NEW m
  PROVE  (CallKey(l) = CallKey(m) <=> l = m) /\ (TimeKey(l) = TimeKey(m) <=> l = m)
  BY DEF CallKey, TimeKey

(* One kind of series of one store changes. *)
With(f, s, kind, v) == [f EXCEPT ![s][kind] = v]

LEMMA WithChanges ==
  ASSUME NEW f, Shaped(f), NEW s \in Stores, NEW kind \in Kinds, NEW v
  PROVE  /\ Shaped(With(f, s, kind, v))
         /\ \A t \in Stores, k \in Kinds :
              With(f, s, kind, v)[t][k] = IF t = s /\ k = kind THEN v ELSE f[t][k]
<1> DEFINE g == With(f, s, kind, v)
<1>1. \A t \in Stores : g[t] = IF t = s THEN [f[s] EXCEPT ![kind] = v] ELSE f[t]
  BY DEF Shaped, With
<1>2. \A t \in Stores, k \in Kinds : g[t][k] = IF t = s /\ k = kind THEN v ELSE f[t][k]
  BY <1>1 DEF Shaped
<1>3. g = [t \in Stores |-> g[t]]
  BY DEF Shaped, With
<1>4. \A t \in Stores : g[t] = [k \in Kinds |-> g[t][k]]
  BY <1>1 DEF Shaped
<1> HIDE DEF g
<1>5. Shaped(g)
  BY <1>3, <1>4 DEF Shaped
<1> QED BY <1>2, <1>5 DEF g

(* A sample always counts in the last slot. *)
LEMMA BucketInRange ==
  ASSUME NEW d \in Nat
  PROVE  Bucket(d) \in 2 .. LastSlot
<1> DEFINE Powers == {n \in 0 .. LastSlot + 3 : 2 ^ n < d}
<1>1. IsFiniteSet(0 .. LastSlot + 3)
  BY Parameters, FS_Interval
<1>2. Powers \subseteq 0 .. LastSlot + 3
  OBVIOUS
<1> HIDE DEF Powers
<1>3. Cardinality(Powers) \in Nat
  BY <1>1, <1>2, FS_Subset, FS_CardinalityType
<1>4. CeilLog2(d) \in Nat
  BY <1>3 DEF CeilLog2, Powers
<1> HIDE DEF CeilLog2
<1> QED BY <1>4, Parameters DEF Bucket

LEMMA LastSlotCountsAll ==
  ASSUME NEW h, NEW d \in Durations
  PROVE  Sampled(h, d)[LastSlot] = h[LastSlot] + 1
<1>1. Bucket(d) \in 2 .. LastSlot
  BY BucketInRange, Parameters
<1> QED BY <1>1, Parameters DEF Sampled, SampledFrom, Slots

-----------------------------------------------------------------------------

LEMMA InitIInv == Init => IInv
<1> SUFFICES ASSUME Init PROVE IInv
  OBVIOUS
<1>1. Shaped(series) /\ Shaped(view)
  BY DEF Init, Shaped, Empty
<1>2. \A s \in Stores : series[s].counter = [k \in {} |-> 0] /\ series[s].histogram = [k \in {} |-> 0]
  BY DEF Init, Empty, Kinds
<1>3. \A s \in Stores : StoreOK(s, series[s])
  BY <1>2 DEF StoreOK, Made, Timed, Get
<1>4. view = series
  BY DEF Init
<1>5. \A l \in Labels : Between(l) = {}
  BY DEF Init, Between
<1>6. \A l \in Labels : Made(series[StoreOf(l)], l) = 0 /\ Timed(series[StoreOf(l)], l) = 0
  BY <1>2, StoreOfType DEF Made, Timed, Get
<1>7. \A l \in Labels :
        Made(series[StoreOf(l)], l) = Timed(series[StoreOf(l)], l) + Cardinality(Between(l))
  BY <1>5, <1>6, FS_EmptySet
<1>8. /\ pc \in [Callers -> {"count", "sample"}] /\ label \in [Callers -> Labels \union {0}]
      /\ \A c \in Callers : pc[c] # "sample"
  BY DEF Init
<1>9. IsFiniteSet(Busy)
  <2>1. Busy = {}
    BY <1>8 DEF Busy
  <2> QED BY <2>1, FS_EmptySet
<1> QED BY <1>1, <1>3, <1>4, <1>7, <1>8, <1>9 DEF IInv

(* What is said of a store depends on its counters and histograms alone. *)
LEMMA BetweenFinite ==
  ASSUME IInv, NEW l
  PROVE  IsFiniteSet(Between(l)) /\ Cardinality(Between(l)) \in Nat
<1>1. Between(l) \subseteq Busy /\ IsFiniteSet(Busy)
  BY DEF Between, Busy, IInv
<1> QED BY <1>1, FS_Subset, FS_CardinalityType

LEMMA SameCalls ==
  ASSUME NEW a, NEW b, a.counter = b.counter, a.histogram = b.histogram
  PROVE  /\ \A l : Made(a, l) = Made(b, l) /\ Timed(a, l) = Timed(b, l)
         /\ \A s : StoreOK(s, a) => StoreOK(s, b)
  BY DEF Made, Timed, StoreOK

(* A step that records nothing of a call in the stores. *)
LEMMA QuietStep ==
  ASSUME IInv, Shaped(series'), UNCHANGED <<pc, label, view>>,
         \A s \in Stores : /\ series'[s].counter = series[s].counter
                           /\ series'[s].histogram = series[s].histogram
  PROVE  IInv'
<1>1. \A s \in Stores : StoreOK(s, series[s])'
  BY SameCalls DEF IInv
<1>2. \A l \in Labels : Made(series[StoreOf(l)], l)' = Timed(series[StoreOf(l)], l)' + Cardinality(Between(l))'
  <2>1. \A l \in Labels : /\ Made(series'[StoreOf(l)], l) = Made(series[StoreOf(l)], l)
                          /\ Timed(series'[StoreOf(l)], l) = Timed(series[StoreOf(l)], l)
    BY StoreOfType, SameCalls
  <2>2. \A l \in Labels : Between(l)' = Between(l)
    BY DEF Between
  <2> QED BY <2>1, <2>2 DEF IInv
<1>3. IsFiniteSet(Busy)'
  BY DEF IInv, Busy
<1> QED BY <1>1, <1>2, <1>3 DEF IInv

LEMMA CountStep ==
  ASSUME IInv, NEW c \in Callers, NEW l \in Labels, Count(c, l)
  PROVE  IInv'
<1> DEFINE s == StoreOf(l)
           old == series[s].counter
           new == Put(old, CallKey(l), Get(old, CallKey(l), 0) + 1)
<1>1. s \in Stores /\ "counter" \in Kinds
  BY StoreOfType DEF Kinds
<1>2. series' = With(series, s, "counter", new)
  BY DEF Count, With
<1> HIDE DEF s, new
<1>3. /\ Shaped(series')
      /\ \A t \in Stores, k \in Kinds :
           series'[t][k] = IF t = s /\ k = "counter" THEN new ELSE series[t][k]
  <2>1. Shaped(series)
    BY DEF IInv
  <2> QED BY <1>1, <1>2, <2>1, WithChanges
<1>4. /\ series'[s].counter = new /\ series'[s].histogram = series[s].histogram
      /\ \A t \in Stores : t # s => /\ series'[t].counter = series[t].counter
                                    /\ series'[t].histogram = series[t].histogram
  BY <1>1, <1>3 DEF Kinds
<1>5. /\ \A m \in Labels : Timed(series'[s], m) = Timed(series[s], m)
      /\ \A m \in Labels : m # l => Made(series'[s], m) = Made(series[s], m)
      /\ Made(series'[s], l) = Made(series[s], l) + 1
      /\ DOMAIN new = DOMAIN old \union {CallKey(l)}
  BY <1>4, KeysDiffer DEF Timed, Made, Get, Put, new
<1>6. StoreOK(s, series[s])'
  <2>1. StoreOK(s, series[s])
    BY <1>1 DEF IInv
  <2>2. /\ \A k \in DOMAIN series'[s].counter : \E m \in Labels : StoreOf(m) = s /\ k = CallKey(m)
        /\ \A k \in DOMAIN series'[s].histogram : \E m \in Labels : StoreOf(m) = s /\ k = TimeKey(m)
    BY <1>4, <1>5, <2>1 DEF StoreOK, s
  <2>3. ASSUME NEW m \in Labels, StoreOf(m) = s
        PROVE  /\ Made(series'[s], m) \in Nat /\ Timed(series'[s], m) \in Nat
               /\ Timed(series'[s], m) <= Made(series'[s], m)
    BY <1>5, <2>1, <2>3 DEF StoreOK
  <2> QED BY <2>2, <2>3 DEF StoreOK
<1>7. \A t \in Stores : StoreOK(t, series[t])' /\ StoreOK(t, view[t])'
  <2>1. \A t \in Stores : t # s => StoreOK(t, series'[t])
    BY <1>4, SameCalls DEF IInv
  <2>2. view' = view
    BY DEF Count, scrape
  <2> QED BY <1>6, <2>1, <2>2 DEF IInv
<1>8. /\ pc[c] = "count" /\ pc' = [pc EXCEPT ![c] = "sample"] /\ label' = [label EXCEPT ![c] = l]
      /\ view' = view
  BY DEF Count, scrape
<1>9. /\ Between(l)' = Between(l) \union {c} /\ c \notin Between(l)
      /\ \A m \in Labels : m # l => Between(m)' = Between(m)
  BY <1>8 DEF Between, IInv
<1>10. Cardinality(Between(l)') = Cardinality(Between(l)) + 1
  <2>1. IsFiniteSet(Between(l))
    BY BetweenFinite
  <2> QED BY <1>9, <2>1, FS_AddElement
<1>11. ASSUME NEW m \in Labels
       PROVE  Made(series'[StoreOf(m)], m) = Timed(series'[StoreOf(m)], m) + Cardinality(Between(m)')
  <2>1. Made(series[StoreOf(m)], m) = Timed(series[StoreOf(m)], m) + Cardinality(Between(m))
    BY DEF IInv
  <2>2. IsFiniteSet(Between(m)) /\ Cardinality(Between(m)) \in Nat
    BY BetweenFinite
  <2>3. Timed(series[StoreOf(m)], m) \in Nat
    BY StoreOfType DEF IInv, StoreOK
  <2>4. CASE m = l
    BY <1>5, <1>10, <2>1, <2>2, <2>3, <2>4 DEF s
  <2>5. CASE m # l /\ StoreOf(m) = s
    BY <1>5, <1>9, <2>1, <2>5
  <2>6. CASE m # l /\ StoreOf(m) # s
    <3>1. /\ Made(series'[StoreOf(m)], m) = Made(series[StoreOf(m)], m)
          /\ Timed(series'[StoreOf(m)], m) = Timed(series[StoreOf(m)], m)
      BY <1>4, <2>6, StoreOfType, SameCalls
    <3> QED BY <1>9, <2>1, <2>6, <3>1
  <2> QED BY <2>4, <2>5, <2>6
<1>12. /\ pc' \in [Callers -> {"count", "sample"}] /\ label' \in [Callers -> Labels \union {0}]
       /\ \A d \in Callers : pc'[d] = "sample" => label'[d] \in Labels
  BY <1>8 DEF IInv
<1>13. IsFiniteSet(Busy')
  <2>1. Busy' = Busy \union {c} /\ IsFiniteSet(Busy)
    BY <1>8 DEF Busy, IInv
  <2> QED BY <2>1, FS_AddElement
<1> QED BY <1>3, <1>7, <1>8, <1>11, <1>12, <1>13 DEF IInv

LEMMA SampleStep ==
  ASSUME IInv, NEW c \in Callers, NEW d \in Durations, Sample(c, d),
         NEW l \in Labels, label[c] = l
  PROVE  IInv'
<1> DEFINE s == StoreOf(l)
           old == series[s].histogram
           new == Put(old, TimeKey(l), Sampled(Get(old, TimeKey(l), [i \in Slots |-> 0]), d))
<1>1. s \in Stores /\ "histogram" \in Kinds
  BY StoreOfType DEF Kinds
<1>2. series' = With(series, s, "histogram", new)
  BY DEF Sample, With
<1> HIDE DEF s, new
<1>3. /\ Shaped(series')
      /\ \A t \in Stores, k \in Kinds :
           series'[t][k] = IF t = s /\ k = "histogram" THEN new ELSE series[t][k]
  <2>1. Shaped(series)
    BY DEF IInv
  <2> QED BY <1>1, <1>2, <2>1, WithChanges
<1>4. /\ series'[s].histogram = new /\ series'[s].counter = series[s].counter
      /\ \A t \in Stores : t # s => /\ series'[t].counter = series[t].counter
                                    /\ series'[t].histogram = series[t].histogram
  BY <1>1, <1>3 DEF Kinds
<1>5. /\ \A m \in Labels : Made(series'[s], m) = Made(series[s], m)
      /\ \A m \in Labels : m # l => Timed(series'[s], m) = Timed(series[s], m)
      /\ Timed(series'[s], l) = Timed(series[s], l) + 1
      /\ DOMAIN new = DOMAIN old \union {TimeKey(l)}
  <2>1. DOMAIN new = DOMAIN old \union {TimeKey(l)}
    BY DEF Put, new
  <2>2. \A m \in Labels : Made(series'[s], m) = Made(series[s], m)
    BY <1>4 DEF Made
  <2>3. \A m \in Labels : m # l => Timed(series'[s], m) = Timed(series[s], m)
    BY <1>4, <2>1, KeysDiffer DEF Timed, Put, new
  <2>4. Timed(series'[s], l) = Timed(series[s], l) + 1
    <3>1. LastSlot \in Slots
      BY Parameters DEF Slots
    <3>2. new[TimeKey(l)] = Sampled(Get(old, TimeKey(l), [i \in Slots |-> 0]), d)
      BY DEF Put, new
    <3>3. new[TimeKey(l)][LastSlot] = Get(old, TimeKey(l), [i \in Slots |-> 0])[LastSlot] + 1
      BY <3>2, LastSlotCountsAll
    <3> QED BY <1>4, <2>1, <3>1, <3>3 DEF Timed, Get
  <2> QED BY <2>1, <2>2, <2>3, <2>4
<1>6. /\ pc[c] = "sample" /\ pc' = [pc EXCEPT ![c] = "count"] /\ label' = label /\ view' = view
  BY DEF Sample, scrape
<1>7. /\ Between(l)' = Between(l) \ {c} /\ c \in Between(l)
      /\ \A m \in Labels : m # l => Between(m)' = Between(m)
  BY <1>6 DEF Between, IInv
<1>8. \A m \in Labels : IsFiniteSet(Between(m)) /\ Cardinality(Between(m)) \in Nat
  BY BetweenFinite
<1>9. Cardinality(Between(l)') = Cardinality(Between(l)) - 1 /\ Cardinality(Between(l)) > 0
  BY <1>1, <1>7, <1>8, FS_RemoveElement, FS_EmptySet
<1>10. ASSUME NEW m \in Labels
       PROVE  Made(series'[StoreOf(m)], m) = Timed(series'[StoreOf(m)], m) + Cardinality(Between(m)')
  <2>1. Made(series[StoreOf(m)], m) = Timed(series[StoreOf(m)], m) + Cardinality(Between(m))
    BY DEF IInv
  <2>2. Timed(series[StoreOf(m)], m) \in Nat
    BY StoreOfType DEF IInv, StoreOK
  <2>3. CASE m = l
    <3>1. StoreOf(m) = s
      BY <2>3 DEF s
    <3>2. /\ Made(series'[s], m) = Made(series[s], m)
          /\ Timed(series'[s], m) = Timed(series[s], m) + 1
          /\ Cardinality(Between(m)') = Cardinality(Between(m)) - 1
      BY <1>5, <1>9, <2>3
    <3> QED BY <1>8, <2>1, <2>2, <3>1, <3>2
  <2>4. CASE m # l /\ StoreOf(m) = s
    BY <1>5, <1>7, <2>1, <2>4
  <2>5. CASE m # l /\ StoreOf(m) # s
    <3>1. /\ Made(series'[StoreOf(m)], m) = Made(series[StoreOf(m)], m)
          /\ Timed(series'[StoreOf(m)], m) = Timed(series[StoreOf(m)], m)
      BY <1>4, <2>5, StoreOfType, SameCalls
    <3> QED BY <1>7, <2>1, <2>5, <3>1
  <2> QED BY <2>3, <2>4, <2>5
<1>11. StoreOK(s, series[s])'
  <2>1. StoreOK(s, series[s])
    BY <1>1 DEF IInv
  <2>2. /\ \A k \in DOMAIN series'[s].counter : \E m \in Labels : StoreOf(m) = s /\ k = CallKey(m)
        /\ \A k \in DOMAIN series'[s].histogram : \E m \in Labels : StoreOf(m) = s /\ k = TimeKey(m)
    BY <1>1, <1>4, <1>5, <2>1 DEF StoreOK, s
  <2>3. ASSUME NEW m \in Labels, StoreOf(m) = s
        PROVE  /\ Made(series'[s], m) \in Nat /\ Timed(series'[s], m) \in Nat
               /\ Timed(series'[s], m) <= Made(series'[s], m)
    <3>1. Made(series'[s], m) \in Nat /\ Timed(series'[s], m) \in Nat
      BY <1>5, <2>1, <2>3 DEF StoreOK
    <3>2. Made(series'[s], m) = Timed(series'[s], m) + Cardinality(Between(m)')
      BY <1>10, <2>3
    <3>3. Cardinality(Between(m)') \in Nat
      <4>1. CASE m = l
        BY <1>8, <1>9, <4>1
      <4>2. CASE m # l
        BY <1>7, <1>8, <4>2
      <4> QED BY <4>1, <4>2
    <3> QED BY <3>1, <3>2, <3>3
  <2> HIDE DEF Made, Timed
  <2> QED BY <2>2, <2>3 DEF StoreOK
<1>12. \A t \in Stores : StoreOK(t, series[t])' /\ StoreOK(t, view[t])'
  <2>1. \A t \in Stores : t # s => StoreOK(t, series'[t])
    BY <1>4, SameCalls DEF IInv
  <2> QED BY <1>6, <1>11, <2>1 DEF IInv
<1>13. /\ pc' \in [Callers -> {"count", "sample"}] /\ label' \in [Callers -> Labels \union {0}]
       /\ \A e \in Callers : pc'[e] = "sample" => label'[e] \in Labels
  BY <1>6 DEF IInv
<1>14. IsFiniteSet(Busy')
  <2>1. Busy' \subseteq Busy /\ IsFiniteSet(Busy)
    BY <1>6 DEF Busy, IInv
  <2> QED BY <2>1, FS_Subset
<1> QED BY <1>3, <1>6, <1>10, <1>12, <1>13, <1>14 DEF IInv

LEMMA StepIInv == IInv /\ [Next]_vars => IInv'
<1> SUFFICES ASSUME IInv, [Next]_vars PROVE IInv'
  OBVIOUS
<1>1. ASSUME NEW s \in Settings, Publish(s) PROVE IInv'
  <2>1. s.store \in Stores /\ s.kind \in {"info", "gauge"} /\ s.kind \in Kinds
    BY Parameters DEF Kinds
  <2>2. series' = With(series, s.store, s.kind, Put(series[s.store][s.kind], s.key, 1))
    BY <1>1 DEF Publish, With
  <2>3. /\ Shaped(series')
        /\ \A t \in Stores, k \in Kinds :
             series'[t][k] = IF t = s.store /\ k = s.kind THEN Put(series[s.store][s.kind], s.key, 1)
                             ELSE series[t][k]
    <3>1. Shaped(series)
      BY DEF IInv
    <3> QED BY <2>1, <2>2, <3>1, WithChanges
  <2>4. \A t \in Stores : /\ series'[t].counter = series[t].counter
                           /\ series'[t].histogram = series[t].histogram
    BY <2>1, <2>3 DEF Kinds
  <2> QED BY <1>1, <2>3, <2>4, QuietStep DEF Publish, calls, scrape
<1>2. ASSUME NEW s \in Stores, NEW next, CopyStore(s, next) PROVE IInv'
  <2>1. view' = [view EXCEPT ![s] = series[s]] /\ UNCHANGED <<series, pc, label>>
    BY <1>2 DEF CopyStore, Snapshots, calls
  <2>2. \A t \in Stores : view'[t] = IF t = s THEN series[t] ELSE view[t]
    BY <2>1 DEF IInv, Shaped
  <2>3. Shaped(view)'
    BY <2>1, <2>2 DEF IInv, Shaped
  <2>4. \A t \in Stores : StoreOK(t, view'[t])
    BY <2>2 DEF IInv
  <2>5. /\ series' = series /\ pc' = pc /\ label' = label
        /\ Busy' = Busy /\ \A l \in Labels : Between(l)' = Between(l)
    BY <2>1 DEF Between, Busy
  <2> QED BY <2>3, <2>4, <2>5 DEF IInv
<1>3. CASE CopyPublic \/ CopyPrivate
  BY <1>2, <1>3 DEF CopyPublic, CopyPrivate, Stores
<1>4. CASE Render \/ UNCHANGED vars
  BY <1>4, QuietStep DEF Render, vars, calls, scrape, IInv, Shaped
<1>5. ASSUME NEW c \in Callers, NEW d \in Durations, Sample(c, d) PROVE IInv'
  BY <1>5, SampleStep DEF Sample, IInv
<1> QED BY <1>1, <1>3, <1>4, <1>5, CountStep DEF Next

-----------------------------------------------------------------------------

(* Calls are counted and then timed, under one lock after the other, and a   *)
(* scrape copies one store after the other: still none of the histograms it  *)
(* renders, public or private, has more calls than the counter beside it.    *)
THEOREM MetricsScrapeConsistent == Spec => []ScrapeConsistent
<1>1. IInv => ScrapeConsistent
  <2> SUFFICES ASSUME IInv, NEW l \in Labels, TimeKey(l) \in Keys("histogram")
               PROVE  Value("histogram", TimeKey(l))[LastSlot]
                        <= (IF CallKey(l) \in Keys("counter") THEN Value("counter", CallKey(l)) ELSE 0)
    BY DEF ScrapeConsistent
  <2> DEFINE s == StoreOf(l)
  <2>1. s \in Stores /\ StoreOK(s, view[s])
    BY StoreOfType DEF IInv
  <2>2. \A t \in Stores : t # s => TimeKey(l) \notin DOMAIN view[t].histogram
                                   /\ CallKey(l) \notin DOMAIN view[t].counter
    BY KeysDiffer DEF IInv, StoreOK
  <2>3. Value("histogram", TimeKey(l))[LastSlot] = Timed(view[s], l)
    BY <2>1, <2>2 DEF Value, Keys, Get, Timed, Stores
  <2>4. (IF CallKey(l) \in Keys("counter") THEN Value("counter", CallKey(l)) ELSE 0) = Made(view[s], l)
    BY <2>1, <2>2 DEF Value, Keys, Get, Made, Stores
  <2> QED BY <2>1, <2>3, <2>4 DEF StoreOK
<1>2. Spec => []IInv
  BY InitIInv, StepIInv, PTL DEF Spec
<1> QED BY <1>1, <1>2, PTL

-----------------------------------------------------------------------------
(* What a rendering leaves out.  Shown runs through the slots and asks, for  *)
(* each, whether one before it was shown.                                    *)

Less == OpToRel(<, Nat)

LEMMA LeastNumber ==
  ASSUME NEW T, T \subseteq Nat, T # {}
  PROVE  \E x \in T : \A y \in T : x <= y
<1>1. \E x \in T : \A y \in T : ~(<<y, x>> \in Less)
  BY NatLessThanWellFounded, WFMin DEF Less
<1>2. PICK x \in T : \A y \in T : ~(<<y, x>> \in Less)
  BY <1>1
<1>3. \A y \in Nat : <<y, x>> \in Less <=> y < x
  BY <1>2 DEF OpToRel, Less
<1>4. ASSUME NEW y \in T PROVE x <= y
  <2>1. x \in Nat /\ y \in Nat /\ ~(y < x)
    BY <1>2, <1>3
  <2> QED BY <2>1
<1> QED BY <1>2, <1>4

(* Slot i is shown, if one before it was or not. *)
Shows(h, i, earlier) ==
  h[i] # 0 /\ ~(i # LastSlot /\ h[i] = h[LastSlot] /\ h[i] = h[i - 1] /\ (FALSE \/ earlier))

Run(f, h, n) == f = [i \in 2 .. n |-> Shows(h, i, \E j \in 2 .. i - 1 : f[j])]

LEMMA Runs ==
  ASSUME NEW h, NEW n \in Nat
  PROVE  \E f : Run(f, h, n)
<1> DEFINE T == {k \in Nat : ~ \E f : Run(f, h, k)}
<1> SUFFICES ASSUME T # {} PROVE FALSE
  OBVIOUS
<1>1. PICK k \in T : \A y \in T : k <= y
  BY LeastNumber
<1>2. k # 0
  <2>1. Run([i \in 2 .. 0 |-> TRUE], h, 0)
    BY DEF Run
  <2> QED BY <2>1
<1>3. k - 1 \in Nat /\ k - 1 \notin T
  BY <1>1, <1>2
<1>4. PICK f : Run(f, h, k - 1)
  BY <1>3
<1> DEFINE g == [i \in 2 .. k |-> IF i = k THEN Shows(h, k, \E j \in 2 .. k - 1 : f[j]) ELSE f[i]]
<1>5. ASSUME NEW i \in 2 .. k
      PROVE  g[i] = Shows(h, i, \E j \in 2 .. i - 1 : g[j])
  <2>1. \A j \in 2 .. i - 1 : j # k /\ j \in 2 .. k /\ g[j] = f[j]
    <3> SUFFICES ASSUME NEW j \in 2 .. i - 1 PROVE j # k /\ j \in 2 .. k /\ g[j] = f[j]
      OBVIOUS
    <3>1. k \in Nat
      BY <1>1
    <3>2. j # k /\ j \in 2 .. k
      BY <3>1
    <3> QED BY <3>2
  <2>2. (\E j \in 2 .. i - 1 : g[j]) = \E j \in 2 .. i - 1 : f[j]
    BY <2>1
  <2>3. CASE i = k
    BY <2>2, <2>3
  <2>4. CASE i # k
    <3>1. i \in 2 .. k - 1 /\ g[i] = f[i]
      BY <1>1, <2>4
    <3>2. f[i] = Shows(h, i, \E j \in 2 .. i - 1 : f[j])
      BY <1>4, <3>1 DEF Run
    <3> QED BY <2>2, <3>1, <3>2
  <2> QED BY <2>3, <2>4
<1>6. Run(g, h, k)
  BY <1>5 DEF Run
<1> QED BY <1>1, <1>6

LEMMA ShownSlots ==
  ASSUME NEW h
  PROVE  /\ Shown(h) \subseteq 2 .. LastSlot
         /\ \A i \in 2 .. LastSlot :
              i \in Shown(h) <=> Shows(h, i, \E j \in 2 .. i - 1 : j \in Shown(h))
<1> DEFINE f == CHOOSE g : Run(g, h, LastSlot)
<1>1. Run(f, h, LastSlot)
  BY Runs, Parameters
<1>2. Shown(h) = {i \in 2 .. LastSlot : f[i]}
  BY DEF Shown, ShownIf, Run, Shows
<1> HIDE DEF f
<1>3. \A i \in 2 .. LastSlot : f[i] = Shows(h, i, \E j \in 2 .. i - 1 : f[j])
  BY <1>1 DEF Run
<1>4. ASSUME NEW i \in 2 .. LastSlot
      PROVE  (\E j \in 2 .. i - 1 : f[j]) = \E j \in 2 .. i - 1 : j \in Shown(h)
  <2>1. \A j \in 2 .. i - 1 : j \in 2 .. LastSlot
    BY Parameters
  <2> QED BY <1>2, <2>1
<1> QED BY <1>2, <1>3, <1>4

(* A histogram whose buckets are cumulative.                                 *)
Cumulative(h) == \A i, j \in 2 .. LastSlot : i <= j => h[i] <= h[j]
Histograms    == {h \in [Slots -> Nat] : Cumulative(h)}

(* What a reader who takes the bucket shown before slot i, or zero, has.     *)
Recovered(h, i) ==
  LET below == {j \in Shown(h) : j <= i}
  IN  IF below = {} THEN 0 ELSE h[CHOOSE j \in below : \A x \in below : x <= j]

LEMMA RecoversAll ==
  ASSUME NEW h \in Histograms, NEW i \in 2 .. LastSlot
  PROVE  h[i] = Recovered(h, i)
<1> DEFINE T == {k \in 2 .. LastSlot : h[k] # Recovered(h, k)}
           below(k) == {j \in Shown(h) : j <= k}
<1> SUFFICES ASSUME T # {} PROVE FALSE
  OBVIOUS
<1>0. LastSlot \in Nat /\ Shown(h) \subseteq 2 .. LastSlot
  BY Parameters, ShownSlots
<1>1. PICK k \in T : \A y \in T : k <= y
  <2>1. T \subseteq Nat
    BY <1>0
  <2> HIDE DEF T
  <2> QED BY <2>1, LeastNumber
<1> HIDE DEF T
<1>2. k \in 2 .. LastSlot /\ h[k] # Recovered(h, k)
  BY DEF T
<1>3. CASE k \in Shown(h)
  <2>1. k \in below(k) /\ \A x \in below(k) : x <= k
    BY <1>0, <1>2, <1>3
  <2>2. \A j \in below(k) : (\A x \in below(k) : x <= j) => j = k
    BY <1>0, <1>2, <1>3
  <2>3. (CHOOSE j \in below(k) : \A x \in below(k) : x <= j) = k
    <3> HIDE DEF below
    <3> QED BY <2>1, <2>2
  <2> QED BY <1>2, <2>1, <2>3 DEF Recovered
<1>4. CASE k \notin Shown(h)
  <2>1. ~Shows(h, k, \E j \in 2 .. k - 1 : j \in Shown(h))
    BY <1>2, <1>4, ShownSlots
  <2>2. CASE h[k] = 0
    <3>1. ASSUME NEW j \in below(k) PROVE FALSE
      <4>1. j \in 2 .. LastSlot /\ j <= k /\ j \in Shown(h)
        BY <1>0, <3>1
      <4>2. h \in [Slots -> Nat] /\ j \in Slots /\ h[j] <= h[k]
        BY <1>0, <1>2, <4>1 DEF Histograms, Cumulative, Slots
      <4>3. h[j] = 0
        BY <2>2, <4>2
      <4>4. Shows(h, j, \E x \in 2 .. j - 1 : x \in Shown(h))
        BY <4>1, ShownSlots
      <4> QED BY <4>3, <4>4 DEF Shows
    <3> QED BY <1>2, <2>2, <3>1 DEF Recovered
  <2>3. CASE h[k] # 0
    <3>1. h[k] = h[k - 1] /\ \E j \in 2 .. k - 1 : j \in Shown(h)
      BY <2>1, <2>3 DEF Shows
    <3>2. k - 1 \in 2 .. LastSlot
      BY <1>0, <1>2, <3>1
    <3>3. k - 1 \notin T
      BY <1>0, <1>1, <1>2
    <3>4. h[k - 1] = Recovered(h, k - 1)
      BY <3>2, <3>3 DEF T
    <3>5. below(k) = below(k - 1)
      BY <1>0, <1>2, <1>4
    <3> QED BY <1>2, <3>1, <3>4, <3>5 DEF Recovered
  <2> QED BY <2>2, <2>3
<1> QED BY <1>3, <1>4

(* A sample counts in its bucket and in every one after it. *)
LEMMA SampledIsCumulative ==
  ASSUME NEW h \in Histograms, NEW d \in Nat
  PROVE  Sampled(h, d) \in Histograms
<1>1. Bucket(d) \in 2 .. LastSlot /\ LastSlot \in Nat
  BY BucketInRange, Parameters
<1>2. h \in [Slots -> Nat] /\ Cumulative(h)
  BY DEF Histograms
<1> DEFINE g == Sampled(h, d)
<1>3. g \in [Slots -> Nat]
  BY <1>1, <1>2, Parameters DEF Sampled, SampledFrom, Slots
<1>4. \A i \in 2 .. LastSlot : g[i] = IF i >= Bucket(d) THEN h[i] + 1 ELSE h[i]
  BY <1>1 DEF Sampled, SampledFrom, Slots
<1>5. \A i \in 2 .. LastSlot : h[i] \in Nat
  BY <1>2 DEF Slots
<1> HIDE DEF g
<1>6. Cumulative(g)
  <2> SUFFICES ASSUME NEW i \in 2 .. LastSlot, NEW j \in 2 .. LastSlot, i <= j PROVE g[i] <= g[j]
    BY DEF Cumulative
  <2>1. h[i] <= h[j] /\ h[i] \in Nat /\ h[j] \in Nat
    BY <1>2, <1>5 DEF Cumulative
  <2>2. CASE i >= Bucket(d)
    <3>1. j >= Bucket(d)
      BY <1>1, <2>2
    <3> QED BY <1>4, <2>1, <2>2, <3>1
  <2>3. CASE ~(i >= Bucket(d))
    BY <1>4, <2>1, <2>3
  <2> QED BY <2>2, <2>3
<1> QED BY <1>3, <1>6 DEF Histograms, g

(* The histograms of the stores, and of the copies a scrape made. *)
Recorded(f) ==
  Shaped(f) /\ \A s \in Stores : \A k \in DOMAIN f[s].histogram : f[s].histogram[k] \in Histograms

HInv == Recorded(series) /\ Recorded(view)

LEMMA InitHInv == Init => HInv
<1> SUFFICES ASSUME Init PROVE HInv
  OBVIOUS
<1>1. Shaped(series) /\ view = series
  BY DEF Init, Shaped, Empty
<1>2. \A s \in Stores : series[s].histogram = [k \in {} |-> 0]
  BY DEF Init, Empty, Kinds
<1> QED BY <1>1, <1>2 DEF HInv, Recorded

LEMMA StepHInv == HInv /\ [Next]_vars => HInv'
<1> SUFFICES ASSUME HInv, [Next]_vars PROVE HInv'
  OBVIOUS
<1>0. Recorded(series) /\ Recorded(view) /\ Shaped(series) /\ Shaped(view)
  BY DEF HInv, Recorded
<1>1. ASSUME NEW s \in Stores, NEW kind \in Kinds \ {"histogram"}, NEW v,
             series' = With(series, s, kind, v), UNCHANGED view
      PROVE  HInv'
  <2>1. /\ Shaped(series')
        /\ \A t \in Stores : series'[t]["histogram"] = series[t]["histogram"]
    BY <1>0, <1>1, WithChanges DEF Kinds
  <2> QED BY <1>0, <1>1, <2>1 DEF HInv, Recorded
<1>2. ASSUME NEW c \in Callers, NEW l \in Labels, Count(c, l) PROVE HInv'
  <2>1. PICK v : series' = With(series, StoreOf(l), "counter", v)
    BY <1>2 DEF Count, With
  <2> QED BY <1>1, <1>2, <2>1, StoreOfType DEF Count, scrape, Kinds
<1>3. ASSUME NEW s \in Settings, Publish(s) PROVE HInv'
  <2>1. s.store \in Stores /\ s.kind \in Kinds \ {"histogram"}
    BY Parameters DEF Kinds
  <2>2. PICK v : series' = With(series, s.store, s.kind, v)
    BY <1>3 DEF Publish, With
  <2> QED BY <1>1, <1>3, <2>1, <2>2 DEF Publish, scrape
<1>4. ASSUME NEW c \in Callers, NEW d \in Durations, Sample(c, d) PROVE HInv'
  <2> DEFINE s    == StoreOf(label[c])
             k    == TimeKey(label[c])
             old  == series[s].histogram
             h    == Get(old, k, [i \in Slots |-> 0])
             new  == Put(old, k, Sampled(h, d))
  <2>1. s \in Stores /\ "histogram" \in Kinds
    BY DEF StoreOf, Stores, Kinds
  <2>2. h \in Histograms
    <3>1. [i \in Slots |-> 0] \in Histograms
      BY DEF Histograms, Cumulative, Slots
    <3> QED BY <1>0, <2>1, <3>1 DEF Recorded, Get
  <2>3. Sampled(h, d) \in Histograms
    <3> HIDE DEF h
    <3> QED BY <2>2, SampledIsCumulative, Parameters
  <2>4. series' = With(series, s, "histogram", new) /\ view' = view
    BY <1>4 DEF Sample, With, scrape
  <2>5. \A x \in DOMAIN new : new[x] \in Histograms
    <3> HIDE DEF h, k
    <3>1. \A x \in DOMAIN old : old[x] \in Histograms
      BY <1>0, <2>1 DEF Recorded
    <3> QED BY <2>3, <3>1 DEF Put
  <2> HIDE DEF new, s
  <2>6. /\ Shaped(series')
        /\ \A t \in Stores : series'[t]["histogram"] = IF t = s THEN new ELSE series[t]["histogram"]
    BY <1>0, <2>1, <2>4, WithChanges
  <2> QED BY <1>0, <2>4, <2>5, <2>6 DEF HInv, Recorded
<1>5. ASSUME NEW s \in Stores, NEW next, CopyStore(s, next) PROVE HInv'
  <2>1. view' = [view EXCEPT ![s] = series[s]] /\ series' = series
    BY <1>5 DEF CopyStore, Snapshots
  <2>2. \A t \in Stores : view'[t] = IF t = s THEN series[t] ELSE view[t]
    BY <1>0, <2>1 DEF Shaped
  <2>3. Shaped(view)'
    BY <1>0, <2>1, <2>2 DEF Shaped
  <2> QED BY <1>0, <2>1, <2>2, <2>3 DEF HInv, Recorded
<1>6. CASE CopyPublic \/ CopyPrivate
  BY <1>5, <1>6 DEF CopyPublic, CopyPrivate, Stores
<1>7. CASE Render \/ UNCHANGED vars
  BY <1>0, <1>7 DEF Render, vars, scrape, HInv, Recorded, Shaped
<1> QED BY <1>2, <1>3, <1>4, <1>6, <1>7 DEF Next

(* A rendered histogram loses nothing: however many slots there are and      *)
(* whatever was sampled, who takes the bucket shown before a slot that was   *)
(* left out, or zero, has what the slot holds.                               *)
THEOREM MetricsSkippedIsImplied == Spec => []SkippedIsImplied
<1>1. ASSUME HInv, NEW k \in Keys("histogram") PROVE Value("histogram", k) \in Histograms
  <2>1. \A s \in Stores : k \in DOMAIN view[s].histogram => view[s].histogram[k] \in Histograms
    BY <1>1 DEF HInv, Recorded
  <2>2. {"public", "private"} \subseteq Stores
    BY DEF Stores
  <2> QED BY <2>1, <2>2 DEF Keys, Value, Get
<1>2. HInv => SkippedIsImplied
  BY <1>1, RecoversAll DEF SkippedIsImplied, Recovered
<1> QED BY <1>2, InitHInv, StepHInv, PTL DEF Spec

-----------------------------------------------------------------------------
(* A sum over a finite set is the number of pairs that stand for it. *)
Pairs(f, S) == UNION {{x} \X (1 .. f[x]) : x \in S}

(* They are finitely many. *)
LEMMA PairsFinite ==
  ASSUME NEW S, IsFiniteSet(S), NEW f, \A x \in S : f[x] \in Nat
  PROVE  IsFiniteSet(Pairs(f, S)) /\ Cardinality(Pairs(f, S)) \in Nat
<1>1. \A x \in S : IsFiniteSet({x} \X (1 .. f[x]))
  <2> SUFFICES ASSUME NEW x \in S PROVE IsFiniteSet({x} \X (1 .. f[x]))
    OBVIOUS
  <2>1. 1 \in Int /\ f[x] \in Int
    OBVIOUS
  <2>2. IsFiniteSet(1 .. f[x])
    BY <2>1, FS_Interval
  <2>3. IsFiniteSet({x})
    BY FS_Singleton
  <2> QED BY <2>2, <2>3, FS_Product
<1>2. IsFiniteSet({{x} \X (1 .. f[x]) : x \in S})
  <2> DEFINE T == {{x} \X (1 .. f[x]) : x \in S}
             h == [x \in S |-> {x} \X (1 .. f[x])]
  <2>1. h \in [S -> T] /\ \A t \in T : \E x \in S : h[x] = t
    OBVIOUS
  <2> HIDE DEF h, T
  <2>2. h \in Surjection(S, T)
    BY <2>1 DEF Surjection
  <2> QED BY <2>2, FS_Surjection DEF T
<1>3. IsFiniteSet(Pairs(f, S))
  BY <1>1, <1>2, FS_UNION DEF Pairs
<1> QED BY <1>3, FS_CardinalityType

(* What the community modules say of g, the function that sums every subset. *)
SumFrom(f, g, S) ==
  g = [s \in SUBSET S |-> IF s = {} THEN 0
                          ELSE f[CHOOSE x \in s : TRUE] + g[s \ {CHOOSE x \in s : TRUE}]]

(* The sum as it is defined. *)
LEMMA SumIs ==
  ASSUME NEW S, NEW f
  PROVE  SumFunctionOnSet(f, S) = (CHOOSE g : SumFrom(f, g, S))[S]
BY DEF SumFunctionOnSet, FoldFunctionOnSet, MapThenFoldSet, SumFrom

(* What an element adds. *)
LEMMA PairsOfOne ==
  ASSUME NEW x, NEW n \in Nat
  PROVE  IsFiniteSet({x} \X (1 .. n)) /\ Cardinality({x} \X (1 .. n)) = n
<1>1. IsFiniteSet({x}) /\ Cardinality({x}) = 1
  BY FS_Singleton
<1>2. 1 \in Int /\ n \in Int
  OBVIOUS
<1>3. IsFiniteSet(1 .. n) /\ Cardinality(1 .. n) = n
  BY <1>2, FS_Interval
<1>4. /\ IsFiniteSet({x} \X (1 .. n))
      /\ Cardinality({x} \X (1 .. n)) = Cardinality({x}) * Cardinality(1 .. n)
  BY <1>1, <1>3, FS_Product
<1> QED BY <1>1, <1>3, <1>4

LEMMA PairsAdd ==
  ASSUME NEW S, IsFiniteSet(S), NEW f, \A x \in S : f[x] \in Nat, NEW x \in S
  PROVE  Cardinality(Pairs(f, S)) = f[x] + Cardinality(Pairs(f, S \ {x}))
<1> DEFINE P == {x} \X (1 .. f[x])
           Q == Pairs(f, S \ {x})
<1>1. Pairs(f, S) = P \union Q /\ P \cap Q = {}
  BY DEF Pairs
<1>2. IsFiniteSet(S \ {x})
  BY FS_RemoveElement
<1>3. IsFiniteSet(Q) /\ Cardinality(Q) \in Nat
  BY <1>2, PairsFinite
<1>4. IsFiniteSet(P) /\ Cardinality(P) = f[x]
  BY PairsOfOne
<1> HIDE DEF P, Q
<1>5. Cardinality(P \union Q) = Cardinality(P) + Cardinality(Q) - Cardinality(P \cap Q)
  BY <1>3, <1>4, FS_Union
<1>6. Cardinality(P \cap Q) = 0
  BY <1>1, FS_EmptySet
<1> QED BY <1>1, <1>3, <1>4, <1>5, <1>6 DEF Q

(* It takes any element of a set and adds the sum of the rest: so does the   *)
(* number of pairs.                                                          *)
LEMMA SumFromPairs ==
  ASSUME NEW S, IsFiniteSet(S), NEW f, \A x \in S : f[x] \in Nat
  PROVE  SumFrom(f, [s \in SUBSET S |-> Cardinality(Pairs(f, s))], S)
<1> DEFINE g == [s \in SUBSET S |-> Cardinality(Pairs(f, s))]
<1>1. ASSUME NEW s \in SUBSET S
      PROVE  g[s] = IF s = {} THEN 0 ELSE f[CHOOSE x \in s : TRUE] + g[s \ {CHOOSE x \in s : TRUE}]
  <2>1. CASE s = {}
    <3>1. Pairs(f, {}) = {}
      BY DEF Pairs
    <3> QED BY <2>1, <3>1, FS_EmptySet
  <2>2. CASE s # {}
    <3>1. PICK x \in s : x = CHOOSE y \in s : TRUE
      BY <2>2
    <3>2. IsFiniteSet(s) /\ \A y \in s : f[y] \in Nat
      BY FS_Subset
    <3>3. Cardinality(Pairs(f, s)) = f[x] + Cardinality(Pairs(f, s \ {x}))
      BY <3>2, PairsAdd
    <3>4. s \ {x} \in SUBSET S
      OBVIOUS
    <3> QED BY <2>2, <3>1, <3>3, <3>4
  <2> QED BY <2>1, <2>2
<1> QED BY <1>1 DEF SumFrom

(* No other function does, for the least subset on which two would differ.   *)
LEMMA SumIsUnique ==
  ASSUME NEW S, IsFiniteSet(S), NEW f, NEW g, NEW h, SumFrom(f, g, S), SumFrom(f, h, S)
  PROVE  g[S] = h[S]
<1> DEFINE T == {Cardinality(s) : s \in {s \in SUBSET S : g[s] # h[s]}}
<1>1. \A s \in SUBSET S : IsFiniteSet(s) /\ Cardinality(s) \in Nat
  BY FS_Subset, FS_CardinalityType
<1>2. T \subseteq Nat
  BY <1>1
<1> SUFFICES ASSUME T # {} PROVE FALSE
  OBVIOUS
<1>3. PICK n \in T : \A m \in T : n <= m
  BY <1>2, LeastNumber
<1>4. PICK s \in SUBSET S : g[s] # h[s] /\ n = Cardinality(s)
  OBVIOUS
<1>5. s # {}
  BY <1>4 DEF SumFrom
<1>6. PICK x \in s : x = CHOOSE y \in s : TRUE
  BY <1>5
<1>7. s \ {x} \in SUBSET S /\ Cardinality(s \ {x}) = Cardinality(s) - 1
  BY <1>1, <1>6, FS_RemoveElement
<1>8. g[s \ {x}] = h[s \ {x}]
  <2> SUFFICES ASSUME g[s \ {x}] # h[s \ {x}] PROVE FALSE
    OBVIOUS
  <2>1. Cardinality(s \ {x}) \in T
    BY <1>7
  <2> QED BY <1>1, <1>3, <1>4, <1>7, <2>1
<1>9. g[s] = f[x] + g[s \ {x}] /\ h[s] = f[x] + h[s \ {x}]
  BY <1>5, <1>6, SMTT(30) DEF SumFrom
<1> QED BY <1>4, <1>8, <1>9

(* A sum of numbers is the number of pairs that stand for it. *)
LEMMA SumIsPairs ==
  ASSUME NEW S, IsFiniteSet(S), NEW f, \A x \in S : f[x] \in Nat
  PROVE  SumFunctionOnSet(f, S) = Cardinality(Pairs(f, S))
<1> DEFINE g == [s \in SUBSET S |-> Cardinality(Pairs(f, s))]
           h == CHOOSE k : SumFrom(f, k, S)
<1>1. SumFrom(f, g, S)
  BY SumFromPairs
<1>2. SumFrom(f, h, S)
  BY <1>1
<1>3. g[S] = Cardinality(Pairs(f, S))
  OBVIOUS
<1>4. SumFunctionOnSet(f, S) = h[S]
  BY SumIs
<1> HIDE DEF g, h
<1> QED BY <1>1, <1>2, <1>3, <1>4, SumIsUnique

(* One number grows. *)
LEMMA SumGrows ==
  ASSUME NEW S, IsFiniteSet(S), NEW d, NEW f, NEW e,
         \A x \in S : f[x] \in Nat /\ e[x] \in Nat, \A x \in S : x # d => e[x] = f[x]
  PROVE  /\ SumFunctionOnSet(f, S) \in Nat
         /\ SumFunctionOnSet(e, S) = SumFunctionOnSet(f, S) + IF d \in S THEN e[d] - f[d] ELSE 0
<1>1. SumFunctionOnSet(f, S) = Cardinality(Pairs(f, S)) /\ Cardinality(Pairs(f, S)) \in Nat
  BY SumIsPairs, PairsFinite
<1>2. SumFunctionOnSet(e, S) = Cardinality(Pairs(e, S))
  BY SumIsPairs
<1>3. CASE d \in S
  <2>1. Cardinality(Pairs(f, S)) = f[d] + Cardinality(Pairs(f, S \ {d}))
    BY <1>3, PairsAdd
  <2>2. Cardinality(Pairs(e, S)) = e[d] + Cardinality(Pairs(e, S \ {d}))
    BY <1>3, PairsAdd
  <2>3. Pairs(e, S \ {d}) = Pairs(f, S \ {d})
    BY DEF Pairs
  <2>4. IsFiniteSet(S \ {d})
    BY FS_RemoveElement
  <2>5. Cardinality(Pairs(f, S \ {d})) \in Nat
    BY <2>4, PairsFinite
  <2> QED BY <1>1, <1>2, <1>3, <2>1, <2>2, <2>3, <2>5
<1>4. CASE d \notin S
  <2>1. Pairs(e, S) = Pairs(f, S)
    BY <1>4 DEF Pairs
  <2> QED BY <1>1, <1>2, <1>4, <2>1
<1> QED BY <1>3, <1>4

(* Nothing counted is zero in all. *)
LEMMA SumOfNone ==
  ASSUME NEW D, NEW f \in [D -> Nat], NEW S, IsFiniteSet(S), S \subseteq D, \A d \in S : f[d] = 0
  PROVE  SumFunctionOnSet(f, S) = 0
<1>1. Pairs(f, S) = {}
  BY DEF Pairs
<1>2. SumFunctionOnSet(f, S) = Cardinality(Pairs(f, S))
  BY SumIsPairs
<1> QED BY <1>1, <1>2, FS_EmptySet

-----------------------------------------------------------------------------
(* Powers of two rise: there are as many sets of n elements. *)
LEMMA PowersRise ==
  ASSUME NEW m \in Nat, NEW n \in Nat, m <= n
  PROVE  2 ^ m \in Nat /\ 2 ^ n \in Nat /\ 2 ^ m <= 2 ^ n
<1>1. ASSUME NEW k \in Nat
      PROVE  IsFiniteSet(SUBSET (1 .. k)) /\ Cardinality(SUBSET (1 .. k)) = 2 ^ k
  <2>1. 1 \in Int /\ k \in Int
    OBVIOUS
  <2>2. IsFiniteSet(1 .. k) /\ Cardinality(1 .. k) = k
    BY <2>1, FS_Interval
  <2>3. IsFiniteSet(SUBSET (1 .. k)) /\ Cardinality(SUBSET (1 .. k)) = 2 ^ Cardinality(1 .. k)
    BY <2>2, FS_SUBSET
  <2> QED BY <2>2, <2>3
<1>2. SUBSET (1 .. m) \in SUBSET (SUBSET (1 .. n))
  OBVIOUS
<1>3. Cardinality(SUBSET (1 .. m)) <= Cardinality(SUBSET (1 .. n))
  BY <1>1, <1>2, FS_Subset
<1>4. Cardinality(SUBSET (1 .. m)) \in Nat /\ Cardinality(SUBSET (1 .. n)) \in Nat
  BY <1>1, FS_CardinalityType
<1> QED BY <1>1, <1>3, <1>4

(* A set of numbers that has all below each of its own is as long as it is. *)
LEMMA InitialSegment ==
  ASSUME NEW K \in Nat, NEW S, S \subseteq 0 .. K, \A n \in S : \A m \in 0 .. K : m <= n => m \in S
  PROVE  Cardinality(S) \in Nat /\ \A n \in 0 .. K : n \in S <=> n < Cardinality(S)
<1> DEFINE T == {n \in Nat : n \notin S}
<1>1. K + 1 \in T
  OBVIOUS
<1>2. PICK c \in T : \A n \in T : c <= n
  BY <1>1, LeastNumber
<1>3. S = 0 .. (c - 1)
  <2>1. ASSUME NEW n \in S PROVE n \in 0 .. (c - 1)
    <3>1. n \in Nat /\ c \in Nat /\ n <= K /\ c \notin S
      BY <1>2
    <3>2. ~(c <= n)
      BY <2>1, <3>1
    <3> QED BY <3>1, <3>2
  <2>2. ASSUME NEW n \in 0 .. (c - 1) PROVE n \in S
    <3>1. n \in Nat /\ ~(c <= n)
      BY <1>2
    <3> QED BY <1>2, <3>1
  <2> QED BY <2>1, <2>2
<1>4. Cardinality(0 .. (c - 1)) = c
  <2>1. 0 \in Int /\ c - 1 \in Int /\ c \in Nat
    BY <1>2
  <2>2. Cardinality(0 .. (c - 1)) = IF 0 > c - 1 THEN 0 ELSE (c - 1) - 0 + 1
    BY <2>1, FS_Interval
  <2> QED BY <2>1, <2>2
<1>5. c \in Nat
  BY <1>2
<1> HIDE DEF T
<1> QED BY <1>3, <1>4, <1>5

(* A sample counts in a slot if it is positive and at most the slot's bound. *)
LEMMA BucketBound ==
  ASSUME NEW v \in Nat, NEW i \in 2 .. LastSlot - 1
  PROVE  i >= Bucket(v) <=> 0 < v /\ v <= 2 ^ (i + 3)
<1> DEFINE K == LastSlot + 3
           S == {n \in 0 .. K : 2 ^ n < v}
<1>1. K \in Nat /\ i + 3 \in 0 .. K /\ i \in Nat /\ LastSlot \in Nat
  BY Parameters
<1>2. \A n \in 0 .. K : 2 ^ n \in Nat
  BY PowersRise
<1>3. ASSUME NEW n \in S, NEW m \in 0 .. K, m <= n PROVE m \in S
  <2>1. m \in Nat /\ n \in Nat /\ n \in 0 .. K
    OBVIOUS
  <2>2. 2 ^ m \in Nat /\ 2 ^ n \in Nat /\ 2 ^ m <= 2 ^ n
    BY <1>3, <2>1, PowersRise
  <2>3. 2 ^ n < v
    OBVIOUS
  <2>4. 2 ^ m < v
    BY <2>2, <2>3
  <2> QED BY <2>4
<1>4. S \subseteq 0 .. K
  OBVIOUS
<1>5. CeilLog2(v) = Cardinality(S)
  BY DEF CeilLog2
<1>6. i + 3 \in S <=> ~(v <= 2 ^ (i + 3))
  <2>1. 2 ^ (i + 3) \in Nat
    BY <1>1, <1>2
  <2> QED BY <1>1, <2>1
<1> HIDE DEF S, K
<1>7. Cardinality(S) \in Nat /\ (i + 3 \in S <=> i + 3 < Cardinality(S))
  BY <1>1, <1>3, <1>4, InitialSegment
<1> DEFINE c == CeilLog2(v)
<1>8. c \in Nat /\ (v <= 2 ^ (i + 3) <=> c <= i + 3)
  BY <1>1, <1>5, <1>6, <1>7
<1> HIDE DEF c
<1>9. Bucket(v) = IF v = 0 \/ c > LastSlot + 3 THEN LastSlot ELSE IF c < 5 THEN 2 ELSE c - 3
  BY DEF Bucket, c
<1>10. Bucket(v) <= i <=> v # 0 /\ c <= i + 3
  BY <1>1, <1>8, <1>9
<1> QED BY <1>8, <1>10, BucketInRange, Parameters

(* The samples of calls with labels l that t counts, by their duration, and  *)
(* the time they took.                                                       *)
SamplesIn(t, l) == [d \in Durations |-> t[<<l, d>>]]
TimeIn(t, l)    == [d \in Durations |-> d * t[<<l, d>>]]
UpTo(i)         == {d \in Durations : 0 < d /\ d <= 2 ^ (i + 3)}

(* What BucketsExact says of one histogram. *)
ExactFor(h, t, l) ==
  /\ \A i \in 2 .. LastSlot - 1 : h[i] = SumFunctionOnSet(SamplesIn(t, l), UpTo(i))
  /\ h[LastSlot] = SumFunctionOnSet(SamplesIn(t, l), Durations)
  /\ h[1] = SumFunctionOnSet(TimeIn(t, l), Durations)

Tallies == [Labels \X Durations -> Nat]

(* Nothing sampled, nothing recorded. *)
LEMMA NoneIsExact ==
  ASSUME IsFiniteSet(Durations), NEW l \in Labels
  PROVE  ExactFor([i \in Slots |-> 0], [x \in Labels \X Durations |-> 0], l)
<1> DEFINE t == [x \in Labels \X Durations |-> 0]
<1>1. \A d \in Durations : <<l, d>> \in Labels \X Durations /\ d \in Nat /\ d * 0 = 0
  BY Parameters
<1>2. \A d \in Durations : SamplesIn(t, l)[d] = 0 /\ TimeIn(t, l)[d] = 0
  BY <1>1 DEF SamplesIn, TimeIn
<1>3. SamplesIn(t, l) \in [Durations -> Nat] /\ TimeIn(t, l) \in [Durations -> Nat]
  BY <1>1, <1>2 DEF SamplesIn, TimeIn
<1> HIDE DEF t
<1>4. ASSUME NEW S \in SUBSET Durations
      PROVE  SumFunctionOnSet(SamplesIn(t, l), S) = 0 /\ SumFunctionOnSet(TimeIn(t, l), S) = 0
  <2>1. IsFiniteSet(S)
    BY FS_Subset
  <2> QED BY <1>2, <1>3, <2>1, SumOfNone
<1>5. \A i : UpTo(i) \in SUBSET Durations
  BY DEF UpTo
<1>6. {1, LastSlot} \subseteq Slots /\ \A i \in 2 .. LastSlot - 1 : i \in Slots
  BY Parameters DEF Slots
<1>7. ExactFor([i \in Slots |-> 0], t, l)
  BY <1>4, <1>5, <1>6 DEF ExactFor
<1> QED BY <1>7 DEF t

(* A sample changes what is recorded by what it adds to the sums. *)
LEMMA SampleIsExact ==
  ASSUME IsFiniteSet(Durations), NEW t \in Tallies, NEW h \in [Slots -> Nat],
         NEW l \in Labels, NEW d \in Durations, ExactFor(h, t, l)
  PROVE  ExactFor(Sampled(h, d), [t EXCEPT ![<<l, d>>] = @ + 1], l)
<1> DEFINE u == [t EXCEPT ![<<l, d>>] = @ + 1]
           g == Sampled(h, d)
           ts == SamplesIn(t, l)
           tt == TimeIn(t, l)
<1>1. d \in Nat /\ <<l, d>> \in Labels \X Durations /\ LastSlot \in Nat /\ LastSlot > 2
  BY Parameters
<1>2. \A e \in Durations : e \in Nat /\ t[<<l, e>>] \in Nat /\ e * t[<<l, e>>] \in Nat
  BY Parameters DEF Tallies
<1>3. ts \in [Durations -> Nat] /\ tt \in [Durations -> Nat]
  BY <1>2 DEF SamplesIn, TimeIn
<1>4. \A e \in Durations : u[<<l, e>>] = IF e = d THEN t[<<l, e>>] + 1 ELSE t[<<l, e>>]
  BY DEF Tallies
<1>5. SamplesIn(u, l) = [ts EXCEPT ![d] = @ + 1]
  BY <1>4 DEF SamplesIn
<1>6. TimeIn(u, l) = [tt EXCEPT ![d] = @ + d]
  <2>1. d * (t[<<l, d>>] + 1) = d * t[<<l, d>>] + d
    BY <1>2
  <2>2. d * u[<<l, d>>] = tt[d] + d
    BY <1>4, <2>1 DEF TimeIn
  <2>3. \A e \in Durations : e # d => e * u[<<l, e>>] = tt[e]
    BY <1>4 DEF TimeIn
  <2>4. TimeIn(u, l) = [e \in Durations |-> e * u[<<l, e>>]] /\ tt = [e \in Durations |-> tt[e]]
    BY DEF TimeIn
  <2> HIDE DEF u, tt
  <2>5. TimeIn(u, l) = [e \in Durations |-> IF e = d THEN tt[e] + d ELSE tt[e]]
    BY <2>2, <2>3, <2>4
  <2> QED BY <2>4, <2>5
<1>7. /\ g[1] = h[1] + d
      /\ \A i \in 2 .. LastSlot : g[i] = IF i >= Bucket(d) THEN h[i] + 1 ELSE h[i]
  BY <1>1 DEF Sampled, SampledFrom, Slots
<1> HIDE DEF u, g, ts, tt
<1>8. /\ SamplesIn(u, l) \in [Durations -> Nat] /\ SamplesIn(u, l)[d] = ts[d] + 1
      /\ \A x \in Durations : x # d => SamplesIn(u, l)[x] = ts[x]
      /\ TimeIn(u, l) \in [Durations -> Nat] /\ TimeIn(u, l)[d] = tt[d] + d
      /\ \A x \in Durations : x # d => TimeIn(u, l)[x] = tt[x]
  BY <1>1, <1>3, <1>5, <1>6
<1>9. ASSUME NEW S \in SUBSET Durations
      PROVE  /\ SumFunctionOnSet(SamplesIn(u, l), S) = SumFunctionOnSet(ts, S) + IF d \in S THEN 1 ELSE 0
             /\ SumFunctionOnSet(TimeIn(u, l), S) = SumFunctionOnSet(tt, S) + IF d \in S THEN d ELSE 0
             /\ SumFunctionOnSet(ts, S) \in Nat
  <2>1. IsFiniteSet(S) /\ 1 \in Nat /\ S \subseteq Durations
    BY FS_Subset
  <2> DEFINE us == SamplesIn(u, l)
             ut == TimeIn(u, l)
  <2>2. /\ \A x \in S : ts[x] \in Nat /\ us[x] \in Nat
        /\ \A x \in S : x # d => us[x] = ts[x]
    BY <1>3, <1>8
  <2>3. /\ \A x \in S : tt[x] \in Nat /\ ut[x] \in Nat
        /\ \A x \in S : x # d => ut[x] = tt[x]
    BY <1>3, <1>8
  <2>4. us[d] - ts[d] = 1 /\ ut[d] - tt[d] = d
    BY <1>1, <1>3, <1>8
  <2> HIDE DEF us, ut
  <2>5. /\ SumFunctionOnSet(us, S) = SumFunctionOnSet(ts, S) + IF d \in S THEN us[d] - ts[d] ELSE 0
        /\ SumFunctionOnSet(ts, S) \in Nat
    BY <2>1, <2>2, SumGrows, ZenonT(60)
  <2>6. SumFunctionOnSet(ut, S) = SumFunctionOnSet(tt, S) + IF d \in S THEN ut[d] - tt[d] ELSE 0
    BY <2>1, <2>3, SumGrows, ZenonT(60)
  <2> QED BY <2>5, <2>6, <2>4 DEF us, ut
<1>10. ASSUME NEW i \in 2 .. LastSlot - 1
      PROVE  g[i] = SumFunctionOnSet(SamplesIn(u, l), UpTo(i))
  <2>1. h[i] = SumFunctionOnSet(ts, UpTo(i))
    BY DEF ExactFor, ts
  <2>2. d \in UpTo(i) <=> i >= Bucket(d)
    BY <1>1, BucketBound DEF UpTo
  <2>3. UpTo(i) \in SUBSET Durations /\ i \in 2 .. LastSlot
    BY <1>1 DEF UpTo
  <2>4. /\ SumFunctionOnSet(SamplesIn(u, l), UpTo(i)) = SumFunctionOnSet(ts, UpTo(i)) + IF d \in UpTo(i) THEN 1 ELSE 0
        /\ SumFunctionOnSet(ts, UpTo(i)) \in Nat
    BY <1>9, <2>3
  <2> QED BY <1>7, <2>1, <2>2, <2>3, <2>4
<1>11. g[LastSlot] = SumFunctionOnSet(SamplesIn(u, l), Durations)
  <2>1. g[LastSlot] = h[LastSlot] + 1
    BY LastSlotCountsAll DEF g
  <2>2. h[LastSlot] = SumFunctionOnSet(ts, Durations)
    BY DEF ExactFor, ts
  <2> QED BY <1>9, <2>1, <2>2
<1>12. g[1] = SumFunctionOnSet(TimeIn(u, l), Durations)
  <2>1. h[1] = SumFunctionOnSet(tt, Durations)
    BY DEF ExactFor, tt
  <2> QED BY <1>7, <1>9, <2>1
<1> QED BY <1>10, <1>11, <1>12 DEF ExactFor, u, g

(* It changes no sum of other calls. *)
LEMMA OthersStayExact ==
  ASSUME NEW t \in Tallies, NEW h, NEW l \in Labels, NEW m \in Labels, l # m, NEW d \in Durations, ExactFor(h, t, m)
  PROVE  ExactFor(h, [t EXCEPT ![<<l, d>>] = @ + 1], m)
<1> DEFINE u == [t EXCEPT ![<<l, d>>] = @ + 1]
<1>1. \A e \in Durations : u[<<m, e>>] = t[<<m, e>>]
  BY DEF Tallies
<1>2. SamplesIn(u, m) = SamplesIn(t, m) /\ TimeIn(u, m) = TimeIn(t, m)
  BY <1>1 DEF SamplesIn, TimeIn
<1> QED BY <1>2 DEF ExactFor

(* Each store holds what was sampled of the calls that belong in it.         *)
HistOf(f, l) == Get(f[StoreOf(l)].histogram, TimeKey(l), [i \in Slots |-> 0])

(* The inductive invariant: every histogram is exact. *)
BInv ==
  /\ Shaped(series) /\ timed \in Tallies
  /\ \A c \in Callers : pc[c] = "sample" => label[c] \in Labels
  /\ pc = [c \in Callers |-> pc[c]] /\ label = [c \in Callers |-> label[c]]
  /\ \A l \in Labels : HistOf(series, l) \in [Slots -> Nat] /\ ExactFor(HistOf(series, l), timed, l)

LEMMA InitBInv == IsFiniteSet(Durations) /\ Init => BInv
<1> SUFFICES ASSUME IsFiniteSet(Durations), Init PROVE BInv
  OBVIOUS
<1>1. Shaped(series)
  BY DEF Init, Shaped, Empty
<1>2. \A s \in Stores : series[s].histogram = [k \in {} |-> 0]
  BY DEF Init, Empty, Kinds
<1>3. ASSUME NEW l \in Labels PROVE HistOf(series, l) = [i \in Slots |-> 0]
  BY <1>2, StoreOfType DEF HistOf, Get
<1>4. timed = [x \in Labels \X Durations |-> 0]
  BY DEF Init
<1>5. \A l \in Labels : ExactFor(HistOf(series, l), timed, l)
  BY <1>3, <1>4, NoneIsExact
<1>6. /\ \A c \in Callers : pc[c] = "count"
      /\ pc = [c \in Callers |-> pc[c]] /\ label = [c \in Callers |-> label[c]]
  BY DEF Init
<1>7. \A l \in Labels : HistOf(series, l) \in [Slots -> Nat]
  BY <1>3
<1>8. timed \in Tallies
  BY <1>4 DEF Tallies
<1> QED BY <1>1, <1>5, <1>6, <1>7, <1>8 DEF BInv

LEMMA StepBInv == IsFiniteSet(Durations) /\ BInv /\ [Next]_vars => BInv'
<1> SUFFICES ASSUME IsFiniteSet(Durations), BInv, [Next]_vars PROVE BInv'
  OBVIOUS
<1>1. ASSUME NEW s \in Stores, NEW kind \in Kinds \ {"histogram"}, NEW v,
             series' = With(series, s, kind, v), UNCHANGED timed
      PROVE  Shaped(series)' /\ \A l \in Labels : HistOf(series', l) = HistOf(series, l)
  <2>1. /\ Shaped(series')
        /\ \A t \in Stores : series'[t]["histogram"] = series[t]["histogram"]
    BY <1>1, WithChanges DEF Kinds, BInv
  <2> QED BY <2>1, StoreOfType DEF HistOf
<1>2. ASSUME NEW c \in Callers, NEW l \in Labels, Count(c, l) PROVE BInv'
  <2>1. PICK v : series' = With(series, StoreOf(l), "counter", v)
    BY <1>2 DEF Count, With
  <2>2. /\ pc' = [pc EXCEPT ![c] = "sample"] /\ label' = [label EXCEPT ![c] = l] /\ timed' = timed
    BY <1>2 DEF Count
  <2>3. "counter" \in Kinds \ {"histogram"}
    BY DEF Kinds
  <2>4. Shaped(series)' /\ \A m \in Labels : HistOf(series', m) = HistOf(series, m)
    BY <1>1, <2>1, <2>2, <2>3, StoreOfType
  <2>5. \A e \in Callers : /\ pc'[e] = IF e = c THEN "sample" ELSE pc[e]
                           /\ label'[e] = IF e = c THEN l ELSE label[e]
    BY <2>2 DEF BInv
  <2>6. pc' = [e \in Callers |-> pc'[e]] /\ label' = [e \in Callers |-> label'[e]]
    BY <2>2 DEF BInv
  <2> QED BY <2>2, <2>4, <2>5, <2>6 DEF BInv
<1>3. ASSUME NEW s \in Settings, Publish(s) PROVE BInv'
  <2>1. s.store \in Stores /\ s.kind \in Kinds \ {"histogram"}
    BY Parameters DEF Kinds
  <2>2. PICK v : series' = With(series, s.store, s.kind, v)
    BY <1>3 DEF Publish, With
  <2>3. pc' = pc /\ label' = label /\ timed' = timed
    BY <1>3 DEF Publish, calls
  <2>4. Shaped(series)' /\ \A m \in Labels : HistOf(series', m) = HistOf(series, m)
    BY <1>1, <2>1, <2>2, <2>3
  <2> QED BY <2>3, <2>4 DEF BInv
<1>4. ASSUME NEW c \in Callers, NEW d \in Durations, Sample(c, d) PROVE BInv'
  <2>1. PICK l \in Labels : l = label[c]
    BY <1>4 DEF Sample, BInv
  <2> DEFINE s   == StoreOf(l)
             old == series[s].histogram
             h   == HistOf(series, l)
             new == Put(old, TimeKey(l), Sampled(h, d))
  <2>2. s \in Stores /\ "histogram" \in Kinds
    BY StoreOfType DEF Kinds
  <2>3. series' = With(series, s, "histogram", new)
    BY <1>4, <2>1 DEF Sample, With, HistOf
  <2>4. timed' = [timed EXCEPT ![<<l, d>>] = @ + 1] /\ timed' \in Tallies
    BY <1>4, <2>1 DEF Sample, BInv, Tallies
  <2>5. pc' = [pc EXCEPT ![c] = "count"] /\ label' = label
    BY <1>4 DEF Sample
  <2>6. h \in [Slots -> Nat] /\ ExactFor(h, timed, l)
    BY DEF BInv
  <2>7. ExactFor(Sampled(h, d), timed', l)
    BY <2>4, <2>6, SampleIsExact DEF BInv
  <2>8. Sampled(h, d) \in [Slots -> Nat]
    <3> HIDE DEF h
    <3>1. d \in Nat /\ 1 \in Slots
      BY Parameters DEF Slots
    <3> QED BY <2>6, <3>1 DEF Sampled, SampledFrom
  <2>9. /\ new[TimeKey(l)] = Sampled(h, d)
        /\ TimeKey(l) \in DOMAIN new
        /\ \A k : k # TimeKey(l) => (k \in DOMAIN new <=> k \in DOMAIN old)
        /\ \A k \in DOMAIN old : k # TimeKey(l) => new[k] = old[k]
    BY DEF Put
  <2> HIDE DEF h, new, s
  <2>10. /\ Shaped(series')
         /\ \A t \in Stores : series'[t]["histogram"] = IF t = s THEN new ELSE series[t]["histogram"]
    BY <2>2, <2>3, WithChanges DEF BInv
  <2>11. HistOf(series', l) = Sampled(h, d)
    BY <2>2, <2>9, <2>10 DEF HistOf, Get, s
  <2>12. ASSUME NEW m \in Labels, m # l PROVE HistOf(series', m) = HistOf(series, m)
    <3>1. TimeKey(m) # TimeKey(l) /\ StoreOf(m) \in Stores
      BY <2>12, KeysDiffer, StoreOfType
    <3>2. CASE StoreOf(m) = s
      BY <2>9, <2>10, <3>1, <3>2 DEF HistOf, Get
    <3>3. CASE StoreOf(m) # s
      BY <2>10, <3>1, <3>3 DEF HistOf
    <3> QED BY <3>2, <3>3
  <2>13. ASSUME NEW m \in Labels
         PROVE  HistOf(series', m) \in [Slots -> Nat] /\ ExactFor(HistOf(series', m), timed', m)
    <3>1. CASE m = l
      BY <2>7, <2>8, <2>11, <3>1
    <3>2. CASE m # l
      <4>1. HistOf(series, m) \in [Slots -> Nat] /\ ExactFor(HistOf(series, m), timed, m) /\ timed \in Tallies
        BY DEF BInv
      <4> QED BY <2>4, <2>12, <3>2, <4>1, OthersStayExact
    <3> QED BY <3>1, <3>2
  <2>14. /\ \A e \in Callers : pc'[e] = "sample" => label'[e] \in Labels
         /\ pc' = [e \in Callers |-> pc'[e]] /\ label' = [e \in Callers |-> label'[e]]
    BY <2>5 DEF BInv
  <2> QED BY <2>4, <2>10, <2>13, <2>14 DEF BInv
<1>5. CASE CopyPublic \/ CopyPrivate \/ Render \/ UNCHANGED vars
  <2>1. series' = series /\ timed' = timed /\ pc' = pc /\ label' = label
    BY <1>5 DEF CopyPublic, CopyPrivate, CopyStore, Render, vars, calls
  <2> QED BY <2>1 DEF BInv, Shaped, HistOf
<1> QED BY <1>2, <1>3, <1>4, <1>5 DEF Next

(* Every histogram is exact: whatever calls are sampled in whatever order,   *)
(* each slot holds as many as took no longer than its bound, the last one    *)
(* all of them, and the first the time they took (BucketsExact; metrics.go). *)
THEOREM MetricsBucketsExact == IsFiniteSet(Durations) => (Spec => []BucketsExact)
<1> SUFFICES ASSUME IsFiniteSet(Durations) PROVE Spec => []BucketsExact
  OBVIOUS
<1>1. Init => BInv
  BY InitBInv
<1>2. BInv /\ [Next]_vars => BInv'
  BY StepBInv
<1>3. BInv => BucketsExact
  BY DEF BInv, BucketsExact, ExactFor, HistOf, SamplesIn, TimeIn, UpTo, SumFunction
<1> QED BY <1>1, <1>2, <1>3, PTL DEF Spec

-----------------------------------------------------------------------------
(* The order of the names. *)

(* Two texts agree up to before the i-th rune, where a ends or is smaller. *)
DifferAt(a, b, i) ==
  /\ Len(a) >= i - 1 /\ \A m \in 1 .. i - 1 : a[m] = b[m]
  /\ Len(a) = i - 1 \/ a[i] < b[i]

(* A text has a length and runes. *)
LEMMA TextFacts ==
  ASSUME NEW a \in Seq(Nat)
  PROVE  Len(a) \in Nat /\ \A m \in 1 .. Len(a) : a[m] \in Nat
OBVIOUS

(* Texts of the same runes are the same. *)
LEMMA SameText ==
  ASSUME NEW a \in Seq(Nat), NEW b \in Seq(Nat), Len(a) = Len(b), \A m \in 1 .. Len(a) : a[m] = b[m]
  PROVE  a = b
<1>1. a = [m \in 1 .. Len(a) |-> a[m]] /\ b = [m \in 1 .. Len(b) |-> b[m]]
  OBVIOUS
<1> QED BY <1>1

LEMMA SamePrefix ==
  ASSUME NEW a \in Seq(Nat), NEW b \in Seq(Nat), NEW n \in Nat, n <= Len(a), n <= Len(b)
  PROVE  SubSeq(a, 1, n) = SubSeq(b, 1, n) <=> \A m \in 1 .. n : a[m] = b[m]
<1>1. /\ SubSeq(a, 1, n) = [m \in 1 .. n |-> a[m]]
      /\ SubSeq(b, 1, n) = [m \in 1 .. n |-> b[m]]
  OBVIOUS
<1> QED BY <1>1

(* What Before says, rune by rune. *)
LEMMA BeforeIs ==
  ASSUME NEW a \in Seq(Nat), NEW b \in Seq(Nat)
  PROVE  Before(a, b) <=> \E i \in 1 .. Len(b) : DifferAt(a, b, i)
<1>1. ASSUME NEW i \in 1 .. Len(b), Len(a) >= i - 1
      PROVE  SubSeq(a, 1, i - 1) = SubSeq(b, 1, i - 1) <=> \A m \in 1 .. i - 1 : a[m] = b[m]
  <2>1. i - 1 \in Nat /\ i - 1 <= Len(a) /\ i - 1 <= Len(b)
    BY <1>1
  <2> QED BY <2>1, SamePrefix
<1> QED BY <1>1 DEF Before, DifferAt

(* So it orders the texts: strictly, ... *)
LEMMA BeforeIsStrict ==
  ASSUME NEW a \in Seq(Nat)
  PROVE  ~Before(a, a)
<1> SUFFICES ASSUME NEW i \in 1 .. Len(a), DifferAt(a, a, i) PROVE FALSE
  BY BeforeIs
<1>1. a[i] \in Nat /\ Len(a) \in Nat /\ i <= Len(a)
  OBVIOUS
<1> QED BY <1>1 DEF DifferAt

(* ... transitively, ... *)
LEMMA BeforeIsTransitive ==
  ASSUME NEW a \in Seq(Nat), NEW b \in Seq(Nat), NEW c \in Seq(Nat), Before(a, b), Before(b, c)
  PROVE  Before(a, c)
<1>1. PICK i \in 1 .. Len(b) : DifferAt(a, b, i)
  BY BeforeIs
<1>2. PICK j \in 1 .. Len(c) : DifferAt(b, c, j)
  BY BeforeIs
<1>3. /\ \A m \in 1 .. Len(a) : a[m] \in Nat
      /\ \A m \in 1 .. Len(b) : b[m] \in Nat
      /\ \A m \in 1 .. Len(c) : c[m] \in Nat
      /\ Len(a) \in Nat /\ Len(b) \in Nat /\ Len(c) \in Nat
  BY TextFacts
<1>4. CASE i < j
  <2>1. i \in 1 .. Len(c) /\ b[i] = c[i] /\ \A m \in 1 .. i - 1 : m \in 1 .. j - 1
    BY <1>2, <1>3, <1>4, SMTT(30) DEF DifferAt
  <2>2. DifferAt(a, c, i)
    BY <1>1, <1>2, <2>1 DEF DifferAt
  <2> QED BY <2>1, <2>2, BeforeIs
<1>5. CASE j < i
  <2>1. j \in 1 .. i - 1 /\ \A m \in 1 .. j - 1 : m \in 1 .. i - 1
    BY <1>3, <1>5
  <2>2. a[j] = b[j] /\ Len(b) # j - 1 /\ Len(a) >= j - 1
    <3>1. i - 1 <= Len(a) /\ i <= Len(b) /\ j <= i - 1 /\ a[j] = b[j] /\ i \in Nat /\ j \in Nat
      BY <1>1, <1>3, <2>1 DEF DifferAt
    <3> QED BY <1>3, <3>1, SMTT(30)
  <2>3. DifferAt(a, c, j)
    BY <1>1, <1>2, <2>1, <2>2 DEF DifferAt
  <2> QED BY <2>3, BeforeIs
<1>6. CASE i = j
  <2>1. Len(b) # i - 1
    BY <1>3
  <2>2. b[i] < c[i] /\ b[i] \in Nat /\ c[i] \in Nat
    BY <1>2, <1>3, <1>6, <2>1 DEF DifferAt
  <2>3. Len(a) = i - 1 \/ a[i] < c[i]
    <3>1. CASE Len(a) = i - 1
      BY <3>1
    <3>2. CASE Len(a) # i - 1
      <4>1. i \in 1 .. Len(a) /\ a[i] < b[i]
        BY <1>1, <1>3, <3>2 DEF DifferAt
      <4>2. a[i] \in Nat
        BY <1>3, <4>1
      <4>3. \A u, v, w \in Nat : u < v /\ v < w => u < w
        OBVIOUS
      <4> QED BY <2>2, <4>1, <4>2, <4>3
    <3> QED BY <3>1, <3>2
  <2>4. DifferAt(a, c, i)
    BY <1>1, <1>2, <1>6, <2>3 DEF DifferAt
  <2> QED BY <1>6, <2>4, BeforeIs
<1> QED BY <1>4, <1>5, <1>6

(* ... and any two: at the first rune at which they differ. *)
LEMMA BeforeIsTotal ==
  ASSUME NEW a \in Seq(Nat), NEW b \in Seq(Nat), a # b
  PROVE  Before(a, b) \/ Before(b, a)
<1>1. /\ \A m \in 1 .. Len(a) : a[m] \in Nat
      /\ \A m \in 1 .. Len(b) : b[m] \in Nat
      /\ Len(a) \in Nat /\ Len(b) \in Nat
  BY TextFacts
<1> DEFINE D == {i \in Nat \ {0} : i > Len(a) \/ i > Len(b) \/ a[i] # b[i]}
<1>2. D \subseteq Nat /\ Len(a) + 1 \in D /\ Len(b) + 1 \in D
  BY <1>1
<1>3. PICK i \in D : \A m \in D : i <= m
  <2> HIDE DEF D
  <2> QED BY <1>2, LeastNumber
<1>4. \A m \in 1 .. i - 1 : m <= Len(a) /\ m <= Len(b) /\ a[m] = b[m]
  <2> SUFFICES ASSUME NEW m \in 1 .. i - 1 PROVE m <= Len(a) /\ m <= Len(b) /\ a[m] = b[m]
    OBVIOUS
  <2>1. m \in Nat \ {0} /\ ~(i <= m)
    OBVIOUS
  <2>2. m \notin D
    BY <1>3, <2>1
  <2> QED BY <1>1, <2>1, <2>2
<1>5. i <= Len(a) + 1 /\ i <= Len(b) + 1 /\ i \in Nat \ {0}
  BY <1>2, <1>3
<1>6. i > Len(a) \/ i > Len(b) \/ a[i] # b[i]
  OBVIOUS
<1> HIDE DEF D
<1>7. CASE i > Len(a) /\ i > Len(b)
  <2>1. Len(a) = i - 1 /\ Len(b) = i - 1
    BY <1>1, <1>5, <1>7
  <2> QED BY <1>4, <2>1, SameText
<1>8. CASE i > Len(a) /\ i <= Len(b)
  <2>1. DifferAt(a, b, i) /\ i \in 1 .. Len(b)
    BY <1>1, <1>4, <1>5, <1>8 DEF DifferAt
  <2> QED BY <2>1, BeforeIs
<1>9. CASE i <= Len(a) /\ i > Len(b)
  <2>1. DifferAt(b, a, i) /\ i \in 1 .. Len(a)
    BY <1>1, <1>4, <1>5, <1>9 DEF DifferAt
  <2> QED BY <2>1, BeforeIs
<1>10. CASE i <= Len(a) /\ i <= Len(b)
  <2>1. i \in 1 .. Len(a) /\ i \in 1 .. Len(b) /\ a[i] # b[i]
    BY <1>1, <1>5, <1>6, <1>10
  <2>2. a[i] < b[i] \/ b[i] < a[i]
    BY <1>1, <2>1
  <2>3. DifferAt(a, b, i) \/ DifferAt(b, a, i)
    BY <1>1, <1>4, <2>1, <2>2 DEF DifferAt
  <2> QED BY <2>1, <2>3, BeforeIs
<1> QED BY <1>1, <1>5, <1>7, <1>8, <1>9, <1>10

(* What stands between two texts that agree begins as they do.               *)
LEMMA BetweenAgrees ==
  ASSUME NEW a \in Seq(Nat), NEW b \in Seq(Nat), NEW c \in Seq(Nat), Before(a, b), Before(b, c),
         NEW n \in Nat, n <= Len(a), n <= Len(c), \A m \in 1 .. n : a[m] = c[m]
  PROVE  n < Len(b) /\ \A m \in 1 .. n : b[m] = a[m]
<1>1. PICK i \in 1 .. Len(b) : DifferAt(a, b, i)
  BY BeforeIs
<1>2. PICK j \in 1 .. Len(c) : DifferAt(b, c, j)
  BY BeforeIs
<1>3. /\ \A m \in 1 .. Len(a) : a[m] \in Nat
      /\ \A m \in 1 .. Len(b) : b[m] \in Nat
      /\ \A m \in 1 .. Len(c) : c[m] \in Nat
      /\ Len(a) \in Nat /\ Len(b) \in Nat /\ Len(c) \in Nat
  BY TextFacts
<1>4. CASE i > n
  <2>1. \A m \in 1 .. n : m \in 1 .. i - 1
    BY <1>3, <1>4
  <2> QED BY <1>1, <1>3, <1>4, <2>1, SMTT(30) DEF DifferAt
<1>5. CASE i <= n
  <2>1. /\ i \in 1 .. n /\ i \in 1 .. Len(a) /\ Len(a) # i - 1
        /\ a[i] < b[i] /\ a[i] = c[i] /\ a[i] \in Nat /\ b[i] \in Nat
    BY <1>1, <1>3, <1>5, SMTT(30) DEF DifferAt
  <2>2. CASE i < j
    <3>1. i \in 1 .. j - 1
      BY <1>3, <2>2
    <3> QED BY <1>2, <2>1, <3>1, SMTT(30) DEF DifferAt
  <2>3. CASE i = j
    <3>1. Len(b) # j - 1
      BY <1>3, <2>3
    <3>2. b[i] < c[i]
      BY <1>2, <2>3, <3>1 DEF DifferAt
    <3>3. \A u, v \in Nat : u < v => ~(v < u)
      OBVIOUS
    <3> QED BY <2>1, <3>2, <3>3
  <2>4. CASE j < i
    <3>1. i \in Nat /\ j \in Nat \ {0} /\ i <= Len(b)
      BY <1>3
    <3>2. j \in 1 .. i - 1 /\ j \in 1 .. n /\ Len(b) # j - 1 /\ j \in 1 .. Len(b)
      <4> HIDE DEF DifferAt
      <4>1. j <= i - 1 /\ j <= n /\ Len(b) \in Nat
        BY <1>3, <1>5, <2>4, <3>1
      <4>2. \A p, q, r \in Nat : p <= q - 1 /\ q <= r => r # p - 1 /\ p <= r
        OBVIOUS
      <4>3. Len(b) # j - 1 /\ j <= Len(b)
        BY <3>1, <4>1, <4>2
      <4> QED BY <3>1, <4>1, <4>3
    <3>3. a[j] = b[j] /\ a[j] = c[j] /\ b[j] < c[j] /\ b[j] \in Nat
      BY <1>1, <1>2, <1>3, <3>2 DEF DifferAt
    <3> QED BY <3>3
  <2> QED BY <1>3, <2>2, <2>3, <2>4
<1> QED BY <1>3, <1>4, <1>5

-----------------------------------------------------------------------------
(* Keys and their text. *)
Keyed == {k \in [family : Seq(Nat), labels : Nat] : \A i \in DOMAIN k.family : k.family[i] # Brace}

(* The runes of a key's text. *)
LEMMA TextIs ==
  ASSUME NEW k \in Keyed
  PROVE  /\ k.family \in Seq(Nat) /\ \A i \in 1 .. Len(k.family) : k.family[i] # Brace
         /\ Text(k) \in Seq(Nat)
         /\ k.labels = 0 => Text(k) = k.family
         /\ k.labels # 0 =>
              /\ Len(Text(k)) = Len(k.family) + 2
              /\ \A i \in 1 .. Len(k.family) : Text(k)[i] = k.family[i]
              /\ Text(k)[Len(k.family) + 1] = Brace /\ Text(k)[Len(k.family) + 2] = k.labels
<1>1. k.family \in Seq(Nat) /\ k.labels \in Nat /\ Brace \in Nat
  BY FamiliesCut DEF Keyed
<1>2. \A i \in 1 .. Len(k.family) : k.family[i] # Brace
  BY <1>1 DEF Keyed
<1>3. <<Brace, k.labels>> \in Seq(Nat) /\ Len(<<Brace, k.labels>>) = 2
  BY <1>1
<1>4. k.labels # 0 => Text(k) = k.family \o <<Brace, k.labels>>
  BY DEF Text
<1>5. k.labels = 0 => Text(k) = k.family
  BY DEF Text
<1>6. ASSUME NEW f \in Seq(Nat), NEW t, t = f \o <<Brace, k.labels>>
      PROVE  /\ t \in Seq(Nat) /\ Len(t) = Len(f) + 2
             /\ \A i \in 1 .. Len(f) : t[i] = f[i]
             /\ t[Len(f) + 1] = Brace /\ t[Len(f) + 2] = k.labels
  BY <1>1, <1>3, <1>6
<1>7. CASE k.labels = 0
  BY <1>1, <1>2, <1>5, <1>7
<1>8. CASE k.labels # 0
  <2> DEFINE f == k.family
             t == Text(k)
  <2> HIDE DEF f, t
  <2>1. f \in Seq(Nat) /\ t = f \o <<Brace, k.labels>>
    BY <1>1, <1>4, <1>8 DEF f, t
  <2>2. /\ t \in Seq(Nat) /\ Len(t) = Len(f) + 2
        /\ \A i \in 1 .. Len(f) : t[i] = f[i]
        /\ t[Len(f) + 1] = Brace /\ t[Len(f) + 2] = k.labels
    BY <1>6, <2>1
  <2> QED BY <1>1, <1>2, <1>8, <2>2 DEF f, t
<1> QED BY <1>7, <1>8

(* No two keys have the same text. *)
LEMMA TextsDiffer ==
  ASSUME NEW k \in Keyed, NEW l \in Keyed, Text(k) = Text(l)
  PROVE  k = l
<1>1. /\ k = [family |-> k.family, labels |-> k.labels] /\ l = [family |-> l.family, labels |-> l.labels]
      /\ k.labels \in Nat /\ l.labels \in Nat /\ k.family \in Seq(Nat) /\ l.family \in Seq(Nat)
  BY DEF Keyed
<1>2. ASSUME NEW x \in Keyed, NEW y \in Keyed, x.labels = 0, y.labels # 0, Text(x) = Text(y) PROVE FALSE
  <2>1. Len(y.family) \in Nat /\ Text(y) \in Seq(Nat) /\ Len(Text(y)) = Len(y.family) + 2
        /\ Text(y)[Len(y.family) + 1] = Brace
    BY <1>2, TextIs
  <2>2. Len(y.family) + 1 \in 1 .. Len(x.family) /\ x.family[Len(y.family) + 1] = Brace
    BY <1>2, <2>1, TextIs
  <2> QED BY <2>2, TextIs
<1>3. CASE k.labels = 0 /\ l.labels = 0
  <2>1. k.family = l.family
    BY <1>3, TextIs
  <2> QED BY <1>1, <1>3, <2>1
<1>4. CASE k.labels # 0 /\ l.labels # 0
  <2>1. Len(k.family) = Len(l.family) /\ Len(k.family) \in Nat
    BY <1>1, <1>4, TextIs
  <2>2. /\ \A i \in 1 .. Len(k.family) : Text(k)[i] = k.family[i]
        /\ \A i \in 1 .. Len(l.family) : Text(l)[i] = l.family[i]
    BY <1>4, TextIs
  <2>3. k.family = l.family
    BY <1>1, <2>1, <2>2, SameText
  <2>4. k.labels = l.labels
    <3>1. Text(k)[Len(k.family) + 2] = k.labels /\ Text(l)[Len(l.family) + 2] = l.labels
      BY <1>4, TextIs
    <3> QED BY <2>1, <3>1
  <2> QED BY <1>1, <2>3, <2>4
<1> QED BY <1>2, <1>3, <1>4

(* Nothing comes between two keys of one family that both have labels, but   *)
(* keys of that family.                                                      *)
LEMMA FamilyStaysTogether ==
  ASSUME NEW x \in Keyed, NEW y \in Keyed, NEW z \in Keyed,
         x.family = z.family, x.labels # 0, z.labels # 0,
         Before(Text(x), Text(y)), Before(Text(y), Text(z))
  PROVE  y.family = x.family
<1> DEFINE F == x.family
           G == y.family
           n == Len(F) + 1
           a == Text(x)
           b == Text(y)
           c == Text(z)
<1>1. F \in Seq(Nat) /\ G \in Seq(Nat) /\ a \in Seq(Nat) /\ b \in Seq(Nat) /\ c \in Seq(Nat)
  BY TextIs
<1>2. Len(F) \in Nat /\ Len(G) \in Nat /\ n \in Nat /\ \A m \in 1 .. n : m \in 1 .. Len(F) \/ m = n
  <2>1. Len(F) \in Nat /\ Len(G) \in Nat
    BY <1>1, TextFacts
  <2> HIDE DEF F, G
  <2> QED BY <2>1
<1>3. /\ Len(a) = Len(F) + 2 /\ Len(c) = Len(F) + 2 /\ a[n] = Brace /\ c[n] = Brace
      /\ \A m \in 1 .. Len(F) : a[m] = F[m] /\ c[m] = F[m]
  BY TextIs
<1>4. \A i \in 1 .. Len(G) : G[i] # Brace
  BY TextIs
<1>5. /\ y.labels = 0 => b = G
      /\ y.labels # 0 => Len(b) = Len(G) + 2 /\ \A i \in 1 .. Len(G) : b[i] = G[i]
  BY TextIs
<1> HIDE DEF F, G, a, b, c
<1>6. n <= Len(a) /\ n <= Len(c) /\ \A m \in 1 .. n : a[m] = c[m]
  BY <1>2, <1>3
<1>7. Before(a, b) /\ Before(b, c)
  BY DEF a, b, c
<1>8. n < Len(b) /\ \A m \in 1 .. n : b[m] = a[m]
  <2> HIDE DEF n
  <2> QED BY <1>1, <1>2, <1>6, <1>7, BetweenAgrees
<1>9. b[n] = Brace /\ \A m \in 1 .. Len(F) : b[m] = F[m]
  BY <1>2, <1>3, <1>8
<1>10. y.labels # 0
  <2>1. n \in 1 .. Len(b)
    BY <1>2, <1>8
  <2> QED BY <1>4, <1>5, <1>9, <2>1
<1>11. Len(G) = Len(F)
  <2>1. n \notin 1 .. Len(G)
    BY <1>4, <1>5, <1>9, <1>10
  <2> QED BY <1>2, <1>5, <1>8, <1>10, <2>1
<1>12. \A m \in 1 .. Len(F) : G[m] = F[m]
  BY <1>5, <1>9, <1>10, <1>11
<1>13. G = F
  BY <1>1, <1>11, <1>12, SameText
<1> QED BY <1>13 DEF F, G

-----------------------------------------------------------------------------
(* Sorting: a key comes after as many as are before it.                      *)

Below(K, k) == {x \in K : Before(Text(x), Text(k))}
Rank(K, k)  == 1 + Cardinality(Below(K, k))

(* Who is before another has a lower rank. *)
LEMMA RanksRise ==
  ASSUME NEW K, IsFiniteSet(K), K \subseteq Keyed, NEW x \in K, NEW y \in K, Before(Text(x), Text(y))
  PROVE  Rank(K, x) < Rank(K, y)
<1>1. /\ Text(x) \in Seq(Nat) /\ Text(y) \in Seq(Nat)
      /\ \A z \in K : Text(z) \in Seq(Nat)
  BY TextIs
<1>2. \A z \in Below(K, x) : z \in Below(K, y)
  BY <1>1, BeforeIsTransitive DEF Below
<1>3. x \in Below(K, y) /\ x \notin Below(K, x)
  BY <1>1, BeforeIsStrict DEF Below
<1>4. Below(K, x) \union {x} \in SUBSET Below(K, y)
  BY <1>2, <1>3
<1>5. IsFiniteSet(Below(K, x)) /\ IsFiniteSet(Below(K, y))
  BY FS_Subset DEF Below
<1>6. Cardinality(Below(K, x) \union {x}) = Cardinality(Below(K, x)) + 1
  BY <1>3, <1>5, FS_AddElement
<1>7. Cardinality(Below(K, x) \union {x}) <= Cardinality(Below(K, y))
  BY <1>4, <1>5, FS_Subset
<1>8. Cardinality(Below(K, x)) \in Nat /\ Cardinality(Below(K, y)) \in Nat
  BY <1>5, FS_CardinalityType
<1> QED BY <1>6, <1>7, <1>8 DEF Rank

(* And all ranks are places. *)
LEMMA RankInRange ==
  ASSUME NEW K, IsFiniteSet(K), K \subseteq Keyed, NEW x \in K
  PROVE  Rank(K, x) \in 1 .. Cardinality(K)
<1>1. x \notin Below(K, x)
  BY TextIs, BeforeIsStrict DEF Below
<1>2. Below(K, x) \in SUBSET (K \ {x})
  BY <1>1 DEF Below
<1>3. IsFiniteSet(K \ {x}) /\ Cardinality(K \ {x}) = Cardinality(K) - 1
  BY FS_RemoveElement
<1>4. IsFiniteSet(Below(K, x)) /\ Cardinality(Below(K, x)) <= Cardinality(K \ {x})
  BY <1>2, <1>3, FS_Subset
<1>5. Cardinality(Below(K, x)) \in Nat /\ Cardinality(K) \in Nat
  BY <1>4, FS_CardinalityType
<1> QED BY <1>3, <1>4, <1>5 DEF Rank

(* Every place is taken, by one key.                                         *)
LEMMA SortedHasAll ==
  ASSUME NEW K, IsFiniteSet(K), K \subseteq Keyed
  PROVE  \A i \in 1 .. Cardinality(K) : Sorted(K)[i] \in K /\ Rank(K, Sorted(K)[i]) = i
<1> DEFINE n == Cardinality(K)
           f == [k \in K |-> Rank(K, k)]
<1>1. n \in Nat
  BY FS_CardinalityType
<1>2. f \in [K -> 1 .. n]
  BY RankInRange
<1>3. ASSUME NEW x \in K, NEW y \in K, x # y PROVE f[x] # f[y]
  <2>1. Text(x) \in Seq(Nat) /\ Text(y) \in Seq(Nat) /\ Text(x) # Text(y)
    BY <1>3, TextIs, TextsDiffer
  <2>2. Before(Text(x), Text(y)) \/ Before(Text(y), Text(x))
    BY <2>1, BeforeIsTotal
  <2>3. Rank(K, x) < Rank(K, y) \/ Rank(K, y) < Rank(K, x)
    BY <2>2, RanksRise
  <2>4. Rank(K, x) \in Nat /\ Rank(K, y) \in Nat
    BY <1>1, RankInRange
  <2> QED BY <2>3, <2>4
<1> HIDE DEF f
<1>4. f \in Injection(K, 1 .. n)
  BY <1>2, <1>3 DEF Injection, IsInjective
<1>5. IsFiniteSet(1 .. n) /\ Cardinality(1 .. n) = n
  <2>1. 1 \in Int /\ n \in Int
    BY <1>1
  <2> QED BY <1>1, <2>1, FS_Interval
<1>6. f \in Surjection(K, 1 .. n)
  <2> HIDE DEF n
  <2> QED BY <1>4, <1>5, FS_Injection DEF n
<1>7. ASSUME NEW i \in 1 .. n PROVE Sorted(K)[i] \in K /\ Rank(K, Sorted(K)[i]) = i
  <2>1. PICK k \in K : f[k] = i
    BY <1>6 DEF Surjection
  <2>2. i = 1 + Cardinality({x \in K : Before(Text(x), Text(k))})
    BY <2>1 DEF f, Rank, Below
  <2>3. Sorted(K)[i] = CHOOSE l \in K : i = 1 + Cardinality({x \in K : Before(Text(x), Text(l))})
    BY DEF Sorted
  <2>4. Sorted(K)[i] \in K /\ i = 1 + Cardinality({x \in K : Before(Text(x), Text(Sorted(K)[i]))})
    <3> HIDE DEF n
    <3> QED BY <2>2, <2>3
  <2> QED BY <2>4 DEF Rank, Below
<1> QED BY <1>7

(* The keys are in the order of their texts. *)
LEMMA SortedRises ==
  ASSUME NEW K, IsFiniteSet(K), K \subseteq Keyed,
         NEW i \in 1 .. Cardinality(K), NEW j \in 1 .. Cardinality(K), i < j
  PROVE  Before(Text(Sorted(K)[i]), Text(Sorted(K)[j]))
<1> DEFINE x == Sorted(K)[i]
           y == Sorted(K)[j]
<1>1. x \in K /\ y \in K /\ Rank(K, x) = i /\ Rank(K, y) = j
  BY SortedHasAll
<1> HIDE DEF x, y
<1>2. x # y /\ ~(j < i)
  <2>1. i \in Nat /\ j \in Nat
    BY FS_CardinalityType
  <2> QED BY <1>1, <2>1
<1>3. Text(x) \in Seq(Nat) /\ Text(y) \in Seq(Nat) /\ Text(x) # Text(y)
  BY <1>1, <1>2, TextIs, TextsDiffer
<1>4. Before(Text(x), Text(y)) \/ Before(Text(y), Text(x))
  BY <1>3, BeforeIsTotal
<1>5. ~Before(Text(y), Text(x))
  BY <1>1, <1>2, RanksRise
<1> QED BY <1>4, <1>5 DEF x, y

-----------------------------------------------------------------------------
(* Every name in a store, and in a copy of one, is a key, and there are      *)
(* finitely many.                                                            *)
KeysOf(f, K) == \A s \in Stores, kind \in Kinds : IsFiniteSet(DOMAIN f[s][kind]) /\ DOMAIN f[s][kind] \subseteq K

(* The inductive invariant: what is rendered has been sorted. *)
OInv ==
  /\ Shaped(series) /\ Shaped(view)
  /\ KeysOf(series, Keyed) /\ KeysOf(view, Keyed)
  /\ \A c \in Callers : pc[c] = "sample" => label[c] \in Labels
  /\ pc = [c \in Callers |-> pc[c]] /\ label = [c \in Callers |-> label[c]]
  /\ text = <<>> \/ \E K : IsFiniteSet(K) /\ K \subseteq Keyed /\ text = Sorted(K)

(* All names there can be are such keys. *)
LEMMA KeysAreKeyed ==
  /\ \A l \in Labels : CallKey(l) \in Keyed /\ TimeKey(l) \in Keyed
  /\ \A s \in Settings : s.key \in Keyed
<1>1. Labels \subseteq Nat
  BY Parameters
<1>2. \A f \in Families : f \in Seq(Nat) /\ \A i \in DOMAIN f : f[i] # Brace
  BY FamiliesCut
<1>3. CallFamily \in Families /\ TimeFamily \in Families /\ \A s \in Settings : s.key.family \in Families
  BY DEF Families
<1>4. \A l \in Labels : CallKey(l) \in Keyed /\ TimeKey(l) \in Keyed
  BY <1>1, <1>2, <1>3 DEF CallKey, TimeKey, Keyed
<1>5. ASSUME NEW s \in Settings PROVE s.key \in Keyed
  <2>1. s.key = [family |-> s.key.family, labels |-> s.key.labels] /\ s.key.labels \in Nat
    BY FamiliesCut
  <2>2. s.key.family \in Seq(Nat) /\ \A i \in DOMAIN s.key.family : s.key.family[i] # Brace
    BY <1>2, <1>3
  <2> DEFINE k == s.key
             F == s.key.family
             L == s.key.labels
  <2> HIDE DEF k, F, L
  <2>3. k = [family |-> F, labels |-> L] /\ L \in Nat /\ F \in Seq(Nat) /\ \A i \in DOMAIN F : F[i] # Brace
    BY <2>1, <2>2 DEF k, F, L
  <2>4. k \in Keyed
    BY <2>3 DEF Keyed
  <2> QED BY <2>4 DEF k
<1> QED BY <1>4, <1>5

(* One more name is recorded. *)
LEMMA RecordedKey ==
  ASSUME OInv, NEW s \in Stores, NEW kind \in Kinds, NEW k \in Keyed, NEW v,
         series' = With(series, s, kind, Put(series[s][kind], k, v))
  PROVE  Shaped(series)' /\ KeysOf(series', Keyed)
<1> DEFINE new == Put(series[s][kind], k, v)
           old == DOMAIN series[s][kind]
<1>1. IsFiniteSet(old) /\ old \subseteq Keyed /\ Shaped(series)
  BY DEF OInv, KeysOf
<1>2. DOMAIN new = old \union {k}
  BY DEF Put
<1>3. IsFiniteSet(DOMAIN new) /\ DOMAIN new \subseteq Keyed
  BY <1>1, <1>2, FS_AddElement
<1> HIDE DEF new
<1>4. /\ Shaped(series')
      /\ \A t \in Stores, x \in Kinds : series'[t][x] = IF t = s /\ x = kind THEN new ELSE series[t][x]
  BY <1>1, WithChanges DEF new
<1> QED BY <1>3, <1>4 DEF OInv, KeysOf

LEMMA InitOInv == Init => OInv
<1> SUFFICES ASSUME Init PROVE OInv
  OBVIOUS
<1>1. Shaped(series) /\ view = series /\ text = <<>>
  BY DEF Init, Shaped, Empty
<1>2. \A s \in Stores, kind \in Kinds : DOMAIN series[s][kind] = {}
  BY DEF Init, Empty
<1>3. KeysOf(series, Keyed)
  BY <1>2, FS_EmptySet DEF KeysOf
<1>4. /\ \A c \in Callers : pc[c] = "count"
      /\ pc = [c \in Callers |-> pc[c]] /\ label = [c \in Callers |-> label[c]]
  BY DEF Init
<1> QED BY <1>1, <1>3, <1>4 DEF OInv

LEMMA StepOInv == OInv /\ [Next]_vars => OInv'
<1> SUFFICES ASSUME OInv, [Next]_vars PROVE OInv'
  OBVIOUS
<1>1. ASSUME NEW c \in Callers, NEW l \in Labels, Count(c, l) PROVE OInv'
  <2>1. PICK v : series' = With(series, StoreOf(l), "counter", Put(series[StoreOf(l)]["counter"], CallKey(l), v))
    BY <1>1 DEF Count, With
  <2>2. /\ pc' = [pc EXCEPT ![c] = "sample"] /\ label' = [label EXCEPT ![c] = l]
        /\ view' = view /\ text' = text
    BY <1>1 DEF Count, scrape
  <2>3. Shaped(series)' /\ KeysOf(series', Keyed)
    BY <2>1, RecordedKey, KeysAreKeyed, StoreOfType DEF Kinds
  <2>4. \A e \in Callers : /\ pc'[e] = IF e = c THEN "sample" ELSE pc[e]
                           /\ label'[e] = IF e = c THEN l ELSE label[e]
    BY <2>2 DEF OInv
  <2>5. pc' = [e \in Callers |-> pc'[e]] /\ label' = [e \in Callers |-> label'[e]]
    BY <2>2 DEF OInv
  <2> QED BY <2>2, <2>3, <2>4, <2>5 DEF OInv, KeysOf, Shaped
<1>2. ASSUME NEW c \in Callers, NEW d \in Durations, Sample(c, d) PROVE OInv'
  <2>1. label[c] \in Labels
    BY <1>2 DEF Sample, OInv
  <2>2. PICK v : series' = With(series, StoreOf(label[c]), "histogram",
                                Put(series[StoreOf(label[c])]["histogram"], TimeKey(label[c]), v))
    BY <1>2 DEF Sample, With
  <2>3. pc' = [pc EXCEPT ![c] = "count"] /\ label' = label /\ view' = view /\ text' = text
    BY <1>2 DEF Sample, scrape
  <2>4. Shaped(series)' /\ KeysOf(series', Keyed)
    BY <2>1, <2>2, RecordedKey, KeysAreKeyed, StoreOfType DEF Kinds
  <2>5. \A e \in Callers : pc'[e] = IF e = c THEN "count" ELSE pc[e]
    BY <2>3 DEF OInv
  <2>6. pc' = [e \in Callers |-> pc'[e]]
    BY <2>3 DEF OInv
  <2> QED BY <2>3, <2>4, <2>5, <2>6 DEF OInv, KeysOf, Shaped
<1>3. ASSUME NEW s \in Settings, Publish(s) PROVE OInv'
  <2>1. s.store \in Stores /\ s.kind \in Kinds /\ s.key \in Keyed
    BY Parameters, KeysAreKeyed DEF Kinds
  <2>2. series' = With(series, s.store, s.kind, Put(series[s.store][s.kind], s.key, 1))
    BY <1>3 DEF Publish, With
  <2>3. pc' = pc /\ label' = label /\ view' = view /\ text' = text
    BY <1>3 DEF Publish, calls, scrape
  <2>4. Shaped(series)' /\ KeysOf(series', Keyed)
    BY <2>1, <2>2, RecordedKey
  <2> QED BY <2>3, <2>4 DEF OInv, KeysOf, Shaped
<1>4. ASSUME NEW s \in Stores, NEW next, CopyStore(s, next) PROVE OInv'
  <2>1. /\ view' = [view EXCEPT ![s] = series[s]] /\ series' = series
        /\ pc' = pc /\ label' = label /\ text' = text
    BY <1>4 DEF CopyStore, Snapshots, calls
  <2>2. \A t \in Stores : view'[t] = IF t = s THEN series[t] ELSE view[t]
    BY <2>1 DEF Shaped, OInv
  <2>3. Shaped(view)' /\ KeysOf(view', Keyed)
    BY <2>1, <2>2 DEF Shaped, OInv, KeysOf
  <2> QED BY <2>1, <2>3 DEF OInv, Shaped, KeysOf
<1>5. CASE CopyPublic \/ CopyPrivate
  BY <1>4, <1>5 DEF CopyPublic, CopyPrivate, Stores
<1>6. CASE Render
  <2> DEFINE K == UNION {Keys(kind) : kind \in Kinds}
  <2>1. ASSUME NEW kind \in Kinds PROVE IsFiniteSet(Keys(kind)) /\ Keys(kind) \subseteq Keyed
    <3>1. /\ IsFiniteSet(DOMAIN view["public"][kind]) /\ IsFiniteSet(DOMAIN view["private"][kind])
          /\ DOMAIN view["public"][kind] \subseteq Keyed /\ DOMAIN view["private"][kind] \subseteq Keyed
      BY DEF OInv, KeysOf, Stores
    <3> QED BY <3>1, FS_Union DEF Keys
  <2>2. K = (Keys("info") \union Keys("counter")) \union (Keys("gauge") \union Keys("histogram"))
    BY DEF Kinds
  <2>3. IsFiniteSet(Keys("info") \union Keys("counter")) /\ IsFiniteSet(Keys("gauge") \union Keys("histogram"))
    BY <2>1, FS_Union DEF Kinds
  <2>4. IsFiniteSet(K) /\ K \subseteq Keyed
    <3>1. K \subseteq Keyed
      BY <2>1
    <3> HIDE DEF K
    <3> QED BY <2>2, <2>3, <3>1, FS_Union
  <2>5. text' = Sorted(K) /\ series' = series /\ view' = view /\ pc' = pc /\ label' = label
    BY <1>6 DEF Render, calls
  <2> HIDE DEF K
  <2> QED BY <2>4, <2>5 DEF OInv, Shaped, KeysOf
<1>7. CASE UNCHANGED vars
  BY <1>7 DEF vars, calls, scrape, OInv, Shaped, KeysOf
<1> QED BY <1>1, <1>2, <1>3, <1>5, <1>6, <1>7 DEF Next

(* So a text that was sorted announces each family once. *)
LEMMA SortedHasOneHead ==
  ASSUME NEW K, IsFiniteSet(K), K \subseteq Keyed, text = Sorted(K)
  PROVE  OneHeadPerFamily
<1> SUFFICES ASSUME NEW i \in Heads, NEW j \in Heads, i < j, text[i].family = text[j].family,
                    ~ \E k \in DOMAIN text : text[k] = [family |-> text[i].family, labels |-> 0]
             PROVE  FALSE
  BY DEF OneHeadPerFamily
<1> DEFINE n == Cardinality(K)
           m == j - 1
<1>1. n \in Nat /\ DOMAIN text = 1 .. n
  BY FS_CardinalityType DEF Sorted
<1>2. i \in 1 .. n /\ j \in 1 .. n /\ m \in 1 .. n /\ i <= m /\ m < j
  BY <1>1 DEF Heads
<1>3. text[m].family # text[j].family
  BY <1>1, <1>2 DEF Heads
<1>4. i # m /\ i < m
  BY <1>2, <1>3
<1>5. \A k \in 1 .. n : text[k] \in Keyed
  BY SortedHasAll
<1>6. \A k \in 1 .. n : text[k] = [family |-> text[k].family, labels |-> text[k].labels]
  BY <1>5 DEF Keyed
<1>7. text[i].labels # 0 /\ text[j].labels # 0
  <2>1. \A k \in 1 .. n : text[k].family = text[i].family => text[k].labels # 0
    BY <1>1, <1>6
  <2> QED BY <1>2, <2>1
<1>8. Before(Text(text[i]), Text(text[m])) /\ Before(Text(text[m]), Text(text[j]))
  <2> HIDE DEF m
  <2> QED BY <1>2, <1>4, SortedRises
<1>9. text[m].family = text[i].family
  <2> HIDE DEF m, n
  <2> QED BY <1>2, <1>5, <1>7, <1>8, FamilyStaysTogether
<1> QED BY <1>3, <1>9

(* A family is announced once: in the text of a scrape, whatever is recorded *)
(* and published, another family stands between two series of one only if    *)
(* that one has a series without labels (OneHeadPerFamily; metrics.go).      *)
THEOREM MetricsOneHeadPerFamily == Spec => []OneHeadPerFamily
<1>1. OInv => OneHeadPerFamily
  <2>1. text = <<>> => OneHeadPerFamily
    BY DEF OneHeadPerFamily, Heads
  <2> QED BY <2>1, SortedHasOneHead DEF OInv
<1> QED BY <1>1, InitOInv, StepOInv, PTL DEF Spec

-----------------------------------------------------------------------------
(* The rest of the type: a counter counts no more calls than were served,    *)
(* and what was sampled with what is still to be, no more either.            *)

Allowed(kind) == IF kind = "histogram" THEN [Slots -> Nat] ELSE IF kind = "counter" THEN 1 .. served ELSE {1}

Filled(f) ==
  /\ Shaped(f)
  /\ \A s \in Stores, kind \in Kinds : MapOK(f[s][kind], Allowed(kind))

Tallied ==
  /\ served \in Nat /\ served <= MaxCalls
  /\ IsFiniteSet(Busy)
  /\ timed \in [Labels \X Durations -> Nat]
  /\ \A x \in Labels \X Durations : timed[x] + Cardinality(Busy) <= served

CallersTyped ==
  /\ pc \in [Callers -> {"count", "sample"}] /\ label \in [Callers -> Labels \union {0}]
  /\ \A c \in Callers : pc[c] = "sample" => label[c] \in Labels
  /\ spc \in {"public", "private", "render", "done"} /\ authed \in BOOLEAN

TInv == Filled(series) /\ Filled(view) /\ Tallied /\ CallersTyped

LEMMA InitTInv == Init => TInv
<1> SUFFICES ASSUME Init PROVE TInv
  OBVIOUS
<1>1. Shaped(series) /\ view = series
  BY DEF Init, Shaped, Empty
<1>2. \A s \in Stores, kind \in Kinds : DOMAIN series[s][kind] = {}
  BY DEF Init, Empty
<1>3. Filled(series) /\ Filled(view)
  BY <1>1, <1>2 DEF Filled, MapOK
<1>4. Busy = {} /\ IsFiniteSet(Busy) /\ Cardinality(Busy) = 0
  <2>1. Busy = {}
    BY DEF Init, Busy
  <2> QED BY <2>1, FS_EmptySet
<1>5. Tallied
  <2>1. served = 0 /\ timed = [x \in Labels \X Durations |-> 0]
    BY DEF Init
  <2> QED BY <1>4, <2>1, Parameters DEF Tallied
<1>6. CallersTyped
  BY DEF Init, CallersTyped
<1> QED BY <1>3, <1>5, <1>6 DEF TInv

(* What is allowed grows with the calls served. *)
LEMMA FilledStays ==
  ASSUME NEW f, Filled(f), served \in Nat, served' = served \/ served' = served + 1, f' = f
  PROVE  Filled(f)'
<1>1. \A kind \in Kinds : Allowed(kind) \subseteq Allowed(kind)'
  BY DEF Allowed
<1> QED BY <1>1 DEF Filled, MapOK, Shaped

(* One key of one kind of a store gets a value that is allowed. *)
LEMMA FilledPut ==
  ASSUME Filled(series), NEW s \in Stores, NEW kind \in Kinds, NEW k \in AllKeys, NEW v,
         v \in Allowed(kind)', served \in Nat, served' = served \/ served' = served + 1,
         series' = With(series, s, kind, Put(series[s][kind], k, v))
  PROVE  Filled(series)'
<1> DEFINE new == Put(series[s][kind], k, v)
<1>1. \A x \in Kinds : Allowed(x) \subseteq Allowed(x)'
  BY DEF Allowed
<1>2. Shaped(series) /\ \A t \in Stores, x \in Kinds : MapOK(series[t][x], Allowed(x))
  BY DEF Filled
<1>3. MapOK(new, Allowed(kind)')
  <2> DEFINE old == series[s][kind]
  <2>1. MapOK(old, Allowed(kind)')
    BY <1>1, <1>2 DEF MapOK
  <2> HIDE DEF old
  <2>2. MapOK(Put(old, k, v), Allowed(kind)')
    BY <2>1 DEF MapOK, Put
  <2> QED BY <2>2 DEF old
<1> HIDE DEF new
<1>4. /\ Shaped(series')
      /\ \A t \in Stores, x \in Kinds : series'[t][x] = IF t = s /\ x = kind THEN new ELSE series[t][x]
  BY <1>2, WithChanges DEF new
<1>5. \A t \in Stores, x \in Kinds : MapOK(series'[t][x], Allowed(x)')
  <2> TAKE t \in Stores, x \in Kinds
  <2>1. CASE t = s /\ x = kind
    BY <1>3, <1>4, <2>1
  <2>2. CASE ~(t = s /\ x = kind)
    <3>1. MapOK(series[t][x], Allowed(x)')
      BY <1>1, <1>2 DEF MapOK
    <3> QED BY <1>4, <2>2, <3>1
  <2> QED BY <2>1, <2>2
<1> QED BY <1>4, <1>5 DEF Filled, MapOK

LEMMA HistogramTyped ==
  ASSUME NEW h \in [Slots -> Nat], NEW d \in Nat
  PROVE  Sampled(h, d) \in [Slots -> Nat]
<1>1. 1 \in Slots /\ Slots \subseteq Nat
  BY Parameters DEF Slots
<1> QED BY <1>1 DEF Sampled, SampledFrom

LEMMA StepTInv == TInv /\ [Next]_vars => TInv'
<1> SUFFICES ASSUME TInv, [Next]_vars PROVE TInv'
  OBVIOUS
<1>0. /\ Filled(series) /\ Filled(view) /\ Tallied /\ CallersTyped
      /\ Shaped(series) /\ Shaped(view) /\ served \in Nat
      /\ pc \in [Callers -> {"count", "sample"}] /\ label \in [Callers -> Labels \union {0}]
  BY DEF TInv, Filled, Tallied, CallersTyped
<1>1. IsFiniteSet(Busy) /\ Cardinality(Busy) \in Nat
  BY <1>0, FS_CardinalityType DEF Tallied
<1>2. ASSUME NEW c \in Callers, NEW l \in Labels, Count(c, l) PROVE TInv'
  <2> DEFINE s    == StoreOf(l)
             n    == Get(series[s]["counter"], CallKey(l), 0)
  <2>1. s \in Stores /\ "counter" \in Kinds /\ CallKey(l) \in AllKeys
    BY StoreOfType DEF Kinds, AllKeys
  <2>2. /\ served' = served + 1 /\ served < MaxCalls /\ timed' = timed /\ view' = view
        /\ pc[c] = "count" /\ pc' = [pc EXCEPT ![c] = "sample"] /\ label' = [label EXCEPT ![c] = l]
        /\ spc' = spc /\ authed' = authed
    BY <1>2 DEF Count, scrape
  <2>3. n \in 0 .. served
    <3>1. MapOK(series[s]["counter"], 1 .. served)
      BY <1>0, <2>1 DEF Filled, Allowed
    <3> QED BY <1>0, <3>1 DEF MapOK, Get
  <2>4. series' = With(series, s, "counter", Put(series[s]["counter"], CallKey(l), n + 1))
    BY <1>2 DEF Count, With
  <2> HIDE DEF s, n
  <2>5. n + 1 \in Allowed("counter")'
    BY <1>0, <2>2, <2>3 DEF Allowed
  <2>6. Filled(series)' /\ Filled(view)'
    BY <1>0, <2>1, <2>2, <2>4, <2>5, FilledPut, FilledStays
  <2>7. Busy' = Busy \union {c} /\ c \notin Busy
    BY <1>0, <2>2 DEF Busy
  <2>8. IsFiniteSet(Busy') /\ Cardinality(Busy') = Cardinality(Busy) + 1
    BY <1>1, <2>7, FS_AddElement
  <2>9. Tallied'
    BY <1>0, <1>1, <2>2, <2>8, Parameters DEF Tallied
  <2>10. CallersTyped'
    BY <1>0, <2>2 DEF CallersTyped
  <2> QED BY <2>6, <2>9, <2>10 DEF TInv
<1>3. ASSUME NEW c \in Callers, NEW d \in Durations, Sample(c, d) PROVE TInv'
  <2> DEFINE l == label[c]
             s == StoreOf(l)
             h == Get(series[s]["histogram"], TimeKey(l), [i \in Slots |-> 0])
  <2>1. /\ l \in Labels /\ s \in Stores /\ "histogram" \in Kinds /\ TimeKey(l) \in AllKeys
        /\ d \in Nat
    BY <1>0, <1>3, StoreOfType, Parameters DEF Kinds, AllKeys, Sample, CallersTyped
  <2>2. /\ served' = served /\ timed' = [timed EXCEPT ![<<l, d>>] = @ + 1] /\ view' = view
        /\ pc[c] = "sample" /\ pc' = [pc EXCEPT ![c] = "count"] /\ label' = label
        /\ spc' = spc /\ authed' = authed
    BY <1>3 DEF Sample, scrape
  <2>3. series' = With(series, s, "histogram", Put(series[s]["histogram"], TimeKey(l), Sampled(h, d)))
    BY <1>3 DEF Sample, With
  <2>4. h \in [Slots -> Nat]
    <3>1. MapOK(series[s]["histogram"], [Slots -> Nat])
      BY <1>0, <2>1 DEF Filled, Allowed
    <3>2. [i \in Slots |-> 0] \in [Slots -> Nat]
      OBVIOUS
    <3> QED BY <3>1, <3>2 DEF MapOK, Get
  <2> HIDE DEF l, s, h
  <2>5. Sampled(h, d) \in Allowed("histogram")'
    BY <2>1, <2>4, HistogramTyped DEF Allowed
  <2>6. Filled(series)' /\ Filled(view)'
    BY <1>0, <2>1, <2>2, <2>3, <2>5, FilledPut, FilledStays
  <2>7. Busy' = Busy \ {c} /\ c \in Busy
    BY <1>0, <2>2 DEF Busy
  <2>8. IsFiniteSet(Busy') /\ Cardinality(Busy') = Cardinality(Busy) - 1
    BY <1>1, <2>7, FS_RemoveElement
  <2>9. <<l, d>> \in Labels \X Durations
    BY <2>1
  <2>10. Tallied'
    <3>1. \A x \in Labels \X Durations : timed[x] \in Nat /\ timed[x] + Cardinality(Busy) <= served
      BY <1>0 DEF Tallied
    <3>2. \A x \in Labels \X Durations : timed'[x] = timed[x] \/ timed'[x] = timed[x] + 1
      BY <1>0, <2>2, <2>9 DEF Tallied
    <3>3. timed' \in [Labels \X Durations -> Nat]
      BY <1>0, <2>2, <2>9 DEF Tallied
    <3>4. \A x \in Labels \X Durations : timed'[x] + Cardinality(Busy') <= served
      BY <1>0, <1>1, <2>8, <3>1, <3>2
    <3> QED BY <1>0, <2>2, <2>8, <3>3, <3>4 DEF Tallied
  <2>11. CallersTyped'
    BY <1>0, <2>2 DEF CallersTyped
  <2> QED BY <2>6, <2>10, <2>11 DEF TInv
<1>4. ASSUME UNCHANGED calls PROVE Busy' = Busy /\ Tallied'
  BY <1>0, <1>4 DEF calls, Busy, Tallied
<1>5. ASSUME NEW s \in Settings, Publish(s) PROVE TInv'
  <2>1. s.store \in Stores /\ s.kind \in {"info", "gauge"} /\ s.kind \in Kinds /\ s.key \in AllKeys
    BY Parameters DEF Kinds, AllKeys
  <2>2. series' = With(series, s.store, s.kind, Put(series[s.store][s.kind], s.key, 1))
    BY <1>5 DEF Publish, With
  <2>3. 1 \in Allowed(s.kind)'
    BY <2>1 DEF Allowed
  <2>4. UNCHANGED <<pc, label, timed, served, spc, authed, view>>
    BY <1>5 DEF Publish, calls, scrape
  <2>5. Filled(series)' /\ Filled(view)'
    BY <1>0, <2>1, <2>2, <2>3, <2>4, FilledPut, FilledStays
  <2> QED BY <1>0, <1>4, <2>4, <2>5 DEF TInv, CallersTyped, calls
<1>6. ASSUME NEW s \in Stores, NEW next \in {"private", "render"}, CopyStore(s, next) PROVE TInv'
  <2>1. view' = [view EXCEPT ![s] = series[s]] /\ UNCHANGED <<series, pc, label, timed, served, authed>>
        /\ spc' = next
    BY <1>6 DEF CopyStore, Snapshots, calls
  <2>2. \A t \in Stores : view'[t] = IF t = s THEN series[t] ELSE view[t]
    BY <1>0, <2>1 DEF Shaped
  <2>3. Shaped(view)'
    BY <1>0, <2>1, <2>2 DEF Shaped
  <2>4. Filled(series)' /\ Filled(view)'
    <3>1. Filled(series)'
      BY <1>0, <2>1, FilledStays
    <3>2. \A kind \in Kinds : Allowed(kind)' = Allowed(kind)
      BY <2>1 DEF Allowed
    <3> QED BY <1>0, <2>2, <2>3, <3>1, <3>2 DEF Filled
  <2> QED BY <1>0, <1>4, <2>1, <2>4 DEF TInv, CallersTyped, calls
<1>7. CASE CopyPublic \/ CopyPrivate
  BY <1>6, <1>7 DEF CopyPublic, CopyPrivate, Stores
<1>8. CASE Render \/ UNCHANGED vars
  <2>1. UNCHANGED <<series, view, pc, label, timed, served, authed>> /\ spc' \in {spc, "done"}
    BY <1>8 DEF Render, vars, calls, scrape
  <2>2. Filled(series)' /\ Filled(view)'
    BY <1>0, <2>1, FilledStays
  <2> QED BY <1>0, <1>4, <2>1, <2>2 DEF TInv, CallersTyped, calls
<1> QED BY <1>2, <1>3, <1>5, <1>7, <1>8 DEF Next

(* No variable leaves its type: in the stores and in their copies are only   *)
(* keys and values of their kind, no counter is beyond the calls that were   *)
(* served, and no more samples were taken of a call than that (TypeOK;       *)
(* metrics.go:20-140).                                                       *)
THEOREM MetricsTypeOK == Spec => []TypeOK
<1>1. ASSUME TInv PROVE TypeOK
  <2>1. /\ served \in 0 .. MaxCalls /\ (1 .. served) \subseteq 1 .. MaxCalls
        /\ timed \in [Labels \X Durations -> 0 .. MaxCalls]
    <3>1. /\ served \in Nat /\ served <= MaxCalls /\ MaxCalls \in Nat
          /\ Cardinality(Busy) \in Nat /\ timed \in [Labels \X Durations -> Nat]
          /\ \A x \in Labels \X Durations : timed[x] + Cardinality(Busy) <= served
      BY <1>1, FS_CardinalityType, Parameters DEF TInv, Tallied
    <3> QED BY <3>1
  <2>2. ASSUME NEW f, Filled(f), NEW s \in Stores
        PROVE  /\ MapOK(f[s].info, {1}) /\ MapOK(f[s].gauge, {1})
               /\ MapOK(f[s].counter, 1 .. MaxCalls) /\ MapOK(f[s].histogram, [Slots -> Nat])
    <3>1. /\ MapOK(f[s].info, {1}) /\ MapOK(f[s].gauge, {1})
          /\ MapOK(f[s].counter, 1 .. served) /\ MapOK(f[s].histogram, [Slots -> Nat])
      BY <2>2 DEF Filled, Kinds, Allowed
    <3>2. MapOK(f[s].counter, 1 .. MaxCalls)
      BY <2>1, <3>1 DEF MapOK
    <3> QED BY <3>1, <3>2
  <2> QED BY <1>1, <2>1, <2>2 DEF TInv, CallersTyped, TypeOK
<1> QED BY <1>1, InitTInv, StepTInv, PTL DEF Spec

=============================================================================
