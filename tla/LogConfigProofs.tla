--------------------------- MODULE LogConfigProofs --------------------------
(* Proofs about LogConfig, for any goroutines that log or reconfigure, any   *)
(* settings and any number of records and sinks: between two calls of        *)
(* ConfigureLogging one configuration is in effect and only its sink open;   *)
(* and at all times no record is lost, none that is urgent is out of sight,  *)
(* and the sinks have them in order, over the flush of the bootstrap buffer. *)
EXTENDS LogConfig, TLAPS, WellFoundedInduction

(* The sinks, whatever their lines are. *)
SinksTyped ==
  \E L : sinks \in Seq([cfg : Settings, stderr : BOOLEAN, open : BOOLEAN, lines : L])

Typed ==
  /\ SinksTyped
  /\ base   \in 0 .. Newest
  /\ closer \in 0 .. Newest
  /\ logMu  \in Callers \union {Nobody}
  /\ cpc    \in [Callers -> CallerPC]
  /\ cfg    \in [Callers -> Settings \union {Nobody}]

(* Whoever is in ConfigureLogging holds logMu, and applies some settings. *)
Locked == \A c \in Callers : cpc[c] # "idle" => logMu = c /\ cfg[c] \in Settings

(* Of the first n sinks only the one to be closed next, and those on stderr, *)
(* are open.                                                                 *)
Opened(n) ==
  \A k \in 1 .. n : sinks[k].open = (k = closer) \/ (sinks[k].stderr /\ sinks[k].open)

(* Nothing was changed yet since the last call returned. *)
Settled ==
  /\ closer = base /\ Opened(Newest)
  /\ applied => base # 0 /\ sinks[base].cfg = key /\ level = LevelOf[key]

(* A new sink was made for the settings of c, next to those there were. *)
Made(c) ==
  /\ closer < Newest /\ Opened(Newest - 1)
  /\ sinks[Newest].open /\ sinks[Newest].cfg = cfg[c]

Progress(c) ==
  /\ cpc[c] \in {"open", "warn", "fallback"} => Settled
  /\ cpc[c] \in {"swap", "replay", "install", "level", "close"} => Made(c)
  /\ cpc[c] \in {"level", "close"} => base = Newest
  /\ cpc[c] = "close" => level = LevelOf[cfg[c]]

IInv ==
  /\ Typed /\ Locked
  /\ logMu = Nobody => Settled
  /\ \A c \in Callers : Progress(c)

-----------------------------------------------------------------------------

SinkOf(L) == [cfg : Settings, stderr : BOOLEAN, open : BOOLEAN, lines : L]

(* The sinks differ in their lines only. *)
SameSinks ==
  /\ Newest' = Newest
  /\ \A k \in 1 .. Newest :
       /\ sinks'[k].cfg = sinks[k].cfg
       /\ sinks'[k].stderr = sinks[k].stderr
       /\ sinks'[k].open = sinks[k].open

LEMMA LengthIsNat == SinksTyped => Newest \in Nat
  BY DEF SinksTyped, Newest

LEMMA SeqGrows ==
  ASSUME NEW S, NEW T, S \subseteq T, NEW s \in Seq(S)
  PROVE  s \in Seq(T)
<1>1. \A i \in 1 .. Len(s) : s[i] \in T
  OBVIOUS
<1> QED BY <1>1

LEMMA Flags ==
  ASSUME SinksTyped, NEW k \in 1 .. Newest
  PROVE  sinks[k].stderr \in BOOLEAN /\ sinks[k].open \in BOOLEAN
<1>1. PICK L : sinks \in Seq(SinkOf(L))
  BY DEF SinksTyped, SinkOf
<1>2. sinks[k] \in SinkOf(L)
  BY <1>1 DEF Newest
<1> QED BY <1>2 DEF SinkOf

(* Writing lines to a sink is a step of this kind. *)
LEMMA LinesWritten ==
  ASSUME SinksTyped, NEW k \in 1 .. Newest, NEW q, sinks' = [sinks EXCEPT ![k].lines = q]
  PROVE  /\ SinksTyped' /\ SameSinks
         /\ \A j \in 1 .. Newest : sinks'[j].lines = IF j = k THEN q ELSE sinks[j].lines
<1>1. PICK L : sinks \in Seq(SinkOf(L))
  BY DEF SinksTyped, SinkOf
<1> DEFINE M == L \union {q}
<1>2. sinks[k] \in SinkOf(L) /\ [sinks[k] EXCEPT !.lines = q] \in SinkOf(M)
  <2>1. sinks[k] \in SinkOf(L)
    BY <1>1 DEF Newest
  <2> QED BY <2>1 DEF SinkOf
<1>3. SinkOf(L) \subseteq SinkOf(M)
  BY DEF SinkOf
<1>4. sinks' \in Seq(SinkOf(M)) /\ Len(sinks') = Len(sinks)
  <2>1. sinks \in Seq(SinkOf(M))
    BY <1>1, <1>3, SeqGrows
  <2>2. sinks' = [sinks EXCEPT ![k] = [sinks[k] EXCEPT !.lines = q]]
    BY <1>1
  <2> QED BY <1>2, <2>1, <2>2 DEF Newest
<1>5. ASSUME NEW j \in 1 .. Newest
      PROVE  /\ sinks'[j].cfg = sinks[j].cfg
             /\ sinks'[j].stderr = sinks[j].stderr
             /\ sinks'[j].open = sinks[j].open
             /\ sinks'[j].lines = IF j = k THEN q ELSE sinks[j].lines
  <2>1. sinks[j] \in SinkOf(L)
    BY <1>1 DEF Newest
  <2>2. sinks'[j] = IF j = k THEN [sinks[j] EXCEPT !.lines = q] ELSE sinks[j]
    BY <1>1 DEF Newest
  <2> QED BY <2>1, <2>2 DEF SinkOf
<1>6. \E K : sinks' \in Seq(SinkOf(K))
  BY <1>4
<1> QED BY <1>4, <1>5, <1>6 DEF SameSinks, SinksTyped, SinkOf, Newest

(* A record that is handled adds a line to a sink, at most. *)
LEMMA DeliverKeeps ==
  ASSUME SinksTyped, base \in 0 .. Newest, NEW v, Deliver(v)
  PROVE  SinksTyped' /\ SameSinks
<1>1. sinks' = sinks \/ \E q : base \in 1 .. Newest /\ sinks' = [sinks EXCEPT ![base].lines = q]
  <2>1. CASE v < level \/ base = 0
    BY <2>1 DEF Deliver, WriteTee
  <2>2. CASE ~(v < level \/ base = 0) /\ sinks[base].open
    <3>1. WriteSink(base, Len(log) + 1) /\ base \in 1 .. Newest
      BY <2>2, LengthIsNat DEF Deliver
    <3> QED BY <2>2, <3>1 DEF WriteSink
  <2>3. CASE ~(v < level \/ base = 0) /\ ~sinks[base].open
    BY <2>3 DEF Deliver, WriteSink
  <2> QED BY <2>1, <2>2, <2>3
<1>2. CASE sinks' = sinks
  BY <1>2 DEF SinksTyped, SameSinks, Newest
<1>3. CASE \E q : base \in 1 .. Newest /\ sinks' = [sinks EXCEPT ![base].lines = q]
  BY <1>3, LinesWritten
<1> QED BY <1>1, <1>2, <1>3

(* Where the sinks are the same, so is what is said of them. *)
LEMMA SinksKept ==
  ASSUME Typed, SameSinks, UNCHANGED <<base, closer, applied, key, level>>, Settled
  PROVE  Settled'
  BY LengthIsNat DEF SameSinks, Settled, Opened, Typed

LEMMA MadeKept ==
  ASSUME Typed, SameSinks, closer' = closer, NEW c \in Callers, cfg'[c] = cfg[c], Made(c)
  PROVE  Made(c)'
<1>1. Newest \in Nat /\ Newest \in 1 .. Newest /\ closer \in 0 .. Newest
  BY LengthIsNat DEF Made, Typed
<1> QED BY <1>1 DEF SameSinks, Made, Opened

(* A step that changes at most the lines and where a caller is. *)
LEMMA QuietStep ==
  ASSUME IInv, SinksTyped', SameSinks, UNCHANGED <<base, closer, applied, key, level, logMu, cfg>>,
         cpc' \in [Callers -> CallerPC],
         \A c \in Callers : \/ cpc'[c] = cpc[c]
                            \/ cpc[c] = "warn" /\ cpc'[c] = "fallback"
                            \/ cpc[c] = "open" /\ cpc'[c] = "warn"
                            \/ cpc[c] = "replay" /\ cpc'[c] = "install"
                            \/ cpc[c] = "swap" /\ cpc'[c] = "replay"
  PROVE  IInv'
<1>1. Typed' /\ Locked'
  BY DEF IInv, Typed, Locked, SameSinks
<1>2. logMu' = Nobody => Settled'
  BY SinksKept DEF IInv
<1>3. ASSUME NEW c \in Callers PROVE Progress(c)'
  <2>1. cpc'[c] \in {"open", "warn", "fallback"} => Settled'
    BY SinksKept DEF IInv, Progress
  <2>2. cpc'[c] \in {"swap", "replay", "install", "level", "close"} => Made(c)'
    BY MadeKept DEF IInv, Progress
  <2>3. /\ cpc'[c] \in {"level", "close"} => base' = Newest'
        /\ cpc'[c] = "close" => level' = LevelOf[cfg'[c]]
    BY DEF IInv, Progress, SameSinks
  <2> QED BY <2>1, <2>2, <2>3 DEF Progress
<1> QED BY <1>1, <1>2, <1>3 DEF IInv

LEMMA SinkAdded ==
  ASSUME Typed, NEW c \in Callers, NEW onStderr \in BOOLEAN, cfg[c] \in Settings,
         NewSink(c, onStderr)
  PROVE  /\ SinksTyped'
         /\ Newest' = Newest + 1
         /\ \A k \in 1 .. Newest : sinks'[k] = sinks[k]
         /\ sinks'[Newest + 1].open /\ sinks'[Newest + 1].cfg = cfg[c]
         /\ sinks'[Newest + 1].lines = <<>>
<1>1. PICK L : sinks \in Seq(SinkOf(L))
  BY DEF Typed, SinksTyped, SinkOf
<1> DEFINE e == [cfg |-> cfg[c], stderr |-> onStderr, open |-> TRUE, lines |-> <<>>]
           M == L \union {<<>>}
<1>2. sinks \in Seq(SinkOf(M)) /\ e \in SinkOf(M)
  <2>1. SinkOf(L) \subseteq SinkOf(M)
    BY DEF SinkOf
  <2>2. sinks \in Seq(SinkOf(M))
    BY <1>1, <2>1, SeqGrows
  <2> QED BY <2>2 DEF SinkOf
<1>3. sinks' = Append(sinks, e)
  BY DEF NewSink
<1> HIDE DEF e, M
<1>4. /\ sinks' \in Seq(SinkOf(M)) /\ Len(sinks') = Len(sinks) + 1
      /\ \A k \in 1 .. Len(sinks) : sinks'[k] = sinks[k]
      /\ sinks'[Len(sinks) + 1] = e
  BY <1>2, <1>3
<1>5. \E K : sinks' \in Seq(SinkOf(K))
  BY <1>4
<1>6. e.open /\ e.cfg = cfg[c] /\ e.lines = <<>>
  BY DEF e
<1> QED BY <1>4, <1>5, <1>6 DEF SinksTyped, SinkOf, Newest

LEMMA SinkClosed ==
  ASSUME Typed,
         sinks' = IF closer = 0 THEN sinks
                  ELSE [sinks EXCEPT ![closer].open = sinks[closer].stderr]
  PROVE  /\ SinksTyped' /\ Newest' = Newest
         /\ \A k \in 1 .. Newest : /\ sinks'[k].cfg = sinks[k].cfg
                                   /\ sinks'[k].stderr = sinks[k].stderr
                                   /\ sinks'[k].open = IF k = closer THEN sinks[k].stderr
                                                                     ELSE sinks[k].open
                                   /\ sinks'[k].lines = sinks[k].lines
<1>0. SinksTyped /\ Newest \in Nat
  BY LengthIsNat DEF Typed
<1>1. PICK L : sinks \in Seq(SinkOf(L))
  BY <1>0 DEF SinksTyped, SinkOf
<1>2. CASE closer = 0
  <2>1. sinks' = sinks /\ \A k \in 1 .. Newest : k # closer
    BY <1>2
  <2> QED BY <1>0, <2>1 DEF SinksTyped, Newest
<1>3. CASE closer # 0
  <2>1. closer \in 1 .. Newest /\ sinks' = [sinks EXCEPT ![closer].open = sinks[closer].stderr]
    BY <1>0, <1>3 DEF Typed
  <2>2. \A k \in 1 .. Newest : sinks[k] \in SinkOf(L)
    BY <1>1 DEF Newest
  <2>3. [sinks[closer] EXCEPT !.open = sinks[closer].stderr] \in SinkOf(L)
    BY <2>1, <2>2 DEF SinkOf
  <2>4. sinks' \in Seq(SinkOf(L)) /\ Len(sinks') = Len(sinks)
    BY <1>1, <2>1, <2>3 DEF Newest
  <2>5. \A k \in 1 .. Newest :
          sinks'[k] = IF k = closer THEN [sinks[k] EXCEPT !.open = sinks[k].stderr]
                                    ELSE sinks[k]
    BY <1>1, <2>1 DEF Newest
  <2>6. SinksTyped'
    BY <2>4 DEF SinksTyped, SinkOf
  <2> QED BY <2>2, <2>4, <2>5, <2>6 DEF SinkOf, Newest
<1> QED BY <1>2, <1>3

-----------------------------------------------------------------------------

LEMMA InitIInv == Init => IInv
<1> SUFFICES ASSUME Init PROVE IInv
  OBVIOUS
<1>1. sinks = <<>> /\ Newest = 0
  BY DEF Init, Newest
<1>2. SinksTyped
  <2>1. <<>> \in Seq(SinkOf({}))
    OBVIOUS
  <2> QED BY <1>1, <2>1 DEF SinksTyped, SinkOf
<1>3. Typed
  BY <1>1, <1>2 DEF Init, Typed, CallerPC
<1>4. Locked /\ Settled
  BY <1>1 DEF Init, Locked, Settled, Opened
<1>5. \A c \in Callers : Progress(c)
  BY DEF Init, Progress
<1> QED BY <1>3, <1>4, <1>5 DEF IInv

LEMMA StepIInv == IInv /\ [Next]_vars => IInv'
<1> SUFFICES ASSUME IInv, [Next]_vars PROVE IInv'
  OBVIOUS
<1> USE NobodyCalls DEF Goto, config, boot, fanout, hist
<1>0. Typed /\ Locked /\ SinksTyped /\ Newest \in Nat
  BY LengthIsNat DEF IInv, Typed
<1>1. ASSUME Install PROVE IInv'
  BY <1>0, <1>1, QuietStep DEF Install, SameSinks, Typed, SinksTyped, Newest
<1>2. ASSUME NEW l \in Loggers, NEW v \in Levels, Log(l, v) PROVE IInv'
  BY <1>0, <1>2, QuietStep DEF Log, SameSinks, Typed, SinksTyped, Newest
<1>3. ASSUME NEW l \in Loggers, Handle(l) PROVE IInv'
  <2>1. SinksTyped' /\ SameSinks
    BY <1>0, <1>3, DeliverKeeps DEF Handle, Typed
  <2> QED BY <1>0, <1>3, <2>1, QuietStep DEF Handle, Typed
<1>4. ASSUME NEW c \in Callers, NEW s \in Settings, Configure(c, s) PROVE IInv'
  <2>1. Settled /\ Settled'
    BY <1>4 DEF Configure, IInv, Settled, Opened, Newest
  <2>2. Typed' /\ Locked'
    BY <1>0, <1>4 DEF Configure, Typed, SinksTyped, Locked, CallerPC, Newest
  <2>3. \A d \in Callers : cpc'[d] = IF d = c THEN "open" ELSE "idle"
    BY <1>0, <1>4 DEF Configure, Locked, Typed
  <2>4. \A d \in Callers : Progress(d)'
    BY <2>1, <2>3 DEF Progress
  <2> QED BY <1>4, <2>1, <2>2, <2>4 DEF Configure, IInv
<1>5. ASSUME NEW c \in Callers, NEW onStderr \in BOOLEAN, cpc[c] \in {"open", "fallback"},
             NewSink(c, onStderr), cpc' = [cpc EXCEPT ![c] = "swap"],
             UNCHANGED <<base, closer, applied, key, level, logMu, cfg>>
      PROVE  IInv'
  <2>1. logMu = c /\ cfg[c] \in Settings /\ Settled
    BY <1>0, <1>5 DEF Locked, IInv, Progress
  <2>2. /\ SinksTyped' /\ Newest' = Newest + 1
        /\ \A k \in 1 .. Newest : sinks'[k] = sinks[k]
        /\ sinks'[Newest + 1].open /\ sinks'[Newest + 1].cfg = cfg[c]
    BY <1>0, <1>5, <2>1, SinkAdded
  <2>3. Typed' /\ Locked'
    BY <1>0, <1>5, <2>1, <2>2 DEF Typed, Locked, CallerPC
  <2>4. Made(c)'
    <3>1. closer' < Newest' /\ Newest' - 1 = Newest
      BY <1>0, <1>5, <2>2 DEF Typed
    <3>2. \A k \in 1 .. Newest :
            sinks'[k].open = (k = closer') \/ (sinks'[k].stderr /\ sinks'[k].open)
      BY <1>5, <2>1, <2>2 DEF Settled, Opened
    <3> QED BY <1>5, <2>2, <3>1, <3>2 DEF Made, Opened
  <2>5. \A d \in Callers : Progress(d)'
    <3>1. cpc'[c] = "swap" /\ \A d \in Callers : d # c => cpc'[d] = "idle"
      BY <1>0, <1>5, <2>1 DEF Locked, Typed
    <3> QED BY <2>4, <3>1 DEF Progress
  <2> QED BY <1>5, <2>1, <2>3, <2>5 DEF IInv
<1>6. ASSUME NEW c \in Callers, OpenSink(c) PROVE IInv'
  <2>1. (cfg[c] \in ToStderr) \in BOOLEAN
    OBVIOUS
  <2> QED BY <1>5, <1>6, <2>1 DEF OpenSink
<1>7. ASSUME NEW c \in Callers, OpenFallback(c) PROVE IInv'
  BY <1>5, <1>7 DEF OpenFallback
<1>8. ASSUME NEW c \in Callers, OpenFails(c) PROVE IInv'
  <2>1. cpc' \in [Callers -> CallerPC] /\ SameSinks /\ SinksTyped'
    BY <1>0, <1>8 DEF OpenFails, Typed, CallerPC, SameSinks, SinksTyped, Newest
  <2> QED BY <1>0, <1>8, <2>1, QuietStep DEF OpenFails, Typed
<1>9. ASSUME NEW c \in Callers, WarnFallback(c) PROVE IInv'
  <2>1. cpc' \in [Callers -> CallerPC]
    BY <1>0, <1>9 DEF WarnFallback, Typed, CallerPC
  <2>2. SameSinks /\ SinksTyped'
    <3>1. CASE Warn >= level
      BY <1>0, <1>9, <3>1, DeliverKeeps DEF WarnFallback, Typed
    <3>2. CASE ~(Warn >= level)
      BY <1>0, <1>9, <3>2 DEF WarnFallback, SameSinks, SinksTyped, Newest
    <3> QED BY <3>1, <3>2
  <2> QED BY <1>0, <1>9, <2>1, <2>2, QuietStep DEF WarnFallback, Typed
<1>10. ASSUME NEW c \in Callers, cpc[c] \in {"swap", "install"}, base' = Newest,
              cpc' = [cpc EXCEPT ![c] = "level"],
              UNCHANGED <<sinks, closer, applied, key, level, logMu, cfg>>
       PROVE  IInv'
  <2>1. logMu = c /\ Made(c)
    BY <1>0, <1>10 DEF Locked, IInv, Progress
  <2>2. Typed' /\ Locked'
    <3>1. Newest' = Newest /\ SinksTyped'
      BY <1>0, <1>10 DEF SinksTyped, Newest
    <3> QED BY <1>0, <1>10, <2>1, <3>1 DEF Typed, Locked, CallerPC
  <2>3. Made(c)' /\ base' = Newest'
    BY <1>10, <2>1 DEF Made, Opened, Newest
  <2>4. cpc'[c] = "level" /\ \A d \in Callers : d # c => cpc'[d] = "idle"
    BY <1>0, <1>10, <2>1 DEF Locked, Typed
  <2>5. \A d \in Callers : Progress(d)'
    BY <2>3, <2>4 DEF Progress
  <2> QED BY <1>10, <2>1, <2>2, <2>5 DEF IInv
<1>11. ASSUME NEW c \in Callers, SwapBase(c) PROVE IInv'
  BY <1>10, <1>11 DEF SwapBase
<1>12. ASSUME NEW c \in Callers, InstallBase(c) PROVE IInv'
  BY <1>10, <1>12 DEF InstallBase
<1>13. ASSUME NEW c \in Callers, DrainBuffer(c) PROVE IInv'
  <2>1. cpc' \in [Callers -> CallerPC] /\ SameSinks /\ SinksTyped'
    BY <1>0, <1>13 DEF DrainBuffer, Typed, CallerPC, SameSinks, SinksTyped, Newest
  <2> QED BY <1>0, <1>13, <2>1, QuietStep DEF DrainBuffer, Typed
<1>14. ASSUME NEW c \in Callers, Replay(c) PROVE IInv'
  <2>1. cpc' \in [Callers -> CallerPC]
    BY <1>0, <1>14 DEF Replay, Typed, CallerPC
  <2>2. Newest \in 1 .. Newest
    BY <1>0, <1>14 DEF Replay, IInv, Progress, Made, Typed
  <2>3. PICK q : sinks' = [sinks EXCEPT ![Newest].lines = q]
    BY <1>14 DEF Replay
  <2>4. SameSinks /\ SinksTyped'
    BY <1>0, <2>2, <2>3, LinesWritten
  <2> QED BY <1>0, <1>14, <2>1, <2>4, QuietStep DEF Replay, Typed
<1>15. ASSUME NEW c \in Callers, ApplyLevel(c) PROVE IInv'
  <2>1. logMu = c /\ Made(c) /\ base = Newest
    BY <1>0, <1>15 DEF ApplyLevel, Locked, IInv, Progress
  <2>2. Typed' /\ Locked'
    BY <1>0, <1>15, <2>1 DEF ApplyLevel, Typed, SinksTyped, Locked, CallerPC, Newest
  <2>3. Made(c)' /\ base' = Newest' /\ level' = LevelOf[cfg'[c]]
    BY <1>15, <2>1 DEF ApplyLevel, Made, Opened, Newest
  <2>4. cpc'[c] = "close" /\ \A d \in Callers : d # c => cpc'[d] = "idle"
    BY <1>0, <1>15, <2>1 DEF ApplyLevel, Locked, Typed
  <2>5. \A d \in Callers : Progress(d)'
    BY <2>3, <2>4 DEF Progress
  <2> QED BY <1>15, <2>1, <2>2, <2>5 DEF ApplyLevel, IInv
<1>16. ASSUME NEW c \in Callers, CloseOld(c) PROVE IInv'
  <2>1. /\ logMu = c /\ cfg[c] \in Settings /\ Made(c)
        /\ base = Newest /\ level = LevelOf[cfg[c]]
    BY <1>0, <1>16 DEF CloseOld, Locked, IInv, Progress
  <2>2. /\ SinksTyped' /\ Newest' = Newest
        /\ \A k \in 1 .. Newest : /\ sinks'[k].cfg = sinks[k].cfg
                                  /\ sinks'[k].stderr = sinks[k].stderr
                                  /\ sinks'[k].open = IF k = closer THEN sinks[k].stderr
                                                                    ELSE sinks[k].open
    BY <1>0, <1>16, SinkClosed DEF CloseOld
  <2>3. closer' = Newest /\ key' = cfg[c] /\ applied' /\ logMu' = Nobody
        /\ UNCHANGED <<base, level>>
    BY <1>16 DEF CloseOld
  <2>4. Typed' /\ Locked'
    BY <1>0, <1>16, <2>1, <2>2, <2>3 DEF CloseOld, Typed, Locked, CallerPC
  <2>5. Settled'
    <3>1. Newest \in 1 .. Newest /\ closer \in 0 .. Newest
      BY <1>0, <2>1 DEF Made, Typed
    <3>2. \A k \in 1 .. Newest :
            sinks'[k].open = (k = Newest) \/ (sinks'[k].stderr /\ sinks'[k].open)
      <4> TAKE k \in 1 .. Newest
      <4>1. sinks[k].stderr \in BOOLEAN /\ sinks[k].open \in BOOLEAN
        BY <1>0, Flags
      <4>2. CASE k = Newest
        BY <2>1, <2>2, <3>1, <4>1, <4>2 DEF Made
      <4>3. CASE k # Newest /\ k = closer
        BY <2>2, <4>1, <4>3
      <4>4. CASE k # Newest /\ k # closer
        <5>1. k \in 1 .. Newest - 1
          BY <1>0, <4>4
        <5>2. sinks[k].open = FALSE \/ (sinks[k].stderr /\ sinks[k].open)
          BY <2>1, <4>4, <5>1 DEF Made, Opened
        <5> QED BY <2>2, <4>4, <5>2
      <4> QED BY <4>2, <4>3, <4>4
    <3>3. Opened(Newest)' /\ closer' = base'
      BY <2>1, <2>2, <2>3, <3>2 DEF Opened
    <3> QED BY <2>1, <2>2, <2>3, <3>1, <3>3 DEF Settled, Made
  <2>6. \A d \in Callers : cpc'[d] = "idle"
    BY <1>0, <1>16, <2>1 DEF CloseOld, Locked, Typed
  <2> QED BY <2>3, <2>4, <2>5, <2>6 DEF IInv, Progress
<1>17. CASE UNCHANGED vars
  BY <1>0, <1>17, QuietStep DEF vars, SameSinks, Typed, SinksTyped, Newest
<1> QED
  BY <1>1, <1>2, <1>3, <1>4, <1>6, <1>7, <1>8, <1>9, <1>11, <1>12, <1>13, <1>14, <1>15,
     <1>16, <1>17
     DEF Next, ConfigStep

LEMMA AlwaysIInv == Spec => []IInv
  BY InitIInv, StepIInv, PTL DEF Spec

(* Whatever goroutines race to reconfigure, the base, the level, the key of  *)
(* change detection and the sink the next call will close are of one call.   *)
THEOREM ConfigOneConfiguration == Spec => []OneConfiguration
<1>1. IInv => OneConfiguration
  BY DEF IInv, Settled, OneConfiguration
<1> QED BY <1>1, AlwaysIInv, PTL

(* However often the service is reconfigured, no file or connection is left  *)
(* open between calls but the base's, and the base's is open.                *)
THEOREM ConfigOnlyBaseOpen == Spec => []OnlyBaseOpen
<1>1. ASSUME IInv, logMu = Nobody, NEW k \in DOMAIN sinks
      PROVE  sinks[k].open = (k = base) \/ (sinks[k].stderr /\ sinks[k].open)
  <2>1. k \in 1 .. Newest
    BY <1>1 DEF IInv, Typed, SinksTyped, Newest
  <2> QED BY <1>1, <2>1 DEF IInv, Settled, Opened
<1>2. IInv => OnlyBaseOpen
  BY <1>1 DEF OnlyBaseOpen
<1> QED BY <1>2, AlwaysIInv, PTL

-----------------------------------------------------------------------------
(* The records.  Sequences of them are taken apart by what is in them and    *)
(* whether they rise.                                                        *)

In(q, n)  == \E i \in DOMAIN q : q[i] = n
Rising(q) == \A i, j \in DOMAIN q : i < j => q[i] < q[j]

LEMMA AppendIn ==
  ASSUME NEW q \in Seq(Nat), NEW n \in Nat
  PROVE  \A m : In(Append(q, n), m) <=> In(q, m) \/ m = n
<1>1. /\ Len(q) \in Nat /\ DOMAIN q = 1 .. Len(q) /\ DOMAIN Append(q, n) = 1 .. Len(q) + 1
      /\ \A i \in 1 .. Len(q) : Append(q, n)[i] = q[i]
      /\ Append(q, n)[Len(q) + 1] = n
  OBVIOUS
<1>2. /\ \A i \in 1 .. Len(q) + 1 : i \in 1 .. Len(q) \/ i = Len(q) + 1
      /\ (1 .. Len(q)) \subseteq 1 .. Len(q) + 1 /\ Len(q) + 1 \in 1 .. Len(q) + 1
  BY <1>1
<1> QED BY <1>1, <1>2 DEF In

LEMMA AppendRises ==
  ASSUME NEW q \in Seq(Nat), Rising(q), NEW n \in Nat, \A i \in DOMAIN q : q[i] < n
  PROVE  Rising(Append(q, n))
<1>1. /\ Len(q) \in Nat /\ DOMAIN q = 1 .. Len(q) /\ DOMAIN Append(q, n) = 1 .. Len(q) + 1
      /\ \A i \in 1 .. Len(q) : Append(q, n)[i] = q[i]
      /\ Append(q, n)[Len(q) + 1] = n
  OBVIOUS
<1>2. \A i, j \in 1 .. Len(q) + 1 :
        i < j => i \in 1 .. Len(q) /\ (j \in 1 .. Len(q) \/ j = Len(q) + 1)
  BY <1>1
<1> QED BY <1>1, <1>2 DEF Rising

LEMMA TailKeeps ==
  ASSUME NEW q \in Seq(Nat), q # <<>>
  PROVE  /\ Tail(q) \in Seq(Nat)
         /\ Rising(q) => Rising(Tail(q))
         /\ \A m : In(q, m) <=> In(Tail(q), m) \/ m = Head(q)
<1>1. /\ Len(q) \in Nat \ {0} /\ DOMAIN q = 1 .. Len(q) /\ Tail(q) \in Seq(Nat)
      /\ DOMAIN Tail(q) = 1 .. Len(q) - 1 /\ Head(q) = q[1]
      /\ \A i \in 1 .. Len(q) - 1 : Tail(q)[i] = q[i + 1]
  OBVIOUS
<1>2. /\ \A i \in 1 .. Len(q) : i = 1 \/ (i - 1 \in 1 .. Len(q) - 1 /\ (i - 1) + 1 = i)
      /\ \A i \in 1 .. Len(q) - 1 : i + 1 \in 1 .. Len(q)
      /\ 1 \in 1 .. Len(q)
  BY <1>1
<1>3. \A m : In(q, m) <=> In(Tail(q), m) \/ m = Head(q)
  BY <1>1, <1>2 DEF In
<1>4. Rising(q) => Rising(Tail(q))
  <2>1. \A i, j \in 1 .. Len(q) - 1 : i < j => i + 1 < j + 1
    OBVIOUS
  <2> QED BY <1>1, <1>2, <2>1, SMTT(30) DEF Rising
<1> QED BY <1>1, <1>3, <1>4

Less == OpToRel(<, Nat)

(* Every set of natural numbers has a least one: what holds at 0, and after  *)
(* it wherever it held before, has no least exception.                       *)
LEMMA LeastNumber ==
  ASSUME NEW T, T \subseteq Nat, T # {}
  PROVE  \E x \in T : \A y \in T : x <= y
<1>1. \E x \in T : \A y \in T : ~(<<y, x>> \in Less)
  BY NatLessThanWellFounded, WFMin DEF Less
<1>2. PICK x \in T : \A y \in T : ~(<<y, x>> \in Less)
  BY <1>1
<1>3. \A y \in Nat : <<y, x>> \in Less <=> y < x
  BY <1>2 DEF OpToRel, Less
<1>4. ASSUME NEW y \in T PROVE x <= y
  <2>1. x \in Nat /\ y \in Nat /\ ~(y < x)
    BY <1>2, <1>3
  <2> QED BY <2>1
<1> QED BY <1>2, <1>4

(* The function that Passing unrolls, up to an index. *)
Unrolled(f, q, v, n) ==
  f = [i \in 0 .. n |->
         IF i = 0 THEN <<>>
         ELSE IF log[q[i]].level >= v THEN Append(f[i - 1], q[i]) ELSE f[i - 1]]

LEMMA Unrolls ==
  ASSUME NEW q, NEW v, NEW n \in Nat
  PROVE  \E f : Unrolled(f, q, v, n)
<1> DEFINE T == {k \in Nat : ~ \E f : Unrolled(f, q, v, k)}
<1> SUFFICES ASSUME T # {} PROVE FALSE
  OBVIOUS
<1>1. PICK k \in T : \A y \in T : k <= y
  BY LeastNumber
<1>2. k # 0
  <2>1. Unrolled([i \in 0 .. 0 |-> <<>>], q, v, 0)
    BY DEF Unrolled
  <2> QED BY <2>1
<1>3. k - 1 \in Nat /\ k - 1 \notin T
  BY <1>1, <1>2
<1>4. PICK f : Unrolled(f, q, v, k - 1)
  BY <1>3
<1> DEFINE last == IF log[q[k]].level >= v THEN Append(f[k - 1], q[k]) ELSE f[k - 1]
           g    == [i \in 0 .. k |-> IF i = k THEN last ELSE f[i]]
<1>5. ASSUME NEW i \in 0 .. k
      PROVE  g[i] = IF i = 0 THEN <<>>
                    ELSE IF log[q[i]].level >= v THEN Append(g[i - 1], q[i]) ELSE g[i - 1]
  <2>1. CASE i = k
    <3>1. g[i - 1] = f[i - 1]
      BY <1>2, <1>3, <2>1
    <3> QED BY <1>2, <2>1, <3>1
  <2>2. CASE i # k
    <3>1. i \in 0 .. k - 1 /\ g[i] = f[i] /\ (i # 0 => g[i - 1] = f[i - 1])
      BY <1>3, <2>2
    <3> QED BY <1>4, <3>1 DEF Unrolled
  <2> QED BY <2>1, <2>2
<1>6. Unrolled(g, q, v, k)
  BY <1>5 DEF Unrolled
<1> QED BY <1>1, <1>6

(* What Passing keeps of a rising sequence of records: those at or above the *)
(* level, in their order.                                                    *)
LEMMA PassingKeeps ==
  ASSUME NEW q \in Seq(Nat), NEW v, Rising(q)
  PROVE  /\ Passing(q, v) \in Seq(Nat)
         /\ Rising(Passing(q, v))
         /\ \A n \in Nat : In(Passing(q, v), n) <=> In(q, n) /\ log[n].level >= v
<1>0. Len(q) \in Nat /\ DOMAIN q = 1 .. Len(q)
  OBVIOUS
<1>1. PICK f : Unrolled(f, q, v, Len(q))
  BY <1>0, Unrolls
<1> DEFINE g == CHOOSE h : Unrolled(h, q, v, Len(q))
           Good(k) == /\ g[k] \in Seq(Nat)
                      /\ Rising(g[k])
                      /\ \A n \in Nat :
                           In(g[k], n) <=> \E i \in 1 .. k : q[i] = n /\ log[n].level >= v
<1>2. Unrolled(g, q, v, Len(q))
  BY <1>1
<1>3. Passing(q, v) = g[Len(q)]
  BY DEF Passing, Unrolled
<1>4. /\ g[0] = <<>>
      /\ \A k \in 1 .. Len(q) :
           g[k] = IF log[q[k]].level >= v THEN Append(g[k - 1], q[k]) ELSE g[k - 1]
  <2>1. \A k \in 0 .. Len(q) :
          g[k] = IF k = 0 THEN <<>>
                 ELSE IF log[q[k]].level >= v THEN Append(g[k - 1], q[k]) ELSE g[k - 1]
    <3> HIDE DEF g
    <3> QED BY <1>2 DEF Unrolled
  <2>2. 0 \in 0 .. Len(q) /\ \A k \in 1 .. Len(q) : k \in 0 .. Len(q) /\ k # 0
    BY <1>0
  <2> HIDE DEF g
  <2> QED BY <2>1, <2>2
<1> HIDE DEF g
<1>5. Good(0)
  BY <1>4 DEF Rising, In
<1>6. ASSUME NEW k \in 1 .. Len(q), Good(k - 1) PROVE Good(k)
  <2> DEFINE p == g[k - 1]
  <2>1. p \in Seq(Nat) /\ Rising(p) /\ q[k] \in Nat /\ k - 1 \in Nat
    BY <1>6
  <2>2. \A n \in Nat : In(p, n) <=> \E i \in 1 .. k - 1 : q[i] = n /\ log[n].level >= v
    BY <1>6
  <2> HIDE DEF p
  <2>3. CASE log[q[k]].level >= v
    <3>1. g[k] = Append(p, q[k])
      BY <1>4, <2>3 DEF p
    <3>2. g[k] \in Seq(Nat) /\ DOMAIN p = 1 .. Len(p)
      BY <2>1, <3>1
    <3>3. \A n \in Nat : In(g[k], n) <=> In(p, n) \/ n = q[k]
      BY <2>1, <3>1, AppendIn
    <3>4. \A n \in Nat : In(g[k], n) <=> \E i \in 1 .. k : q[i] = n /\ log[n].level >= v
      <4> TAKE n \in Nat
      <4>1. \A i \in 1 .. k : i \in 1 .. k - 1 \/ i = k
        OBVIOUS
      <4>2. (1 .. k - 1) \subseteq 1 .. k /\ k \in 1 .. k
        OBVIOUS
      <4> QED BY <2>2, <2>3, <3>3, <4>1, <4>2
    <3>5. \A i \in 1 .. Len(p) : p[i] < q[k]
      <4> TAKE i \in 1 .. Len(p)
      <4>1. p[i] \in Nat /\ In(p, p[i])
        <5>1. p[i] \in Nat
          BY <2>1
        <5> QED BY <3>2, <5>1 DEF In
      <4>2. PICK j \in 1 .. k - 1 : q[j] = p[i]
        BY <2>2, <4>1
      <4>3. j \in DOMAIN q /\ k \in DOMAIN q /\ j < k
        BY <2>1, <4>2
      <4> QED BY <4>2, <4>3 DEF Rising
    <3>6. Rising(g[k])
      BY <2>1, <3>1, <3>2, <3>5, AppendRises
    <3> QED BY <3>2, <3>4, <3>6
  <2>4. CASE ~(log[q[k]].level >= v)
    <3>1. g[k] = p
      BY <1>4, <2>4 DEF p
    <3>2. \A n \in Nat : (\E i \in 1 .. k : q[i] = n /\ log[n].level >= v)
                           <=> \E i \in 1 .. k - 1 : q[i] = n /\ log[n].level >= v
      <4>1. \A i \in 1 .. k : i \in 1 .. k - 1 \/ i = k
        OBVIOUS
      <4>2. (1 .. k - 1) \subseteq 1 .. k
        OBVIOUS
      <4> QED BY <2>4, <4>1, <4>2
    <3> QED BY <2>1, <2>2, <3>1, <3>2
  <2> QED BY <2>3, <2>4
<1>7. Good(Len(q))
  <2> DEFINE T == {k \in 0 .. Len(q) : ~Good(k)}
  <2>1. Len(q) \in T \/ Good(Len(q))
    <3> HIDE DEF Good
    <3> QED BY <1>0
  <2> SUFFICES ASSUME T # {} PROVE FALSE
    <3> HIDE DEF Good, T
    <3> QED BY <2>1
  <2>5. PICK k \in T : \A y \in T : k <= y
    <3> HIDE DEF Good
    <3>1. T \subseteq Nat
      BY <1>0
    <3> HIDE DEF T
    <3> QED BY <3>1, LeastNumber
  <2>2. k \in 1 .. Len(q)
    <3>1. k \in 0 .. Len(q) /\ ~Good(k)
      BY <2>5
    <3>2. k # 0
      <4> HIDE DEF Good
      <4> QED BY <1>5, <3>1
    <3> HIDE DEF Good
    <3> QED BY <1>0, <3>1, <3>2
  <2>3. k - 1 \in 0 .. Len(q) /\ k - 1 < k
    <3> HIDE DEF Good, T
    <3> QED BY <1>0, <2>2
  <2>6. k - 1 \notin T
    <3>1. \A y \in T : y \in 0 .. Len(q)
      OBVIOUS
    <3> HIDE DEF Good, T
    <3> QED BY <1>0, <2>2, <2>3, <2>5, <3>1
  <2>4. Good(k - 1)
    <3> HIDE DEF Good
    <3> QED BY <2>3, <2>6
  <2> QED BY <1>6, <2>2, <2>4, <2>5
<1> QED BY <1>3, <1>7 DEF In

(* Types of what a record goes through. *)
RecordsTyped ==
  /\ log \in Seq([level : Nat, passed : BOOLEAN, base : Nat])
  /\ level \in Nat /\ lvl \in [Loggers -> Nat] /\ flushMin \in Nat
  /\ buffer \in Seq(Nat) /\ drained \in Seq(Nat) /\ stderr \in Seq(Nat)
  /\ \A k \in 1 .. Newest : sinks[k].lines \in Seq([n : Nat, tagged : BOOLEAN])

(* A record is on a line of a sink. *)
Lined(n) == \E k \in 1 .. Newest : \E a \in DOMAIN sinks[k].lines : sinks[k].lines[a].n = n

(* No call is past the swap: the buffer was drained, and the base is not the *)
(* bootstrap's any more, if some call has completed.                         *)
BeforeSwap ==
  /\ drained = <<>>
  /\ bufClosed = applied
  /\ applied = (base # 0)
  /\ ~applied => flushMin = 0

(* Who drained the buffer holds hub.mu until the base is swapped.            *)
Flush(c) ==
  /\ cpc[c] \in {"open", "warn", "fallback", "swap"} => BeforeSwap
  /\ cpc[c] \in {"replay", "install"} => hubMu = c
  /\ cpc[c] = "replay" => bufClosed /\ base = 0 /\ flushMin = 0
  /\ cpc[c] \in {"install", "level", "close"} => bufClosed /\ drained = <<>>

Phases ==
  /\ logMu = Nobody => BeforeSwap
  /\ \A c \in Callers : Flush(c)
  /\ bufClosed /\ base = 0 => hubMu # Nobody
  /\ base # 0 => sinks[base].open

(* The records that wait for the flush were captured in their order, under   *)
(* the bootstrap's base.                                                     *)
Waiting(q) == Rising(q) /\ \A i \in DOMAIN q : q[i] \in DOMAIN log /\ log[q[i]].base = 0

(* Sinks newer than the base have no lines but those of the flush, whose     *)
(* sink is still empty when it starts.                                       *)
NewSinksEmpty ==
  /\ hubMu = Nobody => \A k \in 1 .. Newest : base < k => sinks[k].lines = <<>>
  /\ \A c \in Callers : cpc[c] = "replay" =>
       \A k \in 1 .. Newest : sinks[k].lines = <<>>

LinesHandled ==
  \A k \in 1 .. Newest : \A a \in DOMAIN sinks[k].lines : sinks[k].lines[a].n \in DOMAIN log

LinesRise ==
  \A j, k \in 1 .. Newest :
    \A a \in DOMAIN sinks[j].lines, b \in DOMAIN sinks[k].lines :
      j < k \/ (j = k /\ a < b) => sinks[j].lines[a].n < sinks[k].lines[b].n

(* Where every record is that passed the level. *)
Conserved ==
  \A n \in DOMAIN log : log[n].passed =>
    \/ In(buffer, n) \/ In(drained, n) \/ n \in evicted \/ Lined(n)
    \/ log[n].base = 0 /\ log[n].level < flushMin

Urgent ==
  \A n \in DOMAIN log : log[n].passed /\ log[n].level >= Warn => In(stderr, n) \/ Lined(n)

RInv ==
  /\ RecordsTyped /\ Phases
  /\ Waiting(buffer) /\ Waiting(drained)
  /\ NewSinksEmpty /\ LinesHandled /\ LinesRise
  /\ Conserved /\ Urgent

(* The sinks there were have the lines they had, and new ones have none. *)
NoNewLines ==
  /\ Newest \in Nat /\ Newest' \in Nat /\ Newest <= Newest'
  /\ \A k \in 1 .. Newest : sinks'[k].lines = sinks[k].lines
  /\ \A k \in 1 .. Newest' : Newest < k => sinks'[k].lines = <<>>

(* A step that neither handles nor moves a record. *)
LEMMA RecordsStay ==
  ASSUME RInv, NoNewLines, UNCHANGED <<log, stderr, evicted, buffer, drained, flushMin>>,
         level' \in Nat, lvl' \in [Loggers -> Nat]
  PROVE  /\ RecordsTyped' /\ Waiting(buffer)' /\ Waiting(drained)'
         /\ LinesHandled' /\ LinesRise' /\ Conserved' /\ Urgent'
<1>1. /\ \A k \in 1 .. Newest : k \in 1 .. Newest' /\ sinks'[k].lines = sinks[k].lines
      /\ \A k \in 1 .. Newest' : k \in 1 .. Newest \/ sinks'[k].lines = <<>>
  BY DEF NoNewLines
<1>2. \A k \in 1 .. Newest' :
        \A a \in DOMAIN sinks'[k].lines : k \in 1 .. Newest /\ sinks'[k].lines = sinks[k].lines
  BY <1>1
<1>3. RecordsTyped'
  <2>1. \A k \in 1 .. Newest' : sinks'[k].lines \in Seq([n : Nat, tagged : BOOLEAN])
    <3>1. <<>> \in Seq([n : Nat, tagged : BOOLEAN])
      OBVIOUS
    <3>2. \A k \in 1 .. Newest : sinks[k].lines \in Seq([n : Nat, tagged : BOOLEAN])
      BY DEF RInv, RecordsTyped
    <3> QED BY <1>1, <3>1, <3>2
  <2> QED BY <2>1 DEF RInv, RecordsTyped
<1>4. LinesHandled' /\ LinesRise'
  BY <1>2 DEF RInv, LinesHandled, LinesRise
<1>5. \A n : Lined(n) => Lined(n)'
  BY <1>1 DEF Lined
<1>6. Conserved' /\ Urgent'
  BY <1>5 DEF RInv, Conserved, Urgent, In
<1> QED BY <1>3, <1>4, <1>6 DEF RInv, Waiting, Rising

LEMMA RecordsInit == Init => RInv
<1> SUFFICES ASSUME Init PROVE RInv
  OBVIOUS
<1>1. sinks = <<>> /\ Newest = 0 /\ log = <<>> /\ stderr = <<>> /\ buffer = <<>> /\ drained = <<>>
  BY DEF Init, Newest
<1>2. RecordsTyped
  <2>1. <<>> \in Seq([level : Nat, passed : BOOLEAN, base : Nat]) /\ <<>> \in Seq(Nat)
    OBVIOUS
  <2>2. level \in Nat /\ lvl \in [Loggers -> Nat] /\ flushMin \in Nat
    BY SettingsKnown DEF Init
  <2>3. \A k \in 1 .. Newest : sinks[k].lines \in Seq([n : Nat, tagged : BOOLEAN])
    BY <1>1
  <2>4. /\ log \in Seq([level : Nat, passed : BOOLEAN, base : Nat])
        /\ buffer \in Seq(Nat) /\ drained \in Seq(Nat) /\ stderr \in Seq(Nat)
    BY <1>1, <2>1
  <2> QED BY <2>2, <2>3, <2>4 DEF RecordsTyped
<1>3. Phases /\ NewSinksEmpty
  <2>1. BeforeSwap /\ ~bufClosed /\ base = 0
    BY <1>1 DEF Init, BeforeSwap
  <2>2. \A c \in Callers : cpc[c] = "idle"
    BY DEF Init
  <2>3. \A k \in 1 .. Newest : FALSE
    BY <1>1
  <2> QED BY <2>1, <2>2, <2>3 DEF Phases, Flush, NewSinksEmpty
<1>4. Waiting(buffer) /\ Waiting(drained)
  BY <1>1 DEF Waiting, Rising
<1>5. LinesHandled /\ LinesRise /\ Conserved /\ Urgent
  BY <1>1 DEF LinesHandled, LinesRise, Conserved, Urgent
<1> QED BY <1>2, <1>3, <1>4, <1>5 DEF RInv

-----------------------------------------------------------------------------
(* Handling a record. *)

(* What Deliver writes, for a record of number n. *)
LEMMA Delivers ==
  ASSUME Typed, RInv, NEW v \in Nat, Deliver(v), hubMu = Nobody
  PROVE  LET n == Len(log) + 1 IN
         /\ SinksTyped' /\ SameSinks
         /\ log' = Append(log, [level |-> v, passed |-> v >= level, base |-> base])
         /\ UNCHANGED <<bufClosed, flushMin>>
         /\ \/ v < level /\ UNCHANGED <<sinks, stderr, buffer, evicted>>
            \/ /\ base = 0 /\ ~bufClosed /\ UNCHANGED sinks
               /\ \/ buffer' = Append(buffer, n) /\ evicted' = evicted
                  \/ /\ buffer # <<>> /\ buffer' = Append(Tail(buffer), n)
                     /\ evicted' = evicted \union {Head(buffer)}
               /\ stderr' = IF v >= Warn THEN Append(stderr, n) ELSE stderr
            \/ /\ base \in 1 .. Newest
               /\ \A k \in 1 .. Newest :
                    sinks'[k].lines = IF k = base
                                      THEN Append(sinks[k].lines, [n |-> n, tagged |-> TRUE])
                                      ELSE sinks[k].lines
               /\ stderr' = stderr \/ stderr' = Append(stderr, n)
               /\ UNCHANGED <<buffer, evicted>>
<1> DEFINE n == Len(log) + 1
<1>0. SinksTyped /\ base \in 0 .. Newest /\ Newest \in Nat /\ level \in Nat
  BY LengthIsNat DEF Typed, RInv, RecordsTyped
<1>1. SinksTyped' /\ SameSinks
  BY <1>0, DeliverKeeps
<1>2. /\ log' = Append(log, [level |-> v, passed |-> v >= level, base |-> base])
      /\ flushMin' = flushMin
  BY DEF Deliver
<1>3. CASE v < level
  BY <1>1, <1>2, <1>3 DEF Deliver, boot
<1>4. CASE ~(v < level) /\ base = 0
  <2>1. ~bufClosed
    BY <1>4 DEF RInv, Phases
  <2>2. WriteTee(n, v)
    BY <1>4 DEF Deliver
  <2>3. \/ buffer' = Append(buffer, n) /\ evicted' = evicted
        \/ /\ buffer # <<>> /\ buffer' = Append(Tail(buffer), n)
           /\ evicted' = evicted \union {Head(buffer)}
    <3>1. CASE Len(buffer) >= BufferCap
      <4>1. buffer # <<>>
        BY <3>1, Bounds
      <4> QED BY <2>1, <2>2, <3>1, <4>1 DEF WriteTee, Capture
    <3>2. CASE ~(Len(buffer) >= BufferCap)
      BY <2>1, <2>2, <3>2 DEF WriteTee, Capture
    <3> QED BY <3>1, <3>2
  <2> QED BY <1>1, <1>2, <1>4, <2>1, <2>2, <2>3 DEF WriteTee, Capture
<1>5. CASE ~(v < level) /\ base # 0
  <2>1. base \in 1 .. Newest /\ sinks[base].open
    BY <1>0, <1>5 DEF RInv, Phases
  <2>2. WriteSink(base, n)
    BY <1>5 DEF Deliver
  <2> DEFINE q == Append(sinks[base].lines, [n |-> n, tagged |-> TRUE])
  <2>3. sinks' = [sinks EXCEPT ![base].lines = q]
    BY <2>1, <2>2 DEF WriteSink
  <2>4. \A k \in 1 .. Newest : sinks'[k].lines = IF k = base THEN q ELSE sinks[k].lines
    <3> HIDE DEF q
    <3> QED BY <1>0, <2>1, <2>3, LinesWritten
  <2> QED BY <1>1, <1>2, <2>1, <2>2, <2>4 DEF WriteSink, boot
<1> QED BY <1>3, <1>4, <1>5

LEMMA RecordHandled ==
  ASSUME Typed, RInv, NEW v \in Nat, Deliver(v), hubMu = Nobody,
         UNCHANGED <<base, level, drained>>, lvl' \in [Loggers -> Nat]
  PROVE  /\ RecordsTyped' /\ Waiting(buffer)' /\ Waiting(drained)'
         /\ LinesHandled' /\ LinesRise' /\ Conserved' /\ Urgent'
         /\ SinksTyped' /\ SameSinks /\ UNCHANGED <<bufClosed, flushMin>>
         /\ \A k \in 1 .. Newest : base < k => sinks'[k].lines = <<>>
<1> PICK n \in Nat : n = Len(log) + 1
  <2>1. Len(log) \in Nat
    BY DEF RInv, RecordsTyped
  <2> QED BY <2>1
<1> DEFINE lines(k) == sinks[k].lines
<1>0. /\ Newest \in Nat /\ base \in 0 .. Newest /\ RecordsTyped /\ level \in Nat
      /\ Warn \in Nat
  BY LengthIsNat, SettingsKnown DEF Typed, RInv, RecordsTyped
<1>1. /\ SinksTyped' /\ SameSinks
      /\ log' = Append(log, [level |-> v, passed |-> v >= level, base |-> base])
      /\ UNCHANGED <<bufClosed, flushMin>>
  BY Delivers
<1>2. /\ n \in Nat /\ DOMAIN log = 1 .. n - 1 /\ DOMAIN log' = 1 .. n
      /\ \A m \in DOMAIN log : m \in DOMAIN log' /\ log'[m] = log[m] /\ m < n
      /\ n \in DOMAIN log' /\ \A m \in DOMAIN log' : m \in DOMAIN log \/ m = n
      /\ log'[n].level = v /\ log'[n].passed = (v >= level) /\ log'[n].base = base
      /\ log' \in Seq([level : Nat, passed : BOOLEAN, base : Nat])
  <2>1. [level |-> v, passed |-> v >= level, base |-> base]
          \in [level : Nat, passed : BOOLEAN, base : Nat]
    BY <1>0
  <2>2. log \in Seq([level : Nat, passed : BOOLEAN, base : Nat])
    BY <1>0 DEF RecordsTyped
  <2> QED BY <1>1, <2>1, <2>2
<1> DEFINE e == [n |-> n, tagged |-> TRUE]
           Written == /\ base \in 1 .. Newest
                      /\ \A k \in 1 .. Newest :
                           sinks'[k].lines = IF k = base THEN Append(lines(k), e) ELSE lines(k)
<1>3. \/ \A k \in 1 .. Newest : sinks'[k].lines = lines(k)
      \/ Written
  BY Delivers
<1>4. Newest' = Newest
  BY <1>1 DEF SameSinks
<1>5. ASSUME NEW k \in 1 .. Newest
      PROVE  /\ sinks'[k].lines \in Seq([n : Nat, tagged : BOOLEAN])
             /\ \A a \in DOMAIN lines(k) : /\ a \in DOMAIN sinks'[k].lines
                                           /\ sinks'[k].lines[a] = lines(k)[a]
             /\ \A a \in DOMAIN sinks'[k].lines :
                  \/ a \in DOMAIN lines(k) /\ sinks'[k].lines[a] = lines(k)[a]
                  \/ k = base /\ sinks'[k].lines[a].n = n /\ a = Len(lines(k)) + 1
             /\ k = base /\ Written => \E a \in DOMAIN sinks'[k].lines : sinks'[k].lines[a].n = n
  <2>1. lines(k) \in Seq([n : Nat, tagged : BOOLEAN])
    BY <1>0 DEF RecordsTyped
  <2>2. CASE ~(k = base /\ Written)
    <3>1. sinks'[k].lines = lines(k)
      BY <1>3, <2>2
    <3> HIDE DEF Written
    <3> QED BY <2>1, <2>2, <3>1
  <2>3. CASE k = base /\ Written
    <3> DEFINE p == lines(k)
    <3>1. p \in Seq([n : Nat, tagged : BOOLEAN]) /\ e \in [n : Nat, tagged : BOOLEAN] /\ e.n = n
      BY <1>2, <2>1
    <3> HIDE DEF p, e
    <3>2. /\ Append(p, e) \in Seq([n : Nat, tagged : BOOLEAN])
          /\ Len(p) \in Nat /\ DOMAIN p = 1 .. Len(p) /\ DOMAIN Append(p, e) = 1 .. Len(p) + 1
          /\ \A a \in 1 .. Len(p) : Append(p, e)[a] = p[a]
          /\ Append(p, e)[Len(p) + 1] = e
      BY <3>1
    <3>3. /\ \A a \in 1 .. Len(p) + 1 : a \in 1 .. Len(p) \/ a = Len(p) + 1
          /\ \A a \in 1 .. Len(p) : a \in 1 .. Len(p) + 1
          /\ Len(p) + 1 \in 1 .. Len(p) + 1
      BY <3>2
    <3>4. sinks'[k].lines = Append(p, e)
      BY <2>3 DEF p
    <3> QED BY <2>3, <3>1, <3>2, <3>3, <3>4 DEF p
  <2> QED BY <1>3, <2>2, <2>3
<1>6. ASSUME NEW k \in 1 .. Newest, base < k PROVE sinks'[k].lines = <<>> /\ k # base
  <2>1. lines(k) = <<>> /\ k # base
    BY <1>0, <1>6 DEF RInv, NewSinksEmpty
  <2> QED BY <1>3, <2>1
<1> HIDE DEF Written
<1>7. LinesHandled'
  <2> SUFFICES ASSUME NEW k \in 1 .. Newest, NEW a \in DOMAIN sinks'[k].lines
               PROVE  sinks'[k].lines[a].n \in DOMAIN log'
    BY <1>4 DEF LinesHandled
  <2>1. CASE a \in DOMAIN lines(k) /\ sinks'[k].lines[a] = lines(k)[a]
    BY <1>2, <2>1 DEF RInv, LinesHandled
  <2>2. CASE sinks'[k].lines[a].n = n
    BY <1>2, <2>2
  <2> QED BY <1>5, <2>1, <2>2
<1>8. LinesRise'
  <2> SUFFICES ASSUME NEW j \in 1 .. Newest, NEW k \in 1 .. Newest,
                      NEW a \in DOMAIN sinks'[j].lines, NEW b \in DOMAIN sinks'[k].lines,
                      j < k \/ (j = k /\ a < b)
               PROVE  sinks'[j].lines[a].n < sinks'[k].lines[b].n
    BY <1>4 DEF LinesRise
  <2>1. CASE a \in DOMAIN lines(j) /\ sinks'[j].lines[a] = lines(j)[a]
    <3>1. lines(j)[a].n < n
      BY <1>2, <2>1 DEF RInv, LinesHandled
    <3>2. CASE b \in DOMAIN lines(k) /\ sinks'[k].lines[b] = lines(k)[b]
      BY <2>1, <3>2 DEF RInv, LinesRise
    <3>3. CASE sinks'[k].lines[b].n = n
      BY <2>1, <3>1, <3>3
    <3> QED BY <1>5, <3>2, <3>3
  <2>2. CASE j = base /\ sinks'[j].lines[a].n = n /\ a = Len(lines(j)) + 1
    <3>1. j = k /\ a < b
      BY <1>6, <2>2
    <3>2. DOMAIN lines(j) = 1 .. Len(lines(j)) /\ Len(lines(j)) \in Nat
      BY <1>0, SMTT(30) DEF RecordsTyped
    <3>3. b \in 1 .. Len(lines(j)) \/ b = Len(lines(j)) + 1
      BY <1>5, <3>1, <3>2
    <3> QED BY <2>2, <3>1, <3>2, <3>3
  <2> QED BY <1>5, <2>1, <2>2
<1>9. \A m : Lined(m) => Lined(m)'
  BY <1>4, <1>5 DEF Lined
<1>10. Written => Lined(n)'
  <2>1. Written => base \in 1 .. Newest
    BY DEF Written
  <2> QED BY <1>4, <1>5, <2>1 DEF Lined
<1> DEFINE Buffered == /\ buffer' \in Seq(Nat) /\ Waiting(buffer)'
                       /\ \A m : In(buffer, m) => In(buffer', m) \/ m \in evicted'
                       /\ evicted \subseteq evicted'
                       /\ v >= level /\ ~Written => In(buffer', n)
<1>11. Buffered
  <2>0. /\ buffer \in Seq(Nat) /\ Rising(buffer)
        /\ \A m : In(buffer, m) => m \in DOMAIN log /\ log[m].base = 0
    BY <1>0 DEF RInv, RecordsTyped, Waiting, In
  <2>1. CASE UNCHANGED <<buffer, evicted>> /\ (v < level \/ Written)
    <3>1. \A m : In(buffer', m) => m \in DOMAIN log' /\ log'[m].base = 0
      BY <1>2, <2>0, <2>1
    <3> QED BY <1>0, <2>0, <2>1, <3>1 DEF Waiting, In, Rising
  <2>2. ASSUME NEW q \in Seq(Nat), Rising(q), \A m : In(q, m) => In(buffer, m), base = 0,
               buffer' = Append(q, n),
               \A m : In(buffer, m) => In(q, m) \/ m \in evicted',
               evicted \subseteq evicted'
        PROVE  Buffered
    <3>1. buffer' \in Seq(Nat) /\ \A m : In(buffer', m) <=> In(q, m) \/ m = n
      BY <2>2, AppendIn
    <3>2. \A i \in DOMAIN q : q[i] < n
      BY <1>2, <2>0, <2>2 DEF In
    <3>3. Rising(buffer')
      BY <2>2, <3>2, AppendRises
    <3>4. \A m : In(buffer', m) => m \in DOMAIN log' /\ log'[m].base = 0
      BY <1>2, <2>0, <2>2, <3>1
    <3>5. Waiting(buffer)'
      BY <3>3, <3>4 DEF Waiting, In, Rising
    <3> QED BY <2>2, <3>1, <3>5
  <2>3. CASE base = 0 /\ buffer' = Append(buffer, n) /\ evicted' = evicted
    <3> HIDE DEF Buffered
    <3> QED BY <2>0, <2>2, <2>3
  <2>4. CASE /\ base = 0 /\ buffer # <<>> /\ buffer' = Append(Tail(buffer), n)
             /\ evicted' = evicted \union {Head(buffer)}
    <3>1. /\ Tail(buffer) \in Seq(Nat) /\ Rising(Tail(buffer))
          /\ \A m : In(buffer, m) <=> In(Tail(buffer), m) \/ m = Head(buffer)
      BY <2>0, <2>4, TailKeeps
    <3> HIDE DEF Buffered
    <3> QED BY <2>2, <2>4, <3>1
  <2> HIDE DEF Buffered
  <2> QED BY <2>1, <2>3, <2>4, Delivers DEF Written
<1>12. /\ stderr' \in Seq(Nat)
       /\ \A m : In(stderr, m) => In(stderr', m)
       /\ v >= level /\ ~Written /\ v >= Warn => In(stderr', n)
  <2>0. stderr \in Seq(Nat)
    BY <1>0 DEF RecordsTyped
  <2>1. /\ stderr' = stderr \/ stderr' = Append(stderr, n)
        /\ v >= level /\ ~Written /\ v >= Warn => stderr' = Append(stderr, n)
    <3>1. \/ v < level /\ stderr' = stderr
          \/ stderr' = IF v >= Warn THEN Append(stderr, n) ELSE stderr
          \/ Written /\ (stderr' = stderr \/ stderr' = Append(stderr, n))
      BY Delivers DEF Written
    <3>2. v < level => ~(v >= level)
      BY <1>0
    <3> HIDE DEF Written
    <3> QED BY <3>1, <3>2
  <2>2. Append(stderr, n) \in Seq(Nat) /\ \A m : In(Append(stderr, n), m) <=> In(stderr, m) \/ m = n
    BY <2>0, AppendIn
  <2> QED BY <2>0, <2>1, <2>2
<1>13. Waiting(drained)'
  BY <1>2 DEF RInv, Waiting, Rising
<1>14. RecordsTyped'
  BY <1>0, <1>1, <1>2, <1>4, <1>5, <1>11, <1>12 DEF RecordsTyped
<1>15. Conserved'
  <2> SUFFICES ASSUME NEW m \in DOMAIN log', log'[m].passed
               PROVE  \/ In(buffer', m) \/ In(drained', m) \/ m \in evicted' \/ Lined(m)'
                      \/ log'[m].base = 0 /\ log'[m].level < flushMin'
    BY DEF Conserved
  <2>1. CASE m \in DOMAIN log
    BY <1>1, <1>2, <1>9, <1>11, <2>1 DEF RInv, Conserved
  <2>2. CASE m = n
    BY <1>2, <1>10, <1>11, <2>2
  <2> QED BY <1>2, <2>1, <2>2
<1>16. Urgent'
  <2> SUFFICES ASSUME NEW m \in DOMAIN log', log'[m].passed, log'[m].level >= Warn
               PROVE  In(stderr', m) \/ Lined(m)'
    BY DEF Urgent
  <2>1. CASE m \in DOMAIN log
    BY <1>2, <1>9, <1>12, <2>1 DEF RInv, Urgent
  <2>2. CASE m = n
    BY <1>2, <1>10, <1>12, <2>2
  <2> QED BY <1>2, <2>1, <2>2
<1> QED BY <1>1, <1>6, <1>7, <1>8, <1>11, <1>13, <1>14, <1>15, <1>16

-----------------------------------------------------------------------------
(* The first ConfigureLogging, and the others. *)

LEMMA ElementOf ==
  ASSUME NEW S, NEW s \in Seq(S), NEW i \in DOMAIN s
  PROVE  i \in Nat /\ s[i] \in S
  OBVIOUS

LEMMA LevelIsNat == RecordsTyped => \A m \in DOMAIN log : m \in Nat /\ log[m].level \in Nat
<1> SUFFICES ASSUME RecordsTyped, NEW m \in DOMAIN log PROVE m \in Nat /\ log[m].level \in Nat
  OBVIOUS
<1>1. m \in Nat /\ log[m] \in [level : Nat, passed : BOOLEAN, base : Nat]
  BY ElementOf DEF RecordsTyped
<1> QED BY <1>1

(* The flush: what the buffer held and the level lets through is on the new  *)
(* sink, in its order, and nothing else is.                                  *)
LEMMA RecordsReplayed ==
  ASSUME IInv, RInv, NEW c \in Callers, Replay(c)
  PROVE  /\ RecordsTyped' /\ Waiting(buffer)' /\ Waiting(drained)'
         /\ LinesHandled' /\ LinesRise' /\ Conserved' /\ Urgent'
         /\ SinksTyped' /\ SameSinks
<1> PICK v : v = LevelOf[cfg[c]]
  OBVIOUS
<1> PICK p : p = Passing(drained, v)
  OBVIOUS
<1> DEFINE new == [i \in 1 .. Len(p) |-> [n |-> p[i], tagged |-> FALSE]]
<1>0. /\ SinksTyped /\ Newest \in Nat /\ Newest \in 1 .. Newest /\ cfg[c] \in Settings
      /\ v \in Nat /\ RecordsTyped /\ base = 0 /\ flushMin = 0
      /\ \A k \in 1 .. Newest : sinks[k].lines = <<>>
  <2>1. SinksTyped /\ Newest \in Nat /\ closer \in 0 .. Newest /\ Made(c) /\ cfg[c] \in Settings
    BY LengthIsNat DEF IInv, Typed, Replay, Progress, Locked
  <2>2. RecordsTyped /\ base = 0 /\ flushMin = 0 /\ \A k \in 1 .. Newest : sinks[k].lines = <<>>
    BY DEF RInv, Replay, Phases, Flush, NewSinksEmpty
  <2>3. v \in Nat
    BY <2>1, SettingsKnown
  <2> QED BY <2>1, <2>2, <2>3 DEF Made
<1>1. /\ drained \in Seq(Nat) /\ Rising(drained)
      /\ \A m : In(drained, m) => m \in DOMAIN log /\ log[m].base = 0
  BY <1>0 DEF RecordsTyped, RInv, Waiting, In
<1>2. /\ p \in Seq(Nat) /\ Rising(p)
      /\ \A n \in Nat : In(p, n) <=> In(drained, n) /\ log[n].level >= v
  BY <1>1, PassingKeeps
<1>3. /\ Len(p) \in Nat /\ DOMAIN p = 1 .. Len(p)
      /\ new \in Seq([n : Nat, tagged : BOOLEAN]) /\ DOMAIN new = DOMAIN p
      /\ \A i \in DOMAIN p : new[i].n = p[i]
  <2>1. Len(p) \in Nat /\ DOMAIN p = 1 .. Len(p) /\ \A i \in 1 .. Len(p) : p[i] \in Nat
    BY <1>2
  <2>2. \A i \in 1 .. Len(p) : new[i] \in [n : Nat, tagged : BOOLEAN] /\ new[i].n = p[i]
    BY <2>1
  <2>3. new \in [1 .. Len(p) -> [n : Nat, tagged : BOOLEAN]]
    BY <2>1
  <2> QED BY <2>1, <2>2, <2>3
<1>4. \A i \in DOMAIN p : In(drained, p[i]) /\ p[i] \in DOMAIN log /\ log[p[i]].level >= v
  <2> TAKE i \in DOMAIN p
  <2>1. p[i] \in Nat /\ In(p, p[i])
    BY <1>2, <1>3 DEF In
  <2> QED BY <1>1, <1>2, <2>1
<1>5. /\ sinks' = [sinks EXCEPT ![Newest].lines = @ \o new]
      /\ stderr' = stderr \/ stderr' = stderr \o p
      /\ flushMin' = v /\ drained' = <<>>
      /\ UNCHANGED <<log, buffer, evicted, level, lvl>>
  BY DEF Replay, boot
<1> HIDE DEF new
<1>6. /\ SinksTyped' /\ SameSinks
      /\ \A k \in 1 .. Newest : sinks'[k].lines = IF k = Newest THEN new ELSE <<>>
  <2>1. <<>> \o new = new
    BY <1>3
  <2>2. sinks[Newest].lines \o new = new
    BY <1>0, <2>1
  <2>3. PICK q : q = sinks[Newest].lines \o new
    OBVIOUS
  <2>4. sinks' = [sinks EXCEPT ![Newest].lines = q]
    BY <1>5, <2>3
  <2>5. /\ SinksTyped' /\ SameSinks
        /\ \A k \in 1 .. Newest : sinks'[k].lines = IF k = Newest THEN q ELSE sinks[k].lines
    <3>1. SinksTyped /\ Newest \in 1 .. Newest
      BY <1>0
    <3> QED BY <2>4, <3>1, LinesWritten, ZenonT(30)
  <2> QED BY <1>0, <2>2, <2>3, <2>5
<1>7. Newest' = Newest
  BY <1>6 DEF SameSinks
<1>8. LinesHandled'
  <2> SUFFICES ASSUME NEW k \in 1 .. Newest, NEW a \in DOMAIN sinks'[k].lines
               PROVE  sinks'[k].lines[a].n \in DOMAIN log
    BY <1>5, <1>7 DEF LinesHandled
  <2>1. sinks'[k].lines = new /\ a \in DOMAIN p
    BY <1>3, <1>6
  <2> QED BY <1>3, <1>4, <2>1
<1>9. LinesRise'
  <2> SUFFICES ASSUME NEW j \in 1 .. Newest, NEW k \in 1 .. Newest,
                      NEW a \in DOMAIN sinks'[j].lines, NEW b \in DOMAIN sinks'[k].lines,
                      j < k \/ (j = k /\ a < b)
               PROVE  sinks'[j].lines[a].n < sinks'[k].lines[b].n
    BY <1>7 DEF LinesRise
  <2>1. j = Newest /\ k = Newest
    BY <1>6
  <2>2. a < b /\ a \in DOMAIN p /\ b \in DOMAIN p
    BY <1>0, <1>3, <1>6, <2>1
  <2> QED BY <1>2, <1>3, <1>6, <2>1, <2>2 DEF Rising
<1>10. /\ \A m : In(p, m) => Lined(m)'
       /\ \A m : ~Lined(m)
  <2>1. \A m : In(p, m) => Lined(m)'
    BY <1>0, <1>3, <1>6, <1>7 DEF In, Lined
  <2>2. \A m : ~Lined(m)
    BY <1>0 DEF Lined
  <2> QED BY <2>1, <2>2
<1>11. stderr' \in Seq(Nat) /\ \A m : In(stderr, m) => In(stderr', m)
  <2>1. stderr \in Seq(Nat)
    BY <1>0 DEF RecordsTyped
  <2>2. /\ stderr \o p \in Seq(Nat) /\ DOMAIN stderr \subseteq DOMAIN (stderr \o p)
        /\ \A i \in DOMAIN stderr : (stderr \o p)[i] = stderr[i]
    BY <1>2, <2>1
  <2> QED BY <1>5, <2>1, <2>2 DEF In
<1>12. RecordsTyped'
  <2>1. \A k \in 1 .. Newest' : sinks'[k].lines \in Seq([n : Nat, tagged : BOOLEAN])
    <3>1. <<>> \in Seq([n : Nat, tagged : BOOLEAN])
      OBVIOUS
    <3> QED BY <1>3, <1>6, <1>7, <3>1
  <2> QED BY <1>0, <1>5, <1>11, <2>1 DEF RecordsTyped
<1>13. Waiting(buffer)' /\ Waiting(drained)'
  <2>1. Waiting(buffer)'
    BY <1>5 DEF RInv, Waiting, Rising
  <2> QED BY <1>5, <2>1 DEF Waiting, Rising
<1>14. Conserved'
  <2> SUFFICES ASSUME NEW m \in DOMAIN log, log[m].passed
               PROVE  \/ In(buffer, m) \/ m \in evicted \/ Lined(m)'
                      \/ log[m].base = 0 /\ log[m].level < v
    BY <1>5 DEF Conserved
  <2>1. m \in Nat /\ log[m].level \in Nat
    BY <1>0, LevelIsNat
  <2>2. \/ In(buffer, m) \/ In(drained, m) \/ m \in evicted
    BY <1>0, <1>10, <2>1 DEF RInv, Conserved
  <2>3. CASE In(drained, m)
    BY <1>0, <1>1, <1>2, <1>10, <2>1, <2>3
  <2> QED BY <2>2, <2>3
<1>15. Urgent'
  BY <1>5, <1>10, <1>11 DEF RInv, Urgent
<1> QED BY <1>6, <1>8, <1>9, <1>12, <1>13, <1>14, <1>15

(* Draining moves what waits in the buffer. *)
LEMMA RecordsDrained ==
  ASSUME RInv, drained = <<>>, drained' = buffer, buffer' = <<>>,
         UNCHANGED <<sinks, log, stderr, evicted, flushMin, level, lvl>>
  PROVE  /\ RecordsTyped' /\ Waiting(buffer)' /\ Waiting(drained)'
         /\ LinesHandled' /\ LinesRise' /\ Conserved' /\ Urgent'
<1>1. RecordsTyped'
  BY DEF RInv, RecordsTyped, Newest
<1>2. Waiting(buffer)' /\ Waiting(drained)'
  <2>1. Waiting(drained)'
    BY DEF RInv, Waiting, Rising
  <2> QED BY <2>1 DEF Waiting, Rising
<1>3. LinesHandled' /\ LinesRise'
  BY DEF RInv, LinesHandled, LinesRise, Newest
<1>4. \A m : (Lined(m) => Lined(m)') /\ ~In(drained, m)
  BY DEF Lined, Newest, In
<1>5. Conserved' /\ Urgent'
  BY <1>4 DEF RInv, Conserved, Urgent
<1> QED BY <1>1, <1>2, <1>3, <1>5

-----------------------------------------------------------------------------

LEMMA Others ==
  ASSUME IInv, NEW c \in Callers, cpc[c] # "idle"
  PROVE  logMu = c /\ \A d \in Callers : d # c => cpc[d] = "idle"
  BY DEF IInv, Locked

(* Steps that leave hub.mu, the base and the buffer as they are, before or   *)
(* outside of a call's swap. *)
LEMMA PhasesKept ==
  ASSUME IInv, RInv, NoNewLines,
         UNCHANGED <<logMu, hubMu, base, bufClosed, applied, flushMin, drained>>,
         base # 0 => sinks'[base].open,
         cpc' = cpc \/ \E c \in Callers : /\ cpc[c] \in {"open", "warn", "fallback"}
                                          /\ \E l \in {"warn", "fallback", "swap"} :
                                               cpc' = [cpc EXCEPT ![c] = l]
  PROVE  Phases' /\ NewSinksEmpty'
<1>1. BeforeSwap' = BeforeSwap
  BY DEF BeforeSwap
<1>2. \A d \in Callers : \/ cpc'[d] = cpc[d]
                         \/ /\ cpc[d] \in {"open", "warn", "fallback"}
                            /\ cpc'[d] \in {"warn", "fallback", "swap"}
  BY DEF IInv, Typed
<1>3. \A d \in Callers : Flush(d)'
  BY <1>1, <1>2 DEF RInv, Phases, Flush
<1>4. Phases'
  BY <1>1, <1>3 DEF RInv, Phases
<1>5. \A k \in 1 .. Newest' :
        \/ k \in 1 .. Newest /\ sinks'[k].lines = sinks[k].lines
        \/ sinks'[k].lines = <<>>
  BY DEF NoNewLines
<1>6. NewSinksEmpty'
  BY <1>2, <1>5 DEF RInv, NewSinksEmpty
<1> QED BY <1>4, <1>6

(* A call moves on past the swap: the base is the newest sink, and open.     *)
LEMMA PhasesPast ==
  ASSUME IInv, RInv, NEW c \in Callers, cpc[c] \in {"swap", "install", "level"},
         NEW l \in {"level", "close"}, cpc' = [cpc EXCEPT ![c] = l],
         base' = Newest, bufClosed, drained = <<>>,
         UNCHANGED <<logMu, bufClosed, drained, sinks>>
  PROVE  Phases' /\ NewSinksEmpty'
<1>1. /\ logMu = c /\ Made(c) /\ closer \in 0 .. Newest /\ Newest \in Nat
      /\ cpc' \in [Callers -> CallerPC]
      /\ \A d \in Callers : cpc'[d] = IF d = c THEN l ELSE "idle"
  BY Others, LengthIsNat DEF IInv, Typed, Progress, CallerPC
<1>2. Newest # 0 /\ sinks[Newest].open /\ Newest' = Newest
  BY <1>1 DEF Made, Newest
<1>3. Phases'
  BY <1>1, <1>2, NobodyCalls DEF Phases, Flush
<1>4. NewSinksEmpty'
  BY <1>1, <1>2 DEF NewSinksEmpty
<1> QED BY <1>3, <1>4

LEMMA StepRInv == IInv /\ IInv' /\ RInv /\ [Next]_vars => RInv'
<1> SUFFICES ASSUME IInv, IInv', RInv, [Next]_vars PROVE RInv'
  OBVIOUS
<1> USE NobodyCalls DEF Goto, config, boot, fanout, hist
<1>0. /\ Typed /\ Locked /\ SinksTyped /\ Newest \in Nat /\ base \in 0 .. Newest
      /\ level \in Nat /\ lvl \in [Loggers -> Nat] /\ Warn \in Nat
      /\ \A s \in Settings : LevelOf[s] \in Nat
  BY LengthIsNat, SettingsKnown DEF IInv, Typed, RInv, RecordsTyped
<1>1. ASSUME NoNewLines, UNCHANGED <<log, stderr, evicted, buffer, drained, flushMin>>,
             level' \in Nat, lvl' \in [Loggers -> Nat], Phases', NewSinksEmpty'
      PROVE  RInv'
  BY <1>1, RecordsStay DEF RInv
<1>2. ASSUME UNCHANGED <<sinks, log, stderr, evicted, buffer, drained, flushMin, logMu, hubMu,
                         base, bufClosed, applied, cpc, level>>, lvl' \in [Loggers -> Nat]
      PROVE  RInv'
  <2>1. NoNewLines
    BY <1>0, <1>2 DEF NoNewLines, Newest
  <2>2. Phases' /\ NewSinksEmpty'
    BY <1>2, <2>1, PhasesKept DEF RInv, Phases
  <2> QED BY <1>0, <1>1, <1>2, <2>1, <2>2
<1>3. ASSUME Install PROVE RInv'
  BY <1>0, <1>2, <1>3 DEF Install
<1>4. ASSUME NEW l \in Loggers, NEW v \in Levels, Log(l, v) PROVE RInv'
  BY <1>0, <1>2, <1>4, SettingsKnown DEF Log
<1>5. ASSUME NEW v \in Nat, Deliver(v), hubMu = Nobody, lvl' \in [Loggers -> Nat],
             UNCHANGED <<base, level, drained, logMu, hubMu, applied>>,
             cpc' = cpc \/ \E c \in Callers : /\ cpc[c] = "warn"
                                              /\ cpc' = [cpc EXCEPT ![c] = "fallback"]
      PROVE  RInv'
  <2>1. /\ RecordsTyped' /\ Waiting(buffer)' /\ Waiting(drained)'
        /\ LinesHandled' /\ LinesRise' /\ Conserved' /\ Urgent'
        /\ SinksTyped' /\ SameSinks /\ UNCHANGED <<bufClosed, flushMin>>
        /\ \A k \in 1 .. Newest : base < k => sinks'[k].lines = <<>>
    BY <1>0, <1>5, RecordHandled
  <2>2. BeforeSwap' = BeforeSwap
    BY <1>5, <2>1 DEF BeforeSwap
  <2>3. \A d \in Callers : cpc'[d] = cpc[d] \/ (cpc[d] = "warn" /\ cpc'[d] = "fallback")
    <3>1. cpc \in [Callers -> CallerPC]
      BY <1>0 DEF Typed
    <3>2. CASE \E c \in Callers : cpc[c] = "warn" /\ cpc' = [cpc EXCEPT ![c] = "fallback"]
      BY <3>1, <3>2
    <3> QED BY <1>5, <3>2
  <2>4. \A d \in Callers : Flush(d)' /\ cpc'[d] # "replay"
    BY <1>5, <2>1, <2>2, <2>3 DEF RInv, Phases, Flush
  <2>5. base # 0 => sinks'[base].open
    BY <1>0, <2>1 DEF RInv, Phases, SameSinks
  <2>6. Phases'
    BY <1>5, <2>1, <2>2, <2>4, <2>5 DEF RInv, Phases
  <2>7. NewSinksEmpty'
    BY <1>5, <2>1, <2>4 DEF NewSinksEmpty, SameSinks
  <2> QED BY <2>1, <2>6, <2>7 DEF RInv
<1>6. ASSUME NEW l \in Loggers, Handle(l) PROVE RInv'
  BY <1>0, <1>5, <1>6 DEF Handle
<1>7. ASSUME NEW c \in Callers, NEW s \in Settings, Configure(c, s) PROVE RInv'
  <2>1. NoNewLines
    BY <1>0, <1>7 DEF NoNewLines, Newest, Configure
  <2>2. BeforeSwap /\ BeforeSwap' = BeforeSwap
    BY <1>7 DEF Configure, RInv, Phases, BeforeSwap
  <2>3. \A d \in Callers : cpc'[d] = IF d = c THEN "open" ELSE "idle"
    BY <1>0, <1>7 DEF Configure, Locked, Typed
  <2>4. Phases'
    BY <1>7, <2>2, <2>3 DEF Configure, RInv, Phases, Flush
  <2>5. NewSinksEmpty'
    BY <1>7, <2>3 DEF Configure, RInv, NewSinksEmpty, Newest
  <2> QED BY <1>0, <1>1, <1>7, <2>1, <2>4, <2>5 DEF Configure
<1>8. ASSUME NEW c \in Callers, cpc[c] \in {"open", "warn", "fallback"},
             NEW l \in {"warn", "fallback", "swap"}, cpc' = [cpc EXCEPT ![c] = l],
             UNCHANGED <<log, stderr, evicted, buffer, drained, flushMin, logMu, hubMu, base,
                         bufClosed, applied, level, lvl>>,
             sinks' = sinks \/ \E onStderr \in BOOLEAN : NewSink(c, onStderr)
      PROVE  RInv'
  <2>1. NoNewLines /\ (base # 0 => sinks'[base].open)
    <3>1. CASE sinks' = sinks
      BY <1>0, <3>1 DEF NoNewLines, Newest, RInv, Phases
    <3>2. ASSUME NEW onStderr \in BOOLEAN, NewSink(c, onStderr)
          PROVE  NoNewLines /\ (base # 0 => sinks'[base].open)
      <4>1. /\ Newest' = Newest + 1
            /\ \A k \in 1 .. Newest : sinks'[k] = sinks[k]
            /\ sinks'[Newest + 1].lines = <<>>
        BY <1>0, <1>8, <3>2, SinkAdded DEF Locked
      <4>2. \A k \in 1 .. Newest + 1 : Newest < k => k = Newest + 1
        BY <1>0
      <4>3. NoNewLines
        BY <1>0, <4>1, <4>2 DEF NoNewLines
      <4> QED BY <1>0, <4>1, <4>3 DEF RInv, Phases
    <3> QED BY <1>8, <3>1, <3>2
  <2>2. Phases' /\ NewSinksEmpty'
    BY <1>8, <2>1, PhasesKept
  <2> QED BY <1>0, <1>1, <1>8, <2>1, <2>2
<1>9. ASSUME NEW c \in Callers, OpenSink(c) PROVE RInv'
  <2>1. (cfg[c] \in ToStderr) \in BOOLEAN
    OBVIOUS
  <2> QED BY <1>8, <1>9, <2>1 DEF OpenSink
<1>10. ASSUME NEW c \in Callers, OpenFails(c) PROVE RInv'
  BY <1>8, <1>10 DEF OpenFails
<1>11. ASSUME NEW c \in Callers, WarnFallback(c) PROVE RInv'
  <2>1. CASE Warn >= level
    BY <1>0, <1>5, <1>11, <2>1 DEF WarnFallback
  <2>2. CASE ~(Warn >= level)
    BY <1>8, <1>11, <2>2 DEF WarnFallback
  <2> QED BY <2>1, <2>2
<1>12. ASSUME NEW c \in Callers, OpenFallback(c) PROVE RInv'
  BY <1>8, <1>12 DEF OpenFallback
<1>13. ASSUME NEW c \in Callers, cpc[c] \in {"swap", "install", "level"},
              NEW l \in {"level", "close"}, cpc' = [cpc EXCEPT ![c] = l],
              base' = Newest, bufClosed, drained = <<>>, level' \in Nat,
              UNCHANGED <<log, stderr, evicted, buffer, drained, flushMin, logMu,
                          bufClosed, sinks, lvl>>
       PROVE  RInv'
  <2>1. NoNewLines
    BY <1>0, <1>13 DEF NoNewLines, Newest
  <2> QED BY <1>0, <1>1, <1>13, <2>1, PhasesPast
<1>14. ASSUME NEW c \in Callers, SwapBase(c) PROVE RInv'
  <2>1. bufClosed /\ drained = <<>>
    BY <1>14 DEF SwapBase, RInv, Phases, Flush, BeforeSwap
  <2> QED BY <1>0, <1>13, <1>14, <2>1 DEF SwapBase
<1>15. ASSUME NEW c \in Callers, InstallBase(c) PROVE RInv'
  <2>1. bufClosed /\ drained = <<>>
    BY <1>15 DEF InstallBase, RInv, Phases, Flush
  <2> QED BY <1>0, <1>13, <1>15, <2>1 DEF InstallBase
<1>16. ASSUME NEW c \in Callers, ApplyLevel(c) PROVE RInv'
  <2>1. bufClosed /\ drained = <<>> /\ base = Newest /\ cfg[c] \in Settings
    BY <1>0, <1>16 DEF ApplyLevel, RInv, Phases, Flush, IInv, Progress, Locked
  <2> QED BY <1>0, <1>13, <1>16, <2>1 DEF ApplyLevel
<1>17. ASSUME NEW c \in Callers, DrainBuffer(c) PROVE RInv'
  <2>1. BeforeSwap /\ base = 0 /\ flushMin = 0 /\ drained = <<>>
    BY <1>17 DEF DrainBuffer, RInv, Phases, Flush, BeforeSwap
  <2>2. /\ RecordsTyped' /\ Waiting(buffer)' /\ Waiting(drained)'
        /\ LinesHandled' /\ LinesRise' /\ Conserved' /\ Urgent'
    BY <1>17, <2>1, RecordsDrained DEF DrainBuffer
  <2>3. logMu = c /\ \A d \in Callers : cpc'[d] = IF d = c THEN "replay" ELSE "idle"
    BY <1>0, <1>17, Others DEF DrainBuffer, Typed
  <2>4. Phases'
    BY <1>17, <2>1, <2>3 DEF DrainBuffer, Phases, Flush
  <2>5. \A k \in 1 .. Newest : sinks[k].lines = <<>>
    BY <1>0, <1>17, <2>1 DEF DrainBuffer, RInv, NewSinksEmpty
  <2>6. NewSinksEmpty'
    BY <1>17, <2>5 DEF DrainBuffer, NewSinksEmpty, Newest
  <2> QED BY <2>2, <2>4, <2>6 DEF RInv
<1>18. ASSUME NEW c \in Callers, Replay(c) PROVE RInv'
  <2>1. /\ RecordsTyped' /\ Waiting(buffer)' /\ Waiting(drained)'
        /\ LinesHandled' /\ LinesRise' /\ Conserved' /\ Urgent' /\ SameSinks
    BY <1>18, RecordsReplayed
  <2>2. logMu = c /\ hubMu = c /\ bufClosed /\ base = 0
    BY <1>18, Others DEF Replay, RInv, Phases, Flush
  <2>3. \A d \in Callers : cpc'[d] = IF d = c THEN "install" ELSE "idle"
    BY <1>0, <1>18, Others DEF Replay, Typed
  <2>4. Phases'
    BY <1>18, <2>2, <2>3 DEF Replay, Phases, Flush
  <2>5. NewSinksEmpty'
    BY <1>18, <2>2, <2>3 DEF Replay, NewSinksEmpty
  <2> QED BY <2>1, <2>4, <2>5 DEF RInv
<1>19. ASSUME NEW c \in Callers, CloseOld(c) PROVE RInv'
  <2>1. logMu = c /\ base = Newest /\ Made(c) /\ closer \in 0 .. Newest /\ bufClosed /\ drained = <<>>
    BY <1>0, <1>19, Others DEF CloseOld, IInv, Progress, Typed, RInv, Phases, Flush
  <2>2. /\ Newest' = Newest
        /\ \A k \in 1 .. Newest : /\ sinks'[k].lines = sinks[k].lines
                                  /\ sinks'[k].open = IF k = closer THEN sinks[k].stderr
                                                                    ELSE sinks[k].open
    BY <1>0, <1>19, SinkClosed DEF CloseOld
  <2>3. NoNewLines
    BY <1>0, <2>2 DEF NoNewLines
  <2>4. Newest \in 1 .. Newest /\ Newest # 0 /\ closer # Newest /\ sinks[Newest].open
    BY <1>0, <2>1 DEF Made
  <2>5. \A d \in Callers : cpc'[d] = "idle"
    BY <1>0, <1>19, <2>1, Others DEF CloseOld, Typed
  <2>6. BeforeSwap'
    BY <1>19, <2>1, <2>4 DEF CloseOld, BeforeSwap
  <2>7. Phases'
    BY <1>19, <2>1, <2>2, <2>4, <2>5, <2>6 DEF CloseOld, Phases, Flush
  <2>8. NewSinksEmpty'
    BY <1>0, <1>19, <2>1, <2>2, <2>5 DEF CloseOld, NewSinksEmpty
  <2> QED BY <1>0, <1>1, <1>19, <2>3, <2>7, <2>8 DEF CloseOld
<1>20. CASE UNCHANGED vars
  BY <1>0, <1>2, <1>20 DEF vars
<1> QED
  BY <1>3, <1>4, <1>6, <1>7, <1>9, <1>10, <1>11, <1>12, <1>14, <1>15, <1>16, <1>17, <1>18,
     <1>19, <1>20
     DEF Next, ConfigStep

LEMMA AlwaysRInv == Spec => []RInv
  BY InitIInv, StepIInv, RecordsInit, StepRInv, PTL DEF Spec

LEMMA SinkNumbers == IInv => DOMAIN sinks = 1 .. Newest
  BY DEF IInv, Typed, SinksTyped, Newest

LEMMA LinedIsOnSink ==
  ASSUME IInv, NEW n
  PROVE  Lined(n) <=> n \in UNION {Numbers(sinks[k].lines) : k \in DOMAIN sinks}
  BY SinkNumbers DEF Lined, Numbers

(* No record is lost by the first ConfigureLogging or by a later one: what   *)
(* passed the level waits in the buffer or the flush, is on a sink, was      *)
(* pushed out of the full buffer, or is below the level of the flush.        *)
THEOREM ConfigNothingLost == Spec => []NothingLost
<1>1. ASSUME IInv, RInv, NEW n \in DOMAIN log, log[n].passed PROVE n \in Accounted
  <2>1. \/ In(buffer, n) \/ In(drained, n) \/ n \in evicted \/ Lined(n)
        \/ log[n].base = 0 /\ log[n].level < flushMin
    BY <1>1 DEF RInv, Conserved
  <2>2. \A q : In(q, n) => n \in Elements(q)
    BY DEF In, Elements
  <2> DEFINE OnSinks  == UNION {Numbers(sinks[k].lines) : k \in DOMAIN sinks}
             Filtered == {m \in DOMAIN log : log[m].base = 0 /\ log[m].level < flushMin}
  <2>3. Lined(n) => n \in OnSinks
    BY <1>1, LinedIsOnSink
  <2>4. log[n].base = 0 /\ log[n].level < flushMin => n \in Filtered
    BY <1>1
  <2>5. Accounted = Elements(buffer) \union Elements(drained) \union evicted \union OnSinks
                      \union Filtered
    BY DEF Accounted
  <2> HIDE DEF OnSinks, Filtered
  <2> QED BY <2>1, <2>2, <2>3, <2>4, <2>5
<1>2. IInv /\ RInv => NothingLost
  BY <1>1 DEF NothingLost
<1> QED BY <1>2, AlwaysIInv, AlwaysRInv, PTL

(* A record at WARN or above is on stderr or in a sink from the moment it is *)
(* handled, whatever becomes of the buffer it also waits in.                 *)
THEOREM ConfigUrgentVisible == Spec => []UrgentVisible
<1>1. \A q, n : In(q, n) => n \in Elements(q)
  BY DEF In, Elements
<1>2. IInv /\ RInv => UrgentVisible
  BY <1>1, LinedIsOnSink DEF RInv, Urgent, UrgentVisible
<1> QED BY <1>2, AlwaysIInv, AlwaysRInv, PTL

(* Through all the sinks, one after the other, the records come in the order *)
(* handled, each once: what was replayed comes before what was handled after *)
(* the swap, on whatever goroutines.                                         *)
THEOREM ConfigLinesInOrder == Spec => []LinesInOrder
<1>1. IInv /\ RInv => LinesInOrder
  BY SinkNumbers DEF RInv, LinesRise, LinesInOrder
<1> QED BY <1>1, AlwaysIInv, AlwaysRInv, PTL

-----------------------------------------------------------------------------
(* The rest of the type, and what it takes to keep the counters in bounds.   *)

Entry == [level : Levels, passed : BOOLEAN, base : 0 .. MaxSinks]

RestTyped ==
  /\ installed \in BOOLEAN /\ applied \in BOOLEAN /\ bufClosed \in BOOLEAN
  /\ hubMu \in Callers \union {Nobody}
  /\ level \in Levels /\ flushMin \in Levels \union {0}
  /\ key \in Settings \union {Nobody}
  /\ lpc \in [Loggers -> LoggerPC] /\ lvl \in [Loggers -> Levels]

(* The buffer is never beyond its capacity, and what was pushed out of it or *)
(* printed on stderr are records that were handled.                          *)
Numbered ==
  /\ log \in Seq(Entry)
  /\ Len(buffer) <= BufferCap
  /\ evicted \subseteq DOMAIN log
  /\ \A i \in DOMAIN stderr : stderr[i] \in DOMAIN log

(* A call that is to open a sink has room for it, and besides the loggers'   *)
(* records there is one warning, at most, for every sink: the warning comes  *)
(* before the fallback is opened.                                            *)
Room ==
  /\ Newest <= MaxSinks
  /\ \A c \in Callers : cpc[c] \in {"open", "warn", "fallback"} => Newest < MaxSinks
  /\ Len(log) <= MaxRecords + Newest + 1
  /\ (\A c \in Callers : cpc[c] # "fallback") => Len(log) <= MaxRecords + Newest

TInv == RestTyped /\ Numbered /\ Room

LEMMA InitTInv == Init => TInv
<1> SUFFICES ASSUME Init PROVE TInv
  OBVIOUS
<1>1. /\ sinks = <<>> /\ Newest = 0 /\ log = <<>> /\ stderr = <<>> /\ buffer = <<>>
      /\ Len(log) = 0 /\ Len(buffer) = 0
  BY DEF Init, Newest
<1>2. Numbered
  BY <1>1, Bounds DEF Init, Numbered
<1>3. Room
  BY <1>1, Bounds DEF Init, Room
<1>4. /\ installed \in BOOLEAN /\ applied \in BOOLEAN /\ bufClosed \in BOOLEAN
  <2>1. installed = FALSE /\ applied = FALSE /\ bufClosed = FALSE
    BY Zenon DEF Init
  <2> QED BY ONLY <2>1
<1>5. RestTyped
  BY <1>4, SettingsKnown DEF Init, RestTyped, LoggerPC
<1> QED BY <1>2, <1>3, <1>5 DEF TInv

LEMMA CaptureFits ==
  ASSUME buffer \in Seq(Nat), Len(buffer) <= BufferCap, NEW n \in Nat, Capture(n)
  PROVE  Len(buffer') <= BufferCap
<1>1. CASE bufClosed
  BY <1>1 DEF Capture
<1>2. CASE ~bufClosed /\ Len(buffer) >= BufferCap
  <2>1. buffer # <<>>
    BY <1>2, Bounds
  <2>2. Tail(buffer) \in Seq(Nat) /\ Len(Tail(buffer)) = Len(buffer) - 1
    BY <2>1
  <2> QED BY <1>2, <2>2, Bounds DEF Capture
<1>3. CASE ~bufClosed /\ ~(Len(buffer) >= BufferCap)
  <2>1. Len(buffer') = Len(buffer) + 1
    BY <1>3 DEF Capture
  <2> QED BY <1>3, <2>1, Bounds
<1> QED BY <1>1, <1>2, <1>3

(* Handling a record numbers it, and keeps the buffer within its capacity.   *)
LEMMA DeliverNumbers ==
  ASSUME IInv, RInv, TInv, NEW v \in Levels, Deliver(v), hubMu = Nobody
  PROVE  Numbered' /\ Newest' = Newest /\ flushMin' = flushMin /\ Len(log') = Len(log) + 1
                   /\ bufClosed' = bufClosed
<1> DEFINE n == Len(log) + 1
<1>0. /\ Typed /\ v \in Nat /\ log \in Seq(Entry) /\ n \in Nat /\ base \in 0 .. MaxSinks
      /\ buffer \in Seq(Nat) /\ stderr \in Seq(Nat) /\ Len(buffer) <= BufferCap
  BY SettingsKnown, Bounds, LengthIsNat DEF IInv, Typed, TInv, Numbered, Room, RInv, RecordsTyped
<1>1. /\ SameSinks
      /\ log' = Append(log, [level |-> v, passed |-> v >= level, base |-> base])
      /\ bufClosed' = bufClosed /\ flushMin' = flushMin
      /\ \/ UNCHANGED <<buffer, evicted, stderr>>
         \/ /\ \/ evicted' = evicted
               \/ buffer # <<>> /\ evicted' = evicted \union {Head(buffer)}
            /\ stderr' = stderr \/ stderr' = Append(stderr, n)
  BY <1>0, Delivers
<1>2. /\ log' \in Seq(Entry) /\ Len(log') = Len(log) + 1
      /\ DOMAIN log \subseteq DOMAIN log' /\ n \in DOMAIN log'
  <2>1. [level |-> v, passed |-> v >= level, base |-> base] \in Entry
    BY <1>0 DEF Entry
  <2> HIDE DEF n
  <2>2. n = Len(log) + 1
    BY DEF n
  <2> QED BY <1>0, <1>1, <2>1, <2>2
<1>3. Len(buffer') <= BufferCap
  <2>1. buffer' = buffer \/ Capture(n)
    BY DEF Deliver, WriteTee, WriteSink, boot
  <2> HIDE DEF n
  <2> QED BY <1>0, <2>1, CaptureFits
<1>4. evicted' \subseteq DOMAIN log'
  <2>1. buffer # <<>> => Head(buffer) \in DOMAIN log
    BY <1>0 DEF RInv, Waiting
  <2> QED BY <1>1, <1>2, <2>1 DEF TInv, Numbered
<1>5. \A i \in DOMAIN stderr' : stderr'[i] \in DOMAIN log'
  <2>1. \A i \in DOMAIN stderr : stderr[i] \in DOMAIN log'
    BY <1>2 DEF TInv, Numbered
  <2> HIDE DEF n
  <2>2. CASE stderr' = Append(stderr, n)
    <3>1. \A i \in DOMAIN stderr' : (i \in DOMAIN stderr /\ stderr'[i] = stderr[i]) \/ stderr'[i] = n
      BY <1>0, <2>2
    <3> QED BY <1>2, <2>1, <3>1
  <2> QED BY <1>1, <2>1, <2>2
<1>6. Newest' = Newest
  BY <1>1 DEF SameSinks
<1> QED BY <1>1, <1>2, <1>3, <1>4, <1>5, <1>6 DEF Numbered

(* The flush prints no record on stderr that was not handled.                *)
LEMMA ReplayNumbers ==
  ASSUME IInv, RInv, TInv, NEW c \in Callers, Replay(c)
  PROVE  Numbered' /\ Newest' = Newest
<1> PICK p : p = Passing(drained, LevelOf[cfg[c]])
  OBVIOUS
<1>1. /\ drained \in Seq(Nat) /\ Rising(drained) /\ stderr \in Seq(Nat)
      /\ \A m : In(drained, m) => m \in DOMAIN log
  BY DEF RInv, RecordsTyped, Waiting, In
<1>2. p \in Seq(Nat) /\ \A i \in DOMAIN p : p[i] \in DOMAIN log
  <2>1. p \in Seq(Nat) /\ \A m \in Nat : In(p, m) => In(drained, m)
    BY <1>1, PassingKeeps
  <2>2. \A i \in DOMAIN p : p[i] \in Nat /\ In(p, p[i])
    BY <2>1 DEF In
  <2> QED BY <1>1, <2>1, <2>2
<1>3. /\ stderr' = stderr \/ stderr' = stderr \o p
      /\ UNCHANGED <<log, buffer, evicted>>
  BY DEF Replay, boot
<1>4. \A i \in DOMAIN stderr' : stderr'[i] \in DOMAIN log
  <2>1. \A i \in DOMAIN stderr : stderr[i] \in DOMAIN log
    BY DEF TInv, Numbered
  <2>2. ASSUME stderr' = stderr \o p, NEW i \in DOMAIN stderr' PROVE stderr'[i] \in DOMAIN log
    <3>1. \/ i \in DOMAIN stderr /\ stderr'[i] = stderr[i]
          \/ i - Len(stderr) \in DOMAIN p /\ stderr'[i] = p[i - Len(stderr)]
      BY <1>1, <1>2, <2>2
    <3> QED BY <1>2, <2>1, <3>1
  <2> QED BY <1>3, <2>1, <2>2
<1>5. Newest' = Newest
  BY RecordsReplayed DEF SameSinks
<1> QED BY <1>3, <1>4, <1>5 DEF TInv, Numbered

LEMMA NumberedKept ==
  ASSUME TInv, UNCHANGED <<log, evicted, stderr>>, buffer' = buffer \/ buffer' = <<>>
  PROVE  Numbered'
<1>1. buffer' = <<>> => Len(buffer') <= BufferCap
  BY Bounds
<1> QED BY <1>1 DEF TInv, Numbered

LEMMA StepRest == IInv /\ RInv /\ TInv /\ [Next]_vars => RestTyped'
<1> SUFFICES ASSUME IInv, RInv, TInv, [Next]_vars PROVE RestTyped'
  OBVIOUS
<1> USE DEF Goto, config, boot, fanout, hist
<1>0. /\ RestTyped /\ LevelOf \in [Settings -> Levels] /\ Warn \in Levels
      /\ cfg \in [Callers -> Settings \union {Nobody}]
      /\ \A c \in Callers : cpc[c] # "idle" => cfg[c] \in Settings /\ LevelOf[cfg[c]] \in Levels
  BY SettingsKnown DEF IInv, Typed, Locked, TInv
<1>1. CASE Install
  BY <1>0, <1>1 DEF Install, RestTyped
<1>2. ASSUME NEW l \in Loggers, Handle(l) PROVE RestTyped'
  <2>1. lvl[l] \in Levels
    BY <1>0 DEF RestTyped
  <2>2. bufClosed' = bufClosed /\ flushMin' = flushMin
    BY <1>2, <2>1, DeliverNumbers DEF Handle
  <2> QED BY <1>0, <1>2, <2>2 DEF Handle, RestTyped, LoggerPC
<1>3. ASSUME NEW l \in Loggers, NEW v \in Levels, Log(l, v) PROVE RestTyped'
  BY <1>0, <1>3 DEF Log, RestTyped, LoggerPC
<1>4. ASSUME NEW c \in Callers, NEW s \in Settings, Configure(c, s) PROVE RestTyped'
  BY <1>0, <1>4 DEF Configure, RestTyped
<1>5. ASSUME NEW c \in Callers, OpenSink(c) \/ OpenFails(c) \/ OpenFallback(c) PROVE RestTyped'
  BY <1>0, <1>5 DEF OpenSink, OpenFails, OpenFallback, RestTyped
<1>6. ASSUME NEW c \in Callers, WarnFallback(c) PROVE RestTyped'
  <2>1. bufClosed' = bufClosed /\ flushMin' = flushMin
    BY <1>0, <1>6, DeliverNumbers DEF WarnFallback
  <2> QED BY <1>0, <1>6, <2>1 DEF WarnFallback, RestTyped
<1>7. ASSUME NEW c \in Callers, SwapBase(c) \/ DrainBuffer(c) \/ InstallBase(c) PROVE RestTyped'
  BY <1>0, <1>7 DEF SwapBase, DrainBuffer, InstallBase, RestTyped
<1>8. ASSUME NEW c \in Callers, Replay(c) \/ ApplyLevel(c) PROVE RestTyped'
  <2>1. LevelOf[cfg[c]] \in Levels
    BY <1>0, <1>8 DEF Replay, ApplyLevel
  <2> QED BY <1>0, <1>8, <2>1 DEF Replay, ApplyLevel, RestTyped
<1>9. ASSUME NEW c \in Callers, CloseOld(c) PROVE RestTyped'
  BY <1>0, <1>9 DEF CloseOld, RestTyped
<1>10. CASE UNCHANGED vars
  BY <1>0, <1>10 DEF vars, RestTyped
<1> QED
  BY <1>1, <1>2, <1>3, <1>4, <1>5, <1>6, <1>7, <1>8, <1>9, <1>10 DEF Next, ConfigStep

LEMMA StepNumbered == IInv /\ RInv /\ TInv /\ [Next]_vars => Numbered'
<1> SUFFICES ASSUME IInv, RInv, TInv, [Next]_vars PROVE Numbered'
  OBVIOUS
<1> USE DEF boot, hist
<1>1. CASE Install
  BY <1>1, NumberedKept DEF Install
<1>2. ASSUME NEW l \in Loggers, Handle(l) PROVE Numbered'
  <2>1. lvl[l] \in Levels
    BY DEF TInv, RestTyped
  <2> QED BY <1>2, <2>1, DeliverNumbers DEF Handle
<1>3. ASSUME NEW l \in Loggers, NEW v \in Levels, Log(l, v) PROVE Numbered'
  BY <1>3, NumberedKept DEF Log
<1>4. ASSUME NEW c \in Callers, NEW s \in Settings, Configure(c, s) PROVE Numbered'
  BY <1>4, NumberedKept DEF Configure
<1>5. ASSUME NEW c \in Callers, OpenSink(c) \/ OpenFails(c) \/ OpenFallback(c) PROVE Numbered'
  BY <1>5, NumberedKept DEF OpenSink, OpenFails, OpenFallback
<1>6. ASSUME NEW c \in Callers, WarnFallback(c) PROVE Numbered'
  BY <1>6, DeliverNumbers, NumberedKept, SettingsKnown DEF WarnFallback
<1>7. ASSUME NEW c \in Callers, SwapBase(c) \/ DrainBuffer(c) \/ InstallBase(c) PROVE Numbered'
  BY <1>7, NumberedKept DEF SwapBase, DrainBuffer, InstallBase
<1>8. ASSUME NEW c \in Callers, ApplyLevel(c) \/ CloseOld(c) PROVE Numbered'
  BY <1>8, NumberedKept DEF ApplyLevel, CloseOld
<1>9. ASSUME NEW c \in Callers, Replay(c) PROVE Numbered'
  BY <1>9, ReplayNumbers
<1>10. CASE UNCHANGED vars
  BY <1>10, NumberedKept DEF vars
<1> QED
  BY <1>1, <1>2, <1>3, <1>4, <1>5, <1>6, <1>7, <1>8, <1>9, <1>10 DEF Next, ConfigStep

(* Steps that handle nothing and open nothing. *)
LEMMA RoomKept ==
  ASSUME IInv, TInv, log' = log, Newest' = Newest,
         \A c \in Callers : \/ cpc'[c] = cpc[c]
                            \/ cpc[c] # "fallback" /\ cpc'[c] \notin {"open", "warn", "fallback"}
                            \/ cpc[c] = "open" /\ cpc'[c] = "warn"
                            \/ cpc'[c] = "open" /\ cpc[c] = "idle" /\ Newest < MaxSinks
  PROVE  Room'
  BY DEF TInv, Room

LEMMA StepRoom == IInv /\ RInv /\ TInv /\ [Next]_vars => Room'
<1> SUFFICES ASSUME IInv, RInv, TInv, [Next]_vars PROVE Room'
  OBVIOUS
<1> USE DEF Goto, boot, hist, fanout
<1>0. /\ Room /\ Newest \in Nat /\ Len(log) \in Nat /\ cpc \in [Callers -> CallerPC]
      /\ (UNCHANGED sinks => Newest' = Newest)
  BY LengthIsNat DEF IInv, Typed, TInv, Numbered, Newest
<1>1. CASE Install
  BY <1>0, <1>1, RoomKept DEF Install
<1>2. ASSUME NEW l \in Loggers, Handle(l) PROVE Room'
  <2>1. lvl[l] \in Levels
    BY DEF TInv, RestTyped
  <2>2. Len(log') = Len(log) + 1 /\ Newest' = Newest /\ Len(log) < MaxRecords /\ cpc' = cpc
    BY <1>2, <2>1, DeliverNumbers DEF Handle
  <2> QED BY <1>0, <2>2, Bounds DEF Room
<1>3. ASSUME NEW l \in Loggers, NEW v \in Levels, Log(l, v) PROVE Room'
  BY <1>0, <1>3, RoomKept DEF Log
<1>4. ASSUME NEW c \in Callers, NEW s \in Settings, Configure(c, s) PROVE Room'
  <2>1. /\ Newest < MaxSinks /\ cpc[c] = "idle" /\ log' = log /\ Newest' = Newest
        /\ \A d \in Callers : cpc'[d] = IF d = c THEN "open" ELSE cpc[d]
    BY <1>0, <1>4 DEF Configure, Newest
  <2> QED BY <2>1, RoomKept
<1>5. ASSUME NEW c \in Callers, OpenSink(c) \/ OpenFallback(c) PROVE Room'
  <2>1. cpc[c] \in {"open", "fallback"} /\ log' = log /\ cfg[c] \in Settings
    BY <1>5 DEF OpenSink, OpenFallback, IInv, Locked
  <2>2. Newest' = Newest + 1
    <3>1. (cfg[c] \in ToStderr) \in BOOLEAN
      OBVIOUS
    <3> QED BY <1>5, <2>1, <3>1, SinkAdded DEF IInv, OpenSink, OpenFallback
  <2>3. \A d \in Callers : cpc'[d] = IF d = c THEN "swap" ELSE "idle"
    BY <1>0, <1>5, <2>1, Others DEF OpenSink, OpenFallback
  <2>4. Newest < MaxSinks /\ Len(log) <= MaxRecords + Newest + 1
    BY <2>1 DEF TInv, Room
  <2> QED BY <1>0, <2>1, <2>2, <2>3, <2>4, Bounds DEF Room
<1>6. ASSUME NEW c \in Callers, OpenFails(c) PROVE Room'
  <2>1. /\ cpc[c] = "open" /\ log' = log /\ Newest' = Newest
        /\ \A d \in Callers : cpc'[d] = IF d = c THEN "warn" ELSE cpc[d]
    BY <1>0, <1>6 DEF OpenFails
  <2> QED BY <2>1, RoomKept
<1>7. ASSUME NEW c \in Callers, WarnFallback(c) PROVE Room'
  <2>1. Newest' = Newest /\ (log' = log \/ Len(log') = Len(log) + 1)
    BY <1>0, <1>7, DeliverNumbers, SettingsKnown DEF WarnFallback
  <2>2. /\ cpc[c] = "warn"
        /\ \A d \in Callers : cpc[d] # "fallback" /\ (d = c => cpc'[d] = "fallback")
                             /\ (d # c => cpc'[d] = "idle")
    BY <1>0, <1>7, Others DEF WarnFallback
  <2>3. Newest < MaxSinks /\ Len(log) <= MaxRecords + Newest
    BY <2>2 DEF TInv, Room
  <2> QED BY <1>0, <2>1, <2>2, <2>3, Bounds DEF Room
<1>8. ASSUME NEW c \in Callers, SwapBase(c) \/ DrainBuffer(c) \/ InstallBase(c) \/ ApplyLevel(c)
      PROVE  Room'
  <2>1. /\ cpc[c] # "fallback" /\ log' = log /\ Newest' = Newest
        /\ \A d \in Callers : IF d = c THEN cpc'[d] \in {"level", "replay", "close"}
                                       ELSE cpc'[d] = cpc[d]
    BY <1>0, <1>8 DEF SwapBase, DrainBuffer, InstallBase, ApplyLevel
  <2> QED BY <2>1, RoomKept
<1>9. ASSUME NEW c \in Callers, Replay(c) PROVE Room'
  <2>1. /\ cpc[c] # "fallback" /\ log' = log
        /\ \A d \in Callers : cpc'[d] = IF d = c THEN "install" ELSE cpc[d]
    BY <1>0, <1>9 DEF Replay
  <2> QED BY <1>9, <2>1, ReplayNumbers, RoomKept
<1>10. ASSUME NEW c \in Callers, CloseOld(c) PROVE Room'
  <2>1. Newest' = Newest
    BY <1>10, SinkClosed DEF CloseOld, IInv
  <2>2. /\ cpc[c] # "fallback" /\ log' = log
        /\ \A d \in Callers : cpc'[d] = IF d = c THEN "idle" ELSE cpc[d]
    BY <1>0, <1>10 DEF CloseOld
  <2> QED BY <2>1, <2>2, RoomKept
<1>11. CASE UNCHANGED vars
  BY <1>0, <1>11, RoomKept DEF vars
<1> QED
  BY <1>1, <1>2, <1>3, <1>4, <1>5, <1>6, <1>7, <1>8, <1>9, <1>10, <1>11 DEF Next, ConfigStep

(* What the sinks hold: lines of the records that were handled.              *)
LEMMA SinksHold ==
  ASSUME IInv, RInv, (DOMAIN log) \subseteq Number
  PROVE  sinks \in Seq(Sink)
<1>1. PICK L : sinks \in Seq(SinkOf(L))
  BY DEF IInv, Typed, SinksTyped, SinkOf
<1>2. ASSUME NEW k \in 1 .. Newest PROVE sinks[k] \in Sink
  <2>1. sinks[k] \in SinkOf(L)
    BY <1>1 DEF Newest
  <2>2. /\ sinks[k].lines \in Seq([n : Nat, tagged : BOOLEAN])
        /\ \A a \in DOMAIN sinks[k].lines : sinks[k].lines[a].n \in Number
    BY DEF RInv, RecordsTyped, LinesHandled
  <2>3. \A a \in DOMAIN sinks[k].lines : sinks[k].lines[a] \in Line
    <3> TAKE a \in DOMAIN sinks[k].lines
    <3>1. sinks[k].lines[a] \in [n : Nat, tagged : BOOLEAN]
      BY <2>2, ElementOf
    <3> QED BY <2>2, <3>1 DEF Line
  <2>4. sinks[k].lines \in Seq(Line)
    BY <2>2, <2>3
  <2> QED BY <2>1, <2>4 DEF SinkOf, Sink
<1> QED BY <1>1, <1>2 DEF Newest

LEMMA TInvTypes == IInv /\ RInv /\ TInv => TypeOK
<1> SUFFICES ASSUME IInv, RInv, TInv PROVE TypeOK
  OBVIOUS
<1>1. (DOMAIN log) \subseteq Number
  <2>1. /\ Newest \in Nat /\ Newest <= MaxSinks
        /\ Len(log) <= MaxRecords + MaxSinks
    BY LengthIsNat, Bounds DEF IInv, Typed, TInv, Numbered, Room
  <2>2. DOMAIN log = 1 .. Len(log) /\ Len(log) \in Nat
    BY DEF TInv, Numbered
  <2> QED BY <2>1, <2>2, Bounds DEF Number
<1>2. sinks \in Seq(Sink) /\ Len(sinks) <= MaxSinks
  BY <1>1, SinksHold DEF TInv, Room, Newest
<1>3. ASSUME NEW q \in Seq(Nat), \A i \in DOMAIN q : q[i] \in DOMAIN log PROVE q \in Seq(Number)
  BY <1>1, <1>3
<1>4. buffer \in Seq(Number) /\ drained \in Seq(Number) /\ stderr \in Seq(Number)
  BY <1>3 DEF RInv, RecordsTyped, Waiting, TInv, Numbered
<1>5. evicted \subseteq Number /\ Len(buffer) <= BufferCap /\ log \in Seq(Entry)
  BY <1>1 DEF TInv, Numbered
<1> QED BY <1>2, <1>4, <1>5 DEF IInv, Typed, TInv, RestTyped, TypeOK, Entry

(* No variable leaves its type: the bootstrap buffer keeps no more than its  *)
(* capacity, the base and the closer are sinks that were opened, and on the  *)
(* sinks, in the buffer and on stderr are only records that were handled     *)
(* (TypeOK; logging.go:40-129, buffer.go:25-60).                             *)
THEOREM ConfigTypeOK == Spec => []TypeOK
<1>1. Init => IInv /\ RInv /\ TInv
  BY InitIInv, RecordsInit, InitTInv
<1>2. IInv /\ RInv /\ TInv /\ [Next]_vars => (IInv /\ RInv /\ TInv)'
  BY StepIInv, StepRInv, StepRest, StepNumbered, StepRoom DEF TInv
<1> QED BY <1>1, <1>2, TInvTypes, PTL DEF Spec

=============================================================================
