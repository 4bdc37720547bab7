----------------------------- MODULE LogConfig ------------------------------
(* How a service's log destination is installed and changed while it logs    *)
(* (kettlingar/logging.go over logtee's SetBase and SetBaseFlushing and the  *)
(* bootstrap BufferHandler): ConfigureLogging runs under logMu, swaps the    *)
(* fan-out's base under hub.mu and closes the sink it replaced, while other  *)
(* goroutines log.  A record is known by the order in which its Handle took  *)
(* hub.mu; subscriptions, which LogFanout models, are left out.              *)
EXTENDS Naturals, Sequences

CONSTANTS
  Loggers,        \* goroutines that log through ks.Logger
  Callers,        \* goroutines that call ConfigureLogging
  Settings,       \* resolved settings: one for every logConfigKey
  LevelOf,        \* the level each asks for
  ToStderr,       \* those whose target is stderr; the others open a file
  Levels,         \* levels of records
  Warn,           \* slog.LevelWarn
  BufferCap,      \* capacity of the bootstrap buffer
  MaxRecords,     \* bound: records handled
  MaxSinks        \* bound: sinks opened

ASSUME SettingsKnown ==
  /\ LevelOf \in [Settings -> Levels]
  /\ ToStderr \subseteq Settings
  /\ Warn \in Levels /\ Levels \subseteq Nat /\ 0 \notin Levels

ASSUME Bounds == BufferCap \in Nat \ {0} /\ MaxRecords \in Nat /\ MaxSinks \in Nat

Nobody == "nobody"
ASSUME NobodyCalls == Nobody \notin Callers \union Settings

VARIABLES
  installed,      \* InstallLogging has run: ks.logs # nil
  logMu,          \* who holds ks.logMu
  hubMu,          \* who holds hub.mu across steps
  level,          \* the fan-out's level
  base,           \* its base: 0 for the bootstrap tee, else a sink's number
  sinks,          \* every sink BaseHandler made, in order: [cfg, stderr, open, lines]
  buffer,         \* records in the BufferHandler
  bufClosed,      \* it was drained
  evicted,        \* records it discarded because it was full
  applied,        \* ks.logApplied
  key,            \* ks.logKey
  closer,         \* ks.logCloser: a sink's number, 0 for none
  lpc, lvl,       \* where a logger is, the level of its record
  cpc, cfg,       \* where a caller is, the settings it applies
  drained,        \* what it took from the buffer
  log,            \* history: the records handled, [level, passed, base]
  stderr,         \* history: records on the process's stderr
  flushMin        \* history: the level at which the buffer was flushed, or 0

config == <<applied, key, closer>>
boot   == <<buffer, bufClosed, evicted>>
fanout == <<level, base, sinks>>
hist   == <<log, stderr, flushMin>>
vars   == <<installed, logMu, hubMu, level, base, sinks, buffer, bufClosed, evicted,
            applied, key, closer, lpc, lvl, cpc, cfg, drained, log, stderr, flushMin>>

LoggerPC == {"idle", "handle"}
CallerPC == {"idle", "open", "warn", "fallback", "swap", "replay", "install", "level", "close"}

(* Records are numbered as they are handled; besides the loggers' there is   *)
(* one warning, at most, for a sink.                                         *)
Number == 1 .. (MaxRecords + MaxSinks)

(* A line of a sink: the record, and whether the service attribute is on it. *)
Line == [n : Number, tagged : BOOLEAN]
Sink == [cfg : Settings, stderr : BOOLEAN, open : BOOLEAN, lines : Seq(Line)]

Numbers(q)  == {q[i].n : i \in DOMAIN q}
Newest      == Len(sinks)

-----------------------------------------------------------------------------

Init ==
  /\ installed = FALSE
  /\ logMu = Nobody /\ hubMu = Nobody
  /\ level \in {v \in Levels : \A w \in Levels : v <= w}
  /\ base = 0 /\ sinks = <<>>
  /\ buffer = <<>> /\ bufClosed = FALSE /\ evicted = {}
  /\ applied = FALSE /\ key = Nobody /\ closer = 0
  /\ lpc = [l \in Loggers |-> "idle"]
  /\ lvl = [l \in Loggers |-> Warn]
  /\ cpc = [c \in Callers |-> "idle"]
  /\ cfg = [c \in Callers |-> Nobody]
  /\ drained = <<>>
  /\ log = <<>> /\ stderr = <<>> /\ flushMin = 0

Goto(c, p) == cpc' = [cpc EXCEPT ![c] = p]

(* InstallLogging: the fan-out, at TRACE, over a tee of the buffer and a     *)
(* stderr handler at WARN.  A second call finds ks.logs set and returns.     *)
Install ==
  /\ logMu = Nobody /\ ~installed
  /\ installed' = TRUE
  /\ UNCHANGED <<logMu, hubMu, fanout, boot, config, lpc, lvl, cpc, cfg, drained, hist>>

-----------------------------------------------------------------------------
(* Handling a record, under hub.mu. *)

(* BufferHandler.Handle: a ring that drops its oldest record, and ignores    *)
(* everything once drained.                                                  *)
Capture(n) ==
  /\ IF bufClosed THEN UNCHANGED <<buffer, evicted>>
     ELSE IF Len(buffer) >= BufferCap
     THEN buffer' = Append(Tail(buffer), n) /\ evicted' = evicted \union {Head(buffer)}
     ELSE buffer' = Append(buffer, n) /\ UNCHANGED evicted
  /\ UNCHANGED bufClosed

(* Mutant of WriteTee: only what the buffer still has room for is echoed. *)
WriteTeeRoom(n, v) ==
  /\ Capture(n)
  /\ stderr' = IF v >= Warn /\ evicted' = evicted THEN Append(stderr, n) ELSE stderr
  /\ UNCHANGED sinks

(* The bootstrap tee: the buffer takes everything, stderr from WARN up. *)
WriteTee(n, v) ==
  /\ Capture(n)
  /\ stderr' = IF v >= Warn THEN Append(stderr, n) ELSE stderr
  /\ UNCHANGED sinks

(* A sink of ConfigureLogging: a closed file takes nothing and says nothing. *)
WriteSink(k, n) ==
  /\ sinks' = IF sinks[k].open
              THEN [sinks EXCEPT ![k].lines = Append(@, [n |-> n, tagged |-> TRUE])]
              ELSE sinks
  /\ stderr' = IF sinks[k].stderr THEN Append(stderr, n) ELSE stderr
  /\ UNCHANGED boot

(* FanoutHandler.Handle: the record reaches the base if it is at or above    *)
(* the level by now; baseView puts the service attribute on it.              *)
Deliver(v) ==
  LET n == Len(log) + 1 IN
  /\ log' = Append(log, [level |-> v, passed |-> v >= level, base |-> base])
  /\ IF v < level THEN UNCHANGED <<sinks, stderr, boot>>
     ELSE IF base = 0 THEN WriteTee(n, v)
     ELSE WriteSink(base, n)
  /\ UNCHANGED flushMin

(* A goroutine logs: Enabled looks at the level first, without a lock. *)
Log(l, v) ==
  /\ installed /\ lpc[l] = "idle" /\ v >= level
  /\ lpc' = [lpc EXCEPT ![l] = "handle"]
  /\ lvl' = [lvl EXCEPT ![l] = v]
  /\ UNCHANGED <<installed, logMu, hubMu, fanout, boot, config, cpc, cfg, drained, hist>>

Handle(l) ==
  /\ lpc[l] = "handle" /\ hubMu = Nobody /\ Len(log) < MaxRecords
  /\ Deliver(lvl[l])
  /\ lpc' = [lpc EXCEPT ![l] = "idle"]
  /\ lvl' = [lvl EXCEPT ![l] = Warn]
  /\ UNCHANGED <<installed, logMu, hubMu, level, base, config, cpc, cfg, drained>>

-----------------------------------------------------------------------------
(* ConfigureLogging, all of it under logMu. *)

(* Mutant of Configure: it does not wait for a call in progress. *)
ConfigureUnlocked(c, s) ==
  /\ cpc[c] = "idle" /\ installed /\ ~(applied /\ key = s)
  /\ Len(sinks) < MaxSinks
  /\ logMu' = c
  /\ cfg' = [cfg EXCEPT ![c] = s]
  /\ Goto(c, "open")
  /\ UNCHANGED <<installed, hubMu, fanout, boot, config, lpc, lvl, drained, hist>>

(* A call that has something to do: logging is installed, and the settings   *)
(* are not the ones in effect.                                               *)
Configure(c, s) ==
  /\ cpc[c] = "idle" /\ logMu = Nobody /\ installed /\ ~(applied /\ key = s)
  /\ Len(sinks) < MaxSinks
  /\ logMu' = c
  /\ cfg' = [cfg EXCEPT ![c] = s]
  /\ Goto(c, "open")
  /\ UNCHANGED <<installed, hubMu, fanout, boot, config, lpc, lvl, drained, hist>>

NewSink(c, onStderr) ==
  sinks' = Append(sinks, [cfg |-> cfg[c], stderr |-> onStderr, open |-> TRUE, lines |-> <<>>])

(* BaseHandler(cfg). *)
OpenSink(c) ==
  /\ cpc[c] = "open"
  /\ NewSink(c, cfg[c] \in ToStderr)
  /\ Goto(c, "swap")
  /\ UNCHANGED <<installed, logMu, hubMu, level, base, boot, config, lpc, lvl, cfg, drained, hist>>

(* The file or the syslog cannot be opened; stderr always can. *)
OpenFails(c) ==
  /\ cpc[c] = "open" /\ cfg[c] \notin ToStderr
  /\ Goto(c, "warn")
  /\ UNCHANGED <<installed, logMu, hubMu, fanout, boot, config, lpc, lvl, cfg, drained, hist>>

(* Mutant of WarnFallback: the warning is given once hub.mu is held. *)
WarnFallbackLocked(c) ==
  /\ cpc[c] = "warn"
  /\ \/ hubMu = Nobody /\ hubMu' = c /\ UNCHANGED <<log, sinks, stderr, boot, flushMin, cpc>>
     \/ hubMu = Nobody /\ hubMu' = c /\ Deliver(Warn) /\ Goto(c, "swap")
  /\ UNCHANGED <<installed, logMu, level, base, config, lpc, lvl, cfg, drained>>

(* The warning goes to the present base, through the fan-out. *)
WarnFallback(c) ==
  /\ cpc[c] = "warn" /\ hubMu = Nobody
  /\ IF Warn >= level THEN Deliver(Warn) ELSE UNCHANGED <<sinks, boot, hist>>
  /\ Goto(c, "fallback")
  /\ UNCHANGED <<installed, logMu, hubMu, level, base, config, lpc, lvl, cfg, drained>>

OpenFallback(c) ==
  /\ cpc[c] = "fallback"
  /\ NewSink(c, TRUE)
  /\ Goto(c, "swap")
  /\ UNCHANGED <<installed, logMu, hubMu, level, base, boot, config, lpc, lvl, cfg, drained, hist>>

(* SetBase, on every call but the first. *)
SwapBase(c) ==
  /\ cpc[c] = "swap" /\ applied /\ hubMu = Nobody
  /\ base' = Newest
  /\ Goto(c, "level")
  /\ UNCHANGED <<installed, logMu, hubMu, level, sinks, boot, config, lpc, lvl, cfg, drained, hist>>

(* Mutant of DrainBuffer: the buffer is drained before hub.mu is taken. *)
DrainBufferUnlocked(c) ==
  /\ cpc[c] = "swap" /\ ~applied /\ hubMu = Nobody
  /\ drained' = buffer
  /\ buffer' = <<>> /\ bufClosed' = TRUE
  /\ Goto(c, "replay")
  /\ UNCHANGED <<installed, logMu, hubMu, fanout, evicted, config, lpc, lvl, cfg, hist>>

(* SetBaseFlushing, on the first call: under hub.mu the buffer is drained ... *)
DrainBuffer(c) ==
  /\ cpc[c] = "swap" /\ ~applied /\ hubMu = Nobody
  /\ hubMu' = c
  /\ drained' = buffer
  /\ buffer' = <<>> /\ bufClosed' = TRUE
  /\ Goto(c, "replay")
  /\ UNCHANGED <<installed, logMu, fanout, evicted, config, lpc, lvl, cfg, hist>>

(* Mutant of Replay: the swap comes first, and hub.mu is released with it. *)
ReplayAfterSwap(c) ==
  /\ cpc[c] = "replay"
  /\ IF base # Newest
     THEN base' = Newest /\ hubMu' = Nobody /\ UNCHANGED <<sinks, flushMin, drained, cpc>>
     ELSE /\ sinks' = [sinks EXCEPT ![Newest].lines =
                         @ \o [i \in 1 .. Len(drained) |-> [n |-> drained[i], tagged |-> FALSE]]]
          /\ flushMin' = LevelOf[cfg[c]]
          /\ drained' = <<>>
          /\ Goto(c, "install")
          /\ UNCHANGED <<base, hubMu>>
  /\ UNCHANGED <<installed, logMu, level, boot, config, lpc, lvl, cfg, log, stderr>>

(* Those of the records q that are at or above level v, in their order. *)
Passing(q, v) ==
  LET upTo[i \in 0 .. Len(q)] ==
        IF i = 0 THEN <<>>
        ELSE IF log[q[i]].level >= v THEN Append(upTo[i - 1], q[i]) ELSE upTo[i - 1]
  IN  upTo[Len(q)]

(* ... its records at or above the level are written to the new base, as     *)
(* they were captured: the buffer's WithAttrs keeps no attribute ...         *)
Replay(c) ==
  /\ cpc[c] = "replay"
  /\ LET through == Passing(drained, LevelOf[cfg[c]])
     IN  /\ sinks' = [sinks EXCEPT ![Newest].lines =
                        @ \o [i \in 1 .. Len(through) |-> [n |-> through[i], tagged |-> FALSE]]]
         /\ stderr' = IF sinks[Newest].stderr THEN stderr \o through ELSE stderr
  /\ flushMin' = LevelOf[cfg[c]]
  /\ drained' = <<>>
  /\ Goto(c, "install")
  /\ UNCHANGED <<installed, logMu, hubMu, level, base, boot, config, lpc, lvl, cfg, log>>

(* ... and the base is swapped. *)
InstallBase(c) ==
  /\ cpc[c] = "install"
  /\ base' = Newest
  /\ hubMu' = Nobody
  /\ Goto(c, "level")
  /\ UNCHANGED <<installed, logMu, level, sinks, boot, config, lpc, lvl, cfg, drained, hist>>

(* SetLevel, after the swap. *)
ApplyLevel(c) ==
  /\ cpc[c] = "level"
  /\ level' = LevelOf[cfg[c]]
  /\ Goto(c, "close")
  /\ UNCHANGED <<installed, logMu, hubMu, base, sinks, boot, config, lpc, lvl, cfg, drained, hist>>

(* Mutant of CloseOld: what is closed is the closer just stored. *)
CloseOldAfterStore(c) ==
  /\ cpc[c] = "close"
  /\ sinks' = [sinks EXCEPT ![Newest].open = FALSE]
  /\ closer' = Newest
  /\ applied' = TRUE
  /\ key' = cfg[c]
  /\ cfg' = [cfg EXCEPT ![c] = Nobody]
  /\ logMu' = Nobody
  /\ Goto(c, "idle")
  /\ UNCHANGED <<installed, hubMu, level, base, boot, lpc, lvl, drained, hist>>

(* The sink that was replaced is closed, and the call is recorded as done.   *)
(* The key is that of the settings asked for, also when stderr stands in.    *)
CloseOld(c) ==
  /\ cpc[c] = "close"
  /\ sinks' = IF closer = 0 THEN sinks
              ELSE [sinks EXCEPT ![closer].open = sinks[closer].stderr]
  /\ closer' = Newest
  /\ applied' = TRUE
  /\ key' = cfg[c]
  /\ cfg' = [cfg EXCEPT ![c] = Nobody]
  /\ logMu' = Nobody
  /\ Goto(c, "idle")
  /\ UNCHANGED <<installed, hubMu, level, base, boot, lpc, lvl, drained, hist>>

-----------------------------------------------------------------------------

ConfigStep(c) ==
  \/ OpenSink(c) \/ OpenFails(c) \/ WarnFallback(c) \/ OpenFallback(c)
  \/ SwapBase(c)
  \/ DrainBuffer(c) \/ Replay(c) \/ InstallBase(c)
  \/ ApplyLevel(c) \/ CloseOld(c)

Next ==
  \/ Install
  \/ \E l \in Loggers : Handle(l) \/ \E v \in Levels : Log(l, v)
  \/ \E c \in Callers : ConfigStep(c) \/ \E s \in Settings : Configure(c, s)

Spec == Init /\ [][Next]_vars

(* A call in progress runs on; hub.mu, which it waits for, is held briefly.  *)
FairSpec == Spec /\ \A c \in Callers : WF_vars(ConfigStep(c))

-----------------------------------------------------------------------------
(* Properties. *)

TypeOK ==
  /\ installed \in BOOLEAN /\ applied \in BOOLEAN /\ bufClosed \in BOOLEAN
  /\ logMu   \in Callers \union {Nobody}
  /\ hubMu   \in Callers \union {Nobody}
  /\ level   \in Levels
  /\ sinks   \in Seq(Sink) /\ Len(sinks) <= MaxSinks
  /\ base    \in 0 .. Newest
  /\ closer  \in 0 .. Newest
  /\ buffer  \in Seq(Number) /\ Len(buffer) <= BufferCap
  /\ evicted \subseteq Number
  /\ key     \in Settings \union {Nobody}
  /\ lpc     \in [Loggers -> LoggerPC]
  /\ lvl     \in [Loggers -> Levels]
  /\ cpc     \in [Callers -> CallerPC]
  /\ cfg     \in [Callers -> Settings \union {Nobody}]
  /\ drained \in Seq(Number)
  /\ log     \in Seq([level : Levels, passed : BOOLEAN, base : 0 .. MaxSinks])
  /\ stderr  \in Seq(Number)
  /\ flushMin \in Levels \union {0}

Elements(q) == {q[i] : i \in DOMAIN q}

(* Where a record that passed the level can be: waiting in the bootstrap     *)
(* buffer or in the flush, on a sink, pushed out of the full buffer, or left *)
(* out by the flush because it is below the first configured level.          *)
Accounted ==
  Elements(buffer) \union Elements(drained) \union evicted
    \union (UNION {Numbers(sinks[k].lines) : k \in DOMAIN sinks})
    \union {n \in DOMAIN log : log[n].base = 0 /\ log[n].level < flushMin}

(* "No record is lost" (logtee.go:84) by the first ConfigureLogging or by a  *)
(* later one: no goroutine writes to the bootstrap buffer after it was       *)
(* drained, or to a sink after it was closed.                                *)
NothingLost == \A n \in DOMAIN log : log[n].passed => n \in Accounted

(* "Urgent startup problems are visible immediately" (logging.go:36): a       *)
(* record at WARN or above is on stderr or in a sink as soon as it is        *)
(* handled, also while it waits for the flush, and when the buffer or the    *)
(* level of the first configuration leaves it out of the flush.              *)
UrgentVisible ==
  \A n \in DOMAIN log :
    log[n].passed /\ log[n].level >= Warn =>
      n \in Elements(stderr) \union UNION {Numbers(sinks[k].lines) : k \in DOMAIN sinks}

(* "... duplicated, or ordered before the replayed ones": through all the    *)
(* sinks, one after the other, the records come in the order handled, once.  *)
LinesInOrder ==
  \A j, k \in DOMAIN sinks :
    \A a \in DOMAIN sinks[j].lines, b \in DOMAIN sinks[k].lines :
      j < k \/ (j = k /\ a < b) => sinks[j].lines[a].n < sinks[k].lines[b].n

(* Between calls of ConfigureLogging no file or syslog connection is left    *)
(* open but the base's, and the base's is open.                              *)
OnlyBaseOpen ==
  logMu = Nobody =>
    \A k \in DOMAIN sinks : sinks[k].open = (k = base) \/ (sinks[k].stderr /\ sinks[k].open)

(* Between calls what is in effect is one configuration: the base, the level *)
(* and the key of change detection belong to the same call, whatever         *)
(* goroutines race to reconfigure, and what the next call will close is it.  *)
OneConfiguration ==
  logMu = Nobody /\ applied =>
    sinks[base].cfg = key /\ level = LevelOf[key] /\ closer = base

(* ConfigureLogging returns: it logs its own warning, through the fan-out it *)
(* reconfigures, while it holds logMu.                                       *)
ConfigureReturns == \A c \in Callers : cpc[c] # "idle" ~> cpc[c] = "idle"

(* "Every line is tagged with the service name" (logging.go:37). *)
EveryLineTagged ==
  \A k \in DOMAIN sinks : \A i \in DOMAIN sinks[k].lines : sinks[k].lines[i].tagged

=============================================================================
