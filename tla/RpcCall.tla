------------------------------ MODULE RpcCall -------------------------------
(* The life of an RPC inside a kettlingar server (service.go): the handler   *)
(* net/http starts for each request, the method it calls by reflection and,  *)
(* for a generator, the goroutine that feeds the handler's select loop over  *)
(* an unbuffered channel, while the client may disconnect at any time.       *)
(* Payloads are abstracted to the number of the item in its stream.          *)
EXTENDS Naturals, FiniteSets, Sequences

CONSTANTS
  Calls,        \* requests the server receives, each served by its own handler
  Methods,      \* registered methods
  Generators,   \* those that take a channel: their reply is a stream
  Renderers,    \* those whose value implements DataRenderer
  Public,       \* those reachable without the secret
  WithArgs,     \* those that take an argument structure
  OwnCodes,     \* statuses a method may put into ri.HttpCode itself
  MaxItems      \* bound: items a generator offers in one call

ASSUME MethodKinds ==
  /\ Generators \subseteq Methods
  /\ Renderers  \subseteq Methods
  /\ Public     \subseteq Methods
  /\ WithArgs   \subseteq Methods

(* What net/http takes for a final status. *)
ASSUME OwnCodesFinal == OwnCodes \subseteq 200 .. 999

ASSUME MaxItemsNat == MaxItems \in Nat

ASSUME FiniteCalls == IsFiniteSet(Calls)

VARIABLES
  alive,        \* the server process is running
  pc,           \* where the handler of a call is
  rq,           \* the request: method, whether it is authed, what it accepts
  conn,         \* the client is still connected
  code,         \* ri.HttpCode
  own,          \* history: the statuses the method has put there
  panicking,    \* a panic is unwinding the handler
  wire,         \* status line committed by the ResponseWriter, 0 before that
  body,         \* what was written: item numbers, 0 for a status text
  gpc,          \* where the generator's goroutine is
  offered,      \* items the generator has offered so far (sends it started)
  taken,        \* the item the handler received last
  label,        \* what the call is counted under, <<>> before that
  counts,       \* rpc_calls_total{method, status}
  samples       \* rpc_calls_time_us{method, status}: samples in the histogram

http    == <<pc, code, panicking, wire, body>>
stream  == <<gpc, offered, taken>>
metrics == <<label, counts, samples>>
vars    == <<alive, pc, rq, conn, code, panicking, wire, body, own,
             gpc, offered, taken, label, counts, samples>>

Statuses == {200, 204, 400, 404, 500} \union OwnCodes
Labels   == Methods \X Statuses
Request  == [method : Methods, authed : BOOLEAN, encoded : BOOLEAN]
NoRequest == [method |-> "none", authed |-> FALSE, encoded |-> FALSE]

HandlerPC == {"idle", "reading", "call", "calling", "select", "item", "refuse",
              "deferred", "fail", "count", "sample", "return", "done"}
GenPC     == {"none", "running", "sending", "unwinding", "closed"}

Method(r)    == rq[r].method
IsGen(r)     == Method(r) \in Generators
IsRender(r)  == Method(r) \in Renderers
StatusText   == 0

-----------------------------------------------------------------------------

Init ==
  /\ alive     = TRUE
  /\ pc        = [r \in Calls |-> "idle"]
  /\ rq        = [r \in Calls |-> NoRequest]
  /\ conn      = [r \in Calls |-> TRUE]
  /\ code      = [r \in Calls |-> 0]
  /\ panicking = [r \in Calls |-> FALSE]
  /\ own       = [r \in Calls |-> {}]
  /\ wire      = [r \in Calls |-> 0]
  /\ body      = [r \in Calls |-> <<>>]
  /\ gpc       = [r \in Calls |-> "none"]
  /\ offered   = [r \in Calls |-> 0]
  /\ taken     = [r \in Calls |-> 0]
  /\ label     = [r \in Calls |-> <<>>]
  /\ counts    = [l \in Labels |-> 0]
  /\ samples   = [l \in Labels |-> 0]

Goto(r, l) == pc' = [pc EXCEPT ![r] = l]

(* net/http fixes the status line at the first WriteHeader, Write or Flush;  *)
(* later ones are ignored.                                                   *)
Commit(r, s) == wire' = [wire EXCEPT ![r] = IF @ = 0 THEN s ELSE @]

(* http.Error(w, text, s): commits s if nothing is committed yet, and writes *)
(* the text in any case.                                                     *)
HttpError(r, s) ==
  /\ Commit(r, s)
  /\ body' = [body EXCEPT ![r] = Append(@, StatusText)]

(* `ri.HttpCode = s; http.Error(ri.Writer, text, ri.HttpCode)`: the code is   *)
(* read again for the answer, and a generator may have set another meanwhile.*)
SetCodeTo(r, s, then) == code' = [code EXCEPT ![r] = s] /\ Goto(r, then)

Tell(r) ==
  /\ alive /\ pc[r] \in {"refuse", "fail"}
  /\ HttpError(r, code[r])
  /\ Goto(r, IF pc[r] = "refuse" THEN "deferred" ELSE "count")
  /\ UNCHANGED <<alive, rq, conn, code, panicking, own, stream, metrics>>

(* The request's context: net/http cancels it when the client goes away and  *)
(* when the handler has returned.                                            *)
CtxDone(r) == ~conn[r] \/ pc[r] = "done"

-----------------------------------------------------------------------------
(* The mux handler and the common part of handleRPC. *)

(* A request arrives: it names a method, carries the secret or not, and its  *)
(* Accept header selects an encoding (JSON, msgpack, SSE) or a rendering.    *)
(* A private method without the secret is a 404 that handleRPC never sees.   *)
Receive(r, m, authed, encoded) ==
  /\ alive /\ pc[r] = "idle"
  /\ rq' = [rq EXCEPT ![r] = [method |-> m, authed |-> authed, encoded |-> encoded]]
  /\ IF m \notin Public /\ ~authed
     THEN HttpError(r, 404) /\ Goto(r, "done")
     ELSE Goto(r, IF m \in WithArgs THEN "reading" ELSE "call") /\ UNCHANGED <<wire, body>>
  /\ UNCHANGED <<alive, conn, code, panicking, own, stream, metrics>>

(* The body is read and decoded.  An empty one, and one whose reading fails  *)
(* because the client went away, leave the argument at its zero value.       *)
ReadBody(r) ==
  /\ alive /\ pc[r] = "reading"
  /\ Goto(r, "call")
  /\ UNCHANGED <<alive, rq, conn, code, panicking, wire, body, own, stream, metrics>>

(* The body was read whole and does not decode into the argument. *)
RefuseBody(r) ==
  /\ alive /\ pc[r] = "reading"
  /\ SetCodeTo(r, 400, "refuse")
  /\ UNCHANGED <<alive, rq, conn, panicking, wire, body, own, stream, metrics>>

-----------------------------------------------------------------------------
(* handleFunction. *)

CallFunction(r) ==
  /\ alive /\ pc[r] = "call" /\ ~IsGen(r)
  /\ Goto(r, "calling")
  /\ UNCHANGED <<alive, rq, conn, code, panicking, wire, body, own, stream, metrics>>

(* The method, or rendering or encoding what it returned, panics.  The       *)
(* msgpack encoder writes straight to the client: it may have begun.         *)
FunctionPanics(r, begun) ==
  /\ alive /\ pc[r] = "calling"
  /\ begun => rq[r].encoded
  /\ IF begun THEN Commit(r, 200) ELSE UNCHANGED wire
  /\ panicking' = [panicking EXCEPT ![r] = TRUE]
  /\ Goto(r, "deferred")
  /\ UNCHANGED <<alive, rq, conn, code, body, own, stream, metrics>>

(* The method has its RequestInfo, and may set HttpCode while it runs. *)
SetCode(r, s) ==
  /\ alive
  /\ pc[r] = "calling" \/ gpc[r] = "running"
  /\ code' = [code EXCEPT ![r] = s]
  /\ own'  = [own EXCEPT ![r] = @ \union {s}]
  /\ UNCHANGED <<alive, pc, rq, conn, panicking, wire, body, stream, metrics>>

(* The value is encoded, or rendered to some data.  (An encoder that fails   *)
(* before its first byte writes nothing, and the status is still 200.)       *)
FunctionReplies(r) ==
  /\ alive /\ pc[r] = "calling"
  /\ rq[r].encoded \/ IsRender(r)
  /\ \/ /\ Commit(r, 200)
        /\ body' = [body EXCEPT ![r] = Append(@, 1)]
     \/ rq[r].encoded /\ UNCHANGED <<wire, body>>
  /\ code' = [code EXCEPT ![r] = IF @ = 0 THEN 200 ELSE @]
  /\ Goto(r, "deferred")
  /\ UNCHANGED <<alive, rq, conn, panicking, own, stream, metrics>>

(* No encoding was asked for, and the value has no rendering: none at all,   *)
(* or none of the type asked for.                                            *)
FunctionRefuses(r) ==
  /\ alive /\ pc[r] = "calling" /\ ~rq[r].encoded
  /\ SetCodeTo(r, 400, "refuse")
  /\ UNCHANGED <<alive, rq, conn, panicking, wire, body, own, stream, metrics>>

-----------------------------------------------------------------------------
(* handleGenerator: the handler's side. *)

StartGenerator(r) ==
  /\ alive /\ pc[r] = "call" /\ IsGen(r)
  /\ gpc' = [gpc EXCEPT ![r] = "running"]
  /\ Goto(r, "select")
  /\ UNCHANGED <<alive, rq, conn, code, panicking, wire, body, own, offered, taken, metrics>>

(* `first`: nothing was flushed yet. *)
First(r) == wire[r] = 0

(* The select receives an item: the blocked send of the generator completes. *)
SelectItem(r) ==
  /\ alive /\ pc[r] = "select" /\ gpc[r] = "sending"
  /\ taken' = [taken EXCEPT ![r] = offered[r]]
  /\ gpc' = [gpc EXCEPT ![r] = "running"]
  /\ Goto(r, "item")
  /\ UNCHANGED <<alive, rq, conn, code, panicking, wire, body, own, offered, metrics>>

(* `if chosen == 1 || !ok`: leave the loop, with 204 only when the receive   *)
(* that ended it was from an open channel.                                   *)
LeaveLoop(r, ok) ==
  /\ IF First(r) /\ ok THEN SetCodeTo(r, 204, "refuse") ELSE Goto(r, "deferred") /\ UNCHANGED code
  /\ UNCHANGED <<wire, body>>

(* The generator's channel is closed and drained: ok is false. *)
SelectClosed(r) ==
  /\ alive /\ pc[r] = "select" /\ gpc[r] \in {"unwinding", "closed"}
  /\ LeaveLoop(r, FALSE)
  /\ UNCHANGED <<alive, rq, conn, panicking, own, stream, metrics>>

(* Mutant of SelectDone: the loop looks at the context before the first item *)
(* only.                                                                     *)
SelectDoneFirst(r) ==
  /\ alive /\ pc[r] = "select" /\ CtxDone(r) /\ First(r)
  /\ LeaveLoop(r, FALSE)
  /\ UNCHANGED <<alive, rq, conn, panicking, own, stream, metrics>>

(* The context is cancelled: ctx.Done() is a closed channel, ok is false. *)
SelectDone(r) ==
  /\ alive /\ pc[r] = "select" /\ CtxDone(r)
  /\ LeaveLoop(r, FALSE)
  /\ UNCHANGED <<alive, rq, conn, panicking, own, stream, metrics>>

(* Mutant of WriteItem: a blank item ends the loop. *)
WriteItemBlankEnds(r, blank) ==
  /\ alive /\ pc[r] = "item"
  /\ body' = [body EXCEPT ![r] = IF blank THEN @ ELSE Append(@, taken[r])]
  /\ Commit(r, 200)
  /\ code' = [code EXCEPT ![r] = IF @ = 0 THEN 200 ELSE @]
  /\ Goto(r, IF blank THEN "deferred" ELSE "select")
  /\ UNCHANGED <<alive, rq, conn, panicking, own, stream, metrics>>

(* The item is written, or yields no bytes (a failed encoding, a later item  *)
(* without a rendering, a value that is no DataRenderer), and is flushed.    *)
WriteItem(r, blank) ==
  /\ alive /\ pc[r] = "item"
  /\ rq[r].encoded \/ IsRender(r) \/ blank
  /\ blank /\ ~rq[r].encoded /\ IsRender(r) => ~First(r)
  /\ body' = [body EXCEPT ![r] = IF blank THEN @ ELSE Append(@, taken[r])]
  /\ Commit(r, 200)
  /\ code' = [code EXCEPT ![r] = IF @ = 0 THEN 200 ELSE @]
  /\ Goto(r, "select")
  /\ UNCHANGED <<alive, rq, conn, panicking, own, stream, metrics>>

(* Mutant of RefuseItem: the refusal is never told to the client. *)
RefuseItemSilent(r) ==
  /\ alive /\ pc[r] = "item" /\ ~rq[r].encoded /\ IsRender(r) /\ First(r)
  /\ SetCodeTo(r, 400, "deferred")
  /\ UNCHANGED <<alive, rq, conn, panicking, wire, body, own, stream, metrics>>

(* The first item cannot be rendered as the client asked. *)
RefuseItem(r) ==
  /\ alive /\ pc[r] = "item" /\ ~rq[r].encoded /\ IsRender(r) /\ First(r)
  /\ SetCodeTo(r, 400, "refuse")
  /\ UNCHANGED <<alive, rq, conn, panicking, wire, body, own, stream, metrics>>

(* GetProgress, Render or an encoder panics on the item; as for a function,  *)
(* the encoder may have begun.                                               *)
ItemPanics(r, begun) ==
  /\ alive /\ pc[r] = "item"
  /\ begun => rq[r].encoded
  /\ IF begun THEN Commit(r, 200) ELSE UNCHANGED wire
  /\ panicking' = [panicking EXCEPT ![r] = TRUE]
  /\ Goto(r, "deferred")
  /\ UNCHANGED <<alive, rq, conn, code, body, own, stream, metrics>>

-----------------------------------------------------------------------------
(* handleGenerator: the goroutine that runs the method. *)

(* The method sends its next item and blocks until it is received. *)
Offer(r) ==
  /\ alive /\ gpc[r] = "running" /\ offered[r] < MaxItems
  /\ offered' = [offered EXCEPT ![r] = @ + 1]
  /\ gpc' = [gpc EXCEPT ![r] = "sending"]
  /\ UNCHANGED <<alive, rq, conn, http, own, taken, metrics>>

(* A method that selects on its request's context gives up the send. *)
GiveUp(r) ==
  /\ alive /\ gpc[r] = "sending" /\ CtxDone(r)
  /\ gpc' = [gpc EXCEPT ![r] = "running"]
  /\ UNCHANGED <<alive, rq, conn, http, own, offered, taken, metrics>>

(* Mutant of GeneratorReturns: the channel has room for one item. *)
GeneratorReturnsBuffered(r) ==
  /\ alive /\ gpc[r] \in {"running", "sending"}
  /\ gpc' = [gpc EXCEPT ![r] = "closed"]
  /\ UNCHANGED <<alive, rq, conn, http, own, offered, taken, metrics>>

(* The method returns and the deferred ch.Close() runs. *)
GeneratorReturns(r) ==
  /\ alive /\ gpc[r] = "running"
  /\ gpc' = [gpc EXCEPT ![r] = "closed"]
  /\ UNCHANGED <<alive, rq, conn, http, own, offered, taken, metrics>>

(* The method panics.  The goroutine has no recover: the deferred close runs *)
(* and then the Go runtime ends the process.                                 *)
GeneratorPanics(r) ==
  /\ alive /\ gpc[r] = "running"
  /\ gpc' = [gpc EXCEPT ![r] = "unwinding"]
  /\ UNCHANGED <<alive, rq, conn, http, own, offered, taken, metrics>>

ProcessDies(r) ==
  /\ alive /\ gpc[r] = "unwinding"
  /\ alive' = FALSE
  /\ UNCHANGED <<rq, conn, http, own, stream, metrics>>

-----------------------------------------------------------------------------
(* The deferred function of handleRPC, and the return of the handler. *)

(* Mutant of Recover: ri.HttpCode takes the number of the text sent. *)
Recover503(r) ==
  /\ alive /\ pc[r] = "deferred"
  /\ IF panicking[r] \/ code[r] = 0
     THEN SetCodeTo(r, 503, "fail")
     ELSE Goto(r, "count") /\ UNCHANGED code
  /\ panicking' = [panicking EXCEPT ![r] = FALSE]
  /\ UNCHANGED <<alive, rq, conn, wire, body, own, stream, metrics>>

(* Mutant of Recover: only a panic becomes a 500. *)
RecoverPanicOnly(r) ==
  /\ alive /\ pc[r] = "deferred"
  /\ IF panicking[r]
     THEN SetCodeTo(r, 500, "fail")
     ELSE Goto(r, "count") /\ UNCHANGED code
  /\ panicking' = [panicking EXCEPT ![r] = FALSE]
  /\ UNCHANGED <<alive, rq, conn, wire, body, own, stream, metrics>>

(* recover(): a panic, and a call nobody gave a status, become a 500. *)
Recover(r) ==
  /\ alive /\ pc[r] = "deferred"
  /\ IF panicking[r] \/ code[r] = 0
     THEN SetCodeTo(r, 500, "fail")
     ELSE Goto(r, "count") /\ UNCHANGED code
  /\ panicking' = [panicking EXCEPT ![r] = FALSE]
  /\ UNCHANGED <<alive, rq, conn, wire, body, own, stream, metrics>>

(* Mutant of CountCall: the read of the counter and its update are not one   *)
(* critical section, and an update made by another handler is overwritten.   *)
CountCallUnlocked(r) ==
  /\ alive /\ pc[r] = "count"
  /\ label' = [label EXCEPT ![r] = <<Method(r), code[r]>>]
  /\ \E seen \in 0 .. counts[label'[r]] : counts' = [counts EXCEPT ![label'[r]] = seen + 1]
  /\ Goto(r, IF IsGen(r) THEN "return" ELSE "sample")
  /\ UNCHANGED <<alive, rq, conn, code, panicking, wire, body, own, stream, samples>>

(* `labels`, and MetricsCount("rpc_calls_total"), one critical section of    *)
(* the store.                                                                *)
CountCall(r) ==
  /\ alive /\ pc[r] = "count"
  /\ label' = [label EXCEPT ![r] = <<Method(r), code[r]>>]
  /\ counts' = [counts EXCEPT ![<<Method(r), code[r]>>] = @ + 1]
  /\ Goto(r, IF IsGen(r) THEN "return" ELSE "sample")
  /\ UNCHANGED <<alive, rq, conn, code, panicking, wire, body, own, stream, samples>>

(* MetricsSample("rpc_calls_time_us"), a second one, for functions only. *)
SampleCall(r) ==
  /\ alive /\ pc[r] = "sample"
  /\ samples' = [samples EXCEPT ![label[r]] = @ + 1]
  /\ Goto(r, "return")
  /\ UNCHANGED <<alive, rq, conn, code, panicking, wire, body, own, stream, label, counts>>

(* The handler has returned: net/http sends 200 if nothing was committed and *)
(* cancels the request's context.                                            *)
Return(r) ==
  /\ alive /\ pc[r] = "return"
  /\ Commit(r, 200)
  /\ Goto(r, "done")
  /\ UNCHANGED <<alive, rq, conn, code, panicking, body, own, stream, metrics>>

(* The client closes its connection, or it is lost. *)
Disconnect(r) ==
  /\ alive /\ conn[r] /\ pc[r] \notin {"idle", "done"}
  /\ conn' = [conn EXCEPT ![r] = FALSE]
  /\ UNCHANGED <<alive, rq, http, own, stream, metrics>>

-----------------------------------------------------------------------------

(* The end of the upload, which only the client can bring about. *)
UploadStep(r) == ReadBody(r) \/ RefuseBody(r)

(* Steps of the handler once it has the body. *)
HandlerStep(r) ==
  \/ CallFunction(r) \/ StartGenerator(r) \/ Tell(r)
  \/ SelectItem(r) \/ SelectClosed(r) \/ SelectDone(r)
  \/ \E blank \in BOOLEAN : WriteItem(r, blank)
  \/ RefuseItem(r)
  \/ \E begun \in BOOLEAN : ItemPanics(r, begun)
  \/ Recover(r) \/ CountCall(r) \/ SampleCall(r) \/ Return(r)

(* Steps the application's method decides on. *)
FunctionStep(r)  ==
  \/ FunctionReplies(r) \/ FunctionRefuses(r)
  \/ \E begun \in BOOLEAN : FunctionPanics(r, begun)
GeneratorStep(r) == Offer(r) \/ GiveUp(r) \/ GeneratorReturns(r) \/ GeneratorPanics(r)

Arrive(r) ==
  \E m \in Methods, authed, encoded \in BOOLEAN : Receive(r, m, authed, encoded)

Next ==
  \E r \in Calls :
    \/ Arrive(r) \/ Disconnect(r)
    \/ UploadStep(r) \/ HandlerStep(r) \/ FunctionStep(r) \/ GeneratorStep(r)
    \/ ProcessDies(r) \/ \E s \in OwnCodes : SetCode(r, s)

Spec == Init /\ [][Next]_vars

(* Go schedules a runnable handler, and a method that is a function returns. *)
(* A select with two ready cases picks one at random, so a cancelled context *)
(* is not passed over for ever.  Nothing is assumed of a generator, which    *)
(* may hang, nor of a client, which may stall its upload: the server sets no *)
(* timeout.  A read from a closed connection does return.                    *)
Fairness ==
  \A r \in Calls :
    /\ WF_vars(HandlerStep(r))
    /\ SF_vars(SelectDone(r))
    /\ WF_vars(FunctionStep(r))
    /\ WF_vars(~conn[r] /\ UploadStep(r))

FairSpec == Spec /\ Fairness

-----------------------------------------------------------------------------
(* Properties. *)

TypeOK ==
  /\ alive     \in BOOLEAN
  /\ pc        \in [Calls -> HandlerPC]
  /\ rq        \in [Calls -> Request \union {NoRequest}]
  /\ conn      \in [Calls -> BOOLEAN]
  /\ code      \in [Calls -> {0} \union Statuses]
  /\ own       \in [Calls -> SUBSET OwnCodes]
  /\ panicking \in [Calls -> BOOLEAN]
  /\ wire      \in [Calls -> {0} \union Statuses]
  /\ body      \in [Calls -> Seq(Nat)]
  /\ gpc       \in [Calls -> GenPC]
  /\ offered   \in [Calls -> 0 .. MaxItems]
  /\ taken     \in [Calls -> 0 .. MaxItems]
  /\ label     \in [Calls -> {<<>>} \union Labels]
  /\ counts    \in [Labels -> Nat]
  /\ samples   \in [Labels -> Nat]

(* What the status of a call that has been through recover() may be: that of *)
(* its answer (200 if nothing else is written), a failure, or the method's.  *)
Agrees(r, s) ==
  \/ s \in own[r]
  \/ wire[r] = 0 /\ s = 200
  \/ wire[r] # 0 /\ s \in {wire[r], 500}

(* What links ri.HttpCode to the status line at every point of the handler:  *)
(* unless the method has set a code of its own they agree while a stream     *)
(* runs; a call is deferred with an answer or with none; after recover() it  *)
(* has a code, and the two differ only for a failure that came too late to   *)
(* be told to the client.  A method that sets a code is answered 200 all the *)
(* same, and counted under its own.                                          *)
Settled(r) ==
  /\ pc[r] # "idle" => rq[r] \in Request
  /\ pc[r] # "deferred" => ~panicking[r]
  /\ pc[r] \in {"idle", "reading", "call"} =>
       code[r] = 0 /\ wire[r] = 0 /\ own[r] = {} /\ gpc[r] = "none"
  /\ pc[r] = "calling" => wire[r] = 0 /\ code[r] \in {0} \union own[r]
  /\ pc[r] \in {"select", "item"} => wire[r] \in {0, 200} /\ code[r] \in {wire[r]} \union own[r]
  /\ pc[r] = "refuse" => wire[r] = 0 /\ code[r] \in {204, 400} \union own[r]
  /\ pc[r] = "deferred" =>
       IF panicking[r]
       THEN wire[r] \in {0, 200}
       ELSE \/ code[r] \in own[r]
            \/ wire[r] = 0 /\ code[r] \in {0, 200}
            \/ wire[r] # 0 /\ code[r] = wire[r]
  /\ pc[r] = "fail" => code[r] \in {500} \union own[r]
  /\ pc[r] = "count" => Agrees(r, code[r])
  /\ pc[r] \in {"sample", "return"} => label[r] # <<>>
  /\ label[r] # <<>> =>
       /\ pc[r] \in {"sample", "return", "done"}
       /\ label[r][1] = Method(r) /\ Agrees(r, label[r][2])
  /\ pc[r] = "done" => wire[r] # 0

StatusSettled == \A r \in Calls : Settled(r)

Promise == INSTANCE RpcPromise
             WITH answer <- wire, counted <- label, chosen <- own, tally <- counts

(* The handler of service.go implements the promise of RpcPromise: one       *)
(* answer, counted once, under the status the client saw, as a failure, or   *)
(* under a status the method chose for itself.                               *)
KeepsPromise == Promise!Spec

(* rpc_calls_total is exact whatever the interleaving of the handlers (the   *)
(* deferred function of handleRPC runs once for every call).                 *)
TallyExact == Promise!TallyExact

(* Nothing but items was written: the call was neither refused nor failed.   *)
Clean(r) == \A i \in DOMAIN body[r] : body[r][i] # StatusText

(* A stream that ended well while its client was there was received whole:   *)
(* the close of the channel never overtakes an item.                         *)
NoItemLost ==
  \A r \in Calls :
    pc[r] = "done" /\ conn[r] /\ IsGen(r) /\ Clean(r)
      => taken[r] = offered[r] /\ gpc[r] \in {"unwinding", "closed"}

(* A handler leaves its generator blocked in a send only when the client     *)
(* went away, or the call failed or was refused: never after a good stream.  *)
BlockedOnlyIfAbandoned ==
  \A r \in Calls :
    pc[r] = "done" /\ gpc[r] = "sending" => ~conn[r] \/ ~Clean(r)

(* A client that goes away frees its handler, even if the generator hangs in *)
(* the method and never sends or returns, unless the process dies first.     *)
DisconnectFreesHandler ==
  \A r \in Calls : ~conn[r] ~> (pc[r] = "done" \/ ~alive)

(* The code's own word for a stream that closes with nothing in it is        *)
(* "204 No Content: Channel closed" (service.go:486).                        *)
EmptyStreamIsNoContent ==
  \A r \in Calls :
    pc[r] = "done" /\ conn[r] /\ gpc[r] = "closed" /\ offered[r] = 0 => wire[r] = 204

=============================================================================
