----------------------------- MODULE RpcClient ------------------------------
(* The client stubs (kettlingar/client.go) on the other end of the calls of  *)
(* RpcCall: a stub posts msgpack, waits for the status line, and decodes the *)
(* body: one value for a function; for a stream, in a goroutine that sends   *)
(* each element into the application's channel and closes it at the end.     *)
(* Elements are structures: a status text does not decode into one.          *)
EXTENDS RpcCall

VARIABLES
  cpc,          \* where the stub of a call is, "other" for another client
  net,          \* parts of the body that have arrived, its end included
  pos,          \* parts that were decoded
  got           \* what the application received

client  == <<cpc, net, pos, got>>
allVars == <<vars, client>>

ClientPC == {"none", "other", "sent", "streaming", "holding", "ended", "returned", "panicked"}

ClientInit ==
  /\ Init
  /\ cpc = [r \in Calls |-> "none"]
  /\ net = [r \in Calls |-> 0]
  /\ pos = [r \in Calls |-> 0]
  /\ got = [r \in Calls |-> <<>>]

CGoto(r, l) == cpc' = [cpc EXCEPT ![r] = l]

(* The connection is gone, for the client's side. *)
Broken(r) == ~conn[r] \/ ~alive

(* A stub accepts msgpack only; it takes the URL, and the secret in it, as   *)
(* given.                                                                    *)
Send(r) ==
  /\ Arrive(r)
  /\ CGoto(r, IF rq'[r].encoded THEN "sent" ELSE "other")
  /\ UNCHANGED <<net, pos, got>>

(* The next part of the body arrives, and its end when the handler is done.  *)
(* What arrived before a connection broke can still be read.                 *)
Deliver(r) ==
  /\ cpc[r] \notin {"none", "other"} /\ ~Broken(r)
  /\ net[r] < Len(body[r]) + (IF pc[r] = "done" THEN 1 ELSE 0)
  /\ net' = [net EXCEPT ![r] = @ + 1]
  /\ UNCHANGED <<vars, cpc, pos, got>>

(* http.Client.Do returns with the status line.  The status is only logged.  *)
DoReturns(r) ==
  /\ cpc[r] = "sent" /\ wire[r] # 0 /\ ~Broken(r)
  /\ CGoto(r, IF IsGen(r) THEN "streaming" ELSE "holding")
  /\ UNCHANGED <<vars, net, pos, got>>

(* Do fails: the stub panics. *)
DoFails(r) ==
  /\ cpc[r] = "sent" /\ Broken(r)
  /\ CGoto(r, "panicked")
  /\ UNCHANGED <<vars, net, pos, got>>

(* A function's stub decodes one value; whatever goes wrong is ignored, and  *)
(* the result is the zero value.                                             *)
StubReturns(r) ==
  /\ cpc[r] = "holding" /\ ~IsGen(r)
  /\ net[r] > 0 \/ Broken(r)
  /\ got' = [got EXCEPT ![r] = <<IF net[r] > 0 /\ body[r] # <<>> THEN body[r][1] ELSE StatusText>>]
  /\ CGoto(r, "returned")
  /\ UNCHANGED <<vars, net, pos>>

DecodeOr(r, texts) ==
  /\ cpc[r] = "streaming" /\ pos[r] < net[r] /\ pos[r] < Len(body[r])
  /\ pos' = [pos EXCEPT ![r] = @ + 1]
  /\ CGoto(r, IF body[r][pos'[r]] = StatusText /\ ~texts THEN "streaming" ELSE "holding")
  /\ UNCHANGED <<vars, net, got>>

(* Mutant of Decode: an element that does not decode is sent, still zero. *)
DecodeAnything(r) == DecodeOr(r, TRUE)

(* dec.Decode: an element, or the bytes of a status text, which fail one     *)
(* after the other; the loop continues with the next.                        *)
Decode(r) == DecodeOr(r, FALSE)

(* outChan.Send: the application takes the element. *)
Take(r) ==
  /\ cpc[r] = "holding" /\ IsGen(r)
  /\ got' = [got EXCEPT ![r] = Append(@, body[r][pos[r]])]
  /\ CGoto(r, "streaming")
  /\ UNCHANGED <<vars, net, pos>>

EndIf(r, over) ==
  /\ cpc[r] = "streaming" /\ over
  /\ CGoto(r, "ended")
  /\ UNCHANGED <<vars, net, pos, got>>

AtEnd(r) == pos[r] = Len(body[r]) /\ net[r] > pos[r]

(* Mutants of EndOfStream: any error ends the stream; the end is noticed     *)
(* only after an element.                                                    *)
EndAtError(r)  == EndIf(r, AtEnd(r) \/ (Broken(r) /\ pos[r] = net[r]))
EndAfterOne(r) == EndIf(r, AtEnd(r) /\ got[r] # <<>>)

(* io.EOF: the channel is closed.  Any other error is tried again: on a      *)
(* connection that broke the loop goes round for ever, with no step here.    *)
EndOfStream(r) == EndIf(r, AtEnd(r))

StubStep(r) ==
  Deliver(r) \/ DoReturns(r) \/ DoFails(r) \/ StubReturns(r) \/ Decode(r) \/ EndOfStream(r)

(* The connection is lost while the end of the body is on its way. *)
LoseTail(r) ==
  /\ pc[r] = "done" /\ ~Broken(r)
  /\ conn' = [conn EXCEPT ![r] = FALSE]
  /\ UNCHANGED <<alive, rq, http, own, stream, metrics>>

ServerNext(r) ==
  /\ \/ Disconnect(r) \/ LoseTail(r) \/ ProcessDies(r)
     \/ UploadStep(r) \/ HandlerStep(r) \/ FunctionStep(r) \/ GeneratorStep(r)
     \/ \E s \in OwnCodes : SetCode(r, s)
  /\ UNCHANGED client

ClientNext == \E r \in Calls : Send(r) \/ ServerNext(r) \/ StubStep(r) \/ Take(r)

(* The network delivers what was written on a connection that lasts, the     *)
(* stub's goroutine runs, and the application receives from its channel.     *)
ClientSpec ==
  /\ ClientInit /\ [][ClientNext]_allVars /\ Fairness
  /\ \A r \in Calls : WF_allVars(StubStep(r)) /\ WF_allVars(Take(r))

-----------------------------------------------------------------------------
(* Properties. *)

(* The application receives elements of the generator in the order they were *)
(* sent, each once, and nothing that the text of an error was decoded into.  *)
GotInOrder ==
  \A r \in Calls : \A i, j \in DOMAIN got[r] :
    IsGen(r) /\ i <= j => got[r][i] # StatusText /\ (i < j => got[r][i] < got[r][j])

Values(q) == {q[i] : i \in DOMAIN q}

(* A channel that a stub closed has carried everything the handler wrote     *)
(* (in that order, by GotInOrder), and a handler that ended well had         *)
(* received everything its generator sent: a connection that breaks never    *)
(* looks like the end of a stream.                                           *)
ClosedIsComplete ==
  \A r \in Calls : cpc[r] = "ended" =>
    /\ pc[r] = "done"
    /\ Values(got[r]) = Values(body[r]) \ {StatusText}
    /\ Clean(r) /\ conn[r] => taken[r] = offered[r]

(* Over a connection that lasts a stub ends when its handler has: it returns *)
(* or closes the channel, whatever the status was.                           *)
StubEnds ==
  \A r \in Calls :
    pc[r] = "done" /\ cpc[r] \in {"sent", "streaming", "holding"}
      ~> cpc[r] \in {"ended", "returned", "panicked"} \/ Broken(r)

=============================================================================
