------------------------------- MODULE Daemon -------------------------------
(* The life of a background service (kettlingar/default_main.go): `start`    *)
(* looks for a running one through the state file, re-execs itself as the    *)
(* server and waits on a pipe for its word; the server binds, writes the     *)
(* state file and serves; `stop` signals the PID the state file names; any   *)
(* other command calls the URL it names.  Any server may be killed at any    *)
(* moment.  A state file is known by its inode, since one process may remove *)
(* the name while another still writes.                                      *)
EXTENDS Naturals, FiniteSets

CONSTANTS
  MaxStarts, MaxStops, MaxCalls, \* bounds: runs of `start`, `stop` and other commands
  MaxKills,                      \* bound: servers killed from outside
  Scenarios                      \* how many of each are run, and under what conditions

(* serial: a command is run only when the ones before have finished;         *)
(* slow: startupTimeout and the timeout of a ping may pass; faults: the      *)
(* state file cannot be written.                                             *)
ASSUME Parameters ==
  /\ MaxStarts \in Nat /\ MaxStops \in Nat /\ MaxCalls \in Nat /\ MaxKills \in Nat
  /\ Scenarios \subseteq [starts : 0 .. MaxStarts, stops : 0 .. MaxStops, calls : 0 .. MaxCalls,
                          serial : BOOLEAN, slow : BOOLEAN, faults : BOOLEAN]

VARIABLES
  scenario,     \* the one this behaviour follows
  pc,           \* where each process is
  seen,         \* the server it read of in the state file
  ino,          \* the inode the state file's name refers to, 0 for no file
  content,      \* inode -> the server named in it, Nobody while it is empty
  made,         \* inodes made so far
  wfd,          \* the inode a server is writing
  pipe,         \* the readiness pipe of a start, as its parent reads it
  term,         \* servers that have been sent SIGTERM
  kills,        \* servers killed
  due,          \* history: servers reported up when a command was issued
  hasty         \* history: a command was issued before the server of a start
                \* that had timed out was up or gone

state == <<ino, content, made, wfd>>
past  == <<scenario, kills, due, hasty>>
vars  == <<pc, seen, state, pipe, term, past>>

Starts == 1 .. MaxStarts
Inodes == 1 .. MaxStarts
Nobody == 0
Cli(p) == <<"start", p>>
Srv(p) == <<"server", p>>
Stp(q) == <<"stop", q>>
Cmd(c) == <<"call", c>>
Procs  == ({"start", "server"} \X Starts) \union ({"stop"} \X (1 .. MaxStops))
                                          \union ({"call"} \X (1 .. MaxCalls))

Starting  == {"look", "probe", "signal", "unlink", "setup", "startup",
              "listen", "create", "write", "ready"}
Calling   == {"discover", "ping", "call"}
Bound     == {"create", "write", "ready", "serve"}
Listening == Bound \union {"shutdown", "remove"}
Returned  == {"idle", "ok", "running", "failed", "timeout", "byhand", "exit", "served"}
Waiting   == {"spawn", "wait", "exiting"}
ProcPC    == Starting \union Calling \union Listening \union Returned \union Waiting \union {"none", "dead"}

Alive(p) == pc[Srv(p)] \notin {"none", "dead"}

Busy == Starting \union Waiting \union Calling

(* Every command has returned: a server counts until its `start` has said    *)
(* how it ended; after a timeout it goes on starting behind the user's back. *)
AtRest == \A x \in Procs :
  pc[x] \in Busy => x[1] = "server" /\ pc[Cli(x[2])] \in {"ok", "timeout"}

(* What timed out has come up or gone by now. *)
Settled == \A p \in Starts : pc[Cli(p)] = "timeout" => pc[Srv(p)] \notin Busy

-----------------------------------------------------------------------------

Init ==
  /\ scenario \in Scenarios
  /\ pc = [x \in Procs |-> IF x[1] = "server" THEN "none" ELSE "idle"]
  /\ seen = [x \in Procs |-> Nobody]
  /\ ino = 0 /\ made = 0
  /\ content = [i \in Inodes |-> Nobody]
  /\ wfd = [p \in Starts |-> 0]
  /\ pipe = [p \in Starts |-> "none"]
  /\ term = {} /\ kills = 0
  /\ due = [c \in 1 .. MaxCalls |-> {}]
  /\ hasty = FALSE

Step(x, from, to) == pc[x] = from /\ pc' = [pc EXCEPT ![x] = to]
Move(x, from, to) == Step(x, from, to) /\ UNCHANGED <<seen, state, pipe, term, past>>

(* A server that exits closes its end of the pipe. *)
EofOn(p) == pipe' = [pipe EXCEPT ![p] = IF @ = "open" THEN "eof" ELSE @]

(* Commands of a kind are numbered in the order they are run in. *)
Issue(x, n) ==
  /\ x[2] <= n /\ pc[x] = "idle"
  /\ scenario.serial => AtRest
  /\ \A y \in Procs : y[1] = x[1] /\ y[2] < x[2] => pc[y] # "idle"
  /\ hasty' = (hasty \/ ~Settled)
  /\ UNCHANGED <<seen, state, pipe, term, scenario, kills>>

Start(p) == Issue(Cli(p), scenario.starts) /\ pc' = [pc EXCEPT ![Cli(p)] = "look"] /\ UNCHANGED due
Stop(q)  == Issue(Stp(q), scenario.stops) /\ pc' = [pc EXCEPT ![Stp(q)] = "probe"] /\ UNCHANGED due

(* `start --foreground`, by hand: a server without a pipe. *)
StartForeground(p) ==
  /\ Issue(Cli(p), scenario.starts)
  /\ pc' = [pc EXCEPT ![Cli(p)] = "byhand", ![Srv(p)] = "look"]
  /\ UNCHANGED due

Call(c) ==
  /\ Issue(Cmd(c), scenario.calls) /\ pc' = [pc EXCEPT ![Cmd(c)] = "discover"]
  /\ due' = [due EXCEPT ![c] = {p \in Starts : pc[Cli(p)] = "ok" /\ Alive(p) /\ p \notin term}]

-----------------------------------------------------------------------------
(* Looking for a running server: autoDiscover and probeOrStopServer. *)

(* What a process does when there is no server to be found. *)
Free(x) == IF x[1] = "stop" THEN "exit" ELSE "setup"

(* autoDiscover: without a state file there is nothing to probe. *)
Look(x) == Move(x, "look", IF ino = 0 THEN Free(x) ELSE "probe")

ReadStateOr(x, short) ==
  /\ Step(x, "probe", IF ino = 0 THEN Free(x) ELSE IF content[ino] = Nobody THEN short ELSE "signal")
  /\ seen' = IF ino = 0 THEN seen ELSE [seen EXCEPT ![x] = content[ino]]
  /\ UNCHANGED <<state, pipe, term, past>>

(* Mutant of ReadState: the second line is read without looking whether      *)
(* there is one.                                                             *)
ReadStateBlind(x) == ReadStateOr(x, "panic")

(* probeOrStopServer reads the state file again; one that is empty, as it is *)
(* between its creation and its first write, counts as stale.                *)
ReadState(x) == ReadStateOr(x, "unlink")

(* The PID is sent signal 0 by a probe and SIGTERM by `stop`; an error means *)
(* no such process.                                                          *)
SignalFails(x) == Move(x, "signal", "unlink") /\ ~Alive(seen[x])

ProbeFinds(p) == Move(Cli(p), "signal", "running") /\ Alive(seen[Cli(p)])

(* A server that finds another one exits without a word on the pipe. *)
ServerFinds(p) ==
  /\ Step(Srv(p), "signal", "dead") /\ Alive(seen[Srv(p)])
  /\ EofOn(p)
  /\ UNCHANGED <<seen, state, term, past>>

StopSignalsOr(q, file) ==
  /\ Step(Stp(q), "signal", "exit") /\ Alive(seen[Stp(q)])
  /\ term' = term \union {seen[Stp(q)]}
  /\ ino' = file
  /\ UNCHANGED <<seen, content, made, wfd, pipe, past>>

(* Mutant of StopSignals: `stop` removes the state file itself. *)
StopSignalsRemoves(q) == StopSignalsOr(q, 0)

StopSignals(q) == StopSignalsOr(q, ino)

(* os.Remove: whatever the name refers to by now is removed. *)
Unlink(x, from, to) ==
  /\ Step(x, from, to)
  /\ ino' = 0
  /\ UNCHANGED <<seen, content, made, wfd, pipe, term, past>>

RemoveStale(x) == Unlink(x, "unlink", Free(x))

-----------------------------------------------------------------------------
(* The parent: spawnBackground and awaitChildReady. *)

(* The setup hooks run in the parent, for as long as they please, and again  *)
(* in the server.                                                            *)
SetupParent(p, ok) == Move(Cli(p), "setup", IF ok THEN "spawn" ELSE "failed")

(* The pipe or the new process cannot be made. *)
SpawnFails(p) == Move(Cli(p), "spawn", "failed")

Spawn(p) ==
  /\ pc[Cli(p)] = "spawn"
  /\ pc' = [pc EXCEPT ![Cli(p)] = "wait", ![Srv(p)] = "look"]
  /\ pipe' = [pipe EXCEPT ![p] = "open"]
  /\ UNCHANGED <<seen, state, term, past>>

AwaitOr(p, good) ==
  /\ pipe[p] # "open"
  /\ pipe[p] = "OK" \/ pc[Srv(p)] = "dead"
  /\ Move(Cli(p), "wait", IF pipe[p] \in good THEN "ok" ELSE "failed")

(* Mutant of AwaitChild: a pipe that closes counts as ready. *)
AwaitClose(p) == AwaitOr(p, {"OK", "eof"})

(* The child has written its status, or closed the pipe without one; unless  *)
(* it is ready, it is waited for.                                            *)
AwaitChild(p) == AwaitOr(p, {"OK"})

(* Mutant of AwaitTimeout: there is no timeout. *)
AwaitForever(p) == FALSE /\ UNCHANGED vars

(* startupTimeout; the child runs on. *)
AwaitTimeout(p) == scenario.slow /\ pipe[p] = "open" /\ Move(Cli(p), "wait", "timeout")

-----------------------------------------------------------------------------
(* The server: startServer with --foreground. *)

SetupServer(p, ok) ==
  /\ Step(Srv(p), "setup", IF ok THEN "startup" ELSE "dead")
  /\ IF ok THEN UNCHANGED pipe ELSE EofOn(p)
  /\ UNCHANGED <<seen, state, term, past>>

(* signalReady: the status, on the pipe, once. *)
SignalReady(p, status) == pipe' = [pipe EXCEPT ![p] = IF @ = "open" THEN status ELSE @]

(* A step of the start that works, or ends the server with a word why. *)
Attempt(p, from, ok, to) ==
  /\ Step(Srv(p), from, IF ok THEN to ELSE "exiting")
  /\ IF ok THEN UNCHANGED pipe ELSE SignalReady(p, "ERR")
  /\ UNCHANGED <<seen, state, term, past>>

StartupHooks(p, ok) == Attempt(p, "startup", ok, "listen")
Listen(p, ok)       == Attempt(p, "listen", ok, "create")
Exit(p)             == Move(Srv(p), "exiting", "dead")

(* os.WriteFile: the file is created or truncated ... *)
CreateState(p) ==
  /\ Step(Srv(p), "create", "write")
  /\ ino'  = IF ino = 0 THEN made + 1 ELSE ino
  /\ made' = IF ino = 0 THEN made + 1 ELSE made
  /\ wfd' = [wfd EXCEPT ![p] = ino']
  /\ content' = [content EXCEPT ![ino'] = Nobody]
  /\ UNCHANGED <<seen, pipe, term, past>>

(* ... and written. *)
WriteState(p) ==
  /\ Step(Srv(p), "write", "ready")
  /\ content' = [content EXCEPT ![wfd[p]] = p]
  /\ wfd' = [wfd EXCEPT ![p] = 0]
  /\ UNCHANGED <<seen, ino, made, pipe, term, past>>

(* The error of os.WriteFile is dropped: there may be no new file, or one    *)
(* that stays empty (or has a part of a line, which leads nowhere either).   *)
WriteStateFails(p) ==
  /\ scenario.faults
  /\ Step(Srv(p), "create", "ready") \/ Step(Srv(p), "write", "ready")
  /\ wfd' = [wfd EXCEPT ![p] = 0]
  /\ UNCHANGED <<seen, ino, content, made, pipe, term, past>>

ReadyFrom(p, from, to) ==
  /\ Step(Srv(p), from, to)
  /\ SignalReady(p, "OK")
  /\ UNCHANGED <<seen, state, term, past>>

(* Mutant of Ready: the parent is told as soon as the listener is bound. *)
ReadyEarly(p) ==
  ReadyFrom(p, "ready", "serve") \/ (pipe[p] = "open" /\ ReadyFrom(p, "create", "create"))

Ready(p) == ReadyFrom(p, "ready", "serve")

(* SIGTERM: the listener and the idle connections are closed, the shutdown   *)
(* hooks run ...                                                             *)
Shutdown(p)      == p \in term /\ Move(Srv(p), "serve", "shutdown")
ShutdownHooks(p) == Move(Srv(p), "shutdown", "remove")

(* Mutant of RemoveState: the state file goes first of all, at the signal. *)
RemoveStateEarly(p) ==
  p \in term /\ (Unlink(Srv(p), "serve", "shutdown") \/ Unlink(Srv(p), "remove", "dead"))

(* ... and the state file is removed, whoever wrote it; the process ends. *)
RemoveState(p) == Unlink(Srv(p), "remove", "dead")

(* The server is killed, or the machine stops it. *)
Kill(p) ==
  /\ Alive(p) /\ kills < MaxKills
  /\ kills' = kills + 1
  /\ pc' = [pc EXCEPT ![Srv(p)] = "dead"]
  /\ EofOn(p)
  /\ UNCHANGED <<seen, state, term, scenario, due, hasty>>

-----------------------------------------------------------------------------
(* A command that calls the service: DefaultMain, autoDiscover, doCall. *)

(* The URL in the state file; of an empty file it is empty, and without a    *)
(* file it is the default URL, where no server of ours listens.              *)
Discover(c) ==
  /\ Step(Cmd(c), "discover", "ping")
  /\ seen' = [seen EXCEPT ![Cmd(c)] = IF ino = 0 THEN Nobody ELSE content[ino]]
  /\ UNCHANGED <<state, pipe, term, past>>

(* The kernel queues the connections of a bound listener until it serves. *)
Answers(c) == seen[Cmd(c)] # Nobody /\ pc[Srv(seen[Cmd(c)])] = "serve"
Refuses(c) == seen[Cmd(c)] # Nobody => pc[Srv(seen[Cmd(c)])] \notin Bound

(* fetchManifest asks for /ping; when that fails the commands of the API are *)
(* not even defined.                                                         *)
Ping(c) == Answers(c) /\ Move(Cmd(c), "ping", "call")
PingFails(c) == (Refuses(c) \/ scenario.slow) /\ Move(Cmd(c), "ping", "failed")

DoCall(c) == Answers(c) /\ Move(Cmd(c), "call", "served")
DoCallFails(c) == Refuses(c) /\ Move(Cmd(c), "call", "failed")

-----------------------------------------------------------------------------

(* Steps that a process does not wait for anything to take. *)
ProcStep(x) == Look(x) \/ ReadState(x) \/ SignalFails(x) \/ RemoveStale(x)

ParentStep(p) ==
  ProcStep(Cli(p)) \/ ProbeFinds(p) \/ Spawn(p) \/ SpawnFails(p) \/ AwaitChild(p)

ServerStep(p) ==
  \/ ProcStep(Srv(p)) \/ ServerFinds(p) \/ Exit(p)
  \/ \E ok \in BOOLEAN : Listen(p, ok)
  \/ CreateState(p) \/ WriteState(p) \/ WriteStateFails(p) \/ Ready(p)
  \/ Shutdown(p) \/ RemoveState(p)

(* Steps that wait for the application. *)
HookStep(p) ==
  \/ ShutdownHooks(p)
  \/ \E ok \in BOOLEAN : SetupParent(p, ok) \/ SetupServer(p, ok) \/ StartupHooks(p, ok)

StopStep(q) == ProcStep(Stp(q)) \/ StopSignals(q)

CallStep(c) == Discover(c) \/ Ping(c) \/ PingFails(c) \/ DoCall(c) \/ DoCallFails(c)

Next ==
  \/ \E p \in Starts :
       \/ Start(p) \/ StartForeground(p)
       \/ ParentStep(p) \/ AwaitTimeout(p)
       \/ ServerStep(p) \/ HookStep(p) \/ Kill(p)
  \/ \E q \in 1 .. MaxStops : Stop(q) \/ StopStep(q)
  \/ \E c \in 1 .. MaxCalls : Call(c) \/ CallStep(c)

Spec == Init /\ [][Next]_vars

(* Processes run and timers fire; the application's hooks may take for ever. *)
Fairness ==
  \A p \in Starts : WF_vars(ParentStep(p)) /\ WF_vars(AwaitTimeout(p)) /\ WF_vars(ServerStep(p))

FairSpec == Spec /\ Fairness

-----------------------------------------------------------------------------
(* Properties. *)

TypeOK ==
  /\ scenario \in Scenarios
  /\ pc      \in [Procs -> ProcPC]
  /\ seen    \in [Procs -> Starts \union {Nobody}]
  /\ made    \in 0 .. MaxStarts
  /\ ino     \in 0 .. made
  /\ content \in [Inodes -> Starts \union {Nobody}]
  /\ wfd     \in [Starts -> 0 .. made]
  /\ pipe    \in [Starts -> {"none", "open", "OK", "ERR", "eof"}]
  /\ term    \subseteq Starts
  /\ kills   \in 0 .. MaxKills
  /\ due     \in [1 .. MaxCalls -> SUBSET Starts]
  /\ hasty   \in BOOLEAN

(* What `start` reports is so: after success its server is up, until it is   *)
(* stopped or killed; after an error, other than the timeout, it is not up   *)
(* and never will be.                                                        *)
ParentIsToldTruth ==
  \A p \in Starts :
    /\ pc[Cli(p)] = "ok" =>
         \/ pc[Srv(p)] = "serve"
         \/ p \in term /\ pc[Srv(p)] \in {"shutdown", "remove", "dead"}
         \/ pc[Srv(p)] = "dead" /\ kills > 0
    /\ pc[Cli(p)] \in {"failed", "running"} => pc[Srv(p)] \in {"none", "dead"}

(* Commands are run one after the other and the state file can be written;   *)
(* and after a start that timed out nothing is run until its server is up or *)
(* gone.  Who retries before that may end with two servers, or with a state  *)
(* file that the first one overwrites: the code looks for a running server   *)
(* before it spawns one, and never again.                                    *)
Calm == scenario.serial /\ ~scenario.faults /\ ~hasty

(* A second server comes only of commands that overlap, of a state file that *)
(* could not be written, or of a command run while the server of a start     *)
(* that had timed out was still on its way; kills, stops and whatever they   *)
(* leave behind do not make one.                                             *)
SingleServer ==
  Calm => Cardinality({p \in Starts : pc[Srv(p)] \in Listening}) <= 1

(* Under the same conditions the state file leads to a server that `start`   *)
(* has reported, as long as it serves, whatever commands and servers have    *)
(* come and gone since.                                                      *)
StartedIsReachable ==
  Calm => \A p \in Starts :
    pc[Cli(p)] = "ok" /\ pc[Srv(p)] = "serve" /\ p \notin term
      => ino # 0 /\ content[ino] = p

(* "When it returns success the service is actually able to serve requests,  *)
(* so a CLI command issued immediately afterwards cannot race an unready     *)
(* server" (default_main.go:599): a command fails only if the server that    *)
(* `start` had reported before was killed or stopped meanwhile.              *)
CallReaches ==
  Calm /\ ~scenario.slow => \A c \in 1 .. MaxCalls :
    pc[Cmd(c)] = "failed" => \A p \in due[c] : ~Alive(p) \/ p \in term

(* `start` returns, or hangs in a setup hook of the application, which runs  *)
(* before the server is spawned and under no timeout; from then on it        *)
(* returns whatever hooks hang in the server.  (Its timer fires where it     *)
(* may: in a scenario that is not slow the hooks return before it.)          *)
StartReturns ==
  \A p \in Starts :
    /\ pc[Cli(p)] = "look" /\ scenario.slow ~> pc[Cli(p)] \in Returned \union {"setup"}
    /\ pc[Cli(p)] = "spawn" /\ scenario.slow ~> pc[Cli(p)] \in Returned

=============================================================================
