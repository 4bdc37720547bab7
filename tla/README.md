# A formal model of kettlingar-go

kettlingar is a small framework for services that are their own command line
tool: a Go program embeds `KettlingarService`, its methods become RPCs over
HTTP, and the same binary starts, stops and calls the daemon. This directory
holds TLA+ modules of the parts that decide whether the framework keeps its
word, TLC configurations that check them on small instances, and TLAPS proofs
for every instance.

All paths below are relative to the repository; `kettlingar/` is
`src/kettlingar/`.

## Inventory

| part | code | state it keeps | operations | what is hard |
|---|---|---|---|---|
| RPC server call path | `service.go` 316-570 | per call: `ri.HttpCode`, the response, a generator's channel | mux handler, `handleRPC`, `handleFunction`, `handleGenerator` | a handler, a generator goroutine, net/http and a client that may leave; panics at any point; accounting in a deferred function |
| Client stubs | `client.go` | a goroutine and a channel per stream | `MakeClient` and the stubs it makes | the body of a stream ends well, in the text of an error, or with the connection |
| Metrics registry | `metrics.go` | counters, gauges, infos, histograms, public and private, each store under a lock | `MetricsCount`, `MetricsSample`, `MetricsGuage`, `MetricsInfo`, `snapshot`, `RenderOpenMetrics` | bucket boundaries, two stores copied one after the other, what the text leaves out |
| Log fan-out | `logtee/logtee.go` | level and `minSub` (atomic), base, subscriptions under `hub.mu` | `Enabled`, `Handle`, `Subscribe`, `SubscribeContext`, `Close`, `SetLevel`, `SetBase`, `SetBaseFlushing` | lock-free gates, slow watchers, close against send, one order for all |
| Logging configuration | `logging.go`, `logging/buffer.go`, `logging/logging.go` | `logMu`, `logKey`, `logCloser`, `logApplied`; the bootstrap buffer | `InstallLogging`, `ConfigureLogging`, `SetupClientLogging` | reconfiguration while others log, the first flush, a target that fails, logging under its own lock |
| Rotating file | `logging/rotate.go` | the file, its size; the directory of backups | `open`, `Write`, `rotate`, `gzipFile`, `pruneAge`, `Close` | a sequence of renames that may stop anywhere; two writers on one path |
| Daemon start/stop | `default_main.go` 508-740 | the state file, the child process, its ready pipe | `startServer`, `spawnBackground`, `awaitChildReady`, `signalReady`, `probeOrStopServer`, discovery, `doCall` | processes that share one file without a lock; crashes; timeouts |
| Registration, manifest | `service.go` 120-345 | the method table, the mux, the API version | `MakeService`, `RegisterService`, `authenticate`, ping's listing | reflection over method sets, a refusal half-way, colliding names, hashes of Go maps |
| MsgPack to JSON | `msgpack_to_json.go` | a call stack | `Convert` | separators at every depth |
| Command line | `default_main.go` | commands, groups and flags | the commands of the manifest, calling, printing | names that collide, a tree that is built twice |
| Syslog, data directory, built-in methods, example | | none of interest | | |

How they interact: `MakeService` registers kettlingar's own methods and the
application's, converts the manifest to JSON and hashes it into a version.
`DefaultMain` makes the methods into commands. `start` re-executes the program
with a pipe on fd 3; the child serves HTTP, each request runs `handleRPC` on its
own goroutine, which calls the method by reflection, counts and times the call in
the metrics registry and logs through `ks.Logger`. A stub on the other end of the
connection decodes the reply. Every log call goes through the fan-out: to
subscriptions (a client watching its own call) and to the base, which is the
bootstrap tee (stderr and a buffer) until the first `ConfigureLogging`, and then a
file, syslog or stderr. The file is the rotating writer. `stop` and every client
command find the server by its state file.

What makes each correct:

* RPC: each call has one answer and is counted once, under the status its client
  saw, as a failure, or under a status the method itself chose; a stream arrives in
  order and whole; a client that leaves frees its handler; a generator outlives only a
  call that went wrong.
* Client: what the application receives of a stream is what the generator
  sent, in order, and nothing an error text was decoded into; a channel that
  closes has carried everything; a stub ends when its handler does.
* Metrics: buckets are exact for any mix of durations; a scrape that runs during
  calls is consistent; what the text leaves out loses nothing; one heading a family.
* Fan-out: no record a subscription or the base wants is lost in silence; nothing
  is sent on a closed channel; everybody sees one order; logging never blocks on
  a watcher.
* Configuration: no record is lost or doubled by a swap; only the current sink is
  open; the last configuration is the one in force; no deadlock.
* Rotation: what is removed is the oldest, or older than it has to be kept; the slots
  stay in order; no more backups than asked for, and no fewer; the live file keeps its
  limit, but for a record that is longer than that.
* Daemon: what `start` reports is true; one server at a time and one that is
  reachable and can be called once it was reported started, for commands that come one
  after the other and do not overtake a server whose `start` timed out; `start`
  returns, unless a setup hook of the application hangs.
* Registration: what is listed can be called, by those it is listed to; a service
  is refused for a method of another shape than those that are served and for nothing
  else; the version says what the manifest says; the commands are those of the
  manifest.
* Converter: what it writes is the JSON of what was encoded, for what Go prints as
  JSON does.

## Modules

| module | models | its variables are |
|---|---|---|
| `RpcPromise` | what the server promises about a call's status (abstract) | status on the wire, label it was counted under, statuses its method has chosen, `rpc_calls_total` |
| `RpcCall` | the mux handler, `handleRPC`, `handleFunction`, `handleGenerator` | `pc` the line the handler is at, `code` = `ri.HttpCode`, `wire` = status line, `body`, `panicking`, `own` the codes the method has set, `label` of its accounting; `gpc` the generator goroutine, `offered`, `taken` the items through its unbuffered channel; `counts`, `samples` |
| `RpcClient` | the stubs, with the network between them and `RpcCall` | `cpc` where a stub is, `net` the parts of the body that arrived, `pos` those decoded, `got` what the application has |
| `Metrics` | the registry and a scrape | `series` by store and kind, the callers' place between count and sample, the copies `view` of a scrape, the `text` it renders |
| `LogFanout` | `FanoutHandler`, `hub`, `Subscription` | `mu` = `hub.mu`, `level`, `minSub`, `open` = keys of `hub.subs`, `fill` = channel lengths, per goroutine the place in `Enabled`/`Handle` |
| `LogConfig` | `ConfigureLogging` over `SetBase(Flushing)` and `BufferHandler` | `logMu`, `hubMu`, `base`, `sinks`, `buffer`, `applied`, `key`, `closer` |
| `RotatingWriter` | `rotatingWriter` and the directory it works on | `dir`: name to inode, `data`: inode to units written; per writer `fd`, `size`, the loop variable and the next system call; the length of the `record` in `Write`, the names `doomed` by `pruneAge` |
| `Daemon` | `start`, `stop`, other commands, the server process | `ino`, `content`: the state file; `pipe`: the ready pipe; `pc` of every process, `seen` the server it read of |
| `MsgpackJson` | `Convert` and the calls inside it | `input` tokens, `out` text, `stack` of arrays and maps |
| `Registration` | `RegisterService`, the commands of the command line | `services`, the method it is at, `registry`, `routes` = `ks.Mux`, `groups`, `commands` |
| `Registry` | `MakeService` as a whole, with the API version | those of `Registration` and `MsgpackJson`, and `version` |
| `RpcPromiseProofs`, `RpcCallProofs`, `LogFanoutProofs`, `LogConfigProofs`, `DaemonProofs`, `MetricsProofs`, `RotatingWriterProofs`, `RegistryProofs` | theorems | |
| `MC*` | symmetry sets and parameter values for TLC | |

How the modules compose:

* `RpcCall` refines `RpcPromise`: `Promise == INSTANCE RpcPromise WITH answer <-
  wire, ...` and the property `KeepsPromise == Promise!Spec`.
* `RpcClient` extends `RpcCall` with the other end of the connection; every
  action of the server is a step of the whole, so its stream properties are
  checked there too.
* `Registry` extends `Registration` and `MsgpackJson`: the converter's output for the
  manifest is the version. Each of its steps is one of `Registration`'s, or of the
  converter, which leaves the variables of `Registration` alone, so what is proved of
  `Registration` holds there. In `RpcCall`, the guard of `Receive` is the authentication
  whose public/private split `Registration` derives from the methods' names.
* `LogConfig` uses the order and atomicity of `hub.mu` that `LogFanout` checks in
  detail (a `Handle` is one critical section), so its `Handle` is one action.
  `RotatingWriter`'s `OpenNext` and `SwapAndClose` are the steps by which
  `LogConfig` replaces one file sink by another.
* `RpcCall`'s `CountCall` and `SampleCall` are `Metrics`' `Count` and `Sample`:
  the one has them in the order of the handler, the other has the values they
  change and those who read them.

### Correspondence

An action is a stretch of code between two points where another goroutine,
process or a crash can come in: an unlock, a channel operation, a system call, a
call into the application. Everything the code does in between (setting
`HttpCode`, writing the error text, leaving the loop) is in the one action. Where
the code's outcome depends on something the model leaves out (does this body
decode, does this value render), the action is nondeterministic within the
code's own conditions: `RefuseItem`, for instance, is possible only for the
first item of a renderable stream without an encoding, as at `service.go:511`.
A method has its `RequestInfo` and may set `HttpCode` at any moment while it runs, a
generator also while the handler does (`SetCode`); so a refusal and the answer to it,
which reads the code again, are two steps (`Tell`). A body that cannot be read
is treated as no body, as at `service.go:414`.

`Commit` in `RpcCall` is net/http's rule that the first `WriteHeader`, `Write` or
`Flush` fixes the status; `CtxDone` is its rule that the request's context ends
with the connection or the handler. The goroutine of a generator has no fairness:
the application may hang.

In `RpcClient` the network keeps its parts in order and may break at any moment,
also behind the handler's back while the end is on its way (`LoseTail`). A reply
is a sequence of parts, items or the text of an error, as the handler wrote them.

In `RotatingWriter` a record is as many units long as it has bytes, each unit has the
number of its turn, and a file holds the units written to it; a write that fails
leaves the first of them. `maxBytes` is a number of units, of each writer its own.
`pruneAge` finds out which names are too old in one step, at which nothing else works
in the directory, and removes them in others, in any order (the code has that of
`os.ReadDir`, by name).

In `Registration` a method is its name, its parameters' kinds and whether it has a
result; docs give a name its group and may call it a generator or give it a type; a
name is a sequence of upper, lower and digit runes, because
`dashedName` looks at nothing else. In `Metrics` a name is a sequence of
characters, because its text is sorted by them, and the other labels are a number
they sort by.

Auxiliary variables, none of which a guard of the code reads: `sent`, `out`,
`owed` (LogFanout), `log`, `stderr`, `flushMin` (LogConfig), `rotated`, `disturbed`,
`last` (RotatingWriter; `last` also numbers units), `own`, `label` (RpcCall; the
handler keeps its label in a local variable of the deferred function), `due`, `hasty`
(Daemon), `timed` (Metrics), `given` (MsgpackJson). `disturbed` says what has gone
wrong so far: "failed", a system call did; "outdated", a writer took over that did not
know the live file; "halfway", a crash or a failure left `name.1` beside `name.1.gz`;
"halfpruned", a crash came when `pruneAge` had not removed all that it was to.
`NoHole` and `Retention` speak of the time when at most the last has happened, and of
one kind of compression; `LiveBounded` allows "halfway" and "halfpruned"; `SlotsInOrder`
and `BackupsBounded` name those of the four that they do not survive.
`hasty` says that a command was run while the server of a start that had timed out was
neither up nor gone.

Definitions named "Mutant of ..." in a comment are plausible mistakes in an
action. No specification uses them; each shows, put in the action's place, that
the property next to it can fail.

## Runs

| run | instance | question |
|---|---|---|
| `rpc_calls` | 2 calls, a function and a renderable generator, 2 items, methods that set a status of their own | promise, exact counters, under every interleaving and panic |
| `rpc_client` | 1 call of 4 kinds of method by a stub or another client, 4 items, a status of their own, fair | how status, answer and label are related; order and completeness of a stream at both ends, abandoned generators, a client that leaves frees its handler, a stub ends |
| `log_fanout` | 2 goroutines, 2 subscriptions with room for 1, 2 levels | panics and silent losses |
| `log_returns` | 2 goroutines, 1 subscription, 2 bases, fair | one order, logging returns |
| `log_config` | 2 loggers, 2 callers, 3 settings (loud file, quiet file, console), 3 sinks, buffer of 1, fair | nothing lost or doubled, one open sink, one configuration, no self-deadlock under `logMu` |
| `rotate` | with failing system calls, a crash and a restart: 3 plain backups of files of 1 unit, 2 plain ones of 3 units with age pruning, 1 compressed one of 2; reconfigured once, among: 2 plain ones of 2 units, 3 compressed ones of 1 unit, both with age pruning, 1 compressed one without a limit of size; records of 1 or 2 units, 6 units in all | order of the slots; the oldest goes first; sizes and numbers kept; retention in the middle of a rotation |
| `daemon` | one by one: 3 starts and 2 stops, or 2 starts, a stop and a call; 2 starts and a stop with slow hooks, where a start may time out and be retried; at once: 2 starts, 1 stop, slow, failing or hanging hooks, a state file that cannot be created or written; one kill, fair | one server, reachable and callable; truth of what `start` reports; `start` returns |
| `registry` | every list of up to three kinds of parameters, one of four, each with and without fields in its struct; docs that call it a generator or give it a type; colliding, reserved and built-in names; docs and groups that agree and disagree, in two services; values nested three deep, with scalars that Go prints in its own way | the manifest, the mux, the version and the commands agree; the converter |
| `metrics` | 2 callers, 1 public and 1 private label, durations 0, 1, 32 and 33, 5 slots, 3 publications | exact histograms, a consistent scrape, a complete text |
| `rpc_empty_stream`, `log_tagged`, `rotate_unlimited` | small | violations, see below |

The bounds are enough for the cases to occur. Two calls suffice for anything the
handlers share, which is the two maps of counters; the proofs cover any number.
Two items let a stream fail after its first, four let it be abandoned in its
middle with items on the way to the client. Two goroutines, a full channel (room
for 1, two records) and two subscriptions contain every pair of `hub` operations.
Three sinks are a first flush and two swaps; a buffer of one evicts with two
records. One subscription in `log_returns` is enough for its order against the bases;
that two watchers agree with each other is the theorem's. Six units fill, at one a file,
the live file and three backups and rotate twice more, so that the oldest is removed;
records of one and of two units are within, at and beyond a limit of one or two, and
two files of three units leave room that a next record does not fit into; `pruneAge`
has up to three files to remove, and a crash may come after any. The second writer
finds what the first left. Three starts allow a crashed server,
its successor, and one that meets it running. Durations 32 and 33 are the two
sides of a bucket's bound, 0 and 1 the two below every bucket; with five slots
a histogram has a first, an inner and a last one, and two samples that fall in any
two. The two callers let a scrape come between any two updates. An
accepted method has at most three parameters; a method of any shape stands
between good ones, so that a refusal has something before it and something after.

A type invariant is `TypeOK`. Those of `RpcCall` and `Daemon` are checked in their
runs; a configuration checks one of the others when it lists it. Every one of them
is proved.

Symmetry is used where a run has no liveness property and its calls, goroutines,
subscriptions or commands are interchangeable in every formula.

`CHECK_DEADLOCK FALSE` stands in every configuration: requests, records and
commands are bounded, so every behaviour ends; whether anything is stuck before
its end is what the liveness properties say.

### Fairness

* `RpcCall!Fairness`: a runnable handler runs (the Go scheduler), a function
  returns, and `SelectDone` is strongly fair, because `reflect.Select` picks
  among ready cases at random. Reading the body is fair only once the connection
  is closed: the server has no timeout, so a stalled upload may hang for ever.
* `RpcClient!ClientSpec` adds that the network delivers on a connection that lasts,
  that a stub's goroutine runs, and that the application receives from the channel
  it was given; without the last a stub blocks in its send, as in the code.
* `LogFanout!Fairness`: a goroutine in a log call runs; `Lock` is strongly fair,
  since `sync.Mutex` hands over to a waiter that has starved for a
  millisecond. Watchers are not fair.
* `LogConfig!FairSpec`: a call in progress runs.
* `Daemon!Fairness`: processes and the timer run; hooks do not have to return, those
  that set up the application in `start`'s own process included, so `StartReturns`
  says of `start` that it returns from the moment on at which it spawns the server,
  and that before it can only hang in such a hook.

## Where code and word differ

Runs that expect a violation. Each checks one sentence of the repository against the code.

* `rpc_empty_stream`: a stream without items is answered 500, not the 204 of
  `service.go:486`: the condition `first && ok` cannot hold where the loop ends.
* `log_tagged`: records replayed from the bootstrap buffer lack the service
  attribute that `logging.go:37` says every line has.
* `rotate_unlimited`: `MaxBackups: 0` keeps one backup; `logging/logging.go:74-75`
  says it disables the limit.

Behaviour the models have that a reader may not expect, where the repository says
little or nothing to check:

Calls and clients
* A method may set `ri.HttpCode`. What is answered is 200 all the same, because the
  reply is written without a `WriteHeader` (`service.go:531-570`, `461-529`), but the
  call is counted and timed under the method's code (`service.go:525`, `567` only fill
  in a code that is 0). A generator that sets it while the handler refuses an item
  may also change the status of the refusal. `RpcPromise` lets a method choose.
* A panic on a generator's goroutine (`service.go:472`) is outside the recover of
  `handleRPC` and ends the server; `ProcessDies`.
* On a connection that breaks in the middle of a stream the stub's decoding loop
  goes round for ever and its channel is never closed (`client.go:79`);
  `ClosedIsComplete` is the good side of that. A handler that fails a stream (500)
  lets the stub's channel close as after a good one: a stub does not look at the
  status. A function's stub returns the zero value for any error. A stub whose
  elements are numbers would read the text of an error as elements; the model
  assumes elements that such a text does not decode into.

Metrics
* A sample of 0 microseconds counts in the last bucket only.
* A private series replaces a public one of the same key in a scrape.
* A family that has a series without labels and one with may be split by a family
  whose name continues its own, and is then announced twice; `OneHeadPerFamily`
  excepts it.

Logging
* A record logged under a subscription's context also goes to every by-level
  subscription (`logtee.go:126`), where `logtee/README.md:19-20` says that such records
  "go to that subscription alone". What the code keeps is the other direction: a
  context's subscription gets no other records.
* With stderr as the configured target an early warning is printed by the
  bootstrap tee and again by the flush (`logtee.go:91`).
* The level follows the swap of the base (`logging.go:99`): in between, records go to
  the new base at the old level. After a target failed and stderr took its
  place, the failed target's key is kept (`logging.go:105`), so that configuring the
  same again does nothing. `OneConfiguration` speaks of the time between calls and
  of the settings, whatever became of their target.

Rotation
* A record longer than `MaxSizeMB` is written whole to a file that is empty
  (`w.size > 0`, `rotate.go:58`), which is then larger than the limit; only the next
  one rotates it.
* `pruneAge` removes files in the order of their names (`rotate.go:130-141`), so `name.1`
  goes before the older `name.2`: between two removals, after a crash there, or when
  one fails, the files have a hole. What is missing in it is older than
  `MaxAgeDays`; the next rotation removes the rest. `NoHole` says so.
* An error of `Close` at the beginning of a rotation (`rotate.go:83-85`) ends it and
  refuses the record; the writer's file is closed then and every later write fails,
  as after a failed reopening.
* A crash while `name.1` is being compressed leaves a plain `name.1` no rotation
  shifts; the next one renames the live file over it (`rotate.go:96`). Where it
  stopped between filling `name.1.gz` and removing `name.1`, both hold the same
  records. Such crashes occur in the run; the tag "halfway" marks them.
* Three things break the order of the slots: compression that is switched on or
  off; a crash half-way in the compression; and, without compression, a rotation
  by the old writer between the opening of the new one and its taking over.
* A crash in the middle of a rotation makes the next one drop one backup more than
  it had to (`Restarts` in `Retention`).
* A smaller `MaxBackups` leaves the backups beyond it (`rotate.go:89`; `Lowered`).
* If the old writer rotates after `ConfigureLogging` opened the new one
  (`logging.go:83`), the new one's file has become a backup. `disturbed` marks it.

Daemon
* A `stop` that finds the state file created but not yet written takes it for stale
  and removes it (`default_main.go:694`), and an error of writing that file is dropped
  (`default_main.go:568`): either way `start` succeeds for a server no command can
  find. The write may also fail when the file has been created or truncated: it then
  stays empty, which leads nowhere either. Two overlapping starts end with two servers.
* A `start` that times out returns while its server goes on starting
  (`default_main.go:650-651`). A command that is run before that server is up or gone
  does not see it: a second `start` finds no state file, spawns a second server and may
  report it, and then the first one comes up and overwrites the file
  (`default_main.go:568`), so that there are two servers and the one reported is not the
  one that is found; a `stop` finds nothing to stop. The run has these behaviours
  (`hasty`).
* `SingleServer`, `StartedIsReachable` and `CallReaches` are therefore about commands run
  one after the other, a disk that works, and nothing run while the server of a
  start that timed out is still on its way (`Calm`). `ParentIsToldTruth` and
  `StartReturns` hold of all commands.
* A setup hook that hangs makes `start` hang: it runs in the parent, before the
  server is spawned and under no timeout (`default_main.go:522`).

Registration and commands
* A method that takes a struct without fields is accepted and listed, but no call of
  it succeeds: `handleRPC` passes the struct only when the method has arguments
  (`service.go:411-431`), and reflection panics over the missing parameter, for a
  function in the handler (500), for a generator on its own goroutine, which ends the
  process.
* The docs' own `IsGenerator` and `ReturnType` survive in the description
  (`service.go:230-239`, `293-302`). A function that the docs call a generator is given
  a channel it does not take, with the same two ends: 500 if it has arguments (there
  is no fourth parameter to make them for), otherwise the end of the process. A
  method without a result is accepted if the docs give it a type.
  `AllOrPrefix` names the two kinds of methods whose calls cannot succeed.
* Methods of a service registered after `MakeService` are served and listed, but not
  part of the version. Docs that come late move methods to another group all the
  same. A service that is refused keeps the methods before the bad one.
* Two Go names can have one dashed name (`GetURL`, `GetUrl`); the mux then panics
  when the second is registered.
* `dashedName` puts no dash right after a word of one letter ("GetXDays" becomes
  "get-xdays"), where the comment at `default_main.go:365-369` promises "get-x-days".
* A group that only a method named like a static command uses is shown without a
  command.

Converter
* Input that ends inside a value ends `Convert` without an error when the library
  reports `io.EOF` itself, and a number that is cut off comes out wrong. Both callers
  convert what the library's encoder wrote, so such input is not enumerated. Keys of
  a map that are no strings, NaN or infinite numbers (`%g`), and strings with control
  characters such as `\x01`, `\a` and `\v`, with invalid UTF-8 (`\xff`) or with runes that
  Go does not print (`\U...`), because strings are written with `%q`
  (`msgpack_to_json.go:176`), give a text that is not JSON. Such scalars are `Odd` in
  the model: `ConvertsExactly` says that all around them is as JSON has it, and that
  they stand there as Go prints them.
* A time is written with `%q`, in quotes (`msgpack_to_json.go:215`), where
  `TestTimestampRoundTrip` (`msgpack_to_json_test.go:132-136`) expects it without: the
  test and the code disagree. Quoted it is JSON, so the model has it as a scalar like
  others.

## Proofs

Assumptions: the named ASSUMEs of the modules (`FiniteCalls`: a server receives
finitely many calls, as the statements count them; `MaxItemsNat`; levels are
numbers below the sentinel; "nobody" is nobody; the shape of settings, of
parameters and of the services of a program; `FamiliesCut`: a family's name has no
brace, as `RenderOpenMetrics` cuts it there; the bounds are numbers) and, for
`MetricsBucketsExact`, a finite set of durations. Otherwise the theorems hold for any
calls, goroutines, callers, subscriptions, settings, commands, slots, lengths of records and
bounds. The premises that a property itself has (commands one after the other, an
undisturbed rotation) are those the runs check it under.

`RpcPromiseProofs`
* `PromiseTypeOK`; `PromiseCountAgrees`: `Answer` and `Count` each respect what the
  other did and `Choose` only adds to what a method has chosen, so the property is
  inductive with the type.
* `PromiseTallyExact`: each label's counter is the cardinality of the class of
  calls counted under it. A `Count` adds one call to one class (`CountAddsOne`,
  which uses the library's theorem about adding an element to a finite set).

`RpcCallProofs`
* `RpcTypeOK`.
* `RpcStatusSettled`: the strengthening the refinement needs. Whether the handler
  may count a call under `code` depends on how `code` came to be what it is many
  steps before: but for a code that the method has set, in the loop they are
  equal; a deferred call has an answer equal to its code, or none; a panic may find 200
  on the wire. `Settled` says this of a call for each value of `pc`, and it is
  inductive with the type: what a method sets at any time is remembered in `own`, and
  the label of a call is fixed while a generator may still set its code.
* `RpcKeepsPromise`: `Spec => Promise!Spec`. A step that commits a status is an
  `Answer` if nothing was committed, else a stutter (`CommitAnswers`); `CountCall`
  is a `Count`; all others stutter (`QuietStutters`). `UncountedSame`: a call before its
  accounting leaves what is counted as it was.
* `RpcTallyExact`: by refinement, from `PromiseTallyExact`.
* `RpcNoItemLost` and `RpcBlockedOnlyIfAbandoned` follow from `Handshake`: before the
  generator starts nothing was offered; in the loop, what was offered was taken
  unless the generator is in its send; after the loop the channel was seen closed
  with everything received, or the call fails, or the mux refused it. All this is
  said of a client that is still there. A step of one call leaves the others alone
  (`OthersKeep`).
* `RpcGotInOrder` and `RpcClosedIsComplete` speak of `RpcClient`. On the server's side
  `Written` says that the items of a body rise and that the text of an error can
  only be at its end; a body only grows (`Grows`). On the client's, `Relayed`: the
  application has exactly the items among the parts the stub has decoded. Neither
  is inductive without `Stub`, which bounds what was decoded by what was written,
  and says that the end of a body arrives only when its handler has returned.

`LogFanoutProofs`
* `FanoutNoChannelPanic`, from `Locked`: whoever is past `Lock` holds `hub.mu`, and the
  subscription it is about to send to is open, because `Close` needs the lock.
* `FanoutNoSilentLoss`: the gate is low enough for every open subscription
  (`GateIsLow`, which `recomputeMinLocked` restores whenever subscriptions come or go),
  and what is owed has been delivered or its log call has yet to come to it
  (`NothingSkipped`, by the place of the call and what its loop has visited).
* `FanoutOneOrder`: the record of the lock's holder stands nowhere but at the end of a
  feed and not yet in those it has still to come to, and all other records in the
  feeds are of calls that have left the lock (`Ordered`). Then giving it to one
  more feed keeps any two in one order (`AppendKeepsOrder`).
* `FanoutTypeOK`: with the parts of the type that the other proofs do not need
  (`RestTyped`).

`LogConfigProofs`
* `ConfigOneConfiguration` and `ConfigOnlyBaseOpen`: whoever is in `ConfigureLogging`
  holds `logMu`; until it makes a sink all is as the last call left it (`Settled`),
  after that there is one sink more, open, of its settings (`Made`), and `Progress`
  says which of base, level and key are the new ones at each of its steps.
* `ConfigNothingLost`, `ConfigUrgentVisible` and `ConfigLinesInOrder`, from `RInv`.
  `Conserved` says where each record is; a flush empties the buffer in one step and
  replays it in others, so `Phases` says who holds `hub.mu` then and what the buffer
  and the base are. For the order, what waits in the buffer or the flush rises and
  was handled under the bootstrap base (`Waiting`), and the sink it will go to is
  still empty (`NewSinksEmpty`). What a flush keeps of a sequence is a recursive
  function; that it keeps the right records in order (`PassingKeeps`) is shown by
  the least index where it would not, as the library's induction cannot be used.
* `ConfigTypeOK`, from `TInv`: that the records and the sinks keep to their bounds needs
  to be known of both together, because a configuration that fails logs a warning
  of its own and opens a sink in its place: one warning, at most, for each sink, and
  it comes before that sink (`Room`).

`DaemonProofs`
* `DaemonTellsTruth`: `PipeTells` relates where a parent is, what its pipe holds and
  where its child is. A byte on the pipe says that the child was ready, and a child
  that was ready serves until it is signalled or killed. It holds in every scenario.
* `DaemonTypeOK`: that the inodes never run out needs a count: each was made by a
  server in its one step to "write", and there are no more servers than starts.
* `DaemonSingleServer` and `DaemonStartedIsReachable`, from `CalmInv`, under the premise
  of the properties: commands one after the other, state files that can be written,
  and no command before the server of a timed-out start is up or gone. Such a server
  is the only one that is not waited for, and what a later command could do to it is
  what `hasty` records.
  At most one start, stop or call is under way, a start with its server counting
  as one (`OneActor`). A server's file names it from the writing on (`FileNames`);
  who found no live server knows that there is none until it starts one
  (`ClearFirst`); what a `stop` has read is still so, or the file is gone
  (`SeenIsFile`); and the inode a server is about to write is the one with the name
  (`WritesFile`).
* `DaemonCallReaches`: `DueInv` says of each command which servers it must find, and
  that one which has read the file has read one of those.

`MetricsProofs`
* `MetricsScrapeConsistent`: in a store, calls made are calls timed and those between
  the two, of which there may be none (the cardinality of `Between`, finite however
  many callers there are, because only finitely many calls have begun: `Busy`); a copy of a store
  is one of its states; and a label's counter and histogram are in one store, so
  that no copy mixes two moments. That a sample always counts in the last slot
  (`LastSlotCountsAll`) is shown for any duration.
* `MetricsTypeOK`, from `TInv`: no counter is beyond the calls that were served
  (`Filled`), and the samples taken, with those still due, are no more than that
  (`Tallied`).
* `MetricsSkippedIsImplied`: every histogram there can be is cumulative (`HInv`), and
  of a cumulative one a slot that is left out is equal to the one shown before it,
  or zero (`RecoversAll`). Whether a slot is shown depends on whether one before it
  was; that this is well defined, and what it comes to, is shown by least indices.
* `MetricsBucketsExact`, from `BInv`: each histogram is exact for what was sampled under
  its labels. A sample counts in slot `i` if and only if it is positive and at most
  `2^(i+3)` (`BucketBound`): powers of two rise, as a set of `n` elements has `2^n`
  subsets (`PowersRise`), so those below a number are an initial segment, as long as
  `CeilLog2` counts (`InitialSegment`). A sum over a finite set is the number of pairs that
  stand for it (`SumIsPairs`), which is one way to show that the recursive sum of the
  community modules exists, is unique, and grows by what is added (`SumGrows`).
* `MetricsOneHeadPerFamily`, from `OInv`: what is rendered is a finite set of keys, sorted.
  `Before` orders texts strictly, transitively and totally, at the first rune at
  which they differ; no two keys have one text (`TextsDiffer`); so the number of keys
  before a key is its place (`SortedHasAll`), and what stands between two texts begins
  as both do (`BetweenAgrees`). A key between two of a family with labels begins with that
  family's name and a brace, so it is of the family (`FamilyStaysTogether`).

`RotatingWriterProofs`
* `RotateLiveBounded` and `RotateSlotsInOrder`, from `IInv`. No file has two names
  (`NoAlias`), which renaming keeps; only the writer in use is in `Write` (`Places`);
  its `size` is the length of its file, its file is the live one, and a record it is
  about to write fits or comes into an empty file (`LiveInv`). `LiveBounded` is a
  property of steps: a live file that is too long may come of an earlier writer with a
  larger limit, but is not made longer. `OrderInv` adds to the order what a writer may
  do to it next: which names exist, and that a file moved away from under a waiting
  writer is gone before that one writes. While `name.1.gz` is being filled (`Gzipped`)
  it holds nothing or what `name.1` does; a failure before it is created leaves
  `name.1` beside an older one, which the tag "halfway" or "failed" marks.
* `RotateBackupsBounded`: the names in use are within the `MaxBackups` of a writer that
  was in use (`KInv`), and a rotation leaves an injection of them into
  `1 .. MaxBackups`.
* `RotateNoHole` and `RotateRetention`, from `RemovalInv`. Neither can be seen from one
  step: a file is removed before the slots shift and the live file makes room, and
  a crash may come anywhere between. So `Staged` says which slot is empty at each
  place in a rotation; `Far`, how many units have been written since those of
  a slot: as fill the slots below it and, before it is shifted, the live file,
  less one file for each restart; `Younger`, that a file was last changed before the
  units of a younger one were written, for the pruning by age; `Lost`, that a
  unit that is gone was older than the cutoff or than `MaxBackups` files of some
  writer. A file counts for what it holds at least when it is rotated, `Worth` (a
  rotation comes when the next record does not fit, and a record is no longer than
  `Longest`), of any of the configurations: that there is a least one is shown from
  the well-foundedness of the numbers (`Least`). The live file counts for its length,
  up to that (`Share`). `Whole` is the conclusion of `NoHole`: between a unit that is
  there and the newest all are, or, while `pruneAge` is removing and after a crash
  there, those that are not are old enough (`Excused`). That needs to know what
  `pruneAge` has still to remove: names of files last changed before the cutoff, and
  older than any it leaves (`Dooms`).
* `RotateTypeOK`: a file's records are those written so far (`Dated`), so a file is
  never longer than all that was written, nor is what a writer takes for its
  length (`Counters`).

`RegistryProofs`
* `RegistrationListedIsCallable` and `RegistrationAllOrPrefix`, for any services with any
  number of methods of any shape, from `IInv`. `Routed`: what the mux calls has been
  passed, is of a shape and has a type to return, has the name it is under and stands
  before any method of its service that is refused. `ManifestMatches`: the manifest lists
  the same names and says the same of them, which the regrouping by docs has to leave so.
  `Passed`: of the present service, each method that was passed is in the mux; of
  an earlier one, each up to the first bad one. `Failed`: `MakeService` has failed only if
  the service before the present one has a bad method. That the conditions of
  `RegisterService` accept exactly the four shapes that `handleRPC` knows is a lemma
  about sequences (`AcceptedIsShape`); which parameters it then passes to a method
  (`CallArgs`) depends on the description, that is on the docs and the fields of the
  struct, and a method gets those it takes if and only if it is of neither exception.
* `RegistrationCommandsMatchManifest`, from `CInv`: before the manifest is added the
  commands are `start` and `stop`, and afterwards no other step than adding it again is
  left. `AddCommands` and `AddGroups` are folds and the declared groups are joined from
  those of each service: that such functions exist is shown once for any step
  (`FoldExists`, `Flattened`), by taking one element more at a time, and the property of
  what the fold has made so far (`MadeOf`, `GroupedBy`) is kept by each element.
* `RegistrationTypeOK`.
* `RegistryConvertsExactly`, from `VInv`. That the converter has written a beginning
  of the right text says nothing of what it will write next: this depends on its
  stack, where a call knows how many items it has still to read, but not which. `VInv`
  says that there is a sequence of frames, one for each call that has not returned
  and one for `Convert` itself, each with the items that its call has not come to
  (`Chain`), such that the input is what the encoder wrote for all of these and the
  output, followed by their texts and the brackets still open, is the whole text
  (`Reads`, `Wrote`); and that each call's count and its turn of key or value are
  those of its frame (`Counts`). The frames are in no variable: the head of an
  array or a map adds one (`ChainPush`), its end takes one away (`ChainPop`), and
  between two items the top one changes (`ChainChange`). All this is said of what the
  output would be if Go printed every scalar as JSON; the output itself differs from
  that only where an odd scalar stands (`OInv`).
* `RegistrySameVersion`, from `VInv` and `MInv`. While kettlingar's own services and the
  first of the application register, the manifest has the methods so far in their
  order (`Matches`), each with the group that the docs so far give it (`Grouped`);
  within the docs of one service, in any order, the names that are left may have
  the earlier group. A new name has no earlier group, because the docs of
  kettlingar's services name nothing but what those services serve (`OwnListed`).
  So what is encoded is what `Manifest` says of the services (`ManifestIs`), and the
  converter writes its JSON.

Of a value and its encoding and text the proofs assume one level: `Encode` and `Json`
are constants, and `EncodeRule` and `JsonRule` say how each is made from those of a
value's items. `MCRegistry` gives them the recursive definitions, which TLC finds to
satisfy these assumptions. `DataNested`: `Data` has the items of its values.
`SamplesKnown` and `ManifestsKnown`: what clients convert, and the manifests that
programs give, are in `Data`. Which scalars are `Odd` is left open, but for the type
code and the bytes of an extension, which are not.

Only model-checked: liveness (`DisconnectFreesHandler`, `StubEnds`, `LoggingReturns`,
`ConfigureReturns`, `StartReturns`), which this proof system does not do. Every safety
property that a run checks is a theorem.

## Not modelled

* Syslog: one message per record over a socket, under a lock that the fan-out's
  lock already implies. The data directory: two computations of paths. The
  example: no logic of the framework.
* The command line's parsing of arguments into a struct, its flags for the service
  and the printing of replies. A flag that collides with another, and
  `ServiceBackground`.
* Within the modelled parts: the bytes of encodings and the widths of numbers, the
  wording of log lines and of HTTP replies, time stamps, Help and Type texts and the
  escaping of labels in metrics; a pid that is used again; a listener that fails after
  the server was ready; a write of the server that blocks on a slow client; a method
  that writes to `ri.Writer` itself, or changes its `RequestInfo` otherwise than by
  `HttpCode`; an `fstat` of the log file that fails (`rotate.go:49` then takes the file
  for empty); the order in which `pruneAge` goes through the names, which is left open.
* Three hazards have no property: the panic on a generator's goroutine and commands
  that overlap a `stop`, where the code does nothing against it, and the crash while a
  backup is being compressed, after which the order of the slots is not kept. All
  three are modelled.

## Plan

Done: every component with state is modelled and checked; every safety property that a
run checks is proved, and so is each module's type invariant. What is left is to
show that `LogConfig`'s `Handle` is what `LogFanout` does under its lock, as a refinement.
