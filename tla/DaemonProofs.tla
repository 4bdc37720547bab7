---------------------------- MODULE DaemonProofs ----------------------------
(* The safety of Daemon, for any number of starts, stops, calls and kills:   *)
(* what `start` reports is so, in every scenario; and when commands do not   *)
(* overlap there is one server, its state file names it, and calls reach it. *)
EXTENDS Daemon, FiniteSetTheorems, TLAPS

PipeStatus == {"none", "open", "OK", "ERR", "eof"}

(* The part of the type that the argument needs. *)
Typed ==
  /\ pc \in [Procs -> ProcPC]
  /\ pipe \in [Starts -> PipeStatus]
  /\ kills \in Nat

(* A server that has said it is ready. *)
WasReady(p) ==
  \/ pc[Srv(p)] = "serve"
  \/ p \in term /\ pc[Srv(p)] \in {"shutdown", "remove", "dead"}
  \/ pc[Srv(p)] = "dead" /\ kills > 0

(* There is no server before it is spawned, and none after a failure; what   *)
(* is on the pipe is what became of it; and the parent has read that.        *)
PipeTells(p) ==
  /\ pc[Cli(p)] \in {"idle", "look", "probe", "signal", "unlink", "setup", "spawn", "running"}
       => pc[Srv(p)] = "none" /\ pipe[p] = "none"
  /\ pc[Cli(p)] = "wait" => pipe[p] # "none"
  /\ pc[Cli(p)] = "failed" => pc[Srv(p)] \in {"none", "dead"}
  /\ pc[Cli(p)] = "ok" => pipe[p] = "OK"
  /\ pipe[p] = "OK" => WasReady(p)

IInv == Typed /\ \A p \in Starts : PipeTells(p)

-----------------------------------------------------------------------------

(* The processes of starts, servers, stops and calls are different ones. *)
LEMMA Distinct ==
  ASSUME NEW p, NEW q
  PROVE  /\ Cli(p) = Cli(q) <=> p = q
         /\ Srv(p) = Srv(q) <=> p = q
         /\ Cli(p) # Srv(q)
         /\ Stp(p) # Cli(q) /\ Stp(p) # Srv(q)
         /\ Cmd(p) # Cli(q) /\ Cmd(p) # Srv(q)
BY DEF Cli, Srv, Stp, Cmd

LEMMA InProcs ==
  /\ \A p \in Starts : Cli(p) \in Procs /\ Srv(p) \in Procs
  /\ \A q \in 1 .. MaxStops : Stp(q) \in Procs
  /\ \A c \in 1 .. MaxCalls : Cmd(c) \in Procs
BY DEF Procs, Cli, Srv, Stp, Cmd

(* What a start does not touch stays as PipeTells has it. *)
LEMMA Untouched ==
  ASSUME NEW p \in Starts, PipeTells(p), kills \in Nat,
         pc'[Cli(p)] = pc[Cli(p)], pc'[Srv(p)] = pc[Srv(p)], pipe'[p] = pipe[p],
         term \subseteq term', kills' \in Nat, kills' >= kills
  PROVE  PipeTells(p)'
BY DEF PipeTells, WasReady

(* A step of a process that is neither a start nor a server. *)
LEMMA OtherStep ==
  ASSUME IInv, NEW x \in Procs, NEW from, NEW to \in ProcPC, Step(x, from, to),
         \A p \in Starts : x # Cli(p) /\ x # Srv(p),
         UNCHANGED <<pipe, kills>>, term \subseteq term'
  PROVE  IInv'
<1>1. pc' \in [Procs -> ProcPC]
  BY DEF IInv, Typed, Step
<1>2. ASSUME NEW p \in Starts PROVE PipeTells(p)'
  <2>1. pc'[Cli(p)] = pc[Cli(p)] /\ pc'[Srv(p)] = pc[Srv(p)]
    BY InProcs DEF IInv, Typed, Step
  <2> QED BY <2>1, Untouched DEF IInv, Typed
<1> QED BY <1>1, <1>2 DEF IInv, Typed

(* A step of a start that leaves its pipe alone. *)
LEMMA ParentMoves ==
  ASSUME IInv, NEW p \in Starts, NEW from, NEW to \in ProcPC, Step(Cli(p), from, to),
         UNCHANGED <<pipe, kills>>, term \subseteq term',
         (pc[Cli(p)] = from /\ PipeTells(p) /\ pc' = [pc EXCEPT ![Cli(p)] = to]
            /\ pc'[Cli(p)] = to /\ pc'[Srv(p)] = pc[Srv(p)] /\ UNCHANGED pipe[p]) => PipeTells(p)'
  PROVE  IInv'
<1>1. pc' \in [Procs -> ProcPC]
  BY InProcs DEF IInv, Typed, Step
<1>2. ASSUME NEW q \in Starts PROVE PipeTells(q)'
  <2>1. pc'[Srv(q)] = pc[Srv(q)]
    BY InProcs, Distinct DEF IInv, Typed, Step
  <2>2. CASE q = p
    BY <2>1, <2>2, InProcs DEF IInv, Typed, Step
  <2>3. CASE q # p
    <3>1. pc'[Cli(q)] = pc[Cli(q)]
      BY <2>3, InProcs, Distinct DEF IInv, Typed, Step
    <3> QED BY <2>1, <3>1, Untouched DEF IInv, Typed
  <2> QED BY <2>2, <2>3
<1> QED BY <1>1, <1>2 DEF IInv, Typed

(* A step of a server: it says something on its pipe only once, and only     *)
(* when it is so.                                                            *)
LEMMA ServerMoves ==
  ASSUME IInv, NEW p \in Starts, NEW to \in ProcPC, Alive(p),
         pc' = [pc EXCEPT ![Srv(p)] = to], to # "none",
         pipe' = pipe \/ EofOn(p) \/ SignalReady(p, "ERR") \/ SignalReady(p, "OK"),
         pipe'[p] = "OK" => WasReady(p)',
         term \subseteq term', kills' \in Nat, kills' >= kills
  PROVE  IInv'
<1>1. pc' \in [Procs -> ProcPC] /\ pipe' \in [Starts -> PipeStatus]
  BY InProcs DEF IInv, Typed, PipeStatus, EofOn, SignalReady
<1>2. ASSUME NEW q \in Starts PROVE PipeTells(q)'
  <2>1. pc'[Cli(q)] = pc[Cli(q)]
    BY InProcs, Distinct DEF IInv, Typed
  <2>2. CASE q = p
    <3>1. pc[Srv(p)] \notin {"none", "dead"} /\ pc'[Srv(p)] = to
      BY InProcs DEF Alive, IInv, Typed
    <3>2. pipe'[p] = pipe[p] \/ (pipe[p] = "open" /\ pipe'[p] \in {"OK", "ERR", "eof"})
      BY DEF IInv, Typed, EofOn, SignalReady
    <3> QED BY <2>1, <2>2, <3>1, <3>2 DEF PipeTells, IInv
  <2>3. CASE q # p
    <3>1. pc'[Srv(q)] = pc[Srv(q)] /\ pipe'[q] = pipe[q]
      BY <2>3, InProcs, Distinct DEF IInv, Typed, EofOn, SignalReady
    <3> QED BY <2>1, <3>1, Untouched DEF IInv, Typed
  <2> QED BY <2>2, <2>3
<1> QED BY <1>1, <1>2 DEF IInv, Typed

-----------------------------------------------------------------------------

LEMMA InitIInv == Init => IInv
<1> SUFFICES ASSUME Init PROVE IInv
  OBVIOUS
<1>1. Typed
  BY DEF Init, Typed, ProcPC, Returned, PipeStatus
<1>2. ASSUME NEW p \in Starts PROVE PipeTells(p)
  BY InProcs DEF Init, PipeTells, Cli, Srv
<1> QED BY <1>1, <1>2 DEF IInv

LEMMA StepIInv == IInv /\ [Next]_vars => IInv'
<1> SUFFICES ASSUME IInv, [Next]_vars PROVE IInv'
  OBVIOUS
<1> USE DEF Move, state, past, ProcPC, Starting, Calling, Bound, Listening, Returned, Waiting
<1>0. /\ \A q \in 1 .. MaxStops :
           Stp(q) \in Procs /\ \A p \in Starts : Stp(q) # Cli(p) /\ Stp(q) # Srv(p)
      /\ \A c \in 1 .. MaxCalls :
           Cmd(c) \in Procs /\ \A p \in Starts : Cmd(c) # Cli(p) /\ Cmd(c) # Srv(p)
      /\ kills \in Nat
  BY InProcs, Distinct DEF IInv, Typed
<1>1. ASSUME NEW p \in Starts, Look(Cli(p)) PROVE IInv'
  <2>1. PICK to \in {"setup", "probe"} :
            Step(Cli(p), "look", to) /\ UNCHANGED <<pipe, kills, term>>
    BY <1>1 DEF Look, Free, Cli
  <2> QED BY <2>1, ParentMoves DEF PipeTells, WasReady
<1>2. ASSUME NEW p \in Starts, Look(Srv(p)) PROVE IInv'
  <2>1. PICK to \in {"setup", "probe"} :
            Step(Srv(p), "look", to) /\ UNCHANGED <<pipe, kills, term>>
    BY <1>2 DEF Look, Free, Srv
  <2>2. pipe[p] # "OK"
    BY <2>1, <1>2 DEF IInv, PipeTells, WasReady, Step
  <2>3. /\ Alive(p) /\ pc' = [pc EXCEPT ![Srv(p)] = to] /\ to \in ProcPC /\ to # "none"
        /\ term \subseteq term' /\ kills' \in Nat /\ kills' >= kills
    BY <1>0, <2>1 DEF Step, Alive
  <2> QED BY <2>1, <2>2, <2>3, ServerMoves
<1>3. ASSUME NEW q \in 1 .. MaxStops, Look(Stp(q)) PROVE IInv'
  <2>1. PICK to \in {"exit", "setup", "probe"} :
            Step(Stp(q), "look", to) /\ UNCHANGED <<pipe, kills, term>>
    BY <1>3 DEF Look, Free
  <2> QED BY <1>0, <2>1, OtherStep
<1>4. ASSUME NEW p \in Starts, ReadState(Cli(p)) PROVE IInv'
  <2>1. PICK to \in {"setup", "unlink", "signal"} :
            Step(Cli(p), "probe", to) /\ UNCHANGED <<pipe, kills, term>>
    BY <1>4 DEF ReadState, ReadStateOr, Free, Cli
  <2> QED BY <2>1, ParentMoves DEF PipeTells, WasReady
<1>5. ASSUME NEW p \in Starts, ReadState(Srv(p)) PROVE IInv'
  <2>1. PICK to \in {"setup", "unlink", "signal"} :
            Step(Srv(p), "probe", to) /\ UNCHANGED <<pipe, kills, term>>
    BY <1>5 DEF ReadState, ReadStateOr, Free, Srv
  <2>2. pipe[p] # "OK"
    BY <2>1, <1>5 DEF IInv, PipeTells, WasReady, Step
  <2>3. /\ Alive(p) /\ pc' = [pc EXCEPT ![Srv(p)] = to] /\ to \in ProcPC /\ to # "none"
        /\ term \subseteq term' /\ kills' \in Nat /\ kills' >= kills
    BY <1>0, <2>1 DEF Step, Alive
  <2> QED BY <2>1, <2>2, <2>3, ServerMoves
<1>6. ASSUME NEW q \in 1 .. MaxStops, ReadState(Stp(q)) PROVE IInv'
  <2>1. PICK to \in {"exit", "setup", "unlink", "signal"} :
            Step(Stp(q), "probe", to) /\ UNCHANGED <<pipe, kills, term>>
    BY <1>6 DEF ReadState, ReadStateOr, Free
  <2> QED BY <1>0, <2>1, OtherStep
<1>7. ASSUME NEW p \in Starts, SignalFails(Cli(p)) PROVE IInv'
  <2>1. Step(Cli(p), "signal", "unlink") /\ UNCHANGED <<pipe, kills, term>>
    BY <1>7 DEF SignalFails, Cli
  <2> QED BY <2>1, ParentMoves DEF PipeTells, WasReady
<1>8. ASSUME NEW p \in Starts, SignalFails(Srv(p)) PROVE IInv'
  <2>1. Step(Srv(p), "signal", "unlink") /\ UNCHANGED <<pipe, kills, term>>
    BY <1>8 DEF SignalFails, Srv
  <2>2. pipe[p] # "OK"
    BY <2>1, <1>8 DEF IInv, PipeTells, WasReady, Step
  <2>3. /\ Alive(p) /\ pc' = [pc EXCEPT ![Srv(p)] = "unlink"]
        /\ "unlink" \in ProcPC /\ "unlink" # "none"
        /\ term \subseteq term' /\ kills' \in Nat /\ kills' >= kills
    BY <1>0, <2>1 DEF Step, Alive
  <2> QED BY <2>1, <2>2, <2>3, ServerMoves
<1>9. ASSUME NEW q \in 1 .. MaxStops, SignalFails(Stp(q)) PROVE IInv'
  <2>1. Step(Stp(q), "signal", "unlink") /\ UNCHANGED <<pipe, kills, term>>
    BY <1>9 DEF SignalFails
  <2> QED BY <1>0, <2>1, OtherStep
<1>10. ASSUME NEW p \in Starts, RemoveStale(Cli(p)) PROVE IInv'
  <2>1. Step(Cli(p), "unlink", "setup") /\ UNCHANGED <<pipe, kills, term>>
    BY <1>10 DEF RemoveStale, Unlink, Free, Cli
  <2> QED BY <2>1, ParentMoves DEF PipeTells, WasReady
<1>11. ASSUME NEW p \in Starts, RemoveStale(Srv(p)) PROVE IInv'
  <2>1. Step(Srv(p), "unlink", "setup") /\ UNCHANGED <<pipe, kills, term>>
    BY <1>11 DEF RemoveStale, Unlink, Free, Srv
  <2>2. pipe[p] # "OK"
    BY <2>1, <1>11 DEF IInv, PipeTells, WasReady, Step
  <2>3. /\ Alive(p) /\ pc' = [pc EXCEPT ![Srv(p)] = "setup"]
        /\ "setup" \in ProcPC /\ "setup" # "none"
        /\ term \subseteq term' /\ kills' \in Nat /\ kills' >= kills
    BY <1>0, <2>1 DEF Step, Alive
  <2> QED BY <2>1, <2>2, <2>3, ServerMoves
<1>12. ASSUME NEW q \in 1 .. MaxStops, RemoveStale(Stp(q)) PROVE IInv'
  <2>1. PICK to \in {"exit", "setup"} :
            Step(Stp(q), "unlink", to) /\ UNCHANGED <<pipe, kills, term>>
    BY <1>12 DEF RemoveStale, Unlink, Free
  <2> QED BY <1>0, <2>1, OtherStep
<1>13. ASSUME NEW p \in Starts, Start(p) PROVE IInv'
  <2>1. Step(Cli(p), "idle", "look") /\ UNCHANGED <<pipe, kills, term>>
    BY <1>13 DEF Start, Issue, Step
  <2> QED BY <2>1, ParentMoves DEF PipeTells, WasReady
<1>14. ASSUME NEW p \in Starts, ProbeFinds(p) PROVE IInv'
  <2>1. Step(Cli(p), "signal", "running") /\ UNCHANGED <<pipe, kills, term>>
    BY <1>14 DEF ProbeFinds
  <2> QED BY <2>1, ParentMoves DEF PipeTells, WasReady
<1>15. ASSUME NEW p \in Starts, NEW ok \in BOOLEAN, SetupParent(p, ok) PROVE IInv'
  <2>1. PICK to \in {"spawn", "failed"} :
            Step(Cli(p), "setup", to) /\ UNCHANGED <<pipe, kills, term>>
    BY <1>15 DEF SetupParent
  <2> QED BY <2>1, ParentMoves DEF PipeTells, WasReady
<1>16. ASSUME NEW p \in Starts, SpawnFails(p) PROVE IInv'
  <2>1. Step(Cli(p), "spawn", "failed") /\ UNCHANGED <<pipe, kills, term>>
    BY <1>16 DEF SpawnFails
  <2> QED BY <2>1, ParentMoves DEF PipeTells, WasReady
<1>17. ASSUME NEW p \in Starts, AwaitTimeout(p) PROVE IInv'
  <2>1. Step(Cli(p), "wait", "timeout") /\ UNCHANGED <<pipe, kills, term>>
    BY <1>17 DEF AwaitTimeout
  <2> QED BY <2>1, ParentMoves DEF PipeTells, WasReady
<1>18. ASSUME NEW p \in Starts, AwaitChild(p) PROVE IInv'
  <2>1. \/ Step(Cli(p), "wait", "ok") /\ pipe[p] = "OK"
        \/ Step(Cli(p), "wait", "failed") /\ pc[Srv(p)] = "dead"
    BY <1>18 DEF AwaitChild, AwaitOr
  <2>2. UNCHANGED <<pipe, kills, term>>
    BY <1>18 DEF AwaitChild, AwaitOr
  <2> QED BY <2>1, <2>2, ParentMoves DEF PipeTells, WasReady
<1>19. ASSUME NEW p \in Starts, NEW at \in {"wait", "byhand"}, NEW word \in {"open", "none"},
            pc[Cli(p)] \in {"idle", "spawn"},
            pc' = [pc EXCEPT ![Cli(p)] = at, ![Srv(p)] = "look"],
            pipe' = [pipe EXCEPT ![p] = word], at = "wait" => word = "open",
            UNCHANGED <<term, kills>>
     PROVE  IInv'
  <2>1. pc' \in [Procs -> ProcPC] /\ pipe' \in [Starts -> PipeStatus]
    BY <1>19 DEF IInv, Typed, PipeStatus
  <2>2. ASSUME NEW q \in Starts PROVE PipeTells(q)'
    <3>1. CASE q = p
      BY <1>19, <3>1, InProcs, Distinct DEF IInv, Typed, PipeTells, WasReady
    <3>2. CASE q # p
      <4>1. pc'[Cli(q)] = pc[Cli(q)] /\ pc'[Srv(q)] = pc[Srv(q)] /\ pipe'[q] = pipe[q]
        BY <1>19, <3>2, InProcs, Distinct DEF IInv, Typed
      <4>2. term \subseteq term' /\ kills' \in Nat /\ kills' >= kills /\ kills \in Nat
        BY <1>19, <1>0
      <4> QED BY <4>1, <4>2, Untouched DEF IInv
    <3> QED BY <3>1, <3>2
  <2> QED BY <1>19, <2>1, <2>2 DEF IInv, Typed
<1>20. ASSUME NEW p \in Starts, Spawn(p) PROVE IInv'
  BY <1>20, <1>19 DEF Spawn
<1>21. ASSUME NEW p \in Starts, StartForeground(p) PROVE IInv'
  <2>1. pipe[p] = "none" /\ pipe \in [Starts -> PipeStatus]
    BY <1>21 DEF StartForeground, Issue, IInv, Typed, PipeTells
  <2>2. pipe' = [pipe EXCEPT ![p] = "none"]
    BY <1>21, <2>1 DEF StartForeground, Issue
  <2> QED BY <1>21, <2>2, <1>19 DEF StartForeground, Issue
<1>22. ASSUME NEW p \in Starts, ServerFinds(p) PROVE IInv'
  <2>1. Step(Srv(p), "signal", "dead") /\ UNCHANGED <<kills, term>>
    BY <1>22 DEF ServerFinds
  <2>2. pipe' = pipe \/ EofOn(p)
    BY <1>22 DEF ServerFinds
  <2>3. pipe[p] # "OK"
    BY <2>1 DEF IInv, PipeTells, WasReady, Step
  <2>4. pipe'[p] # "OK"
    BY <2>2, <2>3 DEF IInv, Typed, EofOn, SignalReady
  <2>5. /\ Alive(p) /\ pc' = [pc EXCEPT ![Srv(p)] = "dead"]
        /\ "dead" \in ProcPC /\ "dead" # "none"
        /\ term \subseteq term' /\ kills' \in Nat /\ kills' >= kills
    BY <1>0, <2>1 DEF Step, Alive
  <2> QED BY <2>1, <2>2, <2>4, <2>5, ServerMoves
<1>23. ASSUME NEW p \in Starts, NEW ok \in BOOLEAN, SetupServer(p, ok) PROVE IInv'
  <2>1. PICK to \in {"startup", "dead"} :
            Step(Srv(p), "setup", to) /\ UNCHANGED <<kills, term>>
    BY <1>23 DEF SetupServer
  <2>2. pipe' = pipe \/ EofOn(p)
    BY <1>23 DEF SetupServer
  <2>3. pipe[p] # "OK"
    BY <2>1 DEF IInv, PipeTells, WasReady, Step
  <2>4. pipe'[p] # "OK"
    BY <2>2, <2>3 DEF IInv, Typed, EofOn, SignalReady
  <2>5. /\ Alive(p) /\ pc' = [pc EXCEPT ![Srv(p)] = to] /\ to \in ProcPC /\ to # "none"
        /\ term \subseteq term' /\ kills' \in Nat /\ kills' >= kills
    BY <1>0, <2>1 DEF Step, Alive
  <2> QED BY <2>1, <2>2, <2>4, <2>5, ServerMoves
<1>24. ASSUME NEW p \in Starts, NEW ok \in BOOLEAN, StartupHooks(p, ok) PROVE IInv'
  <2>1. PICK to \in {"listen", "exiting"} :
            Step(Srv(p), "startup", to) /\ UNCHANGED <<kills, term>>
    BY <1>24 DEF StartupHooks, Attempt
  <2>2. pipe' = pipe \/ SignalReady(p, "ERR")
    BY <1>24 DEF StartupHooks, Attempt
  <2>3. pipe[p] # "OK"
    BY <2>1 DEF IInv, PipeTells, WasReady, Step
  <2>4. pipe'[p] # "OK"
    BY <2>2, <2>3 DEF IInv, Typed, EofOn, SignalReady
  <2>5. /\ Alive(p) /\ pc' = [pc EXCEPT ![Srv(p)] = to] /\ to \in ProcPC /\ to # "none"
        /\ term \subseteq term' /\ kills' \in Nat /\ kills' >= kills
    BY <1>0, <2>1 DEF Step, Alive
  <2> QED BY <2>1, <2>2, <2>4, <2>5, ServerMoves
<1>25. ASSUME NEW p \in Starts, NEW ok \in BOOLEAN, Listen(p, ok) PROVE IInv'
  <2>1. PICK to \in {"create", "exiting"} :
            Step(Srv(p), "listen", to) /\ UNCHANGED <<kills, term>>
    BY <1>25 DEF Listen, Attempt
  <2>2. pipe' = pipe \/ SignalReady(p, "ERR")
    BY <1>25 DEF Listen, Attempt
  <2>3. pipe[p] # "OK"
    BY <2>1 DEF IInv, PipeTells, WasReady, Step
  <2>4. pipe'[p] # "OK"
    BY <2>2, <2>3 DEF IInv, Typed, EofOn, SignalReady
  <2>5. /\ Alive(p) /\ pc' = [pc EXCEPT ![Srv(p)] = to] /\ to \in ProcPC /\ to # "none"
        /\ term \subseteq term' /\ kills' \in Nat /\ kills' >= kills
    BY <1>0, <2>1 DEF Step, Alive
  <2> QED BY <2>1, <2>2, <2>4, <2>5, ServerMoves
<1>26. ASSUME NEW p \in Starts, Exit(p) PROVE IInv'
  <2>1. Step(Srv(p), "exiting", "dead") /\ UNCHANGED <<kills, term>>
    BY <1>26 DEF Exit
  <2>2. pipe' = pipe
    BY <1>26 DEF Exit
  <2>3. pipe[p] # "OK"
    BY <2>1 DEF IInv, PipeTells, WasReady, Step
  <2>4. pipe'[p] # "OK"
    BY <2>2, <2>3 DEF IInv, Typed, EofOn, SignalReady
  <2>5. /\ Alive(p) /\ pc' = [pc EXCEPT ![Srv(p)] = "dead"]
        /\ "dead" \in ProcPC /\ "dead" # "none"
        /\ term \subseteq term' /\ kills' \in Nat /\ kills' >= kills
    BY <1>0, <2>1 DEF Step, Alive
  <2> QED BY <2>1, <2>2, <2>4, <2>5, ServerMoves
<1>27. ASSUME NEW p \in Starts, CreateState(p) PROVE IInv'
  <2>1. Step(Srv(p), "create", "write") /\ UNCHANGED <<kills, term>>
    BY <1>27 DEF CreateState
  <2>2. pipe' = pipe
    BY <1>27 DEF CreateState
  <2>3. pipe[p] # "OK"
    BY <2>1 DEF IInv, PipeTells, WasReady, Step
  <2>4. pipe'[p] # "OK"
    BY <2>2, <2>3 DEF IInv, Typed, EofOn, SignalReady
  <2>5. /\ Alive(p) /\ pc' = [pc EXCEPT ![Srv(p)] = "write"]
        /\ "write" \in ProcPC /\ "write" # "none"
        /\ term \subseteq term' /\ kills' \in Nat /\ kills' >= kills
    BY <1>0, <2>1 DEF Step, Alive
  <2> QED BY <2>1, <2>2, <2>4, <2>5, ServerMoves
<1>28. ASSUME NEW p \in Starts, WriteState(p) PROVE IInv'
  <2>1. Step(Srv(p), "write", "ready") /\ UNCHANGED <<kills, term>>
    BY <1>28 DEF WriteState
  <2>2. pipe' = pipe
    BY <1>28 DEF WriteState
  <2>3. pipe[p] # "OK"
    BY <2>1 DEF IInv, PipeTells, WasReady, Step
  <2>4. pipe'[p] # "OK"
    BY <2>2, <2>3 DEF IInv, Typed, EofOn, SignalReady
  <2>5. /\ Alive(p) /\ pc' = [pc EXCEPT ![Srv(p)] = "ready"]
        /\ "ready" \in ProcPC /\ "ready" # "none"
        /\ term \subseteq term' /\ kills' \in Nat /\ kills' >= kills
    BY <1>0, <2>1 DEF Step, Alive
  <2> QED BY <2>1, <2>2, <2>4, <2>5, ServerMoves
<1>29. ASSUME NEW p \in Starts, WriteStateFails(p) PROVE IInv'
  <2>1. PICK from \in {"create", "write"} :
            Step(Srv(p), from, "ready") /\ UNCHANGED <<kills, term>>
    BY <1>29 DEF WriteStateFails
  <2>2. pipe' = pipe
    BY <1>29 DEF WriteStateFails
  <2>3. pipe[p] # "OK"
    BY <2>1 DEF IInv, PipeTells, WasReady, Step
  <2>4. pipe'[p] # "OK"
    BY <2>2, <2>3 DEF IInv, Typed, EofOn, SignalReady
  <2>5. /\ Alive(p) /\ pc' = [pc EXCEPT ![Srv(p)] = "ready"]
        /\ "ready" \in ProcPC /\ "ready" # "none"
        /\ term \subseteq term' /\ kills' \in Nat /\ kills' >= kills
    BY <1>0, <2>1 DEF Step, Alive
  <2> QED BY <2>1, <2>2, <2>4, <2>5, ServerMoves
<1>30. ASSUME NEW p \in Starts, Ready(p) PROVE IInv'
  <2>1. Step(Srv(p), "ready", "serve") /\ UNCHANGED <<kills, term>>
    BY <1>30 DEF Ready, ReadyFrom
  <2>2. SignalReady(p, "OK")
    BY <1>30 DEF Ready, ReadyFrom
  <2>3. WasReady(p)'
    BY <2>1, InProcs DEF WasReady, Step, IInv, Typed
  <2>4. /\ Alive(p) /\ pc' = [pc EXCEPT ![Srv(p)] = "serve"]
        /\ "serve" \in ProcPC /\ "serve" # "none"
        /\ term \subseteq term' /\ kills' \in Nat /\ kills' >= kills
    BY <1>0, <2>1 DEF Step, Alive
  <2> QED BY <2>1, <2>2, <2>3, <2>4, ServerMoves
<1>31. ASSUME NEW p \in Starts, Shutdown(p) PROVE IInv'
  <2>1. Step(Srv(p), "serve", "shutdown") /\ UNCHANGED <<pipe, kills, term>>
    BY <1>31 DEF Shutdown
  <2>2. pipe[p] = "OK" => WasReady(p)'
    BY <1>31, <2>1, InProcs DEF Shutdown, IInv, Typed, PipeTells, WasReady, Step
  <2>3. /\ Alive(p) /\ pc' = [pc EXCEPT ![Srv(p)] = "shutdown"]
        /\ "shutdown" \in ProcPC /\ "shutdown" # "none"
        /\ term \subseteq term' /\ kills' \in Nat /\ kills' >= kills
    BY <1>0, <2>1 DEF Step, Alive
  <2> QED BY <2>1, <2>2, <2>3, ServerMoves
<1>32. ASSUME NEW p \in Starts, ShutdownHooks(p) PROVE IInv'
  <2>1. Step(Srv(p), "shutdown", "remove") /\ UNCHANGED <<pipe, kills, term>>
    BY <1>32 DEF ShutdownHooks
  <2>2. pipe[p] = "OK" => WasReady(p)'
    BY <1>32, <2>1, InProcs DEF ShutdownHooks, IInv, Typed, PipeTells, WasReady, Step
  <2>3. /\ Alive(p) /\ pc' = [pc EXCEPT ![Srv(p)] = "remove"]
        /\ "remove" \in ProcPC /\ "remove" # "none"
        /\ term \subseteq term' /\ kills' \in Nat /\ kills' >= kills
    BY <1>0, <2>1 DEF Step, Alive
  <2> QED BY <2>1, <2>2, <2>3, ServerMoves
<1>33. ASSUME NEW p \in Starts, RemoveState(p) PROVE IInv'
  <2>1. Step(Srv(p), "remove", "dead") /\ UNCHANGED <<pipe, kills, term>>
    BY <1>33 DEF RemoveState, Unlink
  <2>2. pipe[p] = "OK" => WasReady(p)'
    BY <1>33, <2>1, InProcs DEF RemoveState, Unlink, IInv, Typed, PipeTells, WasReady, Step
  <2>3. /\ Alive(p) /\ pc' = [pc EXCEPT ![Srv(p)] = "dead"]
        /\ "dead" \in ProcPC /\ "dead" # "none"
        /\ term \subseteq term' /\ kills' \in Nat /\ kills' >= kills
    BY <1>0, <2>1 DEF Step, Alive
  <2> QED BY <2>1, <2>2, <2>3, ServerMoves
<1>34. ASSUME NEW p \in Starts, Kill(p) PROVE IInv'
  <2>1. /\ Alive(p) /\ pc' = [pc EXCEPT ![Srv(p)] = "dead"]
        /\ EofOn(p) /\ kills' = kills + 1 /\ term' = term
    BY <1>34 DEF Kill
  <2>2. WasReady(p)'
    BY <1>0, <2>1, InProcs DEF WasReady, IInv, Typed
  <2>3. /\ Alive(p) /\ pc' = [pc EXCEPT ![Srv(p)] = "dead"]
        /\ "dead" \in ProcPC /\ "dead" # "none"
        /\ term \subseteq term' /\ kills' \in Nat /\ kills' >= kills
    BY <1>0, <2>1
  <2> QED BY <2>1, <2>2, <2>3, ServerMoves
<1>35. ASSUME NEW q \in 1 .. MaxStops, Stop(q) PROVE IInv'
  <2>1. Step(Stp(q), "idle", "probe")
    BY <1>35 DEF Stop, Issue, Step
  <2>2. UNCHANGED <<pipe, kills>> /\ term \subseteq term'
    BY <1>35 DEF Stop, Issue
  <2> QED BY <1>0, <2>1, <2>2, OtherStep
<1>36. ASSUME NEW q \in 1 .. MaxStops, StopSignals(q) PROVE IInv'
  <2>1. Step(Stp(q), "signal", "exit")
    BY <1>36 DEF StopSignals, StopSignalsOr
  <2>2. UNCHANGED <<pipe, kills>> /\ term \subseteq term'
    BY <1>36 DEF StopSignals, StopSignalsOr
  <2> QED BY <1>0, <2>1, <2>2, OtherStep
<1>37. ASSUME NEW c \in 1 .. MaxCalls, Call(c) PROVE IInv'
  <2>1. Step(Cmd(c), "idle", "discover")
    BY <1>37 DEF Call, Issue, Step
  <2>2. UNCHANGED <<pipe, kills>> /\ term \subseteq term'
    BY <1>37 DEF Call, Issue
  <2> QED BY <1>0, <2>1, <2>2, OtherStep
<1>38. ASSUME NEW c \in 1 .. MaxCalls, Discover(c) PROVE IInv'
  <2>1. Step(Cmd(c), "discover", "ping")
    BY <1>38 DEF Discover
  <2>2. UNCHANGED <<pipe, kills>> /\ term \subseteq term'
    BY <1>38 DEF Discover
  <2> QED BY <1>0, <2>1, <2>2, OtherStep
<1>39. ASSUME NEW c \in 1 .. MaxCalls, Ping(c) PROVE IInv'
  <2>1. Step(Cmd(c), "ping", "call")
    BY <1>39 DEF Ping
  <2>2. UNCHANGED <<pipe, kills>> /\ term \subseteq term'
    BY <1>39 DEF Ping
  <2> QED BY <1>0, <2>1, <2>2, OtherStep
<1>40. ASSUME NEW c \in 1 .. MaxCalls, PingFails(c) PROVE IInv'
  <2>1. Step(Cmd(c), "ping", "failed")
    BY <1>40 DEF PingFails
  <2>2. UNCHANGED <<pipe, kills>> /\ term \subseteq term'
    BY <1>40 DEF PingFails
  <2> QED BY <1>0, <2>1, <2>2, OtherStep
<1>41. ASSUME NEW c \in 1 .. MaxCalls, DoCall(c) PROVE IInv'
  <2>1. Step(Cmd(c), "call", "served")
    BY <1>41 DEF DoCall
  <2>2. UNCHANGED <<pipe, kills>> /\ term \subseteq term'
    BY <1>41 DEF DoCall
  <2> QED BY <1>0, <2>1, <2>2, OtherStep
<1>42. ASSUME NEW c \in 1 .. MaxCalls, DoCallFails(c) PROVE IInv'
  <2>1. Step(Cmd(c), "call", "failed")
    BY <1>42 DEF DoCallFails
  <2>2. UNCHANGED <<pipe, kills>> /\ term \subseteq term'
    BY <1>42 DEF DoCallFails
  <2> QED BY <1>0, <2>1, <2>2, OtherStep
<1>43. CASE UNCHANGED vars
  <2>1. \A p \in Starts : PipeTells(p)'
    BY <1>43, <1>0, Untouched DEF vars, IInv
  <2> QED BY <1>43, <2>1 DEF vars, IInv, Typed
<1> QED
  BY <1>1, <1>2, <1>3, <1>4, <1>5, <1>6, <1>7, <1>8, <1>9, <1>10,
     <1>11, <1>12, <1>13, <1>14, <1>15, <1>16, <1>17, <1>18, <1>19, <1>20,
     <1>21, <1>22, <1>23, <1>24, <1>25, <1>26, <1>27, <1>28, <1>29, <1>30,
     <1>31, <1>32, <1>33, <1>34, <1>35, <1>36, <1>37, <1>38, <1>39, <1>40,
     <1>41, <1>42, <1>43
     DEF Next, ProcStep, ParentStep, ServerStep, HookStep, StopStep, CallStep

(* A user who is told that the service is up can use it, one who is told     *)
(* that it failed will not find it running later: for any number of starts,  *)
(* stops, calls and kills, one after the other or all at once.               *)
THEOREM DaemonTellsTruth == Spec => []ParentIsToldTruth
<1>1. IInv => ParentIsToldTruth
  BY DEF IInv, PipeTells, WasReady, ParentIsToldTruth
<1> QED BY <1>1, InitIInv, StepIInv, PTL DEF Spec

-----------------------------------------------------------------------------
(* Types.  A server makes at most one inode, in its one step to "write", so  *)
(* that the inodes 1 .. MaxStarts are enough.                                *)

After   == {"write", "ready", "serve", "shutdown", "remove", "dead"}
Created == {p \in Starts : pc[Srv(p)] \in After}

TInv ==
  /\ TypeOK
  /\ \A p \in Starts : pc[Srv(p)] \notin Returned
  /\ \A x \in Procs : pc[x] = "signal" => seen[x] \in Starts
  /\ made <= Cardinality(Created)

(* All of the type but pc. *)
RestTyped ==
  /\ scenario \in Scenarios
  /\ seen    \in [Procs -> Starts \union {Nobody}]
  /\ made    \in 0 .. MaxStarts
  /\ ino     \in 0 .. made
  /\ content \in [Inodes -> Starts \union {Nobody}]
  /\ wfd     \in [Starts -> 0 .. made]
  /\ pipe    \in [Starts -> {"none", "open", "OK", "ERR", "eof"}]
  /\ term    \subseteq Starts
  /\ kills   \in 0 .. MaxKills
  /\ due     \in [1 .. MaxCalls -> SUBSET Starts]
  /\ hasty   \in BOOLEAN

LEMMA SubsetsOfStarts ==
  ASSUME NEW S \in SUBSET Starts
  PROVE  IsFiniteSet(S) /\ Cardinality(S) \in Nat /\ Cardinality(S) <= MaxStarts
<1>1. MaxStarts \in Nat
  BY Parameters
<1>2. IsFiniteSet(Starts) /\ Cardinality(Starts) = MaxStarts
  BY <1>1, FS_Interval DEF Starts
<1> QED BY <1>2, FS_Subset, FS_CardinalityType

(* Servers that have been past their "create" remain so. *)
LEMMA CreatedGrows ==
  ASSUME made <= Cardinality(Created), made \in Nat,
         \A p \in Starts : pc[Srv(p)] \in After => pc'[Srv(p)] \in After
  PROVE  made <= Cardinality(Created')
<1>1. Created \in SUBSET Created' /\ Created' \in SUBSET Starts /\ Created \in SUBSET Starts
  BY DEF Created
<1>2. Cardinality(Created) <= Cardinality(Created')
  BY <1>1, SubsetsOfStarts, FS_Subset
<1>3. Cardinality(Created) \in Nat /\ Cardinality(Created') \in Nat
  BY <1>1, SubsetsOfStarts
<1> QED BY <1>2, <1>3

(* A step of one process. *)
LEMMA TypeMoves ==
  ASSUME TInv, NEW x \in Procs, NEW from, NEW to \in ProcPC, Step(x, from, to),
         from \in After => to \in After,
         to \in Returned => \A p \in Starts : x # Srv(p),
         to = "signal" => seen'[x] \in Starts, \A y \in Procs : y # x => seen'[y] = seen[y],
         made' = made, RestTyped'
  PROVE  TInv'
<1>1. pc \in [Procs -> ProcPC] /\ made \in Nat /\ made <= Cardinality(Created)
  BY Parameters DEF TInv, TypeOK
<1>2. TypeOK'
  BY <1>1 DEF TypeOK, RestTyped, Step
<1>3. ASSUME NEW p \in Starts
      PROVE  /\ pc[Srv(p)] \in After => pc'[Srv(p)] \in After
             /\ pc'[Srv(p)] \notin Returned
  BY <1>1, InProcs DEF TInv, Step
<1>4. made <= Cardinality(Created')
  BY <1>1, <1>3, CreatedGrows
<1>5. ASSUME NEW y \in Procs, pc'[y] = "signal" PROVE seen'[y] \in Starts
  BY <1>1, <1>5 DEF TInv, Step
<1> QED BY <1>2, <1>3, <1>4, <1>5 DEF TInv

(* The same when nothing but pc changes. *)
LEMMA TypeMoved ==
  ASSUME TInv, NEW x \in Procs, NEW from, NEW to \in ProcPC, Move(x, from, to),
         from \in After => to \in After,
         to \in Returned => \A p \in Starts : x # Srv(p), to # "signal"
  PROVE  TInv'
<1>1. Step(x, from, to) /\ made' = made /\ seen' = seen
  BY DEF Move, state
<1>2. RestTyped'
  BY DEF TInv, TypeOK, RestTyped, Move, state, past
<1> QED BY <1>1, <1>2, TypeMoves

LEMMA InitTInv == Init => TInv
<1> SUFFICES ASSUME Init PROVE TInv
  OBVIOUS
<1>1. MaxStarts \in Nat /\ MaxStops \in Nat /\ MaxCalls \in Nat /\ MaxKills \in Nat
  BY Parameters
<1>h. hasty \in BOOLEAN
  BY Zenon DEF Init
<1>2. TypeOK
  BY <1>1, <1>h DEF Init, TypeOK, ProcPC, Returned, Nobody, Starts
<1>3. \A p \in Starts : pc[Srv(p)] = "none"
  BY InProcs DEF Init, Srv
<1>4. Created \in SUBSET Starts
  BY DEF Created
<1>5. Cardinality(Created) \in Nat
  BY <1>4, SubsetsOfStarts
<1>6. made <= Cardinality(Created)
  BY <1>5 DEF Init
<1>7. \A x \in Procs : pc[x] # "signal"
  BY DEF Init
<1> QED BY <1>2, <1>3, <1>6, <1>7 DEF TInv, Returned

LEMMA StepTInv == TInv /\ IInv /\ [Next]_vars => TInv'
<1> SUFFICES ASSUME TInv, IInv, [Next]_vars PROVE TInv'
  OBVIOUS
<1> USE DEF ProcPC, Starting, Calling, Bound, Listening, Returned, Waiting, After
<1>0. RestTyped /\ pc \in [Procs -> ProcPC] /\ MaxStarts \in Nat /\ MaxKills \in Nat
  BY Parameters DEF TInv, TypeOK, RestTyped
<1>d. /\ \A p, q \in Starts : Cli(p) # Srv(q)
      /\ \A p \in Starts, q \in 1 .. MaxStops : Stp(q) # Srv(p)
      /\ \A p \in Starts, c \in 1 .. MaxCalls : Cmd(c) # Srv(p)
  BY Distinct
<1>f. ASSUME NEW x \in Procs
      PROVE  Free(x) \in {"exit", "setup"} /\ \A p \in Starts : x = Srv(p) => Free(x) = "setup"
  BY DEF Free, Srv
<1>1. ASSUME NEW x \in Procs, Look(x) PROVE TInv'
  <2>1. Move(x, "look", "probe") \/ Move(x, "look", Free(x))
    BY <1>1 DEF Look
  <2> QED BY <2>1, <1>f, TypeMoved
<1>2. ASSUME NEW x \in Procs, ReadState(x) PROVE TInv'
  <2>1. PICK to \in {Free(x), "unlink", "signal"} :
          Step(x, "probe", to)
            /\ (to = "signal" => ino # 0 /\ content[ino] # Nobody /\ seen' = [seen EXCEPT ![x] = content[ino]])
    BY <1>2, <1>f DEF ReadState, ReadStateOr
  <2>2. /\ seen' \in [Procs -> Starts \union {Nobody}]
        /\ \A y \in Procs : y # x => seen'[y] = seen[y]
        /\ to = "signal" => seen'[x] \in Starts
    <3>1. ino # 0 => ino \in Inodes
      BY <1>0 DEF RestTyped, Inodes
    <3>2. ino # 0 => content[ino] \in Starts \union {Nobody}
      BY <1>0, <3>1 DEF RestTyped
    <3>3. seen' = seen \/ (ino # 0 /\ seen' = [seen EXCEPT ![x] = content[ino]])
      BY <1>2 DEF ReadState, ReadStateOr
    <3> QED BY <1>0, <2>1, <3>2, <3>3 DEF RestTyped
  <2>3. RestTyped' /\ made' = made
    BY <1>0, <1>2, <2>2 DEF ReadState, ReadStateOr, RestTyped, state, past
  <2> QED BY <2>1, <2>2, <2>3, <1>f, TypeMoves
<1>3. ASSUME NEW x \in Procs, SignalFails(x) PROVE TInv'
  BY <1>3, TypeMoved DEF SignalFails
<1>4. ASSUME NEW x \in Procs, NEW from \in {"unlink", "remove"}, NEW to \in {"setup", "exit", "dead"},
             Unlink(x, from, to), from \in After => to \in After,
             to \in Returned => \A p \in Starts : x # Srv(p)
      PROVE  TInv'
  <2>1. RestTyped' /\ made' = made /\ seen' = seen /\ Step(x, from, to)
    BY <1>0, <1>4 DEF Unlink, RestTyped, past
  <2> QED BY <1>4, <2>1, TypeMoves
<1>5. ASSUME NEW x \in Procs, RemoveStale(x) PROVE TInv'
  BY <1>4, <1>5, <1>f DEF RemoveStale
<1>6. ASSUME NEW p \in Starts, RemoveState(p) PROVE TInv'
  BY <1>4, <1>6, InProcs DEF RemoveState
<1>7. ASSUME NEW p \in Starts, ProbeFinds(p) \/ SpawnFails(p) \/ AwaitTimeout(p)
      PROVE  TInv'
  BY <1>7, <1>d, InProcs, TypeMoved DEF ProbeFinds, SpawnFails, AwaitTimeout
<1>h. ASSUME NEW x \in Procs, NEW n, Issue(x, n), due' \in [1 .. MaxCalls -> SUBSET Starts]
      PROVE  RestTyped' /\ made' = made /\ seen' = seen /\ pc[x] = "idle"
  <2>1. hasty' \in BOOLEAN
    BY <1>h DEF Issue
  <2> QED BY <1>0, <1>h, <2>1 DEF Issue, RestTyped, state
<1>s. ASSUME NEW p \in Starts, Start(p) PROVE TInv'
  <2>1. Issue(Cli(p), scenario.starts) /\ pc' = [pc EXCEPT ![Cli(p)] = "look"] /\ due' = due
    BY <1>s DEF Start
  <2>2. RestTyped' /\ made' = made /\ seen' = seen /\ Step(Cli(p), "idle", "look")
    BY <1>0, <1>h, <2>1, InProcs DEF RestTyped, Step
  <2> QED BY <2>2, InProcs, TypeMoves
<1>8. ASSUME NEW p \in Starts, NEW ok \in BOOLEAN, SetupParent(p, ok) PROVE TInv'
  BY <1>8, <1>d, InProcs, TypeMoved DEF SetupParent
<1>9. ASSUME NEW p \in Starts, AwaitChild(p) PROVE TInv'
  BY <1>9, <1>d, InProcs, TypeMoved DEF AwaitChild, AwaitOr
<1>10. ASSUME NEW p \in Starts, Exit(p) \/ Shutdown(p) \/ ShutdownHooks(p)
       PROVE  TInv'
  BY <1>10, InProcs, TypeMoved DEF Exit, Shutdown, ShutdownHooks
<1>w. ASSUME NEW p \in Starts, WriteStateFails(p) PROVE TInv'
  <2>1. PICK from \in {"create", "write"} : Step(Srv(p), from, "ready")
    BY <1>w DEF WriteStateFails
  <2>2. wfd' \in [Starts -> 0 .. made]
    BY <1>0, <1>w DEF WriteStateFails, RestTyped
  <2>3. RestTyped' /\ made' = made /\ seen' = seen
    BY <1>0, <1>w, <2>2 DEF WriteStateFails, RestTyped, past
  <2> QED BY <2>1, <2>3, InProcs, TypeMoves
<1>11. ASSUME NEW p \in Starts, NEW cli \in {"byhand", "wait"},
              pc' = [pc EXCEPT ![Cli(p)] = cli, ![Srv(p)] = "look"],
              pc[Srv(p)] \notin After, RestTyped', made' = made, seen' = seen
       PROVE  TInv'
  <2>1. TypeOK'
    BY <1>0, <1>11 DEF TypeOK, RestTyped
  <2>2. ASSUME NEW q \in Starts
        PROVE  /\ pc[Srv(q)] \in After => pc'[Srv(q)] \in After
               /\ pc'[Srv(q)] \notin Returned
    BY <1>0, <1>d, <1>11, InProcs DEF TInv
  <2>3. made <= Cardinality(Created')
    BY <1>0, <2>2, CreatedGrows DEF TInv, RestTyped
  <2>4. \A x \in Procs : pc'[x] = "signal" => pc[x] = "signal"
    BY <1>0, <1>11
  <2> QED BY <1>11, <2>1, <2>2, <2>3, <2>4 DEF TInv
<1>12. ASSUME NEW p \in Starts, pc[Cli(p)] \in {"idle", "spawn"} PROVE pc[Srv(p)] \notin After
  BY <1>12 DEF IInv, PipeTells
<1>13. ASSUME NEW p \in Starts, Spawn(p) PROVE TInv'
  <2>1. RestTyped' /\ made' = made /\ seen' = seen
    BY <1>0, <1>13 DEF Spawn, RestTyped, state, past
  <2> QED BY <1>11, <1>12, <1>13, <2>1 DEF Spawn
<1>14. ASSUME NEW p \in Starts, StartForeground(p) PROVE TInv'
  <2>1. RestTyped' /\ made' = made /\ seen' = seen /\ pc[Cli(p)] = "idle"
    BY <1>0, <1>14, <1>h, InProcs DEF StartForeground, RestTyped
  <2> QED BY <1>11, <1>12, <1>14, <2>1 DEF StartForeground
<1>15. ASSUME NEW p \in Starts, NEW from \in {"setup", "startup", "listen", "signal"},
              NEW to \in {"dead", "startup", "exiting", "listen", "create"}, Step(Srv(p), from, to),
              pipe' = pipe \/ EofOn(p) \/ SignalReady(p, "ERR"),
              UNCHANGED <<seen, state, term, past>>
       PROVE  TInv'
  <2>1. pipe' \in [Starts -> {"none", "open", "OK", "ERR", "eof"}]
    BY <1>0, <1>15 DEF RestTyped, EofOn, SignalReady
  <2>2. RestTyped' /\ made' = made /\ seen' = seen
    BY <1>0, <1>15, <2>1 DEF RestTyped, state, past
  <2> QED BY <1>15, <2>2, InProcs, TypeMoves
<1>16. ASSUME NEW p \in Starts, ServerFinds(p) PROVE TInv'
  BY <1>15, <1>16 DEF ServerFinds
<1>17. ASSUME NEW p \in Starts, NEW ok \in BOOLEAN, SetupServer(p, ok) PROVE TInv'
  BY <1>15, <1>17 DEF SetupServer
<1>18. ASSUME NEW p \in Starts, NEW ok \in BOOLEAN, StartupHooks(p, ok) PROVE TInv'
  BY <1>15, <1>18 DEF StartupHooks, Attempt
<1>19. ASSUME NEW p \in Starts, NEW ok \in BOOLEAN, Listen(p, ok) PROVE TInv'
  BY <1>15, <1>19 DEF Listen, Attempt
<1>20. ASSUME NEW p \in Starts, CreateState(p) PROVE TInv'
  <2>1. Step(Srv(p), "create", "write") /\ made' \in {made, made + 1}
    BY <1>20 DEF CreateState
  <2>2. pc' \in [Procs -> ProcPC] /\ pc[Srv(p)] = "create" /\ pc'[Srv(p)] = "write"
    BY <1>0, <2>1, InProcs DEF Step
  <2>3. ASSUME NEW q \in Starts
        PROVE  /\ pc[Srv(q)] \in After => pc'[Srv(q)] \in After
               /\ pc'[Srv(q)] \notin Returned
    BY <1>0, <2>1, InProcs DEF Step, TInv
  <2>4. Created \union {p} \in SUBSET Created' /\ Created' \in SUBSET Starts
        /\ Created \in SUBSET Starts /\ p \notin Created
    BY <2>2, <2>3 DEF Created
  <2>5. Cardinality(Created \union {p}) = Cardinality(Created) + 1
    BY <2>4, SubsetsOfStarts, FS_AddElement
  <2>6. Cardinality(Created \union {p}) <= Cardinality(Created')
    BY <2>4, SubsetsOfStarts, FS_Subset
  <2>7. made \in Nat /\ made <= Cardinality(Created)
    BY <1>0 DEF RestTyped, TInv
  <2>8. made' <= Cardinality(Created') /\ made' <= MaxStarts /\ made <= made' /\ made' \in Nat
    BY <1>0, <2>1, <2>4, <2>5, <2>6, <2>7, SubsetsOfStarts
  <2>9. ino' \in 0 .. made' /\ ino' # 0
    <3>1. ino' = IF ino = 0 THEN made' ELSE ino
      BY <1>20 DEF CreateState
    <3>2. ino = 0 => made' = made + 1
      BY <1>20 DEF CreateState
    <3>3. ino \in 0 .. made
      BY <1>0 DEF RestTyped
    <3> QED BY <2>7, <2>8, <3>1, <3>2, <3>3
  <2>10. wfd' \in [Starts -> 0 .. made'] /\ content' \in [Inodes -> Starts \union {Nobody}]
    <3>1. /\ wfd' = [wfd EXCEPT ![p] = ino']
          /\ content' = [content EXCEPT ![ino'] = Nobody]
      BY <1>20 DEF CreateState
    <3>2. 0 .. made \subseteq 0 .. made'
      BY <2>7, <2>8
    <3> QED BY <1>0, <2>9, <3>1, <3>2 DEF RestTyped
  <2>11. UNCHANGED <<seen, pipe, term, past>>
    BY <1>20 DEF CreateState
  <2>12. TypeOK'
    BY <1>0, <2>2, <2>8, <2>9, <2>10, <2>11 DEF TypeOK, RestTyped, past
  <2>13. ASSUME NEW x \in Procs, pc'[x] = "signal" PROVE seen'[x] \in Starts
    <3>1. pc[x] = "signal" /\ seen' = seen
      BY <1>0, <2>1, <2>11, <2>13 DEF Step
    <3> QED BY <3>1 DEF TInv
  <2>14. \A q \in Starts : pc'[Srv(q)] \notin Returned
    BY <2>3
  <2>15. made' <= Cardinality(Created')
    BY <2>8
  <2> QED BY <2>12, <2>13, <2>14, <2>15 DEF TInv
<1>21. ASSUME NEW p \in Starts, WriteState(p) PROVE TInv'
  <2>1. content' \in [Inodes -> Starts \union {Nobody}] /\ wfd' \in [Starts -> 0 .. made]
    <3>1. content' = [content EXCEPT ![wfd[p]] = p] /\ wfd' = [wfd EXCEPT ![p] = 0]
      BY <1>21 DEF WriteState
    <3>2. 0 \in 0 .. made
      BY <1>0 DEF RestTyped
    <3> QED BY <1>0, <3>1, <3>2 DEF RestTyped
  <2>2. RestTyped' /\ made' = made /\ seen' = seen /\ Step(Srv(p), "write", "ready")
    BY <1>0, <1>21, <2>1 DEF WriteState, RestTyped, past
  <2> QED BY <2>2, InProcs, TypeMoves
<1>22. ASSUME NEW p \in Starts, Ready(p) PROVE TInv'
  <2>1. pipe' \in [Starts -> {"none", "open", "OK", "ERR", "eof"}]
    BY <1>0, <1>22 DEF Ready, ReadyFrom, RestTyped, SignalReady
  <2>2. RestTyped' /\ made' = made /\ seen' = seen /\ Step(Srv(p), "ready", "serve")
    BY <1>0, <1>22, <2>1 DEF Ready, ReadyFrom, RestTyped, state, past
  <2> QED BY <2>2, InProcs, TypeMoves
<1>23. ASSUME NEW p \in Starts, Kill(p) PROVE TInv'
  <2>1. pipe' \in [Starts -> {"none", "open", "OK", "ERR", "eof"}]
    BY <1>0, <1>23 DEF Kill, RestTyped, EofOn
  <2>2. RestTyped' /\ made' = made /\ seen' = seen
    BY <1>0, <1>23, <2>1 DEF Kill, RestTyped, state
  <2>3. Step(Srv(p), pc[Srv(p)], "dead")
    BY <1>23 DEF Kill, Step
  <2> QED BY <2>2, <2>3, InProcs, TypeMoves
<1>24. ASSUME NEW q \in 1 .. MaxStops, Stop(q) PROVE TInv'
  <2>1. Issue(Stp(q), scenario.stops) /\ pc' = [pc EXCEPT ![Stp(q)] = "probe"] /\ due' = due
    BY <1>24 DEF Stop
  <2>2. RestTyped' /\ made' = made /\ seen' = seen /\ Step(Stp(q), "idle", "probe")
    BY <1>0, <1>h, <2>1, InProcs DEF RestTyped, Step
  <2> QED BY <2>2, InProcs, TypeMoves
<1>25. ASSUME NEW q \in 1 .. MaxStops, StopSignals(q) PROVE TInv'
  <2>1. seen[Stp(q)] \in Starts
    BY <1>25, InProcs DEF StopSignals, StopSignalsOr, Step, TInv
  <2>2. RestTyped' /\ made' = made /\ seen' = seen /\ Step(Stp(q), "signal", "exit")
    BY <1>0, <1>25, <2>1 DEF StopSignals, StopSignalsOr, RestTyped, past
  <2> QED BY <1>d, <2>2, InProcs, TypeMoves
<1>26. ASSUME NEW c \in 1 .. MaxCalls, Call(c) PROVE TInv'
  <2>1. due' \in [1 .. MaxCalls -> SUBSET Starts]
    BY <1>0, <1>26 DEF Call, RestTyped
  <2>2. RestTyped' /\ made' = made /\ seen' = seen /\ Step(Cmd(c), "idle", "discover")
    BY <1>26, <1>h, <2>1, InProcs DEF Call, Step
  <2> QED BY <2>2, InProcs, TypeMoves
<1>27. ASSUME NEW c \in 1 .. MaxCalls, Discover(c) PROVE TInv'
  <2>1. ino # 0 => content[ino] \in Starts \union {Nobody}
    BY <1>0 DEF RestTyped, Inodes
  <2>2. /\ seen' \in [Procs -> Starts \union {Nobody}]
        /\ \A y \in Procs : y # Cmd(c) => seen'[y] = seen[y]
    BY <1>0, <1>27, <2>1 DEF Discover, RestTyped
  <2>3. RestTyped' /\ made' = made /\ Step(Cmd(c), "discover", "ping")
    BY <1>0, <1>27, <2>2 DEF Discover, RestTyped, state, past
  <2> QED BY <2>2, <2>3, InProcs, TypeMoves
<1>28. ASSUME NEW c \in 1 .. MaxCalls, Ping(c) \/ PingFails(c) \/ DoCall(c) \/ DoCallFails(c)
       PROVE  TInv'
  BY <1>28, <1>d, InProcs, TypeMoved DEF Ping, PingFails, DoCall, DoCallFails
<1>29. CASE UNCHANGED vars
  <2>1. TypeOK' /\ Created' = Created
    BY <1>29 DEF TInv, TypeOK, vars, state, past, Created
  <2>2. UNCHANGED <<pc, seen, made>>
    BY <1>29 DEF vars, state
  <2> QED BY <2>1, <2>2 DEF TInv
<1>30. ASSUME NEW x \in Procs, ProcStep(x) PROVE TInv'
  BY <1>1, <1>2, <1>3, <1>5, <1>30 DEF ProcStep
<1> QED
  BY <1>6, <1>7, <1>s, <1>8, <1>9, <1>10, <1>w, <1>13, <1>14, <1>16, <1>17, <1>18, <1>19, <1>20, <1>21,
     <1>22, <1>23, <1>24, <1>25, <1>26, <1>27, <1>28, <1>29, <1>30, InProcs
     DEF Next, ParentStep, ServerStep, HookStep, StopStep, CallStep

(* The variables keep their types; inodes never run out.                     *)
THEOREM DaemonTypeOK == Spec => []TypeOK
<1>1. TInv => TypeOK
  BY DEF TInv
<1> QED BY <1>1, InitIInv, StepIInv, InitTInv, StepTInv, PTL DEF Spec

-----------------------------------------------------------------------------
(* Commands that do not overlap.  A process is busy from its start until a   *)
(* user need not wait for it any longer.                                     *)

Gone(p) == pc[Srv(p)] \in {"none", "dead"}

(* Places reached only by someone who found no server, or who is one; and    *)
(* those of a server whose state file has been written.                      *)
Clear   == {"unlink", "setup", "startup", "listen", "create", "write"}
Written == {"ready", "serve", "shutdown", "remove"}

(* A start and its server count as one. *)
Family(x) == IF x[1] = "server" THEN Cli(x[2]) ELSE x

OneActor ==
  \A x, y \in Procs : pc[x] \in Busy /\ pc[y] \in Busy => Family(x) = Family(y)

(* The state file names a server from the moment it has written it until it  *)
(* has gone.                                                                 *)
FileNames ==
  \A p \in Starts : pc[Srv(p)] \in Written => ino # 0 /\ content[ino] = p

ClearFirst ==
  \A x \in Procs : pc[x] \in Clear => \A q \in Starts : Srv(q) # x => Gone(q)

(* What was read of the state file is still so, or the file is no more. *)
SeenIsFile ==
  \A x \in Procs : pc[x] = "signal" /\ ino # 0 => content[ino] = seen[x]

WritesFile ==
  \A p \in Starts : pc[Srv(p)] = "write" => ino # 0 /\ wfd[p] = ino

CalmInv ==
  Calm => OneActor /\ FileNames /\ ClearFirst /\ SeenIsFile /\ WritesFile

LEMMA FamilyOf ==
  /\ \A p \in Starts : Family(Cli(p)) = Cli(p) /\ Family(Srv(p)) = Cli(p)
  /\ \A x \in Procs, p \in Starts : Family(x) = Cli(p) => x \in {Cli(p), Srv(p)}
<1>1. \A p \in Starts : Family(Cli(p)) = Cli(p) /\ Family(Srv(p)) = Cli(p)
  BY DEF Family, Cli, Srv
<1>2. ASSUME NEW x \in Procs, NEW p \in Starts, Family(x) = Cli(p) PROVE x \in {Cli(p), Srv(p)}
  <2>1. CASE x[1] = "server"
    BY <1>2, <2>1 DEF Family, Cli, Srv, Procs
  <2>2. CASE x[1] # "server"
    BY <1>2, <2>2 DEF Family
  <2> QED BY <2>1, <2>2
<1> QED BY <1>1, <1>2

(* When all is at rest nobody is busy: a server whose start was told that it *)
(* is ready is past its start, and no other one is left behind.              *)
LEMMA NobodyBusy ==
  ASSUME IInv, AtRest, Settled
  PROVE  \A x \in Procs : pc[x] \notin Busy
<1> SUFFICES ASSUME NEW x \in Procs, pc[x] \in Busy PROVE FALSE
  OBVIOUS
<1>1. x[1] = "server" /\ pc[Cli(x[2])] \in {"ok", "timeout"}
  BY DEF AtRest
<1>2. PICK p \in Starts : x = Srv(p)
  BY <1>1 DEF Procs, Srv
<1>3. pc[Cli(p)] = "ok"
  BY <1>1, <1>2 DEF Srv, Settled
<1>4. WasReady(p)
  BY <1>3 DEF IInv, PipeTells
<1> QED BY <1>2, <1>4 DEF WasReady, Busy, Starting, Calling, Waiting

(* Someone who looks for a server, and finds no file, or one that names no   *)
(* live one, knows that there is none.                                       *)
LEMMA NoServer ==
  ASSUME TInv, IInv, CalmInv, Calm, NEW x \in Procs, pc[x] \in {"look", "probe", "signal"},
         \A q \in Starts : ino # 0 /\ content[ino] = q => Gone(q)
  PROVE  \A q \in Starts : Srv(q) # x => Gone(q)
<1> SUFFICES ASSUME NEW q \in Starts, Srv(q) # x, ~Gone(q) PROVE FALSE
  OBVIOUS
<1>1. pc[Srv(q)] \notin Written
  BY DEF CalmInv, FileNames
<1>2. pc[Srv(q)] \in ProcPC /\ pc[Srv(q)] \notin Returned
  BY InProcs DEF TInv, TypeOK
<1>3. pc[Srv(q)] \in Busy /\ pc[x] \in Busy
  BY <1>1, <1>2 DEF Gone, ProcPC, Busy, Starting, Calling, Waiting, Returned, Listening, Bound, Written
<1>4. Family(x) = Cli(q)
  BY <1>3, InProcs, FamilyOf DEF CalmInv, OneActor
<1>5. x = Cli(q)
  BY <1>4, FamilyOf
<1> QED BY <1>5 DEF IInv, PipeTells, Gone

(* A step of one process that leaves the state file alone. *)
LEMMA CalmMoves ==
  ASSUME TInv, CalmInv, Calm,
         NEW x \in Procs, NEW from, NEW to, Step(x, from, to),
         ino' = ino, content' = content, wfd' = wfd,
         \A y \in Procs : y # x => seen'[y] = seen[y],
         to \in Busy => from \in Busy \/ \A y \in Procs : pc[y] \notin Busy,
         from \notin {"none", "dead"}, to # "write",
         to \in Written => from \in Written,
         to \in Clear => from \in Clear \/ \A q \in Starts : Srv(q) # x => Gone(q),
         to = "signal" /\ ino # 0 => content[ino] = seen'[x]
  PROVE  CalmInv'
<1>1. /\ pc[x] = from /\ pc'[x] = to
      /\ \A y \in Procs : y # x => pc'[y] = pc[y]
  BY DEF Step, TInv, TypeOK
<1>2. OneActor'
  BY <1>1 DEF CalmInv, OneActor
<1>3. FileNames'
  BY <1>1, InProcs DEF CalmInv, FileNames
<1>4. ASSUME NEW q \in Starts, Gone(q) PROVE Gone(q)'
  BY <1>1, <1>4, InProcs DEF Gone
<1>5. ClearFirst'
  BY <1>1, <1>4 DEF CalmInv, ClearFirst
<1>6. SeenIsFile'
  BY <1>1 DEF CalmInv, SeenIsFile
<1>7. WritesFile'
  BY <1>1, InProcs DEF CalmInv, WritesFile
<1> QED BY <1>2, <1>3, <1>5, <1>6, <1>7 DEF CalmInv

(* The state file is removed by one who knows of no server, or by the one    *)
(* server there is.                                                          *)
LEMMA CalmUnlinks ==
  ASSUME TInv, CalmInv, Calm,
         NEW x \in Procs, NEW from, NEW to, Step(x, from, to),
         ino' = 0, UNCHANGED <<content, wfd, seen>>,
         \/ from = "unlink" /\ to \in {"setup", "exit"}
         \/ from = "remove" /\ to = "dead" /\ \E p \in Starts : x = Srv(p)
  PROVE  CalmInv'
<1>1. /\ pc[x] = from /\ pc'[x] = to
      /\ \A y \in Procs : y # x => pc'[y] = pc[y]
  BY DEF Step, TInv, TypeOK
<1>2. OneActor'
  BY <1>1 DEF CalmInv, OneActor, Busy, Starting, Calling, Waiting
<1>3. ASSUME NEW q \in Starts, Srv(q) # x PROVE pc[Srv(q)] \notin Written \union {"write"}
  <2>1. CASE from = "unlink"
    BY <1>1, <1>3, <2>1 DEF CalmInv, ClearFirst, Clear, Gone, Written
  <2>2. CASE from = "remove"
    <3>1. PICK p \in Starts : x = Srv(p)
      BY <2>2
    <3>2. content[ino] = p /\ ~Gone(p) /\ q # p
      BY <1>1, <1>3, <2>2, <3>1 DEF CalmInv, FileNames, Written, Gone
    <3>3. pc[Srv(q)] \notin Written
      BY <3>2 DEF CalmInv, FileNames
    <3>4. pc[Srv(q)] # "write"
      BY <3>1, <3>2, <1>3, InProcs DEF CalmInv, ClearFirst, Clear
    <3> QED BY <3>3, <3>4
  <2> QED BY <2>1, <2>2
<1>4. FileNames' /\ WritesFile'
  BY <1>1, <1>3, InProcs DEF FileNames, WritesFile, Written
<1>5. ASSUME NEW q \in Starts, Gone(q) PROVE Gone(q)'
  BY <1>1, <1>5, InProcs DEF Gone
<1>6. ClearFirst'
  BY <1>1, <1>5 DEF CalmInv, ClearFirst, Clear
<1>7. SeenIsFile'
  BY DEF SeenIsFile
<1> QED BY <1>2, <1>4, <1>6, <1>7 DEF CalmInv

(* A server at its state file is alone: no other one is there, and nobody    *)
(* else is about to signal what it read before.                              *)
LEMMA WriterAlone ==
  ASSUME IInv, CalmInv, Calm, NEW p \in Starts, pc[Srv(p)] \in {"create", "write"}
  PROVE  /\ \A q \in Starts : q # p => Gone(q)
         /\ \A x \in Procs : pc[x] # "signal"
<1>1. \A q \in Starts : q # p => Gone(q)
  BY InProcs, Distinct DEF CalmInv, ClearFirst, Clear
<1>2. ASSUME NEW x \in Procs, pc[x] = "signal" PROVE FALSE
  <2>1. pc[x] \in Busy /\ pc[Srv(p)] \in Busy
    BY <1>2 DEF Busy, Starting
  <2>2. x \in {Cli(p), Srv(p)}
    BY <2>1, InProcs, FamilyOf DEF CalmInv, OneActor
  <2> QED BY <1>2, <2>2 DEF IInv, PipeTells
<1> QED BY <1>1, <1>2

LEMMA InitCalmInv == Init => CalmInv
<1> SUFFICES ASSUME Init PROVE CalmInv
  OBVIOUS
<1>1. \A x \in Procs : pc[x] \in {"none", "idle"}
  BY DEF Init
<1> QED
  BY <1>1, InProcs DEF CalmInv, OneActor, FileNames, ClearFirst, SeenIsFile, WritesFile,
     Busy, Starting, Calling, Waiting, Clear, Written

(* Who has hurried once is no longer calm. *)
LEMMA CalmStays == [Next]_vars => scenario' = scenario /\ (Calm' => Calm)
<1> SUFFICES ASSUME [Next]_vars PROVE scenario' = scenario /\ (Calm' => Calm)
  OBVIOUS
<1>1. CASE \/ \E p \in Starts : Start(p) \/ StartForeground(p)
           \/ \E q \in 1 .. MaxStops : Stop(q)
           \/ \E c \in 1 .. MaxCalls : Call(c)
  <2>1. PICK x, n : Issue(x, n)
    BY <1>1, Zenon DEF Start, StartForeground, Stop, Call
  <2>2. scenario' = scenario /\ (hasty => hasty')
    BY <2>1, Zenon DEF Issue
  <2> QED BY <2>2, Zenon DEF Calm
<1>2. CASE \/ \E p \in Starts : ParentStep(p) \/ AwaitTimeout(p) \/ ServerStep(p) \/ HookStep(p) \/ Kill(p)
           \/ \E q \in 1 .. MaxStops : StopStep(q)
           \/ \E c \in 1 .. MaxCalls : CallStep(c)
           \/ UNCHANGED vars
  <2>1. scenario' = scenario /\ hasty' = hasty
    BY <1>2 DEF vars, past, ProcStep, ParentStep, ServerStep, HookStep, StopStep, CallStep, Move,
       Look, ReadState, ReadStateOr, SignalFails, ProbeFinds, ServerFinds, StopSignals, StopSignalsOr,
       Unlink, RemoveStale, SetupParent, SpawnFails, Spawn, AwaitChild, AwaitOr, AwaitTimeout,
       SetupServer, Attempt, StartupHooks, Listen, Exit, CreateState, WriteState, WriteStateFails,
       ReadyFrom, Ready, Shutdown, ShutdownHooks, RemoveState, Kill, Discover, Ping, PingFails,
       DoCall, DoCallFails
  <2> QED BY <2>1, Zenon DEF Calm
<1> QED BY <1>1, <1>2, Zenon DEF Next

LEMMA StepCalmInv == TInv /\ IInv /\ TInv' /\ CalmInv /\ [Next]_vars => CalmInv'
<1> SUFFICES ASSUME TInv, IInv, TInv', CalmInv, [Next]_vars, Calm' PROVE CalmInv'
  BY DEF CalmInv
<1> USE DEF Busy, Starting, Calling, Waiting, Clear, Written
<1>0. Calm /\ scenario.serial /\ ~scenario.faults
  BY CalmStays DEF Calm
<1>i. ASSUME NEW x, NEW n, Issue(x, n)
      PROVE  /\ AtRest /\ Settled /\ pc[x] = "idle"
             /\ ino' = ino /\ content' = content /\ wfd' = wfd /\ seen' = seen
  <2>1. ~hasty'
    BY DEF Calm
  <2> QED BY <1>0, <1>i, <2>1 DEF Issue, state
<1>f. \A x \in Procs : Free(x) \in {"exit", "setup"}
  BY DEF Free
<1>m. ASSUME NEW x \in Procs, NEW from, NEW to, Move(x, from, to)
      PROVE  /\ Step(x, from, to) /\ ino' = ino /\ content' = content /\ wfd' = wfd
             /\ \A y \in Procs : y # x => seen'[y] = seen[y]
             /\ seen' = seen
  BY <1>m DEF Move, state
<1>1. ASSUME NEW x \in Procs, Look(x) PROVE CalmInv'
  <2>1. CASE ino = 0
    <3>1. Move(x, "look", Free(x)) /\ pc[x] = "look"
      BY <1>1, <2>1 DEF Look, Move, Step
    <3>2. \A q \in Starts : Srv(q) # x => Gone(q)
      BY <1>0, <2>1, <3>1, NoServer
    <3> QED BY <1>0, <1>f, <1>m, <3>1, <3>2, CalmMoves
  <2>2. CASE ino # 0
    <3>1. Move(x, "look", "probe")
      BY <1>1, <2>2 DEF Look
    <3> QED BY <1>0, <1>m, <3>1, CalmMoves
  <2> QED BY <2>1, <2>2
<1>2. ASSUME NEW x \in Procs, ReadState(x) PROVE CalmInv'
  <2>1. /\ pc[x] = "probe" /\ ino' = ino /\ content' = content /\ wfd' = wfd
        /\ \A y \in Procs : y # x => seen'[y] = seen[y]
    BY <1>2 DEF ReadState, ReadStateOr, Step, state, TInv, TypeOK
  <2>2. CASE ino = 0 \/ content[ino] = Nobody
    <3>1. PICK to \in {Free(x), "unlink"} : Step(x, "probe", to)
      BY <1>2, <2>2 DEF ReadState, ReadStateOr
    <3>2. \A q \in Starts : ino # 0 /\ content[ino] = q => Gone(q)
      BY <2>2 DEF Starts, Nobody
    <3>3. \A q \in Starts : Srv(q) # x => Gone(q)
      BY <1>0, <2>1, <3>2, NoServer
    <3> QED BY <1>0, <1>f, <2>1, <3>1, <3>3, CalmMoves
  <2>3. CASE ino # 0 /\ content[ino] # Nobody
    <3>1. Step(x, "probe", "signal") /\ seen' = [seen EXCEPT ![x] = content[ino]]
      BY <1>2, <2>3 DEF ReadState, ReadStateOr
    <3>2. seen'[x] = content[ino]
      BY <3>1 DEF TInv, TypeOK
    <3> QED BY <1>0, <2>1, <3>1, <3>2, CalmMoves
  <2> QED BY <2>2, <2>3
<1>3. ASSUME NEW x \in Procs, SignalFails(x) PROVE CalmInv'
  <2>1. Move(x, "signal", "unlink") /\ pc[x] = "signal" /\ Gone(seen[x])
    BY <1>3 DEF SignalFails, Move, Step, Alive, Gone
  <2>2. \A q \in Starts : ino # 0 /\ content[ino] = q => Gone(q)
    BY <1>0, <2>1 DEF CalmInv, SeenIsFile
  <2>3. \A q \in Starts : Srv(q) # x => Gone(q)
    BY <1>0, <2>1, <2>2, NoServer
  <2> QED BY <1>0, <1>m, <2>1, <2>3, CalmMoves
<1>4. ASSUME NEW x \in Procs, RemoveStale(x) PROVE CalmInv'
  <2>1. PICK to \in {"setup", "exit"} :
          Step(x, "unlink", to) /\ ino' = 0 /\ UNCHANGED <<content, wfd, seen>>
    BY <1>4, <1>f DEF RemoveStale, Unlink
  <2> QED BY <1>0, <2>1, CalmUnlinks
<1>5. ASSUME NEW p \in Starts, RemoveState(p) PROVE CalmInv'
  <2>1. Step(Srv(p), "remove", "dead") /\ ino' = 0 /\ UNCHANGED <<content, wfd, seen>>
    BY <1>5 DEF RemoveState, Unlink
  <2> QED BY <1>0, <2>1, InProcs, CalmUnlinks
<1>6. ASSUME NEW x \in Procs, NEW n, Issue(x, n), NEW to \in {"look", "probe", "discover"},
             pc' = [pc EXCEPT ![x] = to]
      PROVE  CalmInv'
  <2>1. Step(x, "idle", to) /\ ino' = ino /\ content' = content /\ wfd' = wfd /\ seen' = seen
    BY <1>6, <1>i DEF Step
  <2>2. \A y \in Procs : pc[y] \notin Busy
    BY <1>6, <1>i, NobodyBusy
  <2> QED BY <1>0, <2>1, <2>2, CalmMoves
<1>7. ASSUME NEW p \in Starts, Start(p) PROVE CalmInv'
  BY <1>6, <1>7, InProcs DEF Start
<1>8. ASSUME NEW q \in 1 .. MaxStops, Stop(q) PROVE CalmInv'
  BY <1>6, <1>8, InProcs DEF Stop
<1>9. ASSUME NEW c \in 1 .. MaxCalls, Call(c) PROVE CalmInv'
  BY <1>6, <1>9, InProcs DEF Call
<1>10. ASSUME NEW p \in Starts, ProbeFinds(p) \/ SpawnFails(p) \/ AwaitTimeout(p) PROVE CalmInv'
  <2>1. \/ Move(Cli(p), "signal", "running")
        \/ Move(Cli(p), "spawn", "failed")
        \/ Move(Cli(p), "wait", "timeout")
    BY <1>10 DEF ProbeFinds, SpawnFails, AwaitTimeout
  <2> QED BY <1>0, <1>m, <2>1, InProcs, CalmMoves
<1>11. ASSUME NEW p \in Starts, NEW ok \in BOOLEAN, SetupParent(p, ok) PROVE CalmInv'
  <2>1. Move(Cli(p), "setup", "spawn") \/ Move(Cli(p), "setup", "failed")
    BY <1>11 DEF SetupParent
  <2> QED BY <1>0, <1>m, <2>1, InProcs, CalmMoves
<1>12. ASSUME NEW p \in Starts, AwaitChild(p) PROVE CalmInv'
  <2>1. Move(Cli(p), "wait", "ok") \/ Move(Cli(p), "wait", "failed")
    BY <1>12 DEF AwaitChild, AwaitOr
  <2> QED BY <1>0, <1>m, <2>1, InProcs, CalmMoves
<1>13. ASSUME NEW p \in Starts, Exit(p) \/ Shutdown(p) \/ ShutdownHooks(p) PROVE CalmInv'
  <2>1. \/ Move(Srv(p), "exiting", "dead")
        \/ Move(Srv(p), "serve", "shutdown")
        \/ Move(Srv(p), "shutdown", "remove")
    BY <1>13 DEF Exit, Shutdown, ShutdownHooks
  <2> QED BY <1>0, <1>m, <2>1, InProcs, CalmMoves
<1>14. ASSUME NEW p \in Starts, WriteStateFails(p) PROVE CalmInv'
  BY <1>0, <1>14 DEF WriteStateFails
<1>15. ASSUME NEW p \in Starts,
              NEW from \in {"signal", "setup", "startup", "listen", "ready"},
              NEW to \in {"dead", "startup", "exiting", "listen", "create", "serve"},
              Step(Srv(p), from, to), UNCHANGED <<seen, state>>,
              to \in Clear => from \in Clear, to = "serve" => from = "ready"
       PROVE  CalmInv'
  <2>1. ino' = ino /\ content' = content /\ wfd' = wfd /\ seen' = seen
    BY <1>15 DEF state
  <2> QED BY <1>0, <1>15, <2>1, InProcs, CalmMoves
<1>16. ASSUME NEW p \in Starts, ServerFinds(p) PROVE CalmInv'
  BY <1>15, <1>16 DEF ServerFinds
<1>17. ASSUME NEW p \in Starts, NEW ok \in BOOLEAN, SetupServer(p, ok) PROVE CalmInv'
  BY <1>15, <1>17 DEF SetupServer
<1>18. ASSUME NEW p \in Starts, NEW ok \in BOOLEAN, StartupHooks(p, ok) PROVE CalmInv'
  BY <1>15, <1>18 DEF StartupHooks, Attempt
<1>19. ASSUME NEW p \in Starts, NEW ok \in BOOLEAN, Listen(p, ok) PROVE CalmInv'
  BY <1>15, <1>19 DEF Listen, Attempt
<1>20. ASSUME NEW p \in Starts, Ready(p) PROVE CalmInv'
  BY <1>15, <1>20 DEF Ready, ReadyFrom
<1>21. ASSUME NEW p \in Starts, Kill(p) PROVE CalmInv'
  <2>1. /\ Step(Srv(p), pc[Srv(p)], "dead") /\ pc[Srv(p)] \notin {"none", "dead"}
        /\ ino' = ino /\ content' = content /\ wfd' = wfd /\ seen' = seen
    BY <1>21 DEF Kill, Step, Alive, state
  <2> QED BY <1>0, <2>1, InProcs, CalmMoves
<1>22. ASSUME NEW q \in 1 .. MaxStops, StopSignals(q) PROVE CalmInv'
  <2>1. /\ Step(Stp(q), "signal", "exit")
        /\ ino' = ino /\ content' = content /\ wfd' = wfd /\ seen' = seen
    BY <1>22 DEF StopSignals, StopSignalsOr
  <2> QED BY <1>0, <2>1, InProcs, CalmMoves
<1>23. ASSUME NEW c \in 1 .. MaxCalls, Discover(c) PROVE CalmInv'
  <2>1. /\ Step(Cmd(c), "discover", "ping")
        /\ ino' = ino /\ content' = content /\ wfd' = wfd
        /\ \A y \in Procs : y # Cmd(c) => seen'[y] = seen[y]
    BY <1>23 DEF Discover, state, TInv, TypeOK
  <2> QED BY <1>0, <2>1, InProcs, CalmMoves
<1>24. ASSUME NEW c \in 1 .. MaxCalls, Ping(c) \/ PingFails(c) \/ DoCall(c) \/ DoCallFails(c)
       PROVE  CalmInv'
  <2>1. \/ Move(Cmd(c), "ping", "call") \/ Move(Cmd(c), "ping", "failed")
        \/ Move(Cmd(c), "call", "served") \/ Move(Cmd(c), "call", "failed")
    BY <1>24 DEF Ping, PingFails, DoCall, DoCallFails
  <2> QED BY <1>0, <1>m, <2>1, InProcs, CalmMoves
<1>25. ASSUME NEW p \in Starts, NEW from \in {"idle", "spawn"}, NEW to \in {"byhand", "wait"},
              pc[Cli(p)] = from, from = "idle" => AtRest /\ Settled /\ to = "byhand",
              pc' = [pc EXCEPT ![Cli(p)] = to, ![Srv(p)] = "look"],
              ino' = ino, content' = content, wfd' = wfd, seen' = seen
       PROVE  CalmInv'
  <2>1. /\ pc[Srv(p)] = "none" /\ pc'[Srv(p)] = "look" /\ pc'[Cli(p)] = to
        /\ \A y \in Procs \ {Cli(p), Srv(p)} : pc'[y] = pc[y]
    BY <1>25, InProcs, Distinct DEF IInv, PipeTells, TInv, TypeOK
  <2>2. ASSUME NEW y \in Procs, y \notin {Cli(p), Srv(p)} PROVE pc[y] \notin Busy /\ pc'[y] \notin Busy
    <3>1. CASE from = "idle"
      BY <1>25, <2>1, <2>2, <3>1, NobodyBusy
    <3>2. CASE from = "spawn"
      <4>1. pc[Cli(p)] \in Busy
        BY <1>25, <3>2
      <4>2. Family(y) # Cli(p) /\ Family(Cli(p)) = Cli(p)
        BY <2>2, FamilyOf
      <4> QED BY <1>0, <2>1, <2>2, <4>1, <4>2, InProcs DEF CalmInv, OneActor
    <3> QED BY <3>1, <3>2
  <2>3. OneActor'
    BY <2>2, FamilyOf DEF OneActor
  <2>4. ClearFirst' /\ SeenIsFile'
    BY <2>1, <2>2 DEF ClearFirst, SeenIsFile
  <2>5. ASSUME NEW q \in Starts, pc'[Srv(q)] \in Written \union {"write"} PROVE pc[Srv(q)] = pc'[Srv(q)]
    BY <2>1, <2>5, InProcs, Distinct
  <2>6. FileNames' /\ WritesFile'
    BY <1>0, <1>25, <2>5 DEF FileNames, WritesFile, CalmInv
  <2> QED BY <2>3, <2>4, <2>6 DEF CalmInv
<1>26. ASSUME NEW p \in Starts, Spawn(p) PROVE CalmInv'
  <2>1. /\ pc[Cli(p)] = "spawn" /\ pc' = [pc EXCEPT ![Cli(p)] = "wait", ![Srv(p)] = "look"]
        /\ ino' = ino /\ content' = content /\ wfd' = wfd /\ seen' = seen
    BY <1>26 DEF Spawn, state
  <2> QED BY <2>1, <1>25
<1>27. ASSUME NEW p \in Starts, StartForeground(p) PROVE CalmInv'
  <2>1. /\ pc[Cli(p)] = "idle" /\ pc' = [pc EXCEPT ![Cli(p)] = "byhand", ![Srv(p)] = "look"]
        /\ AtRest /\ Settled /\ ino' = ino /\ content' = content /\ wfd' = wfd /\ seen' = seen
    BY <1>27, <1>i DEF StartForeground
  <2> QED BY <2>1, <1>25
<1>28. ASSUME NEW p \in Starts, pc[Srv(p)] \in {"create", "write"},
              NEW to \in {"write", "ready"}, pc' = [pc EXCEPT ![Srv(p)] = to]
       PROVE  /\ OneActor' /\ ClearFirst' /\ SeenIsFile'
              /\ pc'[Srv(p)] = to
              /\ \A q \in Starts : q # p => pc'[Srv(q)] \in {"none", "dead"}
  <2>1. /\ pc'[Srv(p)] = to
        /\ \A y \in Procs : y # Srv(p) => pc'[y] = pc[y]
    BY <1>28, InProcs DEF TInv, TypeOK
  <2>2. /\ \A q \in Starts : q # p => pc[Srv(q)] \in {"none", "dead"}
        /\ \A x \in Procs : pc[x] # "signal"
    BY <1>0, <1>28, <2>1, WriterAlone DEF Gone
  <2>3. \A q \in Starts : q # p => pc'[Srv(q)] \in {"none", "dead"}
    BY <2>1, <2>2, InProcs, Distinct
  <2>4. OneActor'
    BY <1>0, <1>28, <2>1, InProcs DEF CalmInv, OneActor
  <2>5. ASSUME NEW x \in Procs, pc'[x] \in Clear, NEW q \in Starts, Srv(q) # x PROVE Gone(q)'
    <3>1. CASE q # p
      BY <2>3, <3>1 DEF Gone
    <3>2. CASE q = p
      BY <1>0, <1>28, <2>1, <2>5, <3>2 DEF CalmInv, ClearFirst, Gone
    <3> QED BY <3>1, <3>2
  <2>6. SeenIsFile'
    BY <1>28, <2>1, <2>2 DEF SeenIsFile
  <2> QED BY <2>1, <2>3, <2>4, <2>5, <2>6 DEF ClearFirst
<1>29. ASSUME NEW p \in Starts, CreateState(p) PROVE CalmInv'
  <2>1. Step(Srv(p), "create", "write") /\ wfd' = [wfd EXCEPT ![p] = ino']
    BY <1>29 DEF CreateState
  <2>2. ino' # 0
    BY <1>29, Parameters DEF CreateState, TInv, TypeOK
  <2>3. wfd'[p] = ino'
    BY <2>1 DEF TInv, TypeOK
  <2>4. /\ OneActor' /\ ClearFirst' /\ SeenIsFile'
        /\ pc'[Srv(p)] = "write"
        /\ \A q \in Starts : q # p => pc'[Srv(q)] \in {"none", "dead"}
    <3>1. pc[Srv(p)] = "create" /\ pc' = [pc EXCEPT ![Srv(p)] = "write"]
      BY <2>1 DEF Step
    <3> QED BY <1>28, <3>1
  <2>5. FileNames' /\ WritesFile'
    BY <2>2, <2>3, <2>4 DEF FileNames, WritesFile
  <2> QED BY <2>4, <2>5 DEF CalmInv
<1>30. ASSUME NEW p \in Starts, WriteState(p) PROVE CalmInv'
  <2>1. /\ Step(Srv(p), "write", "ready") /\ ino' = ino
        /\ content' = [content EXCEPT ![wfd[p]] = p]
    BY <1>30 DEF WriteState
  <2>2. ino # 0 /\ wfd[p] = ino
    BY <1>0, <2>1 DEF Step, CalmInv, WritesFile
  <2>3. ino \in Inodes
    BY <2>2, Parameters DEF TInv, TypeOK, Inodes
  <2>4. content'[ino] = p
    BY <2>1, <2>2, <2>3 DEF TInv, TypeOK
  <2>5. /\ OneActor' /\ ClearFirst' /\ SeenIsFile'
        /\ pc'[Srv(p)] = "ready"
        /\ \A q \in Starts : q # p => pc'[Srv(q)] \in {"none", "dead"}
    <3>1. pc[Srv(p)] = "write" /\ pc' = [pc EXCEPT ![Srv(p)] = "ready"]
      BY <2>1 DEF Step
    <3> QED BY <1>28, <3>1
  <2>6. FileNames' /\ WritesFile'
    BY <2>1, <2>2, <2>4, <2>5 DEF FileNames, WritesFile
  <2> QED BY <2>5, <2>6 DEF CalmInv
<1>31. CASE UNCHANGED vars
  BY <1>0, <1>31 DEF vars, state, CalmInv, OneActor, FileNames, ClearFirst, SeenIsFile, WritesFile, Gone
<1>32. ASSUME NEW x \in Procs, ProcStep(x) PROVE CalmInv'
  BY <1>1, <1>2, <1>3, <1>4, <1>32 DEF ProcStep
<1> QED
  BY <1>5, <1>7, <1>8, <1>9, <1>10, <1>11, <1>12, <1>13, <1>14, <1>16, <1>17, <1>18, <1>19, <1>20,
     <1>21, <1>22, <1>23, <1>24, <1>26, <1>27, <1>29, <1>30, <1>31, <1>32, InProcs
     DEF Next, ParentStep, ServerStep, HookStep, StopStep, CallStep

(* However servers were killed, stopped or left behind: commands that are    *)
(* run one after the other, and not before the server of a start that timed  *)
(* out is up or gone, never leave two of them.                               *)
THEOREM DaemonSingleServer == Spec => []SingleServer
<1>1. TInv /\ CalmInv => SingleServer
  <2> SUFFICES ASSUME TInv, CalmInv, Calm
               PROVE  Cardinality({p \in Starts : pc[Srv(p)] \in Listening}) <= 1
    BY DEF SingleServer
  <2> DEFINE L == {p \in Starts : pc[Srv(p)] \in Listening}
  <2>1. ASSUME NEW p \in L, NEW q \in L, p # q PROVE FALSE
    <3>1. pc[Srv(p)] \in Clear \union Written /\ pc[Srv(q)] \in Clear \union Written
      BY DEF Listening, Bound, Clear, Written
    <3>2. ~Gone(p) /\ ~Gone(q) /\ Srv(p) # Srv(q)
      BY <2>1, Distinct DEF Gone, Listening, Bound
    <3> QED BY <2>1, <3>1, <3>2, InProcs DEF CalmInv, FileNames, ClearFirst
  <2>2. CASE L = {}
    BY <2>2, FS_EmptySet
  <2>3. CASE L # {}
    <3>1. PICK p : p \in L
      BY <2>3
    <3>2. L = {p}
      BY <2>1, <3>1
    <3> QED BY <3>2, FS_Singleton
  <2> QED BY <2>2, <2>3
<1> QED BY <1>1, InitIInv, StepIInv, InitTInv, StepTInv, InitCalmInv, StepCalmInv, PTL DEF Spec

(* Under the same conditions a server that serves is the one its state file  *)
(* names.                                                                    *)
THEOREM DaemonStartedIsReachable == Spec => []StartedIsReachable
<1>1. CalmInv => StartedIsReachable
  BY DEF CalmInv, FileNames, Written, StartedIsReachable
<1> QED BY <1>1, InitIInv, StepIInv, InitTInv, StepTInv, InitCalmInv, StepCalmInv, PTL DEF Spec

-----------------------------------------------------------------------------
(* A command that is run when a server has been reported.                    *)

(* As long as that server is neither killed nor stopped the command has not  *)
(* failed, and it is the server that the command talks to.                   *)
DueInv ==
  Calm /\ ~scenario.slow => \A c \in 1 .. MaxCalls : \A p \in due[c] :
    /\ pc[Cli(p)] = "ok"
    /\ Alive(p) /\ p \notin term =>
         /\ pc[Cmd(c)] # "failed"
         /\ pc[Cmd(c)] \in {"ping", "call"} => seen[Cmd(c)] = p

LEMMA DueKeeps ==
  ASSUME TInv, DueInv, scenario' = scenario, due' = due, term \subseteq term', Calm' => Calm,
         \A p \in Starts : pc[Cli(p)] = "ok" => pc'[Cli(p)] = "ok" /\ (Alive(p)' => Alive(p)),
         \A c \in 1 .. MaxCalls : pc'[Cmd(c)] = pc[Cmd(c)] /\ seen'[Cmd(c)] = seen[Cmd(c)]
  PROVE  DueInv'
<1>1. \A c \in 1 .. MaxCalls : due[c] \subseteq Starts
  BY DEF TInv, TypeOK
<1> QED BY <1>1 DEF DueInv, Calm

LEMMA CmdsApart ==
  \A c \in 1 .. MaxCalls :
    /\ \A p \in Starts : Cmd(c) # Cli(p) /\ Cmd(c) # Srv(p)
    /\ \A q \in 1 .. MaxStops : Cmd(c) # Stp(q)
    /\ \A d \in 1 .. MaxCalls : Cmd(c) = Cmd(d) => c = d
BY DEF Cmd, Cli, Srv, Stp

(* A step of a start, a server or a stop. *)
LEMMA DueMoves ==
  ASSUME TInv, DueInv, NEW x \in Procs, \A c \in 1 .. MaxCalls : x # Cmd(c),
         NEW from, NEW to, Step(x, from, to), from \notin {"ok", "none", "dead"},
         \A y \in Procs : y # x => seen'[y] = seen[y],
         scenario' = scenario, Calm' => Calm, due' = due, term \subseteq term'
  PROVE  DueInv'
<1>1. /\ pc[x] = from /\ \A y \in Procs : y # x => pc'[y] = pc[y]
  BY DEF Step, TInv, TypeOK
<1> QED BY <1>1, DueKeeps, InProcs DEF Alive

(* A step of a command, other than its start. *)
LEMMA DueCalls ==
  ASSUME TInv, DueInv, NEW c \in 1 .. MaxCalls, NEW from, NEW to, Step(Cmd(c), from, to),
         \A y \in Procs : y # Cmd(c) => seen'[y] = seen[y],
         scenario' = scenario, Calm' => Calm, due' = due, term' = term,
         \A p \in due[c] : Calm /\ ~scenario.slow /\ Alive(p) /\ p \notin term =>
           to # "failed" /\ (to \in {"ping", "call"} => seen'[Cmd(c)] = p)
  PROVE  DueInv'
<1>1. /\ pc'[Cmd(c)] = to /\ \A y \in Procs : y # Cmd(c) => pc'[y] = pc[y]
  BY InProcs DEF Step, TInv, TypeOK
<1> SUFFICES ASSUME Calm, ~scenario.slow, NEW d \in 1 .. MaxCalls, NEW p \in due[d]
             PROVE  /\ pc'[Cli(p)] = "ok"
                    /\ Alive(p)' /\ p \notin term =>
                         /\ pc'[Cmd(d)] # "failed"
                         /\ pc'[Cmd(d)] \in {"ping", "call"} => seen'[Cmd(d)] = p
  BY DEF DueInv, Calm
<1>2. p \in Starts /\ pc[Cli(p)] = "ok"
  BY DEF TInv, TypeOK, DueInv
<1>3. pc'[Cli(p)] = "ok" /\ (Alive(p)' => Alive(p))
  BY <1>1, <1>2, InProcs, CmdsApart DEF Alive
<1>4. CASE d = c
  BY <1>1, <1>3, <1>4
<1>5. CASE d # c
  BY <1>1, <1>3, <1>5, InProcs, CmdsApart DEF DueInv
<1> QED BY <1>3, <1>4, <1>5

LEMMA InitDueInv == Init => DueInv
BY DEF Init, DueInv

LEMMA StepDueInv == TInv /\ IInv /\ CalmInv /\ DueInv /\ [Next]_vars => DueInv'
<1> SUFFICES ASSUME TInv, IInv, CalmInv, DueInv, [Next]_vars PROVE DueInv'
  OBVIOUS
<1>c. Calm' => Calm
  BY CalmStays
<1>m. ASSUME NEW x \in Procs, NEW from, NEW to, Move(x, from, to)
      PROVE  /\ Step(x, from, to) /\ seen' = seen /\ term' = term
             /\ \A y \in Procs : y # x => seen'[y] = seen[y]
             /\ scenario' = scenario /\ due' = due /\ term \subseteq term'
  BY <1>m DEF Move, past
<1>1. ASSUME NEW x \in Procs, \A c \in 1 .. MaxCalls : x # Cmd(c), ProcStep(x) PROVE DueInv'
  <2>1. \E from \in {"look", "probe", "signal", "unlink"} : \E to : Step(x, from, to)
    BY <1>1 DEF ProcStep, Look, ReadState, ReadStateOr, SignalFails, RemoveStale, Unlink, Move
  <2>2. /\ \A y \in Procs : y # x => seen'[y] = seen[y]
        /\ scenario' = scenario /\ due' = due /\ term \subseteq term'
    BY <1>1 DEF ProcStep, Look, ReadState, ReadStateOr, SignalFails, RemoveStale, Unlink, Move, past,
       TInv, TypeOK
  <2> QED BY <1>c, <1>1, <2>1, <2>2, DueMoves
<1>2. ASSUME NEW p \in Starts,
             ProbeFinds(p) \/ SpawnFails(p) \/ AwaitChild(p) \/ AwaitTimeout(p)
               \/ \E ok \in BOOLEAN : SetupParent(p, ok)
      PROVE  DueInv'
  <2>1. \E from \in {"signal", "spawn", "wait", "setup"} : \E to : Move(Cli(p), from, to)
    BY <1>2 DEF ProbeFinds, SpawnFails, AwaitChild, AwaitOr, AwaitTimeout, SetupParent
  <2> QED BY <1>c, <1>m, <2>1, InProcs, CmdsApart, DueMoves
<1>3. ASSUME NEW p \in Starts, NEW from, NEW to, from \notin {"ok", "none", "dead"},
             Step(Srv(p), from, to), seen' = seen, scenario' = scenario, due' = due, term' = term
      PROVE  DueInv'
  BY <1>c, <1>3, InProcs, CmdsApart, DueMoves
<1>4. ASSUME NEW p \in Starts, ServerFinds(p) \/ Exit(p) \/ WriteStateFails(p) \/ Shutdown(p) \/ ShutdownHooks(p)
             \/ \E ok \in BOOLEAN : SetupServer(p, ok) \/ StartupHooks(p, ok) \/ Listen(p, ok)
      PROVE  DueInv'
  <2>1. \E from \in {"signal", "exiting", "create", "write", "serve", "shutdown", "setup", "startup", "listen"} :
          \E to : Step(Srv(p), from, to)
    BY <1>4 DEF ServerFinds, Exit, WriteStateFails, Shutdown, ShutdownHooks, SetupServer, StartupHooks,
       Listen, Attempt, Move
  <2>2. seen' = seen /\ scenario' = scenario /\ due' = due /\ term' = term
    BY <1>4 DEF ServerFinds, Exit, WriteStateFails, Shutdown, ShutdownHooks, SetupServer, StartupHooks,
       Listen, Attempt, Move, past
  <2> QED BY <1>3, <2>1, <2>2
<1>5. ASSUME NEW p \in Starts, CreateState(p) \/ WriteState(p) \/ Ready(p) \/ RemoveState(p) PROVE DueInv'
  <2>1. \E from \in {"create", "write", "ready", "remove"} : \E to : Step(Srv(p), from, to)
    BY <1>5 DEF CreateState, WriteState, Ready, ReadyFrom, RemoveState, Unlink
  <2>2. seen' = seen /\ scenario' = scenario /\ due' = due /\ term' = term
    BY <1>5 DEF CreateState, WriteState, Ready, ReadyFrom, RemoveState, Unlink, past
  <2> QED BY <1>3, <2>1, <2>2
<1>6. ASSUME NEW p \in Starts, Kill(p) PROVE DueInv'
  <2>1. /\ Step(Srv(p), pc[Srv(p)], "dead") /\ pc[Srv(p)] \notin {"ok", "none", "dead"}
        /\ seen' = seen /\ scenario' = scenario /\ due' = due /\ term' = term
    BY <1>6 DEF Kill, Step, Alive, TInv, Returned
  <2> QED BY <1>3, <2>1
<1>7. ASSUME NEW p \in Starts, Spawn(p) \/ StartForeground(p) PROVE DueInv'
  <2>1. /\ pc[Cli(p)] \in {"idle", "spawn"}
        /\ \E to : pc' = [pc EXCEPT ![Cli(p)] = to, ![Srv(p)] = "look"]
        /\ scenario' = scenario /\ due' = due /\ term' = term /\ seen' = seen
    BY <1>7 DEF Spawn, StartForeground, Issue, past
  <2>2. \A q \in Starts : q # p => pc'[Cli(q)] = pc[Cli(q)] /\ pc'[Srv(q)] = pc[Srv(q)]
    BY <2>1, InProcs, Distinct DEF TInv, TypeOK
  <2>3. \A c \in 1 .. MaxCalls : pc'[Cmd(c)] = pc[Cmd(c)]
    BY <2>1, InProcs, CmdsApart DEF TInv, TypeOK
  <2> QED BY <1>c, <2>1, <2>2, <2>3, DueKeeps DEF Alive
<1>8. ASSUME NEW q \in 1 .. MaxStops, Stop(q) \/ StopSignals(q) PROVE DueInv'
  <2>1. \E from \in {"idle", "signal"} : \E to : Step(Stp(q), from, to)
    BY <1>8 DEF Stop, Issue, StopSignals, StopSignalsOr, Step
  <2>2. seen' = seen /\ scenario' = scenario /\ due' = due /\ term \subseteq term'
    BY <1>8 DEF Stop, Issue, StopSignals, StopSignalsOr, past
  <2> QED BY <1>c, <2>1, <2>2, InProcs, CmdsApart, DueMoves
<1>s. ASSUME NEW p \in Starts, Start(p) PROVE DueInv'
  <2>1. Step(Cli(p), "idle", "look") /\ seen' = seen /\ scenario' = scenario /\ due' = due /\ term' = term
    BY <1>s DEF Start, Issue, Step
  <2> QED BY <1>c, <2>1, InProcs, CmdsApart, DueMoves
<1>9. ASSUME NEW c \in 1 .. MaxCalls, Call(c) PROVE DueInv'
  <2>1. /\ Step(Cmd(c), "idle", "discover") /\ scenario' = scenario /\ term' = term /\ seen' = seen
        /\ due' = [due EXCEPT ![c] = {p \in Starts : pc[Cli(p)] = "ok" /\ Alive(p) /\ p \notin term}]
    BY <1>9 DEF Call, Issue, Step
  <2>2. /\ pc'[Cmd(c)] = "discover" /\ \A y \in Procs : y # Cmd(c) => pc'[y] = pc[y]
    BY <2>1, InProcs DEF Step, TInv, TypeOK
  <2> SUFFICES ASSUME Calm, ~scenario.slow, NEW d \in 1 .. MaxCalls, NEW p \in due'[d]
               PROVE  /\ pc'[Cli(p)] = "ok"
                      /\ Alive(p)' /\ p \notin term =>
                           /\ pc'[Cmd(d)] # "failed"
                           /\ pc'[Cmd(d)] \in {"ping", "call"} => seen'[Cmd(d)] = p
    BY <1>c, <2>1 DEF DueInv
  <2>3. CASE d = c
    <3>1. p \in Starts /\ pc[Cli(p)] = "ok"
      BY <2>1, <2>3 DEF TInv, TypeOK
    <3> QED BY <2>2, <2>3, <3>1, InProcs, CmdsApart
  <2>4. CASE d # c
    <3>1. p \in due[d] /\ p \in Starts
      BY <2>1, <2>4 DEF TInv, TypeOK
    <3>2. pc'[Cli(p)] = pc[Cli(p)] /\ pc'[Srv(p)] = pc[Srv(p)] /\ pc'[Cmd(d)] = pc[Cmd(d)]
      BY <2>2, <2>4, <3>1, InProcs, CmdsApart
    <3> QED BY <2>1, <3>1, <3>2 DEF DueInv, Alive
  <2> QED BY <2>3, <2>4
<1>10. ASSUME NEW c \in 1 .. MaxCalls, NEW p \in due[c], DueInv, Calm, ~scenario.slow, Alive(p), p \notin term
       PROVE  /\ pc[Srv(p)] = "serve" /\ p \in Starts
              /\ ino # 0 /\ content[ino] = p
              /\ pc[Cmd(c)] \in {"ping", "call"} => ~Refuses(c)
  <2>1. p \in Starts /\ pc[Cli(p)] = "ok"
    BY <1>10 DEF DueInv, TInv, TypeOK
  <2>2. pc[Srv(p)] = "serve"
    BY <1>10, <2>1 DEF IInv, PipeTells, WasReady, Alive
  <2>3. ino # 0 /\ content[ino] = p
    BY <1>10, <2>1, <2>2 DEF CalmInv, FileNames, Written
  <2>4. p # Nobody
    BY <2>1 DEF Starts, Nobody
  <2> QED BY <1>10, <2>1, <2>2, <2>3, <2>4 DEF DueInv, Refuses, Bound
<1>11. ASSUME NEW c \in 1 .. MaxCalls, Discover(c) PROVE DueInv'
  <2>1. /\ Step(Cmd(c), "discover", "ping") /\ scenario' = scenario /\ due' = due /\ term' = term
        /\ seen' = [seen EXCEPT ![Cmd(c)] = IF ino = 0 THEN Nobody ELSE content[ino]]
    BY <1>11 DEF Discover, past
  <2>2. /\ seen'[Cmd(c)] = IF ino = 0 THEN Nobody ELSE content[ino]
        /\ \A y \in Procs : y # Cmd(c) => seen'[y] = seen[y]
    BY <2>1, InProcs DEF TInv, TypeOK
  <2> QED BY <1>c, <1>10, <2>1, <2>2, DueCalls
<1>12. ASSUME NEW c \in 1 .. MaxCalls, Ping(c) \/ PingFails(c) \/ DoCall(c) \/ DoCallFails(c)
       PROVE  DueInv'
  <2>1. PICK from \in {"ping", "call"}, to \in {"call", "served", "failed"} :
          /\ Move(Cmd(c), from, to)
          /\ to = "failed" => Refuses(c) \/ scenario.slow
          /\ to = "call" => from = "ping"
    BY <1>12 DEF Ping, PingFails, DoCall, DoCallFails
  <2>2. pc[Cmd(c)] = from
    BY <2>1 DEF Move, Step
  <2>3. ASSUME NEW p \in due[c], Calm, ~scenario.slow, Alive(p), p \notin term
        PROVE  to # "failed" /\ (to \in {"ping", "call"} => seen'[Cmd(c)] = p)
    <3>1. ~Refuses(c) /\ seen[Cmd(c)] = p
      BY <1>10, <2>2, <2>3 DEF DueInv
    <3> QED BY <1>m, <2>1, <2>3, <3>1, InProcs
  <2> QED BY <1>c, <1>m, <2>1, <2>3, InProcs, DueCalls
<1>13. CASE UNCHANGED vars
  BY <1>c, <1>13, DueKeeps DEF vars, past, Alive
<1> QED
  BY <1>1, <1>2, <1>s, <1>4, <1>5, <1>6, <1>7, <1>8, <1>9, <1>11, <1>12, <1>13, InProcs, CmdsApart
     DEF Next, ParentStep, ServerStep, HookStep, StopStep, CallStep

(* A command that is run after `start` has reported a server reaches it,     *)
(* unless it is killed or stopped meanwhile.                                 *)
THEOREM DaemonCallReaches == Spec => []CallReaches
<1>1. DueInv => CallReaches
  BY DEF DueInv, CallReaches
<1> QED
  BY <1>1, InitIInv, StepIInv, InitTInv, StepTInv, InitCalmInv, StepCalmInv, InitDueInv, StepDueInv, PTL
     DEF Spec
=============================================================================
