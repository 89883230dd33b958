--------------------------- MODULE DaemonLifecycle ---------------------------
(***************************************************************************)
(* Starting, stopping and restarting the gateway daemon of one instance    *)
(* (one data directory and port).  Operations of the command line and the  *)
(* daemon's own process meet in four places: the PID file, the lock file   *)
(* beside it, the port, and signals.                                       *)
(*                                                                         *)
(* The operations are StartInstance (by "start", and by "auto" on behalf   *)
(* of "agy-pool run", with RequireSameInstance and NoRestart),             *)
(* StopInstance and RestartInstance; a daemon runs RunForeground.          *)
(***************************************************************************)
EXTENDS Naturals

CONSTANTS
    Pids,         \* processes the operations may spawn, and former ones
    Ops,          \* operations
    Kind,         \* "start", "auto", "stop" or "restart"
    Config,       \* the configuration file an operation names
    Version,      \* the binary an operation runs, and so the daemon it spawns
    NoPid,        \* no process
    Garbage,      \* content of a malformed PID file
    Foreign       \* a listener that is not ours

ASSUME LifecycleAssumption ==
    /\ Kind \in [Ops -> {"start", "auto", "stop", "restart"}]
    /\ NoPid \notin Pids /\ Garbage \notin Pids /\ Foreign \notin Pids
    /\ Garbage # NoPid /\ Foreign # NoPid

VARIABLES
    file,         \* the PID in the PID file
    lock,         \* holder of the PID file's lock
    port,         \* who listens on the port
    proc,         \* where each process is
    spawner,      \* the operation whose configuration and binary it has
    term,         \* processes with a SIGTERM their handler has not seen
    pc,           \* where each operation is
    resume,       \* where an operation goes on after stopWithFile
    seen,         \* the PID stopWithFile works on
    child,        \* the process it spawned
    result,       \* the PID a start reports
    overlapped    \* operations of several terminals have overlapped

system == <<file, lock, port, proc, spawner, term>>
local == <<resume, seen, child, result>>
vars == <<system, pc, local, overlapped>>

ProcState == {"unused", "born", "locked", "bound", "written", "serving", "draining",
              "unlinking", "closing", "dead", "reused"}
PC == {"idle", "check", "restart", "stop", "remove_stale", "remove_reused", "signal",
       "wait_exit", "owned", "unlink_owned", "wait_port", "spawn", "poll", "confirm",
       "reap", "reaped", "unlink_child", "ok", "error"}
Final == {"ok", "error"}

\* The type invariant of the lifecycle.
TypeOK ==
    /\ file \in Pids \cup {NoPid, Garbage}
    /\ lock \in Pids \cup {NoPid}
    /\ port \in Pids \cup {NoPid, Foreign}
    /\ proc \in [Pids -> ProcState]
    /\ spawner \in [Pids -> Ops]
    /\ term \subseteq {p \in Pids : proc[p] = "serving"}
    /\ pc \in [Ops -> PC]
    /\ resume \in [Ops -> {"end", "wait_port", "spawn"}]
    /\ seen \in [Ops -> Pids \cup {NoPid}]
    /\ child \in [Ops -> Pids \cup {NoPid}]
    /\ result \in [Ops -> Pids \cup {NoPid}]
    /\ overlapped \in BOOLEAN

\* A daemon may be running, have left its PID file behind, or its PID may belong
\* to another program by now.
Init ==
    /\ proc \in [Pids -> {"unused", "serving", "dead", "reused"}]
    /\ \E p \in Pids : \A q \in Pids \ {p} : proc[q] = "unused"
    /\ \E o \in Ops : spawner = [p \in Pids |-> o]
    /\ LET live == {p \in Pids : proc[p] = "serving"}
           past == {p \in Pids : proc[p] # "unused"}
       IN /\ file \in IF live # {} THEN live ELSE past \cup {NoPid, Garbage}
          /\ lock \in IF live # {} THEN live ELSE {NoPid}
          /\ port \in IF live # {} THEN live ELSE {NoPid, Foreign}
    /\ term = {}
    /\ pc = [o \in Ops |-> "idle"]
    /\ resume = [o \in Ops |-> "end"]
    /\ seen = [o \in Ops |-> NoPid]
    /\ child = [o \in Ops |-> NoPid]
    /\ result = [o \in Ops |-> NoPid]
    /\ overlapped = FALSE

\* IsProcessAlive and IsAgyPoolProcess.
Alive(p) == proc[p] \notin {"unused", "dead"}
IsAgyPool(p) == Alive(p) /\ proc[p] # "reused"

\* GetDaemonInfo finds a daemon.
Recorded == file \in Pids /\ IsAgyPool(file)

\* IsPortListening: a connection succeeds, whoever accepts it.
Listening == port # NoPid

Outdated(o) == Version[spawner[file]] # Version[o]
OtherConfig(o, p) == Config[spawner[p]] # Config[o]

Goto(o, l) == pc' = [pc EXCEPT ![o] = l]

---------------------------------------------------------------------------
(* The daemon.                                                             *)

\* A process is gone, with its locks and its listener; its files stay.
Ends(p) ==
    /\ proc' = [proc EXCEPT ![p] = "dead"]
    /\ lock' = IF lock = p THEN NoPid ELSE lock
    /\ port' = IF port = p THEN NoPid ELSE port
    /\ term' = term \ {p}

Becomes(p, s) == proc' = [proc EXCEPT ![p] = s]

\* TryAcquirePIDLock does not wait: without the lock the daemon exits.
TakeLock(p) ==
    /\ proc[p] = "born"
    /\ \/ lock = NoPid /\ lock' = p /\ Becomes(p, "locked") /\ UNCHANGED <<port, term>>
       \/ lock # NoPid /\ Ends(p)
    /\ UNCHANGED <<file, spawner, pc, local>>

\* net.Listen.
Bind(p) ==
    /\ proc[p] = "locked"
    /\ \/ port = NoPid /\ port' = p /\ Becomes(p, "bound") /\ UNCHANGED <<lock, term>>
       \/ port # NoPid /\ Ends(p)
    /\ UNCHANGED <<file, spawner, pc, local>>

\* WritePIDFile replaces the file, or fails and the daemon exits.
WritePID(p) ==
    /\ proc[p] = "bound"
    /\ \/ file' = p /\ Becomes(p, "written") /\ UNCHANGED <<lock, port, term>>
       \/ Ends(p) /\ UNCHANGED file
    /\ UNCHANGED <<spawner, pc, local>>

\* From here on SIGTERM is handled; before, it kills the process.
Serve(p) ==
    /\ proc[p] = "written"
    /\ Becomes(p, "serving")
    /\ UNCHANGED <<file, lock, port, spawner, term, pc, local>>

\* Shutdown closes the listener and then waits for requests under way.
Drain(p) ==
    /\ proc[p] = "serving" /\ p \in term
    /\ Becomes(p, "draining")
    /\ port' = NoPid
    /\ term' = term \ {p}
    /\ UNCHANGED <<file, lock, spawner, pc, local>>

\* Serve returns an error: the shutdown is the same.
ServeFails(p) ==
    /\ proc[p] = "serving"
    /\ Becomes(p, "draining")
    /\ port' = NoPid
    /\ term' = term \ {p}
    /\ UNCHANGED <<file, lock, spawner, pc, local>>

\* RemovePIDFileIfOwned in the daemon: reading the file ...
ReadOwn(p) ==
    /\ proc[p] = "draining"
    /\ Becomes(p, IF file = p THEN "unlinking" ELSE "closing")
    /\ UNCHANGED <<file, lock, port, spawner, term, pc, local>>

\* ... and removing it.
UnlinkOwn(p) ==
    /\ proc[p] = "unlinking"
    /\ file' = NoPid
    /\ Becomes(p, "closing")
    /\ UNCHANGED <<lock, port, spawner, term, pc, local>>

\* The lock is given back last.
Exit(p) ==
    /\ proc[p] = "closing"
    /\ Ends(p)
    /\ UNCHANGED <<file, spawner, pc, local>>

Daemon(p) ==
    \/ TakeLock(p) \/ Bind(p) \/ WritePID(p) \/ Serve(p)
    \/ Drain(p) \/ ReadOwn(p) \/ UnlinkOwn(p) \/ Exit(p)

\* A daemon dies without running its deferred calls.
Crash(p) ==
    /\ IsAgyPool(p)
    /\ Ends(p)
    /\ UNCHANGED <<file, spawner, pc, local>>

\* A foreign listener goes away.
ForeignLeaves ==
    /\ port = Foreign
    /\ port' = NoPid
    /\ UNCHANGED <<file, lock, proc, spawner, term, pc, local>>

---------------------------------------------------------------------------
(* stopWithFile.                                                           *)

\* Where an operation goes on when stopWithFile returns: a restart ignores its
\* error.
StopReturns(o, good) ==
    Goto(o, CASE resume[o] = "wait_port" -> "wait_port"
              [] resume[o] = "spawn" -> IF good THEN "spawn" ELSE "error"
              [] resume[o] = "end" -> IF good THEN "ok" ELSE "error")

\* The PID file is absent, or malformed with somebody on the port, or names a
\* daemon with another configuration: nothing is done.
StopRefused(o) ==
    /\ pc[o] = "stop"
    /\ \/ file = NoPid
       \/ file = Garbage /\ Listening
       \/ Recorded /\ OtherConfig(o, file)
    /\ StopReturns(o, FALSE)
    /\ UNCHANGED <<system, local>>

\* A record of another configuration counts as stale.
StopStaleConfig(o) ==
    /\ pc[o] = "stop"
    /\ \/ file = Garbage /\ ~Listening /\ Goto(o, "remove_stale")
       \/ file \in Pids /\ ~Alive(file) /\ Goto(o, "remove_stale")
       \/ file \in Pids /\ (proc[file] = "reused" \/ OtherConfig(o, file)) /\ Goto(o, "remove_reused")
    /\ UNCHANGED <<system, local>>

\* It is malformed, or names a process that is dead or another program.
StopStale(o) ==
    /\ pc[o] = "stop"
    /\ \/ file = Garbage /\ ~Listening /\ Goto(o, "remove_stale")
       \/ file \in Pids /\ ~Alive(file) /\ Goto(o, "remove_stale")
       \/ file \in Pids /\ proc[file] = "reused" /\ Goto(o, "remove_reused")
    /\ UNCHANGED <<system, local>>

\* os.Remove of the stale file, whatever it contains by now.
RemoveStale(o) ==
    /\ pc[o] \in {"remove_stale", "remove_reused"}
    /\ file' = NoPid
    /\ StopReturns(o, pc[o] = "remove_stale")
    /\ UNCHANGED <<lock, port, proc, spawner, term, local>>

\* The record is that of a live daemon with this configuration.
StopIdentified(o) ==
    /\ pc[o] = "stop"
    /\ Recorded /\ ~OtherConfig(o, file)
    /\ seen' = [seen EXCEPT ![o] = file]
    /\ Goto(o, "signal")
    /\ UNCHANGED <<system, resume, child, result>>

\* SIGTERM reaches the handler, kills a daemon that has none yet, and is lost on
\* one that is shutting down or gone.
Signal(o) ==
    /\ pc[o] = "signal"
    /\ LET p == seen[o] IN
       \/ proc[p] = "serving" /\ term' = term \cup {p} /\ UNCHANGED <<lock, port, proc>>
       \/ proc[p] \in {"born", "locked", "bound", "written"} /\ Ends(p)
       \/ proc[p] \in {"draining", "unlinking", "closing", "dead"} /\ UNCHANGED <<lock, port, proc, term>>
    /\ Goto(o, "wait_exit")
    /\ UNCHANGED <<file, spawner, local>>

\* The exit is not waited for.
SawSignal(o) ==
    /\ pc[o] = "wait_exit"
    /\ Goto(o, "owned")
    /\ UNCHANGED <<system, local>>

\* The poll finds the process gone.
SawExit(o) ==
    /\ pc[o] = "wait_exit" /\ ~Alive(seen[o])
    /\ Goto(o, "owned")
    /\ UNCHANGED <<system, local>>

\* Requests under way may take as long as the poll; the handler itself does not.
StopTimesOut(o) ==
    /\ pc[o] = "wait_exit" /\ proc[seen[o]] \in {"draining", "unlinking", "closing"}
    /\ StopReturns(o, FALSE)
    /\ UNCHANGED <<system, local>>

\* RemovePIDFileIfOwned: reading the file ...
ReadOwned(o) ==
    /\ pc[o] = "owned"
    /\ IF file = seen[o] THEN Goto(o, "unlink_owned") ELSE StopReturns(o, TRUE)
    /\ UNCHANGED <<system, local>>

\* ... and removing it.
UnlinkOwned(o) ==
    /\ pc[o] = "unlink_owned"
    /\ file' = NoPid
    /\ StopReturns(o, TRUE)
    /\ UNCHANGED <<lock, port, proc, spawner, term, local>>

---------------------------------------------------------------------------
(* StartInstance.                                                          *)

Found(o) == Recorded /\ Listening
Acceptable(o) == Found(o) /\ ~Outdated(o) /\ (Kind[o] = "auto" => ~OtherConfig(o, file))

\* A daemon is running: it is not started again, whatever its configuration
\* unless the start is automatic.
AlreadyRunning(o) ==
    /\ pc[o] = "check" /\ Acceptable(o)
    /\ result' = [result EXCEPT ![o] = file]
    /\ Goto(o, "ok")
    /\ UNCHANGED <<system, resume, seen, child>>

\* An outdated daemon is stopped first.
StopOutdated(o) ==
    /\ pc[o] = "check" /\ Kind[o] # "auto"
    /\ Found(o) /\ Outdated(o)
    /\ resume' = [resume EXCEPT ![o] = "spawn"]
    /\ Goto(o, "stop")
    /\ UNCHANGED <<system, seen, child, result>>

\* An automatic start takes no other daemon, and none does without the port.
StartRefused(o) ==
    /\ pc[o] = "check" /\ Listening
    /\ Recorded => Kind[o] = "auto" /\ ~Acceptable(o)
    /\ Goto(o, "error")
    /\ UNCHANGED <<system, local>>

NothingRuns(o) ==
    /\ pc[o] = "check" /\ ~Listening
    /\ Goto(o, "spawn")
    /\ UNCHANGED <<system, local>>

Spawn(o) ==
    /\ pc[o] = "spawn"
    /\ \E p \in Pids :
        /\ proc[p] = "unused"
        /\ Becomes(p, "born")
        /\ spawner' = [spawner EXCEPT ![p] = o]
        /\ child' = [child EXCEPT ![o] = p]
    /\ Goto(o, "poll")
    /\ UNCHANGED <<file, lock, port, term, resume, seen, result>>

\* The log cannot be opened, or the process not be created.
SpawnFails(o) ==
    /\ pc[o] = "spawn"
    /\ Goto(o, "error")
    /\ UNCHANGED <<system, local>>

\* The readiness handshake: some daemon is recorded and the port answers.
Ready(o) ==
    /\ pc[o] = "poll"
    /\ Recorded /\ Listening
    /\ Goto(o, "confirm")
    /\ UNCHANGED <<system, local>>

\* Two seconds have passed, or the child has exited.
NotReady(o) ==
    /\ pc[o] = "poll"
    /\ Goto(o, "reap")
    /\ UNCHANGED <<system, local>>

\* The PID file is read once more for the PID to report.
Confirm(o) ==
    /\ pc[o] = "confirm"
    /\ IF Recorded
       THEN result' = [result EXCEPT ![o] = file] /\ Goto(o, "ok")
       ELSE Goto(o, "reap") /\ UNCHANGED result
    /\ UNCHANGED <<system, resume, seen, child>>

\* The child is left alone.
ReapNothing(o) ==
    /\ pc[o] = "reap"
    /\ Goto(o, "reaped")
    /\ UNCHANGED <<system, local>>

\* The child is waited for but not killed.
ReapWaits(o) ==
    /\ pc[o] = "reap" /\ ~Alive(child[o])
    /\ Goto(o, "reaped")
    /\ UNCHANGED <<system, local>>

\* The child is killed and waited for.
Reap(o) ==
    /\ pc[o] = "reap"
    /\ Ends(child[o])
    /\ Goto(o, "reaped")
    /\ UNCHANGED <<file, spawner, local>>

\* RemovePIDFileIfOwned: reading the file ...
ReadChild(o) ==
    /\ pc[o] = "reaped"
    /\ Goto(o, IF file = child[o] THEN "unlink_child" ELSE "error")
    /\ UNCHANGED <<system, local>>

\* ... and removing it.
UnlinkChild(o) ==
    /\ pc[o] = "unlink_child"
    /\ file' = NoPid
    /\ Goto(o, "error")
    /\ UNCHANGED <<lock, port, proc, spawner, term, local>>

---------------------------------------------------------------------------
(* RestartInstance and the beginning of each operation.                    *)

\* A foreign program on the port or under the recorded PID is left alone.
RestartRefused(o) ==
    /\ pc[o] = "restart"
    /\ \/ file \in {NoPid, Garbage} /\ Listening
       \/ file \in Pids /\ ~Alive(file) /\ Listening
       \/ file \in Pids /\ proc[file] = "reused"
    /\ Goto(o, "error")
    /\ UNCHANGED <<system, local>>

\* The running daemon is not stopped.
RestartSkipsStop(o) ==
    /\ pc[o] = "restart"
    /\ Recorded \/ (~Listening /\ ~(file \in Pids /\ Alive(file)))
    /\ Goto(o, "wait_port")
    /\ UNCHANGED <<system, local>>

\* stopWithFile runs, and its error is dropped.
RestartStops(o) ==
    /\ pc[o] = "restart"
    /\ Recorded \/ (~Listening /\ ~(file \in Pids /\ Alive(file)))
    /\ resume' = [resume EXCEPT ![o] = "wait_port"]
    /\ Goto(o, "stop")
    /\ UNCHANGED <<system, seen, child, result>>

\* Three seconds are given to the port.
WaitPort(o) ==
    /\ pc[o] = "wait_port"
    /\ Goto(o, "check")
    /\ UNCHANGED <<system, local>>

\* A command is given, in another terminal perhaps while one is under way.
Begin(o) ==
    /\ pc[o] = "idle"
    /\ overlapped' = (overlapped \/ \E q \in Ops : pc[q] \notin Final \cup {"idle"})
    /\ Goto(o, CASE Kind[o] = "stop" -> "stop" [] Kind[o] = "restart" -> "restart" [] OTHER -> "check")
    /\ UNCHANGED <<system, local>>

Stopping(o) ==
    \/ StopRefused(o) \/ StopStale(o) \/ RemoveStale(o) \/ StopIdentified(o) \/ Signal(o)
    \/ SawExit(o) \/ StopTimesOut(o) \/ ReadOwned(o) \/ UnlinkOwned(o)
Starting(o) ==
    \/ AlreadyRunning(o) \/ StopOutdated(o) \/ StartRefused(o) \/ NothingRuns(o)
    \/ Spawn(o) \/ SpawnFails(o) \/ Ready(o) \/ NotReady(o) \/ Confirm(o)
    \/ Reap(o) \/ ReadChild(o) \/ UnlinkChild(o)
Step(o) ==
    /\ Stopping(o) \/ Starting(o) \/ RestartRefused(o) \/ RestartStops(o) \/ WaitPort(o)
    /\ UNCHANGED overlapped

DaemonStep(p) == Daemon(p) /\ UNCHANGED overlapped

\* Daemons fail and foreign listeners leave.
Disturbance ==
    /\ ForeignLeaves \/ \E p \in Pids : ServeFails(p) \/ Crash(p)
    /\ UNCHANGED overlapped

Next ==
    \/ \E o \in Ops : Begin(o) \/ Step(o)
    \/ \E p \in Pids : DaemonStep(p)
    \/ Disturbance

Spec == Init /\ [][Next]_vars

\* Operations and daemons keep running.
FairSpec ==
    /\ Spec
    /\ \A o \in Ops : WF_vars(Step(o))
    /\ \A p \in Pids : WF_vars(DaemonStep(p))

---------------------------------------------------------------------------
(* Properties.                                                             *)

\* A start reports a daemon that listened on the port before it was recorded,
\* never a process still on its way there (TestConcurrentStart_Protection).
ReportedHasListened ==
    \A o \in Ops : result[o] # NoPid => proc[result[o]] \notin {"unused", "born", "locked", "bound"}

\* A start that fails leaves no child of its own behind ("never leave it
\* starting in the background", lifecycle.go).
NoOrphan ==
    \A o \in Ops : pc[o] = "error" /\ child[o] # NoPid => ~Alive(child[o])

\* A restart that meets a daemon of another configuration has another binary.
\* Otherwise StartInstance takes that daemon as the restarted one, the error of
\* stopWithFile having been dropped.
RestartsMeetTheirOwn ==
    \A o, q \in Ops : Kind[o] = "restart" /\ Config[q] # Config[o] => Version[q] # Version[o]

\* RestartInstance "stops the existing daemon for ctx, waits for port release,
\* and starts the new daemon": while operations come one at a time, the daemon a
\* restart reports is a new one.
RestartReplaces ==
    ~overlapped /\ RestartsMeetTheirOwn =>
        \A o \in Ops : Kind[o] = "restart" /\ pc[o] = "ok" => result[o] = child[o]

\* What a start or a restart reports is true, a success as well as a failure.
StartIsTrue == ReportedHasListened /\ NoOrphan /\ RestartReplaces

\* While operations come one at a time, a daemon that serves is recorded: "stop",
\* "status" and the next "start" find it, whatever crashed before.
ServingIsRecorded == ~overlapped => \A p \in Pids : proc[p] = "serving" => file = p

\* While operations come one at a time, nothing serves when a stop has reported success.
StopStops ==
    [][~overlapped' => \A o \in Ops : Kind[o] = "stop" /\ pc[o] # "ok" /\ pc'[o] = "ok"
        => \A p \in Pids : proc'[p] # "serving"]_vars

\* RemovePIDFileIfOwned "unlinks the PID file ONLY if it currently contains
\* expectedPID".
UnlinksOnlyOwned ==
    [][\A o \in Ops :
        /\ pc[o] = "unlink_owned" /\ pc'[o] # pc[o] => file \in {seen[o], NoPid}
        /\ pc[o] = "unlink_child" /\ pc'[o] # pc[o] => file \in {child[o], NoPid}]_vars

\* Every operation ends: whoever it waits for exits or is killed.
EveryOperationEnds == \A o \in Ops : pc[o] # "idle" ~> pc[o] \in Final

=============================================================================
