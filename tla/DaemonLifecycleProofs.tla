----------------------- MODULE DaemonLifecycleProofs -----------------------
(***************************************************************************)
(* Proofs about the daemon's life cycle: what starts and restarts report   *)
(* is true, what serves is recorded, and a stop that reports success has   *)
(* stopped it.                                                             *)
(***************************************************************************)
EXTENDS DaemonLifecycle, TLAPS

Bound == {"bound", "written", "serving"}
Holding == Bound \cup {"locked", "draining", "unlinking", "closing"}
Early == {"unused", "born", "locked", "bound"}
Coming == {"born", "locked", "bound"}
Up == {"written", "serving"}

Active(o) == pc[o] \notin Final \cup {"idle"}
Launching == {"poll", "confirm", "reap"}
Launched == Launching \cup {"reaped", "unlink_child"}
StopPC == {"stop", "remove_stale", "remove_reused", "signal", "wait_exit", "owned", "unlink_owned"}
StartPC == {"check", "spawn"} \cup Launched

\* stopWithFile works on the process it has identified.
SeenInv == \A o \in Ops : pc[o] \in {"signal", "wait_exit", "owned", "unlink_owned"} => seen[o] \in Pids

\* Who has the lock and the port; a record is written by who has both.
SystemInv ==
    /\ \A p \in Pids : lock = p <=> proc[p] \in Holding
    /\ \A p \in Pids : port = p <=> proc[p] \in Bound
    /\ port = Foreign => \A p \in Pids : proc[p] \notin Holding \ {"locked"}
    /\ file \in Pids => proc[file] \notin Early
    /\ ReportedHasListened

\* A child is there once it is spawned, and gone once it has been reaped.
ChildInv ==
    \A o \in Ops :
        /\ pc[o] \in Launched => child[o] \in Pids
        /\ pc[o] \notin Launched \cup Final => child[o] = NoPid
        /\ pc[o] \in {"reaped", "unlink_child"} => proc[child[o]] = "dead"
        /\ pc[o] = "error" /\ child[o] # NoPid => proc[child[o]] = "dead"

\* Where an operation of each kind may be.
KindInv ==
    \A o \in Ops :
        /\ pc[o] \in StopPC => (resume[o] = "end" <=> Kind[o] = "stop")
        /\ pc[o] \in StopPC /\ resume[o] = "wait_port" => Kind[o] = "restart"
        /\ pc[o] \in StartPC => Kind[o] # "stop"
        /\ pc[o] \in {"restart", "wait_port"} => Kind[o] = "restart"
        /\ pc[o] = "idle" => resume[o] = "end"
        /\ Kind[o] = "stop" => resume[o] = "end"

Quiet == \A p \in Pids : proc[p] \notin Up

\* What an operation that is alone knows of the daemons.
Knows(o) ==
    /\ pc[o] \in {"remove_stale", "remove_reused", "owned", "unlink_owned", "spawn"} => Quiet
    /\ pc[o] \in {"signal", "wait_exit"} =>
          seen[o] \in Pids /\ \A p \in Pids : proc[p] \in Up => p = seen[o]
    /\ pc[o] = "wait_port" \/ (pc[o] = "check" /\ Kind[o] = "restart") =>
          \A p \in Pids : proc[p] \in Up => OtherConfig(o, p)
    /\ pc[o] \in Launching => \A p \in Pids : proc[p] \in Coming \cup Up => p = child[o]
    /\ pc[o] = "confirm" => file \in {child[o], NoPid}
    /\ pc[o] \in {"reaped", "unlink_child"} => Quiet
    /\ RestartsMeetTheirOwn => (Kind[o] = "restart" /\ pc[o] = "ok" => result[o] = child[o])

\* While operations come one at a time, what is up is recorded, and what is on
\* its way there has been spawned by the operation that waits for it.
OneAtATime == \A o, q \in Ops : Active(o) /\ Active(q) => o = q
Recording == \A p \in Pids : proc[p] \in Up => file = p
Awaited == \A p \in Pids : proc[p] \in Coming => \E o \in Ops : pc[o] \in Launching /\ child[o] = p
SoloInv == OneAtATime /\ Recording /\ Awaited /\ \A o \in Ops : Knows(o)

IInv == TypeOK /\ SeenInv /\ SystemInv /\ ChildInv /\ KindInv /\ (~overlapped => SoloInv)


---------------------------------------------------------------------------
(* The type invariant.                                                     *)

\* Every step of an operation keeps the types.
LEMMA StepType == ASSUME LifecycleAssumption, TypeOK, SeenInv, NEW o \in Ops, Begin(o) \/ Step(o) PROVE TypeOK'
<1> USE DEF TypeOK, Goto, PC, local, system
<1>a. overlapped' \in BOOLEAN
    BY DEF Begin, Step
<1>1. CASE Begin(o)
    BY <1>a, <1>1 DEF Begin
<1>2. CASE StopRefused(o) \/ StopStale(o) \/ SawExit(o) \/ StopTimesOut(o) \/ ReadOwned(o)
    BY <1>a, <1>2 DEF StopRefused, StopStale, SawExit, StopTimesOut, ReadOwned, StopReturns
<1>3. CASE RemoveStale(o) \/ UnlinkOwned(o)
    BY <1>a, <1>3 DEF RemoveStale, UnlinkOwned, StopReturns
<1>4. CASE StopIdentified(o)
    BY <1>a, <1>4 DEF StopIdentified, Recorded
<1>5. CASE Signal(o)
    BY <1>a, <1>5 DEF Signal, SeenInv, Ends, ProcState
<1>6. CASE AlreadyRunning(o) \/ Confirm(o)
    BY <1>a, <1>6 DEF AlreadyRunning, Confirm, Acceptable, Found, Recorded
<1>7. CASE StopOutdated(o) \/ RestartStops(o)
    BY <1>a, <1>7 DEF StopOutdated, RestartStops
<1>8. CASE StartRefused(o) \/ NothingRuns(o) \/ SpawnFails(o) \/ Ready(o) \/ NotReady(o)
            \/ RestartRefused(o) \/ WaitPort(o)
    BY <1>a, <1>8 DEF StartRefused, NothingRuns, SpawnFails, Ready, NotReady, RestartRefused, WaitPort
<1>9. CASE Spawn(o)
    BY <1>a, <1>9 DEF Spawn, Becomes, ProcState
<1>10. CASE Reap(o)
    BY <1>a, <1>10 DEF Reap, Ends, ProcState
<1>11. CASE ReadChild(o) \/ UnlinkChild(o)
    BY <1>a, <1>11 DEF ReadChild, UnlinkChild
<1> QED
    BY <1>1, <1>2, <1>3, <1>4, <1>5, <1>6, <1>7, <1>8, <1>9, <1>10, <1>11
    DEF Step, Stopping, Starting

\* Every step of a daemon keeps the types.
LEMMA DaemonType ==
    ASSUME LifecycleAssumption, TypeOK, NEW p \in Pids,
           DaemonStep(p) \/ ServeFails(p) \/ Crash(p), overlapped' = overlapped
    PROVE  TypeOK'
<1> USE DEF TypeOK, ProcState, local, Ends, Becomes
<1>1. CASE TakeLock(p) \/ Bind(p)
    BY <1>1 DEF TakeLock, Bind
<1>2. CASE WritePID(p)
    BY <1>2 DEF WritePID
<1>3. CASE Serve(p) \/ Drain(p) \/ ServeFails(p)
    BY <1>3 DEF Serve, Drain, ServeFails
<1>4. CASE ReadOwn(p) \/ UnlinkOwn(p)
    BY <1>4 DEF ReadOwn, UnlinkOwn
<1>5. CASE Exit(p) \/ Crash(p)
    BY <1>5 DEF Exit, Crash
<1> QED
    BY <1>1, <1>2, <1>3, <1>4, <1>5 DEF DaemonStep, Daemon

LEMMA NextType == LifecycleAssumption /\ TypeOK /\ SeenInv /\ [Next]_vars => TypeOK'
<1> SUFFICES ASSUME LifecycleAssumption, TypeOK, SeenInv, [Next]_vars PROVE TypeOK'
    OBVIOUS
<1>1. CASE ForeignLeaves /\ UNCHANGED overlapped
    BY <1>1 DEF ForeignLeaves, TypeOK, local
<1>2. CASE UNCHANGED vars
    BY <1>2 DEF vars, system, local, TypeOK
<1> QED
    BY <1>1, <1>2, StepType, DaemonType DEF Next, Disturbance, DaemonStep

\* Steps of daemons and of foreign programs leave the operations alone.
LEMMA DaemonLocal ==
    (\E p \in Pids : DaemonStep(p)) \/ Disturbance \/ UNCHANGED vars => UNCHANGED <<pc, local, spawner, overlapped>>
BY DEF DaemonStep, Daemon, Disturbance, ForeignLeaves, ServeFails, Crash, TakeLock, Bind, WritePID, Serve,
       Drain, ReadOwn, UnlinkOwn, Exit, vars, system

LEMMA NextSeen == TypeOK /\ SeenInv /\ [Next]_vars => SeenInv'
<1> SUFFICES ASSUME TypeOK, SeenInv, [Next]_vars PROVE SeenInv'
    OBVIOUS
<1> USE DEF TypeOK, SeenInv, Goto, local
<1>1. ASSUME NEW o \in Ops, Begin(o) PROVE SeenInv'
    BY <1>1 DEF Begin
<1>2. ASSUME NEW o \in Ops, Stopping(o) PROVE SeenInv'
    <2>1. CASE StopIdentified(o)
        BY <2>1 DEF StopIdentified, Recorded
    <2>2. CASE Signal(o) \/ SawExit(o)
        BY <2>2 DEF Signal, SawExit
    <2>3. CASE StopRefused(o) \/ StopStale(o) \/ RemoveStale(o)
        BY <2>3 DEF StopRefused, StopStale, RemoveStale, StopReturns
    <2>4. CASE StopTimesOut(o) \/ ReadOwned(o) \/ UnlinkOwned(o)
        BY <2>4 DEF StopTimesOut, ReadOwned, UnlinkOwned, StopReturns
    <2> QED
        BY <1>2, <2>1, <2>2, <2>3, <2>4 DEF Stopping
<1>3. ASSUME NEW o \in Ops, Starting(o) \/ RestartRefused(o) \/ RestartStops(o) \/ WaitPort(o) PROVE SeenInv'
    BY <1>3 DEF Starting, RestartRefused, RestartStops, WaitPort, AlreadyRunning, StopOutdated, StartRefused,
       NothingRuns, Spawn, SpawnFails, Ready, NotReady, Confirm, Reap, ReadChild, UnlinkChild
<1>4. CASE UNCHANGED <<pc, local, spawner, overlapped>>
    BY <1>4
<1> QED
    BY <1>1, <1>2, <1>3, <1>4, DaemonLocal DEF Next, Step

LEMMA InitType == Init => TypeOK
<1> SUFFICES ASSUME Init PROVE TypeOK
    OBVIOUS
<1>1. file \in Pids \cup {NoPid, Garbage} /\ lock \in Pids \cup {NoPid} /\ port \in Pids \cup {NoPid, Foreign}
    BY DEF Init
<1>2. proc \in [Pids -> ProcState] /\ spawner \in [Pids -> Ops] /\ term = {}
    BY DEF Init, ProcState
<1>3. /\ pc \in [Ops -> PC] /\ overlapped \in BOOLEAN
      /\ resume \in [Ops -> {"end", "wait_port", "spawn"}]
    BY DEF Init, PC
<1>4. /\ seen \in [Ops -> Pids \cup {NoPid}] /\ child \in [Ops -> Pids \cup {NoPid}]
      /\ result \in [Ops -> Pids \cup {NoPid}]
    BY DEF Init
<1> QED
    BY <1>1, <1>2, <1>3, <1>4 DEF TypeOK

\* The type invariant holds of the life cycle.
THEOREM TypeCorrect == Spec => []TypeOK
<1>1. Init => TypeOK
    BY InitType
<1>2. Init => SeenInv
    BY DEF Init, SeenInv
<1>3. TypeOK /\ SeenInv /\ [Next]_vars => TypeOK' /\ SeenInv'
    BY NextType, NextSeen, LifecycleAssumption
<1> QED
    BY <1>1, <1>2, <1>3, PTL DEF Spec

---------------------------------------------------------------------------
(* The lock, the port and the record.                                      *)

\* A process that ends gives back what it has.
LEMMA EndsKeeps ==
    ASSUME LifecycleAssumption, TypeOK, SystemInv, NEW p \in Pids \cup {NoPid}, Ends(p),
           file' = file, result' = result
    PROVE  SystemInv'
<1> USE DEF TypeOK, SystemInv, ReportedHasListened, Ends, Bound, Holding, Early, LifecycleAssumption
<1>1. \A q \in Pids : q # p => proc'[q] = proc[q]
    OBVIOUS
<1>2. p \in Pids => proc'[p] = "dead"
    OBVIOUS
<1>3. \A q \in Pids : lock' = q <=> proc'[q] \in Holding
    BY <1>1, <1>2
<1>4. \A q \in Pids : port' = q <=> proc'[q] \in Bound
    BY <1>1, <1>2
<1>5. port' = Foreign => \A q \in Pids : proc'[q] \notin Holding \ {"locked"}
    BY <1>1, <1>2
<1>6. file' \in Pids => proc'[file'] \notin Early
    BY <1>1, <1>2
<1>7. ReportedHasListened'
    BY <1>1, <1>2
<1> QED
    BY <1>3, <1>4, <1>5, <1>6, <1>7

\* A step of a daemon keeps SystemInv.
LEMMA DaemonSystem ==
    ASSUME LifecycleAssumption, TypeOK, SystemInv, NEW p \in Pids, Daemon(p) \/ ServeFails(p) \/ Crash(p)
    PROVE  SystemInv'
<1>a. result' = result
    BY DaemonLocal DEF Daemon, ServeFails, Crash, TakeLock, Bind, WritePID, Serve, Drain, ReadOwn, UnlinkOwn, Exit, local
<1>b. CASE Ends(p) /\ file' = file
    BY <1>a, <1>b, EndsKeeps
<1> USE <1>a DEF TypeOK, SystemInv, ReportedHasListened, Becomes, Bound, Holding, Early, LifecycleAssumption
<1>1. CASE TakeLock(p) /\ ~Ends(p)
    BY <1>1 DEF TakeLock
<1>2. CASE Bind(p) /\ ~Ends(p)
    BY <1>2 DEF Bind
<1>3. CASE WritePID(p) /\ ~Ends(p)
    BY <1>3 DEF WritePID
<1>4. CASE Serve(p)
    BY <1>4 DEF Serve
<1>5. CASE Drain(p) \/ ServeFails(p)
    BY <1>5 DEF Drain, ServeFails
<1>6. CASE ReadOwn(p)
    BY <1>6 DEF ReadOwn
<1>7. CASE UnlinkOwn(p)
    BY <1>7 DEF UnlinkOwn
<1> QED
    BY <1>b, <1>1, <1>2, <1>3, <1>4, <1>5, <1>6, <1>7 DEF Daemon, TakeLock, Bind, WritePID, Exit, Crash

\* A step of an operation keeps SystemInv.
LEMMA StepSystem ==
    ASSUME LifecycleAssumption, TypeOK, SystemInv, NEW o \in Ops, Begin(o) \/ Step(o)
    PROVE  SystemInv'
<1>1. CASE UNCHANGED <<system, result>>
    BY <1>1 DEF system, SystemInv, ReportedHasListened
<1>2. CASE RemoveStale(o) \/ UnlinkOwned(o) \/ UnlinkChild(o)
    BY <1>2 DEF RemoveStale, UnlinkOwned, UnlinkChild, local, SystemInv, ReportedHasListened, LifecycleAssumption
<1>3. CASE AlreadyRunning(o) \/ Confirm(o)
    BY <1>3 DEF AlreadyRunning, Confirm, Acceptable, Found, Recorded, system, SystemInv, ReportedHasListened,
       Early, TypeOK
<1>4. CASE Spawn(o)
    BY <1>4 DEF Spawn, Becomes, SystemInv, ReportedHasListened, TypeOK, Bound, Holding, Early, LifecycleAssumption
<1>5. CASE Signal(o)
    <2>1. CASE Ends(seen[o])
        BY <1>5, <2>1, EndsKeeps DEF Signal, local, TypeOK
    <2>2. CASE UNCHANGED <<lock, port, proc>>
        BY <1>5, <2>2 DEF Signal, local, SystemInv, ReportedHasListened
    <2> QED
        BY <1>5, <2>1, <2>2 DEF Signal
<1>6. CASE Reap(o)
    BY <1>6, EndsKeeps DEF Reap, local, TypeOK
<1>7. CASE UNCHANGED <<system, resume, seen, child, result>> \/ UNCHANGED <<system, local>>
    BY <1>1, <1>7 DEF local
<1>8. CASE Begin(o)
    BY <1>7, <1>8 DEF Begin
<1>9. CASE StopIdentified(o) \/ StopOutdated(o) \/ RestartStops(o)
    BY <1>1, <1>9 DEF StopIdentified, StopOutdated, RestartStops
<1>10. CASE StopRefused(o) \/ StopStale(o) \/ SawExit(o) \/ StopTimesOut(o) \/ ReadOwned(o)
    BY <1>7, <1>10 DEF StopRefused, StopStale, SawExit, StopTimesOut, ReadOwned
<1>11. CASE StartRefused(o) \/ NothingRuns(o) \/ SpawnFails(o) \/ Ready(o) \/ NotReady(o) \/ ReadChild(o)
    BY <1>7, <1>11 DEF StartRefused, NothingRuns, SpawnFails, Ready, NotReady, ReadChild
<1>12. CASE RestartRefused(o) \/ WaitPort(o)
    BY <1>7, <1>12 DEF RestartRefused, WaitPort
<1> QED
    BY <1>2, <1>3, <1>4, <1>5, <1>6, <1>8, <1>9, <1>10, <1>11, <1>12 DEF Step, Stopping, Starting

LEMMA NextSystem == LifecycleAssumption /\ TypeOK /\ SystemInv /\ [Next]_vars => SystemInv'
<1> SUFFICES ASSUME LifecycleAssumption, TypeOK, SystemInv, [Next]_vars PROVE SystemInv'
    OBVIOUS
<1>1. CASE ForeignLeaves
    BY <1>1 DEF ForeignLeaves, local, SystemInv, ReportedHasListened, LifecycleAssumption, Bound, TypeOK
<1>2. CASE UNCHANGED vars
    BY <1>2 DEF vars, system, local, SystemInv, ReportedHasListened
<1> QED
    BY <1>1, <1>2, StepSystem, DaemonSystem DEF Next, Disturbance, DaemonStep

LEMMA InitSystem == Init => SystemInv
<1> SUFFICES ASSUME Init PROVE SystemInv
    OBVIOUS
<1> QED
    BY LifecycleAssumption DEF Init, SystemInv, ReportedHasListened, Bound, Holding, Early, LifecycleAssumption

---------------------------------------------------------------------------
(* Where operations are, and their children.                               *)

\* Where stopWithFile returns to.
LEMMA Returns ==
    ASSUME TypeOK, NEW o \in Ops, NEW good \in BOOLEAN, StopReturns(o, good)
    PROVE  /\ \A q \in Ops : q # o => pc'[q] = pc[q]
           /\ resume[o] = "wait_port" => pc'[o] = "wait_port"
           /\ resume[o] = "spawn" => pc'[o] = IF good THEN "spawn" ELSE "error"
           /\ resume[o] = "end" => pc'[o] = IF good THEN "ok" ELSE "error"
BY DEF StopReturns, Goto, TypeOK

\* When the operations in stopWithFile return, with what, and what they change.
StopSteps(o) ==
    \/ StopRefused(o) \/ StopTimesOut(o) \/ RemoveStale(o) \/ UnlinkOwned(o)
    \/ ReadOwned(o) /\ file # seen[o]

LEMMA StopEnds ==
    ASSUME TypeOK, NEW o \in Ops, StopSteps(o)
    PROVE  /\ pc[o] \in StopPC /\ UNCHANGED local /\ UNCHANGED <<lock, port, proc, spawner, term>>
           /\ \E good \in BOOLEAN : StopReturns(o, good)
BY DEF StopSteps, StopRefused, StopTimesOut, RemoveStale, ReadOwned, UnlinkOwned, StopPC, system

\* The other steps move on within stopWithFile.
LEMMA StopMoves ==
    ASSUME TypeOK, NEW o \in Ops, Stopping(o), ~StopSteps(o)
    PROVE  /\ pc[o] \in StopPC /\ \E l \in StopPC : Goto(o, l)
           /\ UNCHANGED <<resume, child, result, spawner>>
<1>1. CASE StopStale(o)
    BY <1>1 DEF StopStale, StopPC, system, local
<1>2. CASE StopIdentified(o)
    BY <1>2 DEF StopIdentified, StopPC, system, local
<1>3. CASE Signal(o)
    BY <1>3 DEF Signal, StopPC, system, local
<1>4. CASE SawExit(o)
    BY <1>4 DEF SawExit, StopPC, system, local
<1>5. CASE ReadOwned(o) /\ file = seen[o]
    BY <1>5 DEF ReadOwned, StopPC, system, local
<1>6. \/ StopStale(o) \/ StopIdentified(o) \/ Signal(o) \/ SawExit(o)
      \/ ReadOwned(o) /\ file = seen[o]
    BY DEF Stopping, StopSteps
<1> QED
    BY <1>1, <1>2, <1>3, <1>4, <1>5, <1>6, Zenon

LEMMA NextKind == LifecycleAssumption /\ TypeOK /\ KindInv /\ [Next]_vars => KindInv'
<1> SUFFICES ASSUME LifecycleAssumption, TypeOK, KindInv, [Next]_vars PROVE KindInv'
    OBVIOUS
<1> USE DEF StartPC, Launched, Launching, StopPC
<1>1. ASSUME NEW o \in Ops, Begin(o) PROVE KindInv'
    <2>1. /\ Kind[o] = "stop" => pc' = [pc EXCEPT ![o] = "stop"]
          /\ Kind[o] = "restart" => pc' = [pc EXCEPT ![o] = "restart"]
          /\ Kind[o] \in {"start", "auto"} => pc' = [pc EXCEPT ![o] = "check"]
        BY <1>1 DEF Begin, Goto
    <2>2. Kind[o] \in {"start", "auto", "stop", "restart"}
        BY DEF LifecycleAssumption
    <2>3. resume' = resume /\ pc[o] = "idle"
        BY <1>1 DEF Begin, local
    <2> QED
        BY <2>1, <2>2, <2>3 DEF KindInv, TypeOK
<1>2. ASSUME NEW o \in Ops, StopSteps(o) PROVE KindInv'
    <2>1. PICK good \in BOOLEAN : StopReturns(o, good)
        BY <1>2, StopEnds
    <2>2. pc[o] \in StopPC /\ resume' = resume
        BY <1>2, StopEnds DEF local
    <2> QED
        BY <2>1, <2>2, Returns DEF KindInv, TypeOK
<1>3. ASSUME NEW o \in Ops, Stopping(o), ~StopSteps(o) PROVE KindInv'
    <2>1. pc[o] \in StopPC /\ resume' = resume /\ \E l \in StopPC : pc' = [pc EXCEPT ![o] = l]
        BY <1>3, StopMoves DEF Goto
    <2> QED
        BY <2>1 DEF KindInv, TypeOK
<1>4. ASSUME NEW o \in Ops, StopOutdated(o) \/ RestartStops(o) PROVE KindInv'
    BY <1>4 DEF StopOutdated, RestartStops, Goto, KindInv, TypeOK
<1>5. ASSUME NEW o \in Ops, Starting(o), ~StopOutdated(o) PROVE KindInv'
    <2>1. /\ pc[o] \in StartPC /\ resume' = resume
          /\ \E l \in (StartPC \ {"check"}) \cup Final : pc' = [pc EXCEPT ![o] = l]
        BY <1>5 DEF Starting, AlreadyRunning, StartRefused, NothingRuns, Spawn, SpawnFails, Ready, NotReady, Confirm,
           Reap, ReadChild, UnlinkChild, Goto, Final, local
    <2> QED
        BY <2>1 DEF KindInv, TypeOK, Final
<1>6. ASSUME NEW o \in Ops, RestartRefused(o) \/ WaitPort(o) PROVE KindInv'
    BY <1>6 DEF RestartRefused, WaitPort, Goto, KindInv, TypeOK, local
<1>7. CASE UNCHANGED <<pc, local, spawner, overlapped>>
    BY <1>7 DEF KindInv, local
<1> QED
    BY <1>1, <1>2, <1>3, <1>4, <1>5, <1>6, <1>7, DaemonLocal DEF Next, Step

\* Nobody comes back to life.
LEMMA DeadStaysDead ==
    ASSUME TypeOK, [Next]_vars, NEW p \in Pids, proc[p] = "dead" PROVE proc'[p] = "dead"
<1>1. \A q \in Pids \cup {NoPid} : Ends(q) => proc'[p] = "dead"
    BY DEF Ends, TypeOK
<1>2. ASSUME NEW q \in Pids, Daemon(q) \/ ServeFails(q) \/ Crash(q) PROVE proc'[p] = "dead"
    BY <1>1, <1>2 DEF Daemon, TakeLock, Bind, WritePID, Serve, Drain, ServeFails, ReadOwn, UnlinkOwn, Exit, Crash,
       Becomes, IsAgyPool, Alive, TypeOK
<1>3. ASSUME NEW o \in Ops, Begin(o) \/ Step(o) PROVE proc'[p] = "dead"
    <2>1. CASE Signal(o) \/ Reap(o)
        BY <1>1, <2>1 DEF Signal, Reap, TypeOK
    <2>2. CASE Spawn(o)
        BY <2>2 DEF Spawn, Becomes, TypeOK
    <2>3. CASE proc' = proc
        BY <2>3
    <2>4. CASE Begin(o) \/ RestartRefused(o) \/ RestartStops(o) \/ WaitPort(o)
        BY <2>3, <2>4 DEF Begin, RestartRefused, RestartStops, WaitPort, system
    <2>5. CASE Stopping(o)
        BY <2>1, <2>3, <2>5 DEF Stopping, StopRefused, StopStale, StopTimesOut, RemoveStale, StopIdentified, SawExit,
           ReadOwned, UnlinkOwned, system
    <2>6. CASE Starting(o)
        BY <2>1, <2>2, <2>3, <2>6 DEF Starting, AlreadyRunning, StopOutdated, StartRefused, NothingRuns, SpawnFails,
           Ready, NotReady, Confirm, ReadChild, UnlinkChild, system
    <2> QED
        BY <1>3, <2>4, <2>5, <2>6 DEF Step
<1> QED
    BY <1>2, <1>3 DEF Next, Disturbance, DaemonStep, ForeignLeaves, vars, system

LEMMA NextChild == LifecycleAssumption /\ TypeOK /\ ChildInv /\ [Next]_vars => ChildInv'
<1> SUFFICES ASSUME LifecycleAssumption, TypeOK, ChildInv, [Next]_vars PROVE ChildInv'
    OBVIOUS
<1>a. \A p \in Pids : proc[p] = "dead" => proc'[p] = "dead"
    BY DeadStaysDead
<1> USE <1>a, LifecycleAssumption DEF Launched, Launching, StopPC, Final, ChildInv, TypeOK, LifecycleAssumption
<1>1. ASSUME NEW o \in Ops, Begin(o) PROVE ChildInv'
    BY <1>1 DEF Begin, Goto, local
<1>2. ASSUME NEW o \in Ops, StopSteps(o) PROVE ChildInv'
    <2>1. PICK good \in BOOLEAN : StopReturns(o, good)
        BY <1>2, StopEnds
    <2>2. pc[o] \in StopPC /\ child' = child
        BY <1>2, StopEnds DEF local
    <2>3. pc'[o] \in {"wait_port", "spawn"} \cup Final /\ \A q \in Ops : q # o => pc'[q] = pc[q]
        BY <2>1, Returns
    <2>4. child[o] = NoPid
        BY <2>2
    <2> QED
        BY <2>2, <2>3, <2>4
<1>3. ASSUME NEW o \in Ops, Stopping(o), ~StopSteps(o) PROVE ChildInv'
    <2>1. pc[o] \in StopPC /\ child' = child /\ \E l \in StopPC : pc' = [pc EXCEPT ![o] = l]
        BY <1>3, StopMoves DEF Goto
    <2> QED
        BY <2>1
<1>4. ASSUME NEW o \in Ops, RestartStops(o) \/ RestartRefused(o) \/ WaitPort(o) PROVE ChildInv'
    BY <1>4 DEF RestartStops, RestartRefused, WaitPort, Goto, local
<1>5. ASSUME NEW o \in Ops, AlreadyRunning(o) \/ StopOutdated(o) \/ StartRefused(o) \/ NothingRuns(o) \/ SpawnFails(o)
      PROVE  ChildInv'
    BY <1>5 DEF AlreadyRunning, StopOutdated, StartRefused, NothingRuns, SpawnFails, Goto, local
<1>6. ASSUME NEW o \in Ops, Spawn(o) PROVE ChildInv'
    BY <1>6 DEF Spawn, Goto
<1>7. ASSUME NEW o \in Ops, Ready(o) \/ NotReady(o) \/ Confirm(o) PROVE ChildInv'
    BY <1>7 DEF Ready, NotReady, Confirm, Goto, local
<1>8. ASSUME NEW o \in Ops, Reap(o) PROVE ChildInv'
    BY <1>8 DEF Reap, Ends, Goto, local
<1>9. ASSUME NEW o \in Ops, ReadChild(o) \/ UnlinkChild(o) PROVE ChildInv'
    BY <1>9 DEF ReadChild, UnlinkChild, Goto, local
<1>10. CASE UNCHANGED <<pc, local, spawner, overlapped>>
    BY <1>10 DEF local
<1> QED
    BY <1>1, <1>2, <1>3, <1>4, <1>5, <1>6, <1>7, <1>8, <1>9, <1>10, DaemonLocal DEF Next, Step, Starting
---------------------------------------------------------------------------
(* Operations that come one at a time.                                     *)

\* A daemon that is found is up.
LEMMA FoundIsUp ==
    ASSUME LifecycleAssumption, TypeOK, SystemInv, Recorded, Listening
    PROVE  file \in Pids /\ proc[file] \in Up
BY DEF LifecycleAssumption, TypeOK, ProcState, SystemInv, Recorded, Listening, IsAgyPool, Alive, Up, Early, Bound, Holding

\* An operation that launches nothing is alone with what is up.
LEMMA NothingComes ==
    ASSUME SoloInv, NEW o \in Ops, Active(o), pc[o] \notin Launching
    PROVE  \A p \in Pids : proc[p] \notin Coming
BY DEF SoloInv, OneAtATime, Awaited, Active, Launching, Final

\* What the step of an operation must keep.
LEMMA SoloFrame ==
    ASSUME SoloInv, NEW o \in Ops, Active(o),
           \A q \in Ops : q # o => pc'[q] = pc[q] /\ result'[q] = result[q] /\ child'[q] = child[q],
           Recording', Awaited', Knows(o)'
    PROVE  SoloInv'
<1>1. \A q \in Ops : q # o => ~Active(q) /\ ~Active(q)'
    BY DEF SoloInv, OneAtATime, Active
<1>2. OneAtATime'
    BY <1>1 DEF OneAtATime
<1>3. ASSUME NEW q \in Ops, q # o PROVE Knows(q)'
    BY <1>1, <1>3 DEF SoloInv, Knows, Active, Final, Launching
<1> QED
    BY <1>2, <1>3 DEF SoloInv

\* The frame of a step that spawns nothing and lets what has been spawned be.
LEMMA SoloMove ==
    ASSUME TypeOK, SoloInv, NEW o \in Ops, Active(o), NEW l, Goto(o, l), child' = child,
           \A q \in Ops : q # o => result'[q] = result[q],
           proc' = proc, file' = file \/ Quiet,
           \/ pc[o] \in Launching => l \in Launching
           \/ \A p \in Pids : proc[p] \notin Coming,
           Knows(o)'
    PROVE  SoloInv'
<1>1. pc' = [pc EXCEPT ![o] = l]
    BY DEF Goto
<1>2. Recording'
    BY DEF SoloInv, Recording, Quiet
<1>3. Awaited'
    BY <1>1, NothingComes DEF SoloInv, Awaited, TypeOK
<1>4. \A q \in Ops : q # o => pc'[q] = pc[q]
    BY <1>1 DEF TypeOK
<1> QED
    BY <1>2, <1>3, <1>4, SoloFrame

\* What stopWithFile knows when it returns.
LEMMA StopKnows ==
    ASSUME LifecycleAssumption, TypeOK, SoloInv, NEW o \in Ops, StopSteps(o)
    PROVE  \E good \in BOOLEAN :
              /\ StopReturns(o, good)
              /\ file' = file \/ Quiet
              /\ good => Quiet
              /\ \A p \in Pids : proc[p] \in Up => OtherConfig(o, p)
<1>1. CASE StopRefused(o)
    <2>1. ASSUME NEW p \in Pids, proc[p] \in Up PROVE OtherConfig(o, p)
        BY <1>1, <2>1 DEF StopRefused, SoloInv, Recording, LifecycleAssumption
    <2> QED
        BY <1>1, <2>1 DEF StopRefused, system
<1>2. CASE StopTimesOut(o)
    <2>1. Quiet
        BY <1>2 DEF StopTimesOut, SoloInv, Knows, Quiet, Up
    <2> QED
        BY <1>2, <2>1 DEF StopTimesOut, Quiet
<1>3. CASE RemoveStale(o) \/ (ReadOwned(o) /\ file # seen[o]) \/ UnlinkOwned(o)
    <2>1. Quiet
        BY <1>3 DEF RemoveStale, ReadOwned, UnlinkOwned, SoloInv, Knows
    <2> QED
        BY <1>3, <2>1 DEF RemoveStale, ReadOwned, UnlinkOwned, Quiet
<1> QED
    BY <1>1, <1>2, <1>3 DEF StopSteps

\* stopWithFile returns.
LEMMA StopEndsSolo ==
    ASSUME LifecycleAssumption, TypeOK, SeenInv, SystemInv, KindInv, SoloInv, NEW o \in Ops, StopSteps(o)
    PROVE  SoloInv'
<1>1. pc[o] \in StopPC /\ UNCHANGED local /\ UNCHANGED <<lock, port, proc, spawner, term>>
    BY StopEnds
<1>2. Active(o) /\ pc[o] \notin Launching
    BY <1>1 DEF StopPC, Active, Final, Launching
<1>3. \A p \in Pids : proc[p] \notin Coming
    BY <1>2, NothingComes
<1>5. PICK good \in BOOLEAN :
          /\ StopReturns(o, good)
          /\ file' = file \/ Quiet
          /\ good => Quiet
          /\ \A p \in Pids : proc[p] \in Up => OtherConfig(o, p)
    BY StopKnows
<1>6. /\ resume[o] = "wait_port" => pc'[o] = "wait_port"
      /\ resume[o] = "spawn" => pc'[o] = IF good THEN "spawn" ELSE "error"
      /\ resume[o] = "end" => pc'[o] = (IF good THEN "ok" ELSE "error") /\ Kind[o] = "stop"
      /\ resume[o] \in {"end", "wait_port", "spawn"}
    BY <1>1, <1>5, Returns DEF KindInv, TypeOK
<1>7. Quiet => Quiet'
    BY <1>1 DEF Quiet
<1>8. \A p \in Pids : OtherConfig(o, p)' <=> OtherConfig(o, p)
    BY <1>1 DEF OtherConfig
<1>9. Knows(o)'
    BY <1>1, <1>5, <1>6, <1>7, <1>8 DEF Knows, Launching
<1>10. PICK l : Goto(o, l)
    BY <1>5 DEF StopReturns
<1> QED
    BY <1>1, <1>2, <1>3, <1>5, <1>9, <1>10, SoloMove DEF local

\* stopWithFile goes on.
LEMMA StopMovesSolo ==
    ASSUME LifecycleAssumption, TypeOK, SeenInv, SoloInv, NEW o \in Ops, Stopping(o), ~StopSteps(o)
    PROVE  SoloInv'
<1>1. /\ pc[o] \in StopPC /\ \E l \in StopPC : Goto(o, l)
      /\ UNCHANGED <<resume, child, result, spawner>>
    BY StopMoves
<1>2. Active(o) /\ pc[o] \notin Launching
    BY <1>1 DEF StopPC, Active, Final, Launching
<1>3. \A p \in Pids : proc[p] \notin Coming
    BY <1>2, NothingComes
<1>4. CASE StopStale(o)
    <2>1. Quiet
        BY <1>4 DEF StopStale, Quiet, SoloInv, Recording, Alive, Up, LifecycleAssumption
    <2>2. Knows(o)'
        BY <1>4, <2>1 DEF StopStale, Goto, Knows, Quiet, Launching, TypeOK, system
    <2> QED
        BY <1>1, <1>2, <1>3, <1>4, <2>2, SoloMove DEF StopStale, system
<1>5. CASE StopIdentified(o)
    <2>1. Knows(o)'
        BY <1>5 DEF StopIdentified, Recorded, Goto, Knows, SoloInv, Recording, Launching, TypeOK, system
    <2> QED
        BY <1>1, <1>2, <1>3, <1>5, <2>1, SoloMove DEF StopIdentified, system
<1>6. CASE Signal(o)
    <2>1. \A p \in Pids : proc'[p] = proc[p] \/ proc'[p] = "dead"
        BY <1>6 DEF Signal, Ends, TypeOK
    <2>2. \A p \in Pids : proc'[p] \in Up \cup Coming => proc[p] \in Up /\ proc'[p] = proc[p]
        BY <1>3, <2>1 DEF Up, Coming
    <2>3. pc' = [pc EXCEPT ![o] = "wait_exit"] /\ file' = file /\ UNCHANGED local
        BY <1>6 DEF Signal, Goto
    <2>4. Recording' /\ Awaited'
        BY <1>3, <2>2, <2>3 DEF SoloInv, Recording, Awaited, Up, Coming
    <2>5. pc[o] = "signal"
        BY <1>6 DEF Signal
    <2>6. Knows(o)'
        BY <2>2, <2>3, <2>5 DEF SoloInv, Knows, Launching, TypeOK, local
    <2> QED
        BY <1>2, <2>3, <2>4, <2>6, SoloFrame DEF TypeOK, local
<1>7. CASE SawExit(o)
    <2>1. Quiet
        BY <1>7 DEF SawExit, Quiet, SoloInv, Knows, Alive, Up
    <2>2. Knows(o)'
        BY <1>7, <2>1 DEF SawExit, Goto, Knows, Quiet, Launching, TypeOK, system
    <2> QED
        BY <1>1, <1>2, <1>3, <1>7, <2>2, SoloMove DEF SawExit, system
<1>8. CASE ReadOwned(o) /\ file = seen[o]
    <2>1. Quiet
        BY <1>8 DEF ReadOwned, SoloInv, Knows
    <2>2. Knows(o)'
        BY <1>8, <2>1 DEF ReadOwned, Goto, Knows, Quiet, Launching, TypeOK, system
    <2> QED
        BY <1>1, <1>2, <1>3, <1>8, <2>2, SoloMove DEF ReadOwned, system
<1>9. \/ StopStale(o) \/ StopIdentified(o) \/ Signal(o) \/ SawExit(o)
      \/ ReadOwned(o) /\ file = seen[o]
    BY DEF Stopping, StopSteps
<1> QED
    BY <1>4, <1>5, <1>6, <1>7, <1>8, <1>9

\* Starts and restarts up to the spawn.
LEMMA BeforeSpawnSolo ==
    ASSUME LifecycleAssumption, TypeOK, SystemInv, KindInv, SoloInv, NEW o \in Ops,
           \/ AlreadyRunning(o) \/ StopOutdated(o) \/ StartRefused(o) \/ NothingRuns(o) \/ SpawnFails(o)
           \/ RestartRefused(o) \/ RestartStops(o) \/ WaitPort(o)
    PROVE  SoloInv'
<1>1. pc[o] \in {"check", "spawn", "restart", "wait_port"}
    BY DEF AlreadyRunning, StopOutdated, StartRefused, NothingRuns, SpawnFails, RestartRefused, RestartStops, WaitPort
<1>2. Active(o) /\ pc[o] \notin Launching
    BY <1>1 DEF Active, Final, Launching
<1>3. \A p \in Pids : proc[p] \notin Coming
    BY <1>2, NothingComes
<1>4. CASE AlreadyRunning(o)
    <2>1. file \in Pids /\ proc[file] \in Up /\ ~Outdated(o)
        BY <1>4, FoundIsUp DEF AlreadyRunning, Acceptable, Found
    <2>2. ASSUME Kind[o] = "restart", RestartsMeetTheirOwn PROVE FALSE
        <3>1. OtherConfig(o, file)
            BY <1>4, <2>1, <2>2 DEF AlreadyRunning, SoloInv, Knows
        <3>2. Version[spawner[file]] # Version[o]
            BY <2>1, <2>2, <3>1 DEF OtherConfig, RestartsMeetTheirOwn, TypeOK
        <3> QED
            BY <2>1, <3>2 DEF Outdated
    <2>3. Knows(o)'
        BY <1>4, <2>2 DEF AlreadyRunning, Goto, Knows, Launching, TypeOK
    <2> QED
        BY <1>2, <1>3, <1>4, <2>3, SoloMove DEF AlreadyRunning, system, TypeOK
<1>5. CASE NothingRuns(o)
    <2>1. Quiet
        BY <1>5 DEF NothingRuns, Listening, Quiet, SystemInv, Bound, Up, LifecycleAssumption
    <2>2. Knows(o)'
        BY <1>5, <2>1 DEF NothingRuns, Goto, Knows, Quiet, Launching, TypeOK, system
    <2> QED
        BY <1>2, <1>3, <1>5, <2>2, SoloMove DEF NothingRuns, system, local
<1>6. CASE StopOutdated(o) \/ RestartStops(o)
    <2>1. Knows(o)'
        BY <1>6 DEF StopOutdated, RestartStops, Goto, Knows, Launching, TypeOK
    <2> QED
        BY <1>2, <1>3, <1>6, <2>1, SoloMove DEF StopOutdated, RestartStops, system
<1>7. CASE StartRefused(o) \/ SpawnFails(o) \/ RestartRefused(o)
    <2>1. Knows(o)'
        BY <1>7 DEF StartRefused, SpawnFails, RestartRefused, Goto, Knows, Launching, TypeOK
    <2> QED
        BY <1>2, <1>3, <1>7, <2>1, SoloMove DEF StartRefused, SpawnFails, RestartRefused, system, local
<1>8. CASE WaitPort(o)
    <2>1. Knows(o)'
        BY <1>8 DEF WaitPort, Goto, SoloInv, Knows, Launching, OtherConfig, TypeOK, system
    <2> QED
        BY <1>2, <1>3, <1>8, <2>1, SoloMove DEF WaitPort, system, local
<1> QED
    BY <1>4, <1>5, <1>6, <1>7, <1>8

\* The spawn and what follows it.
LEMMA AfterSpawnSolo ==
    ASSUME LifecycleAssumption, TypeOK, SystemInv, ChildInv, SoloInv, NEW o \in Ops,
           Spawn(o) \/ Ready(o) \/ NotReady(o) \/ Confirm(o) \/ Reap(o) \/ ReadChild(o) \/ UnlinkChild(o)
    PROVE  SoloInv'
<1>1. pc[o] \in {"spawn"} \cup Launched
    BY DEF Spawn, Ready, NotReady, Confirm, Reap, ReadChild, UnlinkChild, Launched, Launching
<1>2. Active(o)
    BY <1>1 DEF Active, Final, Launched, Launching
<1>3. pc[o] \notin Launching => \A p \in Pids : proc[p] \notin Coming
    BY <1>2, NothingComes
<1>4. CASE Spawn(o)
    <2>1. PICK p \in Pids : /\ proc' = [proc EXCEPT ![p] = "born"]
                            /\ child' = [child EXCEPT ![o] = p]
        BY <1>4 DEF Spawn, Becomes
    <2>2. /\ pc[o] = "spawn" /\ pc' = [pc EXCEPT ![o] = "poll"] /\ result' = result /\ file' = file
        BY <1>4 DEF Spawn, Goto
    <2>3. \A q \in Pids : proc[q] \notin Up \cup Coming
        BY <1>3, <2>2 DEF SoloInv, Knows, Quiet, Launching
    <2>4. \A q \in Pids : proc'[q] \in Up \cup Coming => q = p /\ proc'[q] \notin Up
        BY <2>1, <2>3 DEF Up, TypeOK
    <2>5. child'[o] = p /\ pc'[o] = "poll"
        BY <2>1, <2>2 DEF TypeOK
    <2>6. Recording' /\ Awaited'
        BY <2>4, <2>5 DEF Recording, Awaited, Launching
    <2>7. Knows(o)'
        BY <2>4, <2>5 DEF Knows, Launching
    <2> QED
        BY <1>2, <2>1, <2>2, <2>6, <2>7, SoloFrame DEF TypeOK
<1>5. CASE Ready(o)
    <2>1. file = child[o]
        BY <1>5, FoundIsUp DEF Ready, SoloInv, Knows, Launching
    <2>2. Knows(o)'
        BY <1>5, <2>1 DEF Ready, Goto, SoloInv, Knows, Launching, TypeOK, system, local
    <2> QED
        BY <1>2, <1>5, <2>2, SoloMove DEF Ready, system, local, Launching
<1>6. CASE NotReady(o)
    <2>1. Knows(o)'
        BY <1>6 DEF NotReady, Goto, SoloInv, Knows, Launching, TypeOK, system, local
    <2> QED
        BY <1>2, <1>6, <2>1, SoloMove DEF NotReady, system, local, Launching
<1>7. CASE Confirm(o) /\ Recorded
    <2>1. file = child[o] /\ file \in Pids
        BY <1>7 DEF Confirm, Recorded, SoloInv, Knows, LifecycleAssumption
    <2>2. \A p \in Pids : proc[p] \notin Coming
        BY <1>7, <2>1 DEF Confirm, SoloInv, Knows, Launching, SystemInv, Early, Coming
    <2>3. Knows(o)'
        BY <1>7, <2>1 DEF Confirm, Goto, Knows, Launching, TypeOK
    <2> QED
        BY <1>2, <1>7, <2>2, <2>3, SoloMove DEF Confirm, system, TypeOK
<1>8. CASE Confirm(o) /\ ~Recorded
    <2>1. Knows(o)'
        BY <1>8 DEF Confirm, Goto, SoloInv, Knows, Launching, TypeOK, system
    <2> QED
        BY <1>2, <1>8, <2>1, SoloMove DEF Confirm, system, Launching
<1>9. CASE Reap(o)
    <2>1. child[o] \in Pids /\ proc' = [proc EXCEPT ![child[o]] = "dead"] /\ pc[o] = "reap"
        BY <1>9 DEF Reap, Ends, ChildInv, Launched, Launching
    <2>2. \A p \in Pids : proc'[p] \notin Up \cup Coming
        BY <2>1 DEF SoloInv, Knows, Launching, Up, Coming, TypeOK
    <2>3. pc' = [pc EXCEPT ![o] = "reaped"] /\ UNCHANGED local
        BY <1>9 DEF Reap, Goto
    <2>4. Recording' /\ Awaited'
        BY <2>2 DEF Recording, Awaited
    <2>5. Knows(o)'
        BY <2>2, <2>3 DEF Knows, Quiet, Launching, TypeOK
    <2> QED
        BY <1>2, <2>3, <2>4, <2>5, SoloFrame DEF TypeOK, local
<1>10. CASE ReadChild(o) \/ UnlinkChild(o)
    <2>1. Quiet /\ pc[o] \notin Launching
        BY <1>10 DEF ReadChild, UnlinkChild, SoloInv, Knows, Launching
    <2>2. Knows(o)'
        BY <1>10, <2>1 DEF ReadChild, UnlinkChild, Goto, Knows, Quiet, Launching, TypeOK, system
    <2> QED
        BY <1>2, <1>3, <1>10, <2>1, <2>2, SoloMove DEF ReadChild, UnlinkChild, system, local
<1> QED
    BY <1>4, <1>5, <1>6, <1>7, <1>8, <1>9, <1>10

\* A command is given while none is under way.
LEMMA BeginSolo ==
    ASSUME LifecycleAssumption, TypeOK, SoloInv, NEW o \in Ops, Begin(o), ~overlapped' PROVE SoloInv'
<1>1. \A q \in Ops : ~Active(q)
    BY DEF Begin, Active
<1>2. UNCHANGED <<system, local>> /\ pc[o] = "idle" /\ \A q \in Ops : q # o => pc'[q] = pc[q]
    BY DEF Begin, Goto, TypeOK
<1>3. pc'[o] \in {"stop", "restart", "check"} /\ (Kind[o] = "restart" => pc'[o] = "restart")
    <2>1. /\ Kind[o] = "stop" => pc' = [pc EXCEPT ![o] = "stop"]
          /\ Kind[o] = "restart" => pc' = [pc EXCEPT ![o] = "restart"]
          /\ Kind[o] \in {"start", "auto"} => pc' = [pc EXCEPT ![o] = "check"]
        BY DEF Begin, Goto
    <2> QED
        BY <2>1 DEF LifecycleAssumption, TypeOK
<1>4. OneAtATime'
    BY <1>1, <1>2 DEF OneAtATime, Active
<1>5. Recording' /\ \A p \in Pids : proc'[p] \notin Coming
    BY <1>1, <1>2 DEF SoloInv, Recording, Awaited, Active, Final, Launching, system
<1>6. ASSUME NEW q \in Ops PROVE Knows(q)'
    <2>1. CASE q = o
        BY <1>3, <2>1 DEF Knows, Launching
    <2>2. CASE q # o
        BY <1>1, <1>2, <2>2 DEF SoloInv, Knows, Active, Final, Launching, local
    <2> QED
        BY <2>1, <2>2
<1> QED
    BY <1>4, <1>5, <1>6 DEF SoloInv, Awaited

\* What a step of a daemon does to processes and to the record.
LEMMA DaemonMoves ==
    ASSUME TypeOK, NEW p \in Pids, Daemon(p) \/ ServeFails(p) \/ Crash(p)
    PROVE  /\ \A q \in Pids : q # p => proc'[q] = proc[q]
           /\ proc'[p] \in Up => proc[p] \in Up \/ (proc[p] = "bound" /\ file' = p)
           /\ proc'[p] \in Coming => proc[p] \in Coming
           /\ \/ file' = file
              \/ file' = p /\ proc[p] = "bound"
              \/ file' = NoPid /\ proc[p] = "unlinking"
<1> USE DEF TypeOK, Up, Coming, Ends, Becomes
<1>1. CASE TakeLock(p)
    BY <1>1 DEF TakeLock
<1>2. CASE Bind(p)
    BY <1>2 DEF Bind
<1>3. CASE WritePID(p)
    BY <1>3 DEF WritePID
<1>4. CASE Serve(p)
    BY <1>4 DEF Serve
<1>5. CASE Drain(p) \/ ServeFails(p)
    BY <1>5 DEF Drain, ServeFails
<1>6. CASE ReadOwn(p) \/ UnlinkOwn(p)
    BY <1>6 DEF ReadOwn, UnlinkOwn
<1>7. CASE Exit(p) \/ Crash(p)
    BY <1>7 DEF Exit, Crash
<1> QED
    BY <1>1, <1>2, <1>3, <1>4, <1>5, <1>6, <1>7 DEF Daemon

\* A daemon goes on while at most one operation waits for it.
LEMMA DaemonSolo ==
    ASSUME LifecycleAssumption, TypeOK, SystemInv, SoloInv, NEW p \in Pids,
           Daemon(p) \/ ServeFails(p) \/ Crash(p), UNCHANGED <<pc, local, spawner>>
    PROVE  SoloInv'
<1>1. /\ \A q \in Pids : q # p => proc'[q] = proc[q]
      /\ proc'[p] \in Up => proc[p] \in Up \/ (proc[p] = "bound" /\ file' = p)
      /\ proc'[p] \in Coming => proc[p] \in Coming
      /\ \/ file' = file
         \/ file' = p /\ proc[p] = "bound"
         \/ file' = NoPid /\ proc[p] = "unlinking"
    BY DaemonMoves
<1>2. OneAtATime'
    BY DEF SoloInv, OneAtATime, Active
<1>3. Awaited'
    BY <1>1 DEF SoloInv, Awaited, local
<1>4. ASSUME NEW q \in Pids, proc'[q] \in Up PROVE file' = q
    <2>1. CASE q = p /\ file' = p
        BY <2>1
    <2>2. CASE proc[q] \in Up
        <3>1. file = q /\ port = q /\ lock = q
            BY <2>2 DEF SoloInv, Recording, SystemInv, Up, Bound, Holding
        <3>2. q # p => proc[p] \notin {"bound", "unlinking"}
            BY <3>1 DEF SystemInv, Bound, Holding
        <3>3. q = p => proc[p] \notin {"bound", "unlinking"}
            BY <2>2 DEF Up
        <3> QED
            BY <1>1, <3>1, <3>2, <3>3
    <2> QED
        BY <1>1, <1>4, <2>1, <2>2
<1>5. ASSUME NEW o \in Ops PROVE Knows(o)'
    <2>1. CASE ~Active(o)
        BY <2>1 DEF SoloInv, Knows, Active, Final, Launching, local
    <2>2. CASE Active(o) /\ pc[o] \notin Launching
        <3>1. proc[p] # "bound"
            BY <2>2, NothingComes DEF Coming
        <3>2. \A q \in Pids : proc'[q] \in Up => proc[q] \in Up
            BY <1>1, <3>1
        <3>3. \A q \in Pids : OtherConfig(o, q)' <=> OtherConfig(o, q)
            BY DEF OtherConfig
        <3> QED
            BY <2>2, <3>2, <3>3 DEF SoloInv, Knows, Quiet, Active, Final, Launching, local
    <2>3. CASE pc[o] \in Launching
        <3>1. \A q \in Pids : proc'[q] \in Coming \cup Up => q = child[o]
            BY <1>1, <2>3 DEF SoloInv, Knows, Coming
        <3>2. pc[o] = "confirm" => file' \in {child[o], NoPid}
            BY <1>1, <2>3 DEF SoloInv, Knows, Coming
        <3> QED
            BY <2>3, <3>1, <3>2 DEF Knows, Launching, local
    <2> QED
        BY <2>1, <2>2, <2>3
<1> QED
    BY <1>2, <1>3, <1>4, <1>5 DEF SoloInv, Recording

\* Nothing that matters changes.
LEMMA NothingSolo ==
    ASSUME SoloInv, UNCHANGED <<file, proc, spawner, pc, local>> PROVE SoloInv'
BY DEF SoloInv, OneAtATime, Recording, Awaited, Knows, Active, Quiet, OtherConfig, local

LEMMA NextSolo ==
    ASSUME LifecycleAssumption, IInv, [Next]_vars, ~overlapped' PROVE SoloInv'
<1>1. ~overlapped /\ SoloInv
    <2>1. ASSUME NEW o \in Ops, Begin(o) \/ Step(o) PROVE ~overlapped
        BY <2>1, Zenon DEF Begin, Step
    <2>2. ASSUME UNCHANGED overlapped PROVE ~overlapped
        BY <2>2
    <2> QED
        BY <2>1, <2>2, DaemonLocal DEF IInv, Next
<1>2. ASSUME NEW o \in Ops, Begin(o) PROVE SoloInv'
    BY <1>1, <1>2, BeginSolo DEF IInv
<1>3. ASSUME NEW o \in Ops, Step(o) PROVE SoloInv'
    BY <1>1, <1>3, StopEndsSolo, StopMovesSolo, BeforeSpawnSolo, AfterSpawnSolo DEF IInv, Step, Starting
<1>4. ASSUME NEW p \in Pids, DaemonStep(p) \/ ((ServeFails(p) \/ Crash(p)) /\ UNCHANGED overlapped) PROVE SoloInv'
    BY <1>1, <1>4, DaemonSolo, DaemonLocal DEF IInv, DaemonStep, Disturbance
<1>5. CASE ForeignLeaves
    BY <1>1, <1>5, NothingSolo DEF ForeignLeaves
<1>6. CASE UNCHANGED vars
    BY <1>1, <1>6, NothingSolo DEF vars, system
<1> QED
    BY <1>2, <1>3, <1>4, <1>5, <1>6 DEF Next, Disturbance

\* The life cycle's invariant.
LEMMA Invariance == Spec => []IInv
<1>1. Init => IInv
    <2> SUFFICES ASSUME Init PROVE IInv
        OBVIOUS
    <2>1. SeenInv /\ ChildInv /\ KindInv
        BY DEF Init, SeenInv, ChildInv, KindInv, Launched, Launching, StopPC, StartPC
    <2>2. Recording /\ \A p \in Pids : proc[p] \notin Coming
        BY DEF Init, Recording, Up, Coming
    <2>3. SoloInv
        BY <2>2 DEF Init, SoloInv, OneAtATime, Awaited, Knows, Active, Final, Launching
    <2> QED
        BY <2>1, <2>3, InitType, InitSystem DEF IInv
<1>2. IInv /\ [Next]_vars => IInv'
    BY NextType, NextSeen, NextSystem, NextChild, NextKind, NextSolo, LifecycleAssumption DEF IInv
<1> QED
    BY <1>1, <1>2, PTL DEF Spec

\* A start reports a daemon that has listened, leaves no child behind when it
\* fails, and a restart reports a new daemon (StartInstance, RestartInstance).
THEOREM StartsAreTrue == Spec => []StartIsTrue
<1>1. IInv => StartIsTrue
    BY DEF IInv, SystemInv, ChildInv, SoloInv, Knows, StartIsTrue, NoOrphan, RestartReplaces, Alive, TypeOK
<1> QED
    BY <1>1, Invariance, PTL

\* What serves is recorded, while operations come one at a time (server.go 105-140
\* and the removals of the PID file).
THEOREM RecordIsTrue == Spec => []ServingIsRecorded
<1>1. IInv => ServingIsRecorded
    BY DEF IInv, SoloInv, Recording, ServingIsRecorded, Up
<1> QED
    BY <1>1, Invariance, PTL

\* An operation moves by its own steps only.
LEMMA OwnSteps ==
    ASSUME TypeOK, NEW o \in Ops, Begin(o) \/ Step(o), NEW q \in Ops, q # o PROVE pc'[q] = pc[q]
<1> USE DEF TypeOK, Goto
<1>1. CASE StopSteps(o)
    BY <1>1, StopEnds, Returns
<1>2. CASE Stopping(o) /\ ~StopSteps(o)
    BY <1>2, StopMoves
<1>3. CASE Begin(o)
    BY <1>3 DEF Begin
<1>4. CASE RestartRefused(o) \/ RestartStops(o) \/ WaitPort(o)
    BY <1>4 DEF RestartRefused, RestartStops, WaitPort
<1>5. CASE Starting(o)
    BY <1>5 DEF Starting, AlreadyRunning, StopOutdated, StartRefused, NothingRuns, Spawn, SpawnFails, Ready, NotReady,
       Confirm, Reap, ReadChild, UnlinkChild
<1> QED
    BY <1>1, <1>2, <1>3, <1>4, <1>5 DEF Step

\* A stop that reports success leaves nothing serving, while operations come one
\* at a time (stopWithFile).
THEOREM StopsStop == Spec => StopStops
<1>1. ASSUME IInv, [Next]_vars, ~overlapped', NEW o \in Ops, Kind[o] = "stop", pc[o] # "ok", pc'[o] = "ok",
             NEW p \in Pids
      PROVE  proc'[p] # "serving"
    <2> USE <1>1 DEF IInv
    <2>1. (Begin(o) \/ Step(o)) /\ ~overlapped
        <3>1. Begin(o) \/ Step(o)
            BY OwnSteps, DaemonLocal DEF Next
        <3>2. ~overlapped
            BY <1>1, <3>1, Zenon DEF Begin, Step
        <3> QED
            BY <3>1, <3>2
    <2>2. CASE StopSteps(o)
        <3>1. PICK good \in BOOLEAN : StopReturns(o, good) /\ (good => Quiet)
            BY <2>1, <2>2, StopKnows, LifecycleAssumption
        <3>2. resume[o] = "end" /\ proc' = proc
            BY <2>2, StopEnds DEF KindInv
        <3>3. good
            BY <3>1, <3>2, Returns
        <3> QED
            BY <3>1, <3>2, <3>3 DEF Quiet, Up
    <2>3. CASE Stopping(o) /\ ~StopSteps(o)
        BY <2>3, StopMoves DEF Goto, StopPC, TypeOK
    <2>4. CASE Begin(o)
        <3>1. \E l \in {"stop", "restart", "check"} : pc' = [pc EXCEPT ![o] = l]
            BY <2>4 DEF Begin, Goto
        <3> QED
            BY <3>1 DEF TypeOK
    <2>5. CASE RestartRefused(o) \/ RestartStops(o) \/ WaitPort(o)
        BY <2>5 DEF RestartRefused, RestartStops, WaitPort, KindInv
    <2>6. CASE Starting(o)
        <3>1. pc[o] \in StartPC
            BY <2>6 DEF Starting, AlreadyRunning, StopOutdated, StartRefused, NothingRuns, Spawn, SpawnFails, Ready,
               NotReady, Confirm, Reap, ReadChild, UnlinkChild, StartPC, Launched, Launching
        <3> QED
            BY <3>1 DEF KindInv
    <2> QED
        BY <2>1, <2>2, <2>3, <2>4, <2>5, <2>6 DEF Step
<1>2. IInv /\ [Next]_vars =>
        (~overlapped' => \A o \in Ops : Kind[o] = "stop" /\ pc[o] # "ok" /\ pc'[o] = "ok"
            => \A p \in Pids : proc'[p] # "serving")
    BY <1>1
<1> QED
    BY <1>2, Invariance, PTL DEF Spec, StopStops
=============================================================================
