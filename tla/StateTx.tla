------------------------------ MODULE StateTx ------------------------------
(***************************************************************************)
(* Pool transactions on state.db: PoolTransaction, StateDB.Update and      *)
(* StateDB.ReserveRoundRobinCandidates, called from the goroutines of      *)
(* several processes (the daemon and CLI commands) that share one SQLite   *)
(* file and die at any moment.                                             *)
(*                                                                         *)
(* Each task is one call.  The pool is represented by the sequence of the  *)
(* tasks whose effect it contains: LoadPoolFromTx reads it, the mutator    *)
(* adds the task, SavePoolToTx writes the whole result back, so a save     *)
(* based on a stale read would erase the tasks in between.                 *)
(***************************************************************************)
EXTENDS Naturals, Sequences

CONSTANTS
    Tasks,         \* calls, one goroutine each
    Procs,         \* operating system processes
    ProcOf,        \* the process a task runs in
    Reservations,  \* tasks that call ReserveRoundRobinCandidates
    MaxAttempts,   \* attempts to begin a transaction (10 in the code)
    NoTask         \* nobody holds the lock

ASSUME TaskAssumption ==
    /\ ProcOf \in [Tasks -> Procs]
    /\ Reservations \subseteq Tasks
    /\ MaxAttempts \in Nat \ {0}
    /\ NoTask \notin Tasks

VARIABLES
    db,        \* the committed pool
    dbLock,    \* holder of SQLite's write lock
    poolMu,    \* storage.poolMu of each process
    writeMu,   \* StateDB.writeMu of each process
    pc,        \* where each task is
    snap,      \* the pool a task has loaded
    attempt    \* failed attempts to begin

vars == <<db, dbLock, poolMu, writeMu, pc, snap, attempt>>

Final == {"ok", "error", "crashed"}
PC == {"start", "pool", "update", "begin", "load", "mutate", "commit", "committed", "failed"}
        \cup Final

\* The type invariant of the state store.
TypeOK ==
    /\ db \in Seq(Tasks)
    /\ dbLock \in Tasks \cup {NoTask}
    /\ poolMu \in [Procs -> Tasks \cup {NoTask}]
    /\ writeMu \in [Procs -> Tasks \cup {NoTask}]
    /\ pc \in [Tasks -> PC]
    /\ snap \in [Tasks -> Seq(Tasks)]
    /\ attempt \in [Tasks -> 0 .. MaxAttempts]

Init ==
    /\ db = <<>>
    /\ dbLock = NoTask
    /\ poolMu = [p \in Procs |-> NoTask]
    /\ writeMu = [p \in Procs |-> NoTask]
    /\ pc = [t \in Tasks |-> "start"]
    /\ snap = [t \in Tasks |-> <<>>]
    /\ attempt = [t \in Tasks |-> 0]

Goto(t, l) == pc' = [pc EXCEPT ![t] = l]

---------------------------------------------------------------------------
(* PoolTransaction and ReserveRoundRobinCandidates up to Update.           *)

\* EnsureDirs or GetStateDB fails: before the mutex is asked for, never while the
\* call waits for it.
OpenFails(t) ==
    /\ pc[t] = "start"
    /\ Goto(t, "error")
    /\ UNCHANGED <<db, dbLock, poolMu, writeMu, snap, attempt>>

\* PoolTransaction has the database and asks for poolMu.
Open(t) ==
    /\ pc[t] = "start"
    /\ t \notin Reservations
    /\ Goto(t, "pool")
    /\ UNCHANGED <<db, dbLock, poolMu, writeMu, snap, attempt>>

\* PoolTransaction serialises the callers of its process.
LockPool(t) ==
    /\ pc[t] = "pool"
    /\ poolMu[ProcOf[t]] = NoTask
    /\ poolMu' = [poolMu EXCEPT ![ProcOf[t]] = t]
    /\ Goto(t, "update")
    /\ UNCHANGED <<db, dbLock, writeMu, snap, attempt>>

\* A reservation calls Update directly, without poolMu.
EnterReservation(t) ==
    /\ pc[t] = "start"
    /\ t \in Reservations
    /\ Goto(t, "update")
    /\ UNCHANGED <<db, dbLock, poolMu, writeMu, snap, attempt>>

---------------------------------------------------------------------------
(* Update.                                                                 *)

LockWrites(t) ==
    /\ pc[t] = "update"
    /\ writeMu[ProcOf[t]] = NoTask
    /\ writeMu' = [writeMu EXCEPT ![ProcOf[t]] = t]
    /\ Goto(t, "begin")
    /\ UNCHANGED <<db, dbLock, poolMu, snap, attempt>>

\* Mutant: a deferred transaction does not wait for the writer before it reads.
BeginDeferred(t) ==
    /\ pc[t] = "begin"
    /\ dbLock' = t
    /\ Goto(t, "load")
    /\ UNCHANGED <<db, poolMu, writeMu, snap, attempt>>

\* BEGIN IMMEDIATE takes SQLite's write lock.
Begin(t) ==
    /\ pc[t] = "begin"
    /\ dbLock = NoTask
    /\ dbLock' = t
    /\ Goto(t, "load")
    /\ UNCHANGED <<db, poolMu, writeMu, snap, attempt>>

\* The busy timeout of an attempt expires; after the last one Update gives up.
BeginBusy(t) ==
    /\ pc[t] = "begin"
    /\ dbLock # NoTask
    /\ attempt' = [attempt EXCEPT ![t] = @ + 1]
    /\ pc' = [pc EXCEPT ![t] = IF attempt[t] + 1 = MaxAttempts THEN "failed" ELSE @]
    /\ UNCHANGED <<db, dbLock, poolMu, writeMu, snap>>

\* The database is closed, or BEGIN fails with another error.
BeginFails(t) ==
    /\ pc[t] = "begin"
    /\ Goto(t, "failed")
    /\ UNCHANGED <<db, dbLock, poolMu, writeMu, snap, attempt>>

\* LoadPoolFromTx.
Load(t) ==
    /\ pc[t] = "load"
    /\ snap' = [snap EXCEPT ![t] = db]
    /\ Goto(t, "mutate")
    /\ UNCHANGED <<db, dbLock, poolMu, writeMu, attempt>>

\* The mutator succeeds, and SavePoolToTx writes inside the transaction.
Mutate(t) ==
    /\ pc[t] = "mutate"
    /\ Goto(t, "commit")
    /\ UNCHANGED <<db, dbLock, poolMu, writeMu, snap, attempt>>

\* Loading, the mutator (an error or a panic), saving or the commit fails: the
\* deferred Rollback ends the transaction.
Rollback(t) ==
    /\ pc[t] \in {"load", "mutate", "commit"}
    /\ dbLock' = NoTask
    /\ Goto(t, "failed")
    /\ UNCHANGED <<db, poolMu, writeMu, snap, attempt>>

Commit(t) ==
    /\ pc[t] = "commit"
    /\ db' = Append(snap[t], t)
    /\ dbLock' = NoTask
    /\ Goto(t, "committed")
    /\ UNCHANGED <<poolMu, writeMu, snap, attempt>>

Released(mu, t) == [p \in Procs |-> IF mu[p] = t THEN NoTask ELSE mu[p]]

\* Mutant: an error returns without unlocking poolMu.
ReturnLocked(t) ==
    /\ pc[t] \in {"committed", "failed"}
    /\ writeMu' = Released(writeMu, t)
    /\ poolMu' = IF pc[t] = "committed" THEN Released(poolMu, t) ELSE poolMu
    /\ Goto(t, IF pc[t] = "committed" THEN "ok" ELSE "error")
    /\ UNCHANGED <<db, dbLock, snap, attempt>>

\* The deferred unlocks, and the caller learns the outcome.
Return(t) ==
    /\ pc[t] \in {"committed", "failed"}
    /\ writeMu' = Released(writeMu, t)
    /\ poolMu' = Released(poolMu, t)
    /\ Goto(t, IF pc[t] = "committed" THEN "ok" ELSE "error")
    /\ UNCHANGED <<db, dbLock, snap, attempt>>

---------------------------------------------------------------------------

Running(p) == {t \in Tasks : ProcOf[t] = p /\ pc[t] \notin Final}

\* Process p dies: its mutexes are gone, and SQLite drops the transaction of
\* the dead connection.
Crash(p) ==
    /\ Running(p) # {}
    /\ pc' = [t \in Tasks |-> IF t \in Running(p) THEN "crashed" ELSE pc[t]]
    /\ dbLock' = IF dbLock \in Running(p) THEN NoTask ELSE dbLock
    /\ poolMu' = [poolMu EXCEPT ![p] = NoTask]
    /\ writeMu' = [writeMu EXCEPT ![p] = NoTask]
    /\ UNCHANGED <<db, snap, attempt>>

\* The steps of a call that meets no error.
Progress(t) ==
    \/ Open(t) \/ LockPool(t) \/ EnterReservation(t) \/ LockWrites(t)
    \/ Begin(t) \/ BeginBusy(t) \/ Load(t) \/ Mutate(t) \/ Commit(t) \/ Return(t)

Step(t) == Progress(t) \/ OpenFails(t) \/ BeginFails(t) \/ Rollback(t)

Next == (\E t \in Tasks : Step(t)) \/ (\E p \in Procs : Crash(p))

Spec == Init /\ [][Next]_vars

\* Every goroutine that can go on without an error does; nothing need fail and no
\* process need crash, so that no call is owed an error that frees it.
FairSpec == Spec /\ \A t \in Tasks : WF_vars(Progress(t))

---------------------------------------------------------------------------
(* Properties.                                                             *)

Outcome == [t \in Tasks |-> IF pc[t] \in Final THEN pc[t] ELSE "pending"]

AP == INSTANCE AtomicPool WITH log <- db, outcome <- Outcome

\* Transactions of all processes are atomic: none is lost to another's save,
\* none is half applied, and a reported failure left nothing behind.
Atomic == AP!Spec

\* A mutator, and ReserveRoundRobinCandidates' ordering, decide on the pool as
\* it is when their transaction commits.
DecidesOnCurrentPool ==
    \A t \in Tasks : pc[t] \in {"mutate", "commit"} => snap[t] = db

\* Every call returns, the ones that wait for poolMu or writeMu behind another
\* included: no lock survives an error, a panic or a dead process.
EveryCallReturns == \A t \in Tasks : <>(pc[t] \in Final)

=============================================================================
