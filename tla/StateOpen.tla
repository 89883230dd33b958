----------------------------- MODULE StateOpen -----------------------------
(***************************************************************************)
(* Opening state.db for the first time (internal/storage: GetStateDB,      *)
(* OpenStateDB, MigrateLegacyPool, MigrateSplitJSONToDB).  Every process   *)
(* looks whether state.db is there, builds it from a JSON pool if there is *)
(* one and renames it into place, and otherwise creates it empty and fills *)
(* in the schema.  No lock is held between the look and what follows, and  *)
(* a process may be killed or fail at every step.                          *)
(*                                                                         *)
(* A database file is named by the process that created it.  Which of the  *)
(* JSON forms the pool comes from, permissions and the schema version are  *)
(* left out.  What SQLite reads from a file that was renamed over one in   *)
(* use, whose -wal is still there, is left open: no property speaks of it. *)
(***************************************************************************)
EXTENDS Naturals

CONSTANTS
    Openers,       \* the processes that use state.db
    Commands,      \* those that are "agy-pool migrate-legacy"
    MaxFaults,     \* bound on crashes and I/O errors
    NoFile         \* there is no file of that name

ASSUME OpenAssumption ==
    /\ Commands \subseteq Openers
    /\ NoFile \notin Openers
    /\ MaxFaults \in Nat

VARIABLES
    legacy,        \* there is a JSON pool to migrate
    file,          \* each database file, by creator
    target,        \* which of them is state.db
    phase,         \* where each process is in GetStateDB
    exists,        \* what the stat in OpenStateDB said
    handle,        \* the file a process has open
    faults,        \* number of crashes and errors so far
    \* history
    acked,         \* processes whose transaction was reported committed
    overtaken,     \* a migration was renamed over a state.db
    spoiled        \* a fault hit a database between its creation and its schema

local == <<exists, handle>>
history == <<acked, overtaken, spoiled>>
openVars == <<legacy, file, target, phase, local, faults, history>>

Phases == {"idle", "build", "publish", "look", "connect", "pragma", "verify", "schema",
           "open", "done", "dead"}
Connected == {"pragma", "verify", "schema", "open"}
OptFile == Openers \cup {NoFile}

\* A new file is empty until the WAL pragma writes its header; it is ready when
\* the schema is committed.
File == [level : {"empty", "header", "ready"}, pool : BOOLEAN, commits : SUBSET Openers]
Empty == [level |-> "empty", pool |-> FALSE, commits |-> {}]
HeaderOnly == [level |-> "header", pool |-> FALSE, commits |-> {}]
Migrated == [level |-> "ready", pool |-> TRUE, commits |-> {}]

\* The type invariant of opening.
OpenTypeOK ==
    /\ legacy \in BOOLEAN
    /\ file \in [Openers -> File]
    /\ target \in OptFile
    /\ phase \in [Openers -> Phases]
    /\ exists \in [Openers -> BOOLEAN]
    /\ handle \in [Openers -> OptFile]
    /\ \A p \in Openers : phase[p] \in Connected => handle[p] # NoFile
    /\ faults \in 0 .. MaxFaults
    /\ acked \subseteq Openers
    /\ overtaken \in BOOLEAN
    /\ spoiled \in BOOLEAN

OpenInit ==
    /\ legacy \in BOOLEAN
    /\ file = [p \in Openers |-> Empty]
    /\ target = NoFile
    /\ phase = [p \in Openers |-> "idle"]
    /\ exists = [p \in Openers |-> FALSE]
    /\ handle = [p \in Openers |-> NoFile]
    /\ faults = 0
    /\ acked = {}
    /\ overtaken = FALSE
    /\ spoiled = FALSE

Enter(p, l) == phase' = [phase EXCEPT ![p] = l]

\* Between the creation of a file and the commit of its schema.
Initialising(p) == phase[p] \in {"pragma", "schema"} /\ ~exists[p]

---------------------------------------------------------------------------
(* Migration.                                                              *)

\* GetStateDB looks for state.db; migrate-legacy does not.
Start(p) ==
    /\ phase[p] = "idle"
    /\ Enter(p, IF legacy /\ (target = NoFile \/ p \in Commands) THEN "build"
               ELSE IF p \in Commands THEN "done" ELSE "look")
    /\ UNCHANGED <<legacy, file, target, local, faults, history>>

\* The pool is saved in state.db.tmp.<pid>, which nobody else opens, and the
\* WAL is copied into it.
Build(p) ==
    /\ phase[p] = "build"
    /\ file' = [file EXCEPT ![p] = Migrated]
    /\ Enter(p, "publish")
    /\ UNCHANGED <<legacy, target, local, faults, history>>

\* The error of the checkpoint is dropped, and the WAL is removed with the
\* temporary file's other parts: only the header is left.
LoseCheckpoint(p) ==
    /\ phase[p] = "build" /\ faults < MaxFaults
    /\ faults' = faults + 1
    /\ file' = [file EXCEPT ![p] = HeaderOnly]
    /\ spoiled' = TRUE
    /\ Enter(p, "publish")
    /\ UNCHANGED <<legacy, target, local, acked, overtaken>>

\* The rename, over whatever state.db is now.
Publish(p) ==
    /\ phase[p] = "publish"
    /\ target' = p
    /\ overtaken' = (overtaken \/ target # NoFile)
    /\ Enter(p, IF p \in Commands THEN "done" ELSE "look")
    /\ UNCHANGED <<legacy, file, local, faults, acked, spoiled>>

---------------------------------------------------------------------------
(* OpenStateDB.                                                            *)

\* Stat: an empty file is refused.
Look(p) ==
    /\ phase[p] = "look"
    /\ exists' = [exists EXCEPT ![p] = target # NoFile]
    /\ Enter(p, IF target # NoFile /\ file[target].level = "empty" THEN "idle" ELSE "connect")
    /\ UNCHANGED <<legacy, file, target, handle, faults, history>>

\* The first statement opens the file, and creates it.
Connect(p) ==
    /\ phase[p] = "connect"
    /\ IF target = NoFile
       THEN target' = p /\ file' = [file EXCEPT ![p] = Empty]
       ELSE UNCHANGED <<target, file>>
    /\ handle' = [handle EXCEPT ![p] = target']
    /\ Enter(p, "pragma")
    /\ UNCHANGED <<legacy, exists, faults, history>>

\* PRAGMA journal_mode = WAL.
Pragma(p) ==
    /\ phase[p] = "pragma"
    /\ file' = [file EXCEPT ![handle[p]].level = IF @ = "empty" THEN "header" ELSE @]
    /\ Enter(p, IF exists[p] THEN "verify" ELSE "schema")
    /\ UNCHANGED <<legacy, target, local, faults, history>>

\* Mutant: a database without a schema is removed, to be created afresh.
VerifyOrRemove(p) ==
    /\ phase[p] = "verify"
    /\ IF file[handle[p]].level = "ready"
       THEN Enter(p, "open") /\ UNCHANGED target
       ELSE Enter(p, "idle") /\ target' = NoFile
    /\ UNCHANGED <<legacy, file, local, faults, history>>

\* An existing database must have a schema version.
Verify(p) ==
    /\ phase[p] = "verify"
    /\ Enter(p, IF file[handle[p]].level = "ready" THEN "open" ELSE "idle")
    /\ UNCHANGED <<legacy, file, target, local, faults, history>>

\* Mutant: after a failure the initialisation is tried again.
SchemaAgain(p) ==
    /\ phase[p] = "schema"
    /\ IF file[handle[p]].level = "ready"
       THEN Enter(p, "connect") /\ UNCHANGED file
       ELSE Enter(p, "open") /\ file' = [file EXCEPT ![handle[p]].level = "ready"]
    /\ UNCHANGED <<legacy, target, local, faults, history>>

\* The transaction that creates the schema: its rows of meta are there already if
\* another process was faster, and then it fails.
Schema(p) ==
    /\ phase[p] = "schema"
    /\ IF file[handle[p]].level = "ready"
       THEN Enter(p, "idle") /\ UNCHANGED file
       ELSE Enter(p, "open") /\ file' = [file EXCEPT ![handle[p]].level = "ready"]
    /\ UNCHANGED <<legacy, target, local, faults, history>>

\* A transaction of the process (see StateTx).
CommitCall(p) ==
    /\ phase[p] = "open" /\ p \notin acked
    /\ file' = [file EXCEPT ![handle[p]].commits = @ \cup {p}]
    /\ acked' = acked \cup {p}
    /\ UNCHANGED <<legacy, target, phase, local, faults, overtaken, spoiled>>

---------------------------------------------------------------------------
(* Faults.                                                                 *)

\* The process is killed, or an operation fails and GetStateDB with it: the
\* temporary file is removed, state.db is left as it is.
Fault(p) ==
    /\ phase[p] \notin {"idle", "done", "dead"} /\ faults < MaxFaults
    /\ faults' = faults + 1
    /\ spoiled' = (spoiled \/ Initialising(p))
    /\ \/ Enter(p, "dead")
       \/ phase[p] # "open" /\ Enter(p, "idle")
    /\ UNCHANGED <<legacy, file, target, local, acked, overtaken>>

---------------------------------------------------------------------------

\* The steps of GetStateDB.
Run(p) ==
    \/ Start(p) \/ Build(p) \/ Publish(p)
    \/ Look(p) \/ Connect(p) \/ Pragma(p) \/ Verify(p) \/ Schema(p)

\* Every process may be done, open or dead: nothing more need happen.
OpenNext == \E p \in Openers : Run(p) \/ LoseCheckpoint(p) \/ CommitCall(p) \/ Fault(p)

OpenSpec == OpenInit /\ [][OpenNext]_openVars

\* A process that could not open state.db tries again: the daemon probes quotas
\* every minute, and every request loads the pool.
FairOpenSpec == OpenSpec /\ \A p \in Openers : WF_openVars(Run(p))

---------------------------------------------------------------------------
(* Properties.                                                             *)

\* As long as no migration replaced a state.db, a process works on the database
\* that later processes find, which has a schema, the pool of the JSON files if
\* there were any, and every transaction that was reported committed
\* (TestAutoMigrationFailureDoesNotCreateEmptyState, and "fails closed" of
\* OpenStateDB).
NothingForgotten ==
    ~overtaken =>
        /\ \A p \in Openers : phase[p] = "open" =>
            /\ handle[p] = target
            /\ file[target].level = "ready"
            /\ file[target].pool = legacy
        /\ acked # {} => target # NoFile /\ acked \subseteq file[target].commits

\* First starts do not keep each other out: unless one is interrupted, or fails,
\* between creating state.db and committing its schema, every process ends up
\* with an open database, whatever fails elsewhere.
EveryProcessOpens == \A p \in Openers : <>(phase[p] \in {"open", "done", "dead"} \/ spoiled)

=============================================================================
