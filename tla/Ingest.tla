-------------------------------- MODULE Ingest --------------------------------
(***************************************************************************)
(* agy-tokei: copying the usage of native conversations into the ledger.   *)
(*                                                                         *)
(* The conversations are SQLite databases that the native program writes   *)
(* meanwhile: a write lands in the write-ahead log or in the file, and a   *)
(* checkpoint moves the log into the file.  A stamp stands for size and    *)
(* modification time: it changes with every change of the file.  The       *)
(* catalog of conversations (conversation_summaries.db) is a database of   *)
(* the same kind.                                                          *)
(*                                                                         *)
(* A process runs Service.Ingest, from the command line or from a timer;   *)
(* what the ledger does in one transaction is one step.                    *)
(***************************************************************************)
EXTENDS Generations

CONSTANTS
    Convs,        \* conversation identifiers, numbered in the order of their file names
    Ingesters,    \* processes that may ingest
    Content,      \* the successive contents of each conversation: usages, or Absent
    Projects,     \* the successive contents of the catalog: the project of some
                  \* conversations, or Absent
    Scenarios,    \* bounds: the processes that ingest, the ledgers they may find
                  \* (schema versions), whether with --force, and the first and
                  \* last of the contents
    Absent,       \* there is no file
    None          \* no value

ASSUME IngestAssumption ==
    /\ Convs \subseteq Nat
    /\ None \notin Nat
    /\ \A c \in Convs : Content[c] \in Seq(Range(Content[c]))
    /\ Projects \in Seq(Range(Projects))
    /\ \A f \in ToSet(Projects) \ {Absent} : DOMAIN f \subseteq Convs
    /\ \A s \in Scenarios :
        /\ s.procs \subseteq Ingesters /\ s.ledgers \subseteq 0 .. 3 /\ s.force \subseteq BOOLEAN
        /\ \A c \in Convs : s.first[c] \in DOMAIN Content[c] /\ s.last[c] \in DOMAIN Content[c]
        /\ s.catalogs \in DOMAIN Projects

Unknown == "unknown"

VARIABLES
    \* the sources
    ver,          \* how often each conversation has changed
    stamp,        \* size and modification time of its file
    wal,          \* its log is not empty
    cver, cstamp, cwal,  \* the same for the catalog
    \* the ledger
    version,      \* schema version, 0 before there is a ledger
    rows,         \* usage_records of each conversation
    project,      \* their project_id
    manifest,     \* ingest_manifests
    meta,         \* conversation_metadata
    sync,         \* the stamp in catalog_sync_state
    \* one ingest per process
    phase,
    force,        \* --force
    todo,         \* conversations not looked at yet
    known,        \* the manifests it has loaded
    catalog,      \* the catalog it works with
    before, after,  \* stamps it has observed
    got,          \* the version it has read
    failures,     \* FailedCount > 0
    \* history
    from,         \* the version each conversation's rows were read from
    low,          \* the versions when an ingest began, 0 once the log is gone
    overlapped,   \* two ingests have run at the same time
    scenario

sources == <<ver, stamp, wal, cver, cstamp, cwal>>
ledger == <<version, rows, project, manifest, meta, sync, from>>
local == <<force, todo, known, catalog, before, after, got, failures>>
history == <<low, overlapped, scenario>>
ingestVars == <<sources, ledger, phase, local, history>>

Ended == {"ok", "error"}
Readable(usages) == usages # Absent /\ ~Ambiguous(usages)

\* The records of every content that can be read.
Extracted == [c \in Convs |-> [v \in DOMAIN Content[c] |->
    IF Readable(Content[c][v]) THEN Records(c, Content[c][v]) ELSE {}]]

Running(p) == phase[p] \notin Ended \cup {"idle"}
MoveTo(p, l) == phase' = [phase EXCEPT ![p] = l]
At(c) == Content[c][ver[c]]
Exists(c) == At(c) # Absent
Catalog == Projects[cver]
NoCatalog == [c \in {} |-> Unknown]
NoManifests == [c \in Convs |-> None]

\* A manifest of an earlier release, for a source that has not changed since.
Inherited(status, scan) ==
    [stamp |-> 1, status |-> status, scan |-> scan, parser |-> "old", count |-> 0]

IngestInit ==
    /\ scenario \in Scenarios
    /\ ver = [c \in Convs |-> scenario.first[c]] /\ stamp = [c \in Convs |-> 1] /\ wal = [c \in Convs |-> FALSE]
    /\ cver = 1 /\ cstamp = 1 /\ cwal = FALSE
    /\ version \in scenario.ledgers
    /\ rows = [c \in Convs |-> {}]
    /\ project = [c \in Convs |-> Unknown]
    /\ \E c \in Convs, s \in {"completed", "active", "failed"} :
        manifest = [d \in Convs |->
            IF version \in {1, 2} /\ d = c THEN Inherited(s, IF version = 1 THEN None ELSE s)
            ELSE None]
    /\ meta = NoCatalog
    /\ sync = None
    /\ phase = [p \in Ingesters |-> "idle"]
    /\ force = [p \in Ingesters |-> FALSE]
    /\ todo = [p \in Ingesters |-> {}]
    /\ known = [p \in Ingesters |-> NoManifests]
    /\ catalog = [p \in Ingesters |-> NoCatalog]
    /\ before = [p \in Ingesters |-> 0]
    /\ after = [p \in Ingesters |-> 0]
    /\ got = [p \in Ingesters |-> 0]
    /\ failures = [p \in Ingesters |-> FALSE]
    /\ from = [c \in Convs |-> 0]
    /\ low = [p \in Ingesters |-> ver]
    /\ overlapped = FALSE

---------------------------------------------------------------------------
(* The native program.                                                     *)

\* The log of a conversation is gone, and what it told of a change with it.
LogGone(c) == low' = [p \in Ingesters |-> [low[p] EXCEPT ![c] = 0]]

\* A commit: into the log, or into the file when there is none; or the file is
\* removed with its log.
Write(c) ==
    /\ ver[c] < scenario.last[c]
    /\ ver' = [ver EXCEPT ![c] = @ + 1]
    /\ \/ Content[c][ver'[c]] = Absent
          /\ wal' = [wal EXCEPT ![c] = FALSE] /\ UNCHANGED stamp
          /\ IF wal[c] THEN LogGone(c) ELSE UNCHANGED low
       \/ Content[c][ver'[c]] # Absent
          /\ wal' = [wal EXCEPT ![c] = TRUE] /\ UNCHANGED <<stamp, low>>
       \/ Content[c][ver'[c]] # Absent /\ ~wal[c]
          /\ stamp' = [stamp EXCEPT ![c] = @ + 1] /\ UNCHANGED <<wal, low>>
    /\ UNCHANGED <<cver, cstamp, cwal, ledger, phase, local, overlapped, scenario>>

\* The log is moved into the file and removed.
Checkpoint(c) ==
    /\ wal[c]
    /\ stamp' = [stamp EXCEPT ![c] = @ + 1]
    /\ wal' = [wal EXCEPT ![c] = FALSE]
    /\ LogGone(c)
    /\ UNCHANGED <<ver, cver, cstamp, cwal, ledger, phase, local, overlapped, scenario>>

WriteCatalog ==
    /\ cver < scenario.catalogs
    /\ cver' = cver + 1
    /\ \/ Projects[cver'] = Absent /\ cwal' = FALSE /\ UNCHANGED cstamp
       \/ Projects[cver'] # Absent /\ cwal' = TRUE /\ UNCHANGED cstamp
       \/ Projects[cver'] # Absent /\ ~cwal /\ cstamp' = cstamp + 1 /\ UNCHANGED cwal
    /\ UNCHANGED <<ver, stamp, wal, ledger, phase, local, history>>

CheckpointCatalog ==
    /\ cwal
    /\ cstamp' = cstamp + 1
    /\ cwal' = FALSE
    /\ UNCHANGED <<ver, stamp, wal, cver, ledger, phase, local, history>>

---------------------------------------------------------------------------
(* Opening the ledger and bringing the catalog up to date.                 *)

\* The process is gone with what it knew.
Ends(p, l) ==
    /\ MoveTo(p, l)
    /\ force' = [force EXCEPT ![p] = FALSE]
    /\ todo' = [todo EXCEPT ![p] = {}]
    /\ known' = [known EXCEPT ![p] = NoManifests]
    /\ catalog' = [catalog EXCEPT ![p] = NoCatalog]
    /\ before' = [before EXCEPT ![p] = 0]
    /\ after' = [after EXCEPT ![p] = 0]
    /\ got' = [got EXCEPT ![p] = 0]
    /\ failures' = [failures EXCEPT ![p] = FALSE]

\* Discover.
Begin(p) ==
    /\ p \in scenario.procs /\ ~Running(p)
    /\ \E f \in scenario.force : force' = [force EXCEPT ![p] = f]
    /\ todo' = [todo EXCEPT ![p] = {c \in Convs : Exists(c)}]
    /\ low' = [low EXCEPT ![p] = ver]
    /\ overlapped' = (overlapped \/ \E q \in Ingesters \ {p} : Running(q))
    /\ MoveTo(p, "open")
    /\ UNCHANGED <<sources, ledger, known, catalog, before, after, got, failures, scenario>>

\* The scan fields are filled in from the status of the ingest.
Backfilled == [c \in Convs |->
    IF manifest[c] # None /\ manifest[c].scan = None
    THEN [manifest[c] EXCEPT !.scan = manifest[c].status] ELSE manifest[c]]

\* OpenLedger: migrate runs in one transaction.
Open(p) ==
    /\ phase[p] = "open"
    /\ \/ version <= 2 /\ version' = 2
          /\ manifest' = (IF version < 2 THEN Backfilled ELSE manifest)
          /\ MoveTo(p, "catalog")
          /\ UNCHANGED local
       \/ version > 2 /\ UNCHANGED <<version, manifest>> /\ Ends(p, "error")
    /\ UNCHANGED <<sources, rows, project, meta, sync, from, history>>

\* os.Stat of the catalog; without one the metadata of the ledger is used.
StatCatalog(p) ==
    /\ phase[p] = "catalog"
    /\ IF Catalog = Absent
       THEN /\ catalog' = [catalog EXCEPT ![p] = meta]
            /\ MoveTo(p, "manifests") /\ UNCHANGED before
       ELSE /\ before' = [before EXCEPT ![p] = cstamp]
            /\ MoveTo(p, "catalog_wal") /\ UNCHANGED catalog
    /\ UNCHANGED <<sources, ledger, force, todo, known, after, got, failures, history>>

\* catalogUnchanged.
CatalogUnchanged(p) == ~cwal /\ ~force[p] /\ sync = before[p]

CheckCatalog(p) ==
    /\ phase[p] = "catalog_wal"
    /\ IF CatalogUnchanged(p)
       THEN catalog' = [catalog EXCEPT ![p] = meta] /\ MoveTo(p, "manifests")
       ELSE MoveTo(p, "read_catalog") /\ UNCHANGED catalog
    /\ UNCHANGED <<sources, ledger, force, todo, known, before, after, got, failures, history>>

\* ReadCatalog: one statement; a catalog that is gone by now is empty.
ReadCatalog(p) ==
    /\ phase[p] = "read_catalog"
    /\ catalog' = [catalog EXCEPT ![p] = IF Catalog = Absent THEN NoCatalog ELSE Catalog]
    /\ MoveTo(p, "sync")
    /\ UNCHANGED <<sources, ledger, force, todo, known, before, after, got, failures, history>>

\* Mutant: only the metadata is updated.
SyncMetadataOnly(p) ==
    /\ phase[p] = "sync"
    /\ meta' = [c \in DOMAIN meta \cup DOMAIN catalog[p] |->
                    IF c \in DOMAIN catalog[p] THEN catalog[p][c] ELSE meta[c]]
    /\ sync' = before[p]
    /\ MoveTo(p, "manifests")
    /\ UNCHANGED <<sources, version, rows, project, manifest, from, local, history>>

\* SyncCatalog: metadata, the projects of rows already stored, and the stamp the
\* catalog had before it was read, in one transaction.
SyncCatalog(p) ==
    /\ phase[p] = "sync"
    /\ meta' = [c \in DOMAIN meta \cup DOMAIN catalog[p] |->
                    IF c \in DOMAIN catalog[p] THEN catalog[p][c] ELSE meta[c]]
    /\ project' = [c \in Convs |->
                    IF c \in DOMAIN catalog[p] /\ rows[c] # {} THEN catalog[p][c] ELSE project[c]]
    /\ sync' = before[p]
    /\ before' = [before EXCEPT ![p] = 0]
    /\ MoveTo(p, "manifests")
    /\ UNCHANGED <<sources, version, rows, manifest, from, force, todo, known, catalog, after, got, failures, history>>

\* A step on the catalog or the ledger fails: the ingest gives up.
GiveUp(p) ==
    /\ phase[p] \in {"open", "catalog_wal", "read_catalog", "sync", "manifests"}
    /\ Ends(p, "error")
    /\ UNCHANGED <<sources, ledger, history>>

LoadManifests(p) ==
    /\ phase[p] = "manifests"
    /\ known' = [known EXCEPT ![p] = manifest]
    /\ MoveTo(p, "next")
    /\ UNCHANGED <<sources, ledger, force, todo, catalog, before, after, got, failures, history>>

---------------------------------------------------------------------------
(* One conversation.                                                       *)

\* The discovered conversations are taken in the order of their file names.
Current(p) == CHOOSE c \in todo[p] : \A d \in todo[p] : c <= d

\* On to the next one; what was observed of this one is forgotten.
Done(p) ==
    /\ todo' = [todo EXCEPT ![p] = @ \ {Current(p)}]
    /\ before' = [before EXCEPT ![p] = 0]
    /\ after' = [after EXCEPT ![p] = 0]
    /\ got' = [got EXCEPT ![p] = 0]
    /\ MoveTo(p, "next")

\* Mutant: the log is not looked at.
SkipsByStamp(m, s, log) ==
    /\ m.status = "completed" /\ m.parser = "current"
    /\ m.scan # "failed"
    /\ m.stamp = s

\* The skip check, for a source with this stamp and log.
Skips(m, s, log) ==
    /\ m.status = "completed" /\ m.parser = "current" /\ ~log
    /\ m.scan # "failed"
    /\ m.stamp = s

\* os.Stat of the conversation.
Stat(p) ==
    /\ phase[p] = "next" /\ todo[p] # {}
    /\ IF Exists(Current(p))
       THEN /\ before' = [before EXCEPT ![p] = stamp[Current(p)]]
            /\ MoveTo(p, IF ~force[p] /\ known[p][Current(p)] # None THEN "skip" ELSE "read")
       ELSE MoveTo(p, "failed") /\ UNCHANGED before
    /\ UNCHANGED <<sources, ledger, force, todo, known, catalog, after, got, failures, history>>

\* os.Stat of the log.
Skip(p) ==
    /\ phase[p] = "skip"
    /\ IF Skips(known[p][Current(p)], before[p], wal[Current(p)])
       THEN Done(p)
       ELSE MoveTo(p, "read") /\ UNCHANGED <<todo, before, after, got>>
    /\ UNCHANGED <<sources, ledger, force, known, catalog, failures, history>>

\* ReadConversation: the file is examined ...
StatBefore(p) ==
    /\ phase[p] = "read"
    /\ IF Exists(Current(p))
       THEN before' = [before EXCEPT ![p] = stamp[Current(p)]] /\ MoveTo(p, "snapshot")
       ELSE MoveTo(p, "failed") /\ UNCHANGED before
    /\ UNCHANGED <<sources, ledger, force, todo, known, catalog, after, got, failures, history>>

\* ... its tables are read in one read transaction, with what the log holds, or
\* something in them cannot be decoded ...
ReadSnapshot(p) ==
    /\ phase[p] = "snapshot"
    /\ \/ Readable(At(Current(p)))
          /\ got' = [got EXCEPT ![p] = ver[Current(p)]]
          /\ MoveTo(p, "stat_after")
       \/ MoveTo(p, "failed") /\ UNCHANGED got
    /\ UNCHANGED <<sources, ledger, force, todo, known, catalog, before, after, failures, history>>

\* ... it is examined again ...
StatAfter(p) ==
    /\ phase[p] = "stat_after"
    /\ IF Exists(Current(p))
       THEN after' = [after EXCEPT ![p] = stamp[Current(p)]] /\ MoveTo(p, "complete")
       ELSE MoveTo(p, "failed") /\ UNCHANGED after
    /\ UNCHANGED <<sources, ledger, force, todo, known, catalog, before, got, failures, history>>

\* Mutant: only the log tells whether the source has changed.
CheckCompleteByLog(p) ==
    /\ phase[p] = "complete"
    /\ MoveTo(p, IF ~wal[Current(p)] THEN "commit_complete" ELSE "commit_active")
    /\ UNCHANGED <<sources, ledger, local, history>>

\* ... and so is the log.
CheckComplete(p) ==
    /\ phase[p] = "complete"
    /\ MoveTo(p, IF after[p] = before[p] /\ ~wal[Current(p)] THEN "commit_complete" ELSE "commit_active")
    /\ UNCHANGED <<sources, ledger, local, history>>

Committing(p) == phase[p] \in {"commit_complete", "commit_active"}
ReadRecords(p) == Extracted[Current(p)][got[p]]
ProjectOf(p, c) == IF c \in DOMAIN catalog[p] THEN catalog[p][c] ELSE Unknown
Gens(R) == {r.gen : r \in R}

\* generation_id is unique over all conversations.
Unique(p) ==
    \A c \in Convs \ {Current(p)} : Gens(ReadRecords(p)) \cap Gens(rows[c]) = {}

\* CommitIngest: the rows of the conversation are replaced and its manifest is
\* written in one transaction.
CommitIngest(p) ==
    /\ Committing(p) /\ Unique(p)
    /\ LET c == Current(p)
           status == IF phase[p] = "commit_complete" THEN "completed" ELSE "active"
       IN /\ rows' = [rows EXCEPT ![c] = ReadRecords(p)]
          /\ project' = [project EXCEPT ![c] = ProjectOf(p, c)]
          /\ manifest' = [manifest EXCEPT ![c] =
                [stamp |-> after[p], status |-> status, scan |-> status,
                 parser |-> "current", count |-> Cardinality(ReadRecords(p))]]
          /\ from' = [from EXCEPT ![c] = got[p]]
    /\ Done(p)
    /\ UNCHANGED <<sources, version, meta, sync, force, known, catalog, failures, history>>

\* The transaction fails, at the latest on a generation stored for another
\* conversation.
CommitFails(p) ==
    /\ Committing(p)
    /\ MoveTo(p, "failed")
    /\ UNCHANGED <<sources, ledger, local, history>>

\* RecordScanFailure: the rows and what is known of them stay; an error of the
\* ledger itself is dropped.
RecordScanFailure(p) ==
    /\ phase[p] = "failed"
    /\ \/ manifest' = [manifest EXCEPT ![Current(p)] =
            IF @ = None
            THEN [stamp |-> 0, status |-> "failed", scan |-> "failed", parser |-> "current", count |-> 0]
            ELSE [@ EXCEPT !.scan = "failed"]]
       \/ UNCHANGED manifest
    /\ failures' = [failures EXCEPT ![p] = TRUE]
    /\ Done(p)
    /\ UNCHANGED <<sources, version, rows, project, meta, sync, from, force, known, catalog, history>>

\* All conversations were looked at; one that failed makes the ingest fail, and
\* so does the ledger if its totals cannot be read.
Finish(p) ==
    /\ phase[p] = "next" /\ todo[p] = {}
    /\ \/ Ends(p, "error")
       \/ ~failures[p] /\ Ends(p, "ok")
    /\ UNCHANGED <<sources, ledger, history>>

\* The process is killed.
Crash(p) ==
    /\ Running(p)
    /\ Ends(p, "idle")
    /\ UNCHANGED <<sources, ledger, history>>

---------------------------------------------------------------------------

Ingesting(p) ==
    \/ Open(p) \/ StatCatalog(p) \/ CheckCatalog(p) \/ ReadCatalog(p) \/ SyncCatalog(p)
    \/ GiveUp(p) \/ LoadManifests(p)
    \/ Stat(p) \/ Skip(p) \/ StatBefore(p) \/ ReadSnapshot(p) \/ StatAfter(p)
    \/ CheckComplete(p) \/ CommitIngest(p) \/ CommitFails(p) \/ RecordScanFailure(p) \/ Finish(p)

Native ==
    \/ \E c \in Convs : Write(c) \/ Checkpoint(c)
    \/ WriteCatalog \/ CheckpointCatalog

IngestNext == Native \/ \E p \in Ingesters : Begin(p) \/ Ingesting(p) \/ Crash(p)

IngestSpec == IngestInit /\ [][IngestNext]_ingestVars

---------------------------------------------------------------------------
(* Reports of the ledger.                                                  *)

\* Verify: arithmetic, uniqueness, and counts of completed manifests.
Verified ==
    /\ \A c \in Convs : \A r \in rows[c] : r.tok.output >= r.tok.visible + r.tok.reasoning
    /\ \A c, d \in Convs : c # d => Gens(rows[c]) \cap Gens(rows[d]) = {}
    /\ \A c \in Convs : Cardinality(Gens(rows[c])) = Cardinality(rows[c])
    /\ \A c \in Convs : manifest[c] # None /\ manifest[c].status = "completed" =>
            manifest[c].count = Cardinality(rows[c])

---------------------------------------------------------------------------
(* Properties.                                                             *)

ExpectedOf == [c \in Convs |-> [v \in DOMAIN Content[c] |->
    IF Content[c][v] = Absent THEN {} ELSE Expected(Content[c][v])]]

\* What is read of each content, whatever else happens: its generations, each
\* once, and their totals.
ReadingIsRight ==
    \A c \in Convs : \A v \in DOMAIN Content[c] : Readable(Content[c][v]) =>
        /\ CountsGenerations(Extracted[c][v], ExpectedOf[c][v])
        /\ \A r \in Extracted[c][v] : r.tok.output >= r.tok.visible + r.tok.reasoning
        /\ Cardinality(Gens(Extracted[c][v])) = Cardinality(Extracted[c][v])

\* The rows of a conversation tell of each generation of one state its source
\* was in once, with the counters of that state: no mixture of two states, no
\* generation counted twice for its repetitions, and none lost because a later
\* scan failed or the source was deleted (ARCHITECTURE.md: usage.db "becomes the
\* sole historical source of truth"); and "agy-tokei verify" finds no fault.
RowsCountGenerations ==
    /\ \A c \in Convs :
        IF from[c] = 0 THEN rows[c] = {} ELSE CountsGenerations(rows[c], ExpectedOf[c][from[c]])
    /\ Verified

\* What the next ingest would skip need not be read: a manifest that matches the
\* source as it is now means that the ledger holds what the source says now,
\* whatever was written, checkpointed or ingested by others in between.
SkippedIsStored ==
    \A c \in Convs :
        manifest[c] # None /\ Exists(c) /\ Skips(manifest[c], stamp[c], wal[c]) =>
            rows[c] = Extracted[c][ver[c]]

\* An ingest that no other one overlapped and that reports success has brought
\* the ledger at least to the state each discovered source had when it began,
\* unless the source's log was checkpointed, or removed with the source,
\* meanwhile: between the two halves of the skip check that hides a change until
\* the next ingest, or for good.
SuccessIsFresh ==
    [][\A p \in Ingesters :
        phase[p] # "ok" /\ phase'[p] = "ok" /\ ~overlapped =>
            \A c \in Convs : low[p][c] # 0 /\ Content[c][low[p][c]] # Absent => from[c] >= low[p][c]]_ingestVars

\* A catalog that would not be read again has been applied: unless ingests
\* overlap, the stored generations carry the projects it names now.
ProjectsFollowCatalog ==
    ~overlapped /\ Catalog # Absent /\ ~cwal /\ sync = cstamp =>
        \A c \in DOMAIN Catalog : rows[c] # {} => project[c] = Catalog[c]
=============================================================================
