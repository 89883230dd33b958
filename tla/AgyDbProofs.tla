----------------------------- MODULE AgyDbProofs -----------------------------
(***************************************************************************)
(* Proofs about agy-db, for any number of archive, restore, verify and     *)
(* plan commands, pages, files, paths and scenarios.                       *)
(***************************************************************************)
EXTENDS AgyDb, WellFoundedInduction, TLAPS

-----------------------------------------------------------------------------
(* What the native program's files are, and how they may move.             *)

Whole == [Pages -> Nat]
Pieces == UNION {[some -> Nat] : some \in SUBSET Pages}
BrainPieces == UNION {[some -> Nat] : some \in SUBSET BrainFiles}
Log == [stamp : Nat, pages : Pieces]
Database == [mode : {"wal", "journal"}, linked : BOOLEAN, main : Whole, stamp : Nat,
             wal : {Absent} \cup Log, shm : Nat, journal : {Absent} \cup Whole]
Instant == [conversation : Whole, summaries : Whole, brain : [BrainFiles -> Nat \cup {Absent}]]

FilesTypeOK ==
    /\ db \in [Databases -> Database]
    /\ brain \in [BrainFiles -> Nat \cup {Absent}]
    /\ writes \in Nat
    /\ limit \in [Databases \cup {"brain"} -> Nat]
    /\ history \in Seq(Instant)

\* A log belongs to one journal mode and a rollback journal to the other; what is
\* written bears the number of a write; and the last entry of the history is now.
FilesInv ==
    /\ \A s \in Databases :
        /\ db[s].wal # Absent => db[s].mode = "wal" /\ db[s].wal.stamp <= writes
        /\ db[s].journal # Absent => db[s].mode = "journal"
    /\ \A f \in BrainFiles : brain[f] # Absent => brain[f] <= writes
    /\ history # <<>>
    /\ history[Len(history)] = Moment(db, brain)

-----------------------------------------------------------------------------
(* The captures of an archive command.                                     *)

Parts == [db : Whole \cup {Nothing}, brain : BrainPieces \cup {Absent}, summary : Nat \cup {Absent}]
Seen == (BOOLEAN \X Nat \X Whole) \cup Log \cup Nat \cup {Absent}
JobPCs == {"idle", "capture", "recheck", "list", "hash", "rehash", "publish", "ended"}
JobStates == {"none", "blocked_snapshot_failed", "blocked_source_changed", "blocked_active_unstable",
              "archived_consistent_snapshot"}
Job == [pc : JobPCs, path : Paths \cup {Nothing}, since : Nat,
        part : {"conversation", "brain", "summaries", "published"},
        before : Seq(Seen), after : 0 .. 4, copy : Pieces, log : Pieces,
        list : SUBSET BrainFiles, seen : BrainPieces, copied : SUBSET BrainFiles, again : SUBSET BrainFiles,
        parts : Parts, state : JobStates]

LogOf(wal) == IF wal = Absent THEN NoLog ELSE wal.pages

\* How far a command is, and what that says of its record.
Shape(j) ==
    /\ j \in Job
    /\ j.pc = "idle" => j = Idle
    /\ j.pc \notin {"idle", "ended"} => j.path \in Paths /\ j.since \in 1 .. Len(history)
    /\ j.pc \in {"capture", "recheck"} => j.part \in Databases /\ Len(j.before) <= 4
    /\ j.pc = "capture" => j.after = 0 /\ (Len(j.before) < 4 => j.copy = NoLog)
    /\ j.pc = "recheck" => Len(j.before) = 4 /\ DOMAIN j.copy = Pages
    /\ j.pc \in {"list", "hash", "rehash"} => j.part = "brain"
    /\ j.pc = "publish" => j.part = "published"
    /\ j.pc = "list" => j.seen = NoLog /\ j.copied = {}
    /\ j.pc \in {"list", "hash"} => j.again = {}
    /\ j.pc \notin {"idle", "ended"} /\ j.part \in {"conversation", "brain"} => j.parts.brain = Absent

\* The stamp and content of the main file when the capture looked at it first,
\* and the log.
Stamp1(j) == j.before[1][2]
Main1(j) == j.before[1][3]
Log2(j) == j.before[2]
Capturing(j) == j.pc \in {"capture", "recheck"}
Main(j) == db[j.part]

\* As long as the stamp is the one seen first, and for good once it was seen
\* again, what was copied is the main file as it was then.
MainInv(j) ==
    Capturing(j) /\ Len(j.before) >= 1 =>
        /\ j.before[1] \in BOOLEAN \X Nat \X Whole
        /\ Stamp1(j) <= Main(j).stamp
        /\ Main(j).stamp = Stamp1(j) => Main(j).main = Main1(j)
        /\ Main(j).stamp = Stamp1(j) \/ j.after >= 1 =>
              \A p \in DOMAIN j.copy : j.copy[p] = Main1(j)[p]
LogInv(j) ==
    Capturing(j) /\ Len(j.before) >= 2 =>
        /\ Log2(j) \in {Absent} \cup Log
        /\ Log2(j) # Absent => Log2(j).stamp <= writes /\ Main(j).mode = "wal"
        /\ j.pc = "recheck" =>
              /\ Log2(j) = Absent => j.log = NoLog
              /\ Log2(j) # Absent /\ (Main(j).wal = Log2(j) \/ j.after >= 2) => j.log = Log2(j).pages
\* Then the two together were committed at one moment: with a log when it was
\* looked at, with a rollback journal when that was found absent.
MomentInv(j) ==
    /\ Capturing(j)
    /\ Len(j.before) = 4 \/ (Len(j.before) >= 2 /\ Main(j).mode = "wal")
    /\ Main(j).stamp = Stamp1(j) \/ j.after >= 1
    => \E m \in Moments(j.since) : m[j.part] = Overlay(Main1(j), LogOf(Log2(j)))

\* The files listed are those there were at one moment; and if none of those to be
\* hashed again has changed, all were there together when they were listed again.
AllAt(files, seen, m) == \A f \in files : m.brain[f] = seen[f]
BrainInv(j) ==
    /\ j.pc \in {"hash", "rehash"} =>
        /\ DOMAIN j.seen \subseteq j.list
        /\ \A f \in DOMAIN j.seen : j.seen[f] <= writes
        /\ \A f \in BrainFiles \ j.list : \E m \in Moments(j.since) : m.brain[f] = Absent
        /\ j.copied \subseteq j.list /\ (j.copied # {} => DOMAIN j.seen = j.list)
    /\ j.pc = "rehash" =>
        /\ DOMAIN j.seen = j.list /\ j.again \subseteq j.list
        /\ (\A f \in j.list \ j.again : brain[f] = j.seen[f]) => \E m \in Moments(j.since) : AllAt(j.list, j.seen, m)

\* What has been captured was there.
Kept(parts) == IF parts.brain = Absent THEN NoLog ELSE parts.brain
DbWas(parts, moments) == \E m \in moments : m.conversation = parts.db
SummaryWas(parts, moments) == \E m \in moments : parts.summary = Row(m.summaries)
BrainWas(parts, moments) ==
    /\ \E m \in moments : \A f \in DOMAIN Kept(parts) : m.brain[f] = Kept(parts)[f]
    /\ \A f \in BrainFiles \ DOMAIN Kept(parts) : \E m \in moments : m.brain[f] = Absent
PartsInv(j) ==
    j.pc \notin {"idle", "ended"} =>
        /\ j.part # "conversation" => DbWas(j.parts, Moments(j.since))
        /\ j.part \in {"summaries", "published"} => BrainWas(j.parts, Moments(j.since))
        /\ j.part = "published" => SummaryWas(j.parts, Moments(j.since))

JobInv(j) == Shape(j) /\ MainInv(j) /\ LogInv(j) /\ MomentInv(j) /\ BrainInv(j) /\ PartsInv(j)

Bundles == [id : Archivers \cup {"first"}, parts : Parts, damage : {"none", "db", "brain", "all"}]

\* Every archive is made of moments, and the archive of a command of moments it saw.
ArchiveInv ==
    /\ archives \in [Paths -> Bundles \cup {Absent}]
    /\ \A p \in Paths : archives[p] # Absent =>
        /\ Coherent(archives[p].parts, Moments(1))
        /\ archives[p].id \in Archivers =>
              /\ job[archives[p].id].pc = "ended"
              /\ job[archives[p].id].since >= 1
              /\ Coherent(archives[p].parts, Moments(job[archives[p].id].since))

CaptureInv == /\ job = [a \in Archivers |-> job[a]]
              /\ \A a \in Archivers : JobInv(job[a])
              /\ ArchiveInv

-----------------------------------------------------------------------------
(* Plans. *)

Issues == {"none", "source_missing", "sidecar_present", "source_changed", "snapshot_failed", "unsupported_schema"}
Entry == [source : Pieces \cup {Absent}, stamp : Nat, issue : Issues]
PlanPCs == {"begin", "alone", "open", "copy", "again", "inspect", "finally", "decide", "ended"}
Blockers == {"evaluation_time_invalid", "verification_failed", "source_changed", "unsupported_schema",
             "activity_ambiguous", "activity_unknown", "activity_after_evaluation", "stale_ingest_checkpoint",
             "incomplete_ingest_evidence", "missing_ingest_evidence", "partial_ingest", "unsupported_ingest_evidence",
             "retention_unset", "retention_invalid", "retention_not_reached"}
Decisions == [blockers : SUBSET Blockers, eligible : BOOLEAN]
Plan == [pc : PlanPCs, since : Nat, round : {1, 2}, stat : {Absent} \cup (BOOLEAN \X Nat), copy : Pieces,
         baseline : Entry, entry : Entry, decision : {Absent} \cup Decisions]

\* While the stamp is the one seen first, the main file is what was committed when
\* it was alone; what has been copied and hashed is that.
Committed1(pages, since) == \E m \in Moments(since) : m.conversation = pages
PlanInv(j) ==
    /\ j \in Plan
    /\ j.since <= Len(history)
    /\ j.pc \in {"alone", "open", "copy", "again", "inspect", "finally"} =>
          /\ j.since >= 1
          /\ j.stat \in BOOLEAN \X Nat
          /\ j.stat[2] <= db["conversation"].stamp
    /\ j.pc \in {"open", "copy"} =>
          (db["conversation"].stamp = j.stat[2] => Committed1(db["conversation"].main, j.since))
    /\ j.pc \in {"again", "inspect", "finally"} => Committed1(j.copy, j.since)
    /\ j.pc # "ended" => j.decision = Absent
    /\ (j.pc = "decide" \/ j.decision # Absent) /\ j.entry.issue = "none" =>
          j.since >= 1 /\ Committed1(j.entry.source, j.since)
PlansInv == /\ plan = [n \in Planners |-> plan[n]]
            /\ \A n \in Planners : PlanInv(plan[n])

-----------------------------------------------------------------------------
(* Restores. *)

ClientPCs == {"idle", "open", "migrate", "register", "mark", "verify", "roots", "absent", "reverify", "stage db",
              "stage brain", "publish db", "rename db", "verify db", "publish brain", "rename brain", "verify brain",
              "last check", "restored", "event", "ended", "killed"}
Statuses == {"none", "valid", "invalid", "registry_unavailable", "registry_failed", "invalid_archive", "unsafe_destination",
             "conflict", "staging_failed", "verification_failed", "partial_publish", "restored"}
Client == [pc : ClientPCs, path : Paths \cup {Nothing}, version : Nat, valid : BOOLEAN,
           verified : Bundles \cup {Nothing}, stage : Parts, roots : [conv : Roots, brain : Roots],
           published : SUBSET {"db", "brain"}, status : Statuses, files : Statuses]

RestoreTypeOK ==
    /\ registry = [version |-> registry.version, rows |-> registry.rows, events |-> registry.events]
    /\ \A e \in registry.events : e.by \in Clients
    /\ conv = [r \in Roots |-> [file |-> [by |-> conv[r].file.by, is |-> conv[r].file.is], beside |-> conv[r].beside]]
    /\ brains = [r \in Roots |-> [by |-> brains[r].by, is |-> brains[r].is]]
    /\ at \in [conv : Roots, brain : Roots]
    /\ client = [c \in Clients |-> client[c]]

NothingPlaced == {"idle", "open", "migrate", "register", "mark", "verify", "roots", "absent", "reverify", "stage db",
                  "stage brain", "publish db", "rename db"}
Stopped == {"event", "ended", "killed"}
Full(k) == k.published = IF HasBrain(k.verified) THEN {"db", "brain"} ELSE {"db"}
Staged == {"publish db", "rename db", "verify db", "publish brain", "rename brain", "verify brain", "last check", "restored"}
EventOf(c, k) == [by |-> c, status |-> k.status, published |-> k.published]

\* How far a restore is tells what it has placed, and what it will say of it.
ProgressInv(c, k) ==
    /\ k \in Client
    /\ k.pc \notin {"idle", "ended", "killed"} => k.path \in Paths
    /\ k.pc \notin Stopped => k.status = "none" /\ k.files = "none"
    /\ k.pc \in NothingPlaced => k.published = {}
    /\ k.pc \in {"verify db", "publish brain", "rename brain"} => k.published = {"db"}
    /\ k.pc \in {"publish brain", "rename brain", "verify brain"} => HasBrain(k.verified)
    /\ k.pc = "verify brain" => k.published = {"db", "brain"}
    /\ k.pc \in {"last check", "restored"} => Full(k)
    /\ k.pc = "event" => /\ k.published # {} => k.status \in {"restored", "partial_publish"}
                         /\ k.files = "none" /\ k.status # "none"
    /\ k.pc \in {"event", "ended"} /\ "restored" \in {k.status, k.files} => Full(k) /\ k.valid
    /\ k.pc = "ended" /\ k.published # {} =>
          \/ k.status \in {"restored", "partial_publish"} /\ EventOf(c, k) \in registry.events
          \/ k.status = "registry_failed" /\ k.files # "none"

\* What it has verified is an archive, and what it stages and places is part of it.
BundleInv(c, k) ==
    /\ k.valid => k.verified \in Bundles /\ Coherent(k.verified.parts, Moments(1))
    /\ k.pc \in {"register", "mark"} /\ c \in Restorers => k.valid
    /\ k.pc \in {"roots", "absent", "reverify", "stage db", "stage brain"} \cup Staged => k.valid
    /\ k.pc \in {"stage brain"} \cup Staged => k.stage.db = k.verified.parts.db
    /\ k.pc \in Staged /\ HasBrain(k.verified) => k.stage.brain = k.verified.parts.brain

\* What bears its name is what it has published, and is what it verified; and the
\* event that bears its name is how it ended.
PlacedInv(c, k) ==
    /\ \A r \in Roots : conv[r].file.by = c => "db" \in k.published
    /\ \A r \in Roots : brains[r].by = c => "brain" \in k.published /\ r = k.roots.brain
    /\ "db" \in k.published => conv[k.roots.conv].file = [by |-> c, is |-> k.verified.parts.db]
    /\ "brain" \in k.published => /\ "db" \in k.published
                                  /\ brains[k.roots.brain] = [by |-> c, is |-> k.verified.parts.brain]
    /\ \A e \in registry.events : e.by = c => k.pc = "ended" /\ e = EventOf(c, k)

ClientInv(c, k) == ProgressInv(c, k) /\ BundleInv(c, k) /\ PlacedInv(c, k)

RestoreInv == RestoreTypeOK /\ \A c \in Clients : ClientInv(c, client[c])

IInv == FilesTypeOK /\ FilesInv /\ CaptureInv /\ PlansInv /\ RestoreInv

-----------------------------------------------------------------------------
(* The native program's steps.                                             *)

\* The history is only added to.
Grows == /\ Len(history) <= Len(history)'
         /\ \A i \in 1 .. Len(history) : history'[i] = history[i]

\* What has changed never looks again as it did: a main file by its stamp, a log
\* by the stamp of its last commit, a file of the brain by its version.
Drift ==
    /\ Grows
    /\ writes <= writes'
    /\ \A s \in Databases :
        /\ db'[s].mode = db[s].mode
        /\ db[s].stamp <= db'[s].stamp
        /\ db'[s].stamp = db[s].stamp => db'[s].main = db[s].main
        /\ \/ db'[s].wal = db[s].wal
           \/ db'[s].wal = Absent
           \/ db'[s].wal # Absent /\ writes < db'[s].wal.stamp
    /\ \A f \in BrainFiles : \/ brain'[f] = brain[f]
                             \/ brain'[f] = Absent
                             \/ writes < brain'[f]

LEMMA PiecesAre == ASSUME NEW x \in Pieces PROVE DOMAIN x \subseteq Pages /\ \A p \in DOMAIN x : x[p] \in Nat
<1>1. PICK some \in SUBSET Pages : x \in [some -> Nat]
    BY DEF Pieces
<1> QED
    BY <1>1

\* Reading a log of some pages over a main file gives a main file.
LEMMA OverlayType ==
    ASSUME NEW pages \in Pieces, NEW log \in Pieces, DOMAIN pages = Pages
    PROVE  Overlay(pages, log) \in Whole
BY PiecesAre DEF Overlay, Whole

LEMMA NoLogType == NoLog \in Pieces /\ DOMAIN NoLog = {}
<1>1. NoLog \in [{} -> Nat]
    BY DEF NoLog
<1> QED
    BY <1>1 DEF Pieces, NoLog

LEMMA WholeType == ASSUME NEW pages \in Whole PROVE pages \in Pieces /\ DOMAIN pages = Pages
BY DEF Whole, Pieces

\* What SQLite reads of a database are all of its pages.
LEMMA CommittedType == ASSUME NEW d \in Database PROVE Committed(d) \in Whole
<1>1. Frames(d) \in Pieces
    BY NoLogType DEF Frames, Database, Log
<1>2. d.main \in Whole /\ (d.journal # Absent => d.journal \in Whole)
    BY DEF Database
<1>3. Overlay(d.main, Frames(d)) \in Whole
    BY <1>1, <1>2, OverlayType, WholeType
<1> QED
    BY <1>2, <1>3 DEF Committed

LEMMA MomentType ==
    ASSUME NEW dbs \in [Databases -> Database], NEW files \in [BrainFiles -> Nat \cup {Absent}]
    PROVE  Moment(dbs, files) \in Instant
<1>1. Committed(dbs["conversation"]) \in Whole /\ Committed(dbs["summaries"]) \in Whole
    BY CommittedType DEF Databases
<1> QED
    BY <1>1 DEF Moment, Instant

\* Whatever is written, the last entry of the history is the present moment.
LEMMA Recording ==
    ASSUME history \in Seq(Instant), history # <<>>, Record,
           db' \in [Databases -> Database], brain' \in [BrainFiles -> Nat \cup {Absent}]
    PROVE  /\ history' \in Seq(Instant) /\ history' # <<>>
           /\ history'[Len(history')] = Moment(db', brain')
           /\ Grows
<1>1. Moment(db', brain') \in Instant
    BY MomentType
<1>2. CASE history' = history
    BY <1>2, <1>1 DEF Record, Grows
<1>3. CASE history' = Append(history, Moment(db', brain'))
  <2>1. Len(history) \in Nat /\ Len(history') = Len(history) + 1
      BY <1>1, <1>3
  <2>2. \A i \in 1 .. Len(history) : history'[i] = history[i]
      BY <1>1, <1>3
  <2>3. history'[Len(history) + 1] = Moment(db', brain')
      BY <1>1, <1>3
  <2> QED
      BY <1>1, <1>3, <2>1, <2>2, <2>3 DEF Grows
<1> QED
    BY <1>2, <1>3 DEF Record

FilesFine == FilesTypeOK /\ FilesInv

\* The whole of a write to a database: what must be seen of it for the files to be
\* as they should, and to have drifted.
MayBecome(old, d) ==
    /\ d \in Database
    /\ d.mode = old.mode
    /\ old.stamp <= d.stamp
    /\ d.stamp = old.stamp => d.main = old.main
    /\ \/ d.wal = old.wal
       \/ d.wal = Absent
       \/ d.wal # Absent /\ d.mode = "wal" /\ d.wal.stamp = writes + 1 /\ writes' = writes + 1
    /\ d.journal # Absent => d.mode = "journal"
Counts == \/ UNCHANGED <<writes, limit>>
          \/ \E part \in Databases \cup {"brain"} : MayWrite(part) /\ Spend(part)

LEMMA Counting ==
    ASSUME FilesTypeOK, Counts
    PROVE  writes' \in Nat /\ writes <= writes' /\ limit' \in [Databases \cup {"brain"} -> Nat]
BY DEF FilesTypeOK, Counts, MayWrite, Spend

LEMMA Changing ==
    ASSUME FilesFine, NEW s \in Databases, NEW d, MayBecome(db[s], d), Change(s, d), Counts, Record
    PROVE  FilesFine' /\ Drift
<1>1. db' = [db EXCEPT ![s] = d] /\ brain' = brain
    BY DEF Change
<1>2. db \in [Databases -> Database] /\ d \in Database
    BY DEF FilesFine, FilesTypeOK, MayBecome
<1>3. db' \in [Databases -> Database] /\ db'[s] = d /\ \A t \in Databases \ {s} : db'[t] = db[t]
    BY <1>1, <1>2
<1>4. writes \in Nat /\ writes' \in Nat /\ writes <= writes' /\ limit' \in [Databases \cup {"brain"} -> Nat]
    BY Counting DEF FilesFine, FilesTypeOK
<1>5. /\ brain \in [BrainFiles -> Nat \cup {Absent}]
      /\ history \in Seq(Instant) /\ history # <<>>
    BY DEF FilesFine, FilesTypeOK, FilesInv
<1>6. /\ history' \in Seq(Instant) /\ history' # <<>>
      /\ history'[Len(history')] = Moment(db', brain')
      /\ Grows
    BY <1>1, <1>3, <1>5, Recording
<1>7. \A t \in Databases : /\ db[t].wal # Absent => db[t].wal \in Log
                           /\ db[t].stamp \in Nat
    BY <1>2 DEF Database
<1>8. \A t \in Databases :
        /\ db'[t].wal # Absent => db'[t].mode = "wal" /\ db'[t].wal.stamp <= writes'
        /\ db'[t].journal # Absent => db'[t].mode = "journal"
  <2>1. ASSUME NEW t \in Databases, t # s
        PROVE  /\ db'[t].wal # Absent => db'[t].mode = "wal" /\ db'[t].wal.stamp <= writes'
               /\ db'[t].journal # Absent => db'[t].mode = "journal"
      BY <2>1, <1>3, <1>4, <1>7 DEF FilesFine, FilesInv, Log
  <2>2. /\ d.wal # Absent => d.mode = "wal" /\ d.wal.stamp <= writes'
        /\ d.journal # Absent => d.mode = "journal"
      BY <1>4, <1>7 DEF FilesFine, FilesInv, Log, MayBecome
  <2> QED
      BY <2>1, <2>2, <1>3
<1>9. \A f \in BrainFiles : brain'[f] # Absent => brain'[f] <= writes'
    BY <1>1, <1>4, <1>5 DEF FilesFine, FilesInv
<1>10. FilesFine'
    BY <1>1, <1>3, <1>4, <1>5, <1>6, <1>8, <1>9 DEF FilesFine, FilesTypeOK, FilesInv
<1>11. \A t \in Databases :
        /\ db'[t].mode = db[t].mode
        /\ db[t].stamp <= db'[t].stamp
        /\ db'[t].stamp = db[t].stamp => db'[t].main = db[t].main
        /\ \/ db'[t].wal = db[t].wal
           \/ db'[t].wal = Absent
           \/ db'[t].wal # Absent /\ writes < db'[t].wal.stamp
    BY <1>3, <1>4, <1>7 DEF MayBecome
<1> QED
    BY <1>1, <1>4, <1>6, <1>10, <1>11 DEF Drift

LEMMA ChangingBrain ==
    ASSUME FilesFine, NEW f \in BrainFiles, NEW v \in {writes + 1, Absent}, brain' = [brain EXCEPT ![f] = v],
           MayWrite("brain"), Spend("brain"), UNCHANGED db, Record
    PROVE  FilesFine' /\ Drift
<1>1. Counts
    BY DEF Counts
<1>2. writes \in Nat /\ writes' = writes + 1 /\ limit' \in [Databases \cup {"brain"} -> Nat]
    BY <1>1, Counting DEF FilesFine, FilesTypeOK, Spend
<1>3. db \in [Databases -> Database] /\ brain' \in [BrainFiles -> Nat \cup {Absent}] /\ brain'[f] = v
      /\ \A g \in BrainFiles \ {f} : brain'[g] = brain[g]
    BY <1>2 DEF FilesFine, FilesTypeOK
<1>4. history \in Seq(Instant) /\ history # <<>>
    BY DEF FilesFine, FilesTypeOK, FilesInv
<1>5. /\ history' \in Seq(Instant) /\ history' # <<>>
      /\ history'[Len(history')] = Moment(db', brain')
      /\ Grows
    BY <1>3, <1>4, Recording
<1>6. \A t \in Databases :
        /\ db[t].wal # Absent => db[t].mode = "wal" /\ db[t].wal.stamp <= writes /\ db[t].wal.stamp \in Nat
        /\ db[t].journal # Absent => db[t].mode = "journal"
        /\ db[t].stamp \in Nat
    BY <1>3 DEF FilesFine, FilesInv, Database, Log
<1>7. \A g \in BrainFiles : brain'[g] # Absent => brain'[g] <= writes'
    BY <1>2, <1>3 DEF FilesFine, FilesTypeOK, FilesInv
<1>8. FilesFine'
  <2>1. \A t \in Databases :
          /\ db'[t].wal # Absent => db'[t].mode = "wal" /\ db'[t].wal.stamp <= writes'
          /\ db'[t].journal # Absent => db'[t].mode = "journal"
      BY <1>2, <1>6
  <2> QED
      BY <2>1, <1>2, <1>3, <1>5, <1>7 DEF FilesFine, FilesTypeOK, FilesInv
<1>9. \A g \in BrainFiles : \/ brain'[g] = brain[g]
                            \/ brain'[g] = Absent
                            \/ writes < brain'[g]
    BY <1>2, <1>3
<1> QED
    BY <1>2, <1>5, <1>6, <1>8, <1>9 DEF Drift

\* Each write of the native program is one of those.
LEMMA CommitMoves == ASSUME FilesFine, NEW s \in Databases, NEW p \in Pages, Commit(s, p) PROVE FilesFine' /\ Drift
<1> DEFINE d == db[s]
<1>1. d \in Database /\ writes \in Nat
    BY DEF FilesFine, FilesTypeOK
<1>2. PICK old \in {Frames(d)} \cup (IF Backfilled(d) THEN {NoLog} ELSE {}) :
            Change(s, [d EXCEPT !.shm = writes + 1,
                                !.wal = [stamp |-> writes + 1,
                                         pages |-> [q \in DOMAIN old \cup {p} |->
                                                       IF q = p THEN [r \in {p} |-> writes + 1][p] ELSE old[q]]]])
    BY DEF Commit
<1> DEFINE pages == [q \in DOMAIN old \cup {p} |-> IF q = p THEN [r \in {p} |-> writes + 1][p] ELSE old[q]]
           wal == [stamp |-> writes + 1, pages |-> pages]
           new == [d EXCEPT !.shm = writes + 1, !.wal = wal]
<1>3. old \in Pieces
    BY <1>1, NoLogType DEF Frames, Database, Log
<1>4. DOMAIN old \cup {p} \in SUBSET Pages /\ pages \in [DOMAIN old \cup {p} -> Nat]
    BY <1>1, <1>3, PiecesAre
<1>5. pages \in Pieces
    BY <1>4 DEF Pieces
<1>6. wal \in Log /\ wal.stamp = writes + 1
    BY <1>1, <1>5 DEF Log
<1>7. d.mode = "wal" /\ MayWrite(s) /\ Spend(s) /\ Record
    BY DEF Commit
<1> HIDE DEF wal
<1>8. new \in Database /\ new.mode = "wal" /\ new.wal = wal /\ new.stamp = d.stamp /\ new.main = d.main
      /\ new.journal = d.journal
  <2>1. writes + 1 \in Nat /\ wal \in {Absent} \cup Log
      BY <1>1, <1>6
  <2>2. new \in Database
      BY <1>1, <2>1, Zenon DEF Database
  <2>3. new.mode = d.mode /\ new.wal = wal /\ new.stamp = d.stamp /\ new.main = d.main /\ new.journal = d.journal
      BY <1>1 DEF Database
  <2> QED
      BY <2>2, <2>3, <1>7
<1>9. d.journal = Absent
    BY <1>7 DEF FilesFine, FilesInv
<1>10. MayBecome(d, new)
    BY <1>1, <1>6, <1>7, <1>8, <1>9 DEF MayBecome, Spend, Database
<1>11. Counts
    BY <1>7 DEF Counts
<1> HIDE DEF new
<1>12. Change(s, new)
    BY <1>2 DEF new, wal
<1> QED
    BY <1>7, <1>10, <1>11, <1>12, Changing

LEMMA QuietMoves ==
    ASSUME FilesFine, NEW s \in Databases, NEW p \in Pages,
           Checkpoint(s, p) \/ LastClose(s) \/ SavePages(s) \/ EndTransaction(s)
    PROVE  FilesFine' /\ Drift
<1> DEFINE d == db[s]
<1>1. d \in Database /\ Record /\ Counts
    BY DEF FilesFine, FilesTypeOK, Checkpoint, LastClose, SavePages, EndTransaction, Counts
<1>2. CASE Checkpoint(s, p)
  <2> DEFINE new == [d EXCEPT !.main[p] = d.wal.pages[p], !.stamp = @ + 1]
  <2>1. d.wal.pages[p] \in Nat
      BY <1>1, <1>2, PiecesAre DEF Checkpoint, Database, Log, Frames
  <2>2. [d.main EXCEPT ![p] = d.wal.pages[p]] \in Whole /\ d.stamp + 1 \in Nat
      BY <1>1, <2>1 DEF Database, Whole
  <2>3. new \in Database
      BY <1>1, <2>2, Zenon DEF Database
  <2>4. new.mode = d.mode /\ new.stamp = d.stamp + 1 /\ d.stamp \in Nat /\ new.wal = d.wal /\ new.journal = d.journal
      BY <1>1 DEF Database
  <2> HIDE DEF new
  <2>5. MayBecome(d, new)
      BY <1>1, <2>3, <2>4 DEF MayBecome, FilesFine, FilesInv
  <2> QED
      BY <1>1, <1>2, <2>5, Changing DEF Checkpoint, new
<1>3. CASE LastClose(s)
  <2> DEFINE new == [d EXCEPT !.wal = Absent, !.shm = 0]
  <2>1. new \in Database
      BY <1>1 DEF Database
  <2>2. new.mode = d.mode /\ new.stamp = d.stamp /\ d.stamp \in Nat /\ new.main = d.main /\ new.wal = Absent /\ new.journal = d.journal
      BY <1>1 DEF Database
  <2> HIDE DEF new
  <2>3. MayBecome(d, new)
      BY <1>1, <2>1, <2>2 DEF MayBecome, FilesFine, FilesInv
  <2> QED
      BY <1>1, <1>3, <2>3, Changing DEF LastClose, new
<1>4. CASE SavePages(s)
  <2> DEFINE new == [d EXCEPT !.journal = d.main]
  <2>1. MayBecome(d, new)
      BY <1>1, <1>4 DEF MayBecome, Database, SavePages
  <2> QED
      BY <1>1, <1>4, <2>1, Changing DEF SavePages
<1>5. CASE EndTransaction(s)
  <2> DEFINE new == [d EXCEPT !.journal = Absent]
  <2>1. MayBecome(d, new)
      BY <1>1 DEF MayBecome, Database
  <2> QED
      BY <1>1, <1>5, <2>1, Changing DEF EndTransaction
<1> QED
    BY <1>2, <1>3, <1>4, <1>5

LEMMA WritingMoves ==
    ASSUME FilesFine, NEW s \in Databases, NEW p \in Pages, WritePage(s, p) \/ RollBack(s) \/ Unlink(s)
    PROVE  FilesFine' /\ Drift
<1> DEFINE d == db[s]
<1>1. d \in Database /\ Record /\ writes \in Nat /\ (d.journal # Absent => d.mode = "journal" /\ d.journal \in Whole)
    BY DEF FilesFine, FilesTypeOK, FilesInv, WritePage, RollBack, Unlink, Database
<1>2. Counts
    BY DEF WritePage, RollBack, Unlink, Counts
<1>3. CASE WritePage(s, p)
  <2> DEFINE new == [d EXCEPT !.main[p] = writes + 1, !.stamp = @ + 1]
  <2>1. [d.main EXCEPT ![p] = writes + 1] \in Whole /\ d.stamp + 1 \in Nat
      BY <1>1 DEF Database, Whole
  <2>2. new \in Database
      BY <1>1, <2>1, Zenon DEF Database
  <2>3. new.mode = d.mode /\ new.stamp = d.stamp + 1 /\ d.stamp \in Nat /\ new.wal = d.wal /\ new.journal = d.journal
      BY <1>1 DEF Database
  <2> HIDE DEF new
  <2>4. MayBecome(d, new)
      BY <1>1, <2>2, <2>3 DEF MayBecome
  <2> QED
      BY <1>1, <1>2, <1>3, <2>4, Changing DEF WritePage, new
<1>4. CASE RollBack(s)
  <2> DEFINE new == [d EXCEPT !.main = d.journal, !.stamp = @ + 1]
  <2>1. d.journal \in Whole /\ d.stamp + 1 \in Nat
      BY <1>1, <1>4 DEF Database, RollBack
  <2>2. new \in Database
      BY <1>1, <2>1, Zenon DEF Database
  <2>3. new.mode = d.mode /\ new.stamp = d.stamp + 1 /\ d.stamp \in Nat /\ new.wal = d.wal /\ new.journal = d.journal
      BY <1>1 DEF Database
  <2> HIDE DEF new
  <2>4. MayBecome(d, new)
      BY <1>1, <2>2, <2>3 DEF MayBecome
  <2> QED
      BY <1>1, <1>2, <1>4, <2>4, Changing DEF RollBack, new
<1>5. CASE Unlink(s)
  <2> DEFINE new == [d EXCEPT !.linked = FALSE]
  <2>1. new \in Database
      BY <1>1 DEF Database
  <2>2. new.mode = d.mode /\ new.stamp = d.stamp /\ d.stamp \in Nat /\ new.main = d.main /\ new.wal = d.wal /\ new.journal = d.journal
      BY <1>1 DEF Database
  <2> HIDE DEF new
  <2>3. MayBecome(d, new)
      BY <1>1, <2>1, <2>2 DEF MayBecome
  <2> QED
      BY <1>1, <1>2, <1>5, <2>3, Changing DEF Unlink, new
<1> QED
    BY <1>3, <1>4, <1>5

\* The native program keeps its files as they should be, and they never look again
\* as they did.
LEMMA NativeMoves == ASSUME FilesFine, Native PROVE FilesFine' /\ Drift
<1>1. CASE \E s \in Databases, p \in Pages : Commit(s, p) \/ Checkpoint(s, p) \/ WritePage(s, p)
    BY <1>1, CommitMoves, QuietMoves, WritingMoves
<1>2. CASE \E s \in Databases : LastClose(s) \/ SavePages(s) \/ RollBack(s) \/ EndTransaction(s) \/ Unlink(s)
    BY <1>2, FilesAssumption, QuietMoves, WritingMoves
<1>3. CASE \E f \in BrainFiles : WriteBrain(f) \/ RemoveBrain(f)
    BY <1>3, ChangingBrain DEF WriteBrain, RemoveBrain
<1> QED
    BY <1>1, <1>2, <1>3 DEF Native

-----------------------------------------------------------------------------
(* Moments. *)

\* Later there are more moments, and the present one is among them.
LEMMA MomentsGrow ==
    ASSUME FilesFine, FilesFine', Grows, NEW n \in Nat, n >= 1
    PROVE  Moments(n) \subseteq Moments(n)'
<1>1. Len(history) \in Nat /\ Len(history') \in Nat /\ Len(history) <= Len(history')
    BY DEF FilesFine, FilesTypeOK, Grows
<1>2. \A i \in n .. Len(history) : i \in n .. Len(history') /\ history'[i] = history[i]
    BY <1>1 DEF Grows
<1> QED
    BY <1>2 DEF Moments

LEMMA PresentMoment ==
    ASSUME FilesFine, NEW n \in 1 .. Len(history)
    PROVE  Moment(db, brain) \in Moments(n)
<1>1. Len(history) \in Nat
    BY DEF FilesFine, FilesTypeOK
<1>2. Len(history) \in n .. Len(history)
    BY <1>1
<1> QED
    BY <1>2 DEF Moments, FilesFine, FilesInv

LEMMA MomentParts ==
    /\ Moment(db, brain)["conversation"] = Committed(db["conversation"])
    /\ Moment(db, brain).conversation = Committed(db["conversation"])
    /\ Moment(db, brain)["summaries"] = Committed(db["summaries"])
    /\ Moment(db, brain).summaries = Committed(db["summaries"])
    /\ Moment(db, brain).brain = brain
BY DEF Moment

LEMMA CoherentIs ==
    ASSUME NEW parts, NEW moments
    PROVE  Coherent(parts, moments) <=>
              DbWas(parts, moments) /\ SummaryWas(parts, moments) /\ BrainWas(parts, moments)
BY DEF Coherent, DbWas, SummaryWas, BrainWas, Kept

LEMMA WasGrows ==
    ASSUME NEW parts, NEW moments, NEW more, moments \subseteq more
    PROVE  /\ DbWas(parts, moments) => DbWas(parts, more)
           /\ SummaryWas(parts, moments) => SummaryWas(parts, more)
           /\ BrainWas(parts, moments) => BrainWas(parts, more)
           /\ Coherent(parts, moments) => Coherent(parts, more)
<1>1. /\ DbWas(parts, moments) => DbWas(parts, more)
      /\ SummaryWas(parts, moments) => SummaryWas(parts, more)
    BY DEF DbWas, SummaryWas
<1>2. BrainWas(parts, moments) => BrainWas(parts, more)
    BY DEF BrainWas
<1> QED
    BY <1>1, <1>2, CoherentIs

-----------------------------------------------------------------------------
(* The native program does not disturb what an archive command may rely on. *)

LEMMA MainStays ==
    ASSUME FilesFine, FilesFine', Drift, NEW j, Shape(j), MainInv(j), Capturing(j), Len(j.before) >= 1
    PROVE  /\ Main(j)'.stamp = Stamp1(j) => Main(j).stamp = Stamp1(j)
           /\ MainInv(j)'
<1> DEFINE s == j.part
<1>1. s \in Databases /\ db \in [Databases -> Database] /\ db' \in [Databases -> Database]
    BY DEF Shape, Capturing, FilesFine, FilesTypeOK
<1>2. db[s].stamp \in Nat /\ db'[s].stamp \in Nat /\ db[s].stamp <= db'[s].stamp
      /\ (db'[s].stamp = db[s].stamp => db'[s].main = db[s].main)
    BY <1>1 DEF Database, Drift
<1>3. j.before[1] \in BOOLEAN \X Nat \X Whole /\ Stamp1(j) <= db[s].stamp
      /\ (db[s].stamp = Stamp1(j) => db[s].main = Main1(j))
      /\ (db[s].stamp = Stamp1(j) \/ j.after >= 1 => \A p \in DOMAIN j.copy : j.copy[p] = Main1(j)[p])
    BY DEF MainInv, Main
<1>4. Stamp1(j) \in Nat
    BY <1>3 DEF Stamp1
<1>5. db'[s].stamp = Stamp1(j) => db[s].stamp = Stamp1(j)
    BY <1>2, <1>3, <1>4
<1> QED
    BY <1>2, <1>3, <1>4, <1>5 DEF MainInv, Main, Stamp1, Main1, Capturing

LEMMA LogStays ==
    ASSUME FilesFine, FilesFine', Drift, NEW j, Shape(j), LogInv(j)
    PROVE  LogInv(j)'
<1> DEFINE s == j.part
           W == j.before[2]
<1> SUFFICES ASSUME Capturing(j), Len(j.before) >= 2 PROVE LogInv(j)'
    BY DEF LogInv, Capturing
<1>1. s \in Databases /\ writes \in Nat /\ writes' \in Nat /\ writes <= writes'
    BY DEF Shape, Capturing, FilesFine, FilesTypeOK, Drift
<1>2. /\ W \in {Absent} \cup Log
      /\ W # Absent => W.stamp <= writes /\ db[s].mode = "wal" /\ db'[s].mode = "wal"
      /\ j.pc = "recheck" =>
            /\ W = Absent => j.log = NoLog
            /\ W # Absent /\ (db[s].wal = W \/ j.after >= 2) => j.log = W.pages
    BY <1>1 DEF LogInv, Log2, Main, Drift
<1>3. W # Absent => W.stamp \in Nat
    BY <1>2 DEF Log
<1>4. W # Absent => W.stamp <= writes'
    BY <1>1, <1>2, <1>3
<1>5. db' \in [Databases -> Database]
    BY DEF FilesFine, FilesTypeOK
<1>6. db'[s].wal # Absent => db'[s].wal.stamp \in Nat
    BY <1>1, <1>5 DEF Database, Log
<1>7. W # Absent /\ db'[s].wal = W => db[s].wal = W
    BY <1>1, <1>2, <1>3, <1>6 DEF Drift
<1> QED
    BY <1>2, <1>4, <1>7 DEF LogInv, Log2, Main, Capturing

LEMMA MomentStays ==
    ASSUME FilesFine, FilesFine', Drift, NEW j, Shape(j), MainInv(j), MomentInv(j)
    PROVE  MomentInv(j)'
<1> SUFFICES ASSUME Capturing(j), Len(j.before) = 4 \/ (Len(j.before) >= 2 /\ Main(j)'.mode = "wal"),
                    Main(j)'.stamp = Stamp1(j) \/ j.after >= 1
             PROVE  \E m \in Moments(j.since)' : m[j.part] = Overlay(Main1(j), LogOf(Log2(j)))
    BY DEF MomentInv, Capturing, Stamp1, Main1, Log2, LogOf
<1>1. j.part \in Databases /\ j.since \in 1 .. Len(history)
    BY DEF Shape, Capturing
<1>2. Main(j)'.mode = Main(j).mode
    BY <1>1 DEF Main, Drift
<1>3. Len(j.before) >= 1
  <2>1. j.before \in Seq(Seen)
      BY DEF Shape, Job
  <2>2. Len(j.before) \in Nat
      BY <2>1
  <2>3. Len(j.before) = 4 \/ Len(j.before) >= 2
      OBVIOUS
  <2>4. \A n \in Nat : n = 4 \/ n >= 2 => n >= 1
      OBVIOUS
  <2> QED
      BY <2>2, <2>3, <2>4, Zenon
<1>4. Main(j)'.stamp = Stamp1(j) => Main(j).stamp = Stamp1(j)
    BY <1>3, MainStays
<1>5. \E m \in Moments(j.since) : m[j.part] = Overlay(Main1(j), LogOf(Log2(j)))
    BY <1>2, <1>4 DEF MomentInv
<1>6. j.since \in Nat /\ j.since >= 1 /\ Grows
    BY <1>1 DEF Drift
<1> QED
    BY <1>5, <1>6, MomentsGrow

LEMMA BrainStays ==
    ASSUME FilesFine, FilesFine', Drift, NEW j, Shape(j), BrainInv(j)
    PROVE  BrainInv(j)'
<1> SUFFICES ASSUME j.pc \in {"hash", "rehash"} PROVE BrainInv(j)'
    BY DEF BrainInv
<1>1. j.since \in Nat /\ j.since >= 1 /\ Grows /\ writes \in Nat /\ writes' \in Nat /\ writes <= writes'
    BY DEF Shape, Drift, FilesFine, FilesTypeOK
<1>2. Moments(j.since) \subseteq Moments(j.since)'
    BY <1>1, MomentsGrow
<1>3. j.list \subseteq BrainFiles /\ DOMAIN j.seen \subseteq BrainFiles /\ \A f \in DOMAIN j.seen : j.seen[f] \in Nat
  <2>1. j.list \subseteq BrainFiles /\ j.seen \in BrainPieces
      BY DEF Shape, Job
  <2>2. PICK some \in SUBSET BrainFiles : j.seen \in [some -> Nat]
      BY <2>1 DEF BrainPieces
  <2> QED
      BY <2>1, <2>2
<1>4. /\ DOMAIN j.seen \subseteq j.list
      /\ \A f \in DOMAIN j.seen : j.seen[f] <= writes
      /\ \A f \in BrainFiles \ j.list : \E m \in Moments(j.since) : m.brain[f] = Absent
      /\ j.copied \subseteq j.list /\ (j.copied # {} => DOMAIN j.seen = j.list)
    BY DEF BrainInv
<1>5. \A f \in DOMAIN j.seen : j.seen[f] <= writes'
    BY <1>1, <1>3, <1>4
<1>6. ASSUME j.pc = "rehash", \A f \in j.list \ j.again : brain'[f] = j.seen[f]
      PROVE  \E m \in Moments(j.since)' : AllAt(j.list, j.seen, m)
  <2>1. DOMAIN j.seen = j.list
      BY <1>6 DEF BrainInv
  <2>2. ASSUME NEW f \in j.list \ j.again PROVE brain[f] = j.seen[f]
    <3>1. brain'[f] = j.seen[f] /\ j.seen[f] \in Nat /\ j.seen[f] <= writes /\ f \in BrainFiles
        BY <1>3, <1>4, <1>6, <2>1, <2>2
    <3>2. brain'[f] # Absent
        BY <3>1, FilesAssumption
    <3> QED
        BY <1>1, <3>1, <3>2 DEF Drift
  <2> QED
      BY <1>2, <1>6, <2>2 DEF BrainInv
<1> QED
    BY <1>2, <1>4, <1>5, <1>6 DEF BrainInv

LEMMA PartsStay ==
    ASSUME FilesFine, FilesFine', Drift, NEW j, Shape(j), PartsInv(j)
    PROVE  PartsInv(j)'
<1> SUFFICES ASSUME j.pc \notin {"idle", "ended"} PROVE PartsInv(j)'
    BY DEF PartsInv
<1>1. j.since \in Nat /\ j.since >= 1 /\ Grows
    BY DEF Shape, Drift
<1>2. Moments(j.since) \subseteq Moments(j.since)'
    BY <1>1, MomentsGrow
<1> QED
    BY <1>2, WasGrows DEF PartsInv

LEMMA JobStays ==
    ASSUME FilesFine, FilesFine', Drift, NEW j, JobInv(j)
    PROVE  JobInv(j)'
<1>1. Shape(j)'
  <2>1. Len(history) \in Nat /\ Len(history') \in Nat /\ Len(history) <= Len(history')
      BY DEF FilesFine, FilesTypeOK, Drift, Grows
  <2> QED
      BY <2>1 DEF JobInv, Shape
<1>2. MainInv(j)'
    BY MainStays DEF JobInv, MainInv, Capturing
<1> QED
    BY <1>1, <1>2, LogStays, MomentStays, BrainStays, PartsStay DEF JobInv

-----------------------------------------------------------------------------
(* The steps of an archive command, on the record of the command.          *)

LEMMA NoLogIsBrain == NoLog \in BrainPieces
<1>1. NoLog \in [{} -> Nat]
    BY DEF NoLog
<1> QED
    BY <1>1 DEF BrainPieces

LEMMA IdleType ==
    /\ Idle \in Job /\ None \in Parts
    /\ Idle.pc = "idle" /\ Idle.before = <<>> /\ Idle.after = 0 /\ Idle.copy = NoLog /\ Idle.log = NoLog
    /\ Idle.list = {} /\ Idle.seen = NoLog /\ Idle.copied = {} /\ Idle.again = {} /\ Idle.parts = None
    /\ Idle.part = "conversation" /\ Idle.path = Nothing /\ Idle.since = 0
<1>1. None \in Parts
    BY DEF None, Parts
<1>2. <<>> \in Seq(Seen)
    OBVIOUS
<1>3. Idle \in Job
    BY <1>1, <1>2, NoLogType, NoLogIsBrain DEF Idle, Job, JobPCs, JobStates
<1> QED
    BY <1>1, <1>3 DEF Idle

LEMMA EndedFine == ASSUME NEW j \in Job, j.pc = "ended" PROVE JobInv(j)
<1>1. Shape(j)
    BY DEF Shape
<1>2. MainInv(j) /\ LogInv(j) /\ MomentInv(j)
    BY DEF MainInv, LogInv, MomentInv, Capturing
<1>3. BrainInv(j) /\ PartsInv(j)
    BY DEF BrainInv, PartsInv
<1> QED
    BY <1>1, <1>2, <1>3 DEF JobInv

\* Giving up leaves nothing to rely on.
Over1(j, state) == [Idle EXCEPT !.pc = "ended", !.path = j.path, !.since = j.since, !.state = state]
LEMMA GivingUp ==
    ASSUME NEW j, Shape(j), NEW state \in JobStates
    PROVE  JobInv(Over1(j, state)) /\ Over1(j, state).pc = "ended"
<1> DEFINE n == Over1(j, state)
<1>1. j.path \in Paths \cup {Nothing} /\ j.since \in Nat /\ Idle \in Job /\ "ended" \in JobPCs
    BY IdleType DEF Shape, Job, JobPCs
<1>2. n \in Job
    BY <1>1, Zenon DEF Over1, Job
<1>3. n.pc = "ended"
    BY <1>1 DEF Over1, Job
<1> QED
    BY <1>2, <1>3, EndedFine

LEMMA StopIs ==
    ASSUME NEW a \in Archivers, NEW state, Stop(a, state) \/ Blocked(a, state), state \in JobStates
    PROVE  \E why \in JobStates : Go(a, Over1(job[a], why))
<1>1. CASE Stop(a, state)
    BY <1>1 DEF Stop, Over1
<1>2. CASE Blocked(a, state)
  <2> DEFINE why == IF job[a].part = "summaries" THEN "blocked_snapshot_failed" ELSE state
  <2>1. why \in JobStates
      BY DEF JobStates
  <2>2. Stop(a, why)
      BY <1>2 DEF Blocked
  <2> QED
      BY <2>1, <2>2 DEF Stop, Over1
<1> QED
    BY <1>1, <1>2

\* A step of a command that keeps what is known of its record.
Advances(a) == \E n : Go(a, n) /\ JobInv(n)

LEMMA StopFine ==
    ASSUME NEW a \in Archivers, JobInv(job[a]), NEW state \in JobStates, Stop(a, state) \/ Blocked(a, state)
    PROVE  Advances(a)
<1>1. PICK why \in JobStates : Go(a, Over1(job[a], why))
    BY StopIs
<1>2. JobInv(Over1(job[a], why))
    BY GivingUp DEF JobInv
<1> QED
    BY <1>1, <1>2 DEF Advances

LEMMA BeginArchiveFine ==
    ASSUME FilesFine, NEW a \in Archivers, NEW path \in Paths, JobInv(job[a]), BeginArchive(a, path)
    PROVE  Advances(a)
<1> DEFINE j == job[a]
           begun == [j EXCEPT !.path = path, !.since = Len(history)]
           refused == [begun EXCEPT !.pc = "ended", !.state = "blocked_snapshot_failed"]
           started == [begun EXCEPT !.pc = "capture"]
<1>1. j = Idle /\ j \in Job
    BY IdleType DEF BeginArchive, JobInv, Shape
<1>2. Len(history) \in Nat /\ Len(history) \in 1 .. Len(history)
    BY DEF FilesFine, FilesTypeOK, FilesInv
<1>3. begun \in Job
    BY <1>1, <1>2, Zenon DEF Job
<1>4. /\ begun.path = path /\ begun.since = Len(history)
      /\ begun.part = "conversation" /\ begun.before = <<>> /\ begun.after = 0 /\ begun.copy = NoLog
      /\ begun.parts = None
    BY <1>1, IdleType DEF Job
<1> HIDE DEF begun
<1>5. refused \in Job /\ refused.pc = "ended"
  <2>1. "ended" \in JobPCs /\ "blocked_snapshot_failed" \in JobStates
      BY DEF JobPCs, JobStates
  <2>2. refused \in Job
      BY <1>3, <2>1, Zenon DEF Job
  <2> QED
      BY <1>3, <2>2 DEF Job
<1>6. started \in Job /\ started.pc = "capture" /\ started.path = path /\ started.since = Len(history)
      /\ started.part = "conversation" /\ started.before = <<>> /\ started.after = 0 /\ started.copy = NoLog
      /\ started.parts = None
  <2>1. "capture" \in JobPCs
      BY DEF JobPCs
  <2>2. started \in Job
      BY <1>3, <2>1, Zenon DEF Job
  <2> QED
      BY <1>3, <1>4, <2>2 DEF Job
<1>7. Go(a, refused) \/ Go(a, started)
    BY DEF BeginArchive, begun
<1> HIDE DEF refused, started
<1>8. JobInv(refused)
    BY <1>5, EndedFine
<1>9. JobInv(started)
  <2>1. Len(started.before) = 0
      BY <1>6
  <2>2. Shape(started)
      BY <1>2, <1>6, <2>1 DEF Shape, Databases, None
  <2> QED
      BY <1>6, <2>1, <2>2 DEF JobInv, MainInv, LogInv, MomentInv, BrainInv, PartsInv, Capturing
<1> QED
    BY <1>7, <1>8, <1>9 DEF Advances

\* A look at one of the files.
ObserveIs(a, sight) ==
    LET j == job[a]
        d == db[j.part]
    IN /\ j.pc = "capture" /\ Len(j.before) < 4
       /\ Go(a, [j EXCEPT !.before = Append(@, sight)])
       /\ \/ Len(j.before) = 0 /\ sight = <<d.linked, d.stamp, d.main>>
          \/ Len(j.before) = 1 /\ sight = d.wal
          \/ Len(j.before) = 2 /\ sight = d.shm
          \/ Len(j.before) = 3 /\ sight = d.journal /\ sight = Absent

\* How many of the four have been looked at.
LEMMA LooksAre ==
    ASSUME NEW k \in Nat
    PROVE  /\ k < 4 => k = 0 \/ k = 1 \/ k = 2 \/ k = 3
           /\ k = 0 \/ k = 1 \/ k >= 2
           /\ k >= 1 => k = 1 \/ k >= 2
           /\ k <= 4 /\ ~(k < 4) => k = 4
           /\ k + 1 = 4 => k = 3
OBVIOUS

LEMMA CaptureShape ==
    ASSUME NEW n \in Job, n.pc \in {"capture", "recheck"}, n.path \in Paths, n.since \in 1 .. Len(history),
           n.part \in Databases, Len(n.before) <= 4,
           n.pc = "capture" => n.after = 0 /\ (Len(n.before) < 4 => n.copy = NoLog),
           n.pc = "recheck" => Len(n.before) = 4 /\ DOMAIN n.copy = Pages,
           n.part = "conversation" => n.parts.brain = Absent
    PROVE  Shape(n)
BY DEF Shape, Databases

LEMMA ObserveCases ==
    ASSUME NEW a \in Archivers, Shape(job[a]), Observe(a)
    PROVE  (\E state \in JobStates : Blocked(a, state)) \/ (\E sight : ObserveIs(a, sight))
<1> DEFINE j == job[a]
           d == db[j.part]
           file == Watched[Len(j.before) + 1]
           sight == Look(d, file)
<1>1. j.pc = "capture" /\ Len(j.before) < 4 /\ Len(j.before) \in Nat
  <2>1. j.before \in Seq(Seen)
      BY DEF Shape, Job
  <2> QED
      BY <2>1 DEF Observe, Watched
<1>2. \/ Blocked(a, "blocked_source_changed")
      \/ Blocked(a, "blocked_active_unstable")
      \/ ~(file = "journal" /\ sight # Absent) /\ Go(a, [j EXCEPT !.before = Append(@, sight)])
    BY DEF Observe
<1>3. /\ Len(j.before) = 0 => file = "main"
      /\ Len(j.before) = 1 => file = "wal"
      /\ Len(j.before) = 2 => file = "shm"
      /\ Len(j.before) = 3 => file = "journal"
  <2>1. Watched[1] = "main" /\ Watched[2] = "wal" /\ Watched[3] = "shm" /\ Watched[4] = "journal"
      BY DEF Watched
  <2>2. 0 + 1 = 1 /\ 1 + 1 = 2 /\ 2 + 1 = 3 /\ 3 + 1 = 4
      OBVIOUS
  <2> QED
      BY <2>1, <2>2
<1>4. /\ file = "main" => sight = <<d.linked, d.stamp, d.main>>
      /\ file = "wal" => sight = d.wal
      /\ file = "shm" => sight = d.shm
      /\ file = "journal" => sight = d.journal
    BY DEF Look
<1> HIDE DEF file, sight
<1>5. CASE ~(file = "journal" /\ sight # Absent) /\ Go(a, [j EXCEPT !.before = Append(@, sight)])
  <2>1. Len(j.before) = 0 \/ Len(j.before) = 1 \/ Len(j.before) = 2 \/ Len(j.before) = 3
      BY <1>1, LooksAre
  <2>2. \/ Len(j.before) = 0 /\ sight = <<d.linked, d.stamp, d.main>>
        \/ Len(j.before) = 1 /\ sight = d.wal
        \/ Len(j.before) = 2 /\ sight = d.shm
        \/ Len(j.before) = 3 /\ sight = d.journal /\ sight = Absent
      BY <2>1, <1>3, <1>4, <1>5
  <2> QED
      BY <1>1, <1>5, <2>2 DEF ObserveIs
<1> QED
    BY <1>2, <1>5 DEF JobStates

\* What is committed, in each mode.
LEMMA CommittedWith ==
    ASSUME FilesFine, NEW s \in Databases
    PROVE  /\ db[s].mode = "wal" => Committed(db[s]) = Overlay(db[s].main, LogOf(db[s].wal))
           /\ db[s].mode # "wal" => db[s].wal = Absent
           /\ db[s].mode # "wal" /\ db[s].journal = Absent => Committed(db[s]) = Overlay(db[s].main, NoLog)
BY DEF FilesFine, FilesInv, Committed, LogOf, Frames

LEMMA PresentDatabase ==
    ASSUME FilesFine, NEW s \in Databases, NEW n \in 1 .. Len(history)
    PROVE  \E m \in Moments(n) : m[s] = Committed(db[s])
BY PresentMoment, MomentParts DEF Databases

LEMMA ObserveFine ==
    ASSUME FilesFine, NEW a \in Archivers, JobInv(job[a]), Observe(a)
    PROVE  Advances(a)
<1> DEFINE j == job[a]
           d == db[j.part]
<1>1. CASE \E state \in JobStates : Blocked(a, state)
    BY <1>1, StopFine
<1>2. CASE \E sight : ObserveIs(a, sight)
  <2>1. PICK sight : ObserveIs(a, sight)
      BY <1>2
  <2> DEFINE n == [j EXCEPT !.before = Append(@, sight)]
  <2>2. j \in Job /\ j.pc = "capture" /\ j.part \in Databases /\ j.since \in 1 .. Len(history) /\ j.after = 0
        /\ j.copy = NoLog /\ j.before \in Seq(Seen) /\ Len(j.before) \in Nat /\ Len(j.before) < 4 /\ j.path \in Paths
      BY <2>1 DEF JobInv, Shape, Job, ObserveIs
  <2>3. d \in Database
      BY <2>2 DEF FilesFine, FilesTypeOK
  <2>4. sight \in Seen
    <3>1. <<d.linked, d.stamp, d.main>> \in BOOLEAN \X Nat \X Whole /\ d.wal \in {Absent} \cup Log /\ d.shm \in Nat
        BY <2>3 DEF Database
    <3> QED
        BY <2>1, <3>1 DEF ObserveIs, Seen
  <2>5. Append(j.before, sight) \in Seq(Seen)
      BY <2>2, <2>4
  <2>6. n \in Job
      BY <2>2, <2>5, Zenon DEF Job
  <2>7. n.pc = "capture" /\ n.part = j.part /\ n.since = j.since /\ n.after = 0 /\ n.copy = NoLog
        /\ n.before = Append(j.before, sight) /\ n.path = j.path /\ n.parts = j.parts
      BY <2>2 DEF Job
  <2> HIDE DEF n
  <2>8. /\ Len(n.before) = Len(j.before) + 1
        /\ \A i \in 1 .. Len(j.before) : n.before[i] = j.before[i]
        /\ n.before[Len(j.before) + 1] = sight
      BY <2>2, <2>4, <2>7
  <2>9. Shape(n)
    <3>1. n.copy = NoLog /\ Len(n.before) <= 4
        BY <2>2, <2>7, <2>8
    <3>2. n.part = "conversation" => n.parts.brain = Absent
        BY <2>2, <2>7 DEF JobInv, Shape
    <3> QED
        BY <2>2, <2>6, <2>7, <3>1, <3>2, CaptureShape
  <2>10. Main(n) = d /\ Main(j) = d /\ Capturing(n) /\ Capturing(j)
      BY <2>2, <2>7 DEF Main, Capturing
  <2>11. MainInv(n)
    <3>1. CASE Len(j.before) = 0
      <4>1. n.before[1] = <<d.linked, d.stamp, d.main>>
          BY <2>1, <2>8, <3>1 DEF ObserveIs
      <4>2. n.before[1] \in BOOLEAN \X Nat \X Whole /\ d.stamp \in Nat
          BY <2>3, <4>1 DEF Database
      <4> QED
          BY <2>7, <2>10, <4>1, <4>2, NoLogType DEF MainInv, Stamp1, Main1
    <3>2. CASE Len(j.before) # 0
      <4>1. n.before[1] = j.before[1] /\ Len(j.before) >= 1
          BY <2>2, <2>8, <3>2
      <4> QED
          BY <2>2, <2>7, <2>10, <4>1 DEF MainInv, Stamp1, Main1, JobInv
    <3> QED
        BY <3>1, <3>2
  <2>12. LogInv(n)
    <3>1. CASE Len(j.before) = 0
        BY <2>8, <3>1 DEF LogInv
    <3>2. CASE Len(j.before) = 1
      <4>1. n.before[2] = d.wal
          BY <2>1, <2>8, <3>2 DEF ObserveIs
      <4>2. d.wal \in {Absent} \cup Log /\ (d.wal # Absent => d.wal.stamp <= writes /\ d.mode = "wal")
          BY <2>2, <2>3 DEF Database, FilesFine, FilesInv
      <4> QED
          BY <2>7, <2>10, <4>1, <4>2 DEF LogInv, Log2
    <3>3. CASE Len(j.before) >= 2
      <4>1. n.before[2] = j.before[2]
          BY <2>2, <2>8, <3>3
      <4> QED
          BY <2>2, <2>7, <2>10, <3>3, <4>1 DEF LogInv, Log2, JobInv
    <3>4. Len(j.before) = 0 \/ Len(j.before) = 1 \/ Len(j.before) >= 2
        BY <2>2, LooksAre
    <3> QED
        BY <3>1, <3>2, <3>3, <3>4
  <2>13. MomentInv(n)
    <3> SUFFICES ASSUME Len(n.before) = 4 \/ (Len(n.before) >= 2 /\ d.mode = "wal"), d.stamp = Stamp1(n)
                 PROVE  \E m \in Moments(n.since) : m[n.part] = Overlay(Main1(n), LogOf(Log2(n)))
        BY <2>7, <2>10 DEF MomentInv
    <3>1. Len(j.before) >= 1 /\ n.before[1] = j.before[1]
        BY <2>2, <2>8
    <3>2. d.main = Main1(n)
        BY <2>8, <2>10, <2>11 DEF MainInv
    <3>3. CASE Len(j.before) >= 2 /\ d.mode = "wal"
      <4>1. n.before[2] = j.before[2]
          BY <2>2, <2>8, <3>3
      <4> QED
          BY <2>7, <2>10, <3>1, <3>3, <4>1 DEF MomentInv, Stamp1, Main1, Log2, JobInv
    <3>4. CASE Len(j.before) = 1 /\ d.mode = "wal"
      <4>1. Log2(n) = d.wal
          BY <2>1, <2>8, <3>4 DEF ObserveIs, Log2
      <4>2. Committed(d) = Overlay(Main1(n), LogOf(Log2(n)))
          BY <2>2, <3>2, <3>4, <4>1, CommittedWith
      <4> QED
          BY <2>2, <2>7, <4>2, PresentDatabase
    <3>5. CASE d.mode # "wal"
      <4>1. Len(j.before) = 3
        <5>1. Len(n.before) = 4
            BY <3>5
        <5> QED
            BY <2>2, <2>8, <5>1, LooksAre
      <4>2. d.journal = Absent
          BY <2>1, <4>1 DEF ObserveIs
      <4>3. Log2(n) = Absent
          BY <2>8, <2>10, <2>12, <3>5, <4>1 DEF LogInv
      <4>4. Committed(d) = Overlay(Main1(n), LogOf(Log2(n)))
          BY <2>2, <3>2, <3>5, <4>2, <4>3, CommittedWith DEF LogOf
      <4> QED
          BY <2>2, <2>7, <4>4, PresentDatabase
    <3>6. Len(j.before) = 1 \/ Len(j.before) >= 2
        BY <2>2, <3>1, LooksAre
    <3> QED
        BY <3>3, <3>4, <3>5, <3>6
  <2>14. BrainInv(n)
      BY <2>7 DEF BrainInv
  <2>15. PartsInv(n)
      BY <2>2, <2>7 DEF PartsInv, JobInv
  <2>16. Go(a, n)
      BY <2>1 DEF ObserveIs, n
  <2> QED
      BY <2>9, <2>11, <2>12, <2>13, <2>14, <2>15, <2>16 DEF Advances, JobInv
<1> QED
    BY <1>1, <1>2, ObserveCases DEF JobInv

\* One more page.
LEMMA PiecesGrow ==
    ASSUME NEW x \in Pieces, NEW p \in Pages, NEW v \in Nat
    PROVE  [q \in DOMAIN x \cup {p} |-> IF q = p THEN v ELSE x[q]] \in Pieces
<1>1. DOMAIN x \cup {p} \in SUBSET Pages
    BY PiecesAre
<1>2. \A q \in DOMAIN x \cup {p} : (IF q = p THEN v ELSE x[q]) \in Nat
    BY PiecesAre
<1>3. [q \in DOMAIN x \cup {p} |-> IF q = p THEN v ELSE x[q]] \in [DOMAIN x \cup {p} -> Nat]
    BY <1>2
<1> QED
    BY <1>1, <1>3 DEF Pieces

LEMMA CopyMainFine ==
    ASSUME FilesFine, NEW a \in Archivers, NEW p \in Pages, JobInv(job[a]), CopyMain(a, p)
    PROVE  Advances(a)
<1> DEFINE j == job[a]
           d == db[j.part]
           copy == [q \in DOMAIN j.copy \cup {p} |-> IF q = p THEN d.main[p] ELSE j.copy[q]]
           n == [j EXCEPT !.copy = copy]
<1>1. j \in Job /\ j.pc = "capture" /\ j.part \in Databases /\ j.since \in 1 .. Len(history) /\ j.after = 0
      /\ j.copy \in Pieces /\ Len(j.before) = 4 /\ j.path \in Paths
    BY DEF JobInv, Shape, Job, CopyMain, Watched
<1>2. d \in Database /\ d.main \in Whole
    BY <1>1 DEF FilesFine, FilesTypeOK, Database
<1>3. copy \in Pieces
    BY <1>1, <1>2, PiecesGrow DEF Whole
<1>4. DOMAIN copy = DOMAIN j.copy \cup {p}
      /\ \A q \in DOMAIN copy : copy[q] = IF q = p THEN d.main[p] ELSE j.copy[q]
    OBVIOUS
<1> HIDE DEF copy
<1>5. n \in Job
    BY <1>1, <1>3, Zenon DEF Job
<1>6. n.pc = j.pc /\ n.part = j.part /\ n.since = j.since /\ n.after = j.after /\ n.copy = copy
      /\ n.before = j.before /\ n.path = j.path /\ n.parts = j.parts /\ n.log = j.log
    BY <1>1 DEF Job
<1>7. Go(a, n)
    BY DEF CopyMain, copy
<1> HIDE DEF n
<1>8. Shape(n)
  <2>1. n.part = "conversation" => n.parts.brain = Absent
      BY <1>1, <1>6 DEF JobInv, Shape
  <2>2. n.pc = "capture" /\ n.path \in Paths /\ n.since \in 1 .. Len(history) /\ n.part \in Databases
        /\ n.after = 0 /\ Len(n.before) = 4
      BY <1>1, <1>6
  <2>3. Len(n.before) <= 4 /\ ~(Len(n.before) < 4)
      BY <2>2
  <2> QED
      BY <1>5, <2>1, <2>2, <2>3, CaptureShape
<1>9. MainInv(n)
  <2>1. j.before[1] \in BOOLEAN \X Nat \X Whole /\ Stamp1(j) <= d.stamp
        /\ (d.stamp = Stamp1(j) => d.main = Main1(j))
        /\ (d.stamp = Stamp1(j) => \A q \in DOMAIN j.copy : j.copy[q] = Main1(j)[q])
      BY <1>1 DEF JobInv, MainInv, Main, Capturing
  <2>2. d.stamp = Stamp1(j) => \A q \in DOMAIN copy : copy[q] = Main1(j)[q]
      BY <1>4, <2>1
  <2> QED
      BY <1>1, <1>6, <2>1, <2>2 DEF MainInv, Main, Stamp1, Main1
<1>10. LogInv(n) /\ MomentInv(n) /\ BrainInv(n) /\ PartsInv(n)
  <2>1. LogInv(n)
      BY <1>1, <1>6 DEF JobInv, LogInv, Log2, Main, Capturing
  <2>2. MomentInv(n)
      BY <1>1, <1>6 DEF JobInv, MomentInv, Log2, Main, Capturing, Stamp1, Main1
  <2>3. BrainInv(n) /\ PartsInv(n)
      BY <1>1, <1>6 DEF JobInv, BrainInv, PartsInv
  <2> QED
      BY <2>1, <2>2, <2>3
<1> QED
    BY <1>7, <1>8, <1>9, <1>10 DEF Advances, JobInv

LEMMA CopyLogFine ==
    ASSUME FilesFine, NEW a \in Archivers, JobInv(job[a]), CopyLog(a)
    PROVE  Advances(a)
<1> DEFINE j == job[a]
           d == db[j.part]
           log == IF j.before[2] = Absent THEN NoLog ELSE Frames(d)
           n == [j EXCEPT !.pc = "recheck", !.log = log]
<1>1. j \in Job /\ j.pc = "capture" /\ j.part \in Databases /\ j.since \in 1 .. Len(history) /\ j.after = 0
      /\ j.copy \in Pieces /\ DOMAIN j.copy = Pages /\ Len(j.before) \in Nat /\ j.path \in Paths
  <2>1. j.before \in Seq(Seen)
      BY DEF JobInv, Shape, Job
  <2> QED
      BY <2>1 DEF JobInv, Shape, Job, CopyLog
<1>2. Len(j.before) = 4
  <2>1. j.copy # NoLog
      BY <1>1, NoLogType, FilesAssumption
  <2>2. Len(j.before) <= 4 /\ ~(Len(j.before) < 4)
      BY <1>1, <2>1 DEF JobInv, Shape
  <2> QED
      BY <1>1, <2>2, LooksAre
<1>3. CASE Blocked(a, "blocked_source_changed")
    BY <1>3, StopFine DEF JobStates
<1>4. CASE ~(j.before[2] # Absent /\ d.wal = Absent) /\ Go(a, n)
  <2>1. d \in Database /\ Frames(d) \in Pieces /\ log \in Pieces
      BY <1>1, NoLogType DEF FilesFine, FilesTypeOK, Frames, Database, Log
  <2>2. "recheck" \in JobPCs
      BY DEF JobPCs
  <2>3. j.before[2] = Absent => log = NoLog
      OBVIOUS
  <2>4. j.before[2] # Absent => d.wal # Absent /\ log = d.wal.pages
      BY <1>4 DEF Frames
  <2> HIDE DEF log
  <2>5. n \in Job
      BY <1>1, <2>1, <2>2, Zenon DEF Job
  <2>6. n.pc = "recheck" /\ n.part = j.part /\ n.since = j.since /\ n.after = 0 /\ n.copy = j.copy
        /\ n.before = j.before /\ n.path = j.path /\ n.parts = j.parts /\ n.log = log
      BY <1>1 DEF Job
  <2>7. Go(a, n)
      BY <1>4
  <2> HIDE DEF n
  <2>8. Shape(n)
    <3>1. n.part = "conversation" => n.parts.brain = Absent
        BY <1>1, <2>6 DEF JobInv, Shape
    <3>2. n.pc = "recheck" /\ n.path \in Paths /\ n.since \in 1 .. Len(history) /\ n.part \in Databases
          /\ DOMAIN n.copy = Pages /\ Len(n.before) = 4
        BY <1>1, <1>2, <2>6
    <3>3. Len(n.before) <= 4
        BY <3>2
    <3> QED
        BY <2>5, <3>1, <3>2, <3>3, CaptureShape
  <2>9. MainInv(n)
      BY <1>1, <2>6 DEF JobInv, MainInv, Main, Stamp1, Main1, Capturing
  <2>10. LogInv(n)
      BY <1>1, <1>2, <2>3, <2>4, <2>6 DEF JobInv, LogInv, Log2, Main, Capturing
  <2>11. MomentInv(n)
      BY <1>1, <1>2, <2>6 DEF JobInv, MomentInv, Log2, Main, Capturing, Stamp1, Main1
  <2>12. BrainInv(n) /\ PartsInv(n)
      BY <1>1, <2>6 DEF JobInv, BrainInv, PartsInv
  <2> QED
      BY <2>7, <2>8, <2>9, <2>10, <2>11, <2>12 DEF Advances, JobInv
<1> QED
    BY <1>3, <1>4 DEF CopyLog

\* A second look at one of the files, which has found what the first one saw.
ObserveAgainIs(a) ==
    LET j == job[a]
        d == db[j.part]
    IN /\ j.pc = "recheck" /\ j.after < 4
       /\ Go(a, [j EXCEPT !.after = @ + 1])
       /\ j.after = 0 => j.before[1] = <<d.linked, d.stamp, d.main>>
       /\ j.after = 1 => j.before[2] = d.wal

LEMMA ObserveAgainCases ==
    ASSUME NEW a \in Archivers, Shape(job[a]), ObserveAgain(a)
    PROVE  Blocked(a, "blocked_source_changed") \/ ObserveAgainIs(a)
<1> DEFINE j == job[a]
           d == db[j.part]
           file == Watched[j.after + 1]
           sight == Look(d, file)
<1>1. j.pc = "recheck" /\ j.after < 4
    BY DEF ObserveAgain, Watched
<1>2. \/ Blocked(a, "blocked_source_changed")
      \/ j.before[j.after + 1] = sight /\ Go(a, [j EXCEPT !.after = @ + 1])
    BY DEF ObserveAgain, SameObserved
<1>3. j.after = 0 => sight = <<d.linked, d.stamp, d.main>>
    BY DEF Watched, Look
<1>4. j.after = 1 => sight = d.wal
  <2>1. Watched[2] = "wal" /\ 1 + 1 = 2
      BY DEF Watched
  <2> QED
      BY <2>1 DEF Look
<1> HIDE DEF sight
<1>5. 0 + 1 = 1 /\ 1 + 1 = 2
    OBVIOUS
<1> QED
    BY <1>1, <1>2, <1>3, <1>4, <1>5 DEF ObserveAgainIs

LEMMA ObserveAgainFine ==
    ASSUME FilesFine, NEW a \in Archivers, JobInv(job[a]), ObserveAgain(a)
    PROVE  Advances(a)
<1> DEFINE j == job[a]
           d == db[j.part]
           n == [j EXCEPT !.after = @ + 1]
<1>1. CASE Blocked(a, "blocked_source_changed")
    BY <1>1, StopFine DEF JobStates
<1>2. CASE ObserveAgainIs(a)
  <2>1. j \in Job /\ j.pc = "recheck" /\ j.part \in Databases /\ j.after \in 0 .. 3 /\ Len(j.before) = 4
        /\ DOMAIN j.copy = Pages /\ j.path \in Paths /\ j.since \in 1 .. Len(history)
      BY <1>2 DEF JobInv, Shape, Job, ObserveAgainIs
  <2>2. j.after + 1 \in 0 .. 4 /\ j.after + 1 >= 1
      BY <2>1
  <2>3. n \in Job
      BY <2>1, <2>2, Zenon DEF Job
  <2>4. n.pc = "recheck" /\ n.part = j.part /\ n.since = j.since /\ n.after = j.after + 1 /\ n.copy = j.copy
        /\ n.before = j.before /\ n.path = j.path /\ n.parts = j.parts /\ n.log = j.log
      BY <2>1 DEF Job
  <2>5. Go(a, n)
      BY <1>2 DEF ObserveAgainIs
  <2> HIDE DEF n
  <2>6. Shape(n)
    <3>1. n.part = "conversation" => n.parts.brain = Absent
        BY <2>1, <2>4 DEF JobInv, Shape
    <3>2. n.pc = "recheck" /\ n.path \in Paths /\ n.since \in 1 .. Len(history) /\ n.part \in Databases
          /\ DOMAIN n.copy = Pages /\ Len(n.before) = 4
        BY <2>1, <2>4
    <3>3. Len(n.before) <= 4
        BY <3>2
    <3> QED
        BY <2>3, <3>1, <3>2, <3>3, CaptureShape
  <2>7. d.stamp = Stamp1(j) \/ j.after >= 1
    <3>1. j.after = 0 => j.before[1] = <<d.linked, d.stamp, d.main>>
        BY <1>2 DEF ObserveAgainIs
    <3> QED
        BY <2>1, <3>1 DEF Stamp1
  <2>8. MainInv(n)
      BY <2>1, <2>4, <2>7 DEF JobInv, MainInv, Main, Stamp1, Main1, Capturing
  <2>9. LogInv(n)
    <3>1. j.after + 1 >= 2 => j.after >= 2 \/ j.after = 1
        BY <2>1
    <3>2. j.after = 1 => d.wal = Log2(j)
        BY <1>2 DEF ObserveAgainIs, Log2
    <3> QED
        BY <2>1, <2>4, <3>1, <3>2 DEF JobInv, LogInv, Log2, Main, Capturing
  <2>10. MomentInv(n)
      BY <2>1, <2>4, <2>7 DEF JobInv, MomentInv, Log2, Main, Capturing, Stamp1, Main1
  <2>11. BrainInv(n) /\ PartsInv(n)
      BY <2>1, <2>4 DEF JobInv, BrainInv, PartsInv
  <2> QED
      BY <2>5, <2>6, <2>8, <2>9, <2>10, <2>11 DEF Advances, JobInv
<1> QED
    BY <1>1, <1>2, ObserveAgainCases DEF JobInv

\* What a capture that nothing disturbed recovers was committed while it ran.
LEMMA RecoveredWas ==
    ASSUME FilesFine, NEW j, JobInv(j), j.pc = "recheck", j.after = 4
    PROVE  Recovered(j) \in Whole /\ \E m \in Moments(j.since) : m[j.part] = Recovered(j)
<1>1. Len(j.before) = 4 /\ DOMAIN j.copy = Pages /\ Capturing(j) /\ j.copy \in Pieces /\ j.log \in Pieces
    BY DEF JobInv, Shape, Job, Capturing
<1>2. PICK m \in Moments(j.since) : m[j.part] = Overlay(Main1(j), LogOf(Log2(j)))
    BY <1>1 DEF JobInv, MomentInv
<1>3. \A p \in Pages : j.copy[p] = Main1(j)[p]
    BY <1>1 DEF JobInv, MainInv
<1>4. j.log = LogOf(Log2(j))
    BY <1>1 DEF JobInv, LogInv, LogOf
<1>5. Recovered(j) = Overlay(Main1(j), LogOf(Log2(j)))
    BY <1>3, <1>4 DEF Recovered, Overlay
<1> QED
    BY <1>1, <1>2, <1>5, OverlayType DEF Recovered

\* The next capture starts with nothing seen.
LEMMA Afresh ==
    ASSUME NEW n \in Job, n.pc \in {"capture", "list", "publish"}, n.before = <<>>, n.after = 0, n.copy = NoLog,
           n.path \in Paths, n.since \in 1 .. Len(history), PartsInv(n),
           \/ n.pc = "capture" /\ n.part \in Databases
           \/ n.pc = "list" /\ n.part = "brain" /\ n.seen = NoLog /\ n.copied = {} /\ n.again = {}
           \/ n.pc = "publish" /\ n.part = "published",
           n.part \in {"conversation", "brain"} => n.parts.brain = Absent
    PROVE  JobInv(n)
<1>1. Len(n.before) = 0
    OBVIOUS
<1>2. Shape(n)
    BY <1>1 DEF Shape
<1>3. MainInv(n) /\ LogInv(n) /\ MomentInv(n) /\ BrainInv(n)
    BY <1>1 DEF MainInv, LogInv, MomentInv, BrainInv
<1> QED
    BY <1>2, <1>3 DEF JobInv

LEMMA SnapshotFine ==
    ASSUME FilesFine, NEW a \in Archivers, JobInv(job[a]), Snapshot(a)
    PROVE  Advances(a)
<1> DEFINE j == job[a]
           r == Recovered(j)
           next == [Idle EXCEPT !.path = j.path, !.since = j.since, !.parts = j.parts]
           withDb == [next EXCEPT !.pc = "list", !.part = "brain", !.parts.db = r]
           withRow == [next EXCEPT !.pc = "publish", !.part = "published", !.parts.summary = Row(r)]
<1>1. j \in Job /\ j.pc = "recheck" /\ j.after = 4 /\ j.part \in Databases /\ j.path \in Paths
      /\ j.since \in 1 .. Len(history) /\ j.since \in Nat /\ j.parts \in Parts
    BY DEF JobInv, Shape, Job, Snapshot, Watched
<1>2. r \in Whole /\ \E m \in Moments(j.since) : m[j.part] = r
    BY <1>1, RecoveredWas
<1> HIDE DEF r
<1>3. Row(r) \in Nat \cup {Absent}
    BY <1>2, FilesAssumption DEF Row, Whole
<1>4. next \in Job
    BY <1>1, IdleType, Zenon DEF Job
<1>5. next.before = <<>> /\ next.after = 0 /\ next.copy = NoLog /\ next.path = j.path /\ next.since = j.since
      /\ next.parts = j.parts /\ next.seen = NoLog /\ next.copied = {} /\ next.again = {}
    BY <1>1, IdleType DEF Job
<1> HIDE DEF next
<1>6. IF j.part = "conversation" THEN Go(a, withDb) ELSE Go(a, withRow)
    BY DEF Snapshot, next, r
<1>7. CASE j.part = "conversation"
  <2>1. /\ [next.parts EXCEPT !.db = r] \in Parts /\ [next.parts EXCEPT !.db = r].db = r
        /\ [next.parts EXCEPT !.db = r].brain = j.parts.brain
      BY <1>1, <1>2, <1>5 DEF Parts
  <2>2. "list" \in JobPCs
      BY DEF JobPCs
  <2>3. withDb = [next EXCEPT !.pc = "list", !.part = "brain", !.parts = [next.parts EXCEPT !.db = r]]
      BY <1>4 DEF Job
  <2>4. withDb \in Job
      BY <1>4, <2>1, <2>2, <2>3, Zenon DEF Job
  <2>5. withDb.pc = "list" /\ withDb.part = "brain" /\ withDb.before = <<>> /\ withDb.after = 0 /\ withDb.copy = NoLog
        /\ withDb.path = j.path /\ withDb.since = j.since /\ withDb.parts.db = r /\ withDb.parts.brain = j.parts.brain
        /\ withDb.seen = NoLog /\ withDb.copied = {} /\ withDb.again = {}
      BY <1>4, <1>5, <2>1, <2>3 DEF Job
  <2> HIDE DEF withDb
  <2>6. PartsInv(withDb)
      BY <1>2, <1>7, <2>5 DEF PartsInv, DbWas
  <2>7. withDb.parts.brain = Absent
      BY <1>1, <1>7, <2>5 DEF JobInv, Shape
  <2> QED
      BY <1>1, <1>6, <1>7, <2>4, <2>5, <2>6, <2>7, Afresh DEF Advances
<1>8. CASE j.part = "summaries"
  <2>1. /\ [next.parts EXCEPT !.summary = Row(r)] \in Parts
        /\ [next.parts EXCEPT !.summary = Row(r)].summary = Row(r)
        /\ [next.parts EXCEPT !.summary = Row(r)].db = j.parts.db
        /\ [next.parts EXCEPT !.summary = Row(r)].brain = j.parts.brain
      BY <1>1, <1>3, <1>5 DEF Parts
  <2>2. "publish" \in JobPCs
      BY DEF JobPCs
  <2>3. withRow = [next EXCEPT !.pc = "publish", !.part = "published", !.parts = [next.parts EXCEPT !.summary = Row(r)]]
      BY <1>4 DEF Job
  <2>4. withRow \in Job
      BY <1>4, <2>1, <2>2, <2>3, Zenon DEF Job
  <2>5. withRow.pc = "publish" /\ withRow.part = "published" /\ withRow.before = <<>> /\ withRow.after = 0
        /\ withRow.copy = NoLog /\ withRow.path = j.path /\ withRow.since = j.since /\ withRow.parts.db = j.parts.db
        /\ withRow.parts.brain = j.parts.brain /\ withRow.parts.summary = Row(r)
      BY <1>4, <1>5, <2>1, <2>3 DEF Job
  <2> HIDE DEF withRow
  <2>6. DbWas(j.parts, Moments(j.since)) /\ BrainWas(j.parts, Moments(j.since))
      BY <1>1, <1>8 DEF JobInv, PartsInv
  <2>7. SummaryWas(withRow.parts, Moments(j.since))
      BY <1>2, <1>8, <2>5 DEF SummaryWas
  <2>8. PartsInv(withRow)
      BY <2>5, <2>6, <2>7 DEF PartsInv, DbWas, BrainWas, Kept
  <2> QED
      BY <1>1, <1>6, <1>8, <2>4, <2>5, <2>8, Afresh DEF Advances
<1> QED
    BY <1>1, <1>7, <1>8 DEF Databases

\* A set of numbers has a least one.
LEMMA LeastIs == ASSUME NEW files \in SUBSET Nat, files # {} PROVE Least(files) \in files
<1> DEFINE R == OpToRel(<, Nat)
<1>1. IsWellFoundedOn(R, Nat)
    BY NatLessThanWellFounded
<1>2. \A f, g \in Nat : g < f => <<g, f>> \in R
    BY DEF OpToRel
<1> HIDE DEF R
<1>3. PICK f \in files : \A g \in files : <<g, f>> \notin R
    BY <1>1, WFMin
<1>4. ASSUME NEW g \in files PROVE f <= g
  <2>1. f \in Nat /\ g \in Nat /\ ~(g < f)
      BY <1>2, <1>3
  <2> QED
      BY <2>1
<1> QED
    BY <1>4 DEF Least

\* The files of the brain that are not listed are, at the present moment, absent.
LEMMA AbsentNow ==
    ASSUME FilesFine, NEW n \in 1 .. Len(history), NEW f \in BrainFiles \ Present
    PROVE  \E m \in Moments(n) : m.brain[f] = Absent
BY PresentMoment, MomentParts DEF Present

LEMMA SummariesFine ==
    ASSUME NEW j \in Job, j.path \in Paths, j.since \in 1 .. Len(history), j.part = "brain",
           DbWas(j.parts, Moments(j.since)), BrainWas(j.parts, Moments(j.since))
    PROVE  JobInv(Summaries(j))
<1> DEFINE n == Summaries(j)
<1>1. Idle \in Job /\ "capture" \in JobPCs /\ j.parts \in Parts /\ j.since \in Nat
    BY IdleType DEF JobPCs, Job
<1>2. n \in Job
    BY <1>1, Zenon DEF Summaries, Job
<1>3. n.pc = "capture" /\ n.part = "summaries" /\ n.before = <<>> /\ n.after = 0 /\ n.copy = NoLog
      /\ n.path = j.path /\ n.since = j.since /\ n.parts = j.parts
    BY <1>1, IdleType DEF Summaries, Job
<1> HIDE DEF n
<1>4. PartsInv(n)
    BY <1>3 DEF PartsInv
<1> QED
    BY <1>2, <1>3, <1>4, Afresh DEF Databases, n

\* What the steps over the brain have in common.
Listing(j) == /\ j \in Job /\ j.part = "brain" /\ j.path \in Paths /\ j.since \in 1 .. Len(history) /\ j.parts.brain = Absent
              /\ DbWas(j.parts, Moments(j.since))
LEMMA ListingIs == ASSUME NEW j, JobInv(j), j.pc \in {"list", "hash", "rehash"} PROVE Listing(j)
BY DEF JobInv, Shape, PartsInv, Listing
LEMMA ListingFine ==
    ASSUME NEW n, Listing(n), n.pc \in {"hash", "rehash"}, n.pc = "hash" => n.again = {}, BrainInv(n)
    PROVE  JobInv(n)
<1>1. Shape(n)
    BY DEF Shape, Listing
<1>2. MainInv(n) /\ LogInv(n) /\ MomentInv(n)
    BY DEF MainInv, LogInv, MomentInv, Capturing
<1>3. PartsInv(n)
    BY DEF PartsInv, Listing
<1> QED
    BY <1>1, <1>2, <1>3 DEF JobInv

LEMMA ListBrainFine ==
    ASSUME FilesFine, NEW a \in Archivers, JobInv(job[a]), ListBrain(a)
    PROVE  Advances(a)
<1> DEFINE j == job[a]
           n == [j EXCEPT !.pc = "hash", !.list = Present]
<1>1. Listing(j) /\ j.pc = "list"
    BY ListingIs DEF ListBrain
<1>2. CASE Present = {} /\ Go(a, Summaries(j))
  <2>1. Kept(j.parts) = NoLog /\ DOMAIN NoLog = {}
      BY <1>1, NoLogType DEF Kept, Listing
  <2>2. \A f \in BrainFiles : \E m \in Moments(j.since) : m.brain[f] = Absent
      BY <1>1, <1>2, AbsentNow DEF Listing
  <2>3. \E m \in Moments(j.since) : TRUE
      BY <1>1, PresentMoment DEF Listing
  <2>4. BrainWas(j.parts, Moments(j.since))
      BY <2>1, <2>2, <2>3 DEF BrainWas
  <2>5. Go(a, Summaries(j))
      BY <1>2
  <2> QED
      BY <1>1, <2>4, <2>5, SummariesFine DEF Advances, Listing
<1>3. CASE Go(a, n)
  <2>1. Present \in SUBSET BrainFiles /\ "hash" \in JobPCs
      BY DEF Present, JobPCs
  <2>2. n \in Job
      BY <1>1, <2>1, Zenon DEF Job, Listing
  <2>3. n.pc = "hash" /\ n.list = Present /\ n.seen = j.seen /\ n.copied = j.copied /\ n.again = j.again
        /\ n.part = j.part /\ n.path = j.path /\ n.since = j.since /\ n.parts = j.parts
      BY <1>1 DEF Job, Listing
  <2>4. Go(a, n)
      BY <1>3
  <2> HIDE DEF n
  <2>5. n.seen = NoLog /\ n.copied = {} /\ n.again = {}
      BY <1>1, <2>3 DEF JobInv, Shape
  <2>6. BrainInv(n)
      BY <1>1, <2>3, <2>5, NoLogType, AbsentNow DEF BrainInv, Listing
  <2> QED
      BY <1>1, <2>2, <2>3, <2>4, <2>5, <2>6, ListingFine DEF Advances, Listing
<1> QED
    BY <1>2, <1>3 DEF ListBrain

LEMMA BrainPiecesAre ==
    ASSUME NEW x \in BrainPieces
    PROVE  x # Absent /\ DOMAIN x \subseteq BrainFiles /\ \A f \in DOMAIN x : x[f] \in Nat
<1>1. PICK some \in SUBSET BrainFiles : x \in [some -> Nat]
    BY DEF BrainPieces
<1> QED
    BY <1>1, FilesAssumption

\* One more file of the brain.
LEMMA BrainPiecesGrow ==
    ASSUME NEW x \in BrainPieces, NEW f \in BrainFiles, NEW v \in Nat
    PROVE  [g \in DOMAIN x \cup {f} |-> IF g = f THEN v ELSE x[g]] \in BrainPieces
<1>1. DOMAIN x \cup {f} \in SUBSET BrainFiles
    BY BrainPiecesAre
<1>2. \A g \in DOMAIN x \cup {f} : (IF g = f THEN v ELSE x[g]) \in Nat
    BY BrainPiecesAre
<1>3. [g \in DOMAIN x \cup {f} |-> IF g = f THEN v ELSE x[g]] \in [DOMAIN x \cup {f} -> Nat]
    BY <1>2
<1> QED
    BY <1>1, <1>3 DEF BrainPieces

\* The next file is one of those that are left.
LEMMA NextFile ==
    ASSUME NEW files \in SUBSET BrainFiles, NEW done \in SUBSET files, done # files
    PROVE  Least(files \ done) \in files \ done /\ Least(files \ done) \in BrainFiles
<1>1. files \ done \in SUBSET Nat /\ files \ done # {}
    BY FilesAssumption
<1> QED
    BY <1>1, LeastIs

LEMMA HashBrainFine ==
    ASSUME FilesFine, NEW a \in Archivers, JobInv(job[a]), HashBrain(a)
    PROVE  Advances(a)
<1> DEFINE j == job[a]
           f == Least(j.list \ DOMAIN j.seen)
           seen == [g \in DOMAIN j.seen \cup {f} |-> IF g = f THEN brain[f] ELSE j.seen[g]]
           n == [j EXCEPT !.seen = seen]
<1>1. Listing(j) /\ j.pc = "hash" /\ j.list \in SUBSET BrainFiles /\ j.seen \in BrainPieces /\ j.again = {}
      /\ j.list # DOMAIN j.seen /\ j \in Job
    BY ListingIs DEF HashBrain, JobInv, Shape, Job
<1>2. /\ DOMAIN j.seen \in SUBSET j.list
      /\ \A g \in DOMAIN j.seen : j.seen[g] <= writes
      /\ \A g \in BrainFiles \ j.list : \E m \in Moments(j.since) : m.brain[g] = Absent
      /\ j.copied \subseteq j.list /\ j.copied = {}
    BY <1>1 DEF JobInv, BrainInv
<1>3. f \in j.list /\ f \in BrainFiles
    BY <1>1, <1>2, NextFile
<1> HIDE DEF f
<1>4. CASE brain[f] = Absent
  <2>1. Stop(a, "blocked_snapshot_failed")
      BY <1>4 DEF HashBrain, f
  <2> QED
      BY <2>1, StopFine DEF JobStates
<1>5. CASE brain[f] # Absent
  <2>1. brain[f] \in Nat /\ brain[f] <= writes
      BY <1>3, <1>5 DEF FilesFine, FilesTypeOK, FilesInv
  <2>2. seen \in BrainPieces
      BY <1>1, <1>3, <2>1, BrainPiecesGrow
  <2>3. DOMAIN seen \subseteq j.list /\ \A g \in DOMAIN seen : seen[g] <= writes
      BY <1>2, <1>3, <2>1
  <2>4. Go(a, n)
      BY <1>5 DEF HashBrain, f
  <2> HIDE DEF seen
  <2>5. n \in Job
      BY <1>1, <2>2, Zenon DEF Job
  <2>6. n.pc = "hash" /\ n.list = j.list /\ n.seen = seen /\ n.copied = j.copied /\ n.again = j.again
        /\ n.part = j.part /\ n.path = j.path /\ n.since = j.since /\ n.parts = j.parts
      BY <1>1 DEF Job
  <2> HIDE DEF n
  <2>7. BrainInv(n)
      BY <1>2, <2>3, <2>6 DEF BrainInv
  <2> QED
      BY <1>1, <2>4, <2>5, <2>6, <2>7, ListingFine DEF Advances, Listing
<1> QED
    BY <1>4, <1>5

LEMMA CopyBrainFine ==
    ASSUME FilesFine, NEW a \in Archivers, JobInv(job[a]), CopyBrain(a)
    PROVE  Advances(a)
<1> DEFINE j == job[a]
           f == Least(j.list \ j.copied)
           n == [j EXCEPT !.copied = @ \cup {f}]
<1>1. Listing(j) /\ j.pc = "hash" /\ j.list \in SUBSET BrainFiles /\ j.again = {}
      /\ j.list = DOMAIN j.seen /\ j.copied # j.list /\ j \in Job
    BY ListingIs DEF CopyBrain, JobInv, Shape, Job
<1>2. /\ \A g \in DOMAIN j.seen : j.seen[g] <= writes
      /\ \A g \in BrainFiles \ j.list : \E m \in Moments(j.since) : m.brain[g] = Absent
      /\ j.copied \in SUBSET j.list
    BY <1>1 DEF JobInv, BrainInv
<1>3. f \in j.list /\ f \in BrainFiles
    BY <1>1, <1>2, NextFile
<1> HIDE DEF f
<1>4. CASE Stop(a, "blocked_source_changed")
    BY <1>4, StopFine DEF JobStates
<1>5. CASE Go(a, n)
  <2>1. j.copied \cup {f} \in SUBSET BrainFiles /\ j.copied \cup {f} \subseteq j.list
      BY <1>1, <1>2, <1>3
  <2>2. n \in Job
      BY <1>1, <2>1, Zenon DEF Job
  <2>3. n.pc = "hash" /\ n.list = j.list /\ n.seen = j.seen /\ n.copied = j.copied \cup {f} /\ n.again = j.again
        /\ n.part = j.part /\ n.path = j.path /\ n.since = j.since /\ n.parts = j.parts
      BY <1>1 DEF Job
  <2>4. Go(a, n)
      BY <1>5
  <2> HIDE DEF n
  <2>5. BrainInv(n)
      BY <1>1, <1>2, <2>1, <2>3 DEF BrainInv
  <2> QED
      BY <1>1, <2>2, <2>3, <2>4, <2>5, ListingFine DEF Advances, Listing
<1> QED
    BY <1>4, <1>5 DEF CopyBrain, f

LEMMA ListAgainFine ==
    ASSUME FilesFine, NEW a \in Archivers, JobInv(job[a]), ListAgain(a)
    PROVE  Advances(a)
<1> DEFINE j == job[a]
           n == [j EXCEPT !.pc = "rehash"]
<1>1. Listing(j) /\ j.pc = "hash" /\ j.list \in SUBSET BrainFiles /\ j.again = {} /\ DOMAIN j.seen = j.list /\ j \in Job
    BY ListingIs DEF ListAgain, JobInv, Shape, Job
<1>2. /\ DOMAIN j.seen = j.list
      /\ \A g \in DOMAIN j.seen : j.seen[g] <= writes
      /\ \A g \in BrainFiles \ j.list : \E m \in Moments(j.since) : m.brain[g] = Absent
      /\ j.copied \subseteq j.list
    BY <1>1 DEF JobInv, BrainInv
<1>3. CASE Stop(a, "blocked_source_changed")
    BY <1>3, StopFine DEF JobStates
<1>4. CASE Go(a, n)
  <2>1. "rehash" \in JobPCs
      BY DEF JobPCs
  <2>2. n \in Job
      BY <1>1, <2>1, Zenon DEF Job
  <2>3. n.pc = "rehash" /\ n.list = j.list /\ n.seen = j.seen /\ n.copied = j.copied /\ n.again = {}
        /\ n.part = j.part /\ n.path = j.path /\ n.since = j.since /\ n.parts = j.parts
      BY <1>1 DEF Job
  <2>4. Go(a, n)
      BY <1>4
  <2> HIDE DEF n
  <2>5. (\A f \in j.list : brain[f] = j.seen[f]) => \E m \in Moments(j.since) : AllAt(j.list, j.seen, m)
      BY <1>1, PresentMoment, MomentParts DEF AllAt, Listing
  <2>6. BrainInv(n)
      BY <1>2, <2>3, <2>5 DEF BrainInv
  <2> QED
      BY <1>1, <2>2, <2>3, <2>4, <2>6, ListingFine DEF Advances, Listing
<1> QED
    BY <1>3, <1>4 DEF ListAgain

LEMMA HashAgainFine ==
    ASSUME FilesFine, NEW a \in Archivers, JobInv(job[a]), HashAgain(a)
    PROVE  Advances(a)
<1> DEFINE j == job[a]
           f == Least(j.list \ j.again)
           n == [j EXCEPT !.again = @ \cup {f}]
<1>1. Listing(j) /\ j.pc = "rehash" /\ j.list \in SUBSET BrainFiles /\ j \in Job /\ j.again \in SUBSET BrainFiles
    BY ListingIs DEF HashAgain, JobInv, Shape, Job
<1>2. /\ DOMAIN j.seen = j.list
      /\ \A g \in DOMAIN j.seen : j.seen[g] <= writes
      /\ \A g \in BrainFiles \ j.list : \E m \in Moments(j.since) : m.brain[g] = Absent
      /\ j.copied \subseteq j.list /\ j.again \subseteq j.list
      /\ (\A g \in j.list \ j.again : brain[g] = j.seen[g]) => \E m \in Moments(j.since) : AllAt(j.list, j.seen, m)
    BY <1>1 DEF JobInv, BrainInv
<1>3. CASE Stop(a, "blocked_source_changed")
    BY <1>3, StopFine DEF JobStates
<1>4. CASE brain[f] = j.seen[f] /\ Go(a, n)
  <2>1. f \in BrainFiles /\ f \in j.list
    <3>1. j.again # j.list
        BY DEF HashAgain
    <3> QED
        BY <1>1, <1>2, <3>1, NextFile
  <2> HIDE DEF f
  <2>2. j.again \cup {f} \in SUBSET BrainFiles
      BY <1>1, <2>1
  <2>3. n \in Job
      BY <1>1, <2>2, Zenon DEF Job
  <2>4. n.pc = "rehash" /\ n.list = j.list /\ n.seen = j.seen /\ n.copied = j.copied /\ n.again = j.again \cup {f}
        /\ n.part = j.part /\ n.path = j.path /\ n.since = j.since /\ n.parts = j.parts
      BY <1>1 DEF Job
  <2>5. Go(a, n)
      BY <1>4
  <2> HIDE DEF n
  <2>6. (\A g \in j.list \ (j.again \cup {f}) : brain[g] = j.seen[g]) => \E m \in Moments(j.since) : AllAt(j.list, j.seen, m)
      BY <1>2, <1>4
  <2>7. BrainInv(n)
      BY <1>2, <2>1, <2>4, <2>6 DEF BrainInv
  <2> QED
      BY <1>1, <2>3, <2>4, <2>5, <2>7, ListingFine DEF Advances, Listing
<1> QED
    BY <1>3, <1>4 DEF HashAgain

LEMMA BrainDoneFine ==
    ASSUME FilesFine, NEW a \in Archivers, JobInv(job[a]), BrainDone(a)
    PROVE  Advances(a)
<1> DEFINE j == job[a]
           parts == [j.parts EXCEPT !.brain = j.seen]
           done == [j EXCEPT !.parts = parts]
<1>1. Listing(j) /\ j.pc = "rehash" /\ j.list \in SUBSET BrainFiles /\ j \in Job /\ j.again = j.list /\ j.seen \in BrainPieces
      /\ j.parts \in Parts
    BY ListingIs DEF BrainDone, JobInv, Shape, Job
<1>2. /\ DOMAIN j.seen = j.list
      /\ \A g \in BrainFiles \ j.list : \E m \in Moments(j.since) : m.brain[g] = Absent
      /\ \E m \in Moments(j.since) : AllAt(j.list, j.seen, m)
    BY <1>1 DEF JobInv, BrainInv
<1>3. parts \in Parts /\ parts.db = j.parts.db /\ parts.brain = j.seen
    BY <1>1 DEF Parts
<1>4. [j EXCEPT !.parts.brain = j.seen] = done
    BY <1>1 DEF Job
<1> HIDE DEF parts
<1>5. done \in Job
    BY <1>1, <1>3, Zenon DEF Job
<1>6. done.part = "brain" /\ done.path = j.path /\ done.since = j.since /\ done.parts = parts
    BY <1>1 DEF Job, Listing
<1>7. Go(a, Summaries(done))
    BY <1>4 DEF BrainDone
<1> HIDE DEF done
<1>8. Kept(parts) = j.seen
    BY <1>1, <1>3, BrainPiecesAre DEF Kept
<1>9. DbWas(parts, Moments(j.since)) /\ BrainWas(parts, Moments(j.since))
    BY <1>1, <1>2, <1>3, <1>8 DEF DbWas, BrainWas, AllAt, Listing
<1> QED
    BY <1>1, <1>5, <1>6, <1>7, <1>9, SummariesFine DEF Advances, Listing

-----------------------------------------------------------------------------
(* The commands' records and the archives, under every step.               *)

\* What leaves the native program's files alone moves nothing.
LEMMA Still == ASSUME FilesFine, UNCHANGED filesVars PROVE FilesFine' /\ Drift
<1>1. db' = db /\ brain' = brain /\ writes' = writes /\ limit' = limit /\ history' = history
    BY DEF filesVars
<1>2. FilesFine'
    BY <1>1 DEF FilesFine, FilesTypeOK, FilesInv
<1>3. writes \in Nat /\ Len(history) \in Nat /\ db \in [Databases -> Database]
    BY DEF FilesFine, FilesTypeOK
<1>4. \A s \in Databases : db[s].stamp \in Nat
    BY <1>3 DEF Database
<1> QED
    BY <1>1, <1>2, <1>3, <1>4 DEF Drift, Grows

LEMMA JobsStay ==
    ASSUME FilesFine, FilesFine', Drift, job = [a \in Archivers |-> job[a]], job' = job,
           \A a \in Archivers : JobInv(job[a])
    PROVE  (\A a \in Archivers : JobInv(job[a]))'
<1> SUFFICES ASSUME NEW a \in Archivers PROVE JobInv(job[a])'
    OBVIOUS
<1>1. PICK j : j = job[a]
    OBVIOUS
<1>2. JobInv(j)'
    BY <1>1, JobStays
<1>3. job'[a] = j
    BY <1>1
<1> QED
    BY <1>2, <1>3

\* An archive stays what it is said to be as the history grows.
LEMMA CoherentStays ==
    ASSUME FilesFine, FilesFine', Grows, NEW parts, NEW n \in Nat, n >= 1, Coherent(parts, Moments(n))
    PROVE  Coherent(parts, Moments(n)')
<1>1. Moments(n) \subseteq Moments(n)'
    BY MomentsGrow
<1> QED
    BY <1>1, WasGrows

\* The archive of a command is the last thing it leaves, and its parts are of all
\* moments together as of those it saw.
ArchiveFine(archive) ==
    /\ archive \in Bundles
    /\ Coherent(archive.parts, Moments(1))
    /\ archive.id \in Archivers =>
          /\ job[archive.id].pc = "ended"
          /\ job[archive.id].since >= 1
          /\ Coherent(archive.parts, Moments(job[archive.id].since))
LEMMA ArchiveInvIs ==
    ArchiveInv <=> /\ archives \in [Paths -> Bundles \cup {Absent}]
                   /\ \A p \in Paths : archives[p] # Absent => ArchiveFine(archives[p])
BY DEF ArchiveInv, ArchiveFine

\* Whatever moves the files or another command leaves every archive as it was.
LEMMA ArchiveStays ==
    ASSUME FilesFine, FilesFine', Drift, \A a \in Archivers : job[a].since \in Nat, NEW x, ArchiveFine(x),
           x.id \in Archivers => job'[x.id] = job[x.id]
    PROVE  ArchiveFine(x)'
<1>1. Coherent(x.parts, Moments(1)')
    BY CoherentStays DEF Drift, ArchiveFine
<1>2. x.id \in Archivers => Coherent(x.parts, Moments(job[x.id].since)')
  <2> SUFFICES ASSUME x.id \in Archivers PROVE Coherent(x.parts, Moments(job[x.id].since)')
      OBVIOUS
  <2>1. PICK n : n = job[x.id].since
      OBVIOUS
  <2>2. n \in Nat /\ n >= 1 /\ Coherent(x.parts, Moments(n))
      BY <2>1 DEF ArchiveFine
  <2> QED
      BY <2>1, <2>2, CoherentStays DEF Drift
<1> QED
    BY <1>1, <1>2 DEF ArchiveFine

LEMMA SinceType == ASSUME \A a \in Archivers : JobInv(job[a]) PROVE \A a \in Archivers : job[a].since \in Nat
<1> SUFFICES ASSUME NEW a \in Archivers PROVE job[a].since \in Nat
    OBVIOUS
<1>1. job[a] \in Job
    BY DEF JobInv, Shape
<1> QED
    BY <1>1 DEF Job

LEMMA FilesMove ==
    ASSUME FilesFine, FilesFine', Drift, CaptureInv, UNCHANGED archiveVars
    PROVE  CaptureInv'
<1>1. job' = job /\ archives' = archives
    BY DEF archiveVars
<1>2. (\A a \in Archivers : JobInv(job[a]))'
    BY <1>1, JobsStay DEF CaptureInv
<1>3. \A a \in Archivers : job[a].since \in Nat
    BY SinceType DEF CaptureInv
<1>4. archives \in [Paths -> Bundles \cup {Absent}] /\ \A p \in Paths : archives[p] # Absent => ArchiveFine(archives[p])
    BY ArchiveInvIs DEF CaptureInv
<1>5. ASSUME NEW p \in Paths, archives'[p] # Absent PROVE ArchiveFine(archives[p])'
  <2>1. PICK x : x = archives[p]
      OBVIOUS
  <2>2. ArchiveFine(x)'
      BY <1>1, <1>3, <1>4, <1>5, <2>1, ArchiveStays
  <2>3. archives'[p] = x
      BY <1>1, <2>1
  <2> QED
      BY <2>2, <2>3
<1>6. ArchiveInv'
    BY <1>1, <1>4, <1>5 DEF ArchiveInv, ArchiveFine
<1> QED
    BY <1>1, <1>2, <1>6 DEF CaptureInv

LEMMA CommandMoves ==
    ASSUME FilesFine, UNCHANGED filesVars, CaptureInv, NEW a \in Archivers, job[a].pc # "ended", Advances(a)
    PROVE  CaptureInv'
<1>1. PICK n : Go(a, n) /\ JobInv(n)
    BY DEF Advances
<1>2. job' = [job EXCEPT ![a] = n] /\ archives' = archives
    BY <1>1 DEF Go
<1>3. FilesFine' /\ Drift
    BY Still
<1>4. job = [b \in Archivers |-> job[b]] /\ \A b \in Archivers : JobInv(job[b])
    BY DEF CaptureInv
<1>5. job'[a] = n /\ (\A b \in Archivers \ {a} : job'[b] = job[b]) /\ job' = [b \in Archivers |-> job'[b]]
    BY <1>2, <1>4
<1>6. ASSUME NEW b \in Archivers PROVE JobInv(job[b])'
  <2>1. PICK j : j = IF b = a THEN n ELSE job[b]
      OBVIOUS
  <2>2. JobInv(j)'
      BY <1>1, <1>3, <1>4, <2>1, JobStays
  <2>3. job'[b] = j
      BY <1>5, <2>1
  <2> QED
      BY <2>2, <2>3
<1>7. \A b \in Archivers : job[b].since \in Nat
    BY <1>4, SinceType
<1>8. archives \in [Paths -> Bundles \cup {Absent}] /\ \A p \in Paths : archives[p] # Absent => ArchiveFine(archives[p])
    BY ArchiveInvIs DEF CaptureInv
<1>9. ASSUME NEW p \in Paths, archives'[p] # Absent PROVE ArchiveFine(archives[p])'
  <2>1. PICK x : x = archives[p]
      OBVIOUS
  <2>2. ArchiveFine(x)
      BY <1>2, <1>8, <1>9, <2>1
  <2>3. x.id \in Archivers => job'[x.id] = job[x.id]
      BY <1>5, <2>2 DEF ArchiveFine
  <2>4. ArchiveFine(x)'
      BY <1>3, <1>7, <2>2, <2>3, ArchiveStays
  <2>5. archives'[p] = x
      BY <1>2, <2>1
  <2> QED
      BY <2>4, <2>5
<1>10. ArchiveInv'
    BY <1>2, <1>8, <1>9 DEF ArchiveInv, ArchiveFine
<1> QED
    BY <1>5, <1>6, <1>10 DEF CaptureInv

\* The rename makes an archive of what was captured while the command ran.
LEMMA Publishing ==
    ASSUME FilesFine, UNCHANGED filesVars, CaptureInv, NEW a \in Archivers, job[a].pc = "publish",
           archives' = [archives EXCEPT ![job[a].path] = Bundle(a)],
           job' = [job EXCEPT ![a].pc = "ended", ![a].state = "archived_consistent_snapshot"]
    PROVE  CaptureInv'
<1> DEFINE j == job[a]
           half == [j EXCEPT !.pc = "ended"]
           n == [half EXCEPT !.state = "archived_consistent_snapshot"]
           bundle == Bundle(a)
<1>1. job = [b \in Archivers |-> job[b]] /\ \A b \in Archivers : JobInv(job[b])
    BY DEF CaptureInv
<1>2. j \in Job /\ j.part = "published" /\ j.path \in Paths /\ j.since \in 1 .. Len(history) /\ j.parts \in Parts
      /\ j.since \in Nat /\ j.since >= 1 /\ Len(history) \in Nat
  <2>1. Len(history) \in Nat
      BY DEF FilesFine, FilesTypeOK
  <2>2. Shape(j) /\ j.pc = "publish"
      BY <1>1 DEF JobInv
  <2>3. j \in Job /\ j.part = "published" /\ j.path \in Paths /\ j.since \in 1 .. Len(history)
      BY <2>2 DEF Shape
  <2>4. j.parts \in Parts
      BY <2>3 DEF Job
  <2> QED
      BY <2>1, <2>3, <2>4
<1>3. FilesFine' /\ Drift
    BY Still
<1>4. "ended" \in JobPCs /\ "archived_consistent_snapshot" \in JobStates
    BY DEF JobPCs, JobStates
<1>5. half \in Job /\ half.since = j.since
  <2>1. half \in Job
      BY <1>2, <1>4, Zenon DEF Job
  <2> QED
      BY <1>2, <2>1 DEF Job
<1>6. job' = [job EXCEPT ![a] = n]
    BY <1>1, <1>2 DEF Job
<1> HIDE DEF half
<1>7. n \in Job /\ n.pc = "ended" /\ n.since = j.since
  <2>1. n \in Job
      BY <1>4, <1>5, Zenon DEF Job
  <2> QED
      BY <1>5, <2>1 DEF Job, half
<1> HIDE DEF n
<1>8. JobInv(n)
    BY <1>7, EndedFine
<1>9. job'[a] = n /\ (\A b \in Archivers \ {a} : job'[b] = job[b]) /\ job' = [b \in Archivers |-> job'[b]]
    BY <1>1, <1>6
<1>10. ASSUME NEW b \in Archivers PROVE JobInv(job[b])'
  <2>1. PICK k : k = IF b = a THEN n ELSE job[b]
      OBVIOUS
  <2>2. JobInv(k)'
      BY <1>1, <1>3, <1>8, <2>1, JobStays
  <2>3. job'[b] = k
      BY <1>9, <2>1
  <2> QED
      BY <2>2, <2>3
<1>11. \A b \in Archivers : job[b].since \in Nat
    BY <1>1, SinceType
<1>12. archives \in [Paths -> Bundles \cup {Absent}] /\ \A p \in Paths : archives[p] # Absent => ArchiveFine(archives[p])
    BY ArchiveInvIs DEF CaptureInv
<1>13. bundle \in Bundles /\ bundle.id = a /\ bundle.parts = j.parts
    BY <1>2 DEF Bundle, Bundles
<1>14. Coherent(j.parts, Moments(j.since)) /\ Coherent(j.parts, Moments(1))
  <2>1. Coherent(j.parts, Moments(j.since))
      BY <1>1, <1>2, CoherentIs DEF JobInv, PartsInv
  <2>2. Moments(j.since) \subseteq Moments(1)
    <3>1. j.since .. Len(history) \subseteq 1 .. Len(history)
        BY <1>2
    <3> QED
        BY <3>1 DEF Moments
  <2> QED
      BY <2>1, <2>2, WasGrows
<1>15. archives'[j.path] = bundle /\ (\A p \in Paths \ {j.path} : archives'[p] = archives[p])
       /\ archives' \in [Paths -> Bundles \cup {Absent}]
    BY <1>2, <1>12, <1>13
<1> HIDE DEF bundle
<1>16. ASSUME NEW p \in Paths, archives'[p] # Absent PROVE ArchiveFine(archives[p])'
  <2>1. CASE p = j.path
    <3>1. archives'[p] \in Bundles /\ archives'[p].id = a /\ archives'[p].parts = j.parts
        BY <1>13, <1>15, <2>1
    <3>2. history' = history
        BY DEF filesVars
    <3>3. job'[a].pc = "ended" /\ job'[a].since = j.since
        BY <1>7, <1>9
    <3>4. Moments(1)' = Moments(1) /\ Moments(job[a].since)' = Moments(j.since)
        BY <3>2, <3>3 DEF Moments
    <3>5. Coherent(j.parts, Moments(1)') /\ Coherent(j.parts, Moments(job[a].since)')
        BY <1>14, <3>4
    <3> QED
        BY <1>2, <3>1, <3>3, <3>5 DEF ArchiveFine
  <2>2. CASE p # j.path
    <3>1. PICK x : x = archives[p]
        OBVIOUS
    <3>2. ArchiveFine(x)
        BY <1>12, <1>15, <1>16, <2>2, <3>1
    <3>3. x.id \in Archivers => job'[x.id] = job[x.id]
        BY <1>9, <3>2 DEF ArchiveFine
    <3>4. ArchiveFine(x)'
        BY <1>3, <1>11, <3>2, <3>3, ArchiveStays
    <3>5. archives'[p] = x
        BY <1>15, <2>2, <3>1
    <3> QED
        BY <3>4, <3>5
  <2> QED
      BY <2>1, <2>2
<1>17. ArchiveInv'
    BY <1>15, <1>16 DEF ArchiveInv, ArchiveFine
<1> QED
    BY <1>9, <1>10, <1>17 DEF CaptureInv

LEMMA ArchiveSteps ==
    ASSUME FilesFine, CaptureInv, ArchiveStep, UNCHANGED filesVars
    PROVE  CaptureInv'
<1>1. PICK a \in Archivers :
        \/ \E path \in Paths : BeginArchive(a, path)
        \/ \E p \in Pages : CopyMain(a, p)
        \/ Observe(a) \/ CopyLog(a) \/ ObserveAgain(a) \/ Snapshot(a) \/ SnapshotFails(a)
        \/ ListBrain(a) \/ HashBrain(a) \/ CopyBrain(a) \/ ListAgain(a) \/ HashAgain(a) \/ BrainDone(a)
        \/ Publish(a) \/ Fail(a)
    BY DEF ArchiveStep
<1>2. JobInv(job[a])
    BY DEF CaptureInv
<1>3. CASE \E path \in Paths : BeginArchive(a, path)
    BY <1>2, <1>3, BeginArchiveFine, CommandMoves DEF BeginArchive
<1>4. CASE \E p \in Pages : CopyMain(a, p)
    BY <1>2, <1>4, CopyMainFine, CommandMoves DEF CopyMain
<1>5. CASE Observe(a)
    BY <1>2, <1>5, ObserveFine, CommandMoves DEF Observe
<1>6. CASE CopyLog(a)
    BY <1>2, <1>6, CopyLogFine, CommandMoves DEF CopyLog
<1>7. CASE ObserveAgain(a)
    BY <1>2, <1>7, ObserveAgainFine, CommandMoves DEF ObserveAgain
<1>8. CASE Snapshot(a)
    BY <1>2, <1>8, SnapshotFine, CommandMoves DEF Snapshot
<1>9. CASE SnapshotFails(a)
  <2>1. Blocked(a, "blocked_active_unstable") /\ job[a].pc # "ended"
      BY <1>9 DEF SnapshotFails
  <2> QED
      BY <1>2, <2>1, StopFine, CommandMoves DEF JobStates
<1>10. CASE ListBrain(a)
    BY <1>2, <1>10, ListBrainFine, CommandMoves DEF ListBrain
<1>11. CASE HashBrain(a)
    BY <1>2, <1>11, HashBrainFine, CommandMoves DEF HashBrain
<1>12. CASE CopyBrain(a)
    BY <1>2, <1>12, CopyBrainFine, CommandMoves DEF CopyBrain
<1>13. CASE ListAgain(a)
    BY <1>2, <1>13, ListAgainFine, CommandMoves DEF ListAgain
<1>14. CASE HashAgain(a)
    BY <1>2, <1>14, HashAgainFine, CommandMoves DEF HashAgain
<1>15. CASE BrainDone(a)
    BY <1>2, <1>15, BrainDoneFine, CommandMoves DEF BrainDone
<1>16. CASE Fail(a)
    BY <1>2, <1>16, StopFine, CommandMoves DEF Fail, JobStates
<1>17. CASE Publish(a)
  <2>1. CASE archives[job[a].path] # Absent
    <3>1. Stop(a, "blocked_snapshot_failed") /\ job[a].pc # "ended"
        BY <1>17, <2>1 DEF Publish
    <3> QED
        BY <1>2, <3>1, StopFine, CommandMoves DEF JobStates
  <2>2. CASE archives[job[a].path] = Absent
    <3>1. /\ archives' = [archives EXCEPT ![job[a].path] = Bundle(a)]
          /\ job' = [job EXCEPT ![a].pc = "ended", ![a].state = "archived_consistent_snapshot"]
          /\ job[a].pc = "publish"
        BY <1>17, <2>2 DEF Publish
    <3> QED
        BY <3>1, Publishing
  <2> QED
      BY <2>1, <2>2
<1> QED
    BY <1>1, <1>3, <1>4, <1>5, <1>6, <1>7, <1>8, <1>9, <1>10, <1>11, <1>12, <1>13, <1>14, <1>15, <1>16, <1>17

\* Whoever damages, copies or removes archives makes none of another content.
LEMMA OthersArchives ==
    ASSUME FilesFine, UNCHANGED filesVars, CaptureInv, job' = job, archives' \in [Paths -> Bundles \cup {Absent}],
           \A p \in Paths : archives'[p] # Absent =>
              \E q \in Paths : /\ archives[q] # Absent
                               /\ archives'[p].id = archives[q].id /\ archives'[p].parts = archives[q].parts
    PROVE  CaptureInv'
<1>1. FilesFine' /\ Drift /\ history' = history
    BY Still DEF filesVars
<1>2. (\A a \in Archivers : JobInv(job[a]))'
    BY <1>1, JobsStay DEF CaptureInv
<1>3. ASSUME NEW p \in Paths, archives'[p] # Absent PROVE ArchiveFine(archives[p])'
  <2>1. PICK q \in Paths : /\ archives[q] # Absent
                           /\ archives'[p].id = archives[q].id /\ archives'[p].parts = archives[q].parts
      BY <1>3
  <2>2. ArchiveFine(archives[q])
      BY <2>1, ArchiveInvIs DEF CaptureInv
  <2>3. archives'[p] \in Bundles
      BY <1>3
  <2>4. \A i : Moments(i)' = Moments(i)
      BY <1>1 DEF Moments
  <2> QED
      BY <2>1, <2>2, <2>3, <2>4 DEF ArchiveFine
<1>4. ArchiveInv'
    BY <1>3 DEF ArchiveInv, ArchiveFine
<1> QED
    BY <1>2, <1>4 DEF CaptureInv

LEMMA OthersKeepArchives ==
    ASSUME FilesFine, UNCHANGED filesVars, CaptureInv, job' = job, Others
    PROVE  CaptureInv'
<1>1. archives \in [Paths -> Bundles \cup {Absent}]
    BY DEF CaptureInv, ArchiveInv
<1>2. CASE \E path \in Paths : RemoveArchive(path)
  <2>1. PICK path \in Paths : archives' = [archives EXCEPT ![path] = Absent]
      BY <1>2 DEF RemoveArchive
  <2> QED
      BY <1>1, <2>1, OthersArchives
<1>3. CASE \E path \in Paths, part \in {"db", "brain", "all"} : Damage(path, part)
  <2>1. PICK path \in Paths, part \in {"db", "brain", "all"} :
            archives[path] # Absent /\ archives' = [archives EXCEPT ![path].damage = part]
      BY <1>3 DEF Damage
  <2> DEFINE x == [archives[path] EXCEPT !.damage = part]
  <2>2. archives[path] \in Bundles
      BY <1>1, <2>1
  <2>3. x \in Bundles /\ x.id = archives[path].id /\ x.parts = archives[path].parts
      BY <2>2 DEF Bundles
  <2>4. archives' = [archives EXCEPT ![path] = x]
      BY <2>1
  <2> HIDE DEF x
  <2>5. archives' \in [Paths -> Bundles \cup {Absent}] /\ archives'[path] = x
        /\ \A p \in Paths \ {path} : archives'[p] = archives[p]
      BY <1>1, <2>3, <2>4
  <2> QED
      BY <2>1, <2>3, <2>5, OthersArchives
<1>4. CASE \E path, to \in Paths : CopyArchive(path, to)
  <2>1. PICK path, to \in Paths : archives[path] # Absent /\ archives' = [archives EXCEPT ![to] = archives[path]]
      BY <1>4 DEF CopyArchive
  <2> QED
      BY <1>1, <2>1, OthersArchives
<1>5. CASE archives' = archives
    BY <1>1, <1>5, OthersArchives
<1>6. CASE \/ \E r \in Roots : CreateConversation(r) \/ OpenConversation(r) \/ CreateBrain(r)
           \/ \E which \in {"conv", "brain"} : ReplaceRoot(which)
    BY <1>5, <1>6 DEF CreateConversation, OpenConversation, CreateBrain, ReplaceRoot
<1> QED
    BY <1>2, <1>3, <1>4, <1>6 DEF Others

-----------------------------------------------------------------------------
(* Plans: the native program does not disturb what they may rely on. *)

LEMMA CommittedStays ==
    ASSUME FilesFine, FilesFine', Grows, NEW pages, NEW since \in Nat, since >= 1, Committed1(pages, since)
    PROVE  \E m \in Moments(since)' : m.conversation = pages
BY MomentsGrow DEF Committed1

LEMMA PlanStays ==
    ASSUME FilesFine, FilesFine', Drift, NEW j, PlanInv(j)
    PROVE  PlanInv(j)'
<1> DEFINE d == db["conversation"]
           e == db'["conversation"]
<1>1. /\ d.stamp \in Nat /\ e.stamp \in Nat /\ d.stamp <= e.stamp
      /\ e.stamp = d.stamp => e.main = d.main
  <2>1. "conversation" \in Databases /\ db \in [Databases -> Database] /\ db' \in [Databases -> Database]
      BY DEF FilesFine, FilesTypeOK, Databases
  <2> QED
      BY <2>1 DEF Drift, Database
<1>2. Len(history) \in Nat /\ Len(history') \in Nat /\ Len(history) <= Len(history') /\ Grows
    BY DEF Drift, Grows, FilesFine, FilesTypeOK
<1>3. /\ j \in Plan /\ j.since \in Nat /\ j.since <= Len(history)
      /\ j.pc \in {"alone", "open", "copy", "again", "inspect", "finally"} =>
            j.since >= 1 /\ j.stat \in BOOLEAN \X Nat /\ j.stat[2] <= d.stamp
      /\ j.pc \in {"open", "copy"} /\ d.stamp = j.stat[2] => Committed1(d.main, j.since)
      /\ j.pc \in {"again", "inspect", "finally"} => Committed1(j.copy, j.since)
      /\ j.pc # "ended" => j.decision = Absent
      /\ (j.pc = "decide" \/ j.decision # Absent) /\ j.entry.issue = "none" =>
            j.since >= 1 /\ Committed1(j.entry.source, j.since)
    BY DEF PlanInv, Plan
<1>4. \A pages : j.since >= 1 /\ Committed1(pages, j.since) => \E m \in Moments(j.since)' : m.conversation = pages
    BY <1>2, <1>3, CommittedStays
<1>5. j.since <= Len(history')
    BY <1>2, <1>3
<1>6. j.pc \in {"alone", "open", "copy", "again", "inspect", "finally"} =>
            j.stat[2] <= e.stamp /\ (e.stamp = j.stat[2] => d.stamp = j.stat[2])
  <2> SUFFICES ASSUME j.stat \in BOOLEAN \X Nat, j.stat[2] <= d.stamp
               PROVE  j.stat[2] <= e.stamp /\ (e.stamp = j.stat[2] => d.stamp = j.stat[2])
      BY <1>3
  <2>1. PICK k \in Nat : k = j.stat[2]
      OBVIOUS
  <2> HIDE DEF d, e
  <2> QED
      BY <1>1, <2>1
<1>7. j.pc \in {"open", "copy"} /\ e.stamp = j.stat[2] => \E m \in Moments(j.since)' : m.conversation = e.main
  <2> SUFFICES ASSUME j.pc \in {"open", "copy"}, e.stamp = j.stat[2] PROVE \E m \in Moments(j.since)' : m.conversation = e.main
      OBVIOUS
  <2>1. d.stamp = j.stat[2] /\ e.main = d.main /\ j.since >= 1
      BY <1>1, <1>3, <1>6
  <2>2. Committed1(d.main, j.since)
      BY <1>3, <2>1
  <2> QED
      BY <1>2, <1>3, <2>1, <2>2, CommittedStays
<1> QED
  <2>1. /\ j.pc \in {"again", "inspect", "finally"} => \E m \in Moments(j.since)' : m.conversation = j.copy
        /\ (j.pc = "decide" \/ j.decision # Absent) /\ j.entry.issue = "none" =>
              \E m \in Moments(j.since)' : m.conversation = j.entry.source
      BY <1>3, <1>4
  <2> QED
      BY <1>3, <1>5, <1>6, <1>7, <2>1 DEF PlanInv, Committed1

\* A step of a plan that keeps what is known of its record.
Continues(n) == \E k : Advance(n, k) /\ PlanInv(k)

LEMMA PlanMoves ==
    ASSUME FilesFine, UNCHANGED filesVars, PlansInv, NEW n \in Planners, Continues(n)
    PROVE  PlansInv'
<1>1. PICK k : Advance(n, k) /\ PlanInv(k)
    BY DEF Continues
<1>2. FilesFine' /\ Drift
    BY Still
<1>3. plan' = [plan EXCEPT ![n] = k] /\ plan = [i \in Planners |-> plan[i]] /\ \A i \in Planners : PlanInv(plan[i])
    BY <1>1 DEF Advance, PlansInv
<1>4. plan'[n] = k /\ (\A i \in Planners \ {n} : plan'[i] = plan[i]) /\ plan' = [i \in Planners |-> plan'[i]]
    BY <1>3
<1>5. ASSUME NEW i \in Planners PROVE PlanInv(plan[i])'
  <2>1. PICK x : x = IF i = n THEN k ELSE plan[i]
      OBVIOUS
  <2>2. PlanInv(x)'
      BY <1>1, <1>2, <1>3, <2>1, PlanStays
  <2>3. plan'[i] = x
      BY <1>4, <2>1
  <2> QED
      BY <2>2, <2>3
<1> QED
    BY <1>4, <1>5 DEF PlansInv

LEMMA FilesMovePlans ==
    ASSUME FilesFine, FilesFine', Drift, PlansInv, UNCHANGED inventoryVars
    PROVE  PlansInv'
<1>1. plan' = plan
    BY DEF inventoryVars
<1>2. ASSUME NEW i \in Planners PROVE PlanInv(plan[i])'
  <2>1. PICK x : x = plan[i]
      OBVIOUS
  <2>2. PlanInv(x)'
      BY <2>1, PlanStays DEF PlansInv
  <2>3. plan'[i] = x
      BY <1>1, <2>1
  <2> QED
      BY <2>2, <2>3
<1> QED
    BY <1>1, <1>2 DEF PlansInv

-----------------------------------------------------------------------------
(* The steps of a plan. *)

LEMMA ReadyType ==
    /\ Ready \in Plan /\ NoEntry \in Entry
    /\ Ready.pc = "begin" /\ Ready.since = 0 /\ Ready.stat = Absent /\ Ready.copy = NoLog /\ Ready.entry = NoEntry
    /\ Ready.decision = Absent /\ NoEntry.issue = "none"
<1>1. NoEntry \in Entry /\ NoEntry.issue = "none"
    BY DEF NoEntry, Entry, Unknown, Issues
<1>2. Ready \in Plan
    BY <1>1, NoLogType DEF Ready, Plan, PlanPCs
<1> QED
    BY <1>1, <1>2 DEF Ready

\* A round of the snapshot ends with what it found.
LEMMA InspectedFine ==
    ASSUME NEW n \in Planners, PlanInv(plan[n]), plan[n].pc # "ended", NEW entry \in Entry,
           entry.issue = "none" => plan[n].since >= 1 /\ Committed1(entry.source, plan[n].since),
           Inspected(n, entry)
    PROVE  Continues(n)
<1> DEFINE j == plan[n]
           again == [Ready EXCEPT !.since = j.since, !.round = 2, !.baseline = entry]
           decide == [Ready EXCEPT !.pc = "decide", !.since = j.since, !.round = 2, !.baseline = j.baseline, !.entry = entry]
<1>1. j \in Plan /\ j.since \in Nat /\ j.since <= Len(history) /\ j.baseline \in Entry /\ Ready \in Plan
      /\ "decide" \in PlanPCs /\ 2 \in {1, 2}
    BY ReadyType DEF PlanInv, Plan, PlanPCs
<1>2. again \in Plan
    BY <1>1, Zenon DEF Plan
<1>3. again.pc = "begin" /\ again.since = j.since /\ again.decision = Absent
    BY <1>1, ReadyType DEF Plan
<1>4. decide \in Plan
    BY <1>1, Zenon DEF Plan
<1>5. decide.pc = "decide" /\ decide.since = j.since /\ decide.decision = Absent /\ decide.entry = entry
    BY <1>1, ReadyType DEF Plan
<1>6. Advance(n, again) \/ Advance(n, decide)
    BY DEF Inspected
<1> HIDE DEF again, decide
<1>7. PlanInv(again)
    BY <1>1, <1>2, <1>3 DEF PlanInv
<1>8. PlanInv(decide)
    BY <1>1, <1>4, <1>5 DEF PlanInv
<1> QED
    BY <1>6, <1>7, <1>8 DEF Continues

LEMMA IssueFine ==
    ASSUME NEW n \in Planners, PlanInv(plan[n]), plan[n].pc # "ended", NEW issue \in Issues \ {"none"}, Issue(n, issue)
    PROVE  Continues(n)
<1> DEFINE j == plan[n]
           entry == [issue |-> issue,
                     stamp |-> IF j.stat = Absent THEN Unknown ELSE j.stat[2],
                     source |-> IF j.pc \in {"inspect", "finally"} THEN j.copy ELSE Absent]
<1>1. j.stat \in {Absent} \cup (BOOLEAN \X Nat) /\ j.copy \in Pieces
    BY DEF PlanInv, Plan
<1>2. entry.stamp \in Nat /\ entry.source \in Pieces \cup {Absent} /\ entry.issue = issue
    BY <1>1 DEF Unknown
<1>3. entry \in Entry
    BY <1>2 DEF Entry
<1>4. Inspected(n, entry)
    BY DEF Issue
<1> HIDE DEF entry
<1> QED
    BY <1>2, <1>3, <1>4, InspectedFine

\* A step within a round, which keeps what was seen first.
LEMMA Within ==
    ASSUME NEW n \in Planners, PlanInv(plan[n]), NEW pc \in {"alone", "open", "copy", "again", "inspect", "finally"},
           plan[n].pc \in {"alone", "open", "copy", "again", "inspect", "finally"},
           pc \in {"open", "copy"} =>
              (db["conversation"].stamp = plan[n].stat[2] => Committed1(db["conversation"].main, plan[n].since)),
           pc \in {"again", "inspect", "finally"} => Committed1(plan[n].copy, plan[n].since),
           Advance(n, [plan[n] EXCEPT !.pc = pc])
    PROVE  Continues(n)
<1> DEFINE j == plan[n]
           k == [j EXCEPT !.pc = pc]
<1>1. j \in Plan /\ pc \in PlanPCs
    BY DEF PlanInv, PlanPCs
<1>2. k \in Plan
    BY <1>1, Zenon DEF Plan
<1>3. k.pc = pc /\ k.since = j.since /\ k.stat = j.stat /\ k.copy = j.copy /\ k.decision = j.decision /\ k.entry = j.entry
    BY <1>1 DEF Plan
<1> HIDE DEF k
<1>4. PlanInv(k)
    BY <1>1, <1>2, <1>3 DEF PlanInv
<1> QED
    BY <1>4 DEF Continues, k

\* A database with nothing beside it is what was committed.
LEMMA AloneIs ==
    ASSUME NEW d \in Database, Alone(d)
    PROVE  Committed(d) = d.main
<1>1. d.main \in Whole /\ Frames(d) = NoLog
    BY DEF Alone, Frames, Database
<1>2. Overlay(d.main, NoLog) = d.main
    BY <1>1, NoLogType DEF Overlay, Whole
<1> QED
    BY <1>1, <1>2 DEF Committed, Alone

LEMMA ConversationIs ==
    ASSUME FilesFine
    PROVE  db["conversation"] \in Database /\ db["conversation"].stamp \in Nat /\ Len(history) \in Nat /\ Len(history) >= 1
<1>1. db["conversation"] \in Database /\ Len(history) \in Nat /\ history # <<>> /\ history \in Seq(Instant)
    BY DEF FilesFine, FilesTypeOK, FilesInv, Databases
<1>2. Len(history) >= 1
    BY <1>1
<1> QED
    BY <1>1, <1>2 DEF Database

LEMMA AloneWas ==
    ASSUME FilesFine, Alone(db["conversation"]), NEW since \in 1 .. Len(history)
    PROVE  Committed1(db["conversation"].main, since)
<1>1. Committed(db["conversation"]) = db["conversation"].main
    BY ConversationIs, AloneIs
<1> QED
    BY <1>1, PresentMoment, MomentParts DEF Committed1

LEMMA Look1Fine ==
    ASSUME FilesFine, NEW n \in Planners, PlanInv(plan[n]), Look1(n)
    PROVE  Continues(n)
<1> DEFINE j == plan[n]
           d == db["conversation"]
           since == IF j.since = 0 THEN Len(history) ELSE j.since
           k == [j EXCEPT !.pc = "alone", !.stat = Stat(d), !.since = since]
<1>1. j \in Plan /\ j.pc = "begin" /\ j.since \in Nat /\ j.since <= Len(history) /\ j.decision = Absent
    BY DEF Look1, PlanInv, Plan
<1>2. CASE Issue(n, "source_missing")
    BY <1>1, <1>2, IssueFine DEF Issues
<1>3. CASE Advance(n, k)
  <2>1. since \in Nat /\ since >= 1 /\ since <= Len(history)
      BY <1>1, ConversationIs
  <2>2. Stat(d) \in BOOLEAN \X Nat /\ Stat(d)[2] = d.stamp /\ "alone" \in PlanPCs /\ d.stamp \in Nat
      BY ConversationIs DEF Stat, Database, PlanPCs
  <2> HIDE DEF since
  <2>3. k \in Plan
      BY <1>1, <2>1, <2>2, Zenon DEF Plan
  <2>4. k.pc = "alone" /\ k.since = since /\ k.stat = Stat(d) /\ k.decision = j.decision
      BY <1>1 DEF Plan
  <2>5. Advance(n, k)
      BY <1>3
  <2> HIDE DEF k
  <2>6. k.stat[2] <= d.stamp
      BY <2>2, <2>4
  <2>7. PlanInv(k)
      BY <1>1, <2>1, <2>2, <2>3, <2>4, <2>6 DEF PlanInv
  <2> QED
      BY <2>5, <2>7 DEF Continues
<1> QED
    BY <1>2, <1>3 DEF Look1

LEMMA NothingBesideFine ==
    ASSUME FilesFine, NEW n \in Planners, PlanInv(plan[n]), NothingBeside(n)
    PROVE  Continues(n)
<1> DEFINE j == plan[n]
           d == db["conversation"]
           entry == [source |-> j.copy, stamp |-> j.stat[2], issue |-> "none"]
<1>1. /\ j \in Plan /\ j.pc \in {"alone", "again", "finally"} /\ j.since \in Nat /\ j.since >= 1
      /\ j.since \in 1 .. Len(history) /\ j.stat \in BOOLEAN \X Nat /\ j.copy \in Pieces
      /\ j.pc \in {"again", "finally"} => Committed1(j.copy, j.since)
  <2>1. j.pc \in {"alone", "again", "finally"}
      BY DEF NothingBeside
  <2>2. j \in Plan /\ j.since <= Len(history) /\ j.since >= 1 /\ j.stat \in BOOLEAN \X Nat
        /\ (j.pc \in {"again", "finally"} => Committed1(j.copy, j.since))
      BY <2>1 DEF PlanInv
  <2>3. j.since \in Nat /\ j.copy \in Pieces
      BY <2>2 DEF Plan
  <2> QED
      BY <2>1, <2>2, <2>3, ConversationIs
<1>2. CASE Issue(n, "sidecar_present")
    BY <1>1, <1>2, IssueFine DEF Issues
<1>3. CASE j.pc = "finally" /\ Inspected(n, entry)
  <2>1. entry \in Entry /\ entry.source = j.copy
      BY <1>1 DEF Entry, Issues
  <2> HIDE DEF entry
  <2> QED
      BY <1>1, <1>3, <2>1, InspectedFine
<1>4. CASE j.pc = "alone" /\ Alone(d) /\ Advance(n, [j EXCEPT !.pc = "open"])
  <2>1. Committed1(d.main, j.since)
      BY <1>1, <1>4, AloneWas
  <2> QED
      BY <1>1, <1>4, <2>1, Within
<1>5. CASE j.pc = "again" /\ Advance(n, [j EXCEPT !.pc = "inspect"])
    BY <1>1, <1>5, Within
<1> QED
    BY <1>1, <1>2, <1>3, <1>4, <1>5 DEF NothingBeside

LEMMA SameFine ==
    ASSUME FilesFine, NEW n \in Planners, PlanInv(plan[n]), NEW pc \in {"copy", "again", "finally"},
           plan[n].pc \in {"open", "copy", "inspect"},
           pc = "copy" => plan[n].pc = "open",
           pc \in {"again", "finally"} /\ Stat(db["conversation"]) = plan[n].stat => Committed1(plan[n].copy, plan[n].since),
           Same(n, pc)
    PROVE  Continues(n)
<1>1. CASE Issue(n, "source_changed")
    BY <1>1, IssueFine DEF Issues
<1>2. CASE Stat(db["conversation"]) = plan[n].stat /\ Advance(n, [plan[n] EXCEPT !.pc = pc])
  <2>1. pc = "copy" => (db["conversation"].stamp = plan[n].stat[2] => Committed1(db["conversation"].main, plan[n].since))
      BY DEF PlanInv
  <2> QED
      BY <1>2, <2>1, Within
<1> QED
    BY <1>1, <1>2 DEF Same

LEMMA HashSourceFine ==
    ASSUME FilesFine, NEW n \in Planners, PlanInv(plan[n]), HashSource(n)
    PROVE  Continues(n)
<1>1. plan[n].pc = "copy"
    BY DEF HashSource
<1>2. CASE Issue(n, "source_changed")
    BY <1>1, <1>2, IssueFine DEF Issues
<1>3. CASE db["conversation"].main = plan[n].copy /\ Same(n, "again")
  <2>1. Stat(db["conversation"]) = plan[n].stat => Committed1(plan[n].copy, plan[n].since)
    <3>1. Stat(db["conversation"])[2] = db["conversation"].stamp
        BY DEF Stat
    <3> QED
        BY <1>1, <1>3, <3>1 DEF PlanInv
  <2> QED
      BY <1>1, <1>3, <2>1, SameFine
<1> QED
    BY <1>2, <1>3 DEF HashSource

LEMMA CopySourceFine ==
    ASSUME FilesFine, NEW n \in Planners, NEW p \in Pages, PlanInv(plan[n]), CopySource(n, p)
    PROVE  Continues(n)
<1> DEFINE j == plan[n]
           d == db["conversation"]
           copy == [q \in DOMAIN j.copy \cup {p} |-> IF q = p THEN d.main[p] ELSE j.copy[q]]
           k == [j EXCEPT !.copy = copy]
<1>1. j \in Plan /\ j.pc = "copy" /\ j.copy \in Pieces
    BY DEF CopySource, PlanInv, Plan
<1>2. d.main[p] \in Nat
    BY ConversationIs DEF Database, Whole
<1>3. copy \in Pieces
    BY <1>1, <1>2, PiecesGrow
<1>4. Advance(n, k)
    BY DEF CopySource
<1> HIDE DEF copy
<1>5. k \in Plan
    BY <1>1, <1>3, Zenon DEF Plan
<1>6. k.pc = "copy" /\ k.since = j.since /\ k.stat = j.stat /\ k.decision = j.decision /\ k.entry = j.entry
    BY <1>1 DEF Plan
<1> HIDE DEF k
<1>7. PlanInv(k)
    BY <1>1, <1>5, <1>6 DEF PlanInv
<1> QED
    BY <1>4, <1>7 DEF Continues

\* A decision names blockers of the list, whatever it is given.
LEMMA EvaluateType == ASSUME NEW in PROVE Evaluate(in) \in Decisions
<1>1. SourceBlockers(in) \subseteq Blockers
    BY DEF SourceBlockers, Blockers
<1>2. ActivityBlockers(in) \subseteq Blockers
    BY DEF ActivityBlockers, Blockers
<1>3. LedgerBlockers(in) \subseteq Blockers
    BY DEF LedgerBlockers, Blockers
<1>4. RetentionBlockers(in) \subseteq Blockers
    BY DEF RetentionBlockers, Blockers
<1>5. (IF Valid(in.now) THEN {} ELSE {"evaluation_time_invalid"}) \subseteq Blockers
    BY DEF Blockers
<1> QED
    BY <1>1, <1>2, <1>3, <1>4, <1>5 DEF Evaluate, Decisions

LEMMA DecideFine ==
    ASSUME NEW n \in Planners, PlanInv(plan[n]), Decide(n)
    PROVE  Continues(n)
<1> DEFINE j == plan[n]
           given == inputs[n]
           in == [source |-> j.entry.source, verification |-> State(n),
                  activity |-> ResolveActivity({}, FALSE),
                  ingest |-> Assess(given.row, j.entry, given.now),
                  retention |-> given.retention, now |-> given.now]
           k == [j EXCEPT !.pc = "ended", !.decision = Evaluate(in)]
<1>1. j \in Plan /\ j.pc = "decide"
    BY DEF Decide, PlanInv
<1>2. Advance(n, k)
    BY DEF Decide
<1> HIDE DEF in
<1>3. Evaluate(in) \in {Absent} \cup Decisions /\ "ended" \in PlanPCs
    BY EvaluateType DEF PlanPCs
<1>4. k \in Plan
    BY <1>1, <1>3, Zenon DEF Plan
<1>5. k.pc = "ended" /\ k.since = j.since /\ k.entry = j.entry
    BY <1>1 DEF Plan
<1> HIDE DEF k
<1>6. PlanInv(k)
    BY <1>1, <1>4, <1>5 DEF PlanInv
<1> QED
    BY <1>2, <1>6 DEF Continues

LEMMA InventorySteps ==
    ASSUME FilesFine, PlansInv, InventoryStep, UNCHANGED filesVars
    PROVE  PlansInv'
<1>1. PICK n \in Planners : \/ Look1(n) \/ NothingBeside(n) \/ OpenSource(n) \/ HashSource(n) \/ InspectCopy(n)
                            \/ InspectFails(n) \/ Decide(n)
                            \/ \E p \in Pages : CopySource(n, p)
    BY DEF InventoryStep
<1>2. PlanInv(plan[n])
    BY DEF PlansInv
<1>3. CASE Look1(n) \/ NothingBeside(n) \/ HashSource(n) \/ Decide(n)
    BY <1>2, <1>3, Look1Fine, NothingBesideFine, HashSourceFine, DecideFine, PlanMoves
<1>4. CASE \E p \in Pages : CopySource(n, p)
    BY <1>2, <1>4, CopySourceFine, PlanMoves
<1>5. CASE OpenSource(n)
  <2>1. plan[n].pc = "open" /\ Same(n, "copy")
      BY <1>5 DEF OpenSource
  <2>2. Continues(n)
      BY <1>2, <2>1, SameFine
  <2> QED
      BY <2>2, PlanMoves
<1>6. CASE InspectCopy(n)
  <2>1. plan[n].pc = "inspect" /\ Same(n, "finally")
      BY <1>6 DEF InspectCopy
  <2>2. Committed1(plan[n].copy, plan[n].since)
      BY <1>2, <2>1 DEF PlanInv
  <2>3. Continues(n)
      BY <1>2, <2>1, <2>2, SameFine
  <2> QED
      BY <2>3, PlanMoves
<1>7. CASE InspectFails(n)
  <2>1. plan[n].pc # "ended" /\ \E issue \in Issues \ {"none"} : Issue(n, issue)
      BY <1>7 DEF InspectFails, Issues
  <2>2. Continues(n)
      BY <1>2, <2>1, IssueFine
  <2> QED
      BY <2>2, PlanMoves
<1> QED
    BY <1>1, <1>3, <1>4, <1>5, <1>6, <1>7

LEMMA VerifiedHolds == ASSUME PlansInv PROVE VerifiedIsCommitted
<1> SUFFICES ASSUME NEW n \in Planners, plan[n].pc = "ended", plan[n].decision # Absent, State(n) = "verified_snapshot"
             PROVE  \E m \in Moments(plan[n].since) : plan[n].entry.source = m.conversation
    BY DEF VerifiedIsCommitted
<1>1. plan[n].entry.issue = "none"
    BY DEF State
<1> QED
    BY <1>1 DEF PlansInv, PlanInv, Committed1

LEMMA ArchivedHolds == ASSUME CaptureInv PROVE ArchivedIsMoment
<1> SUFFICES ASSUME NEW a \in Archivers, NEW p \in Paths, archives[p] # Absent, archives[p].id = a
             PROVE  Coherent(archives[p].parts, Moments(job[a].since))
    BY DEF ArchivedIsMoment
<1> QED
    BY DEF CaptureInv, ArchiveInv

-----------------------------------------------------------------------------
(* Restores: what a client may rely on, whatever the others do.            *)

\* A step that touches nothing of this client.
Spares(c) ==
    /\ \A r \in Roots : c \in {conv[r].file.by, conv'[r].file.by} => conv'[r].file = conv[r].file
    /\ \A r \in Roots : c \in {brains[r].by, brains'[r].by} => brains'[r] = brains[r]
    /\ \A e : e.by = c => (e \in registry'.events <=> e \in registry.events)

LEMMA ClientStays ==
    ASSUME FilesFine, FilesFine', Grows, NEW c, NEW k, ClientInv(c, k), Spares(c)
    PROVE  ClientInv(c, k)'
<1>1. k \in Client /\ k.roots.conv \in Roots /\ k.roots.brain \in Roots
    BY DEF ClientInv, ProgressInv, Client
<1>2. EventOf(c, k).by = c
    BY DEF EventOf
<1>3. ProgressInv(c, k)'
    BY <1>2 DEF ClientInv, ProgressInv, Spares
<1>4. BundleInv(c, k)'
  <2>1. ASSUME k.valid PROVE Coherent(k.verified.parts, Moments(1)')
    <3>1. Coherent(k.verified.parts, Moments(1))
        BY <2>1 DEF ClientInv, BundleInv
    <3>2. 1 \in Nat /\ 1 >= 1
        OBVIOUS
    <3> QED
        BY <3>1, <3>2, CoherentStays
  <2> QED
      BY <2>1 DEF ClientInv, BundleInv
<1>5. PlacedInv(c, k)'
  <2>1. /\ \A r \in Roots : conv'[r].file.by = c => "db" \in k.published
        /\ \A r \in Roots : brains'[r].by = c => "brain" \in k.published /\ r = k.roots.brain
      BY DEF ClientInv, PlacedInv, Spares
  <2>2. "db" \in k.published => conv'[k.roots.conv].file = [by |-> c, is |-> k.verified.parts.db]
      BY <1>1 DEF ClientInv, PlacedInv, Spares
  <2>3. "brain" \in k.published => /\ "db" \in k.published
                                   /\ brains'[k.roots.brain] = [by |-> c, is |-> k.verified.parts.brain]
      BY <1>1 DEF ClientInv, PlacedInv, Spares
  <2>4. \A e \in registry'.events : e.by = c => k.pc = "ended" /\ e = EventOf(c, k)
      BY DEF ClientInv, PlacedInv, Spares
  <2> QED
      BY <2>1, <2>2, <2>3, <2>4 DEF PlacedInv
<1> QED
    BY <1>3, <1>4, <1>5 DEF ClientInv

LEMMA ClientsStay ==
    ASSUME FilesFine, FilesFine', Grows, RestoreInv, RestoreTypeOK', client' = client, \A c \in Clients : Spares(c)
    PROVE  RestoreInv'
<1>1. ASSUME NEW c \in Clients PROVE ClientInv(c, client[c])'
  <2>1. PICK k : k = client[c]
      OBVIOUS
  <2>2. ClientInv(c, k)'
      BY <2>1, ClientStays DEF RestoreInv
  <2>3. client'[c] = k
      BY <2>1
  <2> QED
      BY <2>2, <2>3
<1> QED
    BY <1>1 DEF RestoreInv

LEMMA FilesMoveRestores ==
    ASSUME FilesFine, FilesFine', Drift, RestoreInv, UNCHANGED restoreVars
    PROVE  RestoreInv'
<1>1. registry' = registry /\ conv' = conv /\ brains' = brains /\ at' = at /\ client' = client
    BY DEF restoreVars
<1>2. \A c : Spares(c)
    BY <1>1 DEF Spares
<1>3. RestoreTypeOK'
    BY <1>1 DEF RestoreInv, RestoreTypeOK
<1> QED
    BY <1>1, <1>2, <1>3, ClientsStay DEF Drift

\* A client's step: its record is fine in what it leaves, and the others' are spared.
LEMMA ClientMoves ==
    ASSUME FilesFine, UNCHANGED filesVars, RestoreInv, RestoreTypeOK', NEW c \in Clients, NEW k, Step(c, k),
           ClientInv(c, k)', \A d \in Clients \ {c} : Spares(d)
    PROVE  RestoreInv'
<1>1. FilesFine' /\ Grows
    BY Still DEF Drift
<1>2. client'[c] = k /\ \A d \in Clients \ {c} : client'[d] = client[d]
    BY DEF Step, RestoreInv, RestoreTypeOK
<1>3. ASSUME NEW d \in Clients PROVE ClientInv(d, client[d])'
  <2>1. CASE d = c
      BY <1>2, <2>1
  <2>2. CASE d # c
    <3>1. PICK x : x = client[d]
        OBVIOUS
    <3>2. ClientInv(d, x)'
        BY <1>1, <2>2, <3>1, ClientStays DEF RestoreInv
    <3>3. client'[d] = x
        BY <1>2, <2>2, <3>1
    <3> QED
        BY <3>2, <3>3
  <2> QED
      BY <2>1, <2>2
<1> QED
    BY <1>3 DEF RestoreInv

\* A step that changes nothing but the client's own record.
LEMMA QuietStep ==
    ASSUME FilesFine, UNCHANGED filesVars, RestoreInv, NEW c \in Clients, NEW k, Step(c, k), ClientInv(c, k),
           registry' = [version |-> registry'.version, rows |-> registry'.rows, events |-> registry'.events],
           registry'.events = registry.events, conv' = conv, brains' = brains, at' = at
    PROVE  RestoreInv'
<1>1. \A d : Spares(d)
    BY DEF Spares
<1>2. ClientInv(c, k)'
    BY <1>1, Still, ClientStays DEF Drift
<1>3. RestoreTypeOK'
  <2>1. client' = [d \in Clients |-> client'[d]]
      BY DEF Step, RestoreInv, RestoreTypeOK
  <2> QED
      BY <2>1 DEF RestoreInv, RestoreTypeOK
<1> QED
    BY <1>1, <1>2, <1>3, ClientMoves

-----------------------------------------------------------------------------
(* The steps of a restore or verification, on the record of the client.    *)

\* What a client may come to when its record is otherwise as it is.
PcInv(c, q, j) ==
    /\ q \in NothingPlaced => j.published = {}
    /\ q \in {"verify db", "publish brain", "rename brain"} => j.published = {"db"}
    /\ q \in {"publish brain", "rename brain", "verify brain"} => HasBrain(j.verified)
    /\ q = "verify brain" => j.published = {"db", "brain"}
    /\ q \in {"last check", "restored"} => Full(j)
    /\ q \in {"register", "mark"} /\ c \in Restorers => j.valid
    /\ q \in {"roots", "absent", "reverify", "stage db", "stage brain"} \cup Staged => j.valid
    /\ q \in {"stage brain"} \cup Staged => j.stage.db = j.verified.parts.db
    /\ q \in Staged /\ HasBrain(j.verified) => j.stage.brain = j.verified.parts.brain

LEMMA PcFine ==
    ASSUME NEW c, NEW j, ClientInv(c, j), j.pc \notin Stopped, j.path \in Paths,
           NEW q \in ClientPCs \ (Stopped \cup {"idle"}), PcInv(c, q, j)
    PROVE  ClientInv(c, [j EXCEPT !.pc = q])
<1> DEFINE k == [j EXCEPT !.pc = q]
<1>1. j \in Client /\ j.status = "none" /\ j.files = "none"
    BY DEF ClientInv, ProgressInv
<1>2. k \in Client
    BY <1>1, Zenon DEF Client
<1>3. k.pc = q /\ k.path = j.path /\ k.valid = j.valid /\ k.verified = j.verified /\ k.stage = j.stage
      /\ k.roots = j.roots /\ k.published = j.published /\ k.status = "none" /\ k.files = "none"
    BY <1>1 DEF Client
<1> HIDE DEF k
<1>4. ProgressInv(c, k)
  <2>1. q \notin {"event", "ended", "killed"}
      BY DEF Stopped
  <2> QED
      BY <1>2, <1>3, <2>1 DEF ProgressInv, PcInv, Full
<1>5. BundleInv(c, k)
    BY <1>3 DEF ClientInv, BundleInv, PcInv
<1>6. PlacedInv(c, k)
  <2>1. \A e \in registry.events : e.by # c
      BY DEF ClientInv, PlacedInv, Stopped
  <2> QED
      BY <1>3, <2>1 DEF ClientInv, PlacedInv
<1> QED
    BY <1>4, <1>5, <1>6 DEF ClientInv, k

\* A client that stops before its record is written tells what it has placed.
LEMMA StatusFine ==
    ASSUME NEW c, NEW j, ClientInv(c, j), j.pc \notin Stopped, j.path \in Paths,
           NEW status \in Statuses \ {"none"},
           j.published # {} => status \in {"restored", "partial_publish"},
           status = "restored" => Full(j) /\ j.valid
    PROVE  /\ ClientInv(c, [j EXCEPT !.pc = "event", !.status = status])
           /\ j.published = {} => ClientInv(c, [j EXCEPT !.pc = "ended", !.status = status])
<1>1. j \in Client /\ j.status = "none" /\ j.files = "none"
    BY DEF ClientInv, ProgressInv
<1>2. \A e \in registry.events : e.by # c
    BY DEF ClientInv, PlacedInv, Stopped
<1>3. ASSUME NEW q \in {"event", "ended"}, q = "ended" => j.published = {}
      PROVE  ClientInv(c, [j EXCEPT !.pc = q, !.status = status])
  <2> DEFINE k == [j EXCEPT !.pc = q, !.status = status]
  <2>1. q \in ClientPCs /\ status \in Statuses
      BY DEF ClientPCs
  <2>2. k \in Client
      BY <1>1, <2>1, Zenon DEF Client
  <2>3. k.pc = q /\ k.path = j.path /\ k.valid = j.valid /\ k.verified = j.verified /\ k.stage = j.stage
        /\ k.roots = j.roots /\ k.published = j.published /\ k.status = status /\ k.files = "none"
      BY <1>1 DEF Client
  <2> HIDE DEF k
  <2>4. ProgressInv(c, k)
      BY <1>3, <2>2, <2>3 DEF ProgressInv, Full, NothingPlaced, Stopped
  <2>5. BundleInv(c, k)
      BY <2>3 DEF ClientInv, BundleInv, Staged
  <2>6. PlacedInv(c, k)
      BY <1>2, <2>3 DEF ClientInv, PlacedInv
  <2> QED
      BY <2>4, <2>5, <2>6 DEF ClientInv, k
<1> QED
    BY <1>3

\* A step of a client that keeps what is known of its record.
Proceeds(c) == \E k : Step(c, k) /\ ClientInv(c, k)

LEMMA FinishFine ==
    ASSUME NEW c, ClientInv(c, client[c]), client[c].pc \notin Stopped \cup {"idle"}, NEW status \in Statuses \ {"none", "restored"},
           client[c].published # {} => status = "partial_publish", Finish(c, status)
    PROVE  Proceeds(c)
<1>1. client[c].path \in Paths
    BY DEF ClientInv, ProgressInv, Stopped
<1> QED
    BY <1>1, StatusFine DEF Finish, Proceeds

LEMMA EndFine ==
    ASSUME NEW c, ClientInv(c, client[c]), client[c].pc \in NothingPlaced \ {"idle"}, NEW status \in Statuses \ {"none", "restored"},
           End(c, status)
    PROVE  Proceeds(c)
<1>1. client[c].path \in Paths /\ client[c].published = {} /\ client[c].pc \notin Stopped
    BY DEF ClientInv, ProgressInv, Stopped, NothingPlaced
<1> QED
    BY <1>1, StatusFine DEF End, Proceeds

LEMMA GoesOn ==
    ASSUME NEW c, ClientInv(c, client[c]), client[c].pc \notin Stopped \cup {"idle"},
           NEW q \in ClientPCs \ (Stopped \cup {"idle"}), PcInv(c, q, client[c]), Step(c, [client[c] EXCEPT !.pc = q])
    PROVE  Proceeds(c)
<1>1. client[c].path \in Paths
    BY DEF ClientInv, ProgressInv, Stopped
<1> QED
    BY <1>1, PcFine DEF Proceeds

\* Then all is well, if nothing else changes than the rows of the registry.
LEMMA ProceedsFine ==
    ASSUME FilesFine, UNCHANGED filesVars, RestoreInv, NEW c \in Clients, Proceeds(c),
           registry' = [version |-> registry'.version, rows |-> registry'.rows, events |-> registry'.events],
           registry'.events = registry.events, conv' = conv, brains' = brains, at' = at
    PROVE  RestoreInv'
BY QuietStep DEF Proceeds

LEMMA QuietFine ==
    ASSUME FilesFine, UNCHANGED filesVars, RestoreInv, NEW c \in Clients, Proceeds(c), Quiet
    PROVE  RestoreInv'
<1>1. registry' = registry /\ conv' = conv /\ brains' = brains /\ at' = at
    BY DEF Quiet
<1>2. registry = [version |-> registry.version, rows |-> registry.rows, events |-> registry.events]
    BY DEF RestoreInv, RestoreTypeOK
<1>3. registry' = [version |-> registry'.version, rows |-> registry'.rows, events |-> registry'.events]
      /\ registry'.events = registry.events
    BY <1>1, <1>2
<1> QED
    BY <1>1, <1>3, ProceedsFine

LEMMA BeginFine ==
    ASSUME NEW c \in Clients, NEW path \in Paths, ClientInv(c, client[c]), Begin(c, path)
    PROVE  Proceeds(c)
<1> DEFINE j == client[c]
           half == [j EXCEPT !.path = path]
           q == IF c \in Restorers THEN "open" ELSE "verify"
           k == [j EXCEPT !.pc = q, !.path = path]
<1>1. j \in Client /\ j.pc = "idle" /\ j.published = {} /\ j.status = "none" /\ j.files = "none"
    BY DEF Begin, ClientInv, ProgressInv, NothingPlaced, Stopped
<1>2. half \in Client
    BY <1>1, Zenon DEF Client
<1>3. half.pc = j.pc /\ half.path = path /\ half.valid = j.valid /\ half.verified = j.verified /\ half.stage = j.stage
      /\ half.roots = j.roots /\ half.published = j.published /\ half.status = j.status /\ half.files = j.files
    BY <1>1 DEF Client
<1>4. k = [half EXCEPT !.pc = q]
    BY <1>1 DEF Client
<1> HIDE DEF half
<1>5. ClientInv(c, half)
  <2>1. ProgressInv(c, half)
      BY <1>1, <1>2, <1>3 DEF ProgressInv
  <2>2. BundleInv(c, half)
      BY <1>1, <1>3 DEF ClientInv, BundleInv, Staged
  <2>3. PlacedInv(c, half)
      BY <1>1, <1>3 DEF ClientInv, PlacedInv
  <2> QED
      BY <2>1, <2>2, <2>3 DEF ClientInv
<1>6. q \in ClientPCs \ (Stopped \cup {"idle"}) /\ PcInv(c, q, half)
    BY <1>1, <1>3 DEF ClientPCs, Stopped, PcInv, NothingPlaced, Staged
<1>7. ClientInv(c, k)
    BY <1>1, <1>3, <1>4, <1>5, <1>6, PcFine DEF Stopped
<1>8. Step(c, k)
    BY DEF Begin
<1> QED
    BY <1>7, <1>8 DEF Proceeds

LEMMA OpenRegistryFine ==
    ASSUME NEW c \in Clients, ClientInv(c, client[c]), OpenRegistry(c)
    PROVE  Proceeds(c)
<1> DEFINE j == client[c]
           half == [j EXCEPT !.version = registry.version]
           k == [j EXCEPT !.pc = "migrate", !.version = registry.version]
<1>1. j \in Client /\ j.pc = "open" /\ j.published = {} /\ j.status = "none" /\ j.files = "none" /\ j.path \in Paths
    BY DEF OpenRegistry, ClientInv, ProgressInv, NothingPlaced, Stopped
<1>2. CASE End(c, "registry_unavailable")
    BY <1>1, <1>2, EndFine DEF NothingPlaced, Statuses
<1>3. CASE registry.version \in 0 .. Version /\ Step(c, k)
  <2>1. registry.version \in Nat
      BY <1>3 DEF Version
  <2>2. half \in Client
      BY <1>1, <2>1, Zenon DEF Client
  <2>3. half.pc = j.pc /\ half.path = j.path /\ half.valid = j.valid /\ half.verified = j.verified /\ half.stage = j.stage
        /\ half.roots = j.roots /\ half.published = j.published /\ half.status = j.status /\ half.files = j.files
      BY <1>1 DEF Client
  <2>4. k = [half EXCEPT !.pc = "migrate"]
      BY <1>1 DEF Client
  <2> HIDE DEF half
  <2>5. ClientInv(c, half)
    <3>1. ProgressInv(c, half)
        BY <1>1, <2>2, <2>3 DEF ProgressInv
    <3>2. BundleInv(c, half)
        BY <1>1, <2>3 DEF ClientInv, BundleInv, Staged
    <3>3. PlacedInv(c, half)
        BY <1>1, <2>3 DEF ClientInv, PlacedInv
    <3> QED
        BY <3>1, <3>2, <3>3 DEF ClientInv
  <2>6. "migrate" \in ClientPCs \ (Stopped \cup {"idle"}) /\ PcInv(c, "migrate", half)
      BY <1>1, <2>3 DEF ClientPCs, Stopped, PcInv, NothingPlaced, Staged
  <2>7. ClientInv(c, k)
      BY <1>1, <2>3, <2>4, <2>5, <2>6, PcFine DEF Stopped
  <2> QED
      BY <1>3, <2>7 DEF Proceeds
<1> QED
    BY <1>2, <1>3 DEF OpenRegistry

LEMMA InitializeRegistryFine ==
    ASSUME NEW c \in Clients, ClientInv(c, client[c]), InitializeRegistry(c)
    PROVE  Proceeds(c)
<1>1. client[c].pc = "migrate" /\ client[c].published = {}
    BY DEF InitializeRegistry, ClientInv, ProgressInv, NothingPlaced
<1>2. CASE End(c, "registry_unavailable")
    BY <1>1, <1>2, EndFine DEF NothingPlaced, Statuses
<1>3. CASE Step(c, Opened(c))
  <2> DEFINE q == IF c \in Restorers THEN "verify" ELSE "register"
  <2>1. Step(c, [client[c] EXCEPT !.pc = q])
      BY <1>3 DEF Opened
  <2>2. q \in ClientPCs \ (Stopped \cup {"idle"}) /\ PcInv(c, q, client[c])
      BY <1>1 DEF ClientPCs, Stopped, PcInv, NothingPlaced, Staged
  <2> QED
      BY <1>1, <2>1, <2>2, GoesOn DEF Stopped
<1> QED
    BY <1>2, <1>3 DEF InitializeRegistry

LEMMA RegisterFine ==
    ASSUME NEW c \in Clients, ClientInv(c, client[c]), Register(c)
    PROVE  Proceeds(c)
<1>1. client[c].pc = "register" /\ client[c].published = {} /\ (c \in Restorers => client[c].valid)
    BY DEF Register, ClientInv, ProgressInv, BundleInv, NothingPlaced
<1>2. CASE End(c, "registry_failed")
    BY <1>1, <1>2, EndFine DEF NothingPlaced, Statuses
<1>3. CASE Step(c, [client[c] EXCEPT !.pc = "mark"])
  <2>1. "mark" \in ClientPCs \ (Stopped \cup {"idle"}) /\ PcInv(c, "mark", client[c])
      BY <1>1 DEF ClientPCs, Stopped, PcInv, NothingPlaced, Staged
  <2> QED
      BY <1>1, <1>3, <2>1, GoesOn DEF Stopped
<1> QED
    BY <1>2, <1>3 DEF Register

LEMMA MarkFine ==
    ASSUME NEW c \in Clients, ClientInv(c, client[c]), Mark(c)
    PROVE  Proceeds(c)
<1>1. client[c].pc = "mark" /\ client[c].published = {} /\ (c \in Restorers => client[c].valid)
    BY DEF Mark, ClientInv, ProgressInv, BundleInv, NothingPlaced
<1>2. CASE \E status \in {"valid", "invalid"} : End(c, status)
    BY <1>1, <1>2, EndFine DEF NothingPlaced, Statuses
<1>3. CASE c \in Restorers /\ Step(c, [client[c] EXCEPT !.pc = "roots"])
  <2>1. "roots" \in ClientPCs \ (Stopped \cup {"idle"}) /\ PcInv(c, "roots", client[c])
      BY <1>1, <1>3 DEF ClientPCs, Stopped, PcInv, NothingPlaced, Staged
  <2> QED
      BY <1>1, <1>3, <2>1, GoesOn DEF Stopped
<1> QED
    BY <1>2, <1>3 DEF Mark

LEMMA RegistryFailsFine ==
    ASSUME NEW c \in Clients, ClientInv(c, client[c]), RegistryFails(c)
    PROVE  Proceeds(c)
BY EndFine DEF RegistryFails, NothingPlaced, Statuses

\* What is verified, then or before, is one of the archives.
LEMMA VerifiedIs ==
    ASSUME CaptureInv, NEW path \in Paths, Intact(path)
    PROVE  archives[path] \in Bundles /\ Coherent(archives[path].parts, Moments(1))
BY DEF CaptureInv, ArchiveInv, Intact

LEMMA TakesBundle ==
    ASSUME NEW c, NEW j, ClientInv(c, j), j.pc \in {"verify", "reverify"}, NEW x \in Bundles, Coherent(x.parts, Moments(1))
    PROVE  ClientInv(c, [j EXCEPT !.valid = TRUE, !.verified = x])
<1> DEFINE k == [j EXCEPT !.valid = TRUE, !.verified = x]
<1>1. j \in Client /\ j.published = {} /\ j.status = "none" /\ j.files = "none" /\ j.path \in Paths
    BY DEF ClientInv, ProgressInv, NothingPlaced, Stopped
<1>2. x \in Bundles \cup {Nothing} /\ TRUE \in BOOLEAN
    OBVIOUS
<1>3. k \in Client
    BY <1>1, <1>2, Zenon DEF Client
<1>4. k.pc = j.pc /\ k.path = j.path /\ k.valid = TRUE /\ k.verified = x
      /\ k.published = j.published /\ k.status = j.status /\ k.files = j.files
    BY <1>1 DEF Client
<1> HIDE DEF k
<1>5. ProgressInv(c, k)
    BY <1>1, <1>3, <1>4 DEF ProgressInv
<1>6. BundleInv(c, k)
    BY <1>4 DEF BundleInv, Staged
<1>7. PlacedInv(c, k)
    BY <1>1, <1>4 DEF ClientInv, PlacedInv
<1> QED
    BY <1>5, <1>6, <1>7 DEF ClientInv, k

LEMMA VerifyArchiveFine ==
    ASSUME CaptureInv, NEW c \in Clients, ClientInv(c, client[c]), VerifyArchive(c)
    PROVE  Proceeds(c)
<1> DEFINE j == client[c]
           x == archives[j.path]
           half == [j EXCEPT !.valid = TRUE, !.verified = x]
           q == IF c \in Restorers THEN "register" ELSE "open"
           k == [j EXCEPT !.pc = q, !.valid = TRUE, !.verified = x]
<1>1. j \in Client /\ j.pc = "verify" /\ j.published = {} /\ j.path \in Paths
    BY DEF VerifyArchive, ClientInv, ProgressInv, NothingPlaced, Stopped
<1>2. CASE End(c, "invalid_archive")
    BY <1>1, <1>2, EndFine DEF NothingPlaced, Statuses
<1>3. CASE Step(c, [j EXCEPT !.pc = "open"])
  <2>1. "open" \in ClientPCs \ (Stopped \cup {"idle"}) /\ PcInv(c, "open", j)
      BY <1>1 DEF ClientPCs, Stopped, PcInv, NothingPlaced, Staged
  <2> QED
      BY <1>1, <1>3, <2>1, GoesOn DEF Stopped
<1>4. CASE Intact(j.path) /\ Step(c, k)
  <2>1. x \in Bundles /\ Coherent(x.parts, Moments(1))
      BY <1>1, <1>4, VerifiedIs
  <2>2. k = [half EXCEPT !.pc = q]
      BY <1>1 DEF Client
  <2>3. half.pc = j.pc /\ half.path = j.path /\ half.valid = TRUE /\ half.published = j.published
      BY <1>1 DEF Client
  <2> HIDE DEF x, half
  <2>4. ClientInv(c, half)
      BY <1>1, <2>1, TakesBundle DEF half
  <2>5. q \in ClientPCs \ (Stopped \cup {"idle"}) /\ PcInv(c, q, half)
      BY <1>1, <2>3 DEF ClientPCs, Stopped, PcInv, NothingPlaced, Staged
  <2>6. ClientInv(c, k)
      BY <1>1, <2>2, <2>3, <2>4, <2>5, PcFine DEF Stopped
  <2> QED
      BY <1>4, <2>6 DEF Proceeds
<1> QED
    BY <1>2, <1>3, <1>4 DEF VerifyArchive

LEMMA ReverifyFine ==
    ASSUME CaptureInv, NEW c \in Clients, ClientInv(c, client[c]), Reverify(c)
    PROVE  Proceeds(c)
<1> DEFINE j == client[c]
           x == archives[j.path]
           half == [j EXCEPT !.valid = TRUE, !.verified = x]
           k == [j EXCEPT !.pc = "stage db", !.verified = x]
<1>1. j \in Client /\ j.pc = "reverify" /\ j.published = {} /\ j.path \in Paths /\ j.valid = TRUE
    BY DEF Reverify, ClientInv, ProgressInv, BundleInv, NothingPlaced, Stopped, Client
<1>2. CASE Finish(c, "invalid_archive")
    BY <1>1, <1>2, FinishFine DEF Stopped, Statuses
<1>3. CASE Intact(j.path) /\ Step(c, k)
  <2>1. x \in Bundles /\ Coherent(x.parts, Moments(1))
      BY <1>1, <1>3, VerifiedIs
  <2>2. k = [half EXCEPT !.pc = "stage db"]
      BY <1>1 DEF Client
  <2>3. half.pc = j.pc /\ half.path = j.path /\ half.valid = TRUE /\ half.published = j.published
      BY <1>1 DEF Client
  <2> HIDE DEF x, half
  <2>4. ClientInv(c, half)
      BY <1>1, <2>1, TakesBundle DEF half
  <2>5. "stage db" \in ClientPCs \ (Stopped \cup {"idle"}) /\ PcInv(c, "stage db", half)
      BY <1>1, <2>3 DEF ClientPCs, Stopped, PcInv, NothingPlaced, Staged
  <2>6. ClientInv(c, k)
    <3>1. half.pc \notin Stopped /\ half.path \in Paths
        BY <1>1, <2>3 DEF Stopped
    <3>2. ClientInv(c, [half EXCEPT !.pc = "stage db"])
        BY <2>4, <2>5, <3>1, PcFine
    <3> QED
        BY <2>2, <3>2
  <2> QED
      BY <1>3, <2>6 DEF Proceeds
<1> QED
    BY <1>2, <1>3 DEF Reverify

LEMMA OpenRootsFine ==
    ASSUME at \in [conv : Roots, brain : Roots], NEW c \in Clients, ClientInv(c, client[c]), OpenRoots(c)
    PROVE  Proceeds(c)
<1> DEFINE j == client[c]
           half == [j EXCEPT !.roots = at]
           k == [j EXCEPT !.pc = "absent", !.roots = at]
<1>1. j \in Client /\ j.pc = "roots" /\ j.published = {} /\ j.status = "none" /\ j.files = "none" /\ j.path \in Paths /\ j.valid
    BY DEF OpenRoots, ClientInv, ProgressInv, BundleInv, NothingPlaced, Stopped
<1>2. CASE Finish(c, "unsafe_destination")
    BY <1>1, <1>2, FinishFine DEF Stopped, Statuses
<1>3. CASE Step(c, k)
  <2>1. half \in Client
      BY <1>1, Zenon DEF Client
  <2>2. half.pc = j.pc /\ half.path = j.path /\ half.valid = j.valid /\ half.verified = j.verified /\ half.stage = j.stage
        /\ half.published = j.published /\ half.status = j.status /\ half.files = j.files
      BY <1>1 DEF Client
  <2>3. k = [half EXCEPT !.pc = "absent"]
      BY <1>1 DEF Client
  <2> HIDE DEF half
  <2>4. ClientInv(c, half)
    <3>1. ProgressInv(c, half)
        BY <1>1, <2>1, <2>2 DEF ProgressInv
    <3>2. BundleInv(c, half)
        BY <1>1, <2>2 DEF ClientInv, BundleInv, Staged
    <3>3. PlacedInv(c, half)
        BY <1>1, <2>2 DEF ClientInv, PlacedInv
    <3> QED
        BY <3>1, <3>2, <3>3 DEF ClientInv
  <2>5. "absent" \in ClientPCs \ (Stopped \cup {"idle"}) /\ PcInv(c, "absent", half)
      BY <1>1, <2>2 DEF ClientPCs, Stopped, PcInv, NothingPlaced, Staged
  <2>6. half.pc \notin Stopped /\ half.path \in Paths
      BY <1>1, <2>2 DEF Stopped
  <2>7. ClientInv(c, k)
      BY <2>3, <2>4, <2>5, <2>6, PcFine
  <2> QED
      BY <1>3, <2>7 DEF Proceeds
<1> QED
    BY <1>2, <1>3 DEF OpenRoots

LEMMA CheckTargetsFine ==
    ASSUME NEW c \in Clients, ClientInv(c, client[c]), CheckTargets(c)
    PROVE  Proceeds(c)
<1>1. client[c].pc = "absent" /\ client[c].published = {} /\ client[c].valid
    BY DEF CheckTargets, ClientInv, ProgressInv, BundleInv, NothingPlaced
<1>2. CASE Finish(c, "conflict")
    BY <1>1, <1>2, FinishFine DEF Stopped, Statuses
<1>3. CASE Step(c, [client[c] EXCEPT !.pc = "reverify"])
  <2>1. "reverify" \in ClientPCs \ (Stopped \cup {"idle"}) /\ PcInv(c, "reverify", client[c])
      BY <1>1 DEF ClientPCs, Stopped, PcInv, NothingPlaced, Staged
  <2> QED
      BY <1>1, <1>3, <2>1, GoesOn DEF Stopped
<1> QED
    BY <1>2, <1>3 DEF CheckTargets

\* A part of the verified bundle is staged.
LEMMA Stages ==
    ASSUME NEW c, NEW j, ClientInv(c, j), j.pc \in {"stage db", "stage brain"}, NEW stage \in Parts,
           j.pc = "stage brain" => stage.db = j.verified.parts.db
    PROVE  ClientInv(c, [j EXCEPT !.stage = stage])
<1> DEFINE k == [j EXCEPT !.stage = stage]
<1>1. j \in Client /\ j.published = {} /\ j.status = "none" /\ j.files = "none" /\ j.path \in Paths
    BY DEF ClientInv, ProgressInv, NothingPlaced, Stopped
<1>2. k \in Client
    BY <1>1, Zenon DEF Client
<1>3. k.pc = j.pc /\ k.path = j.path /\ k.valid = j.valid /\ k.verified = j.verified /\ k.stage = stage
      /\ k.roots = j.roots /\ k.published = j.published /\ k.status = j.status /\ k.files = j.files
    BY <1>1 DEF Client
<1> HIDE DEF k
<1>4. ProgressInv(c, k)
    BY <1>1, <1>2, <1>3 DEF ProgressInv
<1>5. BundleInv(c, k)
    BY <1>3 DEF ClientInv, BundleInv, Staged
<1>6. PlacedInv(c, k)
    BY <1>1, <1>3 DEF ClientInv, PlacedInv
<1> QED
    BY <1>4, <1>5, <1>6 DEF ClientInv, k

LEMMA StageDbFine ==
    ASSUME NEW c \in Clients, ClientInv(c, client[c]), StageDb(c)
    PROVE  Proceeds(c)
<1> DEFINE j == client[c]
           stage == [j.stage EXCEPT !.db = j.verified.parts.db]
           half == [j EXCEPT !.stage = stage]
           q == IF HasBrain(j.verified) THEN "stage brain" ELSE "publish db"
           k == [j EXCEPT !.pc = q, !.stage.db = j.verified.parts.db]
<1>1. j \in Client /\ j.pc = "stage db" /\ j.published = {} /\ j.path \in Paths /\ j.valid /\ j.verified \in Bundles
      /\ j.stage \in Parts
    BY DEF StageDb, ClientInv, ProgressInv, BundleInv, NothingPlaced, Client
<1>2. CASE Finish(c, "staging_failed")
    BY <1>1, <1>2, FinishFine DEF Stopped, Statuses
<1>3. CASE Step(c, k)
  <2>1. stage \in Parts /\ stage.db = j.verified.parts.db
      BY <1>1 DEF Parts, Bundles
  <2>2. k = [half EXCEPT !.pc = q]
      BY <1>1 DEF Client
  <2>3. half.pc = j.pc /\ half.path = j.path /\ half.valid = j.valid /\ half.verified = j.verified /\ half.stage = stage
        /\ half.published = j.published
      BY <1>1 DEF Client
  <2> HIDE DEF stage, half
  <2>4. ClientInv(c, half)
      BY <1>1, <2>1, Stages DEF half
  <2>5. q \in ClientPCs \ (Stopped \cup {"idle"})
      BY DEF ClientPCs, Stopped
  <2>6. PcInv(c, q, half)
      BY <1>1, <2>1, <2>3 DEF PcInv, NothingPlaced, Staged
  <2>7. half.pc \notin Stopped /\ half.path \in Paths
      BY <1>1, <2>3 DEF Stopped
  <2> HIDE DEF q
  <2>8. ClientInv(c, k)
      BY <2>2, <2>4, <2>5, <2>6, <2>7, PcFine
  <2> QED
      BY <1>3, <2>8 DEF Proceeds
<1> QED
    BY <1>2, <1>3 DEF StageDb, Stageable

LEMMA StageBrainFine ==
    ASSUME NEW c \in Clients, ClientInv(c, client[c]), StageBrain(c)
    PROVE  Proceeds(c)
<1> DEFINE j == client[c]
           stage == [j.stage EXCEPT !.brain = j.verified.parts.brain]
           half == [j EXCEPT !.stage = stage]
           k == [j EXCEPT !.pc = "publish db", !.stage.brain = j.verified.parts.brain]
<1>1. j \in Client /\ j.pc = "stage brain" /\ j.published = {} /\ j.path \in Paths /\ j.valid /\ j.verified \in Bundles
      /\ j.stage \in Parts /\ j.stage.db = j.verified.parts.db
    BY DEF StageBrain, ClientInv, ProgressInv, BundleInv, NothingPlaced, Client
<1>2. CASE Finish(c, "staging_failed")
    BY <1>1, <1>2, FinishFine DEF Stopped, Statuses
<1>3. CASE Step(c, k)
  <2>1. stage \in Parts /\ stage.db = j.verified.parts.db /\ stage.brain = j.verified.parts.brain
      BY <1>1 DEF Parts, Bundles
  <2>2. k = [half EXCEPT !.pc = "publish db"]
      BY <1>1 DEF Client
  <2>3. half.pc = j.pc /\ half.path = j.path /\ half.valid = j.valid /\ half.verified = j.verified /\ half.stage = stage
        /\ half.published = j.published
      BY <1>1 DEF Client
  <2> HIDE DEF stage, half
  <2>4. ClientInv(c, half)
      BY <1>1, <2>1, Stages DEF half
  <2>5. "publish db" \in ClientPCs \ (Stopped \cup {"idle"})
      BY DEF ClientPCs, Stopped
  <2>6. PcInv(c, "publish db", half)
      BY <1>1, <2>1, <2>3 DEF PcInv, NothingPlaced, Staged
  <2>7. half.pc \notin Stopped /\ half.path \in Paths
      BY <1>1, <2>3 DEF Stopped
  <2>8. ClientInv(c, k)
      BY <2>2, <2>4, <2>5, <2>6, <2>7, PcFine
  <2> QED
      BY <1>3, <2>8 DEF Proceeds
<1> QED
    BY <1>2, <1>3 DEF StageBrain, Stageable

LEMMA StageFailsFine ==
    ASSUME NEW c \in Clients, ClientInv(c, client[c]), StageFails(c)
    PROVE  Proceeds(c)
<1>1. client[c].pc \in {"stage db", "stage brain", "publish db"} /\ client[c].published = {}
    BY DEF StageFails, ClientInv, ProgressInv, NothingPlaced
<1>2. PICK status \in {"staging_failed", "verification_failed"} : Finish(c, status)
    BY DEF StageFails
<1> QED
    BY <1>1, <1>2, FinishFine DEF Stopped, Statuses

\* What is known of a client between two checks of the root directories.
LEMMA StagedIs ==
    ASSUME NEW c, NEW j, ClientInv(c, j), j.pc \in Staged
    PROVE  /\ j.valid /\ j.stage.db = j.verified.parts.db /\ (HasBrain(j.verified) => j.stage.brain = j.verified.parts.brain)
           /\ j \in Client /\ j.path \in Paths /\ j.status = "none" /\ j.files = "none"
<1>1. j.pc \notin {"idle", "ended", "killed"} /\ j.pc \notin Stopped
    BY DEF Staged, Stopped
<1> QED
    BY <1>1 DEF ClientInv, ProgressInv, BundleInv

LEMMA CheckRootsFine ==
    ASSUME NEW c \in Clients, ClientInv(c, client[c]), CheckRootsBefore(c) \/ CheckRootsBetween(c) \/ CheckRootsAfter(c)
    PROVE  Proceeds(c)
<1> DEFINE j == client[c]
<1>1. CASE CheckRootsBefore(c)
  <2>1. j.pc = "publish db" /\ j.published = {} /\ j.pc \in Staged
      BY <1>1 DEF CheckRootsBefore, CheckRoots, ClientInv, ProgressInv, NothingPlaced, Staged
  <2>2. "rename db" \in ClientPCs \ (Stopped \cup {"idle"}) /\ PcInv(c, "rename db", j)
      BY <2>1, StagedIs DEF ClientPCs, Stopped, PcInv
  <2>3. Step(c, [j EXCEPT !.pc = "rename db"]) \/ Finish(c, "unsafe_destination")
      BY <1>1 DEF CheckRootsBefore, CheckRoots
  <2> QED
      BY <2>1, <2>2, <2>3, GoesOn, FinishFine DEF Stopped, Statuses
<1>2. CASE CheckRootsBetween(c)
  <2>1. j.pc = "publish brain" /\ j.published = {"db"} /\ HasBrain(j.verified) /\ j.pc \in Staged
      BY <1>2 DEF CheckRootsBetween, CheckRoots, ClientInv, ProgressInv, Staged
  <2>2. "rename brain" \in ClientPCs \ (Stopped \cup {"idle"}) /\ PcInv(c, "rename brain", j)
      BY <2>1, StagedIs DEF ClientPCs, Stopped, PcInv, NothingPlaced
  <2>3. Step(c, [j EXCEPT !.pc = "rename brain"]) \/ Finish(c, "partial_publish")
      BY <1>2 DEF CheckRootsBetween, CheckRoots
  <2> QED
      BY <2>1, <2>2, <2>3, GoesOn, FinishFine DEF Stopped, Statuses
<1>3. CASE CheckRootsAfter(c)
  <2>1. j.pc = "last check" /\ Full(j) /\ j.pc \in Staged
      BY <1>3 DEF CheckRootsAfter, CheckRoots, ClientInv, ProgressInv, Staged
  <2>2. "restored" \in ClientPCs \ (Stopped \cup {"idle"}) /\ PcInv(c, "restored", j)
      BY <2>1, StagedIs DEF ClientPCs, Stopped, PcInv, NothingPlaced
  <2>3. Step(c, [j EXCEPT !.pc = "restored"]) \/ Finish(c, "partial_publish")
      BY <1>3 DEF CheckRootsAfter, CheckRoots
  <2> QED
      BY <2>1, <2>2, <2>3, GoesOn, FinishFine DEF Stopped, Statuses
<1> QED
    BY <1>1, <1>2, <1>3

LEMMA RestoredFine ==
    ASSUME NEW c \in Clients, ClientInv(c, client[c]), Restored(c)
    PROVE  Proceeds(c)
<1>1. client[c].pc = "restored" /\ Full(client[c]) /\ client[c].pc \in Staged /\ Finish(c, "restored")
    BY DEF Restored, ClientInv, ProgressInv, Staged
<1>2. client[c].valid /\ client[c].path \in Paths /\ client[c].pc \notin Stopped /\ "restored" \in Statuses \ {"none"}
    BY <1>1, StagedIs DEF Stopped, Statuses
<1>3. ClientInv(c, [client[c] EXCEPT !.pc = "event", !.status = "restored"])
    BY <1>1, <1>2, StatusFine
<1> QED
    BY <1>1, <1>3 DEF Finish, Proceeds

LEMMA VerifyDbFine ==
    ASSUME NEW c \in Clients, ClientInv(c, client[c]), VerifyDb(c)
    PROVE  Proceeds(c)
<1> DEFINE j == client[c]
           q == IF HasBrain(j.verified) THEN "publish brain" ELSE "last check"
<1>1. j.pc = "verify db" /\ j.published = {"db"} /\ j.pc \in Staged
    BY DEF VerifyDb, ClientInv, ProgressInv, Staged
<1>2. q \in ClientPCs \ (Stopped \cup {"idle"}) /\ PcInv(c, q, j)
    BY <1>1, StagedIs DEF ClientPCs, Stopped, PcInv, NothingPlaced, Full
<1>3. Step(c, [j EXCEPT !.pc = q]) \/ Finish(c, "partial_publish")
    BY DEF VerifyDb
<1> HIDE DEF q
<1> QED
    BY <1>1, <1>2, <1>3, GoesOn, FinishFine DEF Stopped, Statuses

LEMMA VerifyBrainFine ==
    ASSUME NEW c \in Clients, ClientInv(c, client[c]), VerifyBrain(c)
    PROVE  Proceeds(c)
<1> DEFINE j == client[c]
<1>1. j.pc = "verify brain" /\ j.published = {"db", "brain"} /\ HasBrain(j.verified) /\ j.pc \in Staged
    BY DEF VerifyBrain, ClientInv, ProgressInv, Staged
<1>2. "last check" \in ClientPCs \ (Stopped \cup {"idle"}) /\ PcInv(c, "last check", j)
    BY <1>1, StagedIs DEF ClientPCs, Stopped, PcInv, NothingPlaced, Full
<1>3. Step(c, [j EXCEPT !.pc = "last check"]) \/ Finish(c, "partial_publish")
    BY DEF VerifyBrain
<1> QED
    BY <1>1, <1>2, <1>3, GoesOn, FinishFine DEF Stopped, Statuses

\* A killed client leaves what it has placed, and no event.
LEMMA KillFine ==
    ASSUME NEW c \in Clients, ClientInv(c, client[c]), Kill(c)
    PROVE  Proceeds(c)
<1> DEFINE j == client[c]
           k == [j EXCEPT !.pc = "killed"]
<1>1. j \in Client /\ j.pc # "ended" /\ Step(c, k) /\ "killed" \in ClientPCs
    BY DEF Kill, ClientInv, ProgressInv, ClientPCs
<1>2. \A e \in registry.events : e.by # c
    BY <1>1 DEF ClientInv, PlacedInv
<1>3. k \in Client
    BY <1>1, Zenon DEF Client
<1>4. k.pc = "killed" /\ k.path = j.path /\ k.valid = j.valid /\ k.verified = j.verified /\ k.stage = j.stage
      /\ k.roots = j.roots /\ k.published = j.published /\ k.status = j.status /\ k.files = j.files
    BY <1>1 DEF Client
<1> HIDE DEF k
<1>5. ProgressInv(c, k)
    BY <1>3, <1>4 DEF ProgressInv, NothingPlaced, Stopped
<1>6. BundleInv(c, k)
    BY <1>4 DEF ClientInv, BundleInv, Staged
<1>7. PlacedInv(c, k)
    BY <1>2, <1>4 DEF ClientInv, PlacedInv
<1> QED
    BY <1>1, <1>5, <1>6, <1>7 DEF Proceeds, ClientInv

-----------------------------------------------------------------------------
(* The renames and the event, which change more than the client's record. *)

LEMMA PublishDbFine ==
    ASSUME FilesFine, UNCHANGED filesVars, RestoreInv, NEW c \in Clients, PublishDb(c)
    PROVE  RestoreInv'
<1> DEFINE j == client[c]
           r == j.roots.conv
           x == [by |-> c, is |-> j.stage.db]
<1>1. ClientInv(c, j) /\ RestoreTypeOK /\ j.pc = "rename db" /\ j.pc \in Staged /\ j.published = {}
    BY DEF RestoreInv, PublishDb, Staged, ClientInv, ProgressInv, NothingPlaced
<1>2. registry' = registry /\ brains' = brains /\ at' = at
    BY DEF PublishDb
<1>3. CASE Finish(c, "conflict") /\ conv' = conv
  <2>1. Proceeds(c)
      BY <1>1, <1>3, FinishFine DEF Stopped, Statuses
  <2>2. registry' = [version |-> registry'.version, rows |-> registry'.rows, events |-> registry'.events]
      BY <1>1, <1>2 DEF RestoreTypeOK
  <2> QED
      BY <1>2, <1>3, <2>1, <2>2, ProceedsFine
<1>4. CASE /\ conv[r].file = Empty /\ conv' = [conv EXCEPT ![r].file = x]
           /\ Step(c, [j EXCEPT !.pc = "verify db", !.published = @ \cup {"db"}])
  <2>1. PICK k : k = [j EXCEPT !.pc = "verify db", !.published = @ \cup {"db"}]
      OBVIOUS
  <2>2. j \in Client /\ r \in Roots /\ j.valid /\ j.stage.db = j.verified.parts.db /\ j.path \in Paths
        /\ j.status = "none" /\ j.files = "none"
        /\ (HasBrain(j.verified) => j.stage.brain = j.verified.parts.brain)
    <3>1. j \in Client
        BY <1>1, StagedIs
    <3>2. r \in Roots
        BY <3>1 DEF Client
    <3> QED
        BY <1>1, <3>1, <3>2, StagedIs
  <2>3. {"db"} \in SUBSET {"db", "brain"} /\ j.published \cup {"db"} = {"db"} /\ "verify db" \in ClientPCs
      BY <1>1 DEF ClientPCs
  <2>4. k \in Client
    <3>1. [j EXCEPT !.pc = "verify db", !.published = @ \cup {"db"}] \in Client
        BY <2>2, <2>3, Zenon DEF Client
    <3> QED
        BY <2>1, <3>1
  <2>5. k.pc = "verify db" /\ k.path = j.path /\ k.valid = j.valid /\ k.verified = j.verified /\ k.stage = j.stage
        /\ k.roots = j.roots /\ k.published = {"db"} /\ k.status = "none" /\ k.files = "none"
      BY <2>1, <2>2, <2>3 DEF Client
  <2>6. conv' = [s \in Roots |-> IF s = r THEN [file |-> x, beside |-> conv[r].beside] ELSE conv[s]]
    <3>1. DOMAIN conv = Roots /\ conv[r] = [file |-> conv[r].file, beside |-> conv[r].beside]
      <4>1. conv = [s \in Roots |-> [file |-> [by |-> conv[s].file.by, is |-> conv[s].file.is], beside |-> conv[s].beside]]
          BY <1>1 DEF RestoreTypeOK
      <4>2. conv[r] = [file |-> [by |-> conv[r].file.by, is |-> conv[r].file.is], beside |-> conv[r].beside]
          BY <2>2, <4>1
      <4>3. DOMAIN conv = Roots
          BY <4>1
      <4> QED
          BY <4>2, <4>3
    <3>2. [conv[r] EXCEPT !.file = x] = [file |-> x, beside |-> conv[r].beside]
        BY <3>1
    <3>3. conv' = [conv EXCEPT ![r] = [conv[r] EXCEPT !.file = x]]
        BY <1>4
    <3> QED
        BY <3>1, <3>2, <3>3, <2>2
  <2>7. conv'[r] = [file |-> x, beside |-> conv[r].beside] /\ \A s \in Roots \ {r} : conv'[s] = conv[s]
      BY <2>2, <2>6
  <2>8. conv'[r].file = x /\ \A s \in Roots \ {r} : conv'[s].file = conv[s].file
      BY <2>7
  <2>9. conv' = [s \in Roots |-> [file |-> [by |-> conv'[s].file.by, is |-> conv'[s].file.is], beside |-> conv'[s].beside]]
    <3>1. \A s \in Roots : conv'[s] = [file |-> [by |-> conv'[s].file.by, is |-> conv'[s].file.is], beside |-> conv'[s].beside]
      <4>1. \A s \in Roots : conv[s] = [file |-> [by |-> conv[s].file.by, is |-> conv[s].file.is], beside |-> conv[s].beside]
          BY <1>1 DEF RestoreTypeOK
      <4>2. x = [by |-> x.by, is |-> x.is]
          OBVIOUS
      <4>3. conv'[r] = [file |-> [by |-> conv'[r].file.by, is |-> conv'[r].file.is], beside |-> conv'[r].beside]
          BY <2>7, <4>2
      <4> QED
          BY <2>7, <4>1, <4>3
    <3>2. conv' = [s \in Roots |-> conv'[s]]
        BY <2>6
    <3> QED
        BY <3>1, <3>2
  <2>10. \A s \in Roots : conv[s].file.by # c /\ brains[s].by # c
      BY <1>1 DEF ClientInv, PlacedInv
  <2>11. \A e \in registry.events : e.by # c
      BY <1>1 DEF ClientInv, PlacedInv
  <2>12. ASSUME NEW d \in Clients \ {c} PROVE Spares(d)
    <3>1. conv[r].file.by # d /\ conv'[r].file.by # d
        BY <1>4, <2>8, RestoreAssumption DEF Empty
    <3> QED
        BY <1>2, <2>8, <3>1 DEF Spares
  <2>13. ProgressInv(c, k)'
      BY <2>2, <2>4, <2>5 DEF ProgressInv, NothingPlaced, Stopped
  <2>14. BundleInv(c, k)'
    <3>1. history' = history
        BY DEF filesVars
    <3>2. k.valid => k.verified \in Bundles /\ Coherent(k.verified.parts, Moments(1))
        BY <1>1, <2>5 DEF ClientInv, BundleInv
    <3>3. Moments(1)' = Moments(1)
        BY <3>1 DEF Moments
    <3> QED
        BY <2>2, <2>5, <3>2, <3>3 DEF BundleInv
  <2>15. PlacedInv(c, k)'
      BY <1>2, <2>2, <2>5, <2>8, <2>10, <2>11 DEF PlacedInv
  <2>16. RestoreTypeOK'
    <3>1. client' = [d \in Clients |-> client'[d]]
        BY <1>1, <1>4 DEF Step, RestoreTypeOK
    <3> QED
        BY <1>1, <1>2, <2>9, <3>1 DEF RestoreTypeOK
  <2>17. ClientInv(c, k)'
      BY <2>13, <2>14, <2>15 DEF ClientInv
  <2>18. Step(c, k)
      BY <1>4, <2>1
  <2> QED
      BY <2>12, <2>16, <2>17, <2>18, ClientMoves
<1> QED
    BY <1>3, <1>4 DEF PublishDb, MyConv

LEMMA PublishBrainFine ==
    ASSUME FilesFine, UNCHANGED filesVars, RestoreInv, NEW c \in Clients, PublishBrain(c)
    PROVE  RestoreInv'
<1> DEFINE j == client[c]
           r == j.roots.brain
           x == [by |-> c, is |-> j.stage.brain]
<1>1. ClientInv(c, j) /\ RestoreTypeOK /\ j.pc = "rename brain" /\ j.pc \in Staged /\ j.published = {"db"}
      /\ HasBrain(j.verified)
    BY DEF RestoreInv, PublishBrain, Staged, ClientInv, ProgressInv
<1>2. registry' = registry /\ conv' = conv /\ at' = at
    BY DEF PublishBrain
<1>3. CASE Finish(c, "partial_publish") /\ brains' = brains
  <2>1. Proceeds(c)
      BY <1>1, <1>3, FinishFine DEF Stopped, Statuses
  <2>2. registry' = [version |-> registry'.version, rows |-> registry'.rows, events |-> registry'.events]
      BY <1>1, <1>2 DEF RestoreTypeOK
  <2> QED
      BY <1>2, <1>3, <2>1, <2>2, ProceedsFine
<1>4. CASE /\ brains[r] = Empty /\ brains' = [brains EXCEPT ![r] = x]
           /\ Step(c, [j EXCEPT !.pc = "verify brain", !.published = @ \cup {"brain"}])
  <2>1. PICK k : k = [j EXCEPT !.pc = "verify brain", !.published = @ \cup {"brain"}]
      OBVIOUS
  <2>2. j \in Client /\ r \in Roots /\ j.roots.conv \in Roots /\ j.valid /\ j.stage.db = j.verified.parts.db /\ j.path \in Paths
        /\ j.status = "none" /\ j.files = "none" /\ j.stage.brain = j.verified.parts.brain
    <3>1. j \in Client
        BY <1>1, StagedIs
    <3>2. r \in Roots /\ j.roots.conv \in Roots
        BY <3>1 DEF Client
    <3> QED
        BY <1>1, <3>1, <3>2, StagedIs
  <2>3. {"db", "brain"} \in SUBSET {"db", "brain"} /\ j.published \cup {"brain"} = {"db", "brain"} /\ "verify brain" \in ClientPCs
      BY <1>1 DEF ClientPCs
  <2>4. k \in Client
    <3>1. [j EXCEPT !.pc = "verify brain", !.published = @ \cup {"brain"}] \in Client
        BY <2>2, <2>3, Zenon DEF Client
    <3> QED
        BY <2>1, <3>1
  <2>5. k.pc = "verify brain" /\ k.path = j.path /\ k.valid = j.valid /\ k.verified = j.verified /\ k.stage = j.stage
        /\ k.roots = j.roots /\ k.published = {"db", "brain"} /\ k.status = "none" /\ k.files = "none"
      BY <2>1, <2>2, <2>3 DEF Client
  <2>6. brains'[r] = x /\ \A s \in Roots \ {r} : brains'[s] = brains[s]
      BY <1>1, <1>4, <2>2 DEF RestoreTypeOK
  <2>7. brains' = [s \in Roots |-> [by |-> brains'[s].by, is |-> brains'[s].is]]
      BY <1>1, <1>4, <2>2 DEF RestoreTypeOK
  <2>8. /\ \A s \in Roots : brains[s].by # c
        /\ conv[j.roots.conv].file = [by |-> c, is |-> j.verified.parts.db]
        /\ \A e \in registry.events : e.by # c
      BY <1>1 DEF ClientInv, PlacedInv
  <2>9. ASSUME NEW d \in Clients \ {c} PROVE Spares(d)
    <3>1. brains[r].by # d /\ brains'[r].by # d
        BY <1>4, <2>6, RestoreAssumption DEF Empty
    <3> QED
        BY <1>2, <2>6, <3>1 DEF Spares
  <2>10. ProgressInv(c, k)'
      BY <1>1, <2>2, <2>4, <2>5 DEF ProgressInv, NothingPlaced, Stopped
  <2>11. BundleInv(c, k)'
    <3>1. history' = history
        BY DEF filesVars
    <3>2. k.valid => k.verified \in Bundles /\ Coherent(k.verified.parts, Moments(1))
        BY <1>1, <2>5 DEF ClientInv, BundleInv
    <3>3. Moments(1)' = Moments(1)
        BY <3>1 DEF Moments
    <3> QED
        BY <2>2, <2>5, <3>2, <3>3 DEF BundleInv
  <2>12. PlacedInv(c, k)'
    <3>1. /\ \A s \in Roots : conv'[s].file.by = c => "db" \in k.published
          /\ "db" \in k.published
        BY <2>5
    <3>2. ASSUME NEW s \in Roots, brains'[s].by = c PROVE "brain" \in k.published /\ s = k.roots.brain
      <4>1. s = r
          BY <2>6, <2>8, <3>2
      <4>2. k.roots.brain = r
          BY <2>5
      <4> QED
          BY <2>5, <4>1, <4>2
    <3>3. conv'[k.roots.conv].file = [by |-> c, is |-> k.verified.parts.db]
        BY <1>2, <2>5, <2>8
    <3>4. brains'[k.roots.brain] = [by |-> c, is |-> k.verified.parts.brain]
        BY <2>2, <2>5, <2>6
    <3>5. \A e \in registry'.events : e.by # c
        BY <1>2, <2>8
    <3> QED
        BY <3>1, <3>2, <3>3, <3>4, <3>5 DEF PlacedInv
  <2>13. RestoreTypeOK'
    <3>1. client' = [d \in Clients |-> client'[d]]
        BY <1>1, <1>4 DEF Step, RestoreTypeOK
    <3> QED
        BY <1>1, <1>2, <2>7, <3>1 DEF RestoreTypeOK
  <2>14. ClientInv(c, k)'
      BY <2>10, <2>11, <2>12 DEF ClientInv
  <2>15. Step(c, k)
      BY <1>4, <2>1
  <2> QED
      BY <2>9, <2>13, <2>14, <2>15, ClientMoves
<1> QED
    BY <1>3, <1>4 DEF PublishBrain, MyBrain

\* An event is recorded in the same step in which the client ends.
LEMMA RecordsFine ==
    ASSUME FilesFine, UNCHANGED filesVars, RestoreInv, NEW c \in Clients, RecordRestoreEvent(c)
    PROVE  RestoreInv'
<1> DEFINE j == client[c]
<1>1. PICK k, f : /\ k = [j EXCEPT !.pc = "ended", !.status = j.status]
                  /\ f = [j EXCEPT !.pc = "ended", !.files = j.status, !.status = "registry_failed"]
    OBVIOUS
<1>2. /\ ClientInv(c, j) /\ RestoreTypeOK /\ j.pc = "event" /\ j \in Client /\ j.files = "none" /\ j.status # "none"
      /\ j.published # {} => j.status \in {"restored", "partial_publish"}
      /\ j.status = "restored" => Full(j) /\ j.valid
      /\ j.status \in Statuses
    BY DEF RestoreInv, RecordRestoreEvent, ClientInv, ProgressInv, Client
<1>3. conv' = conv /\ brains' = brains /\ at' = at
    BY DEF RecordRestoreEvent
<1>4. \A e \in registry.events : e.by # c
    BY <1>2 DEF ClientInv, PlacedInv
<1>5. "ended" \in ClientPCs /\ "registry_failed" \in Statuses
    BY DEF ClientPCs, Statuses
<1>6. k \in Client
  <2>1. [j EXCEPT !.pc = "ended", !.status = j.status] \in Client
      BY <1>2, <1>5, Zenon DEF Client
  <2> QED
      BY <1>1, <2>1
<1>7. k.pc = "ended" /\ k.path = j.path /\ k.valid = j.valid /\ k.verified = j.verified /\ k.stage = j.stage
      /\ k.roots = j.roots /\ k.published = j.published /\ k.status = j.status /\ k.files = "none"
    BY <1>1, <1>2 DEF Client
<1>8. f \in Client
  <2>1. [j EXCEPT !.pc = "ended", !.files = j.status, !.status = "registry_failed"] \in Client
      BY <1>2, <1>5, Zenon DEF Client
  <2> QED
      BY <1>1, <2>1
<1>9. f.pc = "ended" /\ f.path = j.path /\ f.valid = j.valid /\ f.verified = j.verified /\ f.stage = j.stage
      /\ f.roots = j.roots /\ f.published = j.published /\ f.status = "registry_failed" /\ f.files = j.status
    BY <1>1, <1>2 DEF Client
<1>10. \/ registry' = [registry EXCEPT !.events = @ \cup {Event(c)}] /\ Step(c, k)
       \/ registry' = registry /\ Step(c, f)
       \/ registry' = registry /\ j.published = {} /\ j.status # "restored" /\ Step(c, k)
    BY <1>1 DEF RecordRestoreEvent, End
<1>11. BundleInv(c, k) /\ BundleInv(c, f)
    BY <1>2, <1>7, <1>9 DEF ClientInv, BundleInv, Staged
<1>12. CASE registry' = [registry EXCEPT !.events = @ \cup {Event(c)}] /\ Step(c, k)
  <2>1. Event(c) = EventOf(c, k) /\ Event(c).by = c
      BY <1>7 DEF Event, EventOf
  <2>2. registry' = [version |-> registry.version, rows |-> registry.rows, events |-> registry.events \cup {Event(c)}]
      BY <1>2, <1>12 DEF RestoreTypeOK
  <2>3. registry'.events = registry.events \cup {Event(c)}
        /\ registry' = [version |-> registry'.version, rows |-> registry'.rows, events |-> registry'.events]
      BY <2>2
  <2>4. ASSUME NEW d \in Clients \ {c} PROVE Spares(d)
      BY <1>3, <2>1, <2>3 DEF Spares
  <2>5. ProgressInv(c, k)'
    <3>1. EventOf(c, k) \in registry'.events
        BY <2>1, <2>3
    <3> QED
        BY <1>2, <1>6, <1>7, <3>1 DEF ProgressInv, NothingPlaced, Stopped, Full
  <2>6. BundleInv(c, k)'
    <3>1. history' = history
        BY DEF filesVars
    <3>2. Moments(1)' = Moments(1)
        BY <3>1 DEF Moments
    <3> QED
        BY <1>11, <3>2 DEF BundleInv
  <2>7. PlacedInv(c, k)'
      BY <1>2, <1>3, <1>4, <1>7, <2>1, <2>3 DEF ClientInv, PlacedInv
  <2>8. RestoreTypeOK'
    <3>1. client' = [d \in Clients |-> client'[d]]
        BY <1>2, <1>12 DEF Step, RestoreTypeOK
    <3>2. \A e \in registry'.events : e.by \in Clients
        BY <1>2, <2>1, <2>3 DEF RestoreTypeOK
    <3> QED
        BY <1>2, <1>3, <2>3, <3>1, <3>2 DEF RestoreTypeOK
  <2>9. ClientInv(c, k)'
      BY <2>5, <2>6, <2>7 DEF ClientInv
  <2> QED
      BY <1>12, <2>4, <2>8, <2>9, ClientMoves
<1>13. ASSUME registry' = registry, Proceeds(c) PROVE RestoreInv'
  <2>1. registry' = [version |-> registry'.version, rows |-> registry'.rows, events |-> registry'.events]
      BY <1>2, <1>13 DEF RestoreTypeOK
  <2> QED
      BY <1>3, <1>13, <2>1, ProceedsFine
<1>14. CASE registry' = registry /\ Step(c, f)
  <2>1. ProgressInv(c, f)
      BY <1>2, <1>8, <1>9 DEF ProgressInv, NothingPlaced, Stopped, Full
  <2>2. PlacedInv(c, f)
      BY <1>2, <1>4, <1>9 DEF ClientInv, PlacedInv
  <2>3. Proceeds(c)
      BY <1>11, <1>14, <2>1, <2>2 DEF Proceeds, ClientInv
  <2> QED
      BY <1>13, <1>14, <2>3
<1>15. CASE registry' = registry /\ j.published = {} /\ j.status # "restored" /\ Step(c, k)
  <2>1. ProgressInv(c, k)
      BY <1>2, <1>6, <1>7, <1>15 DEF ProgressInv, NothingPlaced, Stopped
  <2>2. PlacedInv(c, k)
      BY <1>2, <1>4, <1>7 DEF ClientInv, PlacedInv
  <2>3. Proceeds(c)
      BY <1>11, <1>15, <2>1, <2>2 DEF Proceeds, ClientInv
  <2> QED
      BY <1>13, <1>15, <2>3
<1> QED
    BY <1>10, <1>12, <1>14, <1>15

\* What a client writes to the registry besides its event leaves the events.
RowsOnly ==
    /\ registry' = [version |-> registry'.version, rows |-> registry'.rows, events |-> registry'.events]
    /\ registry'.events = registry.events
LEMMA RegistryKept ==
    ASSUME RestoreTypeOK, NEW c, InitializeRegistry(c) \/ Register(c) \/ Mark(c)
    PROVE  RowsOnly /\ conv' = conv /\ brains' = brains /\ at' = at /\ archives' = archives
<1>1. registry = [version |-> registry.version, rows |-> registry.rows, events |-> registry.events]
    BY DEF RestoreTypeOK
<1>2. ASSUME registry' = registry PROVE RowsOnly
    BY <1>1, <1>2 DEF RowsOnly
<1>3. ASSUME NEW v, registry' = [registry EXCEPT !.version = v] PROVE RowsOnly
  <2>1. registry' = [version |-> v, rows |-> registry.rows, events |-> registry.events]
      BY <1>1, <1>3
  <2> QED
      BY <2>1 DEF RowsOnly
<1>4. ASSUME NEW rows, registry' = [registry EXCEPT !.rows = rows] PROVE RowsOnly
  <2>1. registry' = [version |-> registry.version, rows |-> rows, events |-> registry.events]
      BY <1>1, <1>4
  <2> QED
      BY <2>1 DEF RowsOnly
<1>5. CASE InitializeRegistry(c)
  <2>1. RowsOnly
      BY <1>2, <1>3, <1>5 DEF InitializeRegistry
  <2> QED
      BY <1>5, <2>1 DEF InitializeRegistry
<1>6. CASE Register(c)
  <2>1. RowsOnly
      BY <1>2, <1>4, <1>6 DEF Register
  <2> QED
      BY <1>6, <2>1 DEF Register
<1>7. CASE Mark(c)
  <2>1. RowsOnly
      BY <1>4, <1>7 DEF Mark
  <2> QED
      BY <1>7, <2>1 DEF Mark
<1> QED
    BY <1>5, <1>6, <1>7

\* The steps of one client.
ClientStep(c) ==
    \/ \E path \in Paths : Begin(c, path)
    \/ OpenRegistry(c) \/ InitializeRegistry(c) \/ Register(c) \/ Mark(c) \/ RegistryFails(c)
    \/ VerifyArchive(c) \/ OpenRoots(c) \/ CheckTargets(c) \/ Reverify(c)
    \/ StageDb(c) \/ StageBrain(c) \/ StageFails(c)
    \/ CheckRootsBefore(c) \/ CheckRootsBetween(c) \/ CheckRootsAfter(c) \/ Restored(c)
    \/ PublishDb(c) \/ VerifyDb(c) \/ PublishBrain(c) \/ VerifyBrain(c)
    \/ RecordRestoreEvent(c) \/ Kill(c)

LEMMA RestoreSteps ==
    ASSUME FilesFine, UNCHANGED filesVars, CaptureInv, RestoreInv, NEW c \in Clients, ClientStep(c)
    PROVE  RestoreInv' /\ archives' = archives
<1>1. ClientInv(c, client[c]) /\ RestoreTypeOK /\ at \in [conv : Roots, brain : Roots]
    BY DEF RestoreInv, RestoreTypeOK
<1>2. CASE \E path \in Paths : Begin(c, path)
  <2>1. PICK path \in Paths : Begin(c, path)
      BY <1>2
  <2> QED
      BY <1>1, <2>1, BeginFine, QuietFine DEF Begin, Quiet
<1>3. CASE OpenRegistry(c) \/ RegistryFails(c)
    BY <1>1, <1>3, OpenRegistryFine, RegistryFailsFine, QuietFine DEF OpenRegistry, RegistryFails, Quiet
<1>4. CASE InitializeRegistry(c) \/ Register(c) \/ Mark(c)
  <2>1. Proceeds(c)
      BY <1>1, <1>4, InitializeRegistryFine, RegisterFine, MarkFine
  <2>2. RowsOnly /\ conv' = conv /\ brains' = brains /\ at' = at /\ archives' = archives
      BY <1>1, <1>4, RegistryKept
  <2> QED
      BY <2>1, <2>2, ProceedsFine DEF RowsOnly
<1>5. CASE VerifyArchive(c) \/ Reverify(c)
    BY <1>1, <1>5, VerifyArchiveFine, ReverifyFine, QuietFine DEF VerifyArchive, Reverify, Quiet
<1>6. CASE OpenRoots(c) \/ CheckTargets(c)
    BY <1>1, <1>6, OpenRootsFine, CheckTargetsFine, QuietFine DEF OpenRoots, CheckTargets, Quiet
<1>7. CASE StageDb(c) \/ StageBrain(c) \/ StageFails(c)
    BY <1>1, <1>7, StageDbFine, StageBrainFine, StageFailsFine, QuietFine DEF StageDb, StageBrain, StageFails, Quiet
<1>8. CASE CheckRootsBefore(c) \/ CheckRootsBetween(c) \/ CheckRootsAfter(c)
    BY <1>1, <1>8, CheckRootsFine, QuietFine DEF CheckRootsBefore, CheckRootsBetween, CheckRootsAfter, CheckRoots, Quiet
<1>9. CASE Restored(c) \/ VerifyDb(c) \/ VerifyBrain(c)
    BY <1>1, <1>9, RestoredFine, VerifyDbFine, VerifyBrainFine, QuietFine DEF Restored, VerifyDb, VerifyBrain, Quiet
<1>10. CASE PublishDb(c) \/ PublishBrain(c) \/ RecordRestoreEvent(c)
    BY <1>10, PublishDbFine, PublishBrainFine, RecordsFine DEF PublishDb, PublishBrain, RecordRestoreEvent
<1>11. CASE Kill(c)
    BY <1>1, <1>11, KillFine, QuietFine DEF Kill, Quiet
<1> QED
    BY <1>2, <1>3, <1>4, <1>5, <1>6, <1>7, <1>8, <1>9, <1>10, <1>11 DEF ClientStep

\* What others do to directories, roots and archives is not done in a client's name.
LEMMA OthersKeepRestores ==
    ASSUME FilesFine, UNCHANGED filesVars, RestoreInv, Others
    PROVE  RestoreInv'
<1>1. /\ conv = [r \in Roots |-> [file |-> [by |-> conv[r].file.by, is |-> conv[r].file.is], beside |-> conv[r].beside]]
      /\ brains = [r \in Roots |-> [by |-> brains[r].by, is |-> brains[r].is]]
      /\ at \in [conv : Roots, brain : Roots] /\ RestoreTypeOK
    BY DEF RestoreInv, RestoreTypeOK
<1>2. client' = client /\ registry' = registry
    BY DEF Others, RemoveArchive, Damage, CopyArchive, CreateConversation, OpenConversation, CreateBrain, ReplaceRoot
<1>3. FilesFine' /\ Grows
    BY Still DEF Drift
<1>4. ASSUME RestoreTypeOK', \A c \in Clients : Spares(c) PROVE RestoreInv'
    BY <1>2, <1>3, <1>4, ClientsStay
<1>5. CASE conv' = conv /\ brains' = brains /\ at' \in [conv : Roots, brain : Roots]
  <2>1. \A c \in Clients : Spares(c)
      BY <1>2, <1>5 DEF Spares
  <2>2. RestoreTypeOK'
      BY <1>1, <1>2, <1>5 DEF RestoreTypeOK
  <2> QED
      BY <1>4, <2>1, <2>2
<1>6. ASSUME NEW r \in Roots, CreateConversation(r) PROVE RestoreInv'
  <2> DEFINE x == [by |-> Foreign, is |-> Foreign]
  <2>1. conv[r].file = Empty /\ conv' = [conv EXCEPT ![r] = [conv[r] EXCEPT !.file = x]] /\ brains' = brains /\ at' = at
      BY <1>6 DEF CreateConversation
  <2>2. conv[r] = [file |-> [by |-> conv[r].file.by, is |-> conv[r].file.is], beside |-> conv[r].beside] /\ DOMAIN conv = Roots
      BY <1>1
  <2>3. conv' = [s \in Roots |-> IF s = r THEN [file |-> x, beside |-> conv[r].beside] ELSE conv[s]]
    <3>1. [conv[r] EXCEPT !.file = x] = [file |-> x, beside |-> conv[r].beside]
        BY <2>2
    <3> QED
        BY <2>1, <2>2, <3>1
  <2>4. conv'[r] = [file |-> x, beside |-> conv[r].beside] /\ \A s \in Roots \ {r} : conv'[s] = conv[s]
      BY <2>3
  <2>5. \A s \in Roots : conv'[s] = [file |-> [by |-> conv'[s].file.by, is |-> conv'[s].file.is], beside |-> conv'[s].beside]
    <3>1. \A s \in Roots : conv[s] = [file |-> [by |-> conv[s].file.by, is |-> conv[s].file.is], beside |-> conv[s].beside]
        BY <1>1
    <3> QED
        BY <2>4, <3>1
  <2>6. RestoreTypeOK'
    <3>1. conv' = [s \in Roots |-> conv'[s]]
        BY <2>3
    <3>2. conv' = [s \in Roots |-> [file |-> [by |-> conv'[s].file.by, is |-> conv'[s].file.is], beside |-> conv'[s].beside]]
        BY <2>5, <3>1
    <3> QED
        BY <1>1, <1>2, <2>1, <3>2 DEF RestoreTypeOK
  <2>7. ASSUME NEW c \in Clients PROVE Spares(c)
    <3>1. conv[r].file.by # c /\ conv'[r].file.by # c
        BY <2>1, <2>4, RestoreAssumption DEF Empty
    <3> QED
        BY <1>2, <2>1, <2>4, <3>1 DEF Spares
  <2> QED
      BY <1>4, <2>6, <2>7
<1>7. ASSUME NEW r \in Roots, OpenConversation(r) PROVE RestoreInv'
  <2>1. conv' = [conv EXCEPT ![r] = [conv[r] EXCEPT !.beside = TRUE]] /\ brains' = brains /\ at' = at
      BY <1>7 DEF OpenConversation
  <2>2. conv[r] = [file |-> [by |-> conv[r].file.by, is |-> conv[r].file.is], beside |-> conv[r].beside] /\ DOMAIN conv = Roots
      BY <1>1
  <2>3. conv' = [s \in Roots |-> IF s = r THEN [file |-> conv[r].file, beside |-> TRUE] ELSE conv[s]]
    <3>1. [conv[r] EXCEPT !.beside = TRUE] = [file |-> conv[r].file, beside |-> TRUE]
      <4>1. PICK x, y : x = [by |-> conv[r].file.by, is |-> conv[r].file.is] /\ y = conv[r].beside
          OBVIOUS
      <4>2. conv[r] = [file |-> x, beside |-> y]
          BY <2>2, <4>1
      <4>3. conv[r].file = x
          BY <4>2
      <4>4. ASSUME NEW z PROVE [[file |-> x, beside |-> y] EXCEPT !.beside = z] = [file |-> x, beside |-> z]
          OBVIOUS
      <4>5. [[file |-> x, beside |-> y] EXCEPT !.beside = TRUE] = [file |-> x, beside |-> TRUE]
          BY <4>4, Zenon
      <4> QED
          BY <4>2, <4>3, <4>5, Zenon
    <3> QED
        BY <2>1, <2>2, <3>1
  <2>4. conv'[r] = [file |-> conv[r].file, beside |-> TRUE] /\ \A s \in Roots \ {r} : conv'[s] = conv[s]
      BY <2>3
  <2>5. \A s \in Roots : conv'[s] = [file |-> [by |-> conv'[s].file.by, is |-> conv'[s].file.is], beside |-> conv'[s].beside]
    <3>1. \A s \in Roots : conv[s] = [file |-> [by |-> conv[s].file.by, is |-> conv[s].file.is], beside |-> conv[s].beside]
        BY <1>1
    <3>2. conv[r].file = [by |-> conv[r].file.by, is |-> conv[r].file.is]
      <4>1. PICK x : x = [by |-> conv[r].file.by, is |-> conv[r].file.is]
          OBVIOUS
      <4>2. conv[r] = [file |-> x, beside |-> conv[r].beside]
          BY <2>2, <4>1
      <4>3. conv[r].file = x
          BY <4>2
      <4> QED
          BY <4>1, <4>3
    <3> QED
        BY <2>4, <3>1, <3>2
  <2>6. RestoreTypeOK'
    <3>1. conv' = [s \in Roots |-> conv'[s]]
        BY <2>3
    <3>2. conv' = [s \in Roots |-> [file |-> [by |-> conv'[s].file.by, is |-> conv'[s].file.is], beside |-> conv'[s].beside]]
        BY <2>5, <3>1
    <3> QED
        BY <1>1, <1>2, <2>1, <3>2 DEF RestoreTypeOK
  <2>7. \A s \in Roots : conv'[s].file = conv[s].file
      BY <2>4
  <2>8. \A c \in Clients : Spares(c)
      BY <1>2, <2>1, <2>7 DEF Spares
  <2> QED
      BY <1>4, <2>6, <2>8
<1>8. ASSUME NEW r \in Roots, CreateBrain(r) PROVE RestoreInv'
  <2> DEFINE x == [by |-> Foreign, is |-> Foreign]
  <2>1. brains[r] = Empty /\ brains' = [brains EXCEPT ![r] = x] /\ conv' = conv /\ at' = at
      BY <1>8 DEF CreateBrain
  <2>2. brains' = [s \in Roots |-> IF s = r THEN x ELSE brains[s]]
      BY <1>1, <2>1
  <2>3. brains'[r] = x /\ \A s \in Roots \ {r} : brains'[s] = brains[s]
      BY <2>2
  <2>4. brains' = [s \in Roots |-> [by |-> brains'[s].by, is |-> brains'[s].is]]
    <3>1. \A s \in Roots : brains[s] = [by |-> brains[s].by, is |-> brains[s].is]
        BY <1>1
    <3>2. \A s \in Roots : brains'[s] = [by |-> brains'[s].by, is |-> brains'[s].is]
        BY <2>3, <3>1
    <3>3. brains' = [s \in Roots |-> brains'[s]]
        BY <2>2
    <3> QED
        BY <3>2, <3>3
  <2>5. RestoreTypeOK'
      BY <1>1, <1>2, <2>1, <2>4 DEF RestoreTypeOK
  <2>6. ASSUME NEW c \in Clients PROVE Spares(c)
    <3>1. brains[r].by # c /\ brains'[r].by # c
        BY <2>1, <2>3, RestoreAssumption DEF Empty
    <3> QED
        BY <1>2, <2>1, <2>3, <3>1 DEF Spares
  <2> QED
      BY <1>4, <2>5, <2>6
<1>9. ASSUME NEW which \in {"conv", "brain"}, ReplaceRoot(which) PROVE RestoreInv'
    BY <1>1, <1>5, <1>9 DEF ReplaceRoot
<1>10. ASSUME NEW path \in Paths, \/ RemoveArchive(path)
                                  \/ \E part \in {"db", "brain", "all"} : Damage(path, part)
                                  \/ \E to \in Paths : CopyArchive(path, to)
       PROVE  RestoreInv'
    BY <1>1, <1>5, <1>10 DEF RemoveArchive, Damage, CopyArchive
<1> QED
    BY <1>6, <1>7, <1>8, <1>9, <1>10 DEF Others

-----------------------------------------------------------------------------
(* The beginning.                                                          *)

\* A database nobody has written to reads as it is.
LEMMA FreshIs ==
    ASSUME NEW mode \in {"wal", "journal"}
    PROVE  /\ Fresh(mode) \in Database /\ Fresh(mode).wal = Absent /\ Fresh(mode).journal = Absent
           /\ Committed(Fresh(mode)) = [p \in Pages |-> 0]
<1> DEFINE zeros == [p \in Pages |-> 0]
<1>1. zeros \in Whole
    BY DEF Whole
<1>2. Fresh(mode) = [mode |-> mode, linked |-> TRUE, main |-> zeros, stamp |-> 0, wal |-> Absent, shm |-> 0, journal |-> Absent]
    BY DEF Fresh
<1>3. Fresh(mode) \in Database
  <2> HIDE DEF zeros
  <2> QED
      BY <1>1, <1>2 DEF Database
<1>4. Fresh(mode).wal = Absent /\ Fresh(mode).journal = Absent /\ Fresh(mode).main = zeros
    BY <1>2
<1>5. Overlay(zeros, NoLog) = zeros
    BY NoLogType DEF Overlay
<1> QED
    BY <1>3, <1>4, <1>5 DEF Committed, Frames

LEMMA FilesBegin ==
    ASSUME NEW modes \in [Databases -> {"wal", "journal"}], NEW quota \in [Databases \cup {"brain"} -> Nat],
           NEW files \in [BrainFiles -> {0, Absent}], FilesInit(modes, quota, files)
    PROVE  /\ FilesFine /\ Len(history) = 1
           /\ history[1].conversation = [p \in Pages |-> 0] /\ history[1].summaries = [p \in Pages |-> 0]
           /\ history[1].brain = files
<1>1. db = [s \in Databases |-> Fresh(modes[s])] /\ brain = files /\ writes = 0 /\ limit = quota
      /\ history = <<Moment(db, brain)>>
    BY DEF FilesInit
<1>2. \A s \in Databases : /\ db[s] \in Database /\ db[s].wal = Absent /\ db[s].journal = Absent
                           /\ Committed(db[s]) = [p \in Pages |-> 0]
  <2>1. ASSUME NEW s \in Databases
        PROVE  /\ db[s] \in Database /\ db[s].wal = Absent /\ db[s].journal = Absent
               /\ Committed(db[s]) = [p \in Pages |-> 0]
    <3>1. db[s] = Fresh(modes[s]) /\ modes[s] \in {"wal", "journal"}
        BY <1>1
    <3> QED
        BY <3>1, FreshIs
  <2> QED
      BY <2>1
<1>3. db \in [Databases -> Database]
    BY <1>1, <1>2
<1>4. brain \in [BrainFiles -> Nat \cup {Absent}]
    BY <1>1
<1>5. Moment(db, brain) \in Instant
    BY <1>3, <1>4, MomentType
<1>6. history \in Seq(Instant) /\ history # <<>> /\ Len(history) = 1 /\ history[Len(history)] = Moment(db, brain)
      /\ history[1] = Moment(db, brain)
    BY <1>1, <1>5
<1>7. FilesTypeOK
    BY <1>1, <1>3, <1>4, <1>6 DEF FilesTypeOK
<1>8. FilesInv
    BY <1>1, <1>2, <1>6 DEF FilesInv
<1> QED
    BY <1>1, <1>2, <1>6, <1>7, <1>8 DEF FilesFine, Moment, Databases

LEMMA FirstFine ==
    ASSUME NEW s, s.brain \in [BrainFiles -> {0, Absent}], Len(history) = 1,
           history[1].conversation = [p \in Pages |-> 0], history[1].summaries = [p \in Pages |-> 0],
           history[1].brain = s.brain
    PROVE  First(s) \in Bundles /\ First(s).id = "first" /\ Coherent(First(s).parts, Moments(1))
<1> DEFINE files == {f \in BrainFiles : s.brain[f] # Absent}
           kept == IF files = {} THEN Absent ELSE [f \in files |-> s.brain[f]]
           zeros == [p \in Pages |-> 0]
           parts == [db |-> zeros, summary |-> Absent, brain |-> kept]
           m == history[1]
<1>1. First(s) = [id |-> "first", damage |-> "none", parts |-> parts]
    BY FreshIs DEF First
<1>2. kept \in BrainPieces \cup {Absent}
  <2>1. [f \in files |-> s.brain[f]] \in [files -> Nat]
      OBVIOUS
  <2> QED
      BY <2>1 DEF BrainPieces
<1>3. zeros \in Whole
    BY DEF Whole
<1>4. parts \in Parts
  <2> HIDE DEF zeros, kept
  <2> QED
      BY <1>2, <1>3 DEF Parts
<1>5. m \in Moments(1)
    BY DEF Moments
<1>6. m.conversation = parts.db /\ parts.summary = Row(m.summaries)
    BY FilesAssumption DEF Row
<1>7. DOMAIN Kept(parts) = files /\ \A f \in files : Kept(parts)[f] = m.brain[f]
  <2>1. CASE files = {}
      BY <2>1, FilesAssumption DEF Kept, NoLog
  <2>2. CASE files # {}
    <3>1. files \in SUBSET BrainFiles /\ [f \in files |-> s.brain[f]] \in [files -> Nat]
        OBVIOUS
    <3>2. kept # Absent
        BY <2>2, <3>1, FilesAssumption
    <3> QED
        BY <2>2, <3>2 DEF Kept
  <2> QED
      BY <2>1, <2>2
<1>8. Coherent(parts, Moments(1))
  <2>1. DbWas(parts, Moments(1)) /\ SummaryWas(parts, Moments(1))
      BY <1>5, <1>6 DEF DbWas, SummaryWas
  <2>2. \A f \in BrainFiles \ files : m.brain[f] = Absent
      OBVIOUS
  <2> HIDE DEF parts, kept, files
  <2>3. BrainWas(parts, Moments(1))
      BY <1>5, <1>7, <2>2 DEF BrainWas
  <2> QED
      BY <2>1, <2>3, CoherentIs
<1> HIDE DEF parts
<1> QED
    BY <1>1, <1>4, <1>8 DEF Bundles

LEMMA JobsBegin ==
    ASSUME NEW who, job = Off([a \in Archivers |-> Idle], who)
    PROVE  job = [a \in Archivers |-> job[a]] /\ \A a \in Archivers : JobInv(job[a])
<1>1. job = [a \in Archivers |-> job[a]]
    BY DEF Off
<1>2. ASSUME NEW a \in Archivers PROVE JobInv(job[a])
  <2>1. job[a] = Idle \/ job[a] = [Idle EXCEPT !.pc = "ended"]
      BY DEF Off
  <2>2. Idle \in Job
    <3>1. None \in Parts
        BY DEF None, Parts
    <3>2. <<>> \in Seq(Seen) /\ NoLog \in Pieces /\ NoLog \in BrainPieces
      <4>1. NoLog \in [{} -> Nat] /\ {} \in SUBSET BrainFiles
          BY DEF NoLog
      <4>2. NoLog \in BrainPieces
          BY <4>1 DEF BrainPieces
      <4>3. <<>> \in Seq(Seen)
          OBVIOUS
      <4> QED
          BY <4>2, <4>3, NoLogType
    <3> QED
        BY <3>1, <3>2 DEF Idle, Job, JobPCs, JobStates
  <2>3. [Idle EXCEPT !.pc = "ended"] \in Job
      BY <2>2, Zenon DEF Job, JobPCs
  <2>4. job[a].pc \in {"idle", "ended"} /\ (job[a].pc = "idle" => job[a] = Idle) /\ job[a] \in Job
    <3>1. Idle.pc = "idle" /\ [Idle EXCEPT !.pc = "ended"].pc = "ended"
        BY DEF Idle
    <3>2. [Idle EXCEPT !.pc = "ended"].pc # "idle"
        BY <3>1
    <3> QED
        BY <2>1, <2>2, <2>3, <3>1, <3>2, Zenon
  <2> QED
      BY <2>4 DEF JobInv, Shape, Capturing, MainInv, LogInv, MomentInv, BrainInv, PartsInv
<1> QED
    BY <1>1, <1>2

LEMMA PlansBegin ==
    ASSUME FilesFine, NEW who, plan = Off([n \in Planners |-> Ready], who)
    PROVE  PlansInv
<1>1. plan = [n \in Planners |-> plan[n]]
    BY DEF Off
<1>2. ASSUME NEW n \in Planners PROVE PlanInv(plan[n])
  <2>1. plan[n] = Ready \/ plan[n] = [Ready EXCEPT !.pc = "ended"]
      BY DEF Off
  <2>2. Ready \in Plan
    <3>1. NoEntry \in Entry
        BY DEF NoEntry, Entry, Issues, Unknown
    <3> QED
        BY <3>1, NoLogType DEF Ready, Plan, PlanPCs
  <2>3. [Ready EXCEPT !.pc = "ended"] \in Plan
      BY <2>2, Zenon DEF Plan, PlanPCs
  <2>4. plan[n].pc \in {"begin", "ended"} /\ plan[n].decision = Absent /\ plan[n].since = 0 /\ plan[n] \in Plan
      BY <2>1, <2>2, <2>3 DEF Ready
  <2>5. Len(history) \in Nat
      BY DEF FilesFine, FilesTypeOK
  <2> QED
      BY <2>4, <2>5 DEF PlanInv
<1> QED
    BY <1>1, <1>2 DEF PlansInv

LEMMA RestoresBegin ==
    ASSUME NEW version, NEW others, NEW who, RestoreInit(version, others, Off([c \in Clients |-> Waiting], who))
    PROVE  RestoreInv
<1>1. /\ registry = [version |-> version, rows |-> [i \in {} |-> Nothing], events |-> {}]
      /\ conv = [r \in Roots |-> [file |-> Empty, beside |-> FALSE]]
      /\ brains = [r \in Roots |-> Empty]
      /\ at = [conv |-> 1, brain |-> 1]
      /\ client = Off([c \in Clients |-> Waiting], who)
    BY DEF RestoreInit
<1>2. \A r \in Roots : conv[r].file = Empty /\ brains[r] = Empty
    BY <1>1
<1>3. RestoreTypeOK
  <2>1. registry = [version |-> registry.version, rows |-> registry.rows, events |-> registry.events] /\ registry.events = {}
      BY <1>1
  <2>2. Empty = [by |-> Empty.by, is |-> Empty.is]
      BY DEF Empty
  <2>3. brains = [r \in Roots |-> [by |-> brains[r].by, is |-> brains[r].is]]
      BY <1>1, <2>2
  <2>4. conv = [r \in Roots |-> [file |-> [by |-> conv[r].file.by, is |-> conv[r].file.is], beside |-> conv[r].beside]]
    <3>1. \A r \in Roots : conv[r] = [file |-> Empty, beside |-> conv[r].beside] /\ conv[r].file = Empty
        BY <1>1
    <3>2. \A r \in Roots : conv[r] = [file |-> [by |-> conv[r].file.by, is |-> conv[r].file.is], beside |-> conv[r].beside]
        BY <2>2, <3>1
    <3>3. conv = [r \in Roots |-> conv[r]]
        BY <1>1
    <3> QED
        BY <3>2, <3>3
  <2>5. client = [c \in Clients |-> client[c]]
      BY <1>1 DEF Off
  <2> QED
      BY <1>1, <2>1, <2>3, <2>4, <2>5, RestoreAssumption DEF RestoreTypeOK
<1>4. ASSUME NEW c \in Clients PROVE ClientInv(c, client[c])
  <2>1. client[c] = Waiting \/ client[c] = [Waiting EXCEPT !.pc = "ended"]
      BY <1>1 DEF Off
  <2>2. Waiting \in Client
    <3>1. None \in Parts /\ [conv |-> 1, brain |-> 1] \in [conv : Roots, brain : Roots]
        BY RestoreAssumption DEF None, Parts
    <3> QED
        BY <3>1 DEF Waiting, Client, ClientPCs, Statuses
  <2>3. [Waiting EXCEPT !.pc = "ended"] \in Client
      BY <2>2, Zenon DEF Client, ClientPCs
  <2>4. /\ client[c].pc \in {"idle", "ended"} /\ client[c].published = {} /\ client[c].valid = FALSE
        /\ client[c].status = "none" /\ client[c].files = "none" /\ client[c] \in Client
      BY <2>1, <2>2, <2>3 DEF Waiting
  <2>5. ProgressInv(c, client[c])
      BY <2>4 DEF ProgressInv, Stopped
  <2>6. BundleInv(c, client[c])
      BY <2>4 DEF BundleInv, Staged
  <2>7. PlacedInv(c, client[c])
      BY <1>1, <1>2, <2>4, RestoreAssumption DEF PlacedInv, Empty
  <2> QED
      BY <2>5, <2>6, <2>7 DEF ClientInv
<1> QED
    BY <1>3, <1>4 DEF RestoreInv

LEMMA InitIInv == Init => IInv
<1> SUFFICES ASSUME Init PROVE IInv
    OBVIOUS
<1>1. PICK s \in Scenarios :
        /\ FilesInit(s.modes, s.quota, s.brain)
        /\ ArchiveInit([p \in Paths |-> IF p \in s.paths THEN First(s) ELSE Absent],
                       Off([a \in Archivers |-> Idle], s.who))
        /\ \E version \in s.versions : RestoreInit(version, s.disturb, Off([c \in Clients |-> Waiting], s.who))
        /\ InventoryInit(s.inputs, Off([n \in Planners |-> Ready], s.who))
    BY DEF Init
<1>2. /\ s.modes \in [Databases -> {"wal", "journal"}]
      /\ s.quota \in [Databases \cup {"brain"} -> Nat]
      /\ s.brain \in [BrainFiles -> {0, Absent}]
    BY AgyDbAssumption
<1>3. /\ FilesFine /\ Len(history) = 1
      /\ history[1].conversation = [p \in Pages |-> 0] /\ history[1].summaries = [p \in Pages |-> 0]
      /\ history[1].brain = s.brain
    BY <1>1, <1>2, FilesBegin
<1>4. First(s) \in Bundles /\ First(s).id = "first" /\ Coherent(First(s).parts, Moments(1))
    BY <1>2, <1>3, FirstFine
<1>5. archives = [p \in Paths |-> IF p \in s.paths THEN First(s) ELSE Absent]
      /\ job = Off([a \in Archivers |-> Idle], s.who)
    BY <1>1 DEF ArchiveInit
<1>6. ArchiveInv
    BY <1>4, <1>5, ArchiveAssumption DEF ArchiveInv
<1>7. CaptureInv
    BY <1>5, <1>6, JobsBegin DEF CaptureInv
<1>8. PlansInv
    BY <1>1, <1>3, PlansBegin DEF InventoryInit
<1>9. RestoreInv
    BY <1>1, RestoresBegin
<1> QED
    BY <1>3, <1>7, <1>8, <1>9 DEF IInv, FilesFine

-----------------------------------------------------------------------------
(* Every step.                                                             *)

LEMMA NextIInv == IInv /\ [Next]_vars => IInv'
<1> SUFFICES ASSUME IInv, [Next]_vars PROVE IInv'
    OBVIOUS
<1>1. FilesFine /\ CaptureInv /\ PlansInv /\ RestoreInv
    BY DEF IInv, FilesFine
<1>2. ASSUME FilesFine', CaptureInv', PlansInv', RestoreInv' PROVE IInv'
    BY <1>2 DEF IInv, FilesFine
<1>3. CASE Native /\ UNCHANGED <<archiveVars, restoreVars, inventoryVars>>
  <2>1. FilesFine' /\ Drift
      BY <1>1, <1>3, NativeMoves
  <2> QED
      BY <1>1, <1>2, <1>3, <2>1, FilesMove, FilesMovePlans, FilesMoveRestores
<1>4. ASSUME UNCHANGED filesVars PROVE FilesFine' /\ Drift
    BY <1>1, <1>4, Still
<1>5. CASE ArchiveStep /\ UNCHANGED <<filesVars, restoreVars, inventoryVars>>
  <2>1. FilesFine' /\ Drift
      BY <1>4, <1>5
  <2> QED
      BY <1>1, <1>2, <1>5, <2>1, ArchiveSteps, FilesMovePlans, FilesMoveRestores
<1>6. CASE RestoreStep /\ UNCHANGED <<filesVars, job, inventoryVars>>
  <2>1. FilesFine' /\ Drift
      BY <1>4, <1>6
  <2>2. PICK c \in Clients : ClientStep(c)
      BY <1>6 DEF RestoreStep, ClientStep
  <2>3. RestoreInv' /\ archives' = archives
      BY <1>1, <1>6, <2>2, RestoreSteps
  <2>4. UNCHANGED archiveVars
      BY <1>6, <2>3 DEF archiveVars
  <2> QED
      BY <1>1, <1>2, <1>6, <2>1, <2>3, <2>4, FilesMove, FilesMovePlans
<1>7. CASE InventoryStep /\ UNCHANGED <<filesVars, archiveVars, restoreVars>>
  <2>1. FilesFine' /\ Drift
      BY <1>4, <1>7
  <2> QED
      BY <1>1, <1>2, <1>7, <2>1, FilesMove, InventorySteps, FilesMoveRestores
<1>8. CASE Others /\ UNCHANGED <<filesVars, job, inventoryVars>>
  <2>1. FilesFine' /\ Drift
      BY <1>4, <1>8
  <2>2. CaptureInv'
      BY <1>1, <1>8, OthersKeepArchives
  <2>3. RestoreInv'
      BY <1>1, <1>8, OthersKeepRestores
  <2> QED
      BY <1>1, <1>2, <1>8, <2>1, <2>2, <2>3, FilesMovePlans
<1>9. CASE UNCHANGED vars
  <2>1. UNCHANGED <<filesVars, archiveVars, restoreVars, inventoryVars>>
      BY <1>9 DEF vars
  <2>2. FilesFine' /\ Drift
      BY <1>4, <2>1
  <2> QED
      BY <1>1, <1>2, <2>1, <2>2, FilesMove, FilesMovePlans, FilesMoveRestores
<1> QED
    BY <1>3, <1>5, <1>6, <1>7, <1>8, <1>9 DEF Next, Ended

-----------------------------------------------------------------------------
(* What the invariant says of the restores.                                *)

LEMMA RestoredHolds == ASSUME RestoreInv PROVE RestoredIsArchived
<1>1. ASSUME NEW r \in Roots, brains[r].by \in Restorers
      PROVE  conv[MyConv(brains[r].by)].file.by = brains[r].by
  <2>1. PICK c \in Clients : c = brains[r].by
      BY <1>1 DEF Clients
  <2>2. PlacedInv(c, client[c])
      BY DEF RestoreInv, ClientInv
  <2>3. conv[client[c].roots.conv].file = [by |-> c, is |-> client[c].verified.parts.db]
      BY <2>1, <2>2 DEF PlacedInv
  <2> QED
      BY <2>1, <2>3 DEF MyConv
<1>2. ASSUME NEW c \in Restorers, Succeeded(c)
      PROVE  LET b == client[c].verified
             IN /\ Coherent(b.parts, Moments(1))
                /\ conv[MyConv(c)].file = [by |-> c, is |-> b.parts.db]
                /\ HasBrain(b) => brains[MyBrain(c)] = [by |-> c, is |-> b.parts.brain]
  <2>1. ClientInv(c, client[c])
      BY DEF RestoreInv, Clients
  <2>2. Full(client[c]) /\ client[c].valid
      BY <1>2, <2>1 DEF Succeeded, ClientInv, ProgressInv
  <2>3. Coherent(client[c].verified.parts, Moments(1))
      BY <2>1, <2>2 DEF ClientInv, BundleInv
  <2> QED
      BY <2>1, <2>2, <2>3 DEF ClientInv, PlacedInv, Full, MyConv, MyBrain
<1> QED
    BY <1>1, <1>2 DEF RestoredIsArchived

LEMMA PlacedIsPublished ==
    ASSUME RestoreInv, NEW c \in Clients
    PROVE  Placed(c) = client[c].published
<1>1. client[c] \in Client /\ PlacedInv(c, client[c])
    BY DEF RestoreInv, ClientInv, ProgressInv
<1>2. client[c].published \subseteq {"db", "brain"} /\ client[c].roots.conv \in Roots /\ client[c].roots.brain \in Roots
    BY <1>1 DEF Client
<1>3. (\E r \in Roots : conv[r].file.by = c) <=> "db" \in client[c].published
    BY <1>1, <1>2 DEF PlacedInv
<1>4. (\E r \in Roots : brains[r].by = c) <=> "brain" \in client[c].published
    BY <1>1, <1>2 DEF PlacedInv
<1> QED
    BY <1>2, <1>3, <1>4 DEF Placed

LEMMA ResultHolds == ASSUME RestoreInv PROVE ResultTellsPlaced
<1>1. ASSUME NEW e \in registry.events PROVE e.published = Placed(e.by)
  <2>1. PICK c \in Clients : c = e.by
      BY DEF RestoreInv, RestoreTypeOK
  <2>2. e = EventOf(c, client[c])
      BY <2>1 DEF RestoreInv, ClientInv, PlacedInv
  <2> QED
      BY <2>1, <2>2, PlacedIsPublished DEF EventOf
<1>2. ASSUME NEW c \in Restorers, client[c].pc = "ended"
      PROVE  /\ client[c].published = Placed(c)
             /\ Placed(c) # {} => \/ client[c].status \in {"restored", "partial_publish"} /\ Event(c) \in registry.events
                                  \/ client[c].status = "registry_failed" /\ client[c].files # "none"
  <2>1. c \in Clients /\ ProgressInv(c, client[c])
      BY DEF RestoreInv, ClientInv, Clients
  <2>2. Event(c) = EventOf(c, client[c])
      BY DEF Event, EventOf
  <2> QED
      BY <1>2, <2>1, <2>2, PlacedIsPublished DEF ProgressInv
<1> QED
    BY <1>1, <1>2 DEF ResultTellsPlaced

-----------------------------------------------------------------------------
(* The decision: when each list of blockers is empty.                      *)

LEMMA SourceClear ==
    ASSUME NEW in
    PROVE  SourceBlockers(in) = {} <=> in.verification = "verified_snapshot" /\ in.source # Absent
BY DEF SourceBlockers

LEMMA ActivityClear ==
    ASSUME NEW in
    PROVE  ActivityBlockers(in) = {} <=> Active(in) /\ ~After(in.activity.last, in.now)
BY DEF ActivityBlockers, Active

LEMMA LedgerClear ==
    ASSUME NEW in, in.ingest.state = "verified"
    PROVE  LedgerBlockers(in) = {} <=>
             /\ in.ingest.source = in.source /\ in.source # Absent
             /\ Valid(in.ingest.checkpoint) /\ ~After(in.ingest.checkpoint, in.now)
             /\ in.activity.last # Unknown /\ ~After(in.activity.last, in.ingest.checkpoint)
             /\ in.ingest.covered = in.activity.last
BY DEF LedgerBlockers

LEMMA RetentionClear ==
    ASSUME NEW in
    PROVE  RetentionBlockers(in) = {} <=>
             in.retention \notin {Absent, 0} /\ ~(Active(in) /\ in.now < in.activity.last + in.retention)
BY DEF RetentionBlockers

LEMMA StateIs ==
    ASSUME NEW n
    PROVE  State(n) = "verified_snapshot" <=>
             plan[n].entry.issue = "none" /\ plan[n].baseline.source \in {Absent, plan[n].entry.source}
BY DEF State

LEMMA EligibleHolds == EligibleOnlyWithEvidence
<1> SUFFICES ASSUME NEW n \in Planners, plan[n].pc = "decide",
                    NEW e \in Evidence, NEW about \in {plan[n].entry.source, Nothing}
             PROVE  LET ledger == [state |-> e.ingest.state, source |-> about,
                                   checkpoint |-> e.ingest.checkpoint, covered |-> e.ingest.covered]
                        in == [source |-> plan[n].entry.source, verification |-> State(n), activity |-> e.activity,
                               ingest |-> ledger, retention |-> e.retention, now |-> e.now]
                        last == e.activity.last
                    IN Evaluate(in).eligible <=>
                        /\ plan[n].entry.issue = "none" /\ plan[n].entry.source # Absent
                        /\ plan[n].baseline.source \in {Absent, plan[n].entry.source}
                        /\ e.ingest.state = "verified" /\ about = plan[n].entry.source
                        /\ e.activity.state = "known" /\ e.retention \notin {Absent, 0} /\ e.now > 0
                        /\ 0 < last /\ last = e.ingest.covered
                        /\ last <= e.ingest.checkpoint /\ e.ingest.checkpoint <= e.now
                        /\ last + e.retention <= e.now
    BY DEF EligibleOnlyWithEvidence
<1> DEFINE ledger == [state |-> e.ingest.state, source |-> about,
                      checkpoint |-> e.ingest.checkpoint, covered |-> e.ingest.covered]
           in == [source |-> plan[n].entry.source, verification |-> State(n), activity |-> e.activity,
                  ingest |-> ledger, retention |-> e.retention, now |-> e.now]
           last == e.activity.last
<1>1. /\ last \in Nat /\ e.ingest.checkpoint \in Nat /\ e.ingest.covered \in Nat /\ e.now \in Nat
      /\ e.retention \in Nat \cup {Absent}
    BY AgyDbAssumption
<1>2. /\ in.source = plan[n].entry.source /\ in.verification = State(n) /\ in.activity = e.activity
      /\ in.ingest.state = e.ingest.state /\ in.ingest.source = about /\ in.ingest.checkpoint = e.ingest.checkpoint
      /\ in.ingest.covered = e.ingest.covered /\ in.retention = e.retention /\ in.now = e.now
    OBVIOUS
<1> HIDE DEF in
<1>3. Evaluate(in).eligible <=>
        /\ Valid(in.now) /\ SourceBlockers(in) = {} /\ ActivityBlockers(in) = {} /\ LedgerBlockers(in) = {}
        /\ RetentionBlockers(in) = {} /\ in.verification = "verified_snapshot" /\ in.ingest.state = "verified"
    BY DEF Evaluate
<1>4. SourceBlockers(in) = {} /\ in.verification = "verified_snapshot" <=>
        /\ plan[n].entry.issue = "none" /\ plan[n].baseline.source \in {Absent, plan[n].entry.source}
        /\ plan[n].entry.source # Absent
    BY <1>2, SourceClear, StateIs
<1>5. Active(in) <=> e.activity.state = "known" /\ 0 < last
    BY <1>1, <1>2 DEF Active, Valid
<1>6. ActivityBlockers(in) = {} <=> Active(in) /\ last <= e.now
    BY <1>1, <1>2, ActivityClear DEF After
<1>7. ASSUME in.ingest.state = "verified"
      PROVE  LedgerBlockers(in) = {} <=>
               /\ about = plan[n].entry.source /\ plan[n].entry.source # Absent
               /\ 0 < e.ingest.checkpoint /\ e.ingest.checkpoint <= e.now
               /\ 0 < last /\ last <= e.ingest.checkpoint /\ e.ingest.covered = last
    BY <1>1, <1>2, <1>7, LedgerClear DEF Valid, After, Unknown
<1>8. ASSUME Active(in)
      PROVE  RetentionBlockers(in) = {} <=> e.retention \notin {Absent, 0} /\ last + e.retention <= e.now
    BY <1>1, <1>2, <1>8, RetentionClear
<1>9. Valid(in.now) <=> e.now > 0
    BY <1>2 DEF Valid
<1>10. Evaluate(in).eligible <=>
        /\ plan[n].entry.issue = "none" /\ plan[n].entry.source # Absent
        /\ plan[n].baseline.source \in {Absent, plan[n].entry.source}
        /\ e.ingest.state = "verified" /\ about = plan[n].entry.source
        /\ e.activity.state = "known" /\ e.retention \notin {Absent, 0} /\ e.now > 0
        /\ 0 < last /\ last = e.ingest.covered
        /\ last <= e.ingest.checkpoint /\ e.ingest.checkpoint <= e.now
        /\ last + e.retention <= e.now
    BY <1>1, <1>2, <1>3, <1>4, <1>5, <1>6, <1>7, <1>8, <1>9
<1> QED
    BY <1>10 DEF in

-----------------------------------------------------------------------------
(* What a step replaces. *)

Replacing ==
    /\ job' # job => \A p \in Paths : archives[p] # Absent => archives'[p] = archives[p]
    /\ client' # client => \A r \in Roots : /\ conv[r].file # Empty => conv'[r].file = conv[r].file
                                            /\ brains[r] # Empty => brains'[r] = brains[r]

LEMMA ArchiveReplaces ==
    ASSUME CaptureInv, ArchiveStep, NEW p \in Paths, archives[p] # Absent
    PROVE  archives'[p] = archives[p]
<1>1. PICK a \in Archivers :
        \/ \E path \in Paths : BeginArchive(a, path)
        \/ \E q \in Pages : CopyMain(a, q)
        \/ Observe(a) \/ CopyLog(a) \/ ObserveAgain(a) \/ Snapshot(a) \/ SnapshotFails(a)
        \/ ListBrain(a) \/ HashBrain(a) \/ CopyBrain(a) \/ ListAgain(a) \/ HashAgain(a) \/ BrainDone(a)
        \/ Publish(a) \/ Fail(a)
    BY DEF ArchiveStep
<1>2. CASE Publish(a)
  <2>1. archives \in [Paths -> Bundles \cup {Absent}]
      BY DEF CaptureInv, ArchiveInv
  <2>2. \/ archives' = archives
        \/ archives[job[a].path] = Absent /\ \E x : archives' = [archives EXCEPT ![job[a].path] = x]
      BY <1>2 DEF Publish, Stop, Go
  <2> QED
      BY <2>1, <2>2
<1>3. CASE ~Publish(a)
  <2>1. archives' = archives
      BY <1>1, <1>3 DEF BeginArchive, CopyMain, Observe, CopyLog, ObserveAgain, Snapshot, SnapshotFails, ListBrain,
                        HashBrain, CopyBrain, ListAgain, HashAgain, BrainDone, Fail, Blocked, Stop, Go
  <2> QED
      BY <2>1
<1> QED
    BY <1>2, <1>3

LEMMA RestoreReplaces ==
    ASSUME RestoreTypeOK, NEW c \in Clients, ClientStep(c), NEW r \in Roots
    PROVE  /\ conv[r].file # Empty => conv'[r].file = conv[r].file
           /\ brains[r] # Empty => brains'[r] = brains[r]
<1>1. CASE PublishDb(c)
  <2>1. brains' = brains
      BY <1>1 DEF PublishDb
  <2>2. DOMAIN conv = Roots
      BY DEF RestoreTypeOK
  <2>3. \/ conv' = conv
        \/ conv[MyConv(c)].file = Empty /\ \E x : conv' = [conv EXCEPT ![MyConv(c)] = x]
      BY <1>1 DEF PublishDb
  <2> QED
      BY <2>1, <2>2, <2>3
<1>2. CASE PublishBrain(c)
  <2>1. conv' = conv
      BY <1>2 DEF PublishBrain
  <2>2. DOMAIN brains = Roots
      BY DEF RestoreTypeOK
  <2>3. \/ brains' = brains
        \/ brains[MyBrain(c)] = Empty /\ \E x : brains' = [brains EXCEPT ![MyBrain(c)] = x]
      BY <1>2 DEF PublishBrain
  <2> QED
      BY <2>1, <2>2, <2>3
<1>3. CASE ~PublishDb(c) /\ ~PublishBrain(c)
  <2>1. conv' = conv /\ brains' = brains
      BY <1>3 DEF ClientStep, Begin, OpenRegistry, InitializeRegistry, Register, Mark, RegistryFails, VerifyArchive, OpenRoots,
                  CheckTargets, Reverify, StageDb, StageBrain, StageFails, CheckRootsBefore, CheckRootsBetween, CheckRootsAfter,
                  CheckRoots, Restored, VerifyDb, VerifyBrain, RecordRestoreEvent, Kill, Quiet
  <2> QED
      BY <2>1
<1> QED
    BY <1>1, <1>2, <1>3

LEMMA NextReplaces == IInv /\ [Next]_vars => Replacing
<1> SUFFICES ASSUME IInv, [Next]_vars PROVE Replacing
    OBVIOUS
<1>1. CaptureInv /\ RestoreTypeOK
    BY DEF IInv, RestoreInv
<1>2. CASE ArchiveStep /\ UNCHANGED <<filesVars, restoreVars, inventoryVars>>
  <2>1. client' = client
      BY <1>2 DEF restoreVars
  <2> QED
      BY <1>1, <1>2, <2>1, ArchiveReplaces DEF Replacing
<1>3. CASE RestoreStep /\ UNCHANGED <<filesVars, job, inventoryVars>>
  <2>1. PICK c \in Clients : ClientStep(c)
      BY <1>3 DEF RestoreStep, ClientStep
  <2> QED
      BY <1>1, <1>3, <2>1, RestoreReplaces DEF Replacing
<1>4. CASE Others /\ UNCHANGED <<filesVars, job, inventoryVars>>
  <2>1. client' = client
      BY <1>4 DEF Others, RemoveArchive, Damage, CopyArchive, CreateConversation, OpenConversation, CreateBrain, ReplaceRoot
  <2> QED
      BY <1>4, <2>1 DEF Replacing
<1>5. CASE UNCHANGED <<archiveVars, restoreVars>>
    BY <1>5 DEF archiveVars, restoreVars, Replacing
<1> QED
    BY <1>2, <1>3, <1>4, <1>5 DEF Next, Ended, vars

-----------------------------------------------------------------------------
(* The theorems.                                                           *)

\* The invariant holds of every behaviour, with any number of commands, pages,
\* brain files, paths and directories.
THEOREM AgyDbInvariant == Spec => []IInv
<1>1. Init => IInv
    BY InitIInv
<1>2. IInv /\ [Next]_vars => IInv'
    BY NextIInv
<1> QED
    BY <1>1, <1>2, PTL DEF Spec

\* Type correctness: the files of the native program, every command's record and
\* every archive are of the kind the code declares (archive.go:27-85,
\* inventory.go:24-53, restore.go:33-80), at every step of every command.
AgyDbTypeOK ==
    /\ FilesTypeOK
    /\ \A a \in Archivers : job[a] \in Job
    /\ \A n \in Planners : plan[n] \in Plan
    /\ \A c \in Clients : client[c] \in Client
    /\ archives \in [Paths -> Bundles \cup {Absent}]
    /\ RestoreTypeOK
THEOREM AgyDbTypeCorrect == Spec => []AgyDbTypeOK
<1>1. IInv => AgyDbTypeOK
    BY DEF IInv, AgyDbTypeOK, CaptureInv, ArchiveInv, JobInv, Shape, PlansInv, PlanInv, RestoreInv, ClientInv, ProgressInv
<1> QED
    BY <1>1, AgyDbInvariant, PTL

\* An archive holds what the native program had at one moment of each part since
\* the command began, although nothing is locked while it is copied
\* (archive.go:147-219 and 550-617).
THEOREM ArchivesAreMoments == Spec => []ArchivedIsMoment
<1>1. IInv => ArchivedIsMoment
    BY ArchivedHolds DEF IInv
<1> QED
    BY <1>1, AgyDbInvariant, PTL

\* A source that a plan calls verified was copied in a state some commit had left
\* (inventory.go:135-252).
THEOREM VerifiedAreCommitted == Spec => []VerifiedIsCommitted
<1>1. IInv => VerifiedIsCommitted
    BY VerifiedHolds DEF IInv
<1> QED
    BY <1>1, AgyDbInvariant, PTL

\* A restore that reports success has placed the whole bundle of one archive, in
\* the directories it had opened, and a brain only beside its database
\* (restore.go:136-253).
THEOREM RestoresAreArchives == Spec => []RestoredIsArchived
<1>1. IInv => RestoredIsArchived
    BY RestoredHolds DEF IInv
<1> QED
    BY <1>1, AgyDbInvariant, PTL

\* What a restore says it placed, in its result and in its event, is what lies
\* there under its name, however it ended (restore.go:88-108, registry.go:279-304).
THEOREM ResultsTellPlaced == Spec => []ResultTellsPlaced
<1>1. IInv => ResultTellsPlaced
    BY ResultHolds DEF IInv
<1> QED
    BY <1>1, AgyDbInvariant, PTL

\* Whatever evidence is given, the decision of a plan is eligible exactly when every
\* condition on snapshot, ledger, activity and retention is met (policy.go:115-214).
THEOREM EligibleNeedsEvidence == Spec => []EligibleOnlyWithEvidence
<1>1. EligibleOnlyWithEvidence
    BY EligibleHolds
<1> QED
    BY <1>1, PTL

\* No command replaces an archive, a database or a brain that is there (the renames
\* of archive.go:284 and restore.go:204 and 235).
THEOREM NothingIsReplaced == Spec => NothingReplaced
<1>1. IInv /\ [Next]_vars => [Replacing]_vars
    BY NextReplaces
<1> QED
    BY <1>1, AgyDbInvariant, PTL DEF Spec, NothingReplaced, Replacing
=============================================================================
