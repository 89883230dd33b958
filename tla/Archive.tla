------------------------------- MODULE Archive -------------------------------
(***************************************************************************)
(* agy-db archive.  Conversation, brain and summary are captured one after *)
(* the other while the native program may be writing them: each is looked  *)
(* at, copied and looked at again, and a capture that anything changed     *)
(* under is given up.  The parts are staged in a private directory, which  *)
(* a rename that replaces nothing makes the archive.                       *)
(***************************************************************************)
EXTENDS ConversationFiles

CONSTANTS Archivers, Paths, Nothing

ASSUME ArchiveAssumption == "first" \notin Archivers

VARIABLES archives,   \* what is at each path: Absent, or an archive
          job         \* the progress of each archive command

archiveVars == <<archives, job>>

None == [db |-> Nothing, brain |-> Absent, summary |-> Absent]
Idle == [pc |-> "idle", path |-> Nothing, since |-> 0, part |-> "conversation",
         before |-> <<>>, after |-> 0, copy |-> NoLog, log |-> NoLog,
         list |-> {}, seen |-> NoLog, copied |-> {}, again |-> {}, parts |-> None, state |-> "none"]
ArchiveInit(some, jobs) == archives = some /\ job = jobs

Go(a, next) == job' = [job EXCEPT ![a] = next] /\ UNCHANGED archives
\* Every error removes the staging directory and what was captured.
Stop(a, state) == Go(a, [Idle EXCEPT !.pc = "ended", !.path = job[a].path, !.since = job[a].since, !.state = state])
\* Only the main capture and the brain say what stopped them.
Blocked(a, state) == Stop(a, IF job[a].part = "summaries" THEN "blocked_snapshot_failed" ELSE state)

BeginArchive(a, path) ==
    /\ job[a].pc = "idle"
    /\ LET begun == [job[a] EXCEPT !.path = path, !.since = Len(history)]
       IN IF archives[path] # Absent \/ ~db["conversation"].linked
          THEN Go(a, [begun EXCEPT !.pc = "ended", !.state = "blocked_snapshot_failed"])
          ELSE Go(a, [begun EXCEPT !.pc = "capture"])

-----------------------------------------------------------------------------
(* The capture of a database. *)

Watched == <<"main", "wal", "shm", "journal">>
Look(d, file) == CASE file = "main" -> <<d.linked, d.stamp, d.main>>
                   [] file = "wal" -> d.wal
                   [] file = "shm" -> d.shm
                   [] file = "journal" -> d.journal
\* Mutant: only that the file is there, or is not.
SamePresence(x, y) == (x = Absent) = (y = Absent)

SameObserved(x, y) == x = y

Observe(a) ==
    LET j == job[a]
        file == Watched[Len(j.before) + 1]
        sight == Look(db[j.part], file)
    IN /\ j.pc = "capture" /\ Len(j.before) < Len(Watched)
       /\ CASE file = "main" /\ ~db[j.part].linked -> Blocked(a, "blocked_source_changed")
            [] file = "journal" /\ sight # Absent -> Blocked(a, "blocked_active_unstable")
            [] OTHER -> Go(a, [j EXCEPT !.before = Append(@, sight)])

CopyMain(a, p) ==
    LET j == job[a]
    IN /\ j.pc = "capture" /\ Len(j.before) = Len(Watched)
       /\ p \notin DOMAIN j.copy /\ \A q \in Pages : q < p => q \in DOMAIN j.copy
       /\ Go(a, [j EXCEPT !.copy = [q \in DOMAIN @ \cup {p} |-> IF q = p THEN db[j.part].main[p] ELSE @[q]]])

CopyLog(a) ==
    LET j == job[a]
    IN /\ j.pc = "capture" /\ DOMAIN j.copy = Pages
       /\ IF j.before[2] # Absent /\ db[j.part].wal = Absent
          THEN Blocked(a, "blocked_source_changed")
          ELSE Go(a, [j EXCEPT !.pc = "recheck", !.log = IF j.before[2] = Absent THEN NoLog ELSE Frames(db[j.part])])

ObserveAgain(a) ==
    LET j == job[a]
        file == Watched[j.after + 1]
        sight == Look(db[j.part], file)
    IN /\ j.pc = "recheck" /\ j.after < Len(Watched)
       /\ IF (file = "journal" /\ sight # Absent) \/ ~SameObserved(j.before[j.after + 1], sight)
          THEN Blocked(a, "blocked_source_changed")
          ELSE Go(a, [j EXCEPT !.after = @ + 1])

(* SQLite recovers the copied log into the copied file and writes one      *)
(* database without a log; of the summaries only the row of this           *)
(* conversation is kept.                                                   *)
Row(pages) == IF pages[1] = 0 THEN Absent ELSE pages[1]
Recovered(j) == Overlay(j.copy, j.log)
Snapshot(a) ==
    LET j == job[a]
        next == [Idle EXCEPT !.path = j.path, !.since = j.since, !.parts = j.parts]
    IN /\ j.pc = "recheck" /\ j.after = Len(Watched)
       /\ IF j.part = "conversation"
          THEN Go(a, [next EXCEPT !.pc = "list", !.part = "brain", !.parts.db = Recovered(j)])
          ELSE Go(a, [next EXCEPT !.pc = "publish", !.part = "published", !.parts.summary = Row(Recovered(j))])
SnapshotFails(a) == /\ job[a].pc = "recheck" /\ job[a].after = Len(Watched)
                    /\ Blocked(a, "blocked_active_unstable")

-----------------------------------------------------------------------------
(* The brain: every file is hashed, copied and hashed, in the order of its *)
(* names, and the directory is listed before and after.  Without files     *)
(* there may be a directory or none; an empty one is archived as empty, and *)
(* may be gone when it is listed again.                                    *)

Least(files) == CHOOSE f \in files : \A g \in files : f <= g
Summaries(j) == [Idle EXCEPT !.pc = "capture", !.part = "summaries", !.path = j.path, !.since = j.since, !.parts = j.parts]
ListBrain(a) ==
    LET j == job[a]
    IN /\ j.pc = "list"
       /\ \/ Go(a, [j EXCEPT !.pc = "hash", !.list = Present])
          \/ Present = {} /\ Go(a, Summaries(j))
HashBrain(a) ==
    LET j == job[a]
        f == Least(j.list \ DOMAIN j.seen)
    IN /\ j.pc = "hash" /\ j.list # DOMAIN j.seen
       /\ IF brain[f] = Absent
          THEN Stop(a, "blocked_snapshot_failed")
          ELSE Go(a, [j EXCEPT !.seen = [g \in DOMAIN @ \cup {f} |-> IF g = f THEN brain[f] ELSE @[g]]])
CopyBrain(a) ==
    LET j == job[a]
        f == Least(j.list \ j.copied)
    IN /\ j.pc = "hash" /\ j.list = DOMAIN j.seen /\ j.copied # j.list
       /\ IF brain[f] # j.seen[f]
          THEN Stop(a, "blocked_source_changed")
          ELSE Go(a, [j EXCEPT !.copied = @ \cup {f}])
ListAgain(a) ==
    LET j == job[a]
    IN /\ j.pc = "hash" /\ j.copied = j.list /\ j.list = DOMAIN j.seen
       /\ \/ Present = j.list /\ Go(a, [j EXCEPT !.pc = "rehash"])
          \/ (Present # j.list \/ Present = {}) /\ Stop(a, "blocked_source_changed")
HashAgain(a) ==
    LET j == job[a]
        f == Least(j.list \ j.again)
    IN /\ j.pc = "rehash" /\ j.again # j.list
       /\ IF brain[f] # j.seen[f]
          THEN Stop(a, "blocked_source_changed")
          ELSE Go(a, [j EXCEPT !.again = @ \cup {f}])
BrainDone(a) ==
    LET j == job[a]
    IN /\ j.pc = "rehash" /\ j.again = j.list
       /\ Go(a, Summaries([j EXCEPT !.parts.brain = j.seen]))

-----------------------------------------------------------------------------
\* What the manifest lists is what was staged.  Identifiers are random.
Bundle(a) == [id |-> a, parts |-> job[a].parts, damage |-> "none"]
Publish(a) ==
    LET j == job[a]
    IN /\ j.pc = "publish"
       /\ IF archives[j.path] # Absent
          THEN Stop(a, "blocked_snapshot_failed")
          ELSE /\ archives' = [archives EXCEPT ![j.path] = Bundle(a)]
               /\ job' = [job EXCEPT ![a].pc = "ended", ![a].state = "archived_consistent_snapshot"]

\* Copying, hashing, inspecting and writing the stage may fail; the process
\* may be killed, and then its stage stays.
Fail(a) == job[a].pc \notin {"idle", "ended"} /\ Stop(a, "blocked_snapshot_failed")

ArchiveStep == \E a \in Archivers :
                  \/ \E path \in Paths : BeginArchive(a, path)
                  \/ \E p \in Pages : CopyMain(a, p)
                  \/ Observe(a) \/ CopyLog(a) \/ ObserveAgain(a) \/ Snapshot(a) \/ SnapshotFails(a)
                  \/ ListBrain(a) \/ HashBrain(a) \/ CopyBrain(a) \/ ListAgain(a) \/ HashAgain(a) \/ BrainDone(a)
                  \/ Publish(a) \/ Fail(a)
=============================================================================
