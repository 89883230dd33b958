-------------------------- MODULE ConversationFiles --------------------------
(***************************************************************************)
(* What agy-db reads and never writes: the database of a conversation, the *)
(* database of summaries, and the brain directory, as the native program   *)
(* changes them.  A database is a main file of Pages with either a         *)
(* write-ahead log or a rollback journal beside it.                        *)
(***************************************************************************)
EXTENDS Naturals, Sequences, FiniteSets

CONSTANTS Pages,        \* the pages of a database, the first of which is 1
          BrainFiles,   \* the files a brain directory may hold, numbers
          Absent

ASSUME FilesAssumption ==
    /\ 1 \in Pages /\ Pages \subseteq Nat
    /\ BrainFiles \subseteq Nat
    /\ Absent \notin Nat /\ \A files \in SUBSET BrainFiles : Absent \notin [files -> Nat]

Databases == {"conversation", "summaries"}

VARIABLES db,        \* the two databases
          brain,     \* the version of each brain file, or Absent
          writes,    \* the number of writes so far, which versions what they write
          limit,     \* the writes each part may see
          history    \* the states the three parts have been in together

filesVars == <<db, brain, writes, limit, history>>

Overlay(pages, log) == [p \in Pages |-> IF p \in DOMAIN log THEN log[p] ELSE pages[p]]
NoLog == [p \in {} |-> 0]
Frames(d) == IF d.wal = Absent THEN NoLog ELSE d.wal.pages

(***************************************************************************)
(* What SQLite reads: the main file under the log, or, while a rollback    *)
(* journal exists, the pages it saved.                                     *)
(***************************************************************************)
Committed(d) == IF d.journal # Absent THEN d.journal ELSE Overlay(d.main, Frames(d))
Present == {f \in BrainFiles : brain[f] # Absent}
Moment(dbs, files) == [conversation |-> Committed(dbs["conversation"]),
                       summaries |-> Committed(dbs["summaries"]),
                       brain |-> files]
Record == history' = IF Moment(db', brain') = history[Len(history)] THEN history
                     ELSE Append(history, Moment(db', brain'))

Fresh(mode) == [mode |-> mode, linked |-> TRUE, main |-> [p \in Pages |-> 0], stamp |-> 0,
                wal |-> Absent, shm |-> 0, journal |-> Absent]

FilesInit(modes, quota, files) ==
    /\ db = [s \in Databases |-> Fresh(modes[s])]
    /\ brain = files
    /\ writes = 0
    /\ limit = quota
    /\ history = <<Moment(db, brain)>>

MayWrite(part) == limit[part] > 0
Spend(part) == writes' = writes + 1 /\ limit' = [limit EXCEPT ![part] = @ - 1]
Change(s, d) == db' = [db EXCEPT ![s] = d] /\ UNCHANGED brain

-----------------------------------------------------------------------------
(* With a write-ahead log: a commit appends to the log or, when all of it *)
(* is in the main file, starts it anew; a checkpoint copies page by page; *)
(* the last connection removes the log.                                   *)

Backfilled(d) == \A p \in DOMAIN Frames(d) : d.main[p] = d.wal.pages[p]
Commit(s, p) ==
    LET d == db[s]
        frame == [q \in {p} |-> writes + 1]
    IN /\ d.linked /\ d.mode = "wal" /\ MayWrite(s)
       /\ \E old \in {Frames(d)} \cup (IF Backfilled(d) THEN {NoLog} ELSE {}) :
             Change(s, [d EXCEPT !.shm = writes + 1,
                                 !.wal = [stamp |-> writes + 1,
                                          pages |-> [q \in DOMAIN old \cup {p} |-> IF q = p THEN frame[p] ELSE old[q]]]])
       /\ Spend(s)
       /\ Record
Checkpoint(s, p) ==
    LET d == db[s]
    IN /\ d.wal # Absent /\ p \in DOMAIN Frames(d) /\ d.main[p] # d.wal.pages[p]
       /\ Change(s, [d EXCEPT !.main[p] = d.wal.pages[p], !.stamp = @ + 1])
       /\ UNCHANGED <<writes, limit>>
       /\ Record
LastClose(s) ==
    LET d == db[s]
    IN /\ d.wal # Absent /\ Backfilled(d)
       /\ Change(s, [d EXCEPT !.wal = Absent, !.shm = 0])
       /\ UNCHANGED <<writes, limit>>
       /\ Record

(* With a rollback journal: pages are saved, then written, and the journal *)
(* is removed by the commit, or after the saved pages were put back.       *)
SavePages(s) ==
    LET d == db[s]
    IN /\ d.linked /\ d.mode = "journal" /\ d.journal = Absent /\ MayWrite(s)
       /\ Change(s, [d EXCEPT !.journal = d.main])
       /\ UNCHANGED <<writes, limit>>
       /\ Record
WritePage(s, p) ==
    LET d == db[s]
    IN /\ d.journal # Absent /\ MayWrite(s)
       /\ Change(s, [d EXCEPT !.main[p] = writes + 1, !.stamp = @ + 1])
       /\ Spend(s)
       /\ Record
RollBack(s) ==
    LET d == db[s]
    IN /\ d.journal # Absent /\ d.main # d.journal
       /\ Change(s, [d EXCEPT !.main = d.journal, !.stamp = @ + 1])
       /\ UNCHANGED <<writes, limit>>
       /\ Record
EndTransaction(s) ==
    LET d == db[s]
    IN /\ d.journal # Absent
       /\ Change(s, [d EXCEPT !.journal = Absent])
       /\ UNCHANGED <<writes, limit>>
       /\ Record

\* The conversation is deleted: who has the main file open still reads it.
Unlink(s) ==
    LET d == db[s]
    IN /\ d.linked /\ d.wal = Absent /\ d.journal = Absent /\ MayWrite(s)
       /\ Change(s, [d EXCEPT !.linked = FALSE])
       /\ Spend(s)
       /\ Record

WriteBrain(f) == /\ MayWrite("brain")
                 /\ brain' = [brain EXCEPT ![f] = writes + 1]
                 /\ Spend("brain")
                 /\ UNCHANGED db
                 /\ Record
RemoveBrain(f) == /\ MayWrite("brain") /\ brain[f] # Absent
                  /\ brain' = [brain EXCEPT ![f] = Absent]
                  /\ Spend("brain")
                  /\ UNCHANGED db
                  /\ Record

Native == \/ \E s \in Databases :
                \/ \E p \in Pages : Commit(s, p) \/ Checkpoint(s, p) \/ WritePage(s, p)
                \/ LastClose(s) \/ SavePages(s) \/ RollBack(s) \/ EndTransaction(s) \/ Unlink(s)
          \/ \E f \in BrainFiles : WriteBrain(f) \/ RemoveBrain(f)
=============================================================================
