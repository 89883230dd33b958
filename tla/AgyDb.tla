-------------------------------- MODULE AgyDb --------------------------------
(***************************************************************************)
(* The commands of agy-db together: conversations are archived and planned *)
(* for while the native program writes them, and archives are restored and *)
(* verified while others reach for the same files.                         *)
(***************************************************************************)
EXTENDS Restore, Inventory

CONSTANTS Scenarios,  \* who is there, and what each of them may do
          Evidence    \* what may be known of a source besides its snapshot

ASSUME AgyDbAssumption ==
    /\ \A s \in Scenarios : /\ s.modes \in [Databases -> {"wal", "journal"}]
                            /\ s.quota \in [Databases \cup {"brain"} -> Nat]
                            /\ s.brain \in [BrainFiles -> {0, Absent}]
    /\ \A e \in Evidence : /\ {e.activity.last, e.ingest.checkpoint, e.ingest.covered, e.now} \subseteq Nat
                           /\ e.retention \in Nat \cup {Absent}

vars == <<filesVars, archiveVars, restoreVars, inventoryVars>>

First(s) ==
    LET files == {f \in BrainFiles : s.brain[f] # Absent}
    IN [id |-> "first", damage |-> "none",
        parts |-> [db |-> Committed(Fresh("wal")), summary |-> Absent,
                   brain |-> IF files = {} THEN Absent ELSE [f \in files |-> s.brain[f]]]]
Off(progress, who) == [x \in DOMAIN progress |-> IF x \in who THEN progress[x] ELSE [progress[x] EXCEPT !.pc = "ended"]]
Init == \E s \in Scenarios :
            /\ FilesInit(s.modes, s.quota, s.brain)
            /\ ArchiveInit([p \in Paths |-> IF p \in s.paths THEN First(s) ELSE Absent],
                           Off([a \in Archivers |-> Idle], s.who))
            /\ \E version \in s.versions : RestoreInit(version, s.disturb, Off([c \in Clients |-> Waiting], s.who))
            /\ InventoryInit(s.inputs, Off([n \in Planners |-> Ready], s.who))

Over == {"ended", "killed"}
Ended == /\ \A a \in Archivers : job[a].pc \in Over
         /\ \A c \in Clients : client[c].pc \in Over
         /\ \A n \in Planners : plan[n].pc \in Over
         /\ UNCHANGED vars
Next == \/ Native /\ UNCHANGED <<archiveVars, restoreVars, inventoryVars>>
        \/ ArchiveStep /\ UNCHANGED <<filesVars, restoreVars, inventoryVars>>
        \/ RestoreStep /\ UNCHANGED <<filesVars, job, inventoryVars>>
        \/ InventoryStep /\ UNCHANGED <<filesVars, archiveVars, restoreVars>>
        \/ Others /\ UNCHANGED <<filesVars, job, inventoryVars>>
        \/ Ended
Spec == Init /\ [][Next]_vars

-----------------------------------------------------------------------------
Moments(from) == {history[i] : i \in from .. Len(history)}

(* Every part of a published archive is what the native program had at one *)
(* moment since the command began: the database is a state some commit     *)
(* left, no half of one (archive.go:147-219), the summary is the row of    *)
(* such a state, and the files of the brain were there together, none that *)
(* was there all along being left out (archive.go:550-617).                *)
Coherent(parts, moments) ==
    /\ \E m \in moments : m.conversation = parts.db
    /\ \E m \in moments : parts.summary = Row(m.summaries)
    /\ LET kept == IF parts.brain = Absent THEN NoLog ELSE parts.brain
       IN /\ \E m \in moments : \A f \in DOMAIN kept : m.brain[f] = kept[f]
          /\ \A f \in BrainFiles \ DOMAIN kept : \E m \in moments : m.brain[f] = Absent
ArchivedIsMoment ==
    \A a \in Archivers, p \in Paths :
        archives[p] # Absent /\ archives[p].id = a => Coherent(archives[p].parts, Moments(job[a].since))

(* No command replaces an archive, a database or a brain that is there,    *)
(* whoever put it there and however late (archive.go:284, restore.go:204   *)
(* and 235).                                                               *)
NothingReplaced ==
    [][/\ job' # job => \A p \in Paths : archives[p] # Absent => archives'[p] = archives[p]
       /\ client' # client => \A r \in Roots : /\ conv[r].file # Empty => conv'[r].file = conv[r].file
                                               /\ brains[r] # Empty => brains'[r] = brains[r]]_vars

(* A source that a plan calls verified was copied in a state some commit   *)
(* had left, although it is read without a lock (inventory.go:176-252).    *)
VerifiedIsCommitted ==
    \A n \in Planners : plan[n].pc = "ended" /\ plan[n].decision # Absent /\ State(n) = "verified_snapshot"
        => \E m \in Moments(plan[n].since) : plan[n].entry.source = m.conversation

(* A restore that reports success has placed the whole bundle of one       *)
(* archive, all of it taken at moments of the source, in the directories   *)
(* it had opened; and however a restore ends, a brain it has placed lies   *)
(* beside the database it placed before (restore.go:197-253).              *)
Succeeded(c) == "restored" \in {client[c].status, client[c].files} /\ client[c].pc = "ended"
RestoredIsArchived ==
    /\ \A r \in Roots : brains[r].by \in Restorers => conv[MyConv(brains[r].by)].file.by = brains[r].by
    /\ \A c \in Restorers : Succeeded(c) =>
        LET b == client[c].verified
        IN /\ Coherent(b.parts, Moments(1))
           /\ conv[MyConv(c)].file = [by |-> c, is |-> b.parts.db]
           /\ HasBrain(b) => brains[MyBrain(c)] = [by |-> c, is |-> b.parts.brain]

(* What a restore says it placed is what it placed, in its result and in   *)
(* the event it recorded, even one that was killed later; and a result     *)
(* without an event is "registry_failed" (restore.go:88-108).              *)
Placed(c) == (IF \E r \in Roots : conv[r].file.by = c THEN {"db"} ELSE {})
             \cup (IF \E r \in Roots : brains[r].by = c THEN {"brain"} ELSE {})
ResultTellsPlaced ==
    /\ \A e \in registry.events : e.published = Placed(e.by)
    /\ \A c \in Restorers : client[c].pc = "ended" =>
          /\ client[c].published = Placed(c)
          /\ Placed(c) # {} => \/ client[c].status \in {"restored", "partial_publish"} /\ Event(c) \in registry.events
                               \/ client[c].status = "registry_failed" /\ client[c].files # "none"

(* Whatever evidence there is of a source that has been looked at, it is   *)
(* eligible for removal only if the snapshot was verified, a ledger about   *)
(* this very content covers it up to its last activity, and the retention   *)
(* has passed since (policy.go:115-214).                                   *)
EligibleOnlyWithEvidence ==
    \A n \in Planners : plan[n].pc = "decide" => \A e \in Evidence, about \in {plan[n].entry.source, Nothing} :
        LET ledger == [state |-> e.ingest.state, source |-> about,
                       checkpoint |-> e.ingest.checkpoint, covered |-> e.ingest.covered]
            in == [source |-> plan[n].entry.source, verification |-> State(n), activity |-> e.activity,
                   ingest |-> ledger, retention |-> e.retention, now |-> e.now]
            last == e.activity.last
        IN Evaluate(in).eligible <=>
            /\ plan[n].entry.issue = "none" /\ plan[n].entry.source # Absent
            /\ plan[n].baseline.source \in {Absent, plan[n].entry.source}
            /\ e.ingest.state = "verified" /\ about = plan[n].entry.source
            /\ e.activity.state = "known" /\ e.retention \notin {Absent, 0} /\ e.now > 0
            /\ 0 < last /\ last = e.ingest.covered
            /\ last <= e.ingest.checkpoint /\ e.ingest.checkpoint <= e.now
            /\ last + e.retention <= e.now
=============================================================================
