------------------------------ MODULE Inventory ------------------------------
(***************************************************************************)
(* agy-db scan, inspect and plan.  A database is copied and read only while *)
(* nothing lies beside it, once for the baseline and once more for the     *)
(* plan; what the ledger of agy-tokei says of it, when it was last active  *)
(* and how long it must be kept decide whether it could be removed.        *)
(***************************************************************************)
EXTENDS ConversationFiles

CONSTANTS Planners

VARIABLES plan,       \* the progress of each plan
          inputs      \* the ledger row and retention each plan was given

inventoryVars == <<plan, inputs>>

-----------------------------------------------------------------------------
(* The decision.  Times are numbers; zero is the zero time, or none. *)

Unknown == 0
Valid(t) == t > 0
After(x, y) == x > y

\* Claims about one fact: all the same, or ambiguous.
ResolveActivity(claims, authoritative) ==
    CASE ~authoritative \/ claims = {} \/ \E t \in claims : ~Valid(t) -> [state |-> "unknown", last |-> Unknown]
      [] OTHER -> IF Cardinality(claims) = 1
                  THEN [state |-> "known", last |-> CHOOSE t \in claims : TRUE]
                  ELSE [state |-> "ambiguous", last |-> Unknown]

Active(in) == /\ in.activity.state = "known"
              /\ Valid(in.activity.last)
SourceBlockers(in) ==
    CASE in.verification = "verified_snapshot" -> IF in.source # Absent THEN {} ELSE {"verification_failed"}
      [] in.verification = "changed" -> {"source_changed"}
      [] in.verification = "unsupported_schema" -> {"unsupported_schema"}
      [] OTHER -> {"verification_failed"}
ActivityBlockers(in) ==
    CASE in.activity.state = "ambiguous" -> {"activity_ambiguous"}
      [] ~Active(in) -> {"activity_unknown"}
      [] OTHER -> IF After(in.activity.last, in.now) THEN {"activity_after_evaluation"} ELSE {}
\* Mutant: a checkpoint before the last activity is accepted.
AnyCheckpoint(in) ==
    LET g == in.ingest
        last == in.activity.last
    IN CASE g.state = "verified" ->
              IF g.source # in.source \/ g.source = Absent THEN {"source_changed"}
              ELSE IF ~Valid(g.checkpoint) \/ After(g.checkpoint, in.now) \/ last = Unknown THEN {"stale_ingest_checkpoint"}
              ELSE IF g.covered # last THEN {"incomplete_ingest_evidence"} ELSE {}
         [] OTHER -> {"incomplete_ingest_evidence"}

\* The activity of the ledger must be the last one, and its checkpoint later.
LedgerBlockers(in) ==
    LET g == in.ingest
        last == in.activity.last
    IN CASE g.state = "verified" ->
              IF g.source # in.source \/ g.source = Absent THEN {"source_changed"}
              ELSE IF ~Valid(g.checkpoint) \/ After(g.checkpoint, in.now) \/ last = Unknown \/ After(last, g.checkpoint)
                   THEN {"stale_ingest_checkpoint"}
              ELSE IF g.covered # last THEN {"incomplete_ingest_evidence"} ELSE {}
         [] g.state = "missing" -> {"missing_ingest_evidence"}
         [] g.state = "partial" -> {"partial_ingest"}
         [] g.state = "source_mismatch" -> {"source_changed"}
         [] g.state = "stale_checkpoint" -> {"stale_ingest_checkpoint"}
         [] g.state = "unsupported_evidence" -> {"unsupported_ingest_evidence"}
         [] OTHER -> {"incomplete_ingest_evidence"}
RetentionBlockers(in) ==
    CASE in.retention = Absent -> {"retention_unset"}
      [] in.retention = 0 -> {"retention_invalid"}
      [] OTHER -> IF Active(in) /\ in.now < in.activity.last + in.retention THEN {"retention_not_reached"} ELSE {}
Evaluate(in) ==
    LET blockers == (IF Valid(in.now) THEN {} ELSE {"evaluation_time_invalid"})
                    \cup SourceBlockers(in) \cup ActivityBlockers(in) \cup LedgerBlockers(in) \cup RetentionBlockers(in)
    IN [blockers |-> blockers,
        eligible |-> blockers = {} /\ in.verification = "verified_snapshot" /\ in.ingest.state = "verified"]

\* What the ledger's row about a source is worth: never that it is verified.
Assess(row, entry, now) ==
    LET gap(state, source) == [state |-> state, source |-> source, checkpoint |-> row.checkpoint, covered |-> Unknown]
    IN CASE row = Absent -> [state |-> "missing", source |-> Absent, checkpoint |-> Unknown, covered |-> Unknown]
         [] row.digest # Absent /\ row.digest # entry.source -> gap("source_mismatch", row.digest)
         [] row.stamp # entry.stamp -> gap("source_mismatch", row.digest)
         [] ~row.complete -> gap("partial", row.digest)
         [] ~Valid(row.checkpoint) \/ After(row.checkpoint, now) \/ After(entry.stamp, row.checkpoint) ->
              gap("stale_checkpoint", row.digest)
         [] OTHER -> gap(IF row.supported THEN "incomplete_evidence" ELSE "unsupported_evidence", row.digest)

-----------------------------------------------------------------------------
(* The snapshot of a database, by a scan and then by the plan. *)

NoEntry == [source |-> Absent, stamp |-> Unknown, issue |-> "none"]
Ready == [pc |-> "begin", since |-> 0, round |-> 1, stat |-> Absent, copy |-> NoLog,
          baseline |-> NoEntry, entry |-> NoEntry, decision |-> Absent]
InventoryInit(choices, some) == plan = some /\ inputs \in [Planners -> choices]

Advance(n, next) == plan' = [plan EXCEPT ![n] = next] /\ UNCHANGED inputs
\* Mutant: a log may lie beside the file.
NoJournal(d) == d.journal = Absent

Alone(d) == d.wal = Absent /\ d.journal = Absent
Stat(d) == <<d.linked, d.stamp>>
Inspected(n, entry) ==
    LET j == plan[n]
    IN Advance(n, IF j.round = 1
               THEN [Ready EXCEPT !.since = j.since, !.round = 2, !.baseline = entry]
               ELSE [Ready EXCEPT !.pc = "decide", !.since = j.since, !.round = 2, !.baseline = j.baseline, !.entry = entry])
Issue(n, issue) ==
    LET j == plan[n]
    IN Inspected(n, [issue |-> issue,
                     stamp |-> IF j.stat = Absent THEN Unknown ELSE j.stat[2],
                     source |-> IF j.pc \in {"inspect", "finally"} THEN j.copy ELSE Absent])

Look1(n) ==
    LET d == db["conversation"]
    IN /\ plan[n].pc = "begin"
       /\ IF d.linked THEN Advance(n, [plan[n] EXCEPT !.pc = "alone", !.stat = Stat(d),
                                                   !.since = IF @ = 0 THEN Len(history) ELSE @])
                      ELSE Issue(n, "source_missing")
NothingBeside(n) ==
    LET after == [alone |-> "open", again |-> "inspect", finally |-> "done"]
    IN /\ plan[n].pc \in DOMAIN after
       /\ IF ~Alone(db["conversation"]) THEN Issue(n, "sidecar_present")
          ELSE IF plan[n].pc # "finally" THEN Advance(n, [plan[n] EXCEPT !.pc = after[@]])
          ELSE Inspected(n, [source |-> plan[n].copy, stamp |-> plan[n].stat[2], issue |-> "none"])
Same(n, pc) ==
    IF Stat(db["conversation"]) = plan[n].stat THEN Advance(n, [plan[n] EXCEPT !.pc = pc]) ELSE Issue(n, "source_changed")
OpenSource(n) == plan[n].pc = "open" /\ Same(n, "copy")
CopySource(n, p) ==
    LET j == plan[n]
    IN /\ j.pc = "copy" /\ p \notin DOMAIN j.copy /\ \A q \in Pages : q < p => q \in DOMAIN j.copy
       /\ Advance(n, [j EXCEPT !.copy = [q \in DOMAIN @ \cup {p} |-> IF q = p THEN db["conversation"].main[p] ELSE @[q]]])
HashSource(n) == /\ plan[n].pc = "copy" /\ DOMAIN plan[n].copy = Pages
                 /\ IF db["conversation"].main = plan[n].copy THEN Same(n, "again") ELSE Issue(n, "source_changed")
InspectCopy(n) == plan[n].pc = "inspect" /\ Same(n, "finally")
\* Making the copy, reading it or removing it may fail, or its schema be another.
InspectFails(n) == \/ plan[n].pc \in {"copy", "again", "inspect"} /\ Issue(n, "snapshot_failed")
                   \/ plan[n].pc = "inspect" /\ Issue(n, "unsupported_schema")

State(n) ==
    LET j == plan[n]
    IN CASE j.entry.issue = "source_changed" -> "changed"
         [] j.baseline.source # Absent /\ j.entry.source # j.baseline.source -> "changed"
         [] j.entry.issue = "unsupported_schema" -> "unsupported_schema"
         [] j.entry.issue # "none" -> "verification_failed"
         [] OTHER -> "verified_snapshot"
Decide(n) ==
    LET j == plan[n]
        given == inputs[n]
    IN /\ j.pc = "decide"
       /\ Advance(n, [j EXCEPT !.pc = "ended",
             !.decision = Evaluate([source |-> j.entry.source, verification |-> State(n),
                                    activity |-> ResolveActivity({}, FALSE),
                                    ingest |-> Assess(given.row, j.entry, given.now),
                                    retention |-> given.retention, now |-> given.now])])

InventoryStep == \E n \in Planners :
                    \/ Look1(n) \/ NothingBeside(n) \/ OpenSource(n) \/ HashSource(n) \/ InspectCopy(n)
                    \/ InspectFails(n) \/ Decide(n)
                    \/ \E p \in Pages : CopySource(n, p)
=============================================================================
