------------------------------ MODULE MCAgyDb ------------------------------
(***************************************************************************)
(* One command at a time meets what it may race with: the native program   *)
(* in each journal mode, another command, or someone else at its files.    *)
(***************************************************************************)
EXTENDS AgyDb

Modes(m) == [s \in Databases |-> m]
Quota(c, s, b) == [conversation |-> c, summaries |-> s, brain |-> b]
Some == [f \in BrainFiles |-> 0]
NoBrain == [f \in BrainFiles |-> Absent]
One == [f \in BrainFiles |-> IF f = 1 THEN 0 ELSE Absent]
NoRow == [row |-> Absent, retention |-> Absent, now |-> 9]
Rows == {[row |-> [digest |-> d, stamp |-> t, complete |-> c, checkpoint |-> k, supported |-> TRUE], retention |-> 5, now |-> 9] :
            d \in {Absent, [p \in Pages |-> 0], [p \in Pages |-> 9]}, t \in {0, 7}, c \in BOOLEAN, k \in {0, 8, 10}}
Base == [who |-> {}, modes |-> Modes("wal"), quota |-> Quota(0, 0, 0), brain |-> One, paths |-> {},
         versions |-> {2}, disturb |-> {}, inputs |-> {NoRow}]

MCScenarios ==
    {[Base EXCEPT !.who = {"a1"}, !.quota = Quota(3, 0, 0)],
     [Base EXCEPT !.who = {"a1"}, !.quota = Quota(2, 0, 0), !.modes = Modes("journal")],
     [Base EXCEPT !.who = {"a1"}, !.quota = Quota(0, 2, 0), !.brain = NoBrain],
     [Base EXCEPT !.who = {"a1"}, !.quota = Quota(0, 0, 3), !.brain = One],
     [Base EXCEPT !.who = {"n1"}, !.quota = Quota(3, 0, 0)],
     [Base EXCEPT !.who = {"n1"}, !.quota = Quota(2, 0, 0), !.modes = Modes("journal")],
     [Base EXCEPT !.who = {"n1"}, !.inputs = Rows],
     [Base EXCEPT !.who = {"a1", "a2"}, !.quota = Quota(0, 0, 0)],
     [Base EXCEPT !.who = {"a1", "r1"}, !.quota = Quota(1, 0, 1)],
     [Base EXCEPT !.who = {"r1", "r2"}, !.paths = {"p"}, !.brain = Some, !.disturb = {"kill"}],
     [Base EXCEPT !.who = {"r1"}, !.paths = {"p"}, !.brain = Some, !.versions = 0 .. 3,
                  !.disturb = {"kill", "conversation", "open", "brain", "root", "damage"}],
     [Base EXCEPT !.who = {"r1", "r2"}, !.paths = {"p"}, !.brain = NoBrain, !.disturb = {"root"}],
     [Base EXCEPT !.who = {"r1", "v1"}, !.paths = {"p"}, !.brain = Some, !.versions = {0},
                  !.disturb = {"damage", "copy", "remove"}]}

\* Writes and checkpoints before, at and after the present, none, and no clock.
MCEvidence ==
    [activity : {[state |-> "known", last |-> t] : t \in {2, 5}} \cup {[state |-> "ambiguous", last |-> 0]},
     ingest : [state : {"verified"}, checkpoint : {0, 1, 2, 5}, covered : {2, 5}]
              \cup {[state |-> "partial", checkpoint |-> 2, covered |-> 2]},
     retention : {Absent, 0, 2}, now : {0, 3, 4}]
=============================================================================
