---------------------------- MODULE MCScheduler ----------------------------
(***************************************************************************)
(* Accounts without quota data, in reserve, with a window unknown,         *)
(* depleted, with only a combined fraction, in cooldown, and restricted.   *)
(***************************************************************************)
EXTENDS Scheduler

Win(f, left) == [frac |-> f, left |-> left]
Snapshot(five, seven, rem, age) ==
    [win |-> [w5 |-> five, w7 |-> seven],
     remaining |-> rem, left |-> 3, age |-> age]
Idle(tele, hits) == [tele |-> tele, hits |-> hits, cooling |-> FALSE, restricted |-> FALSE]

Healthy == Snapshot(Win(800, 4), Win(500, 100), 500, 30)

MCAccountStates ==
    {Idle(Snapshot(Win(900, 0), Win(100, 100), 100, 30), 0),
     Idle(Snapshot(Win(600, Nil), Nil, 600, 30), 1),
     Idle(Snapshot(Win(5, 1), Win(500, 10), 5, 30), 1),
     Idle(Snapshot(Nil, Nil, 400, Nil), 1),
     [Idle(Healthy, 0) EXCEPT !.cooling = TRUE],
     [Idle(Healthy, 0) EXCEPT !.cooling = TRUE, !.restricted = TRUE]}
=============================================================================
