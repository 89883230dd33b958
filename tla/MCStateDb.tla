----------------------------- MODULE MCStateDb -----------------------------
(* state.db for TLC: in some behaviours its transactions (StateTx), in the   *)
(* others its first opening (StateOpen).  A daemon with two pool             *)
(* transactions, which queue on its poolMu, and a reservation runs next to a *)
(* CLI process with one pool transaction; a daemon, a command and            *)
(* migrate-legacy start at once. *)
EXTENDS StateTx, StateOpen

CONSTANTS t1, t2, t3, t4, daemon, cli, migrate

MCTasks == {t1, t2, t3, t4}
MCProcs == {daemon, cli}
MCProcOf == [t \in MCTasks |-> IF t = t4 THEN cli ELSE daemon]
MCReservations == {t3}

VARIABLE part  \* which of the two a behaviour is about

allVars == <<vars, openVars, part>>

Calls(A)   == part = "calls" /\ A /\ UNCHANGED <<openVars, part>>
Opening(A) == part = "opening" /\ A /\ UNCHANGED <<vars, part>>

MCInit ==
    /\ Init /\ OpenInit
    /\ part \in {"calls", "opening"}
    /\ part = "calls" => ~legacy  \* the JSON pool is of no account to a call

MCNext == Calls(Next) \/ Opening(OpenNext)

\* The fairness of FairSpec and of FairOpenSpec.
MCSpec ==
    /\ MCInit /\ [][MCNext]_allVars
    /\ \A t \in Tasks : WF_allVars(Calls(Progress(t)))
    /\ \A p \in Openers : WF_allVars(Opening(Run(p)))

\* Every call on state.db returns (EveryCallReturns, where there are calls).
CallsReturn == part = "calls" => EveryCallReturns

\* Every process opens state.db (EveryProcessOpens, where it is opened).
ProcessesOpen == part = "opening" => EveryProcessOpens
=============================================================================
