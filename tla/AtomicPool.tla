----------------------------- MODULE AtomicPool -----------------------------
(***************************************************************************)
(* What the state store promises: every pool transaction takes effect at   *)
(* one instant, on the pool as all earlier transactions left it, or not at *)
(* all; a transaction reported as done took effect, one reported as failed *)
(* did not.  The pool is represented by the sequence of the transactions   *)
(* it is the result of.                                                    *)
(***************************************************************************)
EXTENDS Naturals, Sequences

CONSTANT Tasks    \* the transactions

VARIABLES
    log,          \* transactions that took effect, in order
    outcome       \* what the caller of each transaction has been told

Outcomes == {"pending", "ok", "error", "crashed"}

InEffect(t) == \E i \in 1 .. Len(log) : log[i] = t

Init ==
    /\ log = <<>>
    /\ outcome = [t \in Tasks |-> "pending"]

TakeEffect(t) ==
    /\ outcome[t] = "pending"
    /\ ~InEffect(t)
    /\ log' = Append(log, t)
    /\ UNCHANGED outcome

Succeed(t) ==
    /\ outcome[t] = "pending"
    /\ InEffect(t)
    /\ outcome' = [outcome EXCEPT ![t] = "ok"]
    /\ UNCHANGED log

Fail(t) ==
    /\ outcome[t] = "pending"
    /\ ~InEffect(t)
    /\ outcome' = [outcome EXCEPT ![t] = "error"]
    /\ UNCHANGED log

\* The processes of some callers die: their transactions have or have not
\* taken effect, and will not do so later.
Crash(C) ==
    /\ \A t \in C : outcome[t] = "pending"
    /\ outcome' = [t \in Tasks |-> IF t \in C THEN "crashed" ELSE outcome[t]]
    /\ UNCHANGED log

Next ==
    \/ \E t \in Tasks : TakeEffect(t) \/ Succeed(t) \/ Fail(t)
    \/ \E C \in SUBSET Tasks : Crash(C)

Spec == Init /\ [][Next]_<<log, outcome>>

=============================================================================
