----------------------------- MODULE UsageProofs -----------------------------
(***************************************************************************)
(* Proofs about usage: about the quota probes (QuotaProbe), for any number *)
(* of probes and processes, about the ledger of agy-tokei (Ingest), for    *)
(* any number of conversations, contents and ingests, and about the order  *)
(* that the scheduler makes of quota and usage (Scheduler), for any        *)
(* accounts and records.                                                   *)
(*                                                                         *)
(* Probes: a background probe owns its process's in-flight entry from the  *)
(* moment it is scheduled until the deferred delete, so within a process   *)
(* nothing happens between its read and its write.                         *)
(*                                                                         *)
(* Ingests: a stamp taken before a conversation is read describes what was *)
(* read, and what a stamp describes stays true, because every change shows *)
(* in the stamp or in the log.  The same holds of the catalog.             *)
(*                                                                         *)
(* Scheduler: keys are totally ordered, so the place of an account in a    *)
(* sort is the number of those ahead of it, and every place is taken once. *)
(* Every figure that decides can only fall with less quota.  Reservations  *)
(* go around the pool, so whom they preferred to an account lies between   *)
(* it and the cursor.                                                      *)
(***************************************************************************)
EXTENDS QuotaProbe, Ingest, Scheduler, WellFoundedInduction, FiniteSetTheorems,
        SequenceTheorems, TLAPS

-----------------------------------------------------------------------------
(* The quota probes.                                                       *)

\* A background probe holds its process's in-flight entry; nobody else clears it.
FlightInv ==
    /\ \A p \in Scheduled : Active(p) => inFlight[ProcOf[p]]
    /\ \A p \in Probes : pc[p] = "clear" => p \in Scheduled

\* A background probe has failed and not yet counted the failure.
Failing(x) ==
    \E p \in Scheduled : ProcOf[p] = x /\ pc[p] = "settle" /\ answer[p].kind = "failed"

\* The failure that a process has counted last keeps it from probing; a failure
\* is never later than now.
BackoffInv ==
    \A x \in Procs :
        /\ failedAt[x] <= now
        /\ failedAt[x] # 0 /\ retry[x] # NoEntry =>
            Failing(x) \/ retry[x].nextAt >= failedAt[x] + Backoff[1]

IInv == TypeOK /\ FlightInv /\ SingleFlight /\ BackoffInv

-----------------------------------------------------------------------------
(* The operators of the probes.                                            *)

\* The smaller of two numbers.
LEMMA MinOfTwo ==
    ASSUME NEW a \in Nat, NEW b \in Nat
    PROVE  Min({a, b}) \in Nat /\ Min({a, b}) <= a /\ Min({a, b}) <= b
<1>1. \E x \in {a, b} : \A y \in {a, b} : x <= y
    <2>1. CASE a <= b
        BY <2>1
    <2>2. CASE ~(a <= b)
        BY <2>2
    <2> QED
        BY <2>1, <2>2
<1> QED
    BY <1>1 DEF Min

\* No delay is below the first.
LEMMA DelayIsPositive ==
    ASSUME NEW n \in Nat
    PROVE  NextBackoffDelay(n) \in Nat /\ NextBackoffDelay(n) >= Backoff[1]
<1>1. Len(Backoff) \in Nat \ {0} /\ DOMAIN Backoff = 1 .. Len(Backoff)
    BY ProbeAssumption
<1>2. \A i \in 1 .. Len(Backoff) : Backoff[i] \in Nat /\ Backoff[1] <= Backoff[i]
    BY <1>1, ProbeAssumption
<1> QED
    BY <1>1, <1>2 DEF NextBackoffDelay

\* The entry after a failure.
LEMMA FailedEntryType ==
    ASSUME TypeOK, NEW e \in RetryEntry
    PROVE  FailedEntry(e) \in RetryEntry /\ FailedEntry(e).nextAt >= now + Backoff[1]
<1>1. e.attempt \in Nat /\ Len(Backoff) \in Nat /\ now \in Nat /\ Backoff[1] \in Nat
    BY ProbeAssumption DEF RetryEntry, TypeOK, Time
<1>2. Min({e.attempt + 1, Len(Backoff)}) \in 0 .. Len(Backoff)
    BY <1>1, MinOfTwo
<1>3. NextBackoffDelay(e.attempt) \in Nat /\ NextBackoffDelay(e.attempt) >= Backoff[1]
    BY <1>1, DelayIsPositive
<1> QED
    BY <1>1, <1>2, <1>3 DEF FailedEntry, RetryEntry

\* What a probe stores is an account.
LEMMA StoredType ==
    ASSUME TypeOK, NEW p \in Probes
    PROVE  /\ WithQuota(p) \in AccountState
           /\ Lifted(p, WithQuota(p)) \in AccountState
           /\ \A s \in Restricted :
                [WithQuota(p) EXCEPT !.status = s, !.until = now + Delay[s]] \in AccountState
<1>1. now \in 0 .. MaxTime /\ now \in Nat
    BY ProbeAssumption DEF TypeOK, Time
<1>2. stored \in AccountState /\ account[p] \in AccountState /\ answer[p] \in Answer
    BY DEF TypeOK
<1>3. account[p].known \cup answer[p].windows \in SUBSET Windows
    BY <1>2 DEF AccountState, Answer
<1>4. WithQuota(p) \in AccountState
    BY <1>1, <1>2, <1>3 DEF WithQuota, AccountState
<1>5. Lifted(p, WithQuota(p)) \in AccountState
    BY <1>4 DEF Lifted, AccountState, OptTime
<1>6. \A s \in Restricted : now + Delay[s] \in OptTime
    BY <1>1, ProbeAssumption DEF OptTime
<1> QED
    BY <1>4, <1>5, <1>6 DEF AccountState

-----------------------------------------------------------------------------
(* The inductive invariant.                                                *)

\* The values of an unused probe.
LEMMA Defaults ==
    NewAccount \in AccountState /\ NoAnswer \in Answer /\ NoEntry \in RetryEntry
<1>1. 0 \in 0 .. MaxTime /\ 0 \in 0 .. MaxCred /\ 0 \in 0 .. Len(Backoff)
    BY ProbeAssumption
<1> QED
    BY <1>1 DEF NewAccount, AccountState, OptTime, NoAnswer, Answer, NoEntry, RetryEntry

\* At first nothing runs.
LEMMA InitIInv == Init => IInv
<1> SUFFICES ASSUME Init PROVE IInv
    OBVIOUS
<1>1. 1 \in Time /\ 0 \in 0 .. MaxTime
    BY ProbeAssumption DEF Time
<1>3. TypeOK
    BY <1>1, Defaults DEF Init, TypeOK, PC
<1>4. FlightInv /\ SingleFlight /\ BackoffInv
    BY ProbeAssumption DEF Init, FlightInv, SingleFlight, Active, BackoffInv
<1> QED
    BY <1>3, <1>4 DEF IInv

\* Every step keeps the types.
LEMMA NextTypeOK == TypeOK /\ [Next]_vars => TypeOK'
<1> SUFFICES ASSUME TypeOK, [Next]_vars PROVE TypeOK'
    OBVIOUS
<1> USE DEF TypeOK, Goto, flight
<1>0. now \in Nat /\ now \in 0 .. MaxTime
    BY ProbeAssumption DEF Time
<1>1. ASSUME NEW p \in Probes, Schedule(p) PROVE TypeOK'
    BY <1>1 DEF Schedule, PC
<1>2. ASSUME NEW p \in Probes, Call(p) \/ Load(p) PROVE TypeOK'
    BY <1>2 DEF Call, Load, PC
<1>3. ASSUME NEW p \in Probes, Token(p) PROVE TypeOK'
    <2>1. \A c \in 0 .. MaxCred : [stored EXCEPT !.cred = c] \in AccountState
                                 /\ [account EXCEPT ![p].cred = c] \in [Probes -> AccountState]
        BY DEF AccountState
    <2>2. stored.cred \in 0 .. MaxCred
        BY DEF AccountState
    <2>3. stored.cred < MaxCred => stored.cred + 1 \in 0 .. MaxCred
        BY <2>2, ProbeAssumption
    <2> QED
        BY <1>3, <2>1, <2>2, <2>3 DEF Token, PC
<1>4. ASSUME NEW p \in Probes, Query(p) PROVE TypeOK'
    BY <1>4 DEF Query, Answer, PC
<1>5. ASSUME NEW p \in Probes, PersistQuota(p) \/ PersistRestriction(p) PROVE TypeOK'
    <2>1. CASE PersistQuota(p)
        BY <2>1, StoredType DEF PersistQuota, PC
    <2>2. CASE PersistRestriction(p)
        <3>1. answer[p].kind \in Restricted
            BY <2>2 DEF PersistRestriction
        <3>2. stored' = [WithQuota(p) EXCEPT !.status = answer[p].kind,
                                             !.until = now + Delay[answer[p].kind]]
            BY <2>2 DEF PersistRestriction
        <3>3. stored' \in AccountState
            BY <3>1, <3>2, StoredType
        <3> QED
            BY <2>2, <3>3 DEF PersistRestriction, PC
    <2> QED
        BY <1>5, <2>1, <2>2
<1>6. ASSUME NEW p \in Probes, Fail(p) PROVE TypeOK'
    <2>1. [NoAnswer EXCEPT !.kind = "failed"] \in Answer
        BY DEF NoAnswer, Answer
    <2>2. failedAt' \in [Procs -> 0 .. MaxTime]
        BY <1>6, <1>0 DEF Fail
    <2> QED
        BY <1>6, <2>1, <2>2 DEF Fail, PC
<1>7. ASSUME NEW p \in Probes, Settle(p) PROVE TypeOK'
    <2>2. FailedEntry(retry[ProcOf[p]]) \in RetryEntry
        BY FailedEntryType, ProbeAssumption
    <2>3. retry' \in [Procs -> RetryEntry]
        BY <1>7, Defaults, <2>2 DEF Settle
    <2> QED
        BY <1>7, Defaults, <2>3 DEF Settle, PC
<1>8. ASSUME NEW p \in Probes, Clear(p) PROVE TypeOK'
    BY <1>8 DEF Clear, PC
<1>9. ASSUME NEW d \in RetryAfter, RecordQuotaError(d) PROVE TypeOK'
    <2>1. now + d \in OptTime /\ 0 \in 0 .. MaxTime
        BY <1>0, ProbeAssumption DEF OptTime
    <2> QED
        BY <1>9, <2>1 DEF RecordQuotaError, AccountState
<1>10. ASSUME NEW s \in Restricted, RecordRestriction(s) PROVE TypeOK'
    <2>1. now + Delay[s] \in OptTime
        BY <1>0, ProbeAssumption DEF OptTime
    <2> QED
        BY <1>10, <2>1 DEF RecordRestriction, AccountState
<1>11. CASE Login
    <2>1. stored.cred < MaxCred /\ stored.cred \in 0 .. MaxCred
        BY <1>11 DEF Login, AccountState
    <2>2. stored.cred + 1 \in 0 .. MaxCred
        BY <2>1, ProbeAssumption
    <2> QED
        BY <1>11, <2>2 DEF Login, AccountState, OptTime
<1>12. CASE Tick
    BY <1>12, ProbeAssumption DEF Tick, Time
<1>13. CASE UNCHANGED vars
    BY <1>13 DEF vars
<1> QED
    BY <1>1, <1>2, <1>3, <1>4, <1>5, <1>6, <1>7, <1>8, <1>9, <1>10, <1>11, <1>12, <1>13
    DEF Next, Run

\* A background probe takes the in-flight entry when it starts and gives it
\* back when it ends.
LEMMA NextFlight == IInv /\ [Next]_vars => FlightInv' /\ SingleFlight'
<1> SUFFICES ASSUME IInv, [Next]_vars PROVE FlightInv' /\ SingleFlight'
    OBVIOUS
<1> USE ProbeAssumption DEF IInv, TypeOK, FlightInv, SingleFlight, Active, Goto, flight
<1>1. ASSUME NEW p \in Probes, Schedule(p) PROVE FlightInv' /\ SingleFlight'
    BY <1>1 DEF Schedule
<1>2. ASSUME NEW p \in Probes, Call(p) PROVE FlightInv' /\ SingleFlight'
    BY <1>2 DEF Call
<1>3. ASSUME NEW p \in Probes, Run(p), ~Settle(p), ~Clear(p) PROVE FlightInv' /\ SingleFlight'
    <2>1. /\ pc[p] # "idle" /\ inFlight' = inFlight
          /\ \E l \in PC \ {"clear", "idle"} : pc' = [pc EXCEPT ![p] = l]
        BY <1>3 DEF Run, Load, Token, Query, PersistQuota, PersistRestriction, Fail, PC
    <2> QED
        BY <2>1
<1>4. ASSUME NEW p \in Probes, Settle(p) PROVE FlightInv' /\ SingleFlight'
    <2>1. /\ pc[p] # "idle" /\ inFlight' = inFlight
          /\ pc' = [pc EXCEPT ![p] = IF p \in Scheduled THEN "clear" ELSE "idle"]
        BY <1>4 DEF Settle
    <2> QED
        BY <2>1
<1>5. ASSUME NEW p \in Probes, Clear(p) PROVE FlightInv' /\ SingleFlight'
    BY <1>5 DEF Clear
<1>6. ASSUME UNCHANGED <<pc, inFlight>> PROVE FlightInv' /\ SingleFlight'
    BY <1>6
<1>7. ASSUME \/ \E d \in RetryAfter : RecordQuotaError(d)
             \/ \E s \in Restricted : RecordRestriction(s)
             \/ Login \/ Tick \/ UNCHANGED vars
      PROVE UNCHANGED <<pc, inFlight>>
    BY <1>7 DEF RecordQuotaError, RecordRestriction, Login, Tick, vars
<1> QED
    BY <1>1, <1>2, <1>3, <1>4, <1>5, <1>6, <1>7 DEF Next

\* A failure is counted from when it happened, and delays never undercut the
\* first.
LEMMA NextBackoff == IInv /\ [Next]_vars => BackoffInv'
<1> SUFFICES ASSUME IInv, [Next]_vars, NEW x \in Procs
      PROVE /\ failedAt'[x] <= now'
            /\ failedAt'[x] # 0 /\ retry'[x] # NoEntry =>
                Failing(x)' \/ retry'[x].nextAt >= failedAt'[x] + Backoff[1]
    BY DEF BackoffInv
<1> USE ProbeAssumption DEF IInv, TypeOK
<1>0. now \in Nat /\ Backoff[1] \in Nat /\ failedAt[x] \in Nat /\ failedAt[x] <= now
    BY DEF Time, BackoffInv
<1>1. ASSUME UNCHANGED <<failedAt, retry>>, now' \in {now, now + 1}, Failing(x) => Failing(x)'
      PROVE  /\ failedAt'[x] <= now'
             /\ failedAt'[x] # 0 /\ retry'[x] # NoEntry =>
                 Failing(x)' \/ retry'[x].nextAt >= failedAt'[x] + Backoff[1]
    BY <1>0, <1>1 DEF BackoffInv
<1>2. ASSUME NEW p \in Probes, Fail(p)
      PROVE  /\ failedAt'[x] <= now'
             /\ failedAt'[x] # 0 /\ retry'[x] # NoEntry =>
                 Failing(x)' \/ retry'[x].nextAt >= failedAt'[x] + Backoff[1]
    <2>1. CASE p \in Scheduled /\ ProcOf[p] = x
        <3>1. Failing(x)'
            BY <1>2, <2>1 DEF Fail, Failing, Goto, NoAnswer
        <3> QED
            BY <1>0, <1>2, <2>1, <3>1 DEF Fail
    <2>2. CASE ~(p \in Scheduled /\ ProcOf[p] = x)
        <3>1. failedAt'[x] = failedAt[x] /\ UNCHANGED <<retry, now>>
            BY <1>2, <2>2 DEF Fail
        <3>2. Failing(x) => Failing(x)'
            BY <1>2, <2>2 DEF Fail, Failing, Goto
        <3> QED
            BY <1>0, <3>1, <3>2 DEF BackoffInv
    <2> QED
        BY <2>1, <2>2
<1>3. ASSUME NEW p \in Probes, Settle(p)
      PROVE  /\ failedAt'[x] <= now'
             /\ failedAt'[x] # 0 /\ retry'[x] # NoEntry =>
                 Failing(x)' \/ retry'[x].nextAt >= failedAt'[x] + Backoff[1]
    <2>1. UNCHANGED <<now, failedAt>>
        BY <1>3 DEF Settle
    <2>2. CASE p \in Scheduled /\ ProcOf[p] = x
        <3>1. retry'[x] \in {FailedEntry(retry[x]), NoEntry}
            BY <1>3, <2>2 DEF Settle
        <3>2. FailedEntry(retry[x]).nextAt >= now + Backoff[1]
              /\ FailedEntry(retry[x]).nextAt \in Nat
            BY FailedEntryType DEF RetryEntry
        <3> QED
            BY <1>0, <2>1, <3>1, <3>2
    <2>3. CASE ~(p \in Scheduled /\ ProcOf[p] = x)
        <3>1. retry'[x] = retry[x]
            BY <1>3, <2>3 DEF Settle
        <3>2. Failing(x) => Failing(x)'
            BY <1>3, <2>3 DEF Settle, Failing, Goto
        <3> QED
            BY <1>0, <2>1, <3>1, <3>2 DEF BackoffInv
    <2> QED
        BY <2>2, <2>3
<1>4. ASSUME NEW p \in Probes, Schedule(p) \/ Call(p) \/ (Run(p) /\ ~Fail(p) /\ ~Settle(p))
      PROVE UNCHANGED <<failedAt, retry>> /\ now' \in {now, now + 1} /\ (Failing(x) => Failing(x)')
    <2>1. CASE Schedule(p) \/ Call(p)
        BY <1>4, <2>1 DEF Schedule, Call, Failing, Goto, flight
    <2>2. CASE Load(p) \/ Token(p) \/ Query(p) \/ Clear(p)
        BY <1>4, <2>2 DEF Load, Token, Query, Clear, Failing, Goto, flight
    <2>3. CASE PersistQuota(p) \/ PersistRestriction(p)
        BY <1>4, <2>3 DEF PersistQuota, PersistRestriction, Failing, Goto, flight
    <2> QED
        BY <1>4, <2>1, <2>2, <2>3 DEF Run
<1>5. ASSUME \/ \E d \in RetryAfter : RecordQuotaError(d)
             \/ \E s \in Restricted : RecordRestriction(s)
             \/ Login \/ Tick \/ UNCHANGED vars
      PROVE UNCHANGED <<failedAt, retry>> /\ now' \in {now, now + 1} /\ (Failing(x) => Failing(x)')
    BY <1>5 DEF RecordQuotaError, RecordRestriction, Login, Tick, vars, flight, Failing
<1> QED
    BY <1>1, <1>2, <1>3, <1>4, <1>5 DEF Next, Run

-----------------------------------------------------------------------------
(* The theorems.                                                           *)

\* The inductive invariant holds in every reachable state.
THEOREM Invariance == Spec => []IInv
<1>1. IInv /\ [Next]_vars => IInv'
    BY NextTypeOK, NextFlight, NextBackoff DEF IInv
<1> QED
    BY <1>1, InitIInv, PTL DEF Spec

\* The probes' state is always well-typed.
THEOREM TypeCorrect == Spec => []TypeOK
BY Invariance, PTL DEF IInv

\* A process never runs two background probes of the account, however many
\* goroutines, commands and upstream errors there are (refreshInFlight).
THEOREM OneFlight == Spec => []SingleFlight
BY Invariance, PTL DEF IInv

\* A process that has seen a background probe fail starts no other before the
\* first backoff interval is over, whatever the intervals and however many
\* failures came before.
THEOREM BackoffIsRespected == Spec => BackoffRespected
<1> DEFINE Respected ==
        \A p \in Scheduled :
            LET f == failedAt[ProcOf[p]] IN
            ~Active(p) /\ Active(p)' /\ f # 0 /\ retry[ProcOf[p]] # NoEntry
                => now >= f + Backoff[1]
<1>1. IInv /\ [Next]_vars => Respected
    <2> SUFFICES ASSUME IInv, [Next]_vars, NEW p \in Scheduled, ~Active(p), Active(p)',
                        failedAt[ProcOf[p]] # 0, retry[ProcOf[p]] # NoEntry
                 PROVE  now >= failedAt[ProcOf[p]] + Backoff[1]
        OBVIOUS
    <2> USE ProbeAssumption DEF IInv, TypeOK
    <2>1. Schedule(p)
        <3>1. ASSUME NEW q \in Probes, Run(q) PROVE pc[q] # "idle" /\ \A o \in Probes \ {q} : pc'[o] = pc[o]
            BY <3>1 DEF Run, Load, Token, Query, PersistQuota, PersistRestriction, Fail,
                Settle, Clear, Goto
        <3>2. ASSUME NEW q \in Probes, Call(q) \/ Schedule(q), q # p PROVE pc'[p] = pc[p]
            BY <3>2 DEF Call, Schedule, Goto
        <3>3. ~Call(p)
            BY DEF Call
        <3>4. ASSUME \/ \E d \in RetryAfter : RecordQuotaError(d)
                     \/ \E s \in Restricted : RecordRestriction(s)
                     \/ Login \/ Tick \/ UNCHANGED vars
              PROVE pc' = pc
            BY <3>4 DEF RecordQuotaError, RecordRestriction, Login, Tick, vars
        <3> QED
            BY <3>1, <3>2, <3>3, <3>4 DEF Next, Active
    <2>2. ~inFlight[ProcOf[p]] /\ retry[ProcOf[p]].nextAt <= now
        BY <2>1 DEF Schedule
    <2>3. ~Failing(ProcOf[p])
        BY <2>2 DEF Failing, FlightInv, Active
    <2>4. retry[ProcOf[p]].nextAt >= failedAt[ProcOf[p]] + Backoff[1]
        BY <2>3 DEF BackoffInv
    <2> QED
        BY <2>2, <2>4 DEF RetryEntry, Time
<1>2. IInv /\ [Next]_vars => [Respected]_vars
    BY <1>1
<1> QED
    BY <1>2, Invariance, PTL DEF Spec, BackoffRespected

-----------------------------------------------------------------------------
(* A single process.                                                       *)

\* Only one process probes, in the background.
Solo == Scheduled = Probes /\ \A p, q \in Probes : ProcOf[p] = ProcOf[q]

\* The copy of the probe that runs knows the windows of state.db.
CopyInv ==
    \A p \in Probes : pc[p] \in {"token", "query", "persist"} => stored.known \subseteq account[p].known

\* Nobody else stores windows while a probe runs.
LEMMA NextCopy == ASSUME Solo PROVE IInv /\ CopyInv /\ [Next]_vars => CopyInv'
<1> SUFFICES ASSUME IInv, CopyInv, [Next]_vars, NEW p \in Probes,
                    pc'[p] \in {"token", "query", "persist"}
             PROVE  stored'.known \subseteq account'[p].known
    BY DEF CopyInv
<1> USE ProbeAssumption DEF IInv, TypeOK, Solo, Goto, flight
<1>1. ASSUME NEW q \in Probes, Active(q), q # p PROVE pc[p] = "idle"
    BY <1>1 DEF SingleFlight, Active
<1>2. ASSUME NEW q \in Probes, Schedule(q) PROVE stored'.known \subseteq account'[p].known
    BY <1>2 DEF Schedule, CopyInv
<1>3. ASSUME NEW q \in Probes, Call(q) PROVE stored'.known \subseteq account'[p].known
    BY <1>3 DEF Call
<1>4. ASSUME NEW q \in Probes, Run(q), q # p PROVE FALSE
    <2>1. Active(q) /\ pc'[p] = pc[p]
        BY <1>4 DEF Active, Run, Load, Token, Query, PersistQuota, PersistRestriction, Fail,
            Settle, Clear
    <2> QED
        BY <1>1, <1>4, <2>1
<1>5. CASE Load(p)
    BY <1>5 DEF Load
<1>6. CASE Token(p)
    <2>1. stored.known \subseteq account[p].known
        BY <1>6 DEF Token, CopyInv
    <2>2. stored'.known = stored.known
        BY <1>6 DEF Token, AccountState
    <2>3. account[p] \in AccountState
        OBVIOUS
    <2>4. \A n : [account EXCEPT ![p].cred = n][p].known = account[p].known
        BY <2>3 DEF AccountState
    <2>5. account'[p].known = account[p].known
        BY <1>6, <2>4, ZenonT(30) DEF Token
    <2> QED
        BY <2>1, <2>2, <2>5
<1>7. CASE Query(p)
    BY <1>7 DEF Query, CopyInv
<1>8. CASE PersistQuota(p) \/ PersistRestriction(p) \/ Fail(p) \/ Settle(p) \/ Clear(p)
    BY <1>8 DEF PersistQuota, PersistRestriction, Fail, Settle, Clear
<1>9. ASSUME \/ \E d \in RetryAfter : RecordQuotaError(d)
             \/ \E s \in Restricted : RecordRestriction(s)
             \/ Login \/ Tick \/ UNCHANGED vars
      PROVE stored'.known \subseteq account'[p].known
    <2>1. stored'.known = stored.known /\ UNCHANGED <<account, pc>>
        BY <1>9 DEF RecordQuotaError, RecordRestriction, Login, Tick, vars, AccountState
    <2> QED
        BY <2>1 DEF CopyInv
<1> QED
    BY <1>2, <1>3, <1>4, <1>5, <1>6, <1>7, <1>8, <1>9 DEF Next, Run

\* With one probing process no probe loses a window that was known, although
\* each writes from its own copy of the account.
THEOREM WindowsAreKept == ASSUME Solo PROVE Spec => KnownWindowsKept
<1> DEFINE Kept == \A p \in Probes : PersistQuota(p) => stored.known \subseteq stored'.known
<1>1. Init => CopyInv
    BY DEF Init, CopyInv
<1>2. TypeOK /\ CopyInv /\ [Next]_vars => Kept
    <2> SUFFICES ASSUME TypeOK, CopyInv, NEW p \in Probes, PersistQuota(p)
                 PROVE  stored.known \subseteq stored'.known
        OBVIOUS
    <2>1. stored.known \subseteq account[p].known
        BY DEF PersistQuota, CopyInv
    <2>2. WithQuota(p) \in AccountState
          /\ WithQuota(p).known = account[p].known \cup answer[p].windows
        BY StoredType DEF WithQuota, TypeOK, AccountState
    <2>3. stored'.known = WithQuota(p).known
        BY <2>2 DEF PersistQuota, Lifted, AccountState
    <2> QED
        BY <2>1, <2>2, <2>3
<1>3. TypeOK /\ CopyInv /\ [Next]_vars => [Kept]_vars
    BY <1>2
<1> QED
    BY <1>1, <1>3, NextCopy, Invariance, TypeCorrect, PTL DEF Spec, KnownWindowsKept

-----------------------------------------------------------------------------
(* The ledger of usage.                                                    *)

Phases == {"idle", "ok", "error", "open", "catalog", "catalog_wal", "read_catalog", "sync", "manifests",
           "next", "skip", "read", "snapshot", "stat_after", "complete", "commit_complete", "commit_active",
           "failed"}

\* The phases that deal with one conversation, those after its tables were read,
\* and those that work with a catalog and the loaded manifests.
Handling == {"skip", "read", "snapshot", "stat_after", "complete", "commit_complete", "commit_active", "failed"}
HasRead == {"stat_after", "complete", "commit_complete", "commit_active"}
Scanning == {"next"} \cup Handling

Counts == {0} \cup UNION {{Cardinality(Extracted[c][v]) : v \in DOMAIN Content[c]} : c \in Convs}
Manifest == [stamp : Nat, status : {"completed", "active", "failed"},
             scan : {"completed", "active", "failed", None}, parser : {"old", "current"}, count : Counts]

SourcesTypeOK ==
    /\ scenario \in Scenarios
    /\ ver \in [Convs -> Nat] /\ stamp \in [Convs -> Nat] /\ wal \in [Convs -> BOOLEAN]
    /\ \A c \in Convs : ver[c] \in DOMAIN Content[c]
    /\ cver \in DOMAIN Projects /\ cstamp \in Nat /\ cwal \in BOOLEAN

LedgerTypeOK ==
    /\ version \in 0 .. 3
    /\ DOMAIN rows = Convs /\ DOMAIN project = Convs
    /\ manifest \in [Convs -> Manifest \cup {None}]
    /\ sync \in Nat \cup {None}
    /\ from \in [Convs -> Nat]

LocalTypeOK ==
    /\ phase \in [Ingesters -> Phases]
    /\ force \in [Ingesters -> BOOLEAN]
    /\ todo \in [Ingesters -> SUBSET Convs]
    /\ known \in [Ingesters -> [Convs -> Manifest \cup {None}]]
    /\ DOMAIN catalog = Ingesters
    /\ before \in [Ingesters -> Nat] /\ after \in [Ingesters -> Nat] /\ got \in [Ingesters -> Nat]
    /\ failures \in [Ingesters -> BOOLEAN]

HistoryTypeOK == low \in [Ingesters -> [Convs -> Nat]] /\ overlapped \in BOOLEAN

\* An ingest that deals with a conversation still has it to deal with.
TodoInv == \A p \in Ingesters : phase[p] \in Handling => todo[p] # {}

\* The type of the state of the ingests.
IngestTypeOK == SourcesTypeOK /\ LedgerTypeOK /\ LocalTypeOK /\ HistoryTypeOK /\ TodoInv

\* A stamp taken of a conversation belongs to this version: while the file is
\* there with that stamp and no log, the source is still at it.
Describes(c, s, v) ==
    /\ s <= stamp[c]
    /\ stamp[c] = s /\ ~wal[c] /\ Exists(c) => ver[c] = v

Complete(m) == m # None /\ m.status = "completed"

\* The rows are those of the version they were read from, a manifest counts them,
\* and one of this parser describes that version.
StoredInv ==
    /\ \A c \in Convs :
        /\ from[c] = 0 => rows[c] = {}
        /\ from[c] # 0 =>
            /\ from[c] \in DOMAIN Content[c]
            /\ Readable(Content[c][from[c]])
            /\ rows[c] = Extracted[c][from[c]]
        /\ Complete(manifest[c]) => manifest[c].count = Cardinality(rows[c])
        /\ Complete(manifest[c]) /\ manifest[c].parser = "current" =>
            Describes(c, manifest[c].stamp, from[c])
    /\ \A c, d \in Convs : c # d => Gens(rows[c]) \cap Gens(rows[d]) = {}

\* What an ingest has read is described by the stamp it took before.
ReadInv ==
    \A p \in Ingesters :
        /\ phase[p] = "snapshot" => before[p] <= stamp[Current(p)]
        /\ phase[p] \in HasRead =>
            /\ Describes(Current(p), before[p], got[p])
            /\ got[p] \in DOMAIN Content[Current(p)]
            /\ Readable(Content[Current(p)][got[p]])
        /\ phase[p] = "commit_complete" => after[p] = before[p]

\* The catalog is as it was at this stamp, and these projects are its own.
Fresh(s) == s = cstamp /\ ~cwal /\ Catalog # Absent
Agrees(f) == \A c \in DOMAIN Catalog : c \in DOMAIN f /\ f[c] = Catalog[c]

\* The projects an ingest works with, and those stored, agree with a catalog that
\* would not be read again.
CatalogInv ==
    /\ sync # None => sync <= cstamp
    /\ Fresh(sync) => Agrees(meta)
    /\ \A p \in Ingesters :
        /\ phase[p] \in {"catalog_wal", "read_catalog", "sync"} => before[p] <= cstamp
        /\ phase[p] = "sync" /\ Fresh(before[p]) => Agrees(catalog[p])
        /\ phase[p] \in {"manifests"} \cup Scanning /\ ~overlapped /\ Fresh(sync) => Agrees(catalog[p])
    /\ ProjectsFollowCatalog

\* Only one ingest runs until two have.
AloneInv ==
    ~overlapped => \A p, q \in Ingesters : Running(p) /\ Running(q) => p = q

\* A conversation whose log has not gone since the ingest p began is still to be
\* handled, or its rows are from then at the earliest, or it has failed.
UpToDate(p, c) ==
    Content[c][low[p][c]] # Absent => c \in todo[p] \/ from[c] >= low[p][c] \/ failures[p]

FreshInv ==
    \A p \in Ingesters :
        /\ \A c \in Convs : low[p][c] <= ver[c]
        /\ Running(p) /\ ~overlapped =>
            /\ \A c \in Convs : low[p][c] # 0 => UpToDate(p, c)
            /\ phase[p] \in Scanning => \A c \in todo[p] : known[p][c] = manifest[c]
            /\ phase[p] = "skip" =>
                /\ known[p][Current(p)] # None
                /\ Skips(known[p][Current(p)], before[p], FALSE) =>
                    wal[Current(p)] \/ from[Current(p)] >= low[p][Current(p)]
            /\ phase[p] \in HasRead => got[p] >= low[p][Current(p)]

IngestInv == IngestTypeOK /\ StoredInv /\ ReadInv /\ CatalogInv /\ AloneInv /\ FreshInv

-----------------------------------------------------------------------------
(* The operators of the ledger.                                            *)

\* The contents of a conversation are numbered, and so are those of the catalog.
LEMMA ContentsAreNumbered ==
    /\ \A c \in Convs : DOMAIN Content[c] = 1 .. Len(Content[c]) /\ Len(Content[c]) \in Nat
    /\ DOMAIN Projects = 1 .. Len(Projects) /\ Len(Projects) \in Nat
    /\ \A s \in Scenarios :
        /\ \A c \in Convs : s.first[c] \in 1 .. Len(Content[c]) /\ s.last[c] \in 1 .. Len(Content[c])
        /\ s.catalogs \in 1 .. Len(Projects)
<1>1. /\ \A c \in Convs : DOMAIN Content[c] = 1 .. Len(Content[c]) /\ Len(Content[c]) \in Nat
      /\ DOMAIN Projects = 1 .. Len(Projects) /\ Len(Projects) \in Nat
    BY IngestAssumption
<1>2. \A s \in Scenarios :
        /\ \A c \in Convs : s.first[c] \in DOMAIN Content[c] /\ s.last[c] \in DOMAIN Content[c]
        /\ s.catalogs \in DOMAIN Projects
    BY IngestAssumption, Zenon
<1> QED
    BY <1>1, <1>2

\* The conversation an ingest deals with is one it still has to deal with.
LEMMA CurrentIsTodo ==
    ASSUME IngestTypeOK, NEW p \in Ingesters, todo[p] # {}
    PROVE  Current(p) \in todo[p] /\ Current(p) \in Convs
<1> DEFINE R == OpToRel(<, Nat)
<1>1. todo[p] \subseteq Nat /\ todo[p] \subseteq Convs
    BY IngestAssumption DEF IngestTypeOK, LocalTypeOK
<1>2. IsWellFoundedOn(R, Nat)
    BY NatLessThanWellFounded
<1>3. \A c, d \in Nat : d < c => <<d, c>> \in R
    BY DEF OpToRel
<1> HIDE DEF R
<1>4. PICK c \in todo[p] : \A d \in todo[p] : <<d, c>> \notin R
    BY <1>1, <1>2, WFMin
<1>5. ASSUME NEW d \in todo[p] PROVE c <= d
  <2>1. c \in Nat /\ d \in Nat /\ ~(d < c)
      BY <1>1, <1>3, <1>4
  <2> QED
      BY <2>1
<1> QED
    BY <1>1, <1>5 DEF Current

\* The catalog, where there is one, names conversations.
LEMMA CatalogNames == ASSUME IngestTypeOK, Catalog # Absent PROVE DOMAIN Catalog \subseteq Convs
<1>1. Catalog \in ToSet(Projects)
    BY DEF IngestTypeOK, SourcesTypeOK, Catalog, ToSet
<1> QED
    BY <1>1, IngestAssumption

\* A manifest keeps its type when its scan fails, or when its scan is filled in.
LEMMA ManifestType ==
    ASSUME NEW m \in Manifest
    PROVE  /\ [m EXCEPT !.scan = "failed"] \in Manifest
           /\ [m EXCEPT !.scan = m.status] \in Manifest
BY DEF Manifest

LEMMA CommittedType ==
    ASSUME NEW c \in Convs, NEW v \in DOMAIN Content[c], NEW s \in Nat, NEW status \in {"completed", "active"}
    PROVE  [stamp |-> s, status |-> status, scan |-> status,
            parser |-> "current", count |-> Cardinality(Extracted[c][v])] \in Manifest
BY DEF Manifest, Counts

\* The state before the first ingest.
LEMMA InitIngest == IngestInit => IngestInv
<1> SUFFICES ASSUME IngestInit PROVE IngestInv
    OBVIOUS
<1> USE DEF IngestInit
<1>1. \A c \in Convs : manifest[c] = None \/ \E s \in {"completed", "active", "failed"} : \E t \in {None, s} :
            manifest[c] = Inherited(s, t)
    OBVIOUS
<1>2. \A s \in {"completed", "active", "failed"} : \A t \in {None, s} :
            Inherited(s, t) \in Manifest /\ Inherited(s, t).parser = "old" /\ Inherited(s, t).count = 0
    BY DEF Inherited, Manifest, Counts
<1>3. manifest \in [Convs -> Manifest \cup {None}]
    BY <1>1, <1>2
<1>4. \A c \in Convs : Complete(manifest[c]) => manifest[c].count = 0 /\ manifest[c].parser # "current"
    BY <1>1, <1>2 DEF Complete
<1>5. IngestTypeOK
  <2>1. ver \in [Convs -> Nat] /\ \A c \in Convs : ver[c] \in DOMAIN Content[c]
      BY ContentsAreNumbered
  <2>0. version \in 0 .. 3
      BY IngestAssumption, Zenon
  <2>2. cver \in DOMAIN Projects
      BY ContentsAreNumbered
  <2>3. known \in [Ingesters -> [Convs -> Manifest \cup {None}]]
      BY DEF NoManifests
  <2>4. phase \in [Ingesters -> Phases] /\ \A p \in Ingesters : phase[p] \notin Handling
      BY DEF Phases, Handling
  <2>5. low \in [Ingesters -> [Convs -> Nat]]
      BY <2>1
  <2> QED
      BY <1>3, <2>0, <2>1, <2>2, <2>3, <2>4, <2>5 DEF IngestTypeOK, SourcesTypeOK, LedgerTypeOK,
        LocalTypeOK, HistoryTypeOK, TodoInv
<1>6. StoredInv
  <2>1. Cardinality({}) = 0
      BY FS_EmptySet
  <2> QED
      BY <1>4, <2>1 DEF StoredInv, Gens
<1>7. ReadInv /\ AloneInv /\ FreshInv
    BY <1>5 DEF IngestTypeOK, SourcesTypeOK, ReadInv, AloneInv, FreshInv, Running, Scanning, Handling, HasRead
<1>8. CatalogInv
    BY <1>5, IngestAssumption DEF IngestTypeOK, SourcesTypeOK, CatalogInv, Fresh, Scanning, Handling, ProjectsFollowCatalog
<1> QED
    BY <1>5, <1>6, <1>7, <1>8 DEF IngestInv

-----------------------------------------------------------------------------
(* Types of the ledger and the ingests.                                    *)

LEMMA WriteTypes ==
    ASSUME SourcesTypeOK, HistoryTypeOK, NEW c \in Convs, Write(c)
    PROVE  SourcesTypeOK' /\ HistoryTypeOK'
<1>1. ver' \in [Convs -> Nat] /\ \A d \in Convs : ver'[d] \in DOMAIN Content[d]
  <2>1. ver' = [ver EXCEPT ![c] = @ + 1] /\ ver[c] < scenario.last[c] /\ scenario \in Scenarios
        /\ ver \in [Convs -> Nat] /\ \A d \in Convs : ver[d] \in DOMAIN Content[d]
      BY DEF Write, SourcesTypeOK
  <2>2. \A d \in Convs : DOMAIN Content[d] = 1 .. Len(Content[d]) /\ Len(Content[d]) \in Nat
      BY ContentsAreNumbered
  <2>3. scenario.last[c] \in 1 .. Len(Content[c])
      BY <2>1, ContentsAreNumbered
  <2>4. ver'[c] = ver[c] + 1 /\ \A d \in Convs \ {c} : ver'[d] = ver[d]
      BY <2>1
  <2>5. ver[c] + 1 \in Nat /\ ver[c] + 1 \in DOMAIN Content[c]
      BY <2>1, <2>2, <2>3
  <2>6. ver' \in [Convs -> Nat]
      BY <2>1, <2>5
  <2> QED
      BY <2>1, <2>4, <2>5, <2>6
<1>2. stamp' \in [Convs -> Nat]
    BY DEF Write, SourcesTypeOK
<1>3. wal' \in [Convs -> BOOLEAN]
    BY DEF Write, SourcesTypeOK
<1>4. UNCHANGED low \/ LogGone(c)
    BY DEF Write
<1>5. low' \in [Ingesters -> [Convs -> Nat]]
  <2>1. CASE LogGone(c)
      BY <2>1 DEF LogGone, HistoryTypeOK
  <2> QED
      BY <1>4, <2>1 DEF HistoryTypeOK
<1>6. UNCHANGED <<cver, cstamp, cwal, overlapped, scenario>>
    BY DEF Write
<1> QED
    BY <1>1, <1>2, <1>3, <1>5, <1>6 DEF SourcesTypeOK, HistoryTypeOK

LEMMA CheckpointTypes ==
    ASSUME SourcesTypeOK, HistoryTypeOK, NEW c \in Convs, Checkpoint(c)
    PROVE  SourcesTypeOK' /\ HistoryTypeOK'
<1>1. stamp' \in [Convs -> Nat] /\ wal' \in [Convs -> BOOLEAN]
    BY DEF Checkpoint, SourcesTypeOK
<1>2. low' \in [Ingesters -> [Convs -> Nat]]
    BY DEF Checkpoint, LogGone, HistoryTypeOK
<1> QED
    BY <1>1, <1>2 DEF Checkpoint, SourcesTypeOK, HistoryTypeOK

LEMMA CatalogTypes ==
    ASSUME SourcesTypeOK, WriteCatalog \/ CheckpointCatalog
    PROVE  SourcesTypeOK'
<1>1. CASE WriteCatalog
  <2>1. cver' = cver + 1 /\ cver < scenario.catalogs
      BY <1>1 DEF WriteCatalog
  <2>2. scenario.catalogs \in 1 .. Len(Projects) /\ DOMAIN Projects = 1 .. Len(Projects) /\ Len(Projects) \in Nat
      BY ContentsAreNumbered DEF SourcesTypeOK
  <2>3. cver' \in DOMAIN Projects
      BY <2>1, <2>2 DEF SourcesTypeOK
  <2>4. cstamp' \in Nat
      BY <1>1 DEF WriteCatalog, SourcesTypeOK
  <2>5. cwal' \in BOOLEAN
      BY <1>1 DEF WriteCatalog, SourcesTypeOK
  <2> QED
      BY <1>1, <2>3, <2>4, <2>5 DEF WriteCatalog, SourcesTypeOK, history
<1>2. CASE CheckpointCatalog
  <2>1. cstamp' = cstamp + 1 /\ cwal' = FALSE /\ UNCHANGED <<ver, stamp, wal, cver, history>>
      BY <1>2 DEF CheckpointCatalog
  <2>2. cwal' \in BOOLEAN
      BY <2>1
  <2>3. cstamp' \in Nat
      BY <2>1 DEF SourcesTypeOK
  <2> QED
      BY <2>1, <2>2, <2>3 DEF SourcesTypeOK, history
<1> QED
    BY <1>1, <1>2

\* The native program.
LEMMA NativeTypes == ASSUME IngestTypeOK, Native PROVE IngestTypeOK'
<1>1. UNCHANGED <<ledger, phase, local>>
    BY DEF Native, Write, Checkpoint, WriteCatalog, CheckpointCatalog
<1>2. SourcesTypeOK' /\ HistoryTypeOK'
  <2>1. CASE WriteCatalog \/ CheckpointCatalog
    <3>1. UNCHANGED history
        BY <2>1 DEF WriteCatalog, CheckpointCatalog
    <3> QED
        BY <2>1, <3>1, CatalogTypes DEF IngestTypeOK, HistoryTypeOK, history
  <2> QED
      BY <2>1, WriteTypes, CheckpointTypes DEF Native, IngestTypeOK
<1> QED
    BY <1>1, <1>2 DEF IngestTypeOK, LedgerTypeOK, LocalTypeOK, TodoInv, ledger, local

\* An ingest leaves the others alone.
Others(p) ==
    \A q \in Ingesters \ {p} :
        /\ phase'[q] = phase[q] /\ force'[q] = force[q] /\ todo'[q] = todo[q] /\ known'[q] = known[q]
        /\ catalog'[q] = catalog[q] /\ before'[q] = before[q] /\ after'[q] = after[q] /\ got'[q] = got[q]
        /\ failures'[q] = failures[q]

\* The type of what an ingest knows is kept, and so is what the others know.
Minds(p) == LocalTypeOK' /\ TodoInv' /\ Others(p)

\* The phases that do not deal with a conversation.
Elsewhere == Phases \ Handling

\* An ingest ends with what it knew.
LEMMA Ending ==
    ASSUME LocalTypeOK, TodoInv, NEW p \in Ingesters, NEW l \in Elsewhere, Ends(p, l)
    PROVE  Minds(p) /\ phase'[p] = l
BY DEF LocalTypeOK, TodoInv, Ends, MoveTo, NoManifests, Others, Minds, Elsewhere

\* A conversation is done with.
LEMMA DoneWith ==
    ASSUME LocalTypeOK, TodoInv, NEW p \in Ingesters, Done(p),
           UNCHANGED <<force, known, catalog>>,
           NEW b \in BOOLEAN, failures' = [failures EXCEPT ![p] = b]
    PROVE  /\ Minds(p)
           /\ phase'[p] = "next" /\ todo'[p] = todo[p] \ {Current(p)} /\ failures'[p] = b
BY DEF LocalTypeOK, TodoInv, Done, MoveTo, Others, Minds, Phases, Handling

\* An ingest that moves on and learns at most one thing.
LEMMA MovingOn ==
    ASSUME LocalTypeOK, TodoInv, NEW p \in Ingesters, NEW l \in Phases, MoveTo(p, l),
           l \in Handling => todo[p] # {},
           UNCHANGED <<force, todo, failures>>,
           UNCHANGED known \/ \E ms \in [Convs -> Manifest \cup {None}] : known' = [known EXCEPT ![p] = ms],
           UNCHANGED catalog \/ \E f : catalog' = [catalog EXCEPT ![p] = f],
           UNCHANGED before \/ \E s \in Nat : before' = [before EXCEPT ![p] = s],
           UNCHANGED after \/ \E s \in Nat : after' = [after EXCEPT ![p] = s],
           UNCHANGED got \/ \E v \in Nat : got' = [got EXCEPT ![p] = v]
    PROVE  Minds(p) /\ phase'[p] = l
<1>1. phase' \in [Ingesters -> Phases] /\ phase'[p] = l /\ \A q \in Ingesters \ {p} : phase'[q] = phase[q]
    BY DEF MoveTo, LocalTypeOK
<1>2. TodoInv'
    BY <1>1 DEF TodoInv
<1>3. known' \in [Ingesters -> [Convs -> Manifest \cup {None}]]
      /\ \A q \in Ingesters \ {p} : known'[q] = known[q]
  <2>1. known \in [Ingesters -> [Convs -> Manifest \cup {None}]]
      BY DEF LocalTypeOK
  <2>2. CASE UNCHANGED known
      BY <2>1, <2>2
  <2>3. ASSUME NEW ms \in [Convs -> Manifest \cup {None}], known' = [known EXCEPT ![p] = ms]
        PROVE  known' \in [Ingesters -> [Convs -> Manifest \cup {None}]]
               /\ \A q \in Ingesters \ {p} : known'[q] = known[q]
      BY <2>1, <2>3
  <2> QED
      BY <2>2, <2>3
<1>4. DOMAIN catalog' = Ingesters /\ \A q \in Ingesters \ {p} : catalog'[q] = catalog[q]
    BY DEF LocalTypeOK
<1>5. before' \in [Ingesters -> Nat] /\ \A q \in Ingesters \ {p} : before'[q] = before[q]
    BY DEF LocalTypeOK
<1>6. after' \in [Ingesters -> Nat] /\ \A q \in Ingesters \ {p} : after'[q] = after[q]
    BY DEF LocalTypeOK
<1>7. got' \in [Ingesters -> Nat] /\ \A q \in Ingesters \ {p} : got'[q] = got[q]
    BY DEF LocalTypeOK
<1> QED
    BY <1>1, <1>2, <1>3, <1>4, <1>5, <1>6, <1>7 DEF LocalTypeOK, Others, Minds

\* Before it comes to the conversations an ingest goes from one phase to the
\* next, or it ends.
LEMMA OpeningMinds ==
    ASSUME IngestTypeOK, NEW p \in Ingesters,
           Begin(p) \/ Open(p) \/ StatCatalog(p) \/ CheckCatalog(p) \/ ReadCatalog(p) \/ SyncCatalog(p)
             \/ GiveUp(p) \/ LoadManifests(p)
    PROVE  Minds(p) /\ phase'[p] \notin Handling
<1> USE DEF IngestTypeOK
<1> DEFINE Kept == Minds(p) /\ phase'[p] \notin Handling
<1>1. {"open", "catalog", "catalog_wal", "read_catalog", "sync", "manifests", "next", "idle", "ok", "error"}
        = Elsewhere
    BY DEF Elsewhere, Phases, Handling
<1>2. CASE Begin(p)
  <2>1. phase' = [phase EXCEPT ![p] = "open"] /\ UNCHANGED <<known, catalog, before, after, got, failures>>
      BY <1>2 DEF Begin, MoveTo
  <2>2. todo' = [todo EXCEPT ![p] = {c \in Convs : Exists(c)}]
      BY <1>2 DEF Begin
  <2>3. \E f \in BOOLEAN : force' = [force EXCEPT ![p] = f]
      BY <1>2, IngestAssumption DEF Begin, SourcesTypeOK
  <2> QED
      BY <2>1, <2>2, <2>3, <1>1 DEF LocalTypeOK, TodoInv, Minds, Others, Elsewhere
<1>3. CASE Open(p)
  <2>1. (MoveTo(p, "catalog") /\ UNCHANGED local) \/ Ends(p, "error")
      BY <1>3 DEF Open
  <2>2. CASE MoveTo(p, "catalog") /\ UNCHANGED local
      BY <2>2, <1>1, MovingOn DEF local, Elsewhere
  <2> QED
      BY <2>1, <2>2, <1>1, Ending DEF Elsewhere
<1>4. CASE StatCatalog(p)
  <2>1. UNCHANGED <<force, todo, known, after, got, failures>>
      BY <1>4 DEF StatCatalog
  <2>2. CASE Catalog = Absent
    <3>1. MoveTo(p, "manifests") /\ UNCHANGED before /\ catalog' = [catalog EXCEPT ![p] = meta]
        BY <1>4, <2>2 DEF StatCatalog
    <3> QED
        BY <2>1, <3>1, <1>1, MovingOn DEF Elsewhere
  <2>3. CASE Catalog # Absent
    <3>1. MoveTo(p, "catalog_wal") /\ UNCHANGED catalog /\ before' = [before EXCEPT ![p] = cstamp]
        BY <1>4, <2>3 DEF StatCatalog
    <3> QED
        BY <2>1, <3>1, <1>1, MovingOn DEF Elsewhere, SourcesTypeOK
  <2> QED
      BY <2>2, <2>3
<1>5. CASE CheckCatalog(p)
  <2>1. UNCHANGED <<force, todo, known, before, after, got, failures>>
      BY <1>5 DEF CheckCatalog
  <2>2. (MoveTo(p, "manifests") /\ catalog' = [catalog EXCEPT ![p] = meta])
        \/ (MoveTo(p, "read_catalog") /\ UNCHANGED catalog)
      BY <1>5 DEF CheckCatalog
  <2>3. UNCHANGED catalog \/ \E f : catalog' = [catalog EXCEPT ![p] = f]
      BY <2>2
  <2>4. \E l \in {"manifests", "read_catalog"} : MoveTo(p, l)
      BY <2>2
  <2> QED
      BY <2>1, <2>3, <2>4, <1>1, MovingOn DEF Elsewhere
<1>6. CASE ReadCatalog(p)
  <2>1. MoveTo(p, "sync") /\ UNCHANGED <<force, todo, known, before, after, got, failures>>
      BY <1>6 DEF ReadCatalog
  <2>2. \E f : catalog' = [catalog EXCEPT ![p] = f]
      BY <1>6 DEF ReadCatalog
  <2> QED
      BY <2>1, <2>2, <1>1, MovingOn DEF Elsewhere
<1>7. CASE SyncCatalog(p)
  <2>1. MoveTo(p, "manifests") /\ UNCHANGED <<force, todo, known, catalog, after, got, failures>>
        /\ before' = [before EXCEPT ![p] = 0]
      BY <1>7 DEF SyncCatalog
  <2> QED
      BY <2>1, <1>1, MovingOn DEF Elsewhere
<1>8. CASE GiveUp(p)
    BY <1>8, <1>1, Ending DEF GiveUp, Elsewhere
<1>9. CASE LoadManifests(p)
  <2>1. MoveTo(p, "next") /\ UNCHANGED <<force, todo, catalog, before, after, got, failures>>
        /\ known' = [known EXCEPT ![p] = manifest]
      BY <1>9 DEF LoadManifests
  <2> QED
      BY <2>1, <1>1, MovingOn DEF Elsewhere, LedgerTypeOK
<1> QED
    BY <1>2, <1>3, <1>4, <1>5, <1>6, <1>7, <1>8, <1>9

\* A conversation is looked at.
LEMMA LookingMinds ==
    ASSUME IngestTypeOK, NEW p \in Ingesters,
           Stat(p) \/ StatBefore(p) \/ ReadSnapshot(p) \/ StatAfter(p) \/ CheckComplete(p) \/ CommitFails(p)
    PROVE  Minds(p) /\ todo[p] # {}
<1> USE DEF IngestTypeOK
<1>1. Handling \subseteq Phases
    BY DEF Phases, Handling
<1>2. todo[p] # {}
    BY DEF Stat, StatBefore, ReadSnapshot, StatAfter, CheckComplete, CommitFails, Committing, Handling, TodoInv
<1>3. Current(p) \in Convs
    BY <1>2, CurrentIsTodo
<1>4. stamp[Current(p)] \in Nat /\ ver[Current(p)] \in Nat
    BY <1>3 DEF SourcesTypeOK
<1>5. CASE Stat(p)
  <2>1. UNCHANGED <<force, todo, known, catalog, after, got, failures>>
      BY <1>5 DEF Stat
  <2>2. UNCHANGED before \/ before' = [before EXCEPT ![p] = stamp[Current(p)]]
      BY <1>5 DEF Stat
  <2>3. \E l \in Handling : MoveTo(p, l)
      BY <1>5 DEF Stat, Handling
  <2> QED
      BY <2>1, <2>2, <2>3, <1>1, <1>2, <1>4, MovingOn
<1>6. CASE StatBefore(p)
  <2>1. UNCHANGED <<force, todo, known, catalog, after, got, failures>>
      BY <1>6 DEF StatBefore
  <2>2. UNCHANGED before \/ before' = [before EXCEPT ![p] = stamp[Current(p)]]
      BY <1>6 DEF StatBefore
  <2>3. \E l \in Handling : MoveTo(p, l)
      BY <1>6 DEF StatBefore, Handling
  <2> QED
      BY <2>1, <2>2, <2>3, <1>1, <1>2, <1>4, MovingOn
<1>7. CASE ReadSnapshot(p)
  <2>1. UNCHANGED <<force, todo, known, catalog, before, after, failures>>
      BY <1>7 DEF ReadSnapshot
  <2>2. UNCHANGED got \/ got' = [got EXCEPT ![p] = ver[Current(p)]]
      BY <1>7 DEF ReadSnapshot
  <2>3. \E l \in Handling : MoveTo(p, l)
      BY <1>7 DEF ReadSnapshot, Handling
  <2> QED
      BY <2>1, <2>2, <2>3, <1>1, <1>2, <1>4, MovingOn
<1>8. CASE StatAfter(p)
  <2>1. UNCHANGED <<force, todo, known, catalog, before, got, failures>>
      BY <1>8 DEF StatAfter
  <2>2. UNCHANGED after \/ after' = [after EXCEPT ![p] = stamp[Current(p)]]
      BY <1>8 DEF StatAfter
  <2>3. \E l \in Handling : MoveTo(p, l)
      BY <1>8 DEF StatAfter, Handling
  <2> QED
      BY <2>1, <2>2, <2>3, <1>1, <1>2, <1>4, MovingOn
<1>9. CASE CheckComplete(p) \/ CommitFails(p)
  <2>1. UNCHANGED <<force, todo, known, catalog, before, after, got, failures>>
      BY <1>9 DEF CheckComplete, CommitFails, local
  <2>2. \E l \in Handling : MoveTo(p, l)
      BY <1>9 DEF CheckComplete, CommitFails, Handling
  <2> QED
      BY <2>1, <2>2, <1>1, <1>2, MovingOn
<1> QED
    BY <1>2, <1>5, <1>6, <1>7, <1>8, <1>9

\* A conversation is skipped, stored or given up: the ingest is done with it.
LEMMA LeavingMinds ==
    ASSUME IngestTypeOK, NEW p \in Ingesters, Skip(p) \/ CommitIngest(p) \/ RecordScanFailure(p)
    PROVE  Minds(p) /\ todo[p] # {}
<1> USE DEF IngestTypeOK
<1>1. todo[p] # {}
    BY DEF Skip, CommitIngest, RecordScanFailure, Committing, Handling, TodoInv
<1>2. failures[p] \in BOOLEAN /\ failures = [failures EXCEPT ![p] = failures[p]]
    BY DEF LocalTypeOK
<1>3. CASE Skip(p)
  <2>1. UNCHANGED <<force, known, catalog, failures>>
      BY <1>3 DEF Skip
  <2>2. Done(p) \/ (MoveTo(p, "read") /\ UNCHANGED <<todo, before, after, got>>)
      BY <1>3 DEF Skip
  <2>3. CASE MoveTo(p, "read") /\ UNCHANGED <<todo, before, after, got>>
    <3>1. "read" \in Phases
        BY DEF Phases
    <3> QED
        BY <1>1, <2>1, <2>3, <3>1, MovingOn
  <2> QED
      BY <1>1, <1>2, <2>1, <2>2, <2>3, DoneWith
<1>4. CASE CommitIngest(p)
    BY <1>1, <1>2, <1>4, DoneWith DEF CommitIngest
<1>5. CASE RecordScanFailure(p)
    BY <1>1, <1>5, DoneWith DEF RecordScanFailure
<1> QED
    BY <1>3, <1>4, <1>5

\* An ingest ends.
LEMMA EndingMinds ==
    ASSUME IngestTypeOK, NEW p \in Ingesters, Finish(p) \/ Crash(p)
    PROVE  Minds(p) /\ phase'[p] \in {"idle", "ok", "error"}
<1>1. {"idle", "ok", "error"} \subseteq Elsewhere
    BY DEF Elsewhere, Phases, Handling
<1>2. \E l \in {"idle", "ok", "error"} : Ends(p, l)
    BY DEF Finish, Crash
<1> QED
    BY <1>1, <1>2, Ending DEF IngestTypeOK

\* What each step of an ingest does to the rest of the state: only some steps
\* write the ledger.
Reads(p) ==
    \/ StatCatalog(p) \/ CheckCatalog(p) \/ ReadCatalog(p) \/ GiveUp(p) \/ LoadManifests(p)
    \/ Stat(p) \/ Skip(p) \/ StatBefore(p) \/ ReadSnapshot(p) \/ StatAfter(p)
    \/ CheckComplete(p) \/ CommitFails(p) \/ Finish(p) \/ Crash(p)

LEMMA ReadsOnly == ASSUME NEW p \in Ingesters, Reads(p) PROVE UNCHANGED <<sources, ledger, history>>
BY DEF Reads, StatCatalog, CheckCatalog, ReadCatalog, GiveUp, LoadManifests, Stat, Skip, StatBefore, ReadSnapshot,
    StatAfter, CheckComplete, CommitFails, Finish, Crash

\* The steps of an ingest.
Step(p) == Reads(p) \/ Begin(p) \/ Open(p) \/ SyncCatalog(p) \/ CommitIngest(p) \/ RecordScanFailure(p)

LEMMA StepMinds == ASSUME IngestTypeOK, NEW p \in Ingesters, Step(p) PROVE Minds(p)
BY OpeningMinds, LookingMinds, LeavingMinds, EndingMinds DEF Step, Reads

LEMMA NextIs == ASSUME IngestNext PROVE Native \/ \E p \in Ingesters : Step(p)
BY DEF IngestNext, Ingesting, Step, Reads

\* What is committed is what was read of the conversation.
LEMMA Committed ==
    ASSUME IngestTypeOK, ReadInv, NEW p \in Ingesters, CommitIngest(p)
    PROVE  /\ Current(p) \in Convs /\ Current(p) \in todo[p]
           /\ got[p] \in DOMAIN Content[Current(p)] /\ got[p] \in Nat \ {0}
           /\ Readable(Content[Current(p)][got[p]])
           /\ ReadRecords(p) = Extracted[Current(p)][got[p]]
           /\ Describes(Current(p), before[p], got[p])
           /\ phase[p] = "commit_complete" => after[p] = before[p]
           /\ phase[p] \in HasRead
<1>1. phase[p] \in {"commit_complete", "commit_active"}
    BY DEF CommitIngest, Committing
<1>2. todo[p] # {} /\ phase[p] \in HasRead
    BY <1>1 DEF IngestTypeOK, TodoInv, Handling, HasRead
<1>3. Current(p) \in Convs /\ Current(p) \in todo[p]
    BY <1>2, CurrentIsTodo
<1>4. /\ Describes(Current(p), before[p], got[p])
      /\ got[p] \in DOMAIN Content[Current(p)]
      /\ Readable(Content[Current(p)][got[p]])
      /\ phase[p] = "commit_complete" => after[p] = before[p]
    BY <1>2 DEF ReadInv
<1>5. got[p] \in Nat \ {0}
    BY <1>3, <1>4, ContentsAreNumbered
<1> QED
    BY <1>2, <1>3, <1>4, <1>5 DEF ReadRecords

LEMMA LedgerTypes ==
    ASSUME IngestTypeOK, ReadInv, NEW p \in Ingesters,
           Open(p) \/ SyncCatalog(p) \/ CommitIngest(p) \/ RecordScanFailure(p)
    PROVE  LedgerTypeOK' /\ UNCHANGED <<sources, history>>
<1> USE DEF IngestTypeOK
<1>1. CASE Open(p)
  <2>1. Backfilled \in [Convs -> Manifest \cup {None}]
      BY ManifestType DEF Backfilled, LedgerTypeOK
  <2>2. version' \in 0 .. 3
      BY <1>1 DEF Open, LedgerTypeOK
  <2>3. manifest' = manifest \/ manifest' = Backfilled
      BY <1>1 DEF Open
  <2> QED
      BY <1>1, <2>1, <2>2, <2>3 DEF Open, LedgerTypeOK
<1>2. CASE SyncCatalog(p)
    BY <1>2 DEF SyncCatalog, LedgerTypeOK, LocalTypeOK
<1>3. CASE CommitIngest(p)
  <2>1. manifest' \in [Convs -> Manifest \cup {None}]
    <3> DEFINE status == IF phase[p] = "commit_complete" THEN "completed" ELSE "active"
               new == [stamp |-> after[p], status |-> status, scan |-> status,
                       parser |-> "current", count |-> Cardinality(ReadRecords(p))]
    <3>1. manifest' = [manifest EXCEPT ![Current(p)] = new]
        BY <1>3 DEF CommitIngest
    <3>2. status \in {"completed", "active"} /\ after[p] \in Nat
        BY DEF LocalTypeOK
    <3> HIDE DEF status
    <3>3. new \in Manifest
      <4>1. Current(p) \in Convs /\ got[p] \in DOMAIN Content[Current(p)]
            /\ ReadRecords(p) = Extracted[Current(p)][got[p]]
          BY <1>3, Committed
      <4>2. [stamp |-> after[p], status |-> status, scan |-> status,
             parser |-> "current", count |-> Cardinality(Extracted[Current(p)][got[p]])] \in Manifest
          BY <3>2, <4>1, CommittedType
      <4> QED
          BY <4>1, <4>2
    <3> QED
        BY <3>1, <3>3 DEF LedgerTypeOK
  <2>2. from' \in [Convs -> Nat]
      BY <1>3, Committed DEF CommitIngest, LedgerTypeOK
  <2>3. DOMAIN rows' = Convs /\ DOMAIN project' = Convs
      BY <1>3 DEF CommitIngest, LedgerTypeOK
  <2>4. UNCHANGED <<sources, version, sync, history>>
      BY <1>3 DEF CommitIngest
  <2> QED
      BY <2>1, <2>2, <2>3, <2>4 DEF LedgerTypeOK
<1>4. CASE RecordScanFailure(p)
  <2>1. manifest' \in [Convs -> Manifest \cup {None}]
    <3>1. [stamp |-> 0, status |-> "failed", scan |-> "failed", parser |-> "current", count |-> 0] \in Manifest
        BY DEF Manifest, Counts
    <3>2. manifest' = manifest \/ manifest' = [manifest EXCEPT ![Current(p)] =
            IF @ = None
            THEN [stamp |-> 0, status |-> "failed", scan |-> "failed", parser |-> "current", count |-> 0]
            ELSE [@ EXCEPT !.scan = "failed"]]
        BY <1>4 DEF RecordScanFailure
    <3>3. \A m \in Manifest : [m EXCEPT !.scan = "failed"] \in Manifest
        BY ManifestType
    <3> QED
        BY <3>1, <3>2, <3>3 DEF LedgerTypeOK
  <2>2. UNCHANGED <<sources, version, rows, project, sync, from, history>>
      BY <1>4 DEF RecordScanFailure
  <2> QED
      BY <2>1, <2>2 DEF LedgerTypeOK
<1> QED
    BY <1>1, <1>2, <1>3, <1>4

LEMMA NextIngestType ==
    ASSUME IngestTypeOK, ReadInv, [IngestNext]_ingestVars
    PROVE  IngestTypeOK'
<1> USE DEF IngestTypeOK
<1>1. CASE UNCHANGED ingestVars
    BY <1>1 DEF ingestVars, sources, ledger, local, history,
        SourcesTypeOK, LedgerTypeOK, LocalTypeOK, HistoryTypeOK, TodoInv
<1>2. CASE Native
    BY <1>2, NativeTypes
<1>3. ASSUME NEW p \in Ingesters, Step(p) PROVE IngestTypeOK'
  <2>1. LocalTypeOK' /\ TodoInv'
      BY <1>3, StepMinds DEF Minds
  <2>2. CASE Reads(p)
      BY <2>1, <2>2, ReadsOnly DEF sources, ledger, history, SourcesTypeOK, LedgerTypeOK, HistoryTypeOK
  <2>3. CASE Begin(p)
    <3>1. UNCHANGED <<sources, ledger, scenario>>
        BY <2>3 DEF Begin
    <3>2. overlapped' \in BOOLEAN
        BY <2>3 DEF Begin, HistoryTypeOK
    <3>3. low' \in [Ingesters -> [Convs -> Nat]]
        BY <2>3 DEF Begin, HistoryTypeOK, SourcesTypeOK
    <3> QED
        BY <2>1, <3>1, <3>2, <3>3 DEF sources, ledger, SourcesTypeOK, LedgerTypeOK, HistoryTypeOK
  <2>4. CASE Open(p) \/ SyncCatalog(p) \/ CommitIngest(p) \/ RecordScanFailure(p)
      BY <2>1, <2>4, LedgerTypes DEF sources, history, SourcesTypeOK, HistoryTypeOK
  <2> QED
      BY <1>3, <2>2, <2>3, <2>4 DEF Step
<1> QED
    BY <1>1, <1>2, <1>3, NextIs

-----------------------------------------------------------------------------
(* What the native program may do.                                         *)

\* A conversation that still has its stamp, and no log, has not changed; stamps
\* and versions only grow.
Drift ==
    \A c \in Convs :
        /\ stamp'[c] >= stamp[c] /\ ver'[c] >= ver[c]
        /\ stamp'[c] = stamp[c] /\ ~wal'[c] /\ Content[c][ver'[c]] # Absent =>
            ~wal[c] /\ ver'[c] = ver[c]

\* The same of the catalog.
CatalogDrift ==
    /\ cstamp' >= cstamp
    /\ cstamp' = cstamp /\ ~cwal' /\ Projects[cver'] # Absent => ~cwal /\ cver' = cver

LEMMA NativeDrifts ==
    ASSUME IngestTypeOK, Native
    PROVE  Drift /\ CatalogDrift /\ UNCHANGED <<ledger, phase, local, overlapped, scenario>>
<1> USE DEF IngestTypeOK, SourcesTypeOK
<1>1. ASSUME NEW c \in Convs, Write(c) PROVE Drift
  <2>1. ver' = [ver EXCEPT ![c] = @ + 1]
      BY <1>1 DEF Write
  <2>2. \A d \in Convs : ver[d] \in Nat /\ stamp[d] \in Nat
      OBVIOUS
  <2>3. CASE Content[c][ver'[c]] = Absent /\ wal' = [wal EXCEPT ![c] = FALSE] /\ UNCHANGED stamp
      BY <2>1, <2>2, <2>3 DEF Drift
  <2>4. CASE wal' = [wal EXCEPT ![c] = TRUE] /\ UNCHANGED stamp
      BY <2>1, <2>2, <2>4 DEF Drift
  <2>5. CASE stamp' = [stamp EXCEPT ![c] = @ + 1] /\ UNCHANGED wal
      BY <2>1, <2>2, <2>5 DEF Drift
  <2> QED
      BY <1>1, <2>3, <2>4, <2>5 DEF Write
<1>2. ASSUME NEW c \in Convs, Checkpoint(c) PROVE Drift
  <2>1. stamp' = [stamp EXCEPT ![c] = @ + 1] /\ wal' = [wal EXCEPT ![c] = FALSE] /\ UNCHANGED ver
      BY <1>2 DEF Checkpoint
  <2> QED
      BY <2>1 DEF Drift
<1>3. ASSUME UNCHANGED <<ver, stamp, wal>> PROVE Drift
    BY <1>3 DEF Drift
<1>4. ASSUME UNCHANGED <<cver, cstamp, cwal>> PROVE CatalogDrift
    BY <1>4 DEF CatalogDrift
<1>5. ASSUME WriteCatalog PROVE CatalogDrift
  <2>1. cstamp \in Nat
      OBVIOUS
  <2>2. CASE Projects[cver'] = Absent /\ UNCHANGED cstamp
      BY <2>1, <2>2 DEF CatalogDrift
  <2>3. CASE cwal' = TRUE /\ UNCHANGED cstamp
      BY <2>1, <2>3 DEF CatalogDrift
  <2>4. CASE cstamp' = cstamp + 1
      BY <2>1, <2>4 DEF CatalogDrift
  <2> QED
      BY <1>5, <2>2, <2>3, <2>4 DEF WriteCatalog
<1>6. ASSUME CheckpointCatalog PROVE CatalogDrift
  <2>1. cstamp' = cstamp + 1 /\ cstamp \in Nat
      BY <1>6 DEF CheckpointCatalog
  <2> QED
      BY <2>1 DEF CatalogDrift
<1>7. UNCHANGED <<ledger, phase, local, overlapped, scenario>>
    BY DEF Native, Write, Checkpoint, WriteCatalog, CheckpointCatalog, history
<1>8. Drift
    BY <1>1, <1>2, <1>3 DEF Native, WriteCatalog, CheckpointCatalog
<1>9. CatalogDrift
    BY <1>4, <1>5, <1>6 DEF Native, Write, Checkpoint
<1> QED
    BY <1>7, <1>8, <1>9

\* What was once known of a stamp stays known.
LEMMA DescribesStays ==
    ASSUME IngestTypeOK, IngestTypeOK', Drift, NEW c \in Convs, NEW s \in Nat, NEW v, Describes(c, s, v)
    PROVE  Describes(c, s, v)'
<1>1. stamp[c] \in Nat /\ stamp'[c] \in Nat
    BY DEF IngestTypeOK, SourcesTypeOK
<1>2. s <= stamp'[c]
    BY <1>1 DEF Drift, Describes
<1>3. ASSUME stamp'[c] = s, ~wal'[c], Exists(c)' PROVE ver'[c] = v
  <2>1. stamp[c] = s
      BY <1>1, <1>3 DEF Drift, Describes
  <2>2. Content[c][ver'[c]] # Absent
      BY <1>3 DEF Exists, At
  <2>3. ~wal[c] /\ ver'[c] = ver[c]
      BY <1>3, <2>1, <2>2 DEF Drift
  <2>4. Exists(c)
      BY <2>2, <2>3 DEF Exists, At
  <2> QED
      BY <2>1, <2>3, <2>4 DEF Describes
<1> QED
    BY <1>2, <1>3 DEF Describes

\* A catalog that has a stamp and no log had it before.
LEMMA FreshStays ==
    ASSUME IngestTypeOK, IngestTypeOK', CatalogDrift, NEW s, s \in Nat => s <= cstamp, s \in Nat \cup {None}, Fresh(s)'
    PROVE  Fresh(s) /\ Catalog' = Catalog
<1>1. cstamp \in Nat /\ cstamp' \in Nat
    BY DEF IngestTypeOK, SourcesTypeOK
<1>2. s = cstamp' /\ ~cwal' /\ Projects[cver'] # Absent
    BY DEF Fresh, Catalog
<1>3. cstamp' = cstamp
    BY <1>1, <1>2 DEF CatalogDrift
<1>4. ~cwal /\ cver' = cver
    BY <1>2, <1>3 DEF CatalogDrift
<1> QED
    BY <1>2, <1>3, <1>4 DEF Fresh, Catalog

-----------------------------------------------------------------------------
(* The rows and their manifests.                                           *)

\* What is said of one conversation.
Stored(c) ==
    /\ from[c] = 0 => rows[c] = {}
    /\ from[c] # 0 =>
        /\ from[c] \in DOMAIN Content[c]
        /\ Readable(Content[c][from[c]])
        /\ rows[c] = Extracted[c][from[c]]
    /\ Complete(manifest[c]) => manifest[c].count = Cardinality(rows[c])
    /\ Complete(manifest[c]) /\ manifest[c].parser = "current" =>
        Describes(c, manifest[c].stamp, from[c])

\* Filling in the scans, or the failure of one, says nothing new of the rows.
LEMMA StoredStays ==
    ASSUME IngestTypeOK, NEW c \in Convs, Stored(c), UNCHANGED <<ver, stamp, wal>>,
           from'[c] = from[c], rows'[c] = rows[c],
           Complete(manifest'[c]) =>
               /\ Complete(manifest[c])
               /\ manifest'[c].count = manifest[c].count
               /\ manifest'[c].parser = manifest[c].parser
               /\ manifest'[c].stamp = manifest[c].stamp
    PROVE  Stored(c)'
BY DEF Stored, Describes, Exists, At

LEMMA BackfilledTells ==
    ASSUME LedgerTypeOK, NEW c \in Convs, Complete(Backfilled[c])
    PROVE  /\ Complete(manifest[c])
           /\ Backfilled[c].count = manifest[c].count
           /\ Backfilled[c].parser = manifest[c].parser
           /\ Backfilled[c].stamp = manifest[c].stamp
<1>1. CASE manifest[c] # None /\ manifest[c].scan = None
  <2>1. Backfilled[c] = [manifest[c] EXCEPT !.scan = manifest[c].status] /\ manifest[c] \in Manifest
      BY <1>1 DEF Backfilled, LedgerTypeOK
  <2> QED
      BY <1>1, <2>1 DEF Manifest, Complete
<1>2. CASE ~(manifest[c] # None /\ manifest[c].scan = None)
    BY <1>2 DEF Backfilled
<1> QED
    BY <1>1, <1>2

LEMMA FailedTells ==
    ASSUME LedgerTypeOK, NEW p \in Ingesters, RecordScanFailure(p), NEW c \in Convs, Complete(manifest'[c])
    PROVE  /\ Complete(manifest[c])
           /\ manifest'[c].count = manifest[c].count
           /\ manifest'[c].parser = manifest[c].parser
           /\ manifest'[c].stamp = manifest[c].stamp
<1> DEFINE bad == [stamp |-> 0, status |-> "failed", scan |-> "failed", parser |-> "current", count |-> 0]
<1>1. bad.status = "failed"
    OBVIOUS
<1>2. manifest' = manifest \/ manifest' = [manifest EXCEPT ![Current(p)] =
            IF @ = None THEN bad ELSE [@ EXCEPT !.scan = "failed"]]
    BY DEF RecordScanFailure
<1> HIDE DEF bad
<1>3. manifest'[c] \in {manifest[c], bad} \/
        (manifest[c] # None /\ manifest'[c] = [manifest[c] EXCEPT !.scan = "failed"])
    BY <1>2 DEF LedgerTypeOK
<1>4. CASE manifest[c] # None /\ manifest'[c] = [manifest[c] EXCEPT !.scan = "failed"]
  <2>1. manifest[c] \in Manifest
      BY <1>4 DEF LedgerTypeOK
  <2> QED
      BY <1>4, <2>1 DEF Manifest, Complete
<1> QED
    BY <1>1, <1>3, <1>4 DEF Complete

\* The rows of a commit are those of the version that was read.
LEMMA CommitStores ==
    ASSUME IngestTypeOK, StoredInv, ReadInv, NEW p \in Ingesters, CommitIngest(p)
    PROVE  StoredInv'
<1>0. PICK cur \in Convs : cur = Current(p)
    BY Committed
<1> DEFINE status == IF phase[p] = "commit_complete" THEN "completed" ELSE "active"
<1>1. /\ cur \in Convs /\ got[p] \in DOMAIN Content[cur] /\ got[p] \in Nat \ {0}
      /\ Readable(Content[cur][got[p]])
      /\ ReadRecords(p) = Extracted[cur][got[p]]
      /\ Describes(cur, before[p], got[p])
      /\ phase[p] = "commit_complete" => after[p] = before[p]
    BY <1>0, Committed
<1>2. /\ rows' = [rows EXCEPT ![cur] = ReadRecords(p)]
      /\ manifest' = [manifest EXCEPT ![cur] = [stamp |-> after[p], status |-> status, scan |-> status,
                        parser |-> "current", count |-> Cardinality(ReadRecords(p))]]
      /\ from' = [from EXCEPT ![cur] = got[p]]
      /\ UNCHANGED <<ver, stamp, wal>>
    BY <1>0 DEF CommitIngest, sources
<1>3. DOMAIN rows = Convs /\ DOMAIN manifest = Convs /\ DOMAIN from = Convs
    BY DEF IngestTypeOK, LedgerTypeOK
<1>4. \A c \in Convs \ {cur} : Stored(c)'
  <2> TAKE c \in Convs \ {cur}
  <2>1. Stored(c)
      BY DEF StoredInv, Stored
  <2>2. from'[c] = from[c] /\ rows'[c] = rows[c] /\ manifest'[c] = manifest[c]
      BY <1>1, <1>2, <1>3
  <2> QED
      BY <1>2, <2>1, <2>2, StoredStays
<1>5. Stored(cur)'
  <2>1. /\ from'[cur] = got[p] /\ rows'[cur] = ReadRecords(p)
        /\ manifest'[cur].stamp = after[p] /\ manifest'[cur].status = status
        /\ manifest'[cur].count = Cardinality(ReadRecords(p))
      BY <1>1, <1>2, <1>3
  <2>2. status = "completed" => after[p] = before[p]
      BY <1>1
  <2> HIDE DEF status
  <2>3. Complete(manifest'[cur]) => manifest'[cur].stamp = before[p]
      BY <2>1, <2>2 DEF Complete
  <2>4. ver'[cur] = ver[cur] /\ stamp'[cur] = stamp[cur] /\ wal'[cur] = wal[cur]
      BY <1>2
  <2>5. Complete(manifest'[cur]) => Describes(cur, manifest[cur].stamp, from[cur])'
      BY <1>1, <2>1, <2>3, <2>4 DEF Describes, Exists, At
  <2> QED
      BY <1>1, <2>1, <2>5 DEF Stored
<1>6. \A c, d \in Convs : c # d => Gens(rows'[c]) \cap Gens(rows'[d]) = {}
  <2>1. \A c \in Convs \ {cur} : Gens(ReadRecords(p)) \cap Gens(rows[c]) = {}
      BY <1>0 DEF CommitIngest, Unique
  <2>2. \A c \in Convs : rows'[c] = IF c = cur THEN ReadRecords(p) ELSE rows[c]
      BY <1>1, <1>2, <1>3
  <2>3. \A c, d \in Convs : c # d => Gens(rows[c]) \cap Gens(rows[d]) = {}
      BY DEF StoredInv
  <2> QED
      BY <2>1, <2>2, <2>3
<1>7. \A c \in Convs : Stored(c)'
    BY <1>4, <1>5
<1> QED
    BY <1>6, <1>7 DEF StoredInv, Stored, Gens

LEMMA NextStored ==
    ASSUME IngestTypeOK, StoredInv, ReadInv, [IngestNext]_ingestVars
    PROVE  StoredInv'
<1>1. ASSUME UNCHANGED <<rows, from>>, \A c \in Convs : Stored(c)' PROVE StoredInv'
    BY <1>1 DEF StoredInv, Stored, Gens
<1>2. \A c \in Convs : Stored(c)
    BY DEF StoredInv, Stored
<1>3. ASSUME UNCHANGED <<ver, stamp, wal, rows, manifest, from>> PROVE StoredInv'
    BY <1>3 DEF StoredInv, Describes, Exists, At, Gens
<1>4. CASE UNCHANGED ingestVars
    BY <1>3, <1>4 DEF ingestVars, sources, ledger
<1>5. CASE Native
  <2>1. Drift /\ UNCHANGED ledger /\ IngestTypeOK'
      BY <1>5, NativeDrifts, NativeTypes
  <2>2. UNCHANGED <<rows, manifest, from>>
      BY <2>1 DEF ledger
  <2>3. ASSUME NEW c \in Convs PROVE Stored(c)'
    <3>1. ASSUME Complete(manifest[c]), manifest[c].parser = "current"
          PROVE  Describes(c, manifest[c].stamp, from[c])'
      <4>1. manifest[c].stamp \in Nat
          BY <3>1 DEF IngestTypeOK, LedgerTypeOK, Complete, Manifest
      <4>2. Describes(c, manifest[c].stamp, from[c])
          BY <1>2, <3>1 DEF Stored
      <4> QED
          BY <2>1, <2>2, <4>1, <4>2, DescribesStays DEF Describes
    <3> QED
        BY <1>2, <2>2, <3>1 DEF Stored
  <2> QED
      BY <1>1, <2>2, <2>3
<1>6. ASSUME NEW p \in Ingesters, Step(p) PROVE StoredInv'
  <2>1. CASE Reads(p) \/ Begin(p) \/ SyncCatalog(p)
    <3>1. UNCHANGED <<ver, stamp, wal, rows, manifest, from>>
        BY <2>1, ReadsOnly DEF Begin, SyncCatalog, sources, ledger
    <3> QED
        BY <1>3, <3>1
  <2>2. CASE Open(p)
    <3>1. UNCHANGED <<ver, stamp, wal, rows, from>> /\ (manifest' = manifest \/ manifest' = Backfilled)
        BY <2>2 DEF Open, sources
    <3> QED
        BY <1>1, <1>2, <3>1, StoredStays, BackfilledTells DEF IngestTypeOK
  <2>3. CASE CommitIngest(p)
      BY <2>3, CommitStores
  <2>4. CASE RecordScanFailure(p)
    <3>1. UNCHANGED <<ver, stamp, wal, rows, from>>
        BY <2>4 DEF RecordScanFailure, sources
    <3> QED
        BY <1>1, <1>2, <2>4, <3>1, StoredStays, FailedTells DEF IngestTypeOK
  <2> QED
      BY <1>6, <2>1, <2>2, <2>3, <2>4 DEF Step
<1> QED
    BY <1>4, <1>5, <1>6, NextIs

-----------------------------------------------------------------------------
(* What an ingest reads.                                                   *)

\* What is known of one ingest.
ReadsRight(p) ==
    /\ phase[p] = "snapshot" => before[p] <= stamp[Current(p)]
    /\ phase[p] \in HasRead =>
        /\ Describes(Current(p), before[p], got[p])
        /\ got[p] \in DOMAIN Content[Current(p)]
        /\ Readable(Content[Current(p)][got[p]])
    /\ phase[p] = "commit_complete" => after[p] = before[p]

\* Only the steps that examine a conversation lead on to its commit.
LEMMA OnlyReadingReads ==
    ASSUME IngestTypeOK, NEW p \in Ingesters, Step(p), phase'[p] \in {"snapshot"} \cup HasRead
    PROVE  StatBefore(p) \/ ReadSnapshot(p) \/ StatAfter(p) \/ CheckComplete(p)
<1> USE DEF HasRead
<1>1. DOMAIN phase = Ingesters
    BY DEF IngestTypeOK, LocalTypeOK
<1>2. HasRead \cup {"snapshot"} \subseteq Handling
    BY DEF Handling
<1>3. ~(Begin(p) \/ Open(p) \/ StatCatalog(p) \/ CheckCatalog(p) \/ ReadCatalog(p) \/ SyncCatalog(p)
             \/ GiveUp(p) \/ LoadManifests(p))
    BY <1>2, OpeningMinds
<1>4. ~(Finish(p) \/ Crash(p))
    BY EndingMinds
<1>5. ~(Stat(p) \/ Skip(p) \/ CommitIngest(p) \/ CommitFails(p) \/ RecordScanFailure(p))
    BY <1>1 DEF Stat, Skip, CommitIngest, CommitFails, RecordScanFailure, Done, MoveTo
<1> QED
    BY <1>3, <1>4, <1>5 DEF Step, Reads

LEMMA ReadsRightStays ==
    ASSUME IngestTypeOK, IngestTypeOK', Drift, NEW p \in Ingesters, ReadsRight(p),
           phase'[p] = phase[p], before'[p] = before[p], after'[p] = after[p], got'[p] = got[p],
           todo'[p] = todo[p]
    PROVE  ReadsRight(p)'
<1>1. Current(p)' = Current(p)
    BY DEF Current
<1>2. ASSUME phase[p] \in {"snapshot"} \cup HasRead PROVE Current(p) \in Convs
    BY <1>2, CurrentIsTodo DEF IngestTypeOK, TodoInv, Handling, HasRead
<1>3. before[p] \in Nat /\ \A c \in Convs : stamp[c] \in Nat /\ stamp'[c] \in Nat /\ stamp'[c] >= stamp[c]
    BY DEF IngestTypeOK, LocalTypeOK, SourcesTypeOK, Drift
<1>4. ASSUME phase[p] = "snapshot" PROVE before[p] <= stamp'[Current(p)]
    BY <1>2, <1>3, <1>4 DEF ReadsRight
<1>5. ASSUME phase[p] \in HasRead, NEW c \in Convs, c = Current(p)
      PROVE  /\ Describes(c, before[p], got[p])'
             /\ got[p] \in DOMAIN Content[c] /\ Readable(Content[c][got[p]])
  <2>1. Describes(c, before[p], got[p]) /\ got[p] \in DOMAIN Content[c] /\ Readable(Content[c][got[p]])
      BY <1>5 DEF ReadsRight
  <2> QED
      BY <1>3, <2>1, DescribesStays DEF Describes
<1> QED
    BY <1>1, <1>2, <1>4, <1>5 DEF ReadsRight, Describes, Exists, At

\* The four steps of a reading.
LEMMA ReadingReads ==
    ASSUME IngestTypeOK, NEW p \in Ingesters, ReadsRight(p),
           StatBefore(p) \/ ReadSnapshot(p) \/ StatAfter(p) \/ CheckComplete(p)
    PROVE  ReadsRight(p)'
<1> USE DEF HasRead
<1>1. todo[p] # {} /\ UNCHANGED <<ver, stamp, wal, todo>>
    BY LookingMinds DEF StatBefore, ReadSnapshot, StatAfter, CheckComplete, sources, local
<1>2. PICK c \in Convs : c = Current(p) /\ c = Current(p)'
    BY <1>1, CurrentIsTodo DEF Current
<1>3. stamp[c] \in Nat /\ ver[c] \in DOMAIN Content[c] /\ before[p] \in Nat
    BY DEF IngestTypeOK, SourcesTypeOK, LocalTypeOK
<1>4. DOMAIN phase = Ingesters /\ DOMAIN before = Ingesters /\ DOMAIN after = Ingesters /\ DOMAIN got = Ingesters
    BY DEF IngestTypeOK, LocalTypeOK
<1>5. CASE StatBefore(p)
  <2>1. phase'[p] = "failed" \/ (phase'[p] = "snapshot" /\ before'[p] = stamp[c])
      BY <1>2, <1>4, <1>5 DEF StatBefore, MoveTo
  <2> QED
      BY <1>1, <1>2, <1>3, <2>1 DEF ReadsRight
<1>6. CASE ReadSnapshot(p)
  <2>1. phase[p] = "snapshot" /\ UNCHANGED before
      BY <1>6 DEF ReadSnapshot
  <2>2. before[p] <= stamp[c]
      BY <1>2, <2>1 DEF ReadsRight
  <2>3. phase'[p] = "failed" \/ (phase'[p] = "stat_after" /\ got'[p] = ver[c] /\ Readable(Content[c][ver[c]]))
      BY <1>2, <1>4, <1>6 DEF ReadSnapshot, MoveTo, At
  <2>4. Describes(c, before[p], ver[c])
      BY <2>2 DEF Describes
  <2> QED
      BY <1>1, <1>2, <1>3, <2>1, <2>2, <2>3, <2>4 DEF ReadsRight, Describes, Exists, At
<1>7. CASE StatAfter(p) \/ CheckComplete(p)
  <2>1. phase[p] \in HasRead /\ UNCHANGED <<before, got>>
      BY <1>7 DEF StatAfter, CheckComplete, local
  <2>2. Describes(c, before[p], got[p]) /\ got[p] \in DOMAIN Content[c] /\ Readable(Content[c][got[p]])
      BY <1>2, <2>1 DEF ReadsRight
  <2>3. phase'[p] # "snapshot"
      BY <1>4, <1>7 DEF StatAfter, CheckComplete, MoveTo
  <2>4. phase'[p] = "commit_complete" => after'[p] = before'[p]
    <3>1. CASE StatAfter(p)
        BY <1>4, <3>1 DEF StatAfter, MoveTo
    <3>2. CASE CheckComplete(p)
        BY <1>4, <3>2 DEF CheckComplete, MoveTo, local
    <3> QED
        BY <1>7, <3>1, <3>2
  <2> QED
      BY <1>1, <1>2, <2>1, <2>2, <2>3, <2>4 DEF ReadsRight, Describes, Exists, At
<1> QED
    BY <1>5, <1>6, <1>7

LEMMA NextReadInv ==
    ASSUME IngestTypeOK, ReadInv, [IngestNext]_ingestVars
    PROVE  ReadInv'
<1>1. IngestTypeOK'
    BY NextIngestType
<1>2. SUFFICES ASSUME NEW p \in Ingesters PROVE ReadsRight(p)'
    BY <1>2 DEF ReadInv, ReadsRight
<1>3. ReadsRight(p)
    BY DEF ReadInv, ReadsRight
<1>4. ASSUME UNCHANGED <<ver, stamp, wal>> PROVE Drift
    BY <1>4 DEF Drift, IngestTypeOK, SourcesTypeOK
<1>5. CASE UNCHANGED ingestVars
    BY <1>1, <1>3, <1>4, <1>5, ReadsRightStays DEF ingestVars, sources, local
<1>6. CASE Native
  <2>1. Drift /\ UNCHANGED <<phase, local>>
      BY <1>6, NativeDrifts
  <2> QED
      BY <1>1, <1>3, <2>1, ReadsRightStays DEF local
<1>7. ASSUME NEW q \in Ingesters, Step(q) PROVE ReadsRight(p)'
  <2>1. CASE p = q
    <3>1. CASE phase'[p] \in {"snapshot"} \cup HasRead
        BY <1>3, <1>7, <2>1, <3>1, OnlyReadingReads, ReadingReads
    <3>2. CASE phase'[p] \notin {"snapshot"} \cup HasRead
        BY <3>2 DEF ReadsRight, HasRead
    <3> QED
        BY <3>1, <3>2
  <2>2. CASE p # q
    <3>1. Others(q)
        BY <1>7, StepMinds DEF Minds
    <3>2. UNCHANGED <<ver, stamp, wal>>
        BY <1>7, ReadsOnly, LedgerTypes DEF Step, Begin, sources
    <3> QED
        BY <1>1, <1>3, <1>4, <2>2, <3>1, <3>2, ReadsRightStays DEF Others
  <2> QED
      BY <2>1, <2>2
<1> QED
    BY <1>5, <1>6, <1>7, NextIs

-----------------------------------------------------------------------------
(* One ingest at a time, until two overlap.                                *)

\* Only an ingest that runs does anything but begin.
LEMMA StepRuns == ASSUME NEW p \in Ingesters, Step(p), ~Begin(p) PROVE Running(p)
BY DEF Step, Reads, Open, StatCatalog, CheckCatalog, ReadCatalog, SyncCatalog, GiveUp, LoadManifests, Stat, Skip,
    StatBefore, ReadSnapshot, StatAfter, CheckComplete, CommitIngest, Committing, CommitFails, RecordScanFailure,
    Finish, Crash, Running, Ended

LEMMA OverlapStays ==
    ASSUME HistoryTypeOK, NEW q \in Ingesters, Step(q)
    PROVE  /\ overlapped => overlapped'
           /\ ~Begin(q) => UNCHANGED history
           /\ Begin(q) => overlapped' = (overlapped \/ \E p \in Ingesters \ {q} : Running(p))
BY ReadsOnly DEF Step, Begin, Open, SyncCatalog, CommitIngest, RecordScanFailure, HistoryTypeOK, history

\* While no two overlap, a step of one finds no other running.
LEMMA OnlyOne ==
    ASSUME IngestTypeOK, AloneInv, NEW q \in Ingesters, Step(q), ~overlapped', NEW p \in Ingesters \ {q}
    PROVE  ~Running(p) /\ ~Running(p)' /\ ~overlapped
<1>1. ~overlapped
    BY OverlapStays DEF IngestTypeOK
<1>2. ~Running(p)
  <2>1. CASE Begin(q)
      BY <2>1, OverlapStays DEF IngestTypeOK
  <2>2. CASE ~Begin(q)
      BY <1>1, <2>2, StepRuns DEF AloneInv
  <2> QED
      BY <2>1, <2>2
<1>3. phase'[p] = phase[p]
    BY StepMinds DEF Minds, Others
<1> QED
    BY <1>1, <1>2, <1>3 DEF Running, Ended

LEMMA NextAlone ==
    ASSUME IngestTypeOK, AloneInv, [IngestNext]_ingestVars
    PROVE  AloneInv'
<1>1. CASE UNCHANGED <<phase, overlapped>>
    BY <1>1 DEF AloneInv, Running, Ended
<1>2. CASE UNCHANGED ingestVars
    BY <1>1, <1>2 DEF ingestVars, history
<1>3. CASE Native
    BY <1>1, <1>3, NativeDrifts
<1>4. ASSUME NEW q \in Ingesters, Step(q) PROVE AloneInv'
  <2>1. ASSUME ~overlapped' PROVE \A p \in Ingesters \ {q} : ~Running(p)'
      BY <1>4, <2>1, OnlyOne
  <2> QED
      BY <2>1 DEF AloneInv
<1> QED
    BY <1>2, <1>3, <1>4, NextIs

-----------------------------------------------------------------------------
(* The catalog and the projects.                                           *)

\* What is known of the catalog an ingest works with.
CatalogRight(p) ==
    /\ phase[p] \in {"catalog_wal", "read_catalog", "sync"} => before[p] <= cstamp
    /\ phase[p] = "sync" /\ Fresh(before[p]) => Agrees(catalog[p])
    /\ phase[p] \in {"manifests"} \cup Scanning /\ ~overlapped /\ Fresh(sync) => Agrees(catalog[p])

\* What is known of the metadata and the projects of the ledger.
LedgerAgrees ==
    /\ sync # None => sync <= cstamp
    /\ Fresh(sync) => Agrees(meta)
    /\ ~overlapped /\ Fresh(sync) => \A c \in DOMAIN Catalog : rows[c] # {} => project[c] = Catalog[c]

LEMMA CatalogParts == CatalogInv <=> LedgerAgrees /\ \A p \in Ingesters : CatalogRight(p)
BY DEF CatalogInv, LedgerAgrees, CatalogRight, ProjectsFollowCatalog, Fresh

LEMMA CatalogPartsNext == CatalogInv' <=> LedgerAgrees' /\ \A p \in Ingesters : CatalogRight(p)'
BY DEF CatalogInv, LedgerAgrees, CatalogRight, ProjectsFollowCatalog, Fresh, Agrees, Catalog

\* The phases in which an ingest has its catalog.
Supplied == {"manifests"} \cup Scanning

\* Most steps of an ingest leave its catalog, and what it knows of it, alone.
LEMMA SuppliedStays ==
    ASSUME IngestTypeOK, NEW p \in Ingesters, Step(p), ~SyncCatalog(p), ~StatCatalog(p), ~CheckCatalog(p), ~ReadCatalog(p),
           phase'[p] \in Supplied \cup {"catalog_wal", "read_catalog", "sync"}
    PROVE  phase[p] \in Supplied /\ phase'[p] \in Supplied /\ catalog'[p] = catalog[p]
<1> USE DEF Supplied, Scanning, Handling
<1>1. DOMAIN phase = Ingesters
    BY DEF IngestTypeOK, LocalTypeOK
<1>2. CASE Begin(p) \/ Open(p) \/ GiveUp(p)
    BY <1>1, <1>2 DEF Begin, Open, GiveUp, Ends, MoveTo
<1>3. CASE Finish(p) \/ Crash(p)
    BY <1>3, EndingMinds
<1>4. CASE LoadManifests(p)
    BY <1>1, <1>4 DEF LoadManifests, MoveTo
<1>5. CASE Stat(p) \/ Skip(p) \/ StatBefore(p) \/ ReadSnapshot(p)
    BY <1>1, <1>5 DEF Stat, Skip, Done, StatBefore, ReadSnapshot, MoveTo
<1>6. CASE StatAfter(p) \/ CheckComplete(p) \/ CommitIngest(p) \/ CommitFails(p) \/ RecordScanFailure(p)
    BY <1>1, <1>6 DEF StatAfter, CheckComplete, CommitIngest, Committing, CommitFails, RecordScanFailure, Done, MoveTo, local
<1> QED
    BY <1>2, <1>3, <1>4, <1>5, <1>6 DEF Step, Reads

\* The steps that get an ingest its catalog.
LEMMA SupplySteps ==
    ASSUME IngestTypeOK, LedgerAgrees, NEW p \in Ingesters, CatalogRight(p),
           StatCatalog(p) \/ CheckCatalog(p) \/ ReadCatalog(p)
    PROVE  CatalogRight(p)'
<1> USE DEF Scanning, Handling
<1>1. DOMAIN phase = Ingesters /\ DOMAIN catalog = Ingesters /\ DOMAIN before = Ingesters /\ cstamp \in Nat
    BY DEF IngestTypeOK, LocalTypeOK, SourcesTypeOK
<1>2. UNCHANGED <<cver, cstamp, cwal, sync, meta, overlapped>>
    BY DEF StatCatalog, CheckCatalog, ReadCatalog, sources, ledger, history
<1>3. ASSUME phase'[p] = "manifests", catalog'[p] = meta PROVE CatalogRight(p)'
    BY <1>2, <1>3 DEF CatalogRight, LedgerAgrees, Fresh, Agrees, Catalog
<1>4. CASE StatCatalog(p)
  <2>1. \/ phase'[p] = "manifests" /\ catalog'[p] = meta
        \/ phase'[p] = "catalog_wal" /\ before'[p] = cstamp
      BY <1>1, <1>4 DEF StatCatalog, MoveTo
  <2>2. CASE phase'[p] = "catalog_wal" /\ before'[p] = cstamp
      BY <1>1, <1>2, <2>2 DEF CatalogRight
  <2> QED
      BY <1>3, <2>1, <2>2
<1>5. CASE CheckCatalog(p)
  <2>1. \/ phase'[p] = "manifests" /\ catalog'[p] = meta
        \/ phase'[p] = "read_catalog" /\ before'[p] = before[p] /\ phase[p] = "catalog_wal"
      BY <1>1, <1>5 DEF CheckCatalog, MoveTo
  <2>2. CASE phase'[p] = "read_catalog" /\ before'[p] = before[p] /\ phase[p] = "catalog_wal"
      BY <1>2, <2>2 DEF CatalogRight
  <2> QED
      BY <1>3, <2>1, <2>2
<1>6. CASE ReadCatalog(p)
  <2>1. /\ phase[p] = "read_catalog" /\ phase'[p] = "sync" /\ before'[p] = before[p]
        /\ catalog'[p] = IF Catalog = Absent THEN NoCatalog ELSE Catalog
      BY <1>1, <1>6 DEF ReadCatalog, MoveTo
  <2> QED
      BY <1>2, <2>1 DEF CatalogRight, Fresh, Agrees, Catalog
<1> QED
    BY <1>4, <1>5, <1>6

\* The catalog that was read is stored with the stamp it had before.
LEMMA SyncStores ==
    ASSUME IngestTypeOK, LedgerAgrees, NEW p \in Ingesters, CatalogRight(p), SyncCatalog(p)
    PROVE  LedgerAgrees' /\ CatalogRight(p)'
<1>1. /\ phase[p] = "sync" /\ phase'[p] = "manifests" /\ catalog'[p] = catalog[p] /\ sync' = before[p]
      /\ UNCHANGED <<cver, cstamp, cwal, overlapped, rows>>
    BY DEF SyncCatalog, MoveTo, IngestTypeOK, LocalTypeOK, sources, history
<1>2. before[p] <= cstamp /\ (Fresh(before[p]) => Agrees(catalog[p]))
    BY <1>1 DEF CatalogRight
<1>3. Fresh(sync)' <=> Fresh(before[p])
    BY <1>1 DEF Fresh, Catalog
<1>4. CASE ~Fresh(before[p])
    BY <1>1, <1>2, <1>3, <1>4 DEF LedgerAgrees, CatalogRight, Scanning, Handling
<1>5. CASE Fresh(before[p])
  <2>1. \A c \in DOMAIN Catalog : c \in DOMAIN catalog[p] /\ catalog[p][c] = Catalog[c]
      BY <1>2, <1>5 DEF Agrees
  <2>2. DOMAIN Catalog \subseteq Convs
      BY <1>5, CatalogNames DEF Fresh
  <2>3. \A c \in DOMAIN Catalog : c \in DOMAIN meta' /\ meta'[c] = Catalog[c]
      BY <2>1 DEF SyncCatalog
  <2>4. \A c \in DOMAIN Catalog : rows[c] # {} => project'[c] = Catalog[c]
      BY <2>1, <2>2 DEF SyncCatalog
  <2>5. Catalog' = Catalog
      BY <1>1 DEF Catalog
  <2>6. Agrees(meta)' /\ Agrees(catalog[p])'
      BY <1>1, <2>1, <2>3, <2>5 DEF Agrees
  <2> QED
      BY <1>1, <1>2, <2>4, <2>5, <2>6 DEF LedgerAgrees, CatalogRight, Scanning, Handling
<1> QED
    BY <1>4, <1>5

\* A commit gives the rows the project of the catalog.
LEMMA CommitAgrees ==
    ASSUME IngestTypeOK, ReadInv, LedgerAgrees, NEW p \in Ingesters, CatalogRight(p), CommitIngest(p)
    PROVE  LedgerAgrees'
<1>1. /\ phase[p] \in Scanning /\ Current(p) \in Convs
      /\ rows' = [rows EXCEPT ![Current(p)] = ReadRecords(p)]
      /\ project' = [project EXCEPT ![Current(p)] = ProjectOf(p, Current(p))]
      /\ UNCHANGED <<cver, cstamp, cwal, sync, meta, overlapped>>
    BY Committed DEF CommitIngest, Committing, Scanning, Handling, sources, history
<1>2. DOMAIN rows = Convs /\ DOMAIN project = Convs
    BY DEF IngestTypeOK, LedgerTypeOK
<1>3. Catalog' = Catalog /\ (Fresh(sync)' <=> Fresh(sync)) /\ (Agrees(meta)' <=> Agrees(meta))
    BY <1>1 DEF Fresh, Agrees, Catalog
<1>4. ASSUME ~overlapped, Fresh(sync), NEW c \in DOMAIN Catalog, rows'[c] # {} PROVE project'[c] = Catalog[c]
  <2>1. c \in DOMAIN catalog[p] /\ catalog[p][c] = Catalog[c]
      BY <1>1, <1>4 DEF CatalogRight, Agrees
  <2>2. c \in Convs
      BY <1>4, CatalogNames DEF Fresh
  <2>3. CASE c = Current(p)
      BY <1>1, <1>2, <2>1, <2>3 DEF ProjectOf
  <2>4. CASE c # Current(p)
      BY <1>1, <1>2, <1>4, <2>2, <2>4 DEF LedgerAgrees
  <2> QED
      BY <2>3, <2>4
<1> QED
    BY <1>1, <1>3, <1>4 DEF LedgerAgrees

LEMMA NextCatalog ==
    ASSUME IngestTypeOK, ReadInv, CatalogInv, AloneInv, [IngestNext]_ingestVars
    PROVE  CatalogInv'
<1>1. IngestTypeOK'
    BY NextIngestType
<1>2. LedgerAgrees /\ \A p \in Ingesters : CatalogRight(p)
    BY CatalogParts
<1>3. SUFFICES LedgerAgrees' /\ \A p \in Ingesters : CatalogRight(p)'
    BY CatalogPartsNext
<1>5. CASE UNCHANGED ingestVars
    BY <1>2, <1>5 DEF ingestVars, sources, ledger, local, history, LedgerAgrees, CatalogRight, Fresh, Agrees, Catalog
<1>6. CASE Native
  <2>1. CatalogDrift /\ UNCHANGED <<sync, meta, rows, project, phase, before, catalog, overlapped>>
      BY <1>6, NativeDrifts DEF ledger, local
  <2>2. cstamp \in Nat /\ cstamp' \in Nat /\ cstamp' >= cstamp
      BY <1>1, <2>1 DEF IngestTypeOK, SourcesTypeOK, CatalogDrift
  <2>3. LedgerAgrees'
    <3>1. sync \in Nat \cup {None} /\ (sync \in Nat => sync <= cstamp)
        BY <1>2, IngestAssumption DEF IngestTypeOK, LedgerTypeOK, LedgerAgrees
    <3>2. CASE Fresh(sync)'
      <4>1. Fresh(sync) /\ Catalog' = Catalog
          BY <1>1, <2>1, <3>1, <3>2, FreshStays DEF Fresh
      <4> QED
          BY <1>2, <2>1, <2>2, <3>1, <4>1 DEF LedgerAgrees, Agrees
    <3>3. CASE ~Fresh(sync)'
        BY <1>2, <2>1, <2>2, <3>1, <3>3 DEF LedgerAgrees
    <3> QED
        BY <3>2, <3>3
  <2>4. ASSUME NEW p \in Ingesters PROVE CatalogRight(p)'
    <3>1. before[p] \in Nat /\ sync \in Nat \cup {None} /\ (sync \in Nat => sync <= cstamp)
        BY <1>2, IngestAssumption DEF IngestTypeOK, LocalTypeOK, LedgerTypeOK, LedgerAgrees
    <3>2. ASSUME phase[p] \in {"catalog_wal", "read_catalog", "sync"} PROVE before[p] <= cstamp /\ before[p] <= cstamp'
        BY <1>2, <2>2, <3>1, <3>2 DEF CatalogRight
    <3>3. ASSUME phase[p] = "sync", Fresh(before[p])' PROVE Agrees(catalog[p])'
      <4>1. Fresh(before[p]) /\ Catalog' = Catalog
          BY <1>1, <2>1, <3>1, <3>2, <3>3, FreshStays DEF Fresh
      <4> QED
          BY <1>2, <2>1, <3>3, <4>1 DEF CatalogRight, Agrees
    <3>4. ASSUME phase[p] \in {"manifests"} \cup Scanning, ~overlapped, Fresh(sync)' PROVE Agrees(catalog[p])'
      <4>1. Fresh(sync) /\ Catalog' = Catalog
          BY <1>1, <2>1, <3>1, <3>4, FreshStays DEF Fresh
      <4> QED
          BY <1>2, <2>1, <3>4, <4>1 DEF CatalogRight, Agrees
    <3> QED
        BY <2>1, <3>2, <3>3, <3>4 DEF CatalogRight
  <2> QED
      BY <2>3, <2>4
<1>7. ASSUME NEW q \in Ingesters, Step(q) PROVE LedgerAgrees' /\ \A p \in Ingesters : CatalogRight(p)'
  <2>1. UNCHANGED <<cver, cstamp, cwal>> /\ (overlapped => overlapped')
      BY <1>7, ReadsOnly, LedgerTypes, OverlapStays DEF Step, Begin, sources, IngestTypeOK
  <2>2. LedgerAgrees'
    <3>1. CASE UNCHANGED <<sync, meta, rows, project>>
        BY <1>2, <2>1, <3>1 DEF LedgerAgrees, Fresh, Agrees, Catalog
    <3>2. CASE Reads(q) \/ Begin(q) \/ Open(q) \/ RecordScanFailure(q)
        BY <3>1, <3>2, ReadsOnly DEF Begin, Open, RecordScanFailure, ledger
    <3>3. CASE SyncCatalog(q)
        BY <1>2, <3>3, SyncStores
    <3>4. CASE CommitIngest(q)
        BY <1>2, <3>4, CommitAgrees
    <3> QED
        BY <1>7, <3>2, <3>3, <3>4 DEF Step
  <2>3. CatalogRight(q)'
    <3>1. CASE StatCatalog(q) \/ CheckCatalog(q) \/ ReadCatalog(q)
        BY <1>2, <3>1, SupplySteps
    <3>2. CASE SyncCatalog(q)
        BY <1>2, <3>2, SyncStores
    <3>3. CASE phase'[q] \notin Supplied \cup {"catalog_wal", "read_catalog", "sync"}
        BY <3>3 DEF CatalogRight, Supplied
    <3>4. CASE /\ ~(StatCatalog(q) \/ CheckCatalog(q) \/ ReadCatalog(q) \/ SyncCatalog(q))
               /\ phase'[q] \in Supplied \cup {"catalog_wal", "read_catalog", "sync"}
      <4>1. phase[q] \in Supplied /\ phase'[q] \in Supplied /\ catalog'[q] = catalog[q]
          BY <1>7, <3>4, SuppliedStays
      <4>2. UNCHANGED sync
          BY <1>7, <3>4, ReadsOnly DEF Step, Begin, Open, CommitIngest, RecordScanFailure, ledger
      <4>3. phase'[q] \notin {"catalog_wal", "read_catalog", "sync"}
          BY <4>1 DEF Supplied, Scanning, Handling
      <4> QED
          BY <1>2, <2>1, <4>1, <4>2, <4>3 DEF CatalogRight, Supplied, Fresh, Agrees, Catalog
    <3> QED
        BY <3>1, <3>2, <3>3, <3>4
  <2>4. ASSUME NEW p \in Ingesters \ {q} PROVE CatalogRight(p)'
    <3>1. phase'[p] = phase[p] /\ before'[p] = before[p] /\ catalog'[p] = catalog[p]
        BY <1>7, StepMinds DEF Minds, Others
    <3>2. ASSUME phase'[p] \in {"manifests"} \cup Scanning PROVE overlapped'
      <4>1. phase'[p] \notin {"ok", "error", "idle"}
          BY <3>2 DEF Scanning, Handling
      <4> QED
          BY <1>7, <4>1, OnlyOne DEF Running, Ended
    <3> QED
        BY <1>2, <2>1, <3>1, <3>2 DEF CatalogRight, Fresh, Agrees, Catalog
  <2> QED
      BY <2>2, <2>3, <2>4
<1> QED
    BY <1>5, <1>6, <1>7, NextIs

-----------------------------------------------------------------------------
(* What an ingest that runs alone has brought up to date.                  *)

\* What is said of one ingest.
AllUpToDate(p) == \A c \in Convs : low[p][c] # 0 => UpToDate(p, c)
KnowsManifests(p) == phase[p] \in Scanning => \A c \in todo[p] : known[p][c] = manifest[c]
MaySkip(p) ==
    phase[p] = "skip" =>
        /\ known[p][Current(p)] # None
        /\ Skips(known[p][Current(p)], before[p], FALSE) =>
            wal[Current(p)] \/ from[Current(p)] >= low[p][Current(p)]
ReadEnough(p) == phase[p] \in HasRead => got[p] >= low[p][Current(p)]
FreshRight(p) ==
    /\ \A c \in Convs : low[p][c] <= ver[c]
    /\ Running(p) /\ ~overlapped => AllUpToDate(p) /\ KnowsManifests(p) /\ MaySkip(p) /\ ReadEnough(p)

\* A log goes only with what is said of its conversation.
LEMMA NativeLow ==
    ASSUME IngestTypeOK, Native, NEW p \in Ingesters, NEW c \in Convs
    PROVE  /\ low'[p][c] = low[p][c] \/ low'[p][c] = 0
           /\ wal[c] /\ ~wal'[c] => low'[p][c] = 0
<1>1. DOMAIN low = Ingesters /\ DOMAIN low[p] = Convs /\ DOMAIN wal = Convs
    BY DEF IngestTypeOK, HistoryTypeOK, SourcesTypeOK
<1>2. ASSUME NEW d \in Convs, LogGone(d) PROVE low'[p] = [low[p] EXCEPT ![d] = 0]
    BY <1>2 DEF LogGone
<1>3. ASSUME NEW d \in Convs, Write(d) \/ Checkpoint(d)
      PROVE  \/ LogGone(d) /\ wal' = [wal EXCEPT ![d] = FALSE]
             \/ low' = low /\ (wal' = [wal EXCEPT ![d] = TRUE] \/ wal' = wal)
             \/ low' = low /\ ~wal[d] /\ wal' = [wal EXCEPT ![d] = FALSE]
    BY <1>3 DEF Write, Checkpoint
<1>4. ASSUME NEW d \in Convs, Write(d) \/ Checkpoint(d)
      PROVE  /\ low'[p][c] = low[p][c] \/ low'[p][c] = 0
             /\ wal[c] /\ ~wal'[c] => low'[p][c] = 0
  <2>1. CASE LogGone(d) /\ wal' = [wal EXCEPT ![d] = FALSE]
      BY <1>1, <1>2, <2>1
  <2>2. CASE low' = low /\ (wal' = [wal EXCEPT ![d] = TRUE] \/ wal' = wal)
      BY <1>1, <2>2
  <2>3. CASE low' = low /\ ~wal[d] /\ wal' = [wal EXCEPT ![d] = FALSE]
      BY <1>1, <2>3
  <2> QED
      BY <1>3, <1>4, <2>1, <2>2, <2>3
<1> QED
    BY <1>4 DEF Native, WriteCatalog, CheckpointCatalog, history

\* The native program may write what it likes.
LEMMA FreshStaysNative ==
    ASSUME IngestTypeOK, IngestTypeOK', Native, NEW p \in Ingesters, FreshRight(p)
    PROVE  FreshRight(p)'
<1>1. Drift /\ UNCHANGED <<phase, overlapped, todo, from, failures, known, manifest, before, got>>
    BY NativeDrifts DEF ledger, local
<1>2. \A c \in Convs : /\ low'[p][c] = low[p][c] \/ low'[p][c] = 0
                       /\ wal[c] /\ ~wal'[c] => low'[p][c] = 0
    BY NativeLow
<1>3. \A c \in Convs : /\ low[p][c] \in Nat /\ low'[p][c] \in Nat /\ from[c] \in Nat /\ got[p] \in Nat
                       /\ ver[c] \in Nat /\ ver'[c] \in Nat /\ ver'[c] >= ver[c]
    BY <1>1 DEF IngestTypeOK, HistoryTypeOK, LedgerTypeOK, LocalTypeOK, SourcesTypeOK, Drift
<1>4. \A c \in Convs : low'[p][c] <= ver'[c]
    BY <1>2, <1>3 DEF FreshRight
<1>5. Current(p)' = Current(p) /\ (Running(p)' <=> Running(p))
    BY <1>1 DEF Current, Running, Ended
<1>6. ASSUME phase[p] \in Handling PROVE Current(p) \in Convs
    BY <1>6, CurrentIsTodo DEF IngestTypeOK, TodoInv
<1>7. ASSUME Running(p), ~overlapped PROVE AllUpToDate(p)' /\ KnowsManifests(p)' /\ MaySkip(p)' /\ ReadEnough(p)'
  <2>1. AllUpToDate(p) /\ KnowsManifests(p) /\ MaySkip(p) /\ ReadEnough(p)
      BY <1>7 DEF FreshRight
  <2>2. AllUpToDate(p)'
      BY <1>1, <1>2, <2>1 DEF AllUpToDate, UpToDate
  <2>3. KnowsManifests(p)'
      BY <1>1, <2>1 DEF KnowsManifests
  <2>4. MaySkip(p)'
    <3>1. CASE phase[p] # "skip"
        BY <1>1, <3>1 DEF MaySkip
    <3>2. CASE phase[p] = "skip"
      <4>1. Current(p) \in Convs
          BY <1>6, <3>2 DEF Handling
      <4> QED
          BY <1>1, <1>2, <1>3, <1>5, <2>1, <4>1 DEF MaySkip, Skips
    <3> QED
        BY <3>1, <3>2
  <2>5. ReadEnough(p)'
    <3>1. CASE phase[p] \notin HasRead
        BY <1>1, <3>1 DEF ReadEnough, HasRead
    <3>2. CASE phase[p] \in HasRead
      <4>1. Current(p) \in Convs
          BY <1>6, <3>2 DEF Handling, HasRead
      <4> QED
          BY <1>1, <1>2, <1>3, <1>5, <2>1, <3>2, <4>1 DEF ReadEnough
    <3> QED
        BY <3>1, <3>2
  <2> QED
      BY <2>2, <2>3, <2>4, <2>5
<1> QED
    BY <1>1, <1>4, <1>5, <1>7 DEF FreshRight

\* An ingest begins with all there is to do.
LEMMA FreshBegins ==
    ASSUME IngestTypeOK, NEW p \in Ingesters, Begin(p)
    PROVE  FreshRight(p)'
<1>1. /\ low'[p] = ver /\ todo'[p] = {c \in Convs : Exists(c)} /\ phase'[p] = "open" /\ UNCHANGED ver
    BY DEF Begin, MoveTo, IngestTypeOK, LocalTypeOK, HistoryTypeOK, sources
<1>2. \A c \in Convs : ver[c] \in Nat
    BY DEF IngestTypeOK, SourcesTypeOK
<1> QED
    BY <1>1, <1>2 DEF FreshRight, AllUpToDate, UpToDate, KnowsManifests, MaySkip, ReadEnough, Scanning, Handling,
        HasRead, Exists, At

\* What stays as it is in a step of an ingest that begins no other.
Steady(p) == ~Begin(p) /\ UNCHANGED <<ver, stamp, wal, low, overlapped>>

LEMMA StepSteady == ASSUME IngestTypeOK, ReadInv, NEW p \in Ingesters, Step(p), ~Begin(p) PROVE Steady(p)
BY ReadsOnly, LedgerTypes DEF Step, Steady, sources, history

\* A conversation that the ingest is done with was skipped, stored, or it failed.
LEMMA UpToDateStays ==
    ASSUME IngestTypeOK, ReadInv, NEW p \in Ingesters, Step(p), Steady(p), Running(p)',
           AllUpToDate(p), MaySkip(p), ReadEnough(p)
    PROVE  AllUpToDate(p)'
<1> DEFINE Same == todo'[p] = todo[p] /\ from' = from /\ failures'[p] = failures[p]
<1>1. UNCHANGED low
    BY DEF Steady
<1>2. ASSUME Same PROVE AllUpToDate(p)'
    BY <1>1, <1>2 DEF AllUpToDate, UpToDate
<1>3. CASE Open(p) \/ StatCatalog(p) \/ CheckCatalog(p) \/ ReadCatalog(p) \/ SyncCatalog(p) \/ GiveUp(p) \/ LoadManifests(p)
  <2>1. ~Ends(p, "error")
      BY DEF Ends, MoveTo, Running, Ended, IngestTypeOK, LocalTypeOK
  <2>2. Same
      BY <1>3, <2>1 DEF Open, StatCatalog, CheckCatalog, ReadCatalog, SyncCatalog, GiveUp, LoadManifests, ledger, local
  <2> QED
      BY <1>2, <2>2
<1>4. CASE Stat(p) \/ StatBefore(p) \/ ReadSnapshot(p) \/ StatAfter(p) \/ CheckComplete(p) \/ CommitFails(p)
  <2>1. Same
      BY <1>4 DEF Stat, StatBefore, ReadSnapshot, StatAfter, CheckComplete, CommitFails, ledger, local
  <2> QED
      BY <1>2, <2>1
<1>5. CASE Finish(p) \/ Crash(p)
    BY <1>5, EndingMinds DEF Running, Ended
<1>6. CASE Skip(p) \/ CommitIngest(p) \/ RecordScanFailure(p)
  <2>1. todo[p] # {}
      BY <1>6, LeavingMinds
  <2>2. PICK cur \in Convs : cur = Current(p)
      BY <2>1, CurrentIsTodo
  <2>3. /\ DOMAIN todo = Ingesters /\ DOMAIN from = Convs /\ DOMAIN failures = Ingesters
        /\ \A c \in Convs : from[c] \in Nat /\ low[p][c] \in Nat
      BY DEF IngestTypeOK, LocalTypeOK, LedgerTypeOK, HistoryTypeOK
  <2>4. CASE Skip(p)
    <3>1. UNCHANGED <<from, failures>>
        BY <2>4 DEF Skip, ledger
    <3>2. CASE todo' = todo
        BY <1>2, <3>1, <3>2
    <3>3. CASE todo' # todo
      <4>1. Done(p) /\ phase[p] = "skip" /\ Skips(known[p][cur], before[p], wal[cur])
          BY <2>2, <2>4, <3>3 DEF Skip
      <4> QED
        <5>1. todo'[p] = todo[p] \ {cur}
            BY <2>2, <2>3, <4>1 DEF Done
        <5>2. ~wal[cur] /\ Skips(known[p][cur], before[p], FALSE)
            BY <4>1 DEF Skips
        <5>3. from[cur] >= low[p][cur]
            BY <2>2, <4>1, <5>2 DEF MaySkip
        <5> QED
            BY <1>1, <3>1, <5>1, <5>3 DEF AllUpToDate, UpToDate
    <3> QED
        BY <3>2, <3>3
  <2>5. CASE CommitIngest(p)
    <3>1. todo'[p] = todo[p] \ {cur} /\ from' = [from EXCEPT ![cur] = got[p]] /\ UNCHANGED failures
        BY <2>2, <2>3, <2>5 DEF CommitIngest, Done
    <3>2. got[p] >= low[p][cur]
        BY <2>2, <2>5, Committed DEF ReadEnough
    <3> QED
        BY <1>1, <2>3, <3>1, <3>2 DEF AllUpToDate, UpToDate
  <2>6. CASE RecordScanFailure(p)
    <3>1. failures'[p] = TRUE
        BY <2>3, <2>6 DEF RecordScanFailure
    <3> QED
        BY <3>1 DEF AllUpToDate, UpToDate
  <2> QED
      BY <1>6, <2>4, <2>5, <2>6
<1> QED
    BY <1>3, <1>4, <1>5, <1>6 DEF Step, Reads, Steady

\* The manifests an ingest has loaded are those of the conversations still to do.
LEMMA KnowsStays ==
    ASSUME IngestTypeOK, ReadInv, NEW p \in Ingesters, Step(p), Steady(p), KnowsManifests(p)
    PROVE  KnowsManifests(p)'
<1> USE DEF Scanning, Handling
<1>1. SUFFICES ASSUME phase'[p] \in Scanning PROVE \A c \in todo'[p] : known'[p][c] = manifest'[c]
    BY DEF KnowsManifests
<1>2. DOMAIN phase = Ingesters /\ DOMAIN todo = Ingesters /\ DOMAIN known = Ingesters /\ DOMAIN manifest = Convs
    BY DEF IngestTypeOK, LocalTypeOK, LedgerTypeOK
<1>3. CASE LoadManifests(p)
    BY <1>2, <1>3 DEF LoadManifests, ledger
<1>4. CASE Open(p) \/ StatCatalog(p) \/ CheckCatalog(p) \/ ReadCatalog(p) \/ SyncCatalog(p) \/ GiveUp(p)
    BY <1>1, <1>2, <1>4 DEF Open, StatCatalog, CheckCatalog, ReadCatalog, SyncCatalog, GiveUp, Ends, MoveTo
<1>5. CASE Finish(p) \/ Crash(p)
    BY <1>1, <1>5, EndingMinds
<1>6. CASE Stat(p) \/ StatBefore(p) \/ ReadSnapshot(p) \/ StatAfter(p) \/ CheckComplete(p) \/ CommitFails(p) \/ Skip(p)
  <2>1. phase[p] \in Scanning /\ UNCHANGED <<known, manifest>>
      BY <1>6 DEF Stat, StatBefore, ReadSnapshot, StatAfter, CheckComplete, CommitFails, Committing, Skip, ledger, local
  <2>2. todo'[p] \subseteq todo[p]
      BY <1>2, <1>6 DEF Stat, StatBefore, ReadSnapshot, StatAfter, CheckComplete, CommitFails, Skip, Done, local
  <2> QED
      BY <2>1, <2>2 DEF KnowsManifests
<1>7. CASE CommitIngest(p) \/ RecordScanFailure(p)
  <2>1. phase[p] \in Scanning /\ UNCHANGED known /\ todo'[p] = todo[p] \ {Current(p)}
      BY <1>2, <1>7 DEF CommitIngest, Committing, RecordScanFailure, Done
  <2>2. \A c \in Convs \ {Current(p)} : manifest'[c] = manifest[c]
      BY <1>2, <1>7 DEF CommitIngest, RecordScanFailure
  <2>3. todo[p] \subseteq Convs
      BY DEF IngestTypeOK, LocalTypeOK
  <2> QED
      BY <2>1, <2>2, <2>3 DEF KnowsManifests
<1> QED
    BY <1>3, <1>4, <1>5, <1>6, <1>7 DEF Step, Reads, Steady

\* A manifest that matches the file tells of rows that are recent enough, unless
\* the log says more.
LEMMA StatSkips ==
    ASSUME IngestTypeOK, StoredInv, ReadInv, NEW p \in Ingesters, Step(p), Steady(p), KnowsManifests(p),
           \A c \in Convs : low[p][c] <= ver[c]
    PROVE  MaySkip(p)'
<1>1. SUFFICES ASSUME phase'[p] = "skip" PROVE MaySkip(p)'
    BY DEF MaySkip
<1>2. DOMAIN phase = Ingesters /\ DOMAIN before = Ingesters
    BY DEF IngestTypeOK, LocalTypeOK
<1>3. Stat(p)
  <2>1. ~(Begin(p) \/ Open(p) \/ StatCatalog(p) \/ CheckCatalog(p) \/ ReadCatalog(p) \/ SyncCatalog(p)
             \/ GiveUp(p) \/ LoadManifests(p))
      BY <1>1, OpeningMinds DEF Handling
  <2>2. ~(Finish(p) \/ Crash(p))
      BY <1>1, EndingMinds
  <2>3. ~(Skip(p) \/ StatBefore(p) \/ ReadSnapshot(p) \/ StatAfter(p) \/ CheckComplete(p)
             \/ CommitIngest(p) \/ CommitFails(p) \/ RecordScanFailure(p))
      BY <1>1, <1>2 DEF Skip, StatBefore, ReadSnapshot, StatAfter, CheckComplete, CommitIngest, CommitFails,
          RecordScanFailure, Done, MoveTo
  <2> QED
      BY <2>1, <2>2, <2>3 DEF Step, Reads
<1>4. UNCHANGED <<ver, stamp, wal, low, manifest, from, known, todo>>
    BY <1>3 DEF Stat, sources, ledger, history
<1>5. PICK c \in Convs : c = Current(p) /\ c = Current(p)' /\ c \in todo[p]
    BY <1>3, <1>4, CurrentIsTodo DEF Stat, Current
<1>6. Exists(c) /\ before'[p] = stamp[c] /\ known[p][c] # None /\ phase[p] = "next"
    BY <1>1, <1>2, <1>3, <1>5 DEF Stat, MoveTo
<1>7. known[p][c] = manifest[c]
    BY <1>5, <1>6 DEF KnowsManifests, Scanning
<1>8. ASSUME Skips(manifest[c], stamp[c], FALSE), ~wal[c] PROVE from[c] >= low[p][c]
  <2>1. Complete(manifest[c]) /\ manifest[c].parser = "current" /\ manifest[c].stamp = stamp[c]
      BY <1>6, <1>7, <1>8 DEF Skips, Complete
  <2>2. Describes(c, manifest[c].stamp, from[c])
      BY <2>1 DEF StoredInv
  <2>3. ver[c] = from[c]
      BY <1>6, <1>8, <2>1, <2>2 DEF Describes
  <2>4. low[p][c] \in Nat /\ ver[c] \in Nat /\ low[p][c] <= ver[c]
      BY DEF IngestTypeOK, HistoryTypeOK, SourcesTypeOK
  <2> QED
      BY <2>3, <2>4
<1> QED
    BY <1>4, <1>5, <1>6, <1>7, <1>8 DEF MaySkip

\* What is read is recent enough.
LEMMA ReadsEnough ==
    ASSUME IngestTypeOK, NEW p \in Ingesters, Step(p), Steady(p), ReadEnough(p),
           \A c \in Convs : low[p][c] <= ver[c]
    PROVE  ReadEnough(p)'
<1>1. SUFFICES ASSUME phase'[p] \in HasRead PROVE ReadEnough(p)'
    BY DEF ReadEnough
<1>2. StatBefore(p) \/ ReadSnapshot(p) \/ StatAfter(p) \/ CheckComplete(p)
    BY <1>1, OnlyReadingReads
<1>3. UNCHANGED <<low, todo>> /\ DOMAIN phase = Ingesters /\ DOMAIN got = Ingesters
    BY <1>2 DEF Steady, StatBefore, ReadSnapshot, StatAfter, CheckComplete, local, IngestTypeOK, LocalTypeOK
<1>4. PICK c \in Convs : c = Current(p) /\ c = Current(p)'
    BY <1>2, <1>3, LookingMinds, CurrentIsTodo DEF Current
<1>5. CASE ReadSnapshot(p)
  <2>1. got'[p] = ver[c]
      BY <1>1, <1>3, <1>4, <1>5 DEF ReadSnapshot, MoveTo, HasRead
  <2>2. low[p][c] \in Nat /\ ver[c] \in Nat /\ low[p][c] <= ver[c]
      BY DEF IngestTypeOK, HistoryTypeOK, SourcesTypeOK
  <2> QED
      BY <1>3, <1>4, <2>1, <2>2 DEF ReadEnough
<1>6. CASE StatBefore(p)
    BY <1>1, <1>3, <1>6 DEF StatBefore, MoveTo, HasRead
<1>7. CASE StatAfter(p) \/ CheckComplete(p)
  <2>1. phase[p] \in HasRead /\ UNCHANGED got
      BY <1>7 DEF StatAfter, CheckComplete, HasRead, local
  <2> QED
      BY <1>3, <1>4, <2>1 DEF ReadEnough
<1> QED
    BY <1>2, <1>5, <1>6, <1>7

LEMMA FreshParts == FreshInv <=> \A p \in Ingesters : FreshRight(p)
BY DEF FreshInv, FreshRight, AllUpToDate, KnowsManifests, MaySkip, ReadEnough

LEMMA FreshPartsNext == FreshInv' <=> \A p \in Ingesters : FreshRight(p)'
BY DEF FreshInv, FreshRight, AllUpToDate, UpToDate, KnowsManifests, MaySkip, ReadEnough, Current, Running

LEMMA NextFresh ==
    ASSUME IngestTypeOK, StoredInv, ReadInv, AloneInv, FreshInv, [IngestNext]_ingestVars
    PROVE  FreshInv'
<1>1. IngestTypeOK'
    BY NextIngestType
<1>2. \A p \in Ingesters : FreshRight(p)
    BY FreshParts
<1>3. SUFFICES ASSUME NEW p \in Ingesters PROVE FreshRight(p)'
    BY <1>3, FreshPartsNext
<1>4. CASE UNCHANGED ingestVars
    BY <1>2, <1>4 DEF ingestVars, sources, ledger, local, history, FreshRight, AllUpToDate, UpToDate, KnowsManifests,
        MaySkip, ReadEnough, Current, Running
<1>5. CASE Native
    BY <1>1, <1>2, <1>5, FreshStaysNative
<1>6. ASSUME NEW q \in Ingesters, Step(q) PROVE FreshRight(p)'
  <2>1. CASE Begin(q) /\ p = q
      BY <2>1, FreshBegins
  <2>2. CASE ~Begin(q) /\ p = q
    <3>1. Steady(p)
        BY <1>6, <2>2, StepSteady
    <3>2. \A c \in Convs : low[p][c] <= ver[c]
        BY <1>2 DEF FreshRight
    <3>3. UNCHANGED <<low, ver, overlapped>>
        BY <3>1 DEF Steady
    <3>4. CASE Running(p)' /\ ~overlapped
      <4>1. AllUpToDate(p) /\ KnowsManifests(p) /\ MaySkip(p) /\ ReadEnough(p)
          BY <1>2, <1>6, <2>2, <3>4, StepRuns DEF FreshRight
      <4>2. AllUpToDate(p)'
          BY <1>6, <2>2, <3>1, <3>4, <4>1, UpToDateStays
      <4>3. KnowsManifests(p)'
          BY <1>6, <2>2, <3>1, <4>1, KnowsStays
      <4>4. MaySkip(p)'
          BY <1>6, <2>2, <3>1, <3>2, <4>1, StatSkips
      <4>5. ReadEnough(p)'
          BY <1>6, <2>2, <3>1, <3>2, <4>1, ReadsEnough
      <4> QED
          BY <3>2, <3>3, <4>2, <4>3, <4>4, <4>5 DEF FreshRight
    <3>5. CASE ~Running(p)' \/ overlapped
        BY <3>2, <3>3, <3>5 DEF FreshRight
    <3> QED
        BY <3>4, <3>5
  <2>3. CASE p # q
    <3>1. ~overlapped' => ~Running(p)'
        BY <1>6, <2>3, OnlyOne
    <3>2. low'[p] = low[p]
      <4>1. CASE Begin(q)
          BY <2>3, <4>1 DEF Begin, IngestTypeOK, HistoryTypeOK
      <4>2. CASE ~Begin(q)
          BY <1>6, <4>2, StepSteady DEF Steady
      <4> QED
          BY <4>1, <4>2
    <3>3. UNCHANGED ver
        BY <1>6, StepSteady DEF Steady, Begin, sources
    <3> QED
        BY <1>2, <3>1, <3>2, <3>3 DEF FreshRight
  <2> QED
      BY <2>1, <2>2, <2>3
<1> QED
    BY <1>4, <1>5, <1>6, NextIs

-----------------------------------------------------------------------------
(* The theorems.                                                           *)

LEMMA NextIngest == IngestInv /\ [IngestNext]_ingestVars => IngestInv'
<1> SUFFICES ASSUME IngestInv, [IngestNext]_ingestVars PROVE IngestInv'
    OBVIOUS
<1> USE DEF IngestInv
<1>1. IngestTypeOK'
    BY NextIngestType
<1>2. StoredInv'
    BY NextStored
<1>3. ReadInv'
    BY NextReadInv
<1>4. CatalogInv'
    BY NextCatalog
<1>5. AloneInv'
    BY NextAlone
<1>6. FreshInv'
    BY NextFresh
<1> QED
    BY <1>1, <1>2, <1>3, <1>4, <1>5, <1>6

\* The inductive invariant of the ingests.
THEOREM IngestInvariant == IngestSpec => []IngestInv
<1>1. IngestInit => IngestInv
    BY InitIngest
<1>2. IngestInv /\ [IngestNext]_ingestVars => IngestInv'
    BY NextIngest
<1> QED
    BY <1>1, <1>2, PTL DEF IngestSpec

\* Whatever is written, checkpointed, deleted and ingested meanwhile, a manifest
\* that makes the next ingest skip a conversation stands for rows that are those
\* of the conversation as it is.
THEOREM SkippedAreStored == IngestSpec => []SkippedIsStored
<1>1. IngestInv => SkippedIsStored
  <2>1. SUFFICES ASSUME IngestInv, NEW c \in Convs,
                        manifest[c] # None, Exists(c), Skips(manifest[c], stamp[c], wal[c])
                 PROVE  rows[c] = Extracted[c][ver[c]]
      BY DEF SkippedIsStored
  <2>2. Complete(manifest[c]) /\ manifest[c].parser = "current" /\ manifest[c].stamp = stamp[c] /\ ~wal[c]
      BY <2>1 DEF Skips, Complete
  <2>3. Describes(c, manifest[c].stamp, from[c])
      BY <2>1, <2>2 DEF IngestInv, StoredInv
  <2>4. ver[c] = from[c]
      BY <2>1, <2>2, <2>3 DEF Describes
  <2>5. ver[c] # 0
    <3>1. ver[c] \in DOMAIN Content[c]
        BY <2>1 DEF IngestInv, IngestTypeOK, SourcesTypeOK
    <3> QED
        BY <3>1, ContentsAreNumbered
  <2> QED
      BY <2>1, <2>4, <2>5 DEF IngestInv, StoredInv
<1> QED
    BY <1>1, IngestInvariant, PTL

\* A catalog that an ingest would not read again has given its projects to all the
\* rows it names, as long as no two ingests overlap.
THEOREM ProjectsAreCatalogs == IngestSpec => []ProjectsFollowCatalog
<1>1. IngestInv => ProjectsFollowCatalog
    BY DEF IngestInv, CatalogInv
<1> QED
    BY <1>1, IngestInvariant, PTL

\* The ingest that reports success has brought every conversation it discovered at
\* least to where it was when the ingest began, unless two overlapped or the log
\* of the conversation went meanwhile.
THEOREM SuccessesAreFresh == IngestSpec => SuccessIsFresh
<1> DEFINE Finishing == \A p \in Ingesters :
        phase[p] # "ok" /\ phase'[p] = "ok" /\ ~overlapped =>
            \A c \in Convs : low[p][c] # 0 /\ Content[c][low[p][c]] # Absent => from[c] >= low[p][c]
<1>1. IngestInv /\ [IngestNext]_ingestVars => [Finishing]_ingestVars
  <2>1. SUFFICES ASSUME IngestInv, IngestNext, NEW p \in Ingesters,
                        phase[p] # "ok", phase'[p] = "ok", ~overlapped,
                        NEW c \in Convs, low[p][c] # 0, Content[c][low[p][c]] # Absent
                 PROVE  from[c] >= low[p][c]
      OBVIOUS
  <2>2. Finish(p)
    <3>1. ~Native
        BY <2>1, NativeDrifts DEF IngestInv
    <3>2. PICK q \in Ingesters : Step(q)
        BY <2>1, <3>1, NextIs
    <3>3. p = q
        BY <2>1, <3>2, StepMinds DEF IngestInv, Minds, Others
    <3>4. ~(Begin(p) \/ Open(p) \/ StatCatalog(p) \/ CheckCatalog(p) \/ ReadCatalog(p) \/ SyncCatalog(p)
             \/ GiveUp(p) \/ LoadManifests(p) \/ Stat(p) \/ Skip(p) \/ StatBefore(p) \/ ReadSnapshot(p) \/ StatAfter(p)
             \/ CheckComplete(p) \/ CommitIngest(p) \/ CommitFails(p) \/ RecordScanFailure(p) \/ Crash(p))
      <4>1. DOMAIN phase = Ingesters
          BY <2>1 DEF IngestInv, IngestTypeOK, LocalTypeOK
      <4>2. ~(Begin(p) \/ Open(p) \/ StatCatalog(p) \/ CheckCatalog(p) \/ ReadCatalog(p) \/ SyncCatalog(p)
             \/ GiveUp(p) \/ LoadManifests(p))
          BY <2>1, <4>1 DEF Begin, Open, StatCatalog, CheckCatalog, ReadCatalog, SyncCatalog, GiveUp, LoadManifests,
              Ends, MoveTo
      <4>3. ~(Stat(p) \/ Skip(p) \/ StatBefore(p) \/ ReadSnapshot(p) \/ StatAfter(p))
          BY <2>1, <4>1 DEF Stat, Skip, StatBefore, ReadSnapshot, StatAfter, Done, MoveTo
      <4>4. ~(CheckComplete(p) \/ CommitIngest(p) \/ CommitFails(p) \/ RecordScanFailure(p) \/ Crash(p))
          BY <2>1, <4>1 DEF CheckComplete, CommitIngest, CommitFails, RecordScanFailure, Crash, Done, Ends, MoveTo
      <4> QED
          BY <4>2, <4>3, <4>4
    <3> QED
        BY <3>2, <3>3, <3>4 DEF Step, Reads
  <2>3. todo[p] = {} /\ ~failures[p] /\ Running(p)
    <3>1. Running(p)
        BY <2>2 DEF Finish, Running, Ended
    <3>2. failures[p] => phase'[p] = "error"
        BY <2>1, <2>2 DEF Finish, Ends, MoveTo, IngestInv, IngestTypeOK, LocalTypeOK
    <3> QED
        BY <2>1, <2>2, <3>1, <3>2 DEF Finish
  <2>4. UpToDate(p, c)
      BY <2>1, <2>3 DEF IngestInv, FreshInv
  <2> QED
      BY <2>1, <2>3, <2>4 DEF UpToDate
<1> QED
    BY <1>1, IngestInvariant, PTL DEF IngestSpec, SuccessIsFresh

\* If every content is read right, which TLC evaluates for the contents it checks,
\* then the rows are the generations of one state of each conversation, and the
\* ledger verifies, for any interleaving of writes, ingests, failures and crashes.
THEOREM RowsAreGenerations == ASSUME ReadingIsRight PROVE IngestSpec => []RowsCountGenerations
<1>1. IngestInv => RowsCountGenerations
  <2> SUFFICES ASSUME IngestInv PROVE RowsCountGenerations
      OBVIOUS
  <2>1. /\ Gens({}) = {} /\ Cardinality({}) = 0
      BY FS_EmptySet DEF Gens
  <2>2. ASSUME NEW c \in Convs, from[c] # 0
        PROVE  /\ CountsGenerations(rows[c], ExpectedOf[c][from[c]])
               /\ \A r \in rows[c] : r.tok.output >= r.tok.visible + r.tok.reasoning
               /\ Cardinality(Gens(rows[c])) = Cardinality(rows[c])
    <3>1. /\ from[c] \in DOMAIN Content[c] /\ Readable(Content[c][from[c]])
          /\ rows[c] = Extracted[c][from[c]]
        BY <2>2 DEF IngestInv, StoredInv
    <3> QED
        BY <3>1 DEF ReadingIsRight
  <2>3. \A c \in Convs : from[c] = 0 => rows[c] = {}
      BY DEF IngestInv, StoredInv
  <2>4. \A c \in Convs :
          /\ Complete(manifest[c]) => manifest[c].count = Cardinality(rows[c])
          /\ \A d \in Convs : c # d => Gens(rows[c]) \cap Gens(rows[d]) = {}
      BY DEF IngestInv, StoredInv
  <2>5. Verified
    <3>1. \A c \in Convs : /\ \A r \in rows[c] : r.tok.output >= r.tok.visible + r.tok.reasoning
                           /\ Cardinality(Gens(rows[c])) = Cardinality(rows[c])
        BY <2>1, <2>2, <2>3
    <3> QED
        BY <2>4, <3>1 DEF Verified, Complete
  <2> QED
      BY <2>2, <2>3, <2>5 DEF RowsCountGenerations
<1> QED
    BY <1>1, IngestInvariant, PTL

-----------------------------------------------------------------------------
(* The keys by which the scheduler sorts.                                  *)

\* A set of natural numbers that is not empty has a least element.
LEMMA LeastOf ==
    ASSUME NEW S \in SUBSET Nat, S # {}
    PROVE  \E n \in S : \A m \in S : n <= m
<1> DEFINE R == OpToRel(<, Nat)
<1>1. IsWellFoundedOn(R, Nat)
    BY NatLessThanWellFounded
<1>2. \A x, y \in Nat : <<x, y>> \in R <=> x < y
    BY DEF OpToRel
<1>3. PICK n \in S : \A m \in S : <<m, n>> \notin R
  <2> HIDE DEF R
  <2> QED
    BY <1>1, WFMin
<1>4. ASSUME NEW m \in S PROVE n <= m
  <2>1. n \in Nat /\ m \in Nat /\ ~(m < n)
      BY <1>2, <1>3
  <2> QED
      BY <2>1
<1> QED
    BY <1>4

\* Keys of one length.
Keys(n) == [1 .. n -> Int]

\* Greater is a strict total order on keys of one length.
LEMMA GreaterIsStrict ==
    ASSUME NEW n \in Nat, NEW k \in Keys(n), NEW l \in Keys(n), Greater(k, l)
    PROVE  ~Greater(l, k) /\ k # l
<1>1. PICK i \in 1 .. n : k[i] > l[i] /\ \A j \in 1 .. i - 1 : k[j] = l[j]
    BY DEF Greater, Keys
<1>2. ASSUME Greater(l, k) PROVE FALSE
  <2>1. PICK h \in 1 .. n : l[h] > k[h] /\ \A j \in 1 .. h - 1 : l[j] = k[j]
      BY <1>2 DEF Greater, Keys
  <2>2. k[i] \in Int /\ l[i] \in Int /\ k[h] \in Int /\ l[h] \in Int
      BY DEF Keys
  <2>3. i < h \/ h < i \/ i = h
      OBVIOUS
  <2> QED
      BY <1>1, <2>1, <2>2, <2>3
<1>3. k # l
  <2>1. k[i] \in Int /\ l[i] \in Int
      BY DEF Keys
  <2> QED
      BY <1>1, <2>1
<1> QED
    BY <1>2, <1>3

\* What is ahead of a key that is ahead of another is ahead of that one too.
LEMMA GreaterIsTransitive ==
    ASSUME NEW n \in Nat, NEW k \in Keys(n), NEW l \in Keys(n), NEW m \in Keys(n),
           Greater(k, l), Greater(l, m)
    PROVE  Greater(k, m)
<1>1. PICK i \in 1 .. n : k[i] > l[i] /\ \A j \in 1 .. i - 1 : k[j] = l[j]
    BY DEF Greater, Keys
<1>2. PICK h \in 1 .. n : l[h] > m[h] /\ \A j \in 1 .. h - 1 : l[j] = m[j]
    BY DEF Greater, Keys
<1>3. \A j \in 1 .. n : k[j] \in Int /\ l[j] \in Int /\ m[j] \in Int
    BY DEF Keys
<1>4. DOMAIN k = 1 .. n
    BY DEF Keys
<1>5. CASE i < h
  <2>1. k[i] > m[i] /\ \A j \in 1 .. i - 1 : k[j] = m[j]
      BY <1>1, <1>2, <1>3, <1>5
  <2> QED
      BY <1>4, <2>1 DEF Greater
<1>6. CASE h <= i
  <2>1. k[h] > m[h] /\ \A j \in 1 .. h - 1 : k[j] = m[j]
      BY <1>1, <1>2, <1>3, <1>6
  <2> QED
      BY <1>4, <2>1 DEF Greater
<1> QED
    BY <1>5, <1>6

\* Of two different keys one is ahead.
LEMMA GreaterIsTotal ==
    ASSUME NEW n \in Nat, NEW k \in Keys(n), NEW l \in Keys(n), k # l
    PROVE  Greater(k, l) \/ Greater(l, k)
<1> DEFINE D == {i \in 1 .. n : k[i] # l[i]}
<1>1. D \in SUBSET Nat /\ D # {}
    BY DEF Keys
<1>2. PICK i \in D : \A j \in D : i <= j
    BY <1>1, LeastOf
<1>3. \A j \in 1 .. i - 1 : k[j] = l[j]
    BY <1>2
<1>4. k[i] \in Int /\ l[i] \in Int /\ k[i] # l[i] /\ i \in 1 .. n
    BY <1>2 DEF Keys
<1>5. k[i] > l[i] \/ l[i] > k[i]
    BY <1>4
<1> QED
    BY <1>3, <1>4, <1>5 DEF Greater, Keys

\* Where no component is greater, the key is not.
LEMMA NotGreater ==
    ASSUME NEW n \in Nat, NEW k \in Keys(n), NEW l \in Keys(n),
           \A i \in 1 .. n : k[i] <= l[i]
    PROVE  ~Greater(k, l)
<1>1. \A i \in 1 .. n : k[i] \in Int /\ l[i] \in Int /\ ~(k[i] > l[i])
    BY DEF Keys
<1> QED
    BY <1>1 DEF Greater, Keys

\* A key is a sequence of its length.
LEMMA KeysAreSequences ==
    ASSUME NEW n \in Nat
    PROVE  \A k : k \in Keys(n) <=> k \in Seq(Int) /\ Len(k) = n
<1>1. ASSUME NEW k, k \in Keys(n) PROVE k \in Seq(Int) /\ Len(k) = n
    BY <1>1 DEF Keys
<1>2. ASSUME NEW k, k \in Seq(Int), Len(k) = n PROVE k \in Keys(n)
    BY <1>2 DEF Keys
<1> QED
    BY <1>1, <1>2

\* Keys that are joined are compared by their first parts first.
LEMMA GreaterJoined ==
    ASSUME NEW n \in Nat, NEW m \in Nat,
           NEW k \in Keys(n), NEW l \in Keys(n), NEW p \in Keys(m), NEW q \in Keys(m)
    PROVE  /\ k \o p \in Keys(n + m)
           /\ Greater(k \o p, l \o q) <=> Greater(k, l) \/ (k = l /\ Greater(p, q))
<1>1. /\ k \in Seq(Int) /\ l \in Seq(Int) /\ p \in Seq(Int) /\ q \in Seq(Int)
      /\ Len(k) = n /\ Len(l) = n /\ Len(p) = m /\ Len(q) = m
    BY KeysAreSequences
<1> DEFINE kp == k \o p
           lq == l \o q
<1>2. /\ kp \in Keys(n + m) /\ lq \in Keys(n + m)
      /\ \A i \in 1 .. n + m : /\ kp[i] = IF i <= n THEN k[i] ELSE p[i - n]
                               /\ lq[i] = IF i <= n THEN l[i] ELSE q[i - n]
  <2>1. ASSUME NEW s \in Seq(Int), NEW t \in Seq(Int), Len(s) = n, Len(t) = m
        PROVE  /\ s \o t \in Seq(Int) /\ Len(s \o t) = n + m
               /\ \A i \in 1 .. n + m : (s \o t)[i] = IF i <= n THEN s[i] ELSE t[i - n]
      BY <2>1, ConcatProperties
  <2>2. /\ kp \in Seq(Int) /\ Len(kp) = n + m /\ lq \in Seq(Int) /\ Len(lq) = n + m
        /\ \A i \in 1 .. n + m : kp[i] = IF i <= n THEN k[i] ELSE p[i - n]
        /\ \A i \in 1 .. n + m : lq[i] = IF i <= n THEN l[i] ELSE q[i - n]
      BY <1>1, <2>1
  <2> HIDE DEF kp, lq
  <2>3. n + m \in Nat
      OBVIOUS
  <2>4. kp \in Keys(n + m) /\ lq \in Keys(n + m)
      BY <2>2, <2>3, KeysAreSequences
  <2> QED
      BY <2>2, <2>4
<1> HIDE DEF kp, lq
<1>3. /\ DOMAIN k = 1 .. n /\ DOMAIN p = 1 .. m /\ DOMAIN kp = 1 .. n + m
      /\ \A i \in 1 .. n : k[i] \in Int /\ l[i] \in Int
      /\ \A i \in 1 .. m : p[i] \in Int /\ q[i] \in Int
    BY <1>2 DEF Keys
<1>4. ASSUME Greater(k, l) PROVE Greater(kp, lq)
  <2>1. PICK i \in 1 .. n : k[i] > l[i] /\ \A j \in 1 .. i - 1 : k[j] = l[j]
      BY <1>3, <1>4 DEF Greater
  <2>2. i \in 1 .. n + m /\ kp[i] > lq[i] /\ \A j \in 1 .. i - 1 : kp[j] = lq[j]
      BY <1>2, <2>1
  <2> QED
      BY <1>3, <2>2 DEF Greater
<1>5. ASSUME k = l, Greater(p, q) PROVE Greater(kp, lq)
  <2>1. PICK i \in 1 .. m : p[i] > q[i] /\ \A j \in 1 .. i - 1 : p[j] = q[j]
      BY <1>3, <1>5 DEF Greater
  <2>2. n + i \in 1 .. n + m /\ ~(n + i <= n) /\ (n + i) - n = i
      OBVIOUS
  <2>3. kp[n + i] > lq[n + i]
      BY <1>2, <2>1, <2>2
  <2>4. ASSUME NEW j \in 1 .. (n + i) - 1 PROVE kp[j] = lq[j]
    <3>1. j \in 1 .. n + m
        OBVIOUS
    <3>2. CASE j <= n
        BY <1>2, <1>5, <3>1, <3>2
    <3>3. CASE ~(j <= n)
      <4>1. j - n \in 1 .. i - 1
          BY <3>3
      <4> QED
          BY <1>2, <2>1, <3>1, <3>3, <4>1
    <3> QED
        BY <3>2, <3>3
  <2> QED
      BY <1>3, <2>2, <2>3, <2>4 DEF Greater
<1>6. ASSUME Greater(kp, lq) PROVE Greater(k, l) \/ (k = l /\ Greater(p, q))
  <2>1. PICK i \in 1 .. n + m : kp[i] > lq[i] /\ \A j \in 1 .. i - 1 : kp[j] = lq[j]
      BY <1>3, <1>6 DEF Greater
  <2>2. CASE i <= n
    <3>1. i \in 1 .. n /\ k[i] > l[i]
        BY <1>2, <2>1, <2>2
    <3>2. \A j \in 1 .. i - 1 : j \in 1 .. n + m /\ j <= n
        BY <2>2
    <3>3. \A j \in 1 .. i - 1 : k[j] = l[j]
        BY <1>2, <2>1, <3>2
    <3>4. Greater(k, l)
        BY <1>3, <3>1, <3>3 DEF Greater
    <3> QED
        BY <3>4
  <2>3. CASE ~(i <= n)
    <3>1. \A j \in 1 .. n : j \in 1 .. n + m /\ j \in 1 .. i - 1 /\ j <= n
        BY <2>3
    <3>2. \A j \in 1 .. n : k[j] = l[j]
        BY <1>2, <2>1, <3>1
    <3>3. k = l
        BY <3>2 DEF Keys
    <3>4. i - n \in 1 .. m /\ p[i - n] > q[i - n]
        BY <1>2, <2>1, <2>3
    <3>5. \A j \in 1 .. (i - n) - 1 : /\ n + j \in 1 .. n + m /\ n + j \in 1 .. i - 1
                                      /\ ~(n + j <= n) /\ (n + j) - n = j
        BY <2>3
    <3>6. \A j \in 1 .. (i - n) - 1 : p[j] = q[j]
        BY <1>2, <2>1, <3>5
    <3> QED
        BY <1>3, <3>3, <3>4, <3>6 DEF Greater
  <2> QED
      BY <2>2, <2>3
<1> QED
    BY <1>2, <1>4, <1>5, <1>6 DEF kp, lq

\* A key of one number.
LEMMA GreaterOne ==
    ASSUME NEW x \in Int, NEW y \in Int
    PROVE  /\ <<x>> \in Keys(1)
           /\ Greater(<<x>>, <<y>>) <=> x > y
<1>1. <<x>> \in Keys(1) /\ <<x>>[1] = x /\ <<y>>[1] = y /\ DOMAIN <<x>> = {1}
    BY DEF Keys
<1>2. \A j : j \in 1 .. 1 - 1 => FALSE
    OBVIOUS
<1> QED
    BY <1>1, <1>2 DEF Greater

-----------------------------------------------------------------------------
(* Its sorts.                                                              *)

\* How many elements of E have a greater key than e.
Rank(E, key, e) == Cardinality({f \in E : Greater(key[f], key[e])})

\* If any two elements are told apart by their keys, they are numbered by it.
LEMMA Ranking ==
    ASSUME NEW E, IsFiniteSet(E), NEW n \in Nat, NEW key \in [E -> Keys(n)],
           \A e, f \in E : e # f => Greater(key[e], key[f]) \/ Greater(key[f], key[e])
    PROVE  /\ \A e \in E : Rank(E, key, e) \in 0 .. Cardinality(E) - 1
           /\ \A k \in 1 .. Cardinality(E) : \E e \in E : Rank(E, key, e) = k - 1
           /\ \A e, f \in E : Greater(key[e], key[f]) <=> Rank(E, key, e) < Rank(E, key, f)
           /\ \A e, f \in E : Rank(E, key, e) = Rank(E, key, f) => e = f
<1> DEFINE N == Cardinality(E)
           Ahead(e) == {f \in E : Greater(key[f], key[e])}
<1>1. N \in Nat
    BY FS_CardinalityType
<1>2. ASSUME NEW e \in E
      PROVE  IsFiniteSet(Ahead(e)) /\ Cardinality(Ahead(e)) \in 0 .. N - 1
  <2>1. e \notin Ahead(e)
    <3>1. key[e] \in Keys(n)
        OBVIOUS
    <3> QED
        BY <3>1, GreaterIsStrict
  <2>2. Ahead(e) \in SUBSET E /\ Ahead(e) # E
      BY <2>1
  <2> HIDE DEF Ahead
  <2>3. /\ IsFiniteSet(Ahead(e)) /\ Cardinality(Ahead(e)) <= N
        /\ N = Cardinality(Ahead(e)) => E = Ahead(e)
      BY <2>2, FS_Subset
  <2>4. Cardinality(Ahead(e)) \in Nat
      BY <2>3, FS_CardinalityType
  <2> QED
      BY <1>1, <2>2, <2>3, <2>4
<1>3. ASSUME NEW e \in E, NEW f \in E, Greater(key[e], key[f])
      PROVE  Cardinality(Ahead(e)) < Cardinality(Ahead(f))
  <2>1. key[e] \in Keys(n) /\ key[f] \in Keys(n)
      OBVIOUS
  <2>2. Ahead(e) \in SUBSET Ahead(f)
    <3>1. ASSUME NEW g \in E, Greater(key[g], key[e]) PROVE Greater(key[g], key[f])
      <4>1. key[g] \in Keys(n)
          OBVIOUS
      <4> QED
          BY <1>3, <2>1, <3>1, <4>1, GreaterIsTransitive
    <3> QED
        BY <3>1
  <2>3. e \in Ahead(f) /\ e \notin Ahead(e)
      BY <1>3, <2>1, GreaterIsStrict
  <2>4. /\ IsFiniteSet(Ahead(f)) /\ Cardinality(Ahead(f)) \in 0 .. N - 1
        /\ Cardinality(Ahead(e)) \in 0 .. N - 1
      BY <1>2
  <2> HIDE DEF Ahead
  <2>5. /\ Cardinality(Ahead(e)) <= Cardinality(Ahead(f))
        /\ Cardinality(Ahead(f)) = Cardinality(Ahead(e)) => Ahead(f) = Ahead(e)
      BY <2>2, <2>4, FS_Subset
  <2> QED
      BY <1>1, <2>3, <2>4, <2>5
<1>4. \A e \in E : Rank(E, key, e) = Cardinality(Ahead(e))
    BY DEF Rank
<1> HIDE DEF Ahead
<1>5. \A e, f \in E : Rank(E, key, e) = Rank(E, key, f) => e = f
  <2> SUFFICES ASSUME NEW e \in E, NEW f \in E, Rank(E, key, e) = Rank(E, key, f), e # f
               PROVE  FALSE
      OBVIOUS
  <2>1. Rank(E, key, e) \in Int /\ Rank(E, key, f) \in Int
      BY <1>1, <1>2, <1>4
  <2>2. Rank(E, key, e) < Rank(E, key, f) \/ Rank(E, key, f) < Rank(E, key, e)
      BY <1>3, <1>4
  <2> QED
      BY <2>1, <2>2
<1>6. \A e \in E : Rank(E, key, e) \in 0 .. N - 1
    BY <1>2, <1>4
<1>7. ASSUME NEW k \in 1 .. N PROVE \E e \in E : Rank(E, key, e) = k - 1
  <2> DEFINE rank == [e \in E |-> Rank(E, key, e)]
  <2>1. rank \in Injection(E, 0 .. N - 1)
      BY <1>5, <1>6 DEF Injection, IsInjective
  <2>2. IsFiniteSet(0 .. N - 1) /\ Cardinality(0 .. N - 1) = N
    <3>1. 0 \in Int /\ N - 1 \in Int
        BY <1>1
    <3>2. /\ IsFiniteSet(0 .. N - 1)
          /\ Cardinality(0 .. N - 1) = IF 0 > N - 1 THEN 0 ELSE N - 1 - 0 + 1
        BY <3>1, FS_Interval
    <3> QED
        BY <1>1, <3>2
  <2>3. rank \in Surjection(E, 0 .. N - 1)
      BY <2>1, <2>2, FS_Injection
  <2>4. k - 1 \in 0 .. N - 1
      BY <1>1
  <2> QED
      BY <2>3, <2>4 DEF Surjection
<1>8. ASSUME NEW e \in E, NEW f \in E, Rank(E, key, e) < Rank(E, key, f)
      PROVE  Greater(key[e], key[f])
  <2>1. Rank(E, key, e) \in Int /\ Rank(E, key, f) \in Int
      BY <1>1, <1>2, <1>4
  <2>2. e # f /\ ~(Rank(E, key, f) < Rank(E, key, e))
      BY <1>8, <2>1
  <2>3. ~Greater(key[f], key[e])
      BY <1>3, <1>4, <2>2
  <2> QED
      BY <2>2, <2>3
<1> QED
    BY <1>3, <1>4, <1>5, <1>6, <1>7, <1>8

\* Where an account of a pool is.
LEMMA PositionFacts ==
    ASSUME NEW S, NEW p \in Seq(S), NEW a \in Range(p)
    PROVE  /\ Position(p, a) \in 1 .. Len(p) /\ p[Position(p, a)] = a
           /\ IsInjective(p) => \A i \in 1 .. Len(p) : p[i] = a => i = Position(p, a)
<1>1. \E i \in DOMAIN p : p[i] = a
    BY DEF Range
<1>2. Position(p, a) = CHOOSE i \in DOMAIN p : p[i] = a
    BY DEF Position
<1>3. Position(p, a) \in DOMAIN p /\ p[Position(p, a)] = a
    BY <1>1, <1>2
<1>4. DOMAIN p = 1 .. Len(p)
    OBVIOUS
<1> QED
    BY <1>3, <1>4 DEF IsInjective

\* Who is not in the pool has place 0.
LEMMA PositionOfNone ==
    ASSUME NEW S, NEW p \in Seq(S), NEW a, a \notin Range(p)
    PROVE  Position(p, a) = 0
BY DEF Position

\* A pool is finite.
LEMMA RangeIsFinite ==
    ASSUME NEW S, NEW p \in Seq(S)
    PROVE  IsFiniteSet(Range(p)) /\ Cardinality(Range(p)) \in Nat
<1>1. p \in Surjection(1 .. Len(p), Range(p))
    BY DEF Surjection, Range
<1>2. IsFiniteSet(1 .. Len(p))
    BY FS_Interval
<1>3. IsFiniteSet(Range(p))
    BY <1>1, <1>2, FS_Surjection
<1> QED
    BY <1>3, FS_CardinalityType

\* The sequence o consists of the accounts T, each once.
Lists(o, T) ==
    /\ o \in [1 .. Cardinality(T) -> T]
    /\ \A a \in T : \E i \in 1 .. Cardinality(T) : o[i] = a

\* Each account of o has a greater key than those behind it.
Descends(o, key) == \A i, j \in DOMAIN o : i < j => Greater(key[o[i]], key[o[j]])

\* The key of each account, and its place.
Placed(p, T, key) == [a \in T |-> key[a] \o <<-Position(p, a)>>]

\* With the place behind them, keys are all different and order ties as the pool does.
LEMMA PlacedFacts ==
    ASSUME NEW p \in Seq(Accounts), IsInjective(p), NEW T \in SUBSET Range(p),
           NEW n \in Nat, NEW key \in [T -> Keys(n)]
    PROVE  /\ Placed(p, T, key) \in [T -> Keys(n + 1)]
           /\ \A a, b \in T : a # b => \/ Greater(Placed(p, T, key)[a], Placed(p, T, key)[b])
                                       \/ Greater(Placed(p, T, key)[b], Placed(p, T, key)[a])
           /\ \A a, b \in T : Greater(Placed(p, T, key)[a], Placed(p, T, key)[b]) <=>
                \/ Greater(key[a], key[b])
                \/ key[a] = key[b] /\ Position(p, a) < Position(p, b)
<1>1. \A a \in T : /\ Position(p, a) \in 1 .. Len(p) /\ p[Position(p, a)] = a
                   /\ -Position(p, a) \in Int
    BY PositionFacts
<1>2. ASSUME NEW a \in T, NEW b \in T
      PROVE  /\ Placed(p, T, key)[a] \in Keys(n + 1)
             /\ Greater(Placed(p, T, key)[a], Placed(p, T, key)[b]) <=>
                    \/ Greater(key[a], key[b])
                    \/ key[a] = key[b] /\ Position(p, a) < Position(p, b)
  <2> DEFINE x == -Position(p, a)
             y == -Position(p, b)
  <2>1. x \in Int /\ y \in Int /\ (x > y <=> Position(p, a) < Position(p, b))
      BY <1>1
  <2>2. /\ Placed(p, T, key)[a] = key[a] \o <<x>>
        /\ Placed(p, T, key)[b] = key[b] \o <<y>>
      BY DEF Placed
  <2> HIDE DEF x, y
  <2>3. <<x>> \in Keys(1) /\ <<y>> \in Keys(1) /\ (Greater(<<x>>, <<y>>) <=> x > y)
      BY <2>1, GreaterOne
  <2>4. key[a] \in Keys(n) /\ key[b] \in Keys(n) /\ 1 \in Nat
      OBVIOUS
  <2>5. /\ key[a] \o <<x>> \in Keys(n + 1)
        /\ Greater(key[a] \o <<x>>, key[b] \o <<y>>) <=>
                Greater(key[a], key[b]) \/ (key[a] = key[b] /\ Greater(<<x>>, <<y>>))
      BY <2>3, <2>4, GreaterJoined
  <2> QED
      BY <2>1, <2>2, <2>3, <2>5
<1>3. ASSUME NEW a \in T, NEW b \in T, a # b
      PROVE  \/ Greater(Placed(p, T, key)[a], Placed(p, T, key)[b])
             \/ Greater(Placed(p, T, key)[b], Placed(p, T, key)[a])
  <2>1. Position(p, a) \in Int /\ Position(p, b) \in Int /\ Position(p, a) # Position(p, b)
      BY <1>1, <1>3
  <2>2. CASE key[a] = key[b]
      BY <1>2, <2>1, <2>2
  <2>3. CASE key[a] # key[b]
    <3>1. key[a] \in Keys(n) /\ key[b] \in Keys(n)
        OBVIOUS
    <3>2. Greater(key[a], key[b]) \/ Greater(key[b], key[a])
        BY <2>3, <3>1, GreaterIsTotal
    <3> QED
        BY <1>2, <3>2
  <2> QED
      BY <2>2, <2>3
<1> QED
    BY <1>2, <1>3 DEF Placed

\* sort.SliceStable loses and repeats nothing, and sorts.
LEMMA StableSortFacts ==
    ASSUME NEW p \in Seq(Accounts), IsInjective(p), NEW T \in SUBSET Range(p),
           NEW n \in Nat, NEW key \in [T -> Keys(n)]
    PROVE  /\ Lists(StableSort(p, T, key), T)
           /\ Descends(StableSort(p, T, key), Placed(p, T, key))
<1> DEFINE Entry(a) == [id |-> a, key |-> key[a] \o <<-Position(p, a)>>]
           E == {Entry(a) : a \in T}
           ahead(e) == {f \in E : Greater(f.key, e.key)}
           Nth(k) == CHOOSE e \in E : Cardinality(ahead(e)) = k - 1
           o == StableSort(p, T, key)
           ekey == [e \in E |-> e.key]
           full == Placed(p, T, key)
<1>1. o = [k \in 1 .. Cardinality(T) |-> Nth(k).id]
    BY DEF StableSort
<1>2. \A a \in T : Entry(a) \in E /\ Entry(a).id = a /\ Entry(a).key = full[a]
    BY DEF Placed
<1>3. ASSUME NEW e \in E
      PROVE  e.id \in T /\ e = Entry(e.id) /\ ekey[e] = full[e.id] /\ ekey[e] = e.key
  <2>1. PICK a \in T : e = Entry(a)
      OBVIOUS
  <2>2. e.id = a /\ e.key = full[a] /\ ekey[e] = e.key
      BY <1>2, <2>1
  <2> QED
      BY <2>1, <2>2
<1>4. IsFiniteSet(T) /\ Cardinality(T) \in Nat
    BY RangeIsFinite, FS_Subset, FS_CardinalityType
<1>5. IsFiniteSet(E) /\ Cardinality(E) = Cardinality(T)
  <2> DEFINE bij == [a \in T |-> Entry(a)]
  <2>1. bij \in Bijection(T, E)
    <3>1. bij \in [T -> E]
        BY <1>2
    <3>2. \A a, b \in T : bij[a] = bij[b] => a = b
        BY <1>2
    <3>3. \A e \in E : \E a \in T : bij[a] = e
        BY <1>3
    <3> QED
        BY <3>1, <3>2, <3>3 DEF Bijection, Injection, Surjection, IsInjective
  <2> QED
      BY <1>4, <2>1, FS_Bijection DEF ExistsBijection
<1>6. full \in [T -> Keys(n + 1)]
      /\ \A a, b \in T : a # b => Greater(full[a], full[b]) \/ Greater(full[b], full[a])
    BY PlacedFacts
<1> HIDE DEF Entry, E, full
<1>7. ekey \in [E -> Keys(n + 1)]
      /\ \A e, f \in E : e # f => Greater(ekey[e], ekey[f]) \/ Greater(ekey[f], ekey[e])
    BY <1>3, <1>6
<1>8. n + 1 \in Nat
    OBVIOUS
<1> DEFINE rank(e) == Rank(E, ekey, e)
<1>9. \A e \in E : rank(e) = Cardinality(ahead(e))
  <2>1. \A e \in E : {f \in E : Greater(ekey[f], ekey[e])} = ahead(e)
      BY <1>3
  <2> QED
      BY <2>1 DEF Rank
<1> HIDE DEF ekey, ahead
<1>10. /\ \A e \in E : rank(e) \in 0 .. Cardinality(T) - 1
       /\ \A k \in 1 .. Cardinality(T) : \E e \in E : rank(e) = k - 1
       /\ \A e, f \in E : Greater(ekey[e], ekey[f]) <=> rank(e) < rank(f)
       /\ \A e, f \in E : rank(e) = rank(f) => e = f
    BY <1>5, <1>7, <1>8, Ranking
<1> HIDE DEF rank
<1>11. \A k \in 1 .. Cardinality(T) : Nth(k) \in E /\ rank(Nth(k)) = k - 1
    BY <1>9, <1>10
<1> HIDE DEF Nth, o
<1>12. o \in [1 .. Cardinality(T) -> T]
    BY <1>1, <1>3, <1>11
<1>13. ASSUME NEW a \in T PROVE \E k \in 1 .. Cardinality(T) : o[k] = a
  <2> DEFINE k == rank(Entry(a)) + 1
  <2>1. rank(Entry(a)) \in 0 .. Cardinality(T) - 1
      BY <1>2, <1>10
  <2>2. k \in 1 .. Cardinality(T) /\ k - 1 = rank(Entry(a))
      BY <1>4, <2>1
  <2>3. Nth(k) = Entry(a)
      BY <1>2, <1>10, <1>11, <2>2
  <2> QED
      BY <1>1, <1>2, <2>2, <2>3
<1>14. ASSUME NEW i \in 1 .. Cardinality(T), NEW j \in 1 .. Cardinality(T), i < j
       PROVE  Greater(full[o[i]], full[o[j]])
  <2>1. Nth(i) \in E /\ Nth(j) \in E /\ rank(Nth(i)) = i - 1 /\ rank(Nth(j)) = j - 1
      BY <1>11
  <2>2. rank(Nth(i)) < rank(Nth(j))
      BY <1>4, <1>14, <2>1
  <2>3. Greater(ekey[Nth(i)], ekey[Nth(j)])
      BY <1>10, <2>1, <2>2
  <2> QED
      BY <1>1, <1>3, <2>1, <2>3
<1> QED
    BY <1>12, <1>13, <1>14 DEF Lists, Descends, o, full

-----------------------------------------------------------------------------
(* The capacity of an account.                                             *)

\* What ParseQuotaFraction returns.
LEMMA ClampFacts ==
    ASSUME NEW f \in OptInt
    PROVE  /\ Clamp(f) \in OptInt
           /\ Clamp(f) = Nil <=> f = Nil
           /\ f # Nil => Clamp(f) = IF f < 0 THEN 0 ELSE IF f > 1000 THEN 1000 ELSE f
BY SchedulerAssumption DEF Clamp, OptInt

\* The share of a window that is still to go is a number.
LEMMA ResetRatioType ==
    ASSUME NEW left \in OptInt, NEW w \in QuotaWindows
    PROVE  ResetRatio(left, w) \in Int
<1>1. CASE left = Nil \/ left <= 0 \/ left > Hours[w]
    BY <1>1 DEF ResetRatio
<1>2. CASE ~(left = Nil \/ left <= 0 \/ left > Hours[w])
  <2>1. left \in Int /\ Hours[w] \in Nat \ {0}
      BY <1>2 DEF OptInt, QuotaWindows, Hours
  <2>2. (1000 * left) \div Hours[w] \in Int
    <3>1. 1000 * left \in Int
        BY <2>1
    <3> QED
        BY <2>1, <3>1
  <2> QED
      BY <1>2, <2>2 DEF ResetRatio
<1> QED
    BY <1>1, <1>2

\* What is measured of a window.
LEMMA MeasuredType ==
    ASSUME NEW t \in Telemetry \cup {Nil}, NEW w \in QuotaWindows
    PROVE  /\ Measured(t, w) \in Window
           /\ HasExplicitWindows(t) /\ t.win[w] # Nil => t.win[w] \in Window
           /\ t # Nil => t.remaining \in OptInt
<1>1. t # Nil => /\ t.win[w] \in Window \cup {Nil}
                 /\ t.remaining \in OptInt /\ t.left \in OptInt
    BY DEF Telemetry
<1>2. HasExplicitWindows(t) => t # Nil
    BY DEF HasExplicitWindows
<1>3. CASE HasExplicitWindows(t) /\ t.win[w] # Nil
  <2>1. t.win[w] \in Window /\ t.win[w].frac \in OptInt
      BY <1>1, <1>2, <1>3 DEF Window
  <2>2. Clamp(t.win[w].frac) \in OptInt
      BY <2>1, ClampFacts
  <2> QED
      BY <1>1, <1>3, <2>1, <2>2 DEF Measured, Window
<1>4. CASE ~(HasExplicitWindows(t) /\ t.win[w] # Nil) /\ LegacyFractionKnown(t)
  <2>1. t # Nil
      BY <1>4 DEF LegacyFractionKnown
  <2>2. Clamp(t.remaining) \in OptInt
      BY <1>1, <2>1, ClampFacts
  <2> QED
      BY <1>1, <1>4, <2>1, <2>2 DEF Measured, Window
<1>5. CASE ~(HasExplicitWindows(t) /\ t.win[w] # Nil) /\ ~LegacyFractionKnown(t)
    BY <1>1, <1>5 DEF Measured, Window, NoWindow, OptInt
<1> QED
    BY <1>1, <1>3, <1>4, <1>5

\* So is the distance of a fraction from that share.
LEMMA PaceType ==
    ASSUME NEW m \in Window, NEW w \in QuotaWindows
    PROVE  Pace(m, w) \in Int
<1>1. m.frac \in OptInt /\ ResetRatio(m.left, w) \in Int
    BY ResetRatioType DEF Window
<1> QED
    BY <1>1 DEF Pace, OptInt

\* One of some windows has the least value.
LEMMA LeastWindow ==
    ASSUME NEW f \in [QuotaWindows -> OptInt], NEW K \in SUBSET QuotaWindows, K # {},
           \A w \in K : f[w] \in Int
    PROVE  \E w \in K : \A v \in K : f[w] <= f[v]
<1>1. CASE "w5" \notin K \/ "w7" \notin K
  <2>1. PICK w \in K : TRUE
      OBVIOUS
  <2>2. K = {w} /\ f[w] \in Int
      BY <1>1 DEF QuotaWindows
  <2> QED
      BY <2>2
<1>2. CASE "w5" \in K /\ "w7" \in K
  <2>1. K = {"w5", "w7"} /\ f["w5"] \in Int /\ f["w7"] \in Int
      BY <1>2 DEF QuotaWindows
  <2>2. f["w5"] <= f["w7"] \/ f["w7"] <= f["w5"]
      BY <2>1
  <2> QED
      BY <2>1, <2>2
<1> QED
    BY <1>1, <1>2

\* The least of the values of some windows.
LEMMA MinimumFacts ==
    ASSUME NEW f \in [QuotaWindows -> OptInt], NEW K \in SUBSET QuotaWindows,
           \A w \in K : f[w] \in Int, NEW d \in Int
    PROVE  LET least == Minimum({f[w] : w \in K}, d) IN
           /\ least \in Int
           /\ K = {} => least = d
           /\ K # {} => (\A w \in K : least <= f[w]) /\ \E w \in K : least = f[w]
<1> DEFINE S == {f[w] : w \in K}
<1>1. CASE K = {}
    BY <1>1 DEF Minimum
<1>2. CASE K # {}
  <2>1. PICK w \in K : \A v \in K : f[w] <= f[v]
      BY <1>2, LeastWindow
  <2>2. f[w] \in S /\ \A y \in S : f[w] <= y
      BY <2>1
  <2>3. Min(S) \in S /\ \A y \in S : Min(S) <= y
      BY <2>2 DEF Min
  <2>4. Minimum(S, d) = Min(S)
      BY <2>2 DEF Minimum
  <2>5. \E v \in K : Min(S) = f[v]
      BY <2>3
  <2>6. \A v \in K : f[v] \in S
      OBVIOUS
  <2> HIDE DEF S
  <2>7. /\ Minimum(S, d) \in Int /\ (\A v \in K : Minimum(S, d) <= f[v])
        /\ \E v \in K : Minimum(S, d) = f[v]
      BY <2>3, <2>4, <2>5, <2>6
  <2> QED
      BY <1>2, <2>7, Zenon DEF S
<1> QED
    BY <1>1, <1>2, Zenon

\* The windows of which something is known, and how fast each is used.
Known(t) == {w \in QuotaWindows : Measured(t, w).frac # Nil}
Fraction(t) == [w \in QuotaWindows |-> Measured(t, w).frac]
PaceOf(t) == [w \in QuotaWindows |-> Pace(Measured(t, w), w)]

\* The fields of ComputeCapacityState in these terms.
LEMMA CapacityParts ==
    ASSUME NEW t
    PROVE  /\ Capacity(t).windows.w5 = IF LegacyFractionKnown(t) THEN NoWindow ELSE Measured(t, "w5")
           /\ Capacity(t).windows.w7 = IF LegacyFractionKnown(t) THEN NoWindow ELSE Measured(t, "w7")
           /\ Capacity(t).count = IF LegacyFractionKnown(t) THEN 1 ELSE Cardinality(Known(t))
           /\ Capacity(t).worst = Minimum({PaceOf(t)[w] : w \in Known(t)}, NegInf)
           /\ Capacity(t).total =
                IF Known(t) = {} THEN NegInf ELSE PaceOf(t)["w5"] + PaceOf(t)["w7"]
           /\ Capacity(t).floor = Minimum({Fraction(t)[w] : w \in Known(t)}, 0)
           /\ Capacity(t).depleted = (Known(t) # {} /\ Capacity(t).floor <= 5)
<1> DEFINE m == [w5 |-> Measured(t, "w5"), w7 |-> Measured(t, "w7")]
           measured == {w \in QuotaWindows : m[w].frac # Nil}
           pace == [w5 |-> Pace(m.w5, "w5"), w7 |-> Pace(m.w7, "w7")]
<1>1. \A w \in QuotaWindows : m[w] = Measured(t, w) /\ pace[w] = PaceOf(t)[w]
    BY DEF QuotaWindows, PaceOf
<1>2. measured = Known(t)
    BY <1>1 DEF Known
<1>3. {m[w].frac : w \in measured} = {Fraction(t)[w] : w \in Known(t)}
    BY <1>1, <1>2 DEF Known, Fraction
<1>4. {pace[w] : w \in measured} = {PaceOf(t)[w] : w \in Known(t)}
    BY <1>1, <1>2 DEF Known
<1>5. pace.w5 = PaceOf(t)["w5"] /\ pace.w7 = PaceOf(t)["w7"]
    BY <1>1 DEF QuotaWindows
<1> DEFINE floor == Minimum({m[w].frac : w \in measured}, 0)
<1>6. Capacity(t) =
        [windows |-> IF LegacyFractionKnown(t) THEN [w5 |-> NoWindow, w7 |-> NoWindow] ELSE m,
         count |-> IF LegacyFractionKnown(t) THEN 1 ELSE Cardinality(measured),
         worst |-> Minimum({pace[w] : w \in measured}, NegInf),
         total |-> IF measured = {} THEN NegInf ELSE pace.w5 + pace.w7,
         floor |-> floor,
         depleted |-> measured # {} /\ floor <= 5]
    BY Zenon DEF Capacity
<1>7. m.w5 = Measured(t, "w5") /\ m.w7 = Measured(t, "w7")
    OBVIOUS
<1> HIDE DEF m, measured, pace
<1>8. /\ Capacity(t).windows = IF LegacyFractionKnown(t) THEN [w5 |-> NoWindow, w7 |-> NoWindow] ELSE m
      /\ Capacity(t).count = IF LegacyFractionKnown(t) THEN 1 ELSE Cardinality(measured)
      /\ Capacity(t).worst = Minimum({pace[w] : w \in measured}, NegInf)
      /\ Capacity(t).total = IF measured = {} THEN NegInf ELSE pace.w5 + pace.w7
      /\ Capacity(t).floor = floor
      /\ Capacity(t).depleted = (measured # {} /\ floor <= 5)
  <2> DEFINE w == IF LegacyFractionKnown(t) THEN [w5 |-> NoWindow, w7 |-> NoWindow] ELSE m
             c == IF LegacyFractionKnown(t) THEN 1 ELSE Cardinality(measured)
             p == Minimum({pace[x] : x \in measured}, NegInf)
             s == IF measured = {} THEN NegInf ELSE pace.w5 + pace.w7
             d == measured # {} /\ floor <= 5
  <2>1. Capacity(t) = [windows |-> w, count |-> c, worst |-> p, total |-> s, floor |-> floor, depleted |-> d]
      BY <1>6, Zenon
  <2> HIDE DEF w, c, p, s, d, floor
  <2>2. /\ Capacity(t).windows = w /\ Capacity(t).count = c /\ Capacity(t).worst = p
        /\ Capacity(t).total = s /\ Capacity(t).floor = floor
      BY <2>1
  <2>3. Capacity(t).depleted = d
      BY <2>1
  <2> QED
      BY <2>2, <2>3, Zenon DEF w, c, p, s, d
<1> HIDE DEF floor
<1>9. /\ Capacity(t).windows.w5 = IF LegacyFractionKnown(t) THEN NoWindow ELSE m.w5
      /\ Capacity(t).windows.w7 = IF LegacyFractionKnown(t) THEN NoWindow ELSE m.w7
    BY <1>8
<1>10. Capacity(t).floor = Minimum({Fraction(t)[w] : w \in Known(t)}, 0)
    BY <1>3, <1>8 DEF floor
<1>11. Capacity(t).depleted = (Known(t) # {} /\ Capacity(t).floor <= 5)
    BY <1>2, <1>8, Zenon
<1>12. Capacity(t).worst = Minimum({PaceOf(t)[w] : w \in Known(t)}, NegInf)
    BY <1>4, <1>8
<1>13. Capacity(t).total = IF Known(t) = {} THEN NegInf ELSE PaceOf(t)["w5"] + PaceOf(t)["w7"]
    BY <1>2, <1>5, <1>8
<1>14. Capacity(t).count = IF LegacyFractionKnown(t) THEN 1 ELSE Cardinality(Known(t))
    BY <1>2, <1>8
<1> QED
    BY <1>7, <1>9, <1>10, <1>11, <1>12, <1>13, <1>14, Zenon

\* They are numbers, whatever telemetry an account has.
LEMMA CapacityType ==
    ASSUME NEW t \in Telemetry \cup {Nil}
    PROVE  /\ Known(t) \in SUBSET QuotaWindows
           /\ \A w \in QuotaWindows : PaceOf(t)[w] \in Int
           /\ \A w \in Known(t) : Fraction(t)[w] \in Int
           /\ Cardinality(Known(t)) \in Nat
           /\ Capacity(t).count \in Int
           /\ Capacity(t).worst \in Int
           /\ Capacity(t).total \in Int
           /\ Capacity(t).floor \in Int
           /\ FreshnessRank(t) \in Int
<1>1. \A w \in QuotaWindows : Measured(t, w) \in Window
    BY MeasuredType
<1>2. Known(t) \in SUBSET QuotaWindows
    BY DEF Known
<1>3. \A w \in QuotaWindows : PaceOf(t)[w] \in Int
    BY <1>1, PaceType DEF PaceOf
<1>4. \A w \in Known(t) : Fraction(t)[w] \in Int
    BY <1>1, <1>2 DEF Known, Fraction, Window, OptInt
<1>5. Cardinality(Known(t)) \in Nat
  <2>1. "w5" # "w7" /\ IsFiniteSet({"w5"})
      BY FS_Singleton
  <2>2. IsFiniteSet({"w5"} \cup {"w7"})
      BY <2>1, FS_AddElement
  <2>3. Known(t) \in SUBSET ({"w5"} \cup {"w7"})
      BY <1>2 DEF QuotaWindows
  <2> QED
      BY <2>2, <2>3, FS_Subset, FS_CardinalityType
<1>6. NegInf \in Int /\ "w5" \in QuotaWindows /\ "w7" \in QuotaWindows
    BY DEF NegInf, QuotaWindows
<1>7. Capacity(t).count \in Int
  <2>1. Capacity(t).count = IF LegacyFractionKnown(t) THEN 1 ELSE Cardinality(Known(t))
      BY CapacityParts, Zenon
  <2> QED
      BY <1>5, <2>1
<1>8. Capacity(t).worst \in Int
  <2>1. PaceOf(t) \in [QuotaWindows -> OptInt] /\ \A w \in Known(t) : PaceOf(t)[w] \in Int
      BY <1>2, <1>3 DEF PaceOf, OptInt
  <2>2. Minimum({PaceOf(t)[w] : w \in Known(t)}, NegInf) \in Int
      BY <1>2, <1>6, <2>1, MinimumFacts, Zenon
  <2> QED
      BY <2>2, CapacityParts, Zenon
<1>9. Capacity(t).total \in Int
  <2>1. Capacity(t).total = IF Known(t) = {} THEN NegInf ELSE PaceOf(t)["w5"] + PaceOf(t)["w7"]
      BY CapacityParts, Zenon
  <2> QED
      BY <1>3, <1>6, <2>1
<1>10. Capacity(t).floor \in Int
  <2>1. Fraction(t) \in [QuotaWindows -> OptInt] /\ 0 \in Int
      BY <1>1 DEF Fraction, Window
  <2>2. Minimum({Fraction(t)[w] : w \in Known(t)}, 0) \in Int
      BY <1>2, <1>4, <2>1, MinimumFacts, Zenon
  <2> QED
      BY <2>2, CapacityParts, Zenon
<1>11. FreshnessRank(t) \in Int
    BY DEF FreshnessRank
<1> QED
    BY <1>2, <1>3, <1>4, <1>5, <1>7, <1>8, <1>9, <1>10, <1>11

\* A new account has a record.
LEMMA NoDataIsRecord == NoData \in Record
BY DEF NoData, Record

\* The keys are keys.
LEMMA KeyTypes ==
    ASSUME NEW r \in Record, NEW a \in Nat
    PROVE  /\ MaxQuotaKey(r) \in Keys(6)
           /\ LeastUsedKey(r, a) \in Keys(7)
           /\ DepletedKey(r) \in Keys(2)
<1> DEFINE t == r.tele
           c == Capacity(t)
           f == FreshnessRank(t)
<1>1. t \in Telemetry \cup {Nil} /\ -r.hits \in Int /\ -a \in Int
    BY DEF Record
<1>2. c.count \in Int /\ c.worst \in Int /\ c.total \in Int /\ c.floor \in Int /\ f \in Int
    BY <1>1, CapacityType
<1>3. /\ MaxQuotaKey(r) = <<c.count, f, c.worst, c.total, c.floor, -r.hits>>
      /\ LeastUsedKey(r, a) = <<-r.hits, c.count, f, c.worst, c.total, c.floor, -a>>
      /\ DepletedKey(r) = <<c.floor, -r.hits>>
    BY Zenon DEF MaxQuotaKey, LeastUsedKey, DepletedKey
<1> HIDE DEF t, c, f
<1>4. <<c.count, f, c.worst, c.total, c.floor, -r.hits>> \in Keys(6)
    BY <1>1, <1>2 DEF Keys
<1>5. <<-r.hits, c.count, f, c.worst, c.total, c.floor, -a>> \in Keys(7)
    BY <1>1, <1>2 DEF Keys
<1>6. <<c.floor, -r.hits>> \in Keys(2)
    BY <1>1, <1>2 DEF Keys
<1> QED
    BY <1>3, <1>4, <1>5, <1>6

-----------------------------------------------------------------------------
(* The order of the candidates.                                            *)

\* No account is listed twice.
LEMMA ListsOnce ==
    ASSUME NEW S, IsFiniteSet(S), NEW o, Lists(o, S)
    PROVE  IsInjective(o)
<1> DEFINE n == Cardinality(S)
<1>1. n \in Nat
    BY FS_CardinalityType
<1>2. IsFiniteSet(1 .. n) /\ Cardinality(1 .. n) = n
    BY <1>1, FS_Interval
<1>3. o \in Surjection(1 .. n, S)
    BY DEF Lists, Surjection
<1> HIDE DEF n
<1>4. o \in Injection(1 .. n, S)
    BY <1>2, <1>3, FS_SurjSameCardinalityImpliesInj DEF n
<1> QED
    BY <1>4 DEF Injection

\* Each account of o precedes those behind it.
Ordered(o, R) == \A i, j \in DOMAIN o : i < j => <<o[i], o[j]>> \in R

\* Lists of disjoint sets, one behind the other.
LEMMA JoinedLists ==
    ASSUME NEW S, IsFiniteSet(S), NEW T, IsFiniteSet(T), S \cap T = {}, NEW o, NEW u, NEW R,
           Lists(o, S), Ordered(o, R), Lists(u, T), Ordered(u, R),
           \A a \in S, b \in T : <<a, b>> \in R
    PROVE  Lists(o \o u, S \cup T) /\ Ordered(o \o u, R)
<1> DEFINE n == Cardinality(S)
           m == Cardinality(T)
           ou == o \o u
<1>1. n \in Nat /\ m \in Nat
    BY FS_CardinalityType
<1>2. Cardinality(S \cup T) = n + m
  <2>1. Cardinality(S \cup T) = n + m - Cardinality(S \cap T)
      BY FS_Union
  <2>2. Cardinality(S \cap T) = 0
      BY FS_EmptySet
  <2> QED
      BY <1>1, <2>1, <2>2
<1>3. o \in [1 .. n -> S] /\ u \in [1 .. m -> T]
    BY DEF Lists
<1> HIDE DEF n, m
<1>4. o \in Seq(S \cup T) /\ Len(o) = n /\ u \in Seq(S \cup T) /\ Len(u) = m
    BY <1>1, <1>3
<1>5. /\ ou \in Seq(S \cup T) /\ Len(ou) = n + m
      /\ \A i \in 1 .. n + m : ou[i] = IF i <= n THEN o[i] ELSE u[i - n]
    BY <1>4, ConcatProperties
<1> HIDE DEF ou
<1>6. ou \in [1 .. n + m -> S \cup T]
    BY <1>5
<1>7. ASSUME NEW a \in S \cup T PROVE \E i \in 1 .. n + m : ou[i] = a
  <2>1. CASE a \in S
    <3>1. PICK i \in 1 .. n : o[i] = a
        BY <2>1 DEF Lists, n
    <3>2. i \in 1 .. n + m /\ i <= n
        BY <1>1
    <3> QED
        BY <1>5, <3>1, <3>2
  <2>2. CASE a \in T
    <3>1. PICK i \in 1 .. m : u[i] = a
        BY <2>2 DEF Lists, m
    <3>2. n + i \in 1 .. n + m /\ ~(n + i <= n) /\ (n + i) - n = i
        BY <1>1
    <3> QED
        BY <1>5, <3>1, <3>2
  <2> QED
      BY <2>1, <2>2
<1>8. ASSUME NEW i \in 1 .. n + m, NEW j \in 1 .. n + m, i < j PROVE <<ou[i], ou[j]>> \in R
  <2>1. CASE j <= n
    <3>1. i \in 1 .. n /\ j \in 1 .. n /\ i <= n
        BY <1>1, <1>8, <2>1
    <3> QED
        BY <1>3, <1>5, <1>8, <2>1, <3>1 DEF Ordered
  <2>2. CASE i <= n /\ ~(j <= n)
    <3>1. i \in 1 .. n /\ j - n \in 1 .. m
        BY <1>1, <2>2
    <3> QED
        BY <1>3, <1>5, <2>2, <3>1
  <2>3. CASE ~(i <= n)
    <3>1. i - n \in 1 .. m /\ j - n \in 1 .. m /\ i - n < j - n /\ ~(j <= n)
        BY <1>1, <1>8, <2>3
    <3> QED
        BY <1>3, <1>5, <2>3, <3>1 DEF Ordered
  <2> QED
      BY <1>1, <1>8, <2>1, <2>2, <2>3
<1> QED
    BY <1>2, <1>6, <1>7, <1>8 DEF Lists, Ordered, ou

\* What decides within a tier, for any pool, records and cursor.
EligibleKey(p, ac, strategy, c, a) ==
    CASE strategy = "least_used"  -> LeastUsedKey(ac[a], a)
      [] strategy = "round_robin" ->
            IF /\ c \in {b \in Range(p) : IsEligible(ac[b])}
               /\ Position(p, a) > Position(p, c)
            THEN <<1>> ELSE <<0>>
      [] OTHER                    ->
            <<IF IsReserve(ac[a].tele) THEN 0 ELSE 1>> \o MaxQuotaKey(ac[a])

\* The key that orders a within its tier.
TierKey(p, ac, strategy, c, a) ==
    CASE Tier(ac[a]) = 2 -> <<>>
      [] Tier(ac[a]) = 1 -> DepletedKey(ac[a])
      [] OTHER           -> EligibleKey(p, ac, strategy, c, a)

\* The tier, then the key, then the place in the pool.
Before(p, ac, strategy, c, a, b) ==
    \/ Tier(ac[a]) < Tier(ac[b])
    \/ /\ Tier(ac[a]) = Tier(ac[b])
       /\ LET k == TierKey(p, ac, strategy, c, a)
              l == TierKey(p, ac, strategy, c, b)
          IN Greater(k, l) \/ (k = l /\ Position(p, a) < Position(p, b))

\* Before, as a relation between the members.
Precedence(p, ac, strategy, c) ==
    {ab \in Range(p) \X Range(p) : Before(p, ac, strategy, c, ab[1], ab[2])}

\* A part of one tier, sorted by what decides in this tier.
LEMMA TierSorted ==
    ASSUME NEW p \in Seq(Accounts), IsInjective(p), NEW ac, NEW strategy, NEW c,
           NEW T \in SUBSET Range(p), NEW n \in Nat, NEW key \in [T -> Keys(n)],
           \A a, b \in T : Tier(ac[a]) = Tier(ac[b]),
           \A a, b \in T :
                LET k == TierKey(p, ac, strategy, c, a)
                    l == TierKey(p, ac, strategy, c, b)
                IN /\ Greater(key[a], key[b]) => Greater(k, l)
                   /\ key[a] = key[b] => k = l
    PROVE  /\ Lists(StableSort(p, T, key), T)
           /\ Ordered(StableSort(p, T, key), Precedence(p, ac, strategy, c))
<1> DEFINE o == StableSort(p, T, key)
           full == Placed(p, T, key)
<1>1. Lists(o, T) /\ Descends(o, full)
    BY StableSortFacts
<1>2. \A a, b \in T : Greater(full[a], full[b]) =>
            Greater(key[a], key[b]) \/ (key[a] = key[b] /\ Position(p, a) < Position(p, b))
    BY PlacedFacts
<1> HIDE DEF full, o
<1>3. ASSUME NEW a \in T, NEW b \in T, Greater(full[a], full[b])
      PROVE  <<a, b>> \in Precedence(p, ac, strategy, c)
  <2>1. Before(p, ac, strategy, c, a, b)
      BY <1>2, <1>3 DEF Before
  <2> QED
      BY <2>1 DEF Precedence
<1>4. DOMAIN o = 1 .. Cardinality(T) /\ \A i \in DOMAIN o : o[i] \in T
    BY <1>1 DEF Lists
<1>5. Ordered(o, Precedence(p, ac, strategy, c))
    BY <1>1, <1>3, <1>4 DEF Ordered, Descends
<1> QED
    BY <1>1, <1>5 DEF o

\* The accounts of a tier.
TierOf(p, ac, n) == {a \in Range(p) : ~ac[a].restricted /\ Tier(ac[a]) = n}

\* The three lists that OrderCandidates joins are the three tiers.
LEMMA TiersAre ==
    ASSUME NEW p, NEW ac
    PROVE  /\ {a \in Range(p) : IsEligible(ac[a])} = TierOf(p, ac, 0)
           /\ {a \in Range(p) : IsDepleted(ac[a])} = TierOf(p, ac, 1)
           /\ {a \in Range(p) : InCooldown(ac[a])} = TierOf(p, ac, 2)
BY DEF TierOf, Tier, IsEligible, IsDepleted, InCooldown

\* Each account of a pool has a record.
LEMMA RecordsOf ==
    ASSUME NEW p \in Seq(Accounts), NEW ac \in [Accounts -> Record], NEW a \in Range(p)
    PROVE  a \in Accounts /\ a \in Nat /\ ac[a] \in Record
BY SchedulerAssumption DEF Range

\* The depleted and those in cooldown are sorted.
LEMMA LaterTiersSorted ==
    ASSUME NEW p \in Seq(Accounts), IsInjective(p), NEW ac \in [Accounts -> Record],
           NEW strategy, NEW c
    PROVE  LET R == Precedence(p, ac, strategy, c) IN
           /\ Lists(DepletedOrder(p, TierOf(p, ac, 1), ac), TierOf(p, ac, 1))
           /\ Ordered(DepletedOrder(p, TierOf(p, ac, 1), ac), R)
           /\ Lists(CooldownOrder(p, TierOf(p, ac, 2)), TierOf(p, ac, 2))
           /\ Ordered(CooldownOrder(p, TierOf(p, ac, 2)), R)
<1> DEFINE D == TierOf(p, ac, 1)
           C == TierOf(p, ac, 2)
           dkey == [a \in D |-> DepletedKey(ac[a])]
           ckey == [a \in C |-> <<>>]
<1>1. D \in SUBSET Range(p) /\ C \in SUBSET Range(p)
    BY DEF TierOf
<1>2. dkey \in [D -> Keys(2)] /\ ckey \in [C -> Keys(0)] /\ 2 \in Nat /\ 0 \in Nat
  <2>1. <<>> \in Keys(0)
      BY DEF Keys
  <2> QED
      BY <1>1, <2>1, RecordsOf, KeyTypes
<1>3. \A a \in D : Tier(ac[a]) = 1 /\ TierKey(p, ac, strategy, c, a) = dkey[a]
    BY DEF TierOf, TierKey
<1>4. \A a \in C : Tier(ac[a]) = 2 /\ TierKey(p, ac, strategy, c, a) = ckey[a]
    BY DEF TierOf, TierKey
<1>5. DepletedOrder(p, D, ac) = StableSort(p, D, dkey) /\ CooldownOrder(p, C) = StableSort(p, C, ckey)
    BY DEF DepletedOrder, CooldownOrder
<1> HIDE DEF D, C, dkey, ckey
<1>6. /\ Lists(StableSort(p, D, dkey), D)
      /\ Ordered(StableSort(p, D, dkey), Precedence(p, ac, strategy, c))
    BY <1>1, <1>2, <1>3, TierSorted
<1>7. /\ Lists(StableSort(p, C, ckey), C)
      /\ Ordered(StableSort(p, C, ckey), Precedence(p, ac, strategy, c))
    BY <1>1, <1>2, <1>4, TierSorted
<1> QED
    BY <1>5, <1>6, <1>7 DEF D, C

\* The eligible are sorted, with any strategy: the reserve of max_quota behind the others.
LEMMA EligibleSorted ==
    ASSUME NEW p \in Seq(Accounts), IsInjective(p), NEW ac \in [Accounts -> Record],
           NEW strategy \in Strategies, NEW c
    PROVE  LET o == EligibleOrder(p, TierOf(p, ac, 0), ac, strategy, c) IN
           /\ Lists(o, TierOf(p, ac, 0))
           /\ Ordered(o, Precedence(p, ac, strategy, c))
<1> DEFINE E == TierOf(p, ac, 0)
           o == EligibleOrder(p, E, ac, strategy, c)
           R == Precedence(p, ac, strategy, c)
<1>1. E \in SUBSET Range(p) /\ (\A a \in E : Tier(ac[a]) = 0) /\ 7 \in Nat /\ 1 \in Nat /\ 6 \in Nat
    BY DEF TierOf
<1>2. \A a \in E : TierKey(p, ac, strategy, c, a) = EligibleKey(p, ac, strategy, c, a)
    BY <1>1 DEF TierKey
<1>3. \A a \in E : MaxQuotaKey(ac[a]) \in Keys(6) /\ LeastUsedKey(ac[a], a) \in Keys(7)
    BY <1>1, RecordsOf, KeyTypes
<1>4. CASE strategy = "least_used"
  <2> DEFINE key == [a \in E |-> LeastUsedKey(ac[a], a)]
  <2>1. o = StableSort(p, E, key) /\ \A a \in E : EligibleKey(p, ac, strategy, c, a) = key[a]
      BY <1>4 DEF EligibleOrder, EligibleKey
  <2>2. key \in [E -> Keys(7)]
      BY <1>3
  <2>3. \A a \in E : TierKey(p, ac, strategy, c, a) = key[a]
      BY <1>2, <2>1
  <2> HIDE DEF E, key, o
  <2>4. Lists(StableSort(p, E, key), E) /\ Ordered(StableSort(p, E, key), Precedence(p, ac, strategy, c))
      BY <1>1, <2>2, <2>3, TierSorted
  <2> QED
      BY <2>1, <2>4 DEF E, o
<1>5. CASE strategy = "round_robin"
  <2> DEFINE Behind(a) == c \in E /\ Position(p, a) > Position(p, c)
             key == [a \in E |-> IF Behind(a) THEN <<1>> ELSE <<0>>]
  <2>1. o = StableSort(p, E, key)
      BY <1>5 DEF EligibleOrder, Rotated
  <2>2. \A a \in E : EligibleKey(p, ac, strategy, c, a) = key[a]
      BY <1>5, TiersAre DEF EligibleKey
  <2>3. key \in [E -> Keys(1)]
      BY DEF Keys
  <2>4. \A a \in E : TierKey(p, ac, strategy, c, a) = key[a]
      BY <1>2, <2>2
  <2> HIDE DEF E, key, o
  <2>5. Lists(StableSort(p, E, key), E) /\ Ordered(StableSort(p, E, key), Precedence(p, ac, strategy, c))
      BY <1>1, <2>3, <2>4, TierSorted
  <2> QED
      BY <2>1, <2>5 DEF E, o
<1>6. CASE strategy = "max_quota"
  <2> DEFINE V == {a \in E : IsReserve(ac[a].tele)}
             H == E \ V
             Key(S) == [a \in S |-> MaxQuotaKey(ac[a])]
             hard(a) == <<IF IsReserve(ac[a].tele) THEN 0 ELSE 1>>
  <2>1. o = StableSort(p, H, Key(H)) \o StableSort(p, V, Key(V))
      BY <1>6 DEF EligibleOrder, MaxQuotaOrder
  <2>2. \A a \in E : TierKey(p, ac, strategy, c, a) = hard(a) \o MaxQuotaKey(ac[a])
      BY <1>2, <1>6 DEF EligibleKey
  <2>3. H \in SUBSET E /\ V \in SUBSET E /\ H \cup V = E /\ H \cap V = {}
      OBVIOUS
  <2>4. IsFiniteSet(H) /\ IsFiniteSet(V)
      BY <1>1, <2>3, RangeIsFinite, FS_Subset
  <2>5. \A a \in H : hard(a) = <<1>>
      OBVIOUS
  <2>6. \A a \in V : hard(a) = <<0>>
      OBVIOUS
  <2>7. <<1>> \in Keys(1) /\ <<0>> \in Keys(1) /\ Greater(<<1>>, <<0>>)
      BY GreaterOne
  <2> HIDE DEF E, V, H, hard
  <2>8. ASSUME NEW S \in SUBSET E, NEW h \in Keys(1), \A a \in S : hard(a) = h
        PROVE  Lists(StableSort(p, S, Key(S)), S) /\ Ordered(StableSort(p, S, Key(S)), R)
    <3> DEFINE key == Key(S)
    <3>1. key \in [S -> Keys(6)] /\ S \in SUBSET Range(p) /\ \A a \in S : key[a] = MaxQuotaKey(ac[a])
        BY <1>1, <1>3
    <3>2. \A a, b \in S : Tier(ac[a]) = Tier(ac[b])
        BY <1>1
    <3>3. \A a \in S : TierKey(p, ac, strategy, c, a) = h \o key[a]
        BY <2>2, <2>8, <3>1
    <3> HIDE DEF key
    <3>4. ASSUME NEW a \in S, NEW b \in S
          PROVE  LET k == TierKey(p, ac, strategy, c, a)
                     l == TierKey(p, ac, strategy, c, b)
                 IN /\ Greater(key[a], key[b]) => Greater(k, l)
                    /\ key[a] = key[b] => k = l
      <4>1. key[a] \in Keys(6) /\ key[b] \in Keys(6)
          BY <3>1
      <4>2. Greater(key[a], key[b]) => Greater(h \o key[a], h \o key[b])
          BY <1>1, <4>1, GreaterJoined
      <4> QED
          BY <3>3, <4>2
    <3> QED
        BY <1>1, <3>1, <3>2, <3>4, TierSorted DEF key
  <2>9. ASSUME NEW a \in H, NEW b \in V PROVE <<a, b>> \in R
    <3>1. a \in E /\ b \in E /\ hard(a) = <<1>> /\ hard(b) = <<0>>
        BY <2>3, <2>5, <2>6
    <3>2. MaxQuotaKey(ac[a]) \in Keys(6) /\ MaxQuotaKey(ac[b]) \in Keys(6)
        BY <1>3, <3>1
    <3>3. Greater(hard(a) \o MaxQuotaKey(ac[a]), hard(b) \o MaxQuotaKey(ac[b]))
        BY <1>1, <2>7, <3>1, <3>2, GreaterJoined
    <3>4. Before(p, ac, strategy, c, a, b)
        BY <1>1, <2>2, <3>1, <3>3 DEF Before
    <3> QED
        BY <1>1, <3>1, <3>4 DEF Precedence
  <2>10. /\ Lists(StableSort(p, H, Key(H)), H) /\ Ordered(StableSort(p, H, Key(H)), R)
         /\ Lists(StableSort(p, V, Key(V)), V) /\ Ordered(StableSort(p, V, Key(V)), R)
      BY <2>3, <2>5, <2>6, <2>7, <2>8
  <2> HIDE DEF Key, o, R
  <2>11. Lists(o, E) /\ Ordered(o, R)
      BY <2>1, <2>3, <2>4, <2>9, <2>10, JoinedLists
  <2> QED
      BY <2>11 DEF E, o, R
<1> QED
    BY <1>4, <1>5, <1>6 DEF Strategies

\* Every account that is not restricted is a candidate once, and precedes those
\* behind it.
LEMMA OrderFacts ==
    ASSUME NEW p \in Seq(Accounts), IsInjective(p), NEW ac \in [Accounts -> Record],
           NEW strategy \in Strategies, NEW c
    PROVE  LET o == OrderCandidates(p, ac, strategy, c) IN
           /\ Lists(o, {a \in Range(p) : ~ac[a].restricted})
           /\ Ordered(o, Precedence(p, ac, strategy, c))
<1> DEFINE E == TierOf(p, ac, 0)
           D == TierOf(p, ac, 1)
           C == TierOf(p, ac, 2)
           e == EligibleOrder(p, E, ac, strategy, c)
           d == DepletedOrder(p, D, ac)
           k == CooldownOrder(p, C)
           R == Precedence(p, ac, strategy, c)
<1>1. OrderCandidates(p, ac, strategy, c) = (e \o d) \o k
    BY TiersAre DEF OrderCandidates
<1>2. /\ Lists(e, E) /\ Ordered(e, R) /\ Lists(d, D) /\ Ordered(d, R)
      /\ Lists(k, C) /\ Ordered(k, R)
    BY EligibleSorted, LaterTiersSorted
<1>3. \A a \in Range(p) : Tier(ac[a]) \in {0, 1, 2}
    BY DEF Tier
<1>4. /\ E \cap D = {} /\ (E \cup D) \cap C = {}
      /\ (E \cup D) \cup C = {a \in Range(p) : ~ac[a].restricted}
    BY <1>3 DEF TierOf
<1>5. IsFiniteSet(E) /\ IsFiniteSet(D) /\ IsFiniteSet(C) /\ IsFiniteSet(E \cup D)
  <2>1. /\ E \in SUBSET Range(p) /\ D \in SUBSET Range(p) /\ C \in SUBSET Range(p)
        /\ E \cup D \in SUBSET Range(p)
      BY DEF TierOf
  <2> QED
      BY <2>1, RangeIsFinite, FS_Subset
<1>6. ASSUME NEW a \in Range(p), NEW b \in Range(p), Tier(ac[a]) < Tier(ac[b])
      PROVE  <<a, b>> \in R
    BY <1>6 DEF Precedence, Before
<1>7. /\ \A a \in E, b \in D : <<a, b>> \in R
      /\ \A a \in E \cup D, b \in C : <<a, b>> \in R
    BY <1>6 DEF TierOf
<1> HIDE DEF E, D, C, e, d, k, R
<1>8. Lists(e \o d, E \cup D) /\ Ordered(e \o d, R)
    BY <1>2, <1>4, <1>5, <1>7, JoinedLists
<1> DEFINE ed == e \o d
           ED == E \cup D
<1>9. Lists(ed, ED) /\ Ordered(ed, R) /\ IsFiniteSet(ED) /\ ED \cap C = {} /\ \A a \in ED, b \in C : <<a, b>> \in R
    BY <1>4, <1>5, <1>7, <1>8
<1> HIDE DEF ed, ED
<1>10. Lists(ed \o k, ED \cup C) /\ Ordered(ed \o k, R)
    BY <1>2, <1>5, <1>9, JoinedLists
<1> QED
    BY <1>1, <1>4, <1>10 DEF ed, ED, R

-----------------------------------------------------------------------------
(* The order and the round robin of the pool.                              *)

\* The pool has accounts, and the accounts have records.
LEMMA RecordsTyped ==
    ASSUME PoolTypeOK
    PROVE  /\ acct \in [Accounts -> Record]
           /\ Members \in SUBSET Accounts /\ Members \in SUBSET Nat
BY SchedulerAssumption, NoDataIsRecord DEF PoolTypeOK, Members, Range

\* Once around the pool.
LEMMA AroundOnce ==
    ASSUME NEW n \in Nat \ {0}, NEW i \in 1 .. n, NEW c \in 1 .. n
    PROVE  (i - c - 1) % n = IF i > c THEN i - c - 1 ELSE (i - c - 1) + n
<1> DEFINE x == i - c - 1
<1>1. x \in Int /\ -n <= x /\ x < n /\ (i > c <=> 0 <= x)
    OBVIOUS
<1> HIDE DEF x
<1>2. CASE 0 <= x
  <2>1. x % n = x
      BY <1>1, <1>2
  <2> QED
      BY <1>1, <1>2, <2>1 DEF x
<1>3. CASE ~(0 <= x)
  <2>1. x % n = x + n
      BY <1>1, <1>3
  <2> QED
      BY <1>1, <1>3, <2>1 DEF x
<1> QED
    BY <1>2, <1>3

\* Where an eligible account is, as seen from the cursor.
LEMMA DistanceFacts ==
    ASSUME PoolTypeOK, NEW a \in Eligible, NEW b \in Eligible
    PROVE  LET k == EligibleKey(pool, acct, "round_robin", cursor, a)
               l == EligibleKey(pool, acct, "round_robin", cursor, b)
           IN /\ Distance(a) \in Int
              /\ Greater(k, l) \/ (k = l /\ Index(a) < Index(b)) => Distance(a) < Distance(b)
<1> DEFINE Far(x) == cursor \in Eligible /\ Index(x) > Index(cursor)
           key(x) == IF Far(x) THEN <<1>> ELSE <<0>>
<1>1. \A x : EligibleKey(pool, acct, "round_robin", cursor, x) = key(x)
    BY DEF EligibleKey, Eligible, Members, Index
<1>2. Len(pool) \in Nat \ {0} /\ Index(a) \in 1 .. Len(pool) /\ Index(b) \in 1 .. Len(pool)
  <2>1. pool \in Seq(Accounts) /\ a \in Range(pool) /\ b \in Range(pool)
      BY DEF PoolTypeOK, Eligible, Members
  <2>2. Index(a) \in 1 .. Len(pool) /\ Index(b) \in 1 .. Len(pool)
      BY <2>1, PositionFacts DEF Index
  <2> QED
      BY <2>1, <2>2
<1>3. /\ Greater(<<1>>, <<0>>) /\ ~Greater(<<0>>, <<1>>) /\ ~Greater(<<0>>, <<0>>) /\ ~Greater(<<1>>, <<1>>)
      /\ <<0>> # <<1>>
  <2>1. \A x, y \in Int : Greater(<<x>>, <<y>>) <=> x > y
      BY GreaterOne, Zenon
  <2>2. <<0>> # <<1>>
      OBVIOUS
  <2> QED
      BY <2>1, <2>2
<1>4. CASE cursor \in Eligible
  <2>1. Index(cursor) \in 1 .. Len(pool)
      BY <1>4, PositionFacts DEF PoolTypeOK, Eligible, Members, Index
  <2>2. /\ Distance(a) = (Index(a) - Index(cursor) - 1) % Len(pool)
        /\ Distance(b) = (Index(b) - Index(cursor) - 1) % Len(pool)
      BY <1>4 DEF Distance
  <2> DEFINE i == Index(a)
             j == Index(b)
             c == Index(cursor)
             n == Len(pool)
  <2>3. /\ Distance(a) = IF i > c THEN i - c - 1 ELSE (i - c - 1) + n
        /\ Distance(b) = IF j > c THEN j - c - 1 ELSE (j - c - 1) + n
      BY <1>2, <2>1, <2>2, AroundOnce
  <2>4. /\ key(a) = IF i > c THEN <<1>> ELSE <<0>>
        /\ key(b) = IF j > c THEN <<1>> ELSE <<0>>
      BY <1>4
  <2>5. i \in 1 .. n /\ j \in 1 .. n /\ c \in 1 .. n /\ n \in Nat
      BY <1>2, <2>1
  <2> HIDE DEF i, j, c, n, key
  <2>6. Distance(a) \in Int
      BY <2>3, <2>5
  <2>7. ASSUME Greater(key(a), key(b)) PROVE Distance(a) < Distance(b)
    <3>1. i > c /\ ~(j > c)
        BY <1>3, <2>4, <2>7
    <3> QED
        BY <2>3, <2>5, <3>1
  <2>8. ASSUME key(a) = key(b), i < j PROVE Distance(a) < Distance(b)
    <3>1. i > c <=> j > c
        BY <1>3, <2>4, <2>8
    <3> QED
        BY <2>3, <2>5, <2>8, <3>1
  <2> QED
      BY <1>1, <2>6, <2>7, <2>8 DEF i, j
<1>5. CASE cursor \notin Eligible
  <2>1. Distance(a) = Index(a) /\ Distance(b) = Index(b) /\ key(a) = <<0>> /\ key(b) = <<0>>
      BY <1>5 DEF Distance
  <2> QED
      BY <1>1, <1>2, <1>3, <2>1
<1> QED
    BY <1>4, <1>5

\* What comes before has more merit, or as much and an earlier place.
LEMMA MeritFacts ==
    ASSUME PoolTypeOK, NEW strategy \in Strategies,
           NEW a \in Members, ~acct[a].restricted, NEW b \in Members, ~acct[b].restricted,
           Tier(acct[a]) = Tier(acct[b]),
           Before(pool, acct, strategy, cursor, a, b)
    PROVE  \E n \in Nat :
                /\ Merit(a, strategy) \in Keys(n) /\ Merit(b, strategy) \in Keys(n)
                /\ \/ Greater(Merit(a, strategy), Merit(b, strategy))
                   \/ Merit(a, strategy) = Merit(b, strategy) /\ Index(a) < Index(b)
<1> DEFINE k == TierKey(pool, acct, strategy, cursor, a)
           l == TierKey(pool, acct, strategy, cursor, b)
<1>1. /\ Tier(acct[a]) \in {0, 1, 2}
      /\ acct[a] \in Record /\ acct[b] \in Record /\ a \in Nat /\ b \in Nat
    BY RecordsTyped DEF Tier
<1>2. Greater(k, l) \/ (k = l /\ Index(a) < Index(b))
  <2>1. ~(Tier(acct[a]) < Tier(acct[b]))
      BY <1>1
  <2> QED
      BY <2>1, Zenon DEF Before, Index
<1>3. CASE Tier(acct[a]) = 2
  <2>1. \A c \in Members : Tier(acct[c]) = 2 =>
            /\ Merit(c, strategy) = <<>>
            /\ TierKey(pool, acct, strategy, cursor, c) = <<>>
      BY DEF Merit, TierKey
  <2>2. <<>> \in Keys(0) /\ 0 \in Nat
      BY DEF Keys
  <2> QED
      BY <1>2, <1>3, <2>1, <2>2
<1>4. CASE Tier(acct[a]) = 1
  <2>0. \A c \in Members : Tier(acct[c]) = 1 =>
            /\ Merit(c, strategy) = DepletedKey(acct[c])
            /\ TierKey(pool, acct, strategy, cursor, c) = DepletedKey(acct[c])
      BY DEF Merit, TierKey
  <2>1. /\ Merit(a, strategy) = k /\ Merit(b, strategy) = l
        /\ k = DepletedKey(acct[a]) /\ l = DepletedKey(acct[b])
      BY <1>4, <2>0
  <2>2. k \in Keys(2) /\ l \in Keys(2) /\ 2 \in Nat
      BY <1>1, <2>1, KeyTypes
  <2> QED
      BY <1>2, <2>1, <2>2
<1>5. CASE Tier(acct[a]) = 0
  <2>1. a \in Eligible /\ b \in Eligible
      BY <1>5 DEF Eligible, Tier, InCooldown, IsDepleted, IsEligible
  <2>2. /\ k = EligibleKey(pool, acct, strategy, cursor, a)
        /\ l = EligibleKey(pool, acct, strategy, cursor, b)
      BY <1>5 DEF TierKey
  <2>3. CASE strategy = "max_quota"
    <3> DEFINE x == <<IF IsReserve(acct[a].tele) THEN 0 ELSE 1>>
               y == <<IF IsReserve(acct[b].tele) THEN 0 ELSE 1>>
               m == MaxQuotaKey(acct[a])
               q == MaxQuotaKey(acct[b])
    <3>1. /\ k = x \o m /\ l = y \o q
          /\ Merit(a, strategy) = x \o m /\ Merit(b, strategy) = y \o q
        BY <1>5, <2>2, <2>3 DEF Merit, EligibleKey
    <3>2. x \in Keys(1) /\ y \in Keys(1) /\ m \in Keys(6) /\ q \in Keys(6) /\ 1 \in Nat /\ 6 \in Nat
        BY <1>1, KeyTypes DEF Keys
    <3> HIDE DEF x, y, m, q
    <3>3. x \o m \in Keys(1 + 6) /\ y \o q \in Keys(1 + 6) /\ 1 + 6 \in Nat
        BY <3>2, GreaterJoined
    <3> QED
        BY <1>2, <3>1, <3>3
  <2>4. CASE strategy = "least_used"
    <3>1. /\ k = LeastUsedKey(acct[a], a) /\ l = LeastUsedKey(acct[b], b)
          /\ Merit(a, strategy) = k /\ Merit(b, strategy) = l
        BY <1>5, <2>2, <2>4 DEF Merit, EligibleKey
    <3>2. k \in Keys(7) /\ l \in Keys(7) /\ 7 \in Nat
        BY <1>1, <3>1, KeyTypes
    <3> QED
        BY <1>2, <3>1, <3>2
  <2>5. CASE strategy = "round_robin"
    <3>1. /\ Merit(a, strategy) = <<-Distance(a)>>
          /\ Merit(b, strategy) = <<-Distance(b)>>
        BY <1>5, <2>5 DEF Merit
    <3>2. Distance(a) \in Int /\ Distance(b) \in Int /\ Distance(a) < Distance(b)
        BY <1>2, <2>1, <2>2, <2>5, DistanceFacts
    <3>3. -Distance(a) \in Int /\ -Distance(b) \in Int /\ -Distance(a) > -Distance(b)
        BY <3>2
    <3>4. /\ <<-Distance(a)>> \in Keys(1) /\ <<-Distance(b)>> \in Keys(1) /\ 1 \in Nat
          /\ Greater(<<-Distance(a)>>, <<-Distance(b)>>)
        BY <3>3, GreaterOne
    <3> QED
        BY <3>1, <3>4
  <2> QED
      BY <2>3, <2>4, <2>5 DEF Strategies
<1> QED
    BY <1>1, <1>3, <1>4, <1>5

\* Who comes before has the greater rank.
LEMMA RankFacts ==
    ASSUME PoolTypeOK, NEW strategy \in Strategies,
           NEW a \in Members, ~acct[a].restricted, NEW b \in Members, ~acct[b].restricted,
           Before(pool, acct, strategy, cursor, a, b)
    PROVE  Greater(<<-Tier(acct[a])>> \o Merit(a, strategy) \o <<-Index(a)>>,
                   <<-Tier(acct[b])>> \o Merit(b, strategy) \o <<-Index(b)>>)
<1> DEFINE s == -Tier(acct[a])
           t == -Tier(acct[b])
           k == Merit(a, strategy)
           l == Merit(b, strategy)
           x == -Index(a)
           y == -Index(b)
<1>1. /\ Tier(acct[a]) \in {0, 1, 2} /\ Tier(acct[b]) \in {0, 1, 2}
      /\ s \in Int /\ t \in Int
    BY DEF Tier
<1>2. Index(a) \in Int /\ Index(b) \in Int /\ x \in Int /\ y \in Int
  <2>1. Index(a) \in Int /\ Index(b) \in Int
      BY PositionFacts DEF PoolTypeOK, Members, Index
  <2> QED
      BY <2>1
<1>3. <<s>> \in Keys(1) /\ <<t>> \in Keys(1) /\ <<x>> \in Keys(1) /\ <<y>> \in Keys(1)
    BY <1>1, <1>2, GreaterOne
<1>4. (Greater(<<s>>, <<t>>) <=> s > t) /\ (Greater(<<x>>, <<y>>) <=> x > y)
    BY <1>1, <1>2, GreaterOne
<1>5. CASE Tier(acct[a]) = Tier(acct[b])
  <2>1. PICK n \in Nat : /\ k \in Keys(n) /\ l \in Keys(n)
                         /\ Greater(k, l) \/ (k = l /\ Index(a) < Index(b))
      BY <1>5, MeritFacts
  <2>2. s = t /\ (Index(a) < Index(b) => x > y)
      BY <1>2, <1>5
  <2> HIDE DEF s, t, k, l, x, y
  <2>3. 1 \in Nat /\ 1 + n \in Nat
      OBVIOUS
  <2>4. /\ <<s>> \o k \in Keys(1 + n) /\ <<t>> \o l \in Keys(1 + n)
        /\ Greater(k, l) => Greater(<<s>> \o k, <<t>> \o l)
      BY <1>3, <2>1, <2>2, <2>3, GreaterJoined
  <2> DEFINE sk == <<s>> \o k
             tl == <<t>> \o l
  <2>5. /\ sk \in Keys(1 + n) /\ tl \in Keys(1 + n)
        /\ Greater(sk, tl) \/ (sk = tl /\ Greater(<<x>>, <<y>>))
      BY <1>4, <2>1, <2>2, <2>4
  <2> HIDE DEF sk, tl
  <2>6. Greater(sk \o <<x>>, tl \o <<y>>)
      BY <1>3, <2>3, <2>5, GreaterJoined
  <2> QED
      BY <2>6 DEF sk, tl, s, t, k, l, x, y
<1>6. CASE Tier(acct[a]) < Tier(acct[b])
  <2>1. s > t
      BY <1>1, <1>6
  <2>2. ASSUME NEW c \in Members, ~acct[c].restricted
        PROVE  \E n \in Nat : Merit(c, strategy) \in Keys(n)
    <3>1. acct[c] \in Record /\ c \in Nat
        BY RecordsTyped
    <3>2. Tier(acct[c]) \in {0, 1, 2}
        BY DEF Tier
    <3>3. CASE Tier(acct[c]) = 2
      <4>1. <<>> \in Keys(0)
          BY DEF Keys
      <4> QED
          BY <3>3, <4>1 DEF Merit
    <3>4. CASE Tier(acct[c]) = 1
        BY <3>1, <3>4, KeyTypes DEF Merit
    <3>5. CASE Tier(acct[c]) = 0
      <4>1. CASE strategy = "max_quota"
        <5> DEFINE h == <<IF IsReserve(acct[c].tele) THEN 0 ELSE 1>>
        <5>1. Merit(c, strategy) = h \o MaxQuotaKey(acct[c])
            BY <3>5, <4>1 DEF Merit
        <5>2. h \in Keys(1) /\ MaxQuotaKey(acct[c]) \in Keys(6) /\ 1 \in Nat /\ 6 \in Nat
            BY <3>1, KeyTypes DEF Keys
        <5> HIDE DEF h
        <5>3. h \o MaxQuotaKey(acct[c]) \in Keys(1 + 6) /\ 1 + 6 \in Nat
            BY <5>2, GreaterJoined
        <5> QED
            BY <5>1, <5>3
      <4>2. CASE strategy = "least_used"
          BY <3>1, <3>5, <4>2, KeyTypes DEF Merit
      <4>3. CASE strategy = "round_robin"
        <5>1. c \in Eligible
            BY <2>2, <3>5 DEF Eligible, Tier, InCooldown, IsDepleted, IsEligible
        <5>2. Merit(c, strategy) = <<-Distance(c)>> /\ -Distance(c) \in Int
            BY <3>5, <4>3, <5>1, DistanceFacts DEF Merit
        <5> QED
            BY <5>2, GreaterOne
      <4> QED
          BY <4>1, <4>2, <4>3 DEF Strategies
    <3> QED
        BY <3>2, <3>3, <3>4, <3>5
  <2>3. PICK n \in Nat : k \in Keys(n)
      BY <2>2
  <2>4. PICK m \in Nat : l \in Keys(m)
      BY <2>2
  <2> HIDE DEF s, t, k, l, x, y
  <2>5. ASSUME NEW f \in Int, NEW h \in Nat, NEW q \in Keys(h), NEW z \in Int
        PROVE  LET r == <<f>> \o q \o <<z>> IN r[1] = f /\ 1 \in DOMAIN r
    <3>1. q \in Seq(Int) /\ <<f>> \in Seq(Int) /\ <<z>> \in Seq(Int)
          /\ Len(<<f>>) = 1 /\ Len(<<z>>) = 1 /\ Len(q) = h /\ <<f>>[1] = f
        BY KeysAreSequences
    <3> DEFINE fq == <<f>> \o q
    <3>2. fq \in Seq(Int) /\ Len(fq) = 1 + h /\ fq[1] = f
        BY <3>1, ConcatProperties
    <3> HIDE DEF fq
    <3>3. /\ fq \o <<z>> \in Seq(Int) /\ Len(fq \o <<z>>) = 1 + h + 1
          /\ (fq \o <<z>>)[1] = fq[1]
        BY <3>1, <3>2, ConcatProperties
    <3>4. 1 \in DOMAIN (fq \o <<z>>)
        BY <3>3, LenProperties
    <3> QED
        BY <3>2, <3>3, <3>4 DEF fq
  <2>6. /\ (<<s>> \o k \o <<x>>)[1] = s /\ 1 \in DOMAIN (<<s>> \o k \o <<x>>)
        /\ (<<t>> \o l \o <<y>>)[1] = t
      BY <1>1, <1>2, <2>3, <2>4, <2>5
  <2>7. \A j : j \in 1 .. 1 - 1 => FALSE
      OBVIOUS
  <2>8. Greater(<<s>> \o k \o <<x>>, <<t>> \o l \o <<y>>)
      BY <2>1, <2>6, <2>7 DEF Greater
  <2> QED
      BY <2>8 DEF s, t, k, l, x, y
<1> QED
  <2>1. ~(Tier(acct[b]) < Tier(acct[a]))
      BY <1>1 DEF Before
  <2> QED
      BY <1>1, <1>5, <1>6, <2>1

\* The order is right, whatever the pool and the records are.
LEMMA OrderIsRightOfAnyPool == PoolTypeOK => OrderIsRight
<1> SUFFICES ASSUME PoolTypeOK, NEW strategy \in Strategies
             PROVE  LET order == OrderCandidates(pool, acct, strategy, cursor)
                        rank(a) == <<-Tier(acct[a])>> \o Merit(a, strategy) \o <<-Index(a)>>
                    IN /\ Range(order) = {a \in Members : ~acct[a].restricted}
                       /\ Len(order) = Cardinality(Range(order))
                       /\ \A i \in 1 .. Len(order) - 1 : Greater(rank(order[i]), rank(order[i + 1]))
                       /\ order \in PD!Orders(TRUE, {a \in Members : IsDepleted(acct[a])})
    BY Zenon DEF OrderIsRight
<1> DEFINE order == OrderCandidates(pool, acct, strategy, cursor)
           rank(a) == <<-Tier(acct[a])>> \o Merit(a, strategy) \o <<-Index(a)>>
           U == {a \in Members : ~acct[a].restricted}
           R == Precedence(pool, acct, strategy, cursor)
           N == Cardinality(U)
<1>1. Lists(order, U) /\ Ordered(order, R)
    BY OrderFacts, RecordsTyped DEF PoolTypeOK, Members
<1>u. IsFiniteSet(U)
  <2>1. IsFiniteSet(Members) /\ U \in SUBSET Members
      BY RangeIsFinite DEF PoolTypeOK, Members
  <2> QED
      BY <2>1, FS_Subset
<1>2. N \in Nat
    BY <1>u, FS_CardinalityType
<1>3. order \in [1 .. N -> U] /\ DOMAIN order = 1 .. N /\ \A a \in U : \E i \in 1 .. N : order[i] = a
    BY <1>1 DEF Lists
<1>4. \A a, b \in U : <<a, b>> \in R => Greater(rank(a), rank(b))
  <2> SUFFICES ASSUME NEW a \in U, NEW b \in U, <<a, b>> \in R PROVE Greater(rank(a), rank(b))
      OBVIOUS
  <2>1. Before(pool, acct, strategy, cursor, a, b)
      BY DEF Precedence
  <2> QED
      BY <2>1, RankFacts
<1> HIDE DEF order, R, N
<1>5. Range(order) = U
    BY <1>3 DEF Range
<1>6. Len(order) = N
    BY <1>2, <1>3
<1>7. \A i, j \in 1 .. N : i < j => <<order[i], order[j]>> \in R
    BY <1>1, <1>3 DEF Ordered
<1>8. \A i \in 1 .. Len(order) - 1 : Greater(rank(order[i]), rank(order[i + 1]))
  <2> SUFFICES ASSUME NEW i \in 1 .. N - 1 PROVE Greater(rank(order[i]), rank(order[i + 1]))
      BY <1>6
  <2>1. i \in 1 .. N /\ i + 1 \in 1 .. N /\ i < i + 1
      BY <1>2
  <2>2. order[i] \in U /\ order[i + 1] \in U
      BY <1>3, <2>1
  <2> QED
      BY <1>4, <1>7, <2>1, <2>2
<1>9. order \in PD!Orders(TRUE, {a \in Members : IsDepleted(acct[a])})
  <2> DEFINE depleted == {a \in Members : IsDepleted(acct[a])}
  <2>1. PD!Eligible(TRUE) = U
      BY DEF PD!Eligible
  <2>2. \A a \in U : PD!Tier(a, TRUE, depleted) = Tier(acct[a])
      BY DEF PD!Tier, PD!GenerationTier, Tier, InCooldown, IsDepleted
  <2>3. \A a, b \in U : <<a, b>> \in R => Tier(acct[a]) <= Tier(acct[b])
    <3> SUFFICES ASSUME NEW a \in U, NEW b \in U, <<a, b>> \in R PROVE Tier(acct[a]) <= Tier(acct[b])
        OBVIOUS
    <3>1. Before(pool, acct, strategy, cursor, a, b)
        BY DEF R, Precedence
    <3>2. Tier(acct[a]) \in {0, 1, 2} /\ Tier(acct[b]) \in {0, 1, 2}
        BY DEF Tier
    <3>3. Tier(acct[a]) < Tier(acct[b]) \/ Tier(acct[a]) = Tier(acct[b])
        BY <3>1 DEF Before
    <3> QED
        BY <3>2, <3>3
  <2>4. \A i, j \in 1 .. N : i < j => order[i] # order[j]
    <3>1. IsInjective(order)
        BY <1>1, <1>u, ListsOnce
    <3> QED
        BY <1>2, <1>3, <3>1 DEF IsInjective
  <2> DEFINE n == Cardinality(PD!Eligible(TRUE))
  <2>5. n = N
      BY <2>1 DEF N
  <2>6. \A i, j \in 1 .. N : i < j =>
            PD!Tier(order[i], TRUE, depleted) <= PD!Tier(order[j], TRUE, depleted)
    <3> SUFFICES ASSUME NEW i \in 1 .. N, NEW j \in 1 .. N, i < j
                 PROVE  PD!Tier(order[i], TRUE, depleted) <= PD!Tier(order[j], TRUE, depleted)
        OBVIOUS
    <3>1. order[i] \in U /\ order[j] \in U /\ <<order[i], order[j]>> \in R
        BY <1>3, <1>7
    <3>2. Tier(acct[order[i]]) <= Tier(acct[order[j]])
        BY <2>3, <3>1
    <3> QED
        BY <2>2, <3>1, <3>2
  <2> HIDE DEF depleted
  <2>7. order \in [1 .. n -> PD!Eligible(TRUE)]
      BY <1>3, <2>1, <2>5
  <2>8. \A i, j \in DOMAIN order : i < j =>
            /\ order[i] # order[j]
            /\ PD!Tier(order[i], TRUE, depleted) <= PD!Tier(order[j], TRUE, depleted)
      BY <1>3, <2>4, <2>6
  <2>9. order \in PD!Orders(TRUE, depleted)
    <3>1. PD!Cardinality(PD!Eligible(TRUE)) = Cardinality(PD!Eligible(TRUE))
        BY Zenon DEF PD!Cardinality, Cardinality
    <3> QED
        BY <2>7, <2>8, <3>1, Zenon DEF PD!Orders
  <2> QED
      BY <2>9 DEF depleted
<1> QED
    BY <1>5, <1>6, <1>8, <1>9 DEF order, N

\* A login puts the account behind the others.
LEMMA AppendFacts ==
    ASSUME NEW p \in Seq(Accounts), IsInjective(p), NEW e \in Accounts, e \notin Range(p)
    PROVE  /\ Append(p, e) \in Seq(Accounts) /\ IsInjective(Append(p, e))
           /\ Range(Append(p, e)) = Range(p) \cup {e}
           /\ \A b \in Range(p) : Position(Append(p, e), b) = Position(p, b)
<1> DEFINE r == Append(p, e)
<1>1. /\ r \in Seq(Accounts) /\ Len(r) = Len(p) + 1
      /\ \A i \in 1 .. Len(p) : r[i] = p[i]
      /\ r[Len(p) + 1] = e
    BY AppendProperties
<1>2. \A i \in 1 .. Len(p) : p[i] \in Range(p) /\ p[i] # e
    BY DEF Range
<1> HIDE DEF r
<1>3. IsInjective(r)
  <2> SUFFICES ASSUME NEW i \in 1 .. Len(r), NEW j \in 1 .. Len(r), r[i] = r[j] PROVE i = j
      BY <1>1 DEF IsInjective
  <2>1. \A m, n \in 1 .. Len(p) : p[m] = p[n] => m = n
      BY DEF IsInjective
  <2>2. Len(p) \in Nat
      OBVIOUS
  <2>3. (i \in 1 .. Len(p) \/ i = Len(p) + 1) /\ (j \in 1 .. Len(p) \/ j = Len(p) + 1)
      BY <1>1, <2>2
  <2> QED
      BY <1>1, <1>2, <2>1, <2>3
<1>4. Len(p) \in Nat /\ DOMAIN p = 1 .. Len(p) /\ DOMAIN r = 1 .. Len(p) + 1
    BY <1>1
<1>5. Range(r) = Range(p) \cup {e}
  <2>1. ASSUME NEW x \in Range(r) PROVE x \in Range(p) \cup {e}
    <3>1. PICK i \in 1 .. Len(p) + 1 : r[i] = x
        BY <1>4 DEF Range
    <3>2. i \in 1 .. Len(p) \/ i = Len(p) + 1
        BY <1>4
    <3> QED
        BY <1>1, <1>2, <3>1, <3>2
  <2>2. ASSUME NEW x \in Range(p) PROVE x \in Range(r)
    <3>1. PICK i \in 1 .. Len(p) : p[i] = x
        BY <1>4 DEF Range
    <3>2. i \in 1 .. Len(p) + 1 /\ r[i] = x
        BY <1>1, <1>4, <3>1
    <3> QED
        BY <1>4, <3>2 DEF Range
  <2>3. e \in Range(r)
    <3>1. Len(p) + 1 \in 1 .. Len(p) + 1
        BY <1>4
    <3> QED
        BY <1>1, <1>4, <3>1 DEF Range
  <2> QED
      BY <2>1, <2>2, <2>3
<1>6. ASSUME NEW b \in Range(p) PROVE Position(r, b) = Position(p, b)
  <2>1. Position(p, b) \in 1 .. Len(p) /\ p[Position(p, b)] = b
      BY PositionFacts
  <2>2. Position(p, b) \in 1 .. Len(r) /\ r[Position(p, b)] = b /\ b \in Range(r)
      BY <1>1, <1>4, <1>5, <2>1
  <2> QED
      BY <1>1, <1>3, <2>2, PositionFacts
<1> QED
    BY <1>1, <1>3, <1>5, <1>6 DEF r

\* A removal keeps the order of the others.
LEMMA RemovalFacts ==
    ASSUME NEW p \in Seq(Accounts), IsInjective(p), NEW e \in Range(p)
    PROVE  /\ RemoveFirst(p, e) \in Seq(Accounts) /\ IsInjective(RemoveFirst(p, e))
           /\ Range(RemoveFirst(p, e)) = Range(p) \ {e}
           /\ \A b \in Range(p) \ {e} :
                Position(RemoveFirst(p, e), b) =
                    IF Position(p, b) < Position(p, e) THEN Position(p, b) ELSE Position(p, b) - 1
<1> DEFINE k == Position(p, e)
           r == RemoveFirst(p, e)
           t == SubSeq(p, 1, k - 1)
           u == SubSeq(p, k + 1, Len(p))
<1>1. k \in 1 .. Len(p) /\ p[k] = e /\ Len(p) \in Nat
    BY PositionFacts
<1>2. \A i, j \in 1 .. Len(p) : p[i] = p[j] => i = j
    BY DEF IsInjective
<1>3. r = t \o u
  <2>1. SelectInSeq(p, LAMBDA x : x = e) = k
    <3>1. {i \in 1 .. Len(p) : p[i] = e} = {k}
        BY <1>1, <1>2
    <3>2. Min({k}) = k
        BY <1>1 DEF Min
    <3> QED
        BY <3>1, <3>2 DEF SelectInSeq
  <2>2. \E i \in 1 .. Len(p) : p[i] = e
      BY <1>1
  <2> QED
      BY <2>1, <2>2 DEF RemoveFirst, RemoveAt
<1> HIDE DEF k
<1>4. /\ t \in Seq(Accounts) /\ Len(t) = k - 1
      /\ \A i \in 1 .. k - 1 : t[i] = p[i]
    BY <1>1, SubSeqProperties
<1>5. /\ u \in Seq(Accounts) /\ Len(u) = Len(p) - k
      /\ \A i \in 1 .. Len(p) - k : u[i] = p[k + i]
    BY <1>1, SubSeqProperties
<1> HIDE DEF r, t, u
<1>6. r \in Seq(Accounts) /\ Len(r) = Len(p) - 1
  <2>1. t \o u \in Seq(Accounts) /\ Len(t \o u) = Len(t) + Len(u)
      BY <1>4, <1>5, ConcatProperties
  <2>2. k - 1 + (Len(p) - k) = Len(p) - 1
      BY <1>1
  <2> QED
      BY <1>3, <1>4, <1>5, <2>1, <2>2
<1>7. \A i \in 1 .. Len(r) : r[i] = IF i < k THEN p[i] ELSE p[i + 1]
    BY <1>1, <1>3, <1>4, <1>5, <1>6, ConcatProperties
<1>8. ASSUME NEW i \in 1 .. Len(p), i # k
      PROVE  LET j == IF i < k THEN i ELSE i - 1 IN j \in 1 .. Len(r) /\ r[j] = p[i]
  <2>1. CASE i < k
      BY <1>1, <1>6, <1>7, <2>1
  <2>2. CASE ~(i < k)
    <3>1. i - 1 \in 1 .. Len(r) /\ ~(i - 1 < k) /\ (i - 1) + 1 = i
        BY <1>1, <1>6, <1>8, <2>2
    <3> QED
        BY <1>7, <2>2, <3>1
  <2> QED
      BY <2>1, <2>2
<1>9. IsInjective(r)
  <2> SUFFICES ASSUME NEW i \in 1 .. Len(r), NEW j \in 1 .. Len(r), r[i] = r[j] PROVE i = j
      BY <1>6 DEF IsInjective
  <2>1. i \in 1 .. Len(p) /\ j \in 1 .. Len(p) /\ i + 1 \in 1 .. Len(p) /\ j + 1 \in 1 .. Len(p)
      BY <1>1, <1>6
  <2> QED
      BY <1>1, <1>2, <1>7, <2>1
<1>10. Range(r) = Range(p) \ {e}
  <2>1. ASSUME NEW x \in Range(r) PROVE x \in Range(p) \ {e}
    <3>1. PICK i \in 1 .. Len(r) : r[i] = x
        BY <1>6 DEF Range
    <3>2. i \in 1 .. Len(p) /\ i + 1 \in 1 .. Len(p)
        BY <1>1, <1>6
    <3>3. PICK j \in 1 .. Len(p) : p[j] = x /\ j # k
        BY <1>1, <1>7, <3>1, <3>2
    <3> QED
        BY <1>1, <1>2, <3>3 DEF Range
  <2>2. ASSUME NEW x \in Range(p) \ {e} PROVE x \in Range(r)
    <3>1. PICK i \in 1 .. Len(p) : p[i] = x
        BY DEF Range
    <3>2. i # k
        BY <1>1, <3>1
    <3>3. PICK j \in 1 .. Len(r) : r[j] = x
        BY <1>8, <3>1, <3>2
    <3> QED
        BY <1>6, <3>3 DEF Range
  <2> QED
      BY <2>1, <2>2
<1>11. ASSUME NEW b \in Range(p) \ {e}
       PROVE  Position(r, b) = IF Position(p, b) < k THEN Position(p, b) ELSE Position(p, b) - 1
  <2> DEFINE i == Position(p, b)
             j == IF i < k THEN i ELSE i - 1
  <2>1. i \in 1 .. Len(p) /\ p[i] = b
      BY PositionFacts
  <2>2. i # k
      BY <1>1, <2>1
  <2>3. j \in 1 .. Len(r) /\ r[j] = b
      BY <1>8, <2>1, <2>2
  <2>4. b \in Range(r)
      BY <1>10
  <2> QED
      BY <1>6, <1>9, <2>3, <2>4, PositionFacts
<1> QED
    BY <1>6, <1>9, <1>10, <1>11 DEF r, k

-----------------------------------------------------------------------------
(* The inductive invariant of the pool.                                    *)

\* From a around the pool, x comes no later than c.
Between(a, x, c) ==
    \/ Index(a) < Index(x) /\ Index(x) <= Index(c)
    \/ Index(x) <= Index(c) /\ Index(c) < Index(a)
    \/ Index(c) < Index(a) /\ Index(a) < Index(x)

\* The cursor names a member, or nobody; whom the reservations preferred to an
\* account lies on the way from that account to the cursor.
RoundInv ==
    /\ cursor \in Members \cup {Nil}
    /\ \A a \in Accounts :
        /\ passed[a] \subseteq Members
        /\ a \notin Members => passed[a] = {}
        /\ cursor \in Members => \A x \in passed[a] : Between(a, x, cursor)

\* The inductive invariant of the scheduler.
PoolInv == PoolTypeOK /\ RoundInv

\* A reservation takes a member and, of those that are eligible, the next one.
LEMMA ReserveFacts ==
    ASSUME PoolTypeOK, Reserve
    PROVE  /\ cursor' \in Members
           /\ \A b \in Eligible : b # cursor' =>
                cursor' \in Eligible /\ Distance(cursor') < Distance(b)
<1> DEFINE order == OrderCandidates(pool, acct, "round_robin", cursor)
           U == {a \in Members : ~acct[a].restricted}
           R == Precedence(pool, acct, "round_robin", cursor)
           N == Cardinality(U)
<1>1. "round_robin" \in Strategies
    BY DEF Strategies
<1>2. Lists(order, U) /\ Ordered(order, R)
    BY <1>1, OrderFacts, RecordsTyped DEF PoolTypeOK, Members
<1>3. order # <<>> /\ cursor' = Head(order)
    BY DEF Reserve
<1>4. N \in Nat
  <2>1. IsFiniteSet(Members) /\ U \in SUBSET Members
      BY RangeIsFinite DEF PoolTypeOK, Members
  <2> QED
      BY <2>1, FS_Subset, FS_CardinalityType
<1>5. order \in [1 .. N -> U] /\ \A a \in U : \E i \in 1 .. N : order[i] = a
    BY <1>2 DEF Lists
<1> HIDE DEF order, R, N
<1>6. 1 \in 1 .. N /\ cursor' = order[1]
  <2>1. order \in Seq(U) /\ Len(order) = N
      BY <1>4, <1>5
  <2> QED
      BY <1>3, <1>4, <2>1
<1>7. cursor' \in U
    BY <1>5, <1>6
<1>8. ASSUME NEW b \in Eligible, b # cursor'
      PROVE  cursor' \in Eligible /\ Distance(cursor') < Distance(b)
  <2>1. b \in U /\ Tier(acct[b]) = 0
      BY DEF Eligible, IsEligible, Tier, InCooldown, IsDepleted
  <2>2. PICK i \in 1 .. N : order[i] = b
      BY <1>5, <2>1
  <2>3. 1 < i
      BY <1>4, <1>6, <1>8, <2>2
  <2>4. <<cursor', b>> \in R
      BY <1>2, <1>5, <1>6, <2>2, <2>3 DEF Ordered
  <2>5. Before(pool, acct, "round_robin", cursor, cursor', b)
      BY <2>4 DEF R, Precedence
  <2>6. Tier(acct[cursor']) \in {0, 1, 2}
      BY DEF Tier
  <2>7. Tier(acct[cursor']) = 0
      BY <2>1, <2>5, <2>6 DEF Before
  <2>8. cursor' \in Eligible
      BY <1>7, <2>7 DEF Eligible, IsEligible, Tier, InCooldown, IsDepleted
  <2>9. LET k == EligibleKey(pool, acct, "round_robin", cursor, cursor')
            l == EligibleKey(pool, acct, "round_robin", cursor, b)
        IN Greater(k, l) \/ (k = l /\ Index(cursor') < Index(b))
    <3>1. /\ TierKey(pool, acct, "round_robin", cursor, cursor')
                = EligibleKey(pool, acct, "round_robin", cursor, cursor')
          /\ TierKey(pool, acct, "round_robin", cursor, b)
                = EligibleKey(pool, acct, "round_robin", cursor, b)
        BY <2>1, <2>7 DEF TierKey
    <3>2. ~(Tier(acct[cursor']) < Tier(acct[b]))
        BY <2>1, <2>7
    <3> QED
        BY <2>5, <3>1, <3>2, Zenon DEF Before, Index
  <2> QED
      BY <2>8, <2>9, DistanceFacts
<1> QED
    BY <1>7, <1>8

\* The indexes of members, and of what is between them.
LEMMA IndexFacts ==
    ASSUME PoolTypeOK, NEW a \in Members
    PROVE  /\ Index(a) \in 1 .. Len(pool)
           /\ \A b \in Members : Index(a) = Index(b) => a = b
BY PositionFacts DEF PoolTypeOK, Members, Index

\* The distances from a cursor that is eligible.
LEMMA DistanceIs ==
    ASSUME PoolTypeOK, cursor \in Eligible, NEW a \in Members
    PROVE  Distance(a) = IF Index(a) > Index(cursor) THEN Index(a) - Index(cursor) - 1
                         ELSE (Index(a) - Index(cursor) - 1) + Len(pool)
<1>1. cursor \in Members
    BY DEF Eligible
<1>2. Index(a) \in 1 .. Len(pool) /\ Index(cursor) \in 1 .. Len(pool)
    BY <1>1, IndexFacts
<1>3. Len(pool) \in Nat \ {0}
    BY <1>2 DEF PoolTypeOK
<1> QED
    BY <1>2, <1>3, AroundOnce DEF Distance

\* It holds of the empty pool.
LEMMA InitPool == SchedulerInit => PoolInv
<1> SUFFICES ASSUME SchedulerInit PROVE PoolInv
    OBVIOUS
<1>1. pool \in Seq(Accounts) /\ IsInjective(pool) /\ Members = {}
    BY DEF SchedulerInit, IsInjective, Members, Range
<1> QED
    BY <1>1 DEF SchedulerInit, PoolInv, PoolTypeOK, RoundInv

\* Every step keeps the type invariant.
LEMMA NextPoolType == PoolTypeOK /\ [SchedulerNext]_schedulerVars => PoolTypeOK'
<1> SUFFICES ASSUME PoolTypeOK, [SchedulerNext]_schedulerVars PROVE PoolTypeOK'
    OBVIOUS
<1> USE DEF PoolTypeOK
<1>1. CASE Reserve
  <2>1. cursor' \in Accounts
      BY <1>1, ReserveFacts, RecordsTyped
  <2>2. cursor' = Head(OrderCandidates(pool, acct, "round_robin", cursor))
        /\ passed' = Passing(Head(OrderCandidates(pool, acct, "round_robin", cursor)))
        /\ UNCHANGED <<pool, acct>>
      BY <1>1 DEF Reserve
  <2>3. passed' = Passing(cursor')
      BY <2>2
  <2>4. passed' \in [Accounts -> SUBSET Accounts]
      BY <2>1, <2>3 DEF Passing
  <2> QED
      BY <2>1, <2>2, <2>4
<1>2. ASSUME NEW a \in Accounts, Change(a) PROVE PoolTypeOK'
    BY <1>2 DEF Change
<1>3. ASSUME NEW a \in Accounts, AddAccount(a) PROVE PoolTypeOK'
    BY <1>3, AppendFacts DEF AddAccount, Members
<1>4. ASSUME NEW a \in Accounts, RemoveAccount(a) PROVE PoolTypeOK'
  <2>1. RemoveFirst(pool, a) \in Seq(Accounts) /\ IsInjective(RemoveFirst(pool, a))
      BY <1>4, RemovalFacts DEF RemoveAccount, Members
  <2> QED
      BY <1>4, <2>1 DEF RemoveAccount
<1>5. CASE UNCHANGED schedulerVars
    BY <1>5 DEF schedulerVars
<1> QED
    BY <1>1, <1>2, <1>3, <1>4, <1>5 DEF SchedulerNext

\* A reservation keeps everybody it passed over between.
LEMMA ReserveRound == ASSUME PoolInv, Reserve PROVE RoundInv'
<1> USE DEF PoolInv
<1>1. /\ cursor' \in Members /\ passed' = Passing(cursor') /\ UNCHANGED <<pool, acct>>
    BY ReserveFacts DEF Reserve
<1>2. Members' = Members /\ \A a : Index(a)' = Index(a)
    BY <1>1 DEF Members, Index
<1>3. ASSUME NEW a \in Accounts, passed'[a] # {}
      PROVE  /\ a \in Eligible /\ a # cursor'
             /\ passed'[a] = {cursor'} \cup (IF cursor \in Eligible THEN passed[a] ELSE {})
    BY <1>1, <1>3 DEF Passing
<1>4. ASSUME NEW a \in Accounts, passed'[a] # {}, NEW y \in passed'[a]
      PROVE  y \in Members /\ Between(a, y, cursor')
  <2>1. a \in Eligible /\ a # cursor' /\ a \in Members
      BY <1>3, <1>4 DEF Eligible
  <2>2. /\ Index(a) \in 1 .. Len(pool) /\ Index(cursor') \in 1 .. Len(pool)
        /\ Index(a) # Index(cursor')
      BY <1>1, <2>1, IndexFacts
  <2>3. CASE y = cursor'
      BY <1>1, <2>2, <2>3 DEF Between
  <2>4. CASE y # cursor'
    <3>1. cursor \in Eligible /\ y \in passed[a] /\ cursor \in Members
        BY <1>3, <1>4, <2>4 DEF Eligible
    <3>2. y \in Members /\ Between(a, y, cursor)
        BY <3>1 DEF RoundInv
    <3>3. Index(y) \in 1 .. Len(pool) /\ Index(cursor) \in 1 .. Len(pool)
        BY <3>1, <3>2, IndexFacts
    <3>4. Distance(cursor') < Distance(a)
        BY <2>1, ReserveFacts
    <3> DEFINE i == Index(a)
               j == Index(y)
               c == Index(cursor)
               d == Index(cursor')
               n == Len(pool)
    <3>5. /\ Distance(a) = IF i > c THEN i - c - 1 ELSE (i - c - 1) + n
          /\ Distance(cursor') = IF d > c THEN d - c - 1 ELSE (d - c - 1) + n
        BY <1>1, <2>1, <3>1, DistanceIs
    <3>6. i \in 1 .. n /\ j \in 1 .. n /\ c \in 1 .. n /\ d \in 1 .. n /\ n \in Nat
        BY <2>2, <3>3
    <3>7. (i < j /\ j <= c) \/ (j <= c /\ c < i) \/ (c < i /\ i < j)
        BY <3>2 DEF Between
    <3> HIDE DEF i, j, c, d, n
    <3>8. (i < j /\ j <= d) \/ (j <= d /\ d < i) \/ (d < i /\ i < j)
      <4>1. CASE i > c /\ d > c
          BY <3>4, <3>5, <3>6, <3>7, <4>1
      <4>2. CASE ~(i > c) /\ d > c
          BY <3>6, <3>7, <4>2
      <4>3. CASE ~(d > c)
        <5>1. ~(i > c) /\ d < i
            BY <3>4, <3>5, <3>6, <4>3
        <5> QED
            BY <3>6, <3>7, <5>1
      <4> QED
          BY <4>1, <4>2, <4>3
    <3> QED
        BY <3>2, <3>8 DEF Between, i, j, d
  <2> QED
      BY <2>3, <2>4
<1>5. ASSUME NEW a \in Accounts, NEW y \in passed'[a] PROVE Between(a, y, cursor)'
    BY <1>2, <1>4, <1>5 DEF Between
<1>6. ASSUME NEW a \in Accounts, a \notin Members PROVE passed'[a] = {}
    BY <1>3, <1>6 DEF Eligible
<1> QED
    BY <1>1, <1>2, <1>4, <1>5, <1>6 DEF RoundInv

\* A login and a removal leave the members in their order.
LEMMA LoginRound == ASSUME PoolInv, NEW e \in Accounts, AddAccount(e) PROVE RoundInv'
<1> USE DEF PoolInv
<1>1. /\ pool \in Seq(Accounts) /\ IsInjective(pool) /\ e \notin Range(pool)
      /\ pool' = Append(pool, e) /\ UNCHANGED <<cursor, passed>>
    BY DEF PoolTypeOK, AddAccount, Members
<1>2. /\ Members' = Members \cup {e}
      /\ \A b \in Members : Index(b)' = Index(b)
    BY <1>1, AppendFacts DEF Members, Index
<1>3. e \notin Members /\ cursor # e
  <2>1. e # Nil
      BY SchedulerAssumption
  <2>2. e \notin Members
      BY <1>1 DEF Members
  <2> QED
      BY <2>1, <2>2 DEF RoundInv
<1>4. ASSUME NEW a \in Accounts, NEW x \in passed'[a], cursor' \in Members'
      PROVE  Between(a, x, cursor)'
  <2>1. a \in Members /\ x \in Members /\ cursor \in Members /\ Between(a, x, cursor)
      BY <1>1, <1>2, <1>3, <1>4 DEF RoundInv
  <2> QED
      BY <1>1, <1>2, <2>1 DEF Between
<1> QED
    BY <1>1, <1>2, <1>4 DEF RoundInv

\* A removal leaves the members that stay in their order, and drops a cursor that named the removed one.
LEMMA RemoveRound == ASSUME PoolInv, NEW e \in Accounts, RemoveAccount(e) PROVE RoundInv'
<1> USE DEF PoolInv
<1>1. /\ pool \in Seq(Accounts) /\ IsInjective(pool) /\ e \in Range(pool)
      /\ pool' = RemoveFirst(pool, e)
      /\ cursor' = IF cursor = e THEN Nil ELSE cursor
      /\ passed' = [b \in Accounts |-> IF b = e THEN {} ELSE passed[b] \ {e}]
    BY DEF PoolTypeOK, RemoveAccount, Members
<1>2. /\ Members' = Members \ {e}
      /\ \A b \in Members \ {e} : Index(b)' = IF Index(b) < Index(e) THEN Index(b) ELSE Index(b) - 1
    BY <1>1, RemovalFacts DEF Members, Index
<1>3. /\ e \in Members /\ Nil \notin Members
      /\ \A b \in Members : /\ Index(b) \in 1 .. Len(pool)
                            /\ b # e => Index(b) # Index(e)
  <2>1. e \in Members /\ Nil \notin Members
      BY <1>1, RecordsTyped, SchedulerAssumption DEF Members
  <2> QED
      BY <2>1, IndexFacts
<1>4. ASSUME NEW a \in Accounts, NEW x \in passed'[a], cursor' \in Members'
      PROVE  Between(a, x, cursor)'
  <2>1. /\ a \in Members \ {e} /\ x \in Members \ {e} /\ cursor \in Members \ {e} /\ cursor' = cursor
        /\ Between(a, x, cursor)
      BY <1>1, <1>2, <1>3, <1>4 DEF RoundInv
  <2> DEFINE i == Index(a)
             j == Index(x)
             c == Index(cursor)
             k == Index(e)
  <2>2. /\ Index(a)' = IF i < k THEN i ELSE i - 1
        /\ Index(x)' = IF j < k THEN j ELSE j - 1
        /\ Index(cursor)' = IF c < k THEN c ELSE c - 1
    <3>1. Index(cursor)' = Position(pool', cursor') /\ Index(a)' = Position(pool', a) /\ Index(x)' = Position(pool', x)
        BY DEF Index
    <3>2. \A b \in Members \ {e} : Position(pool', b) = IF Index(b) < k THEN Index(b) ELSE Index(b) - 1
        BY <1>1, RemovalFacts DEF Members, Index
    <3> QED
        BY <2>1, <3>1, <3>2
  <2>3. /\ i \in Int /\ j \in Int /\ c \in Int /\ k \in Int
        /\ i # k /\ j # k /\ c # k
      BY <1>3, <2>1
  <2>4. (i < j /\ j <= c) \/ (j <= c /\ c < i) \/ (c < i /\ i < j)
      BY <2>1 DEF Between
  <2> HIDE DEF i, j, c, k
  <2>5. \/ Index(a)' < Index(x)' /\ Index(x)' <= Index(cursor)'
        \/ Index(x)' <= Index(cursor)' /\ Index(cursor)' < Index(a)'
        \/ Index(cursor)' < Index(a)' /\ Index(a)' < Index(x)'
      BY <2>2, <2>3, <2>4
  <2> QED
      BY <2>5 DEF Between
<1>5. ASSUME NEW a \in Accounts
      PROVE  passed'[a] \subseteq Members' /\ (a \notin Members' => passed'[a] = {})
  <2>1. passed'[a] = IF a = e THEN {} ELSE passed[a] \ {e}
      BY <1>1
  <2> QED
      BY <1>2, <2>1 DEF RoundInv
<1>6. cursor' \in Members' \cup {Nil}
    BY <1>1, <1>2 DEF RoundInv
<1> QED
    BY <1>4, <1>5, <1>6 DEF RoundInv

\* Every step keeps what is known of the round.
LEMMA NextRound == PoolInv /\ [SchedulerNext]_schedulerVars => RoundInv'
<1> SUFFICES ASSUME PoolInv, [SchedulerNext]_schedulerVars PROVE RoundInv'
    OBVIOUS
<1>1. ASSUME UNCHANGED <<pool, cursor>>, passed' \in [Accounts -> SUBSET Accounts],
             \A a \in Accounts : passed'[a] \subseteq passed[a]
      PROVE  RoundInv'
  <2>1. Members' = Members /\ \A a : Index(a)' = Index(a)
      BY <1>1 DEF Members, Index
  <2>2. \A a, x : Between(a, x, cursor)' <=> Between(a, x, cursor)
    <3> SUFFICES ASSUME NEW a, NEW x PROVE Between(a, x, cursor)' <=> Between(a, x, cursor)
        OBVIOUS
    <3>1. Index(a)' = Index(a) /\ Index(x)' = Index(x) /\ Index(cursor)' = Index(cursor)
        BY <1>1 DEF Index
    <3> QED
        BY <3>1 DEF Between
  <2> QED
      BY <1>1, <2>1, <2>2 DEF PoolInv, RoundInv
<1>2. ASSUME NEW a \in Accounts, Change(a) PROVE RoundInv'
  <2>1. /\ UNCHANGED <<pool, cursor>>
        /\ passed' = passed \/ passed' = [passed EXCEPT ![a] = {}]
      BY <1>2 DEF Change
  <2>2. passed' \in [Accounts -> SUBSET Accounts] /\ \A b \in Accounts : passed'[b] \subseteq passed[b]
      BY <2>1 DEF PoolInv, PoolTypeOK
  <2> QED
      BY <1>1, <2>1, <2>2
<1>3. CASE UNCHANGED schedulerVars
    BY <1>1, <1>3 DEF schedulerVars, PoolInv, PoolTypeOK
<1> QED
    BY <1>2, <1>3, ReserveRound, LoginRound, RemoveRound DEF SchedulerNext

-----------------------------------------------------------------------------
(* Less quota.                                                             *)

\* A fraction that is not known stays so, another one does not grow.
AtMost(f, g) == IF g = Nil THEN f = Nil ELSE f # Nil /\ f <= g

\* The telemetry s is t with less left.
Weaker(s, t) ==
    /\ AtMost(s.remaining, t.remaining)
    /\ s.left = t.left /\ s.age = t.age
    /\ \A w \in QuotaWindows :
        /\ s.win[w] = Nil <=> t.win[w] = Nil
        /\ t.win[w] # Nil => s.win[w].left = t.win[w].left /\ AtMost(s.win[w].frac, t.win[w].frac)

\* What having less means of two records.
LEMMA LessIsWeaker ==
    ASSUME NEW r \in Record, NEW l \in Less(r), IsLess(l, r)
    PROVE  /\ l \in Record /\ l.tele \in Telemetry /\ r.tele \in Telemetry
           /\ l.hits = r.hits /\ l.cooling = r.cooling /\ l.restricted = r.restricted
           /\ Weaker(l.tele, r.tele)
<1> DEFINE t == r.tele
<1>1. /\ t # Nil /\ t \in Telemetry
      /\ \E f \in Levels :
            \/ \E w \in QuotaWindows : t.win[w] # Nil /\ l = [r EXCEPT !.tele.win[w].frac = f]
            \/ l = [r EXCEPT !.tele.remaining = f]
    BY DEF Less, Record
<1>2. PICK f \in Levels :
            \/ \E w \in QuotaWindows : t.win[w] # Nil /\ l = [r EXCEPT !.tele.win[w].frac = f]
            \/ l = [r EXCEPT !.tele.remaining = f]
    BY <1>1
<1>3. /\ f \in Int /\ f \in OptInt /\ f # Nil
      /\ \A w \in QuotaWindows : t.win[w] \in Window \cup {Nil}
      /\ t.win \in [QuotaWindows -> Window \cup {Nil}]
      /\ t.remaining \in OptInt
    BY <1>1, SchedulerAssumption DEF OptInt, Telemetry
<1>4. \A w \in QuotaWindows : t.win[w] # Nil => t.win[w].frac \in OptInt /\ t.win[w].left \in OptInt
    BY <1>3 DEF Window
<1>5. r = [tele |-> t, hits |-> r.hits, cooling |-> r.cooling, restricted |-> r.restricted]
    BY DEF Record
<1>6. t = [win |-> t.win, remaining |-> t.remaining, left |-> t.left, age |-> t.age]
    BY <1>1 DEF Telemetry
<1>7. ASSUME NEW w \in QuotaWindows, t.win[w] # Nil, l = [r EXCEPT !.tele.win[w].frac = f]
      PROVE  /\ l \in Record /\ l.tele \in Telemetry
             /\ l.hits = r.hits /\ l.cooling = r.cooling /\ l.restricted = r.restricted
             /\ Weaker(l.tele, t)
  <2> DEFINE x == [t.win[w] EXCEPT !.frac = f]
             v == [t.win EXCEPT ![w] = x]
             u == [t EXCEPT !.win = v]
  <2>1. l = [r EXCEPT !.tele = u]
      BY <1>7
  <2>2. x \in Window /\ x.frac = f /\ x.left = t.win[w].left
      BY <1>3, <1>7 DEF Window
  <2> HIDE DEF x
  <2>3. /\ v \in [QuotaWindows -> Window \cup {Nil}]
        /\ \A y \in QuotaWindows : v[y] = IF y = w THEN x ELSE t.win[y]
      BY <1>3, <2>2
  <2> HIDE DEF v
  <2>4. /\ u \in Telemetry
        /\ u.win = v /\ u.remaining = t.remaining /\ u.left = t.left /\ u.age = t.age
      BY <1>1, <2>3 DEF Telemetry
  <2> HIDE DEF u
  <2>5. /\ l \in Record /\ l.tele = u
        /\ l.hits = r.hits /\ l.cooling = r.cooling /\ l.restricted = r.restricted
      BY <2>1, <2>4 DEF Record
  <2>6. x # Nil
      BY <2>2, SchedulerAssumption
  <2>7. AtMost(f, t.win[w].frac)
    <3>1. IF t.win[w].frac = Nil THEN l.tele.win[w].frac = Nil ELSE l.tele.win[w].frac <= t.win[w].frac
        BY <1>7 DEF IsLess
    <3>2. l.tele.win[w].frac = f
        BY <2>2, <2>3, <2>4, <2>5
    <3> QED
        BY <1>3, <3>1, <3>2 DEF AtMost
  <2>8. ASSUME NEW y \in QuotaWindows
        PROVE  /\ v[y] = Nil <=> t.win[y] = Nil
               /\ t.win[y] # Nil => v[y].left = t.win[y].left /\ AtMost(v[y].frac, t.win[y].frac)
    <3>1. CASE y = w
        BY <1>7, <2>2, <2>3, <2>6, <2>7, <3>1
    <3>2. CASE y # w
      <4>1. v[y] = t.win[y]
          BY <2>3, <3>2
      <4>2. t.win[y] # Nil => AtMost(t.win[y].frac, t.win[y].frac)
          BY <1>4, SchedulerAssumption DEF AtMost, OptInt
      <4> QED
          BY <4>1, <4>2
    <3> QED
        BY <3>1, <3>2
  <2>9. AtMost(t.remaining, t.remaining)
      BY <1>3, SchedulerAssumption DEF AtMost, OptInt
  <2> QED
      BY <2>4, <2>5, <2>8, <2>9 DEF Weaker
<1>8. ASSUME l = [r EXCEPT !.tele.remaining = f]
      PROVE  /\ l \in Record /\ l.tele \in Telemetry
             /\ l.hits = r.hits /\ l.cooling = r.cooling /\ l.restricted = r.restricted
             /\ Weaker(l.tele, t)
  <2> DEFINE u == [t EXCEPT !.remaining = f]
  <2>1. l = [r EXCEPT !.tele = u]
      BY <1>8
  <2>2. /\ u \in Telemetry
        /\ u.win = t.win /\ u.remaining = f /\ u.left = t.left /\ u.age = t.age
      BY <1>1, <1>3 DEF Telemetry
  <2> HIDE DEF u
  <2>3. /\ l \in Record /\ l.tele = u
        /\ l.hits = r.hits /\ l.cooling = r.cooling /\ l.restricted = r.restricted
      BY <2>1, <2>2 DEF Record
  <2>4. AtMost(f, t.remaining)
    <3>1. /\ t.remaining # Nil => l.tele.remaining <= t.remaining
          /\ t.remaining = Nil => l.tele.remaining = Nil
        BY <1>8 DEF IsLess
    <3> QED
        BY <1>3, <2>2, <2>3, <3>1 DEF AtMost
  <2>5. \A w \in QuotaWindows : t.win[w] # Nil => AtMost(t.win[w].frac, t.win[w].frac)
      BY <1>4, SchedulerAssumption DEF AtMost, OptInt
  <2> QED
      BY <2>2, <2>3, <2>4, <2>5 DEF Weaker
<1> QED
    BY <1>1, <1>2, <1>7, <1>8

\* ParseQuotaFraction keeps the order of fractions.
LEMMA ClampIsMonotone ==
    ASSUME NEW f \in OptInt, NEW g \in OptInt, AtMost(f, g)
    PROVE  AtMost(Clamp(f), Clamp(g))
<1>1. CASE g = Nil
    BY <1>1, ClampFacts DEF AtMost
<1>2. CASE g # Nil
  <2>1. f \in Int /\ g \in Int /\ f # Nil /\ f <= g
      BY <1>2 DEF AtMost, OptInt
  <2>2. /\ Clamp(f) # Nil /\ Clamp(g) # Nil
        /\ Clamp(f) = IF f < 0 THEN 0 ELSE IF f > 1000 THEN 1000 ELSE f
        /\ Clamp(g) = IF g < 0 THEN 0 ELSE IF g > 1000 THEN 1000 ELSE g
      BY <1>2, <2>1, ClampFacts
  <2> QED
      BY <2>1, <2>2 DEF AtMost
<1> QED
    BY <1>1, <1>2

\* Less quota is measured as less of the same windows, with the same resets.
LEMMA MeasuredIsMonotone ==
    ASSUME NEW s \in Telemetry, NEW t \in Telemetry, Weaker(s, t)
    PROVE  /\ LegacyFractionKnown(s) <=> LegacyFractionKnown(t)
           /\ FreshnessRank(s) = FreshnessRank(t)
           /\ \A w \in QuotaWindows : /\ Measured(s, w).left = Measured(t, w).left
                                      /\ AtMost(Measured(s, w).frac, Measured(t, w).frac)
<1>1. /\ s # Nil /\ t # Nil
      /\ s.remaining \in OptInt /\ t.remaining \in OptInt
      /\ \A w \in QuotaWindows : s.win[w] \in Window \cup {Nil} /\ t.win[w] \in Window \cup {Nil}
    BY SchedulerAssumption DEF Telemetry
<1>2. HasExplicitWindows(s) <=> HasExplicitWindows(t)
    BY <1>1 DEF HasExplicitWindows, Weaker
<1>3. LegacyFractionKnown(s) <=> LegacyFractionKnown(t)
    BY <1>1, <1>2 DEF LegacyFractionKnown, Weaker, AtMost
<1>4. FreshnessRank(s) = FreshnessRank(t)
  <2>1. /\ s.age = t.age
        /\ \A w \in QuotaWindows : /\ s.win[w] = Nil <=> t.win[w] = Nil
                                   /\ t.win[w] # Nil => s.win[w].left = t.win[w].left
      BY DEF Weaker
  <2> DEFINE P(x) == \E w \in QuotaWindows : x.win[w] # Nil /\ x.win[w].left # Nil /\ x.win[w].left <= 0
  <2>2. P(s) <=> P(t)
      BY <2>1
  <2> QED
      BY <1>1, <2>1, <2>2 DEF FreshnessRank
<1>5. ASSUME NEW w \in QuotaWindows
      PROVE  /\ Measured(s, w).left = Measured(t, w).left
             /\ AtMost(Measured(s, w).frac, Measured(t, w).frac)
  <2>1. CASE HasExplicitWindows(t) /\ t.win[w] # Nil
    <3>1. /\ s.win[w] # Nil /\ s.win[w] \in Window /\ t.win[w] \in Window
          /\ s.win[w].left = t.win[w].left /\ AtMost(s.win[w].frac, t.win[w].frac)
        BY <1>1, <2>1 DEF Weaker
    <3>2. s.win[w].frac \in OptInt /\ t.win[w].frac \in OptInt
        BY <3>1 DEF Window
    <3>3. AtMost(Clamp(s.win[w].frac), Clamp(t.win[w].frac))
        BY <3>1, <3>2, ClampIsMonotone
    <3>4. /\ Measured(s, w) = [s.win[w] EXCEPT !.frac = Clamp(s.win[w].frac)]
          /\ Measured(t, w) = [t.win[w] EXCEPT !.frac = Clamp(t.win[w].frac)]
        BY <1>2, <2>1, <3>1 DEF Measured
    <3>5. /\ Measured(s, w).frac = Clamp(s.win[w].frac) /\ Measured(s, w).left = s.win[w].left
          /\ Measured(t, w).frac = Clamp(t.win[w].frac) /\ Measured(t, w).left = t.win[w].left
        BY <3>1, <3>4 DEF Window
    <3> QED
        BY <3>1, <3>3, <3>5
  <2>2. CASE ~(HasExplicitWindows(t) /\ t.win[w] # Nil) /\ LegacyFractionKnown(t)
    <3>1. /\ Measured(s, w) = [frac |-> Clamp(s.remaining), left |-> s.left]
          /\ Measured(t, w) = [frac |-> Clamp(t.remaining), left |-> t.left]
        BY <1>2, <1>3, <2>2 DEF Measured, Weaker
    <3>2. AtMost(Clamp(s.remaining), Clamp(t.remaining)) /\ s.left = t.left
        BY <1>1, ClampIsMonotone DEF Weaker
    <3> QED
        BY <3>1, <3>2
  <2>3. CASE ~(HasExplicitWindows(t) /\ t.win[w] # Nil) /\ ~LegacyFractionKnown(t)
    <3>1. Measured(s, w) = NoWindow /\ Measured(t, w) = NoWindow
        BY <1>2, <1>3, <2>3 DEF Measured, Weaker
    <3> QED
        BY <3>1 DEF NoWindow, AtMost
  <2> QED
      BY <2>1, <2>2, <2>3
<1> QED
    BY <1>3, <1>4, <1>5

\* Less of a window is a slower pace of it, and it is known of the same windows.
LEMMA PaceIsMonotone ==
    ASSUME NEW s \in Telemetry, NEW t \in Telemetry, Weaker(s, t), NEW w \in QuotaWindows
    PROVE  /\ Measured(s, w).frac = Nil <=> Measured(t, w).frac = Nil
           /\ Measured(t, w).frac # Nil => Measured(s, w).frac <= Measured(t, w).frac
           /\ PaceOf(s)[w] <= PaceOf(t)[w]
<1> DEFINE m == Measured(s, w)
           n == Measured(t, w)
           x == ResetRatio(n.left, w)
<1>1. m \in Window /\ n \in Window /\ m.left = n.left /\ AtMost(m.frac, n.frac)
    BY MeasuredType, MeasuredIsMonotone
<1>2. PaceOf(s)[w] = Pace(m, w) /\ PaceOf(t)[w] = Pace(n, w)
    BY DEF PaceOf
<1> HIDE DEF m, n
<1>3. /\ m.frac \in OptInt /\ n.frac \in OptInt
      /\ m.frac = Nil <=> n.frac = Nil
      /\ n.frac # Nil => m.frac <= n.frac
    BY <1>1 DEF Window, AtMost
<1>4. x \in Int
    BY <1>1, ResetRatioType DEF Window
<1>5. /\ Pace(m, w) = IF m.frac = Nil THEN 0 ELSE m.frac - x
      /\ Pace(n, w) = IF n.frac = Nil THEN 0 ELSE n.frac - x
    BY <1>1 DEF Pace
<1> HIDE DEF x
<1>6. Pace(m, w) <= Pace(n, w)
    BY <1>3, <1>4, <1>5 DEF OptInt
<1> QED
    BY <1>2, <1>3, <1>6 DEF m, n

\* A smaller function has a smaller minimum.
LEMMA MinimumIsMonotone ==
    ASSUME NEW f \in [QuotaWindows -> OptInt], NEW g \in [QuotaWindows -> OptInt],
           NEW K \in SUBSET QuotaWindows, NEW d \in Int,
           \A w \in K : f[w] \in Int /\ g[w] \in Int /\ f[w] <= g[w]
    PROVE  Minimum({f[w] : w \in K}, d) <= Minimum({g[w] : w \in K}, d)
<1> DEFINE x == Minimum({f[w] : w \in K}, d)
           y == Minimum({g[w] : w \in K}, d)
<1>1. x \in Int /\ (K = {} => x = d) /\ (K # {} => \A w \in K : x <= f[w])
    BY MinimumFacts, Zenon
<1>2. y \in Int /\ (K = {} => y = d) /\ (K # {} => \E w \in K : y = g[w])
    BY MinimumFacts, Zenon
<1> HIDE DEF x, y
<1>3. x <= y
  <2>1. CASE K = {}
      BY <1>1, <1>2, <2>1
  <2>2. CASE K # {}
    <3>1. PICK w \in K : y = g[w]
        BY <1>2, <2>2
    <3>2. x <= f[w] /\ f[w] <= g[w] /\ f[w] \in Int /\ g[w] \in Int
        BY <1>1, <2>2
    <3> QED
        BY <1>1, <1>2, <3>1, <3>2
  <2> QED
      BY <2>1, <2>2
<1> QED
    BY <1>3 DEF x, y

\* No figure of the capacity grows with less quota, and an account that is
\* depleted or in reserve does not become better.
LEMMA CapacityIsMonotone ==
    ASSUME NEW s \in Telemetry, NEW t \in Telemetry, Weaker(s, t)
    PROVE  /\ Capacity(s).count = Capacity(t).count
           /\ Capacity(s).worst <= Capacity(t).worst
           /\ Capacity(s).total <= Capacity(t).total
           /\ Capacity(s).floor <= Capacity(t).floor
           /\ Capacity(t).depleted => Capacity(s).depleted
           /\ IsReserve(t) /\ ~Capacity(s).depleted => IsReserve(s)
<1> DEFINE K == Known(t)
<1>1. Known(s) = K
    BY PaceIsMonotone DEF Known
<1>2. LegacyFractionKnown(s) <=> LegacyFractionKnown(t)
    BY MeasuredIsMonotone
<1>3. /\ K \in SUBSET QuotaWindows
      /\ \A w \in QuotaWindows : /\ PaceOf(s)[w] \in Int /\ PaceOf(t)[w] \in Int
                                 /\ PaceOf(s)[w] <= PaceOf(t)[w]
      /\ \A w \in K : Fraction(s)[w] \in Int /\ Fraction(t)[w] \in Int
      /\ Capacity(s).floor \in Int /\ Capacity(t).floor \in Int
    BY <1>1, CapacityType, PaceIsMonotone
<1>4. \A w \in K : Fraction(s)[w] <= Fraction(t)[w]
    BY PaceIsMonotone DEF Known, Fraction
<1>5. /\ PaceOf(s) \in [QuotaWindows -> OptInt] /\ PaceOf(t) \in [QuotaWindows -> OptInt]
      /\ Fraction(s) \in [QuotaWindows -> OptInt] /\ Fraction(t) \in [QuotaWindows -> OptInt]
  <2>1. \A w \in QuotaWindows : /\ Measured(s, w) \in Window /\ Measured(t, w) \in Window
                                /\ PaceOf(s)[w] \in OptInt /\ PaceOf(t)[w] \in OptInt
      BY <1>3, MeasuredType DEF OptInt
  <2>2. PaceOf(s) \in [QuotaWindows -> OptInt] /\ PaceOf(t) \in [QuotaWindows -> OptInt]
      BY <2>1 DEF PaceOf
  <2>3. Fraction(s) \in [QuotaWindows -> OptInt] /\ Fraction(t) \in [QuotaWindows -> OptInt]
      BY <2>1 DEF Fraction, Window
  <2> QED
      BY <2>2, <2>3
<1>6. NegInf \in Int /\ 0 \in Int
    BY DEF NegInf
<1> HIDE DEF K
<1>7. Capacity(s).count = Capacity(t).count
  <2>1. /\ Capacity(s).count = IF LegacyFractionKnown(s) THEN 1 ELSE Cardinality(Known(s))
        /\ Capacity(t).count = IF LegacyFractionKnown(t) THEN 1 ELSE Cardinality(Known(t))
      BY CapacityParts, Zenon
  <2> QED
      BY <1>1, <1>2, <2>1 DEF K
<1>8. Capacity(s).worst <= Capacity(t).worst
  <2>1. Minimum({PaceOf(s)[w] : w \in K}, NegInf) <= Minimum({PaceOf(t)[w] : w \in K}, NegInf)
      BY <1>3, <1>5, <1>6, MinimumIsMonotone, Zenon
  <2>2. /\ Capacity(s).worst = Minimum({PaceOf(s)[w] : w \in Known(s)}, NegInf)
        /\ Capacity(t).worst = Minimum({PaceOf(t)[w] : w \in Known(t)}, NegInf)
      BY CapacityParts, Zenon
  <2>3. Capacity(s).worst = Minimum({PaceOf(s)[w] : w \in K}, NegInf)
      BY <1>1, <2>2
  <2>4. Capacity(t).worst = Minimum({PaceOf(t)[w] : w \in K}, NegInf)
      BY <2>2 DEF K
  <2> QED
      BY <2>1, <2>3, <2>4, Zenon
<1>9. Capacity(s).floor <= Capacity(t).floor
  <2>1. Minimum({Fraction(s)[w] : w \in K}, 0) <= Minimum({Fraction(t)[w] : w \in K}, 0)
      BY <1>3, <1>4, <1>5, <1>6, MinimumIsMonotone, Zenon
  <2>2. /\ Capacity(s).floor = Minimum({Fraction(s)[w] : w \in Known(s)}, 0)
        /\ Capacity(t).floor = Minimum({Fraction(t)[w] : w \in Known(t)}, 0)
      BY CapacityParts, Zenon
  <2>3. Capacity(s).floor = Minimum({Fraction(s)[w] : w \in K}, 0)
      BY <1>1, <2>2
  <2>4. Capacity(t).floor = Minimum({Fraction(t)[w] : w \in K}, 0)
      BY <2>2 DEF K
  <2> QED
      BY <2>1, <2>3, <2>4, Zenon
<1>10. Capacity(s).total <= Capacity(t).total
  <2>1. /\ Capacity(s).total = IF Known(s) = {} THEN NegInf ELSE PaceOf(s)["w5"] + PaceOf(s)["w7"]
        /\ Capacity(t).total = IF Known(t) = {} THEN NegInf ELSE PaceOf(t)["w5"] + PaceOf(t)["w7"]
      BY CapacityParts, Zenon
  <2>2. "w5" \in QuotaWindows /\ "w7" \in QuotaWindows
      BY DEF QuotaWindows
  <2>3. /\ PaceOf(s)["w5"] \in Int /\ PaceOf(t)["w5"] \in Int /\ PaceOf(s)["w5"] <= PaceOf(t)["w5"]
        /\ PaceOf(s)["w7"] \in Int /\ PaceOf(t)["w7"] \in Int /\ PaceOf(s)["w7"] <= PaceOf(t)["w7"]
      BY <1>3, <2>2
  <2>4. Known(s) = {} <=> Known(t) = {}
      BY <1>1 DEF K
  <2> QED
      BY <1>6, <2>1, <2>3, <2>4
<1>11. Capacity(t).depleted => Capacity(s).depleted
  <2>1. /\ Capacity(s).depleted = (Known(s) # {} /\ Capacity(s).floor <= 5)
        /\ Capacity(t).depleted = (Known(t) # {} /\ Capacity(t).floor <= 5)
      BY CapacityParts, Zenon
  <2> DEFINE x == Capacity(s).floor
             y == Capacity(t).floor
  <2>2. x \in Int /\ y \in Int /\ x <= y
      BY <1>3, <1>9
  <2> HIDE DEF x, y
  <2>3. y <= 5 => x <= 5
      BY <2>2
  <2>4. Known(s) = Known(t)
      BY <1>1 DEF K
  <2> QED
      BY <2>1, <2>3, <2>4, Zenon DEF x, y
<1>12. ASSUME IsReserve(t), ~Capacity(s).depleted PROVE IsReserve(s)
  <2> DEFINE F(x, w) == IF LegacyFractionKnown(x) THEN Nil ELSE Measured(x, w).frac
  <2>1. /\ Capacity(s).windows.w5.frac = F(s, "w5") /\ Capacity(s).windows.w7.frac = F(s, "w7")
        /\ Capacity(t).windows.w5.frac = F(t, "w5") /\ Capacity(t).windows.w7.frac = F(t, "w7")
    <3>1. /\ Capacity(s).windows.w5 = IF LegacyFractionKnown(s) THEN NoWindow ELSE Measured(s, "w5")
          /\ Capacity(s).windows.w7 = IF LegacyFractionKnown(s) THEN NoWindow ELSE Measured(s, "w7")
          /\ Capacity(t).windows.w5 = IF LegacyFractionKnown(t) THEN NoWindow ELSE Measured(t, "w5")
          /\ Capacity(t).windows.w7 = IF LegacyFractionKnown(t) THEN NoWindow ELSE Measured(t, "w7")
        BY CapacityParts, Zenon
    <3>2. NoWindow.frac = Nil
        BY DEF NoWindow
    <3> QED
        BY <3>1, <3>2
  <2>2. ASSUME NEW w \in QuotaWindows, NEW n \in Int, F(t, w) # Nil, F(t, w) <= n
        PROVE  F(s, w) # Nil /\ F(s, w) <= n
    <3>1. ~LegacyFractionKnown(t) /\ ~LegacyFractionKnown(s)
        BY <1>2, <2>2
    <3>2. /\ Measured(s, w) \in Window /\ Measured(t, w) \in Window
          /\ Measured(s, w).frac # Nil /\ Measured(t, w).frac # Nil
          /\ Measured(s, w).frac <= Measured(t, w).frac
        BY <2>2, <3>1, PaceIsMonotone, MeasuredType
    <3>3. Measured(s, w).frac \in Int /\ Measured(t, w).frac \in Int
        BY <3>2 DEF Window, OptInt
    <3>4. Measured(s, w).frac <= n
        BY <2>2, <3>1, <3>2, <3>3
    <3> QED
        BY <3>1, <3>2, <3>4
  <2>3. "w5" \in QuotaWindows /\ "w7" \in QuotaWindows /\ 150 \in Int /\ 100 \in Int
      BY DEF QuotaWindows
  <2>4. (F(t, "w5") # Nil /\ F(t, "w5") <= 150) \/ (F(t, "w7") # Nil /\ F(t, "w7") <= 100)
    <3>1. \/ Capacity(t).windows.w5.frac # Nil /\ Capacity(t).windows.w5.frac <= 150
          \/ Capacity(t).windows.w7.frac # Nil /\ Capacity(t).windows.w7.frac <= 100
        BY <1>12, Zenon DEF IsReserve
    <3> HIDE DEF F
    <3> QED
        BY <2>1, <3>1
  <2>5. (F(s, "w5") # Nil /\ F(s, "w5") <= 150) \/ (F(s, "w7") # Nil /\ F(s, "w7") <= 100)
      BY <2>2, <2>3, <2>4, Zenon
  <2>6. \/ Capacity(s).windows.w5.frac # Nil /\ Capacity(s).windows.w5.frac <= 150
        \/ Capacity(s).windows.w7.frac # Nil /\ Capacity(s).windows.w7.frac <= 100
    <3> HIDE DEF F
    <3> QED
        BY <2>1, <2>5
  <2> QED
      BY <1>12, <2>6, Zenon DEF IsReserve
<1> QED
    BY <1>7, <1>8, <1>9, <1>10, <1>11, <1>12, Zenon

\* The strategies that compare quota.
Ranked == {"max_quota", "least_used"}

\* How long the keys of a tier are.
KeyLength(n) == CASE n = 2 -> 0 [] n = 1 -> 2 [] OTHER -> 7

\* Their keys have the length of the tier.
LEMMA TierKeyType ==
    ASSUME NEW p \in Seq(Accounts), NEW ac \in [Accounts -> Record], NEW strategy \in Ranked,
           NEW c, NEW a \in Range(p)
    PROVE  /\ Tier(ac[a]) \in 0 .. 2 /\ KeyLength(Tier(ac[a])) \in Nat
           /\ TierKey(p, ac, strategy, c, a) \in Keys(KeyLength(Tier(ac[a])))
<1>1. ac[a] \in Record /\ a \in Nat
    BY RecordsOf
<1>2. /\ MaxQuotaKey(ac[a]) \in Keys(6)
      /\ LeastUsedKey(ac[a], a) \in Keys(7)
      /\ DepletedKey(ac[a]) \in Keys(2)
    BY <1>1, KeyTypes
<1>3. Tier(ac[a]) \in 0 .. 2
    BY DEF Tier
<1>4. CASE Tier(ac[a]) = 2
    BY <1>3, <1>4 DEF TierKey, KeyLength, Keys
<1>5. CASE Tier(ac[a]) = 1
    BY <1>2, <1>3, <1>5 DEF TierKey, KeyLength
<1>6. CASE Tier(ac[a]) = 0
  <2>1. /\ TierKey(p, ac, strategy, c, a) = EligibleKey(p, ac, strategy, c, a)
        /\ KeyLength(Tier(ac[a])) = 7
      BY <1>6 DEF TierKey, KeyLength
  <2>2. CASE strategy = "least_used"
      BY <1>2, <1>3, <2>1, <2>2 DEF EligibleKey
  <2>3. CASE strategy = "max_quota"
    <3> DEFINE k == <<IF IsReserve(ac[a].tele) THEN 0 ELSE 1>>
    <3>1. EligibleKey(p, ac, strategy, c, a) = k \o MaxQuotaKey(ac[a])
        BY <2>3 DEF EligibleKey
    <3>2. k \in Keys(1)
        BY GreaterOne
    <3> HIDE DEF k
    <3>3. k \o MaxQuotaKey(ac[a]) \in Keys(1 + 6)
        BY <1>2, <3>2, GreaterJoined
    <3> QED
        BY <1>3, <2>1, <3>1, <3>3
  <2> QED
      BY <2>2, <2>3 DEF Ranked
<1> QED
    BY <1>3, <1>4, <1>5, <1>6

\* Of two accounts only one precedes the other.
LEMMA BeforeIsStrict ==
    ASSUME NEW p \in Seq(Accounts), NEW ac \in [Accounts -> Record], NEW strategy \in Ranked,
           NEW c, NEW a \in Range(p), NEW b \in Range(p), Before(p, ac, strategy, c, a, b)
    PROVE  ~Before(p, ac, strategy, c, b, a)
<1> DEFINE k == TierKey(p, ac, strategy, c, a)
           l == TierKey(p, ac, strategy, c, b)
           m == Tier(ac[a])
           n == Tier(ac[b])
<1>1. /\ m \in 0 .. 2 /\ n \in 0 .. 2
      /\ KeyLength(m) \in Nat
      /\ k \in Keys(KeyLength(m)) /\ l \in Keys(KeyLength(n))
    BY TierKeyType
<1>2. Position(p, a) \in Int /\ Position(p, b) \in Int
    BY PositionFacts
<1>3. m < n \/ (m = n /\ (Greater(k, l) \/ (k = l /\ Position(p, a) < Position(p, b))))
    BY DEF Before
<1>4. ASSUME n < m \/ (n = m /\ (Greater(l, k) \/ (l = k /\ Position(p, b) < Position(p, a))))
      PROVE  FALSE
  <2> HIDE DEF k, l, m, n
  <2>1. m = n
      BY <1>1, <1>3, <1>4
  <2>2. /\ Greater(k, l) => ~Greater(l, k) /\ k # l
        /\ Greater(l, k) => ~Greater(k, l) /\ l # k
      BY <1>1, <2>1, GreaterIsStrict
  <2> QED
      BY <1>1, <1>2, <1>3, <1>4, <2>1, <2>2
<1> QED
    BY <1>4 DEF Before

\* Six numbers are a key.
LEMMA SixIsKey ==
    ASSUME NEW a1 \in Int, NEW a2 \in Int, NEW a3 \in Int, NEW a4 \in Int, NEW a5 \in Int, NEW a6 \in Int
    PROVE  <<a1, a2, a3, a4, a5, a6>> \in Keys(6)
BY DEF Keys

\* Keys that are at most others, item by item.
LEMMA SixAtMost ==
    ASSUME NEW a1 \in Int, NEW a2 \in Int, NEW a3 \in Int, NEW a4 \in Int, NEW a5 \in Int, NEW a6 \in Int,
           NEW b1 \in Int, NEW b2 \in Int, NEW b3 \in Int, NEW b4 \in Int, NEW b5 \in Int, NEW b6 \in Int,
           a1 <= b1, a2 <= b2, a3 <= b3, a4 <= b4, a5 <= b5, a6 <= b6
    PROVE  ~Greater(<<a1, a2, a3, a4, a5, a6>>, <<b1, b2, b3, b4, b5, b6>>)
<1> DEFINE k == <<a1, a2, a3, a4, a5, a6>>
           l == <<b1, b2, b3, b4, b5, b6>>
<1>1. k \in Keys(6) /\ l \in Keys(6)
    BY DEF Keys
<1>2. \A i \in 1 .. 6 : k[i] <= l[i]
  <2>1. 1 .. 6 = {1, 2, 3, 4, 5, 6}
      OBVIOUS
  <2>2. /\ k[1] <= l[1] /\ k[2] <= l[2] /\ k[3] <= l[3]
        /\ k[4] <= l[4] /\ k[5] <= l[5] /\ k[6] <= l[6]
      OBVIOUS
  <2> HIDE DEF k, l
  <2> QED
      BY <2>1, <2>2
<1> QED
    BY <1>1, <1>2, NotGreater

\* Less quota never moves an account to an earlier tier, and not forward in its own.
LEMMA KeyIsMonotone ==
    ASSUME NEW p \in Seq(Accounts), NEW ac \in [Accounts -> Record], NEW strategy \in Ranked,
           NEW c, NEW a \in Range(p), ~ac[a].restricted,
           NEW l \in Less(ac[a]), IsLess(l, ac[a]),
           NEW less, less = [ac EXCEPT ![a] = l]
    PROVE  /\ less \in [Accounts -> Record] /\ less[a] = l
           /\ Tier(ac[a]) <= Tier(l)
           /\ Tier(ac[a]) = Tier(l) =>
                ~Greater(TierKey(p, less, strategy, c, a), TierKey(p, ac, strategy, c, a))
<1> DEFINE r == ac[a]
           s == l.tele
           t == r.tele
<1>1. a \in Accounts /\ a \in Nat /\ r \in Record
    BY RecordsOf
<1>2. /\ l \in Record /\ s \in Telemetry /\ t \in Telemetry
      /\ l.hits = r.hits /\ l.cooling = r.cooling /\ l.restricted = r.restricted
      /\ Weaker(s, t)
    BY <1>1, LessIsWeaker
<1>3. less \in [Accounts -> Record] /\ less[a] = l
    BY <1>1, <1>2
<1>4. /\ Capacity(s).count = Capacity(t).count
      /\ Capacity(s).worst <= Capacity(t).worst
      /\ Capacity(s).total <= Capacity(t).total
      /\ Capacity(s).floor <= Capacity(t).floor
      /\ Capacity(t).depleted => Capacity(s).depleted
      /\ IsReserve(t) /\ ~Capacity(s).depleted => IsReserve(s)
    BY <1>2, CapacityIsMonotone
<1>5. FreshnessRank(s) = FreshnessRank(t)
    BY <1>2, MeasuredIsMonotone
<1>6. /\ s \in Telemetry \cup {Nil} /\ t \in Telemetry \cup {Nil}
      /\ -l.hits = -r.hits /\ -r.hits \in Int
    BY <1>1, <1>2 DEF Record
<1>7. /\ Capacity(s).count \in Int /\ Capacity(t).count \in Int
      /\ Capacity(s).worst \in Int /\ Capacity(t).worst \in Int
      /\ Capacity(s).total \in Int /\ Capacity(t).total \in Int
      /\ Capacity(s).floor \in Int /\ Capacity(t).floor \in Int
      /\ FreshnessRank(s) \in Int
    BY <1>6, CapacityType
<1>8. Tier(r) <= Tier(l)
    BY <1>2, <1>4 DEF Tier, InCooldown, IsDepleted
<1> HIDE DEF r, s, t
<1>9. /\ -l.hits \in Int /\ -l.hits <= -r.hits
      /\ FreshnessRank(t) \in Int /\ FreshnessRank(s) <= FreshnessRank(t)
      /\ Capacity(s).count <= Capacity(t).count
  <2> DEFINE x == -l.hits
             y == -r.hits
             f == FreshnessRank(s)
             g == FreshnessRank(t)
             m == Capacity(s).count
             n == Capacity(t).count
  <2>1. x = y /\ y \in Int /\ f = g /\ f \in Int /\ m = n /\ m \in Int
      BY <1>4, <1>5, <1>6, <1>7
  <2> HIDE DEF x, y, f, g, m, n
  <2>2. x \in Int /\ x <= y /\ g \in Int /\ f <= g /\ m <= n
      BY <2>1
  <2> QED
      BY <2>2 DEF x, y, f, g, m, n
<1>10. /\ MaxQuotaKey(l) \in Keys(6) /\ MaxQuotaKey(r) \in Keys(6)
       /\ LeastUsedKey(l, a) \in Keys(7) /\ LeastUsedKey(r, a) \in Keys(7)
       /\ DepletedKey(l) \in Keys(2) /\ DepletedKey(r) \in Keys(2)
    BY <1>1, <1>2, KeyTypes
<1>11. ~Greater(DepletedKey(l), DepletedKey(r))
  <2>1. \A i \in 1 .. 2 : DepletedKey(l)[i] <= DepletedKey(r)[i]
    <3>1. /\ DepletedKey(l) = <<Capacity(s).floor, -l.hits>>
          /\ DepletedKey(r) = <<Capacity(t).floor, -r.hits>>
        BY Zenon DEF DepletedKey, s, t
    <3> QED
        BY <1>4, <1>6, <3>1
  <2> QED
      BY <1>10, <2>1, NotGreater
<1>12. ~Greater(LeastUsedKey(l, a), LeastUsedKey(r, a))
  <2>1. /\ LeastUsedKey(l, a) = <<-l.hits, Capacity(s).count, FreshnessRank(s), Capacity(s).worst,
                                  Capacity(s).total, Capacity(s).floor, -a>>
        /\ LeastUsedKey(r, a) = <<-r.hits, Capacity(t).count, FreshnessRank(t), Capacity(t).worst,
                                  Capacity(t).total, Capacity(t).floor, -a>>
      BY Zenon DEF LeastUsedKey, s, t
  <2> DEFINE u == <<-l.hits, Capacity(s).count, FreshnessRank(s), Capacity(s).worst,
                    Capacity(s).total, Capacity(s).floor>>
             v == <<-r.hits, Capacity(t).count, FreshnessRank(t), Capacity(t).worst,
                    Capacity(t).total, Capacity(t).floor>>
  <2>2. ~Greater(u, v)
      BY <1>4, <1>6, <1>7, <1>9, SixAtMost, Zenon
  <2>3. u \in Keys(6)
      BY <1>7, <1>9, SixIsKey, Zenon
  <2>4. v \in Keys(6)
      BY <1>6, <1>7, <1>9, SixIsKey, Zenon
  <2>5. LeastUsedKey(l, a) = u \o <<-a>> /\ LeastUsedKey(r, a) = v \o <<-a>>
      BY <2>1
  <2>6. -a \in Int
      BY <1>1
  <2> HIDE DEF u, v
  <2>7. <<-a>> \in Keys(1) /\ ~Greater(<<-a>>, <<-a>>)
      BY <2>6, GreaterOne
  <2>8. ~Greater(u \o <<-a>>, v \o <<-a>>)
      BY <2>2, <2>7, <2>3, <2>4, GreaterJoined
  <2> QED
      BY <2>5, <2>8
<1>13. ~Greater(MaxQuotaKey(l), MaxQuotaKey(r))
  <2>1. /\ MaxQuotaKey(l) = <<Capacity(s).count, FreshnessRank(s), Capacity(s).worst,
                              Capacity(s).total, Capacity(s).floor, -l.hits>>
        /\ MaxQuotaKey(r) = <<Capacity(t).count, FreshnessRank(t), Capacity(t).worst,
                              Capacity(t).total, Capacity(t).floor, -r.hits>>
      BY Zenon DEF MaxQuotaKey, s, t
  <2>2. ~Greater(<<Capacity(s).count, FreshnessRank(s), Capacity(s).worst,
                   Capacity(s).total, Capacity(s).floor, -l.hits>>,
                 <<Capacity(t).count, FreshnessRank(t), Capacity(t).worst,
                   Capacity(t).total, Capacity(t).floor, -r.hits>>)
      BY <1>4, <1>6, <1>7, <1>9, SixAtMost, Zenon
  <2> QED
      BY <2>1, <2>2, Zenon
<1>14. ASSUME Tier(r) = Tier(l)
       PROVE  ~Greater(TierKey(p, less, strategy, c, a), TierKey(p, ac, strategy, c, a))
  <2>1. Tier(ac[a]) = Tier(l) /\ Tier(less[a]) = Tier(l) /\ Tier(l) \in 0 .. 2
      BY <1>3, <1>14 DEF r, Tier
  <2>2. CASE Tier(l) = 2
    <3>1. TierKey(p, less, strategy, c, a) = <<>> /\ TierKey(p, ac, strategy, c, a) = <<>>
        BY <2>1, <2>2 DEF TierKey
    <3> QED
        BY <3>1 DEF Greater
  <2>3. CASE Tier(l) = 1
    <3>1. /\ TierKey(p, less, strategy, c, a) = DepletedKey(l)
          /\ TierKey(p, ac, strategy, c, a) = DepletedKey(r)
        BY <1>3, <2>1, <2>3 DEF TierKey, r
    <3> QED
        BY <1>11, <3>1
  <2>4. CASE Tier(l) = 0
    <3>1. /\ TierKey(p, less, strategy, c, a) = EligibleKey(p, less, strategy, c, a)
          /\ TierKey(p, ac, strategy, c, a) = EligibleKey(p, ac, strategy, c, a)
        BY <2>1, <2>4 DEF TierKey
    <3>2. CASE strategy = "least_used"
      <4>1. /\ EligibleKey(p, less, strategy, c, a) = LeastUsedKey(l, a)
            /\ EligibleKey(p, ac, strategy, c, a) = LeastUsedKey(r, a)
          BY <1>3, <3>2 DEF EligibleKey, r
      <4> QED
          BY <1>12, <3>1, <4>1
    <3>3. CASE strategy = "max_quota"
      <4> DEFINE x == IF IsReserve(s) THEN 0 ELSE 1
                 y == IF IsReserve(t) THEN 0 ELSE 1
      <4>1. /\ EligibleKey(p, less, strategy, c, a) = <<x>> \o MaxQuotaKey(l)
            /\ EligibleKey(p, ac, strategy, c, a) = <<y>> \o MaxQuotaKey(r)
          BY <1>3, <3>3 DEF EligibleKey, r, s, t
      <4>2. ~Capacity(s).depleted
          BY <1>2, <2>4 DEF Tier, InCooldown, IsDepleted, r, s
      <4>3. x \in Int /\ y \in Int /\ x <= y
          BY <1>4, <4>2
      <4> HIDE DEF x, y
      <4>4. <<x>> \in Keys(1) /\ <<y>> \in Keys(1) /\ ~Greater(<<x>>, <<y>>)
          BY <4>3, GreaterOne
      <4>5. ~Greater(<<x>> \o MaxQuotaKey(l), <<y>> \o MaxQuotaKey(r))
          BY <1>10, <1>13, <4>4, GreaterJoined
      <4> QED
          BY <3>1, <4>1, <4>5
    <3> QED
        BY <3>2, <3>3 DEF Ranked
  <2> QED
      BY <2>1, <2>2, <2>3, <2>4
<1> QED
    BY <1>3, <1>8, <1>14 DEF r

\* Whoever precedes an account still does when it has less.
LEMMA StillBefore ==
    ASSUME NEW p \in Seq(Accounts), NEW ac \in [Accounts -> Record], NEW strategy \in Ranked,
           NEW c, NEW a \in Range(p), ~ac[a].restricted,
           NEW l \in Less(ac[a]), IsLess(l, ac[a]),
           NEW b \in Range(p), b # a, Before(p, ac, strategy, c, b, a)
    PROVE  Before(p, [ac EXCEPT ![a] = l], strategy, c, b, a)
<1> DEFINE less == [ac EXCEPT ![a] = l]
           k == TierKey(p, ac, strategy, c, b)
           x == TierKey(p, ac, strategy, c, a)
           y == TierKey(p, less, strategy, c, a)
           m == Tier(ac[b])
           n == Tier(ac[a])
           o == Tier(l)
<1>1. /\ less \in [Accounts -> Record] /\ less[a] = l
      /\ n <= o /\ (n = o => ~Greater(y, x))
  <2> DEFINE e == [ac EXCEPT ![a] = l]
  <2>1. less = e
      OBVIOUS
  <2> HIDE DEF less
  <2>2. \A z : z = e =>
            /\ z \in [Accounts -> Record] /\ z[a] = l
            /\ Tier(ac[a]) <= Tier(l)
            /\ Tier(ac[a]) = Tier(l) =>
                ~Greater(TierKey(p, z, strategy, c, a), TierKey(p, ac, strategy, c, a))
      BY KeyIsMonotone, Zenon
  <2> QED
      BY <2>1, <2>2, Zenon
<1>2. less[b] = ac[b]
    BY RecordsOf
<1>3. TierKey(p, less, strategy, c, b) = k
    BY <1>2 DEF TierKey, EligibleKey, Ranked
<1>4. /\ m \in 0 .. 2 /\ n \in 0 .. 2 /\ KeyLength(m) \in Nat /\ KeyLength(n) \in Nat
      /\ k \in Keys(KeyLength(m)) /\ x \in Keys(KeyLength(n))
    BY TierKeyType
<1>5. o \in 0 .. 2 /\ y \in Keys(KeyLength(o))
    BY <1>1, TierKeyType
<1>6. m < n \/ (m = n /\ (Greater(k, x) \/ (k = x /\ Position(p, b) < Position(p, a))))
    BY DEF Before
<1>7. m < o \/ (m = o /\ (Greater(k, y) \/ (k = y /\ Position(p, b) < Position(p, a))))
  <2> HIDE DEF less, k, x, y, m, n, o
  <2>1. CASE m < o
      BY <2>1
  <2>2. CASE ~(m < o)
    <3>1. m = n /\ n = o
        BY <1>1, <1>4, <1>5, <1>6, <2>2
    <3>2. y = x \/ Greater(x, y)
        BY <1>1, <1>4, <1>5, <3>1, GreaterIsTotal
    <3>3. Greater(k, x) /\ Greater(x, y) => Greater(k, y)
        BY <1>4, <1>5, <3>1, GreaterIsTransitive
    <3> QED
        BY <1>6, <3>1, <3>2, <3>3
  <2> QED
      BY <2>1, <2>2
<1> HIDE DEF k, y
<1> QED
    BY <1>1, <1>2, <1>3, <1>7 DEF Before, y

\* An account that all of those before it in o precede in u too is not nearer to
\* the front in u.
LEMMA PlaceGrows ==
    ASSUME NEW S, IsFiniteSet(S), NEW o, NEW u, Lists(o, S), Lists(u, S), NEW Q, NEW R,
           Ordered(o, Q), Ordered(u, R), NEW a \in S,
           \A b \in S : b # a /\ <<b, a>> \in Q => <<b, a>> \in R /\ <<a, b>> \notin R
    PROVE  Position(u, a) >= Position(o, a)
<1> DEFINE n == Cardinality(S)
           i == Position(o, a)
           j == Position(u, a)
<1>1. n \in Nat
    BY FS_CardinalityType
<1>2. /\ o \in Seq(S) /\ u \in Seq(S) /\ DOMAIN o = 1 .. n /\ DOMAIN u = 1 .. n
      /\ Range(o) = S /\ Range(u) = S
      /\ \A h \in 1 .. n : o[h] \in S
  <2>1. o \in [1 .. n -> S] /\ u \in [1 .. n -> S]
      BY DEF Lists
  <2>2. o \in Seq(S) /\ u \in Seq(S)
      BY <1>1, <2>1, IsASeq
  <2>3. DOMAIN o = 1 .. n /\ DOMAIN u = 1 .. n /\ \A h \in 1 .. n : o[h] \in S /\ u[h] \in S
      BY <2>1
  <2>4. \A b \in S : (\E h \in 1 .. n : o[h] = b) /\ (\E h \in 1 .. n : u[h] = b)
      BY DEF Lists
  <2> HIDE DEF n
  <2>5. Range(o) = {o[h] : h \in 1 .. n} /\ Range(u) = {u[h] : h \in 1 .. n}
      BY <2>3, Zenon DEF Range
  <2>6. {o[h] : h \in 1 .. n} = S /\ {u[h] : h \in 1 .. n} = S
    <3> DEFINE I == 1 .. n
    <3>1. /\ \A h \in I : o[h] \in S /\ u[h] \in S
          /\ \A b \in S : (\E h \in I : o[h] = b) /\ (\E h \in I : u[h] = b)
        BY <2>3, <2>4
    <3> HIDE DEF I
    <3>2. {o[h] : h \in I} = S
        BY <3>1
    <3>3. {u[h] : h \in I} = S
        BY <3>1
    <3> QED
        BY <3>2, <3>3 DEF I
  <2> QED
      BY <2>2, <2>3, <2>5, <2>6
<1>3. IsInjective(o) /\ IsInjective(u)
    BY ListsOnce
<1>4. i \in 1 .. n /\ j \in 1 .. n /\ o[i] = a /\ u[j] = a
  <2>1. a \in Range(o) /\ a \in Range(u)
      BY <1>2
  <2>2. Len(o) = n /\ Len(u) = n
    <3> HIDE DEF n
    <3> QED
        BY <1>1, <1>2
  <2>3. i \in 1 .. Len(o) /\ o[i] = a
      BY <1>2, <2>1, PositionFacts
  <2>4. j \in 1 .. Len(u) /\ u[j] = a
      BY <1>2, <2>1, PositionFacts
  <2> QED
      BY <2>2, <2>3, <2>4
<1> DEFINE f == [h \in 1 .. i - 1 |-> Position(u, o[h])]
<1>5. ASSUME NEW h \in 1 .. i - 1
      PROVE  /\ h \in 1 .. n
             /\ f[h] \in 1 .. j - 1
             /\ u[f[h]] = o[h]
  <2>1. h \in 1 .. n /\ h < i
      BY <1>1, <1>4
  <2>2. o[h] # a
      BY <1>2, <1>3, <1>4, <2>1 DEF IsInjective
  <2>3. <<o[h], a>> \in Q /\ o[h] \in S
      BY <1>2, <1>4, <2>1 DEF Ordered
  <2>4. <<a, o[h]>> \notin R
      BY <2>2, <2>3
  <2>5. f[h] = Position(u, o[h])
      OBVIOUS
  <2> HIDE DEF f, i, j, n
  <2>6. f[h] \in 1 .. n /\ u[f[h]] = o[h]
    <3>1. o[h] \in Range(u) /\ Len(u) = n
        BY <1>1, <1>2, <2>3
    <3>2. Position(u, o[h]) \in 1 .. Len(u) /\ u[Position(u, o[h])] = o[h]
        BY <1>2, <3>1, PositionFacts
    <3> QED
        BY <2>5, <3>1, <3>2
  <2>7. f[h] # j /\ ~(j < f[h])
      BY <1>2, <1>4, <2>2, <2>4, <2>6 DEF Ordered
  <2>8. f[h] \in 1 .. j - 1
      BY <1>1, <1>4, <2>6, <2>7
  <2> QED
      BY <2>1, <2>6, <2>8
<1>6. f \in Injection(1 .. i - 1, 1 .. j - 1)
  <2>1. DOMAIN f = 1 .. i - 1
      OBVIOUS
  <2>2. f \in [1 .. i - 1 -> 1 .. j - 1]
      BY <1>5
  <2>3. \A g, h \in 1 .. i - 1 : f[g] = f[h] => g = h
    <3> SUFFICES ASSUME NEW g \in 1 .. i - 1, NEW h \in 1 .. i - 1, f[g] = f[h] PROVE g = h
        OBVIOUS
    <3>1. o[g] = o[h] /\ g \in 1 .. n /\ h \in 1 .. n
        BY <1>5
    <3> QED
        BY <1>2, <1>3, <3>1 DEF IsInjective
  <2> HIDE DEF f
  <2> QED
      BY <2>1, <2>2, <2>3 DEF Injection, IsInjective
<1> HIDE DEF f, i, j, n
<1>7. /\ IsFiniteSet(1 .. i - 1) /\ Cardinality(1 .. i - 1) = i - 1
      /\ IsFiniteSet(1 .. j - 1) /\ Cardinality(1 .. j - 1) = j - 1
  <2>1. 1 \in Int /\ i - 1 \in Int /\ j - 1 \in Int /\ i - 1 >= 0 /\ j - 1 >= 0
      BY <1>1, <1>4
  <2> DEFINE x == i - 1
             y == j - 1
  <2> HIDE DEF x, y
  <2>2. x \in Nat /\ y \in Nat
      BY <2>1 DEF x, y
  <2>3. /\ IsFiniteSet(1 .. x) /\ Cardinality(1 .. x) = x
        /\ IsFiniteSet(1 .. y) /\ Cardinality(1 .. y) = y
      BY <2>2, FS_Interval
  <2> QED
      BY <2>3 DEF x, y
<1>8. Cardinality(1 .. i - 1) <= Cardinality(1 .. j - 1)
    BY <1>6, <1>7, FS_Injection
<1> QED
    BY <1>1, <1>4, <1>7, <1>8 DEF i, j

\* With less quota an account's place in the order does not move to the front.
LEMMA LessIsNotRewarded == PoolTypeOK => NoRewardForLess
<1> SUFFICES ASSUME PoolTypeOK, NEW strategy \in Ranked, NEW a \in Members,
                    NEW l \in Less(acct[a]), IsLess(l, acct[a])
             PROVE  Position(OrderCandidates(pool, [acct EXCEPT ![a] = l], strategy, cursor), a)
                        >= Position(OrderCandidates(pool, acct, strategy, cursor), a)
    BY Zenon DEF NoRewardForLess, Ranked
<1> DEFINE less == [acct EXCEPT ![a] = l]
           o == OrderCandidates(pool, acct, strategy, cursor)
           u == OrderCandidates(pool, less, strategy, cursor)
           S == {b \in Range(pool) : ~acct[b].restricted}
           T == {b \in Range(pool) : ~less[b].restricted}
           Q == Precedence(pool, acct, strategy, cursor)
           R == Precedence(pool, less, strategy, cursor)
<1>1. /\ pool \in Seq(Accounts) /\ IsInjective(pool) /\ acct \in [Accounts -> Record]
      /\ a \in Range(pool) /\ a \in Accounts /\ strategy \in Strategies
      /\ acct[a] \in Record
    BY RecordsTyped DEF PoolTypeOK, Members, Ranked, Strategies
<1>2. l \in Record /\ l.restricted = acct[a].restricted
    BY <1>1, LessIsWeaker
<1>3. less \in [Accounts -> Record] /\ less[a] = l /\ \A b \in Accounts \ {a} : less[b] = acct[b]
    BY <1>1, <1>2
<1>4. T = S
  <2>1. \A b \in Range(pool) : less[b].restricted = acct[b].restricted
    <3>1. Range(pool) \subseteq Accounts
        BY <1>1, RecordsOf
    <3> QED
        BY <1>2, <1>3, <3>1
  <2> QED
      BY <2>1
<1>5. Lists(o, S) /\ Ordered(o, Q) /\ Lists(u, T) /\ Ordered(u, R)
  <2> HIDE DEF less
  <2>1. Lists(o, S) /\ Ordered(o, Q)
      BY <1>1, OrderFacts, Zenon
  <2>2. Lists(u, T) /\ Ordered(u, R)
      BY <1>1, <1>3, OrderFacts, Zenon
  <2> QED
      BY <2>1, <2>2, Zenon
<1>6. S \subseteq Range(pool) /\ IsFiniteSet(S)
  <2>1. IsFiniteSet(Range(pool))
      BY <1>1, RangeIsFinite
  <2> QED
      BY <2>1, FS_Subset
<1>7. CASE a \in S
  <2>1. ASSUME NEW b \in S, b # a, <<b, a>> \in Q
        PROVE  <<b, a>> \in R /\ <<a, b>> \notin R
    <3>1. Before(pool, acct, strategy, cursor, b, a) /\ ~acct[a].restricted /\ b \in Range(pool)
        BY <1>7, <2>1 DEF Precedence
    <3>2. Before(pool, less, strategy, cursor, b, a)
        BY <1>1, <2>1, <3>1, StillBefore
    <3> HIDE DEF less
    <3>3. ~Before(pool, less, strategy, cursor, a, b)
        BY <1>1, <1>3, <3>1, <3>2, BeforeIsStrict
    <3> QED
        BY <1>1, <3>1, <3>2, <3>3 DEF Precedence
  <2> HIDE DEF S, T, Q, R, o, u
  <2>2. Position(u, a) >= Position(o, a)
      BY <1>4, <1>5, <1>6, <1>7, <2>1, PlaceGrows
  <2> QED
      BY <2>2 DEF o, u
<1>8. CASE a \notin S
  <2> HIDE DEF S, T, Q, R, o, u
  <2>1. Cardinality(S) \in Nat
      BY <1>6, FS_CardinalityType
  <2>2. /\ o \in Seq(S) /\ u \in Seq(S) /\ a \notin Range(o) /\ a \notin Range(u)
    <3>1. o \in [1 .. Cardinality(S) -> S] /\ u \in [1 .. Cardinality(S) -> S]
        BY <1>4, <1>5 DEF Lists
    <3>2. o \in Seq(S) /\ u \in Seq(S)
        BY <2>1, <3>1, IsASeq
    <3> QED
        BY <1>8, <3>1, <3>2 DEF Range
  <2>3. Position(o, a) = 0 /\ Position(u, a) = 0
      BY <2>2, PositionOfNone
  <2>4. Position(u, a) >= Position(o, a)
      BY <2>3
  <2> QED
      BY <2>4 DEF o, u
<1> QED
    BY <1>7, <1>8

-----------------------------------------------------------------------------
(* The theorems of the scheduler.                                          *)

\* The inductive invariant: the cursor of the round robin names a member or nobody
\* (RemoveAccount clears it), and whom reservations preferred to an account lies, around
\* the pool, between that account and the cursor.
THEOREM PoolInvariant == SchedulerSpec => []PoolInv
<1>1. PoolInv /\ [SchedulerNext]_schedulerVars => PoolInv'
    BY NextPoolType, NextRound DEF PoolInv
<1> QED
    BY <1>1, InitPool, PTL DEF SchedulerSpec

\* OrderIsRight: OrderCandidates returns every account that is not restricted once,
\* eligible before depleted before cooldown, by the code's keys within a tier, and as one of
\* the orders with which the request path is modelled.
THEOREM OrdersAreRight == SchedulerSpec => []OrderIsRight
<1>1. PoolInv => OrderIsRight
    BY OrderIsRightOfAnyPool DEF PoolInv
<1> QED
    BY <1>1, PoolInvariant, PTL

\* RoundRobinFair: as long as the cursor's account is eligible at each reservation,
\* ReserveRoundRobinCandidates prefers no account twice to one that stays eligible.
THEOREM RoundRobinIsFair == SchedulerSpec => RoundRobinFair
<1> DEFINE Fair == Reserve /\ cursor \in Eligible =>
                    \A a \in Eligible : cursor' \notin passed[a] \/ cursor' = a
<1>1. PoolInv /\ [SchedulerNext]_schedulerVars => Fair
  <2> SUFFICES ASSUME PoolInv, NEW a \in Eligible, Reserve, cursor \in Eligible,
                      cursor' \in passed[a], cursor' # a
               PROVE  FALSE
      OBVIOUS
  <2>1. a \in Members /\ cursor \in Members /\ a \in Accounts
      BY RecordsTyped DEF Eligible, PoolInv
  <2>2. cursor' \in Members /\ Distance(cursor') < Distance(a)
      BY ReserveFacts DEF PoolInv
  <2>3. Between(a, cursor', cursor)
      BY <2>1 DEF PoolInv, RoundInv
  <2> DEFINE i == Index(a)
             c == Index(cursor)
             d == Index(cursor')
             n == Len(pool)
  <2>4. i \in 1 .. n /\ c \in 1 .. n /\ d \in 1 .. n
      BY <2>1, <2>2, IndexFacts DEF PoolInv
  <2>5. /\ Distance(a) = IF i > c THEN i - c - 1 ELSE (i - c - 1) + n
        /\ Distance(cursor') = IF d > c THEN d - c - 1 ELSE (d - c - 1) + n
      BY <2>1, <2>2, DistanceIs DEF PoolInv
  <2>6. (i < d /\ d <= c) \/ (d <= c /\ c < i) \/ (c < i /\ i < d)
      BY <2>3 DEF Between
  <2>7. n \in Nat
      BY DEF PoolInv, PoolTypeOK
  <2> HIDE DEF i, c, d, n
  <2> QED
      BY <2>2, <2>4, <2>5, <2>6, <2>7
<1> QED
    BY <1>1, PoolInvariant, PTL DEF SchedulerSpec, RoundRobinFair

\* NoRewardForLess: the order of the candidates never moves an account forward
\* because it has less quota left (capacity_state in quota.go, the three sorts of
\* scheduler.go).
THEOREM LessQuotaIsNoReward == SchedulerSpec => []NoRewardForLess
<1>1. PoolInv => NoRewardForLess
    BY LessIsNotRewarded DEF PoolInv
<1> QED
    BY <1>1, PoolInvariant, PTL
=============================================================================
