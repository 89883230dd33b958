----------------------------- MODULE QuotaProbe -----------------------------
(***************************************************************************)
(* Quota probes of one account (internal/quota/refresh.go).  Background    *)
(* probes are started by ScheduleQuotaRefresh in a daemon or in "top", one *)
(* at a time per process; login, switch and verify call QueryQuota         *)
(* directly.  All of them work on a copy of the account for as long as the *)
(* network takes, while the proxy stores upstream errors and the user logs *)
(* in again.  A pool transaction is one step (see StateTx).                *)
(*                                                                         *)
(* Quota fractions are abstracted to which windows are known; removal of   *)
(* the account is left out (a probe then stores nothing).                  *)
(***************************************************************************)
EXTENDS Naturals, Sequences, FiniteSetsExt

CONSTANTS
    Probes,            \* goroutines that probe
    Scheduled,         \* those started by ScheduleQuotaRefresh
    Procs, ProcOf,     \* the process of each goroutine
    Windows,           \* the Gemini quota windows
    Delay,             \* cooldown in seconds of each restricted status
    RetryAfter,        \* possible cooldowns of a 429
    Backoff,           \* config.QuotaRefreshBackoff
    MaxTime, MaxCred,  \* bounds on the clock and on credential changes
    NoTime             \* nil

Restricted == {"validation_required", "auth_error"}

ASSUME ProbeAssumption ==
    /\ Scheduled \subseteq Probes
    /\ ProcOf \in [Probes -> Procs]
    /\ Delay \in [Restricted -> Nat]
    /\ RetryAfter \subseteq Nat
    /\ Backoff \in Seq(Nat) /\ Backoff # <<>>
    /\ \A i \in DOMAIN Backoff : Backoff[1] <= Backoff[i]
    /\ MaxTime \in Nat \ {0} /\ MaxCred \in Nat
    /\ NoTime \notin Nat

VARIABLES
    now,        \* the clock, in seconds
    stored,     \* the account in state.db
    pc,         \* where each probe is
    account,    \* the probe's copy of the account
    answer,     \* what upstream answered: windows, a restricted status, failed
    inFlight,   \* refreshInFlight of each process
    retry,      \* refreshRetry of each process
    \* history
    failedAt    \* when a process's last background probe failed

flight == <<inFlight, retry, failedAt>>
vars == <<now, stored, pc, account, answer, flight>>

Time == 1 .. MaxTime
OptTime == Nat \cup {NoTime}
AccountState == [cred : 0 .. MaxCred, status : {""} \cup Restricted, until : OptTime,
                 known : SUBSET Windows]
PC == {"idle", "load", "token", "query", "persist", "settle", "clear"}
Answer == [kind : {"none", "failed", "quota"} \cup Restricted, windows : SUBSET Windows]
RetryEntry == [attempt : 0 .. Len(Backoff), nextAt : Nat]

\* The type invariant of the probes.
TypeOK ==
    /\ now \in Time
    /\ stored \in AccountState
    /\ pc \in [Probes -> PC]
    /\ account \in [Probes -> AccountState]
    /\ answer \in [Probes -> Answer]
    /\ inFlight \in [Procs -> BOOLEAN]
    /\ retry \in [Procs -> RetryEntry]
    /\ failedAt \in [Procs -> 0 .. MaxTime]

NewAccount == [cred |-> 0, status |-> "", until |-> NoTime, known |-> {}]
NoAnswer == [kind |-> "none", windows |-> {}]
NoEntry == [attempt |-> 0, nextAt |-> 0]

Init ==
    /\ now = 1
    /\ stored = NewAccount
    /\ pc = [p \in Probes |-> "idle"]
    /\ account = [p \in Probes |-> NewAccount]
    /\ answer = [p \in Probes |-> NoAnswer]
    /\ inFlight = [x \in Procs |-> FALSE]
    /\ retry = [x \in Procs |-> NoEntry]
    /\ failedAt = [x \in Procs |-> 0]

Goto(p, l) == pc' = [pc EXCEPT ![p] = l]

---------------------------------------------------------------------------
(* Starting a probe.                                                       *)

\* Mutant: the in-flight flag is not looked at.
ScheduleTwice(p) ==
    /\ p \in Scheduled /\ pc[p] = "idle"
    /\ retry[ProcOf[p]].nextAt <= now
    /\ inFlight' = [inFlight EXCEPT ![ProcOf[p]] = TRUE]
    /\ Goto(p, "load")
    /\ UNCHANGED <<now, stored, account, answer, retry, failedAt>>

\* ScheduleQuotaRefresh starts a goroutine.
Schedule(p) ==
    /\ p \in Scheduled /\ pc[p] = "idle"
    /\ ~inFlight[ProcOf[p]]
    /\ retry[ProcOf[p]].nextAt <= now
    /\ inFlight' = [inFlight EXCEPT ![ProcOf[p]] = TRUE]
    /\ Goto(p, "load")
    /\ UNCHANGED <<now, stored, account, answer, retry, failedAt>>

\* A command probes the account of a pool it has loaded.
Call(p) ==
    /\ p \notin Scheduled /\ pc[p] = "idle"
    /\ account' = [account EXCEPT ![p] = stored]
    /\ Goto(p, "token")
    /\ UNCHANGED <<now, stored, answer, flight>>

\* The goroutine looks the account up again.
Load(p) ==
    /\ pc[p] = "load"
    /\ account' = [account EXCEPT ![p] = stored]
    /\ Goto(p, "token")
    /\ UNCHANGED <<now, stored, answer, flight>>

---------------------------------------------------------------------------
(* QueryQuotaContext.                                                      *)

\* The access token is used as it is, reloaded from state.db, or refreshed.
Token(p) ==
    /\ pc[p] = "token"
    /\ \/ UNCHANGED <<stored, account>>
       \/ account' = [account EXCEPT ![p].cred = stored.cred] /\ UNCHANGED stored
       \/ /\ stored.cred < MaxCred
          /\ stored' = [stored EXCEPT !.cred = @ + 1]
          /\ account' = [account EXCEPT ![p].cred = stored.cred + 1]
    /\ Goto(p, "query")
    /\ UNCHANGED <<now, answer, flight>>

\* Upstream answers with some of the windows, from the summary or from the
\* fallback, or with a restriction, which counts as both windows empty.
Query(p) ==
    /\ pc[p] = "query"
    /\ \E kind \in Restricted \cup {"quota"}, w \in SUBSET Windows \ {{}} :
        /\ kind \in Restricted => w = Windows
        /\ answer' = [answer EXCEPT ![p] = [kind |-> kind, windows |-> w]]
    /\ Goto(p, "persist")
    /\ UNCHANGED <<now, stored, account, flight>>

\* The account with the probe's quota data: the windows of the answer and those
\* its copy knew.
WithQuota(p) ==
    [stored EXCEPT !.known = account[p].known \cup answer[p].windows]

\* The restriction is lifted when the account still has the credentials and
\* the restriction of the copy, which are compared by value: a newer restriction
\* that ends in the same second is taken for the one that the copy has.
Lifted(p, s) ==
    IF /\ s.cred = account[p].cred
       /\ s.status = account[p].status
       /\ s.until = account[p].until
    THEN [s EXCEPT !.status = "", !.until = NoTime] ELSE s

\* finalizeAndPersistQuota.
PersistQuota(p) ==
    /\ pc[p] = "persist" /\ answer[p].kind = "quota"
    /\ stored' = Lifted(p, WithQuota(p))
    /\ Goto(p, "settle")
    /\ UNCHANGED <<now, account, answer, flight>>

\* A validation or authentication error is stored whatever has changed since.
PersistRestriction(p) ==
    /\ pc[p] = "persist" /\ answer[p].kind \in Restricted
    /\ stored' = [WithQuota(p) EXCEPT !.status = answer[p].kind,
                                     !.until = now + Delay[answer[p].kind]]
    /\ Goto(p, "settle")
    /\ UNCHANGED <<now, account, answer, flight>>

\* Mutant: an early return on an error skips the deferred bookkeeping.
FailSilently(p) ==
    /\ pc[p] \in {"load", "token", "query", "persist"}
    /\ Goto(p, "idle")
    /\ UNCHANGED <<now, stored, account, answer, flight>>

\* The pool cannot be read or written, the account is gone, the token cannot
\* be refreshed, or neither endpoint answers.
Fail(p) ==
    /\ pc[p] \in {"load", "token", "query", "persist"}
    /\ answer' = [answer EXCEPT ![p] = [NoAnswer EXCEPT !.kind = "failed"]]
    /\ failedAt' = IF p \in Scheduled THEN [failedAt EXCEPT ![ProcOf[p]] = now] ELSE failedAt
    /\ Goto(p, "settle")
    /\ UNCHANGED <<now, stored, account, inFlight, retry>>

---------------------------------------------------------------------------
(* The end of a probe.                                                     *)

NextBackoffDelay(attempt) ==
    IF attempt >= Len(Backoff) THEN Backoff[Len(Backoff)] ELSE Backoff[attempt + 1]

\* Mutant: the delay counts from the time the previous attempt was allowed.
FailedEntryFromPlan(e) ==
    [attempt |-> Min({e.attempt + 1, Len(Backoff)}), nextAt |-> e.nextAt + NextBackoffDelay(e.attempt)]

\* The attempt counter is capped where the delay no longer depends on it.
FailedEntry(e) ==
    [attempt |-> Min({e.attempt + 1, Len(Backoff)}), nextAt |-> now + NextBackoffDelay(e.attempt)]

\* A background probe updates refreshRetry; a command just returns.
Settle(p) ==
    /\ pc[p] = "settle"
    /\ IF p \in Scheduled
       THEN /\ retry' = [retry EXCEPT ![ProcOf[p]] =
                            IF answer[p].kind = "failed" THEN FailedEntry(@) ELSE NoEntry]
            /\ Goto(p, "clear")
       ELSE Goto(p, "idle") /\ UNCHANGED retry
    /\ answer' = [answer EXCEPT ![p] = NoAnswer]
    /\ account' = [account EXCEPT ![p] = NewAccount]
    /\ UNCHANGED <<now, stored, inFlight, failedAt>>

\* The deferred delete from refreshInFlight.
Clear(p) ==
    /\ pc[p] = "clear"
    /\ inFlight' = [inFlight EXCEPT ![ProcOf[p]] = FALSE]
    /\ Goto(p, "idle")
    /\ UNCHANGED <<now, stored, account, answer, retry, failedAt>>

---------------------------------------------------------------------------
(* What happens to the account meanwhile.                                  *)

\* The proxy's RecordQuotaError.
RecordQuotaError(delay) ==
    /\ stored' = [stored EXCEPT !.until = now + delay]
    /\ UNCHANGED <<now, pc, account, answer, flight>>

\* The proxy's RecordValidationError and RecordAuthError.
RecordRestriction(status) ==
    /\ stored' = [stored EXCEPT !.status = status, !.until = now + Delay[status]]
    /\ UNCHANGED <<now, pc, account, answer, flight>>

\* The user logs in again.
Login ==
    /\ stored.cred < MaxCred
    /\ stored' = [stored EXCEPT !.cred = @ + 1, !.status = "", !.until = NoTime]
    /\ UNCHANGED <<now, pc, account, answer, flight>>

Tick ==
    /\ now < MaxTime
    /\ now' = now + 1
    /\ UNCHANGED <<stored, pc, account, answer, flight>>

---------------------------------------------------------------------------

\* The steps of a probe that has started.
Run(p) ==
    \/ Load(p) \/ Token(p) \/ Query(p) \/ PersistQuota(p) \/ PersistRestriction(p)
    \/ Fail(p) \/ Settle(p) \/ Clear(p)

Next ==
    \/ \E p \in Probes : Schedule(p) \/ Call(p) \/ Run(p)
    \/ \E d \in RetryAfter : RecordQuotaError(d)
    \/ \E s \in Restricted : RecordRestriction(s)
    \/ Login \/ Tick

Spec == Init /\ [][Next]_vars

\* A probe that has started keeps running: the HTTP client times out after 10 s.
FairSpec == Spec /\ \A p \in Probes : WF_vars(Run(p))

---------------------------------------------------------------------------
(* Properties.                                                             *)

Active(p) == pc[p] # "idle"

\* At most one background probe of the account runs in a process, even while
\* one is finishing (MIGRATION_CONTRACT 12, single-flight).
SingleFlight ==
    \A p, q \in Scheduled : Active(p) /\ Active(q) /\ ProcOf[p] = ProcOf[q] => p = q

\* After a failed background probe its process starts no other before the
\* first backoff interval is over, counted from the failure itself.
BackoffRespected ==
    [][\A p \in Scheduled :
        LET f == failedAt[ProcOf[p]] IN
        ~Active(p) /\ Active(p)' /\ f # 0 /\ retry[ProcOf[p]] # NoEntry
            => now >= f + Backoff[1]]_vars

\* A probe never erases a window that is known ("Preserve Known Cached Windows",
\* MIGRATION_CONTRACT 11.4).
KnownWindowsKept ==
    [][\A p \in Probes : PersistQuota(p) => stored.known \subseteq stored'.known]_vars

\* A background probe that has started ends, and the account can be probed
\* again.
ProbesEnd == \A x \in Procs : inFlight[x] ~> ~inFlight[x]

=============================================================================
