----------------------------- MODULE NativeSync -----------------------------
(***************************************************************************)
(* The native agy token file beside state.db: SyncActiveAgyTokenFile,      *)
(* SwitchAccount and RemoveAccount hold the token file's lock while they   *)
(* change both stores, one after the other, with a rollback of the file    *)
(* when the transaction fails.  The proxy's promotion, its token refreshes *)
(* and the transaction of a login change state.db without that lock, and   *)
(* an operation's process may die between the two stores.                  *)
(*                                                                         *)
(* Credentials are abstracted to an account and a version.                 *)
(***************************************************************************)
EXTENDS Naturals, Sequences, SequencesExt

CONSTANTS
    Accounts,     \* accounts that may be in the pool
    Ops,          \* calls of the three operations
    Kind,         \* which operation each call is
    MaxCred,      \* bound on the credential changes of an account
    NoAccount,    \* no active account, or no token file
    NoOp          \* nobody holds the lock

ASSUME SyncAssumption ==
    /\ Kind \in [Ops -> {"sync", "switch", "remove"}]
    /\ IsFiniteSet(Accounts) /\ NoAccount \notin Accounts
    /\ NoOp \notin Ops /\ MaxCred \in Nat

VARIABLES
    pool,         \* pool.Accounts
    active,       \* pool.ActiveAccountID
    cred,         \* version of each account's credentials in state.db
    file,         \* the credentials in the native token file
    lock,         \* holder of the token file's lock
    pc,           \* where each operation is
    attempt,      \* the loop counter of SyncActiveAgyTokenFile
    chosen,       \* the credentials it is about to write
    target,       \* the account to be removed
    previous,     \* the credentials to restore
    \* history, for the holder of the lock
    owner,        \* whose the token file was when it read state.db
    base,         \* the active account when it read state.db
    quiet         \* nobody has written state.db without the lock since then

local == <<attempt, chosen, target, previous>>
history == <<owner, base, quiet>>
vars == <<pool, active, cred, file, lock, pc, local, history>>

MaxAttempts == 3
Credentials == [acct : Accounts \cup {NoAccount}, ver : 0 .. MaxCred]
None == [acct |-> NoAccount, ver |-> 0]
PC == {"start", "read", "refresh", "recheck", "write", "commit", "rollback",
       "release_ok", "release_error", "release_unrestored", "ok", "error", "crashed"}
Final == {"ok", "error", "crashed"}

\* The type invariant of the token file's synchronisation.
TypeOK ==
    /\ pool \in Seq(Accounts) /\ IsInjective(pool)
    /\ active \in Accounts \cup {NoAccount}
    /\ cred \in [Accounts -> 0 .. MaxCred]
    /\ file \in Credentials
    /\ lock \in Ops \cup {NoOp}
    /\ pc \in [Ops -> PC]
    /\ attempt \in [Ops -> 0 .. MaxAttempts]
    /\ chosen \in [Ops -> Credentials] /\ previous \in [Ops -> Credentials]
    /\ target \in [Ops -> Accounts \cup {NoAccount}]
    /\ owner \in Accounts \cup {NoAccount} /\ base \in Accounts \cup {NoAccount}
    /\ quiet \in BOOLEAN

Members == ToSet(pool)

Init ==
    /\ pool \in SetToAllKPermutations(Accounts)
    /\ active \in Members \cup {NoAccount}
    /\ cred = [a \in Accounts |-> 0]
    /\ file \in {None} \cup {[acct |-> a, ver |-> 0] : a \in Members}
    /\ lock = NoOp
    /\ pc = [o \in Ops |-> "start"]
    /\ attempt = [o \in Ops |-> 0]
    /\ chosen = [o \in Ops |-> None]
    /\ previous = [o \in Ops |-> None]
    /\ target = [o \in Ops |-> NoAccount]
    /\ owner = NoAccount /\ base = NoAccount
    /\ quiet = FALSE

Goto(o, l) == pc' = [pc EXCEPT ![o] = l]

\* An account as an operation has read it from state.db.
Copy(a) == IF a = NoAccount THEN None ELSE [acct |-> a, ver |-> cred[a]]

\* The token file belongs to the active account, whatever its version.
SameIdentity == active # NoAccount => file.acct = active

\* It did when the holder of the lock read state.db.
Agreed == base # NoAccount => owner = base

\* The token file holds the active account's credentials.
Agree == active # NoAccount => file = Copy(active)

---------------------------------------------------------------------------

\* The lock taken by nobody's leave.
LockUnguarded(o) ==
    /\ pc[o] = "start"
    /\ lock' = o
    /\ Goto(o, "read")
    /\ UNCHANGED <<pool, active, cred, file, local, history>>

\* WithFileLock on the token file's lock file.
Lock(o) ==
    /\ pc[o] = "start" /\ lock = NoOp
    /\ lock' = o
    /\ Goto(o, "read")
    /\ UNCHANGED <<pool, active, cred, file, local, history>>

Observe == owner' = file.acct /\ base' = active /\ quiet' = TRUE

\* Loading the pool fails, or there is no such account.
ReadFails(o) ==
    /\ pc[o] = "read"
    /\ Observe
    /\ Goto(o, "release_error")
    /\ UNCHANGED <<pool, active, cred, file, lock, local>>

\* SyncActiveAgyTokenFile reads the active account; without one there is
\* nothing to synchronise.
ReadActive(o) ==
    /\ Kind[o] = "sync" /\ pc[o] = "read"
    /\ Observe
    /\ IF active \in Members
       THEN chosen' = [chosen EXCEPT ![o] = Copy(active)] /\ Goto(o, "refresh")
       ELSE Goto(o, "release_ok") /\ UNCHANGED chosen
    /\ UNCHANGED <<pool, active, cred, file, lock, attempt, target, previous>>

\* SwitchAccount selects an account, named by the user or the best by quota.
ReadSelected(o) ==
    /\ Kind[o] = "switch" /\ pc[o] = "read"
    /\ \E a \in Members : chosen' = [chosen EXCEPT ![o] = Copy(a)]
    /\ previous' = [previous EXCEPT ![o] = IF active \in Members THEN Copy(active) ELSE None]
    /\ Observe
    /\ Goto(o, "refresh")
    /\ UNCHANGED <<pool, active, cred, file, lock, attempt, target>>

\* The first account but a.  Identifiers are unique, so that the code's filter
\* removes at most one entry.
Replacement(s, a) ==
    LET rest == RemoveFirst(s, a) IN IF rest = <<>> THEN NoAccount ELSE Head(rest)

\* RemoveAccount looks for a replacement when the account is the active one.
ReadTarget(o) ==
    /\ Kind[o] = "remove" /\ pc[o] = "read"
    /\ Observe
    /\ \E a \in Members :
        /\ target' = [target EXCEPT ![o] = a]
        /\ IF active = a /\ Replacement(pool, a) # NoAccount
           THEN /\ chosen' = [chosen EXCEPT ![o] = Copy(Replacement(pool, a))]
                /\ previous' = [previous EXCEPT ![o] = Copy(a)]
                /\ Goto(o, "refresh")
           ELSE /\ Goto(o, "commit")
                /\ UNCHANGED <<chosen, previous>>
    /\ UNCHANGED <<pool, active, cred, file, lock, attempt>>

\* The credentials with which tokenRefresher returns.
Renewals(c) ==
    {c, Copy(c.acct)} \cup {[acct |-> c.acct, ver |-> v] : v \in {cred[c.acct] + 1} \cap (0 .. MaxCred)}

\* tokenRefresher: the copy is still valid, is brought up to date, or gets a
\* new access token, which is stored.
Refresh(o) ==
    /\ pc[o] = "refresh"
    /\ \E c \in Renewals(chosen[o]) :
        /\ chosen' = [chosen EXCEPT ![o] = c]
        /\ cred' = [cred EXCEPT ![c.acct] = IF c.ver > @ THEN c.ver ELSE @]
    /\ Goto(o, IF Kind[o] = "sync" THEN "recheck" ELSE "write")
    /\ UNCHANGED <<pool, active, file, lock, attempt, target, previous, history>>

\* The refresh fails, or writing the file does: it is left as it was.
SyncFails(o) ==
    /\ pc[o] \in {"refresh", "recheck", "write"}
    /\ Goto(o, "release_error")
    /\ UNCHANGED <<pool, active, cred, file, lock, local, history>>

\* Attempts are not counted.
RecheckForever(o) ==
    /\ pc[o] = "recheck"
    /\ Goto(o, IF active = chosen[o].acct THEN "write" ELSE "read")
    /\ UNCHANGED <<pool, active, cred, file, lock, local, history>>

\* SyncActiveAgyTokenFile looks at the active account again, three times at most.
Recheck(o) ==
    /\ pc[o] = "recheck"
    /\ attempt' = [attempt EXCEPT ![o] = @ + 1]
    /\ Goto(o, IF active = chosen[o].acct THEN "write"
               ELSE IF attempt[o] + 1 < MaxAttempts THEN "read" ELSE "release_error")
    /\ UNCHANGED <<pool, active, cred, file, lock, chosen, target, previous, history>>

\* AtomicJSONWrite replaces the token file.
Write(o) ==
    /\ pc[o] = "write"
    /\ file' = chosen[o]
    /\ Goto(o, IF Kind[o] = "sync" THEN "release_ok" ELSE "commit")
    /\ UNCHANGED <<pool, active, cred, lock, local, history>>

\* The transaction of SwitchAccount.
CommitSwitch(o) ==
    /\ Kind[o] = "switch" /\ pc[o] = "commit"
    /\ chosen[o].acct \in Members
    /\ active' = chosen[o].acct
    /\ Goto(o, "release_ok")
    /\ UNCHANGED <<pool, cred, file, lock, local, history>>

\* The transaction of RemoveAccount.
CommitRemove(o) ==
    /\ Kind[o] = "remove" /\ pc[o] = "commit"
    /\ target[o] \in Members
    /\ pool' = RemoveFirst(pool, target[o])
    /\ active' = IF active = target[o] THEN Replacement(pool, target[o]) ELSE active
    /\ Goto(o, "release_ok")
    /\ UNCHANGED <<cred, file, lock, local, history>>

\* No rollback.
CommitFailsSilently(o) ==
    /\ pc[o] = "commit"
    /\ Goto(o, "release_error")
    /\ UNCHANGED <<pool, active, cred, file, lock, local, history>>

\* The transaction fails: if the file was written and there is something to
\* restore, a rollback follows.
CommitFails(o) ==
    /\ pc[o] = "commit"
    /\ Goto(o, IF previous[o] = None THEN "release_error" ELSE "rollback")
    /\ UNCHANGED <<pool, active, cred, file, lock, local, history>>

\* syncAccountToAgy(previous).
Rollback(o) ==
    /\ pc[o] = "rollback"
    /\ \E c \in Renewals(previous[o]) :
        /\ file' = c
        /\ cred' = [cred EXCEPT ![c.acct] = IF c.ver > @ THEN c.ver ELSE @]
    /\ Goto(o, "release_error")
    /\ UNCHANGED <<pool, active, lock, local, history>>

\* The rollback fails too, and the error says so.
RollbackFails(o) ==
    /\ pc[o] = "rollback"
    /\ Goto(o, "release_unrestored")
    /\ UNCHANGED <<pool, active, cred, file, lock, local, history>>

\* The lock is free again and the operation's variables are gone.
Leave(o, l) ==
    /\ lock' = NoOp
    /\ Goto(o, l)
    /\ attempt' = [attempt EXCEPT ![o] = 0]
    /\ chosen' = [chosen EXCEPT ![o] = None]
    /\ previous' = [previous EXCEPT ![o] = None]
    /\ target' = [target EXCEPT ![o] = NoAccount]
    /\ owner' = NoAccount /\ base' = NoAccount /\ quiet' = FALSE
    /\ UNCHANGED <<pool, active, cred, file>>

\* WithFileLock unlocks by a deferred call, whatever the operation returns.
Release(o) ==
    /\ pc[o] \in {"release_ok", "release_error", "release_unrestored"}
    /\ Leave(o, IF pc[o] = "release_ok" THEN "ok" ELSE "error")

---------------------------------------------------------------------------
(* What happens without the lock.                                          *)

\* RecordSuccess promotes the account of a successful request.
Promote(a) ==
    /\ a \in Members /\ a # active
    /\ active' = a
    /\ quiet' = FALSE
    /\ UNCHANGED <<pool, cred, file, lock, pc, local, owner, base>>

\* The proxy or a probe refreshes an account's token.
RefreshElsewhere(a) ==
    /\ a \in Members /\ cred[a] < MaxCred
    /\ cred' = [cred EXCEPT ![a] = @ + 1]
    /\ quiet' = FALSE
    /\ UNCHANGED <<pool, active, file, lock, pc, local, owner, base>>

\* The transaction of a login; the synchronisation that follows it is an
\* operation of its own.
Login(a) ==
    /\ cred[a] < MaxCred
    /\ cred' = [cred EXCEPT ![a] = @ + 1]
    /\ pool' = IF a \in Members THEN pool ELSE Append(pool, a)
    /\ active' = IF a \notin Members /\ active = NoAccount THEN a ELSE active
    /\ quiet' = FALSE
    /\ UNCHANGED <<file, lock, pc, local, owner, base>>

\* An operation's process dies; the kernel drops the lock.
Crash(o) ==
    /\ pc[o] \notin Final \cup {"start"}
    /\ Leave(o, "crashed")

---------------------------------------------------------------------------

Step(o) ==
    \/ Lock(o) \/ ReadFails(o) \/ ReadActive(o) \/ ReadSelected(o) \/ ReadTarget(o)
    \/ Refresh(o) \/ SyncFails(o) \/ Recheck(o) \/ Write(o)
    \/ CommitSwitch(o) \/ CommitRemove(o) \/ CommitFails(o)
    \/ Rollback(o) \/ RollbackFails(o) \/ Release(o)

Next ==
    \/ \E o \in Ops : Step(o) \/ Crash(o)
    \/ \E a \in Accounts : Promote(a) \/ RefreshElsewhere(a) \/ Login(a)

Spec == Init /\ [][Next]_vars

\* An operation keeps going; the lock is granted to some waiter, and there are
\* finitely many.
FairSpec == Spec /\ \A o \in Ops : WF_vars(Step(o))

---------------------------------------------------------------------------
(* Properties.                                                             *)

\* The active account is in the pool, although operations choose it from a pool
\* they read before their transaction.
ActiveIsMember == active \in Members \cup {NoAccount}

\* An operation that succeeded, with no unlocked write since it read the pool,
\* leaves the active account's credentials in the token file: a sync and a
\* switch whatever was there before (so they repair a crash), a removal if the
\* file belonged to the active account and another account remains.
SuccessAgrees ==
    \A o \in Ops : pc[o] = "release_ok" /\ quiet =>
        CASE Kind[o] # "remove" -> Agree
          [] Kind[o] = "remove" -> Agreed \/ chosen[o] # None => SameIdentity

\* The token file belongs to whom it belonged when the operation read state.db,
\* or a rollback has given it to the account that was active then.
Restored == file.acct = owner \/ (base # NoAccount /\ file.acct = base)

\* "Account changes use a shared lock and attempt rollback on reported errors"
\* (README.md 193): an operation about to report an error, other than that its
\* rollback failed, has restored the identity in the token file.  A switch with
\* nobody active does not.
ErrorsRestoreIdentity == \A o \in Ops : pc[o] = "release_error" => Restored

\* What holds of a reported error, whatever is promoted, refreshed or logged in
\* beside the operation: the identity is restored, except by a switch with
\* nobody active, whose transaction failed after it had written the file.
FailureRestores ==
    \A o \in Ops : pc[o] = "release_error" =>
        \/ Restored
        \/ Kind[o] = "switch" /\ base = NoAccount /\ file = chosen[o]

\* Every call ends, the ones that wait for the lock included: it is released on
\* every path, by the kernel when the process dies, and a sync whose account
\* keeps changing under it gives up.
EveryOperationEnds == <>(\A o \in Ops : pc[o] \in Final)

=============================================================================
