---------------------------- MODULE TokenRefresh ----------------------------
(***************************************************************************)
(* auth.RefreshToken for one account: goroutines of several processes hold *)
(* copies of the account, serialise on the account's lock file, look again *)
(* at state.db, and refresh the access token at Google if they still must. *)
(* Meanwhile the user logs in again or imports the native credentials, and *)
(* processes die.  A pool transaction is one step (see StateTx).           *)
(*                                                                         *)
(* Tokens are numbers; `grant' tells which login a credential stems from.  *)
(* The clock appears only as the set of access tokens with more than two   *)
(* minutes left.                                                           *)
(***************************************************************************)
EXTENDS Naturals, FiniteSets

CONSTANTS
    Callers,      \* calls of RefreshToken
    MaxToken,     \* bound on the tokens Google issues
    NoCaller      \* nobody holds the lock file

ASSUME RefreshAssumption == NoCaller \notin Callers /\ MaxToken \in Nat

VARIABLES
    stored,       \* the account's credentials in state.db
    refreshLock,  \* holder of the refresh lock file
    phase,        \* where each caller is
    account,      \* each caller's copy of the credentials
    reply,        \* the credentials Google has answered with
    \* Google
    issued,       \* number of the last token issued
    live,         \* access tokens with more than two minutes left
    usable,       \* refresh tokens that Google accepts
    \* history
    login,        \* the grant of the last login
    held,         \* access tokens that state.db has held
    posts,        \* refreshes sent on behalf of each access token
    failures,     \* refreshes of each access token that ended in an error
    lost          \* refresh tokens rotated away in a refresh that was not stored

google == <<issued, live, usable>>
tokenHistory == <<login, held, posts, failures, lost>>
tokenVars == <<stored, refreshLock, phase, account, reply, google, tokenHistory>>

Token == 0 .. MaxToken
AccountTokens == [access : Token, refresh : Token, timed : BOOLEAN, grant : Token]
Phases == {"start", "call", "check", "post", "persist", "unlock_ok", "unlock_error",
           "ok", "error", "crashed"}
Returned == {"ok", "error", "crashed"}

\* The type invariant of the refresh.
TokenTypeOK ==
    /\ stored \in AccountTokens
    /\ refreshLock \in Callers \cup {NoCaller}
    /\ phase \in [Callers -> Phases]
    /\ account \in [Callers -> AccountTokens]
    /\ reply \in [Callers -> AccountTokens]
    /\ issued \in Token /\ live \subseteq Token /\ usable \subseteq Token
    /\ login \in Token /\ held \subseteq Token /\ lost \subseteq Token
    /\ posts \in [Token -> Nat] /\ failures \in [Token -> Nat]

FirstLogin == [access |-> 0, refresh |-> 0, timed |-> TRUE, grant |-> 0]

TokenInit ==
    /\ stored = FirstLogin
    /\ refreshLock = NoCaller
    /\ phase = [t \in Callers |-> "start"]
    /\ account = [t \in Callers |-> FirstLogin]
    /\ reply = [t \in Callers |-> FirstLogin]
    /\ issued = 0 /\ live = {0} /\ usable = {0}
    /\ login = 0 /\ held = {0} /\ lost = {}
    /\ posts = [a \in Token |-> 0]
    /\ failures = [a \in Token |-> 0]

\* The expiry is known and more than 120 s away.
Valid(c) == c.timed /\ c.access \in live

Enter(t, l) == phase' = [phase EXCEPT ![t] = l]

---------------------------------------------------------------------------
(* RefreshToken.                                                           *)

\* A caller has read the account from the pool.
Read(t) ==
    /\ phase[t] = "start"
    /\ account' = [account EXCEPT ![t] = stored]
    /\ Enter(t, "call")
    /\ UNCHANGED <<stored, refreshLock, reply, google, tokenHistory>>

UseCopy(t) ==
    /\ phase[t] = "call" /\ Valid(account[t])
    /\ Enter(t, "ok")
    /\ UNCHANGED <<stored, refreshLock, account, reply, google, tokenHistory>>

\* WithFileLock on the account's lock file.
Acquire(t) ==
    /\ phase[t] = "call" /\ ~Valid(account[t])
    /\ refreshLock = NoCaller
    /\ refreshLock' = t
    /\ Enter(t, "check")
    /\ UNCHANGED <<stored, account, reply, google, tokenHistory>>

\* Mutant: the account is not looked at again under the lock.
NoRecheck(t) ==
    /\ phase[t] = "check"
    /\ Enter(t, "post")
    /\ UNCHANGED <<stored, refreshLock, account, reply, google, tokenHistory>>

\* Another caller may have refreshed while this one waited.
LookAgain(t) ==
    /\ phase[t] = "check"
    /\ account' = [account EXCEPT ![t] = stored]
    /\ Enter(t, IF Valid(stored) THEN "unlock_ok" ELSE "post")
    /\ UNCHANGED <<stored, refreshLock, reply, google, tokenHistory>>

\* Google issues a new access token and keeps or rotates the refresh token.
Issue(t, rotate) ==
    /\ account[t].refresh \in usable
    /\ issued < MaxToken
    /\ issued' = issued + 1
    /\ live' = live \cup {issued + 1}
    /\ usable' = IF rotate THEN (usable \ {account[t].refresh}) \cup {issued + 1} ELSE usable
    /\ reply' = [reply EXCEPT ![t] =
            [access |-> issued + 1, timed |-> TRUE, grant |-> account[t].grant,
             refresh |-> IF rotate THEN issued + 1 ELSE account[t].refresh]]

\* The token endpoint answers.
Post(t) ==
    /\ phase[t] = "post"
    /\ \E rotate \in BOOLEAN : Issue(t, rotate)
    /\ posts' = [posts EXCEPT ![account[t].access] = @ + 1]
    /\ Enter(t, "persist")
    /\ UNCHANGED <<stored, refreshLock, account, login, held, failures, lost>>

Failed(t) == failures' = [failures EXCEPT ![account[t].access] = @ + 1]

\* The answer is an error, or is lost although Google has issued the token.
PostFails(t) ==
    /\ phase[t] = "post"
    /\ \/ UNCHANGED <<google, reply, lost>>
       \/ \E rotate \in BOOLEAN :
            /\ Issue(t, rotate)
            /\ lost' = IF rotate THEN lost \cup {account[t].refresh} ELSE lost
    /\ posts' = [posts EXCEPT ![account[t].access] = @ + 1]
    /\ Failed(t)
    /\ Enter(t, "unlock_error")
    /\ UNCHANGED <<stored, refreshLock, account, login, held>>

\* Reading the pool, before anything is sent, or the account is gone.
CheckFails(t) ==
    /\ phase[t] = "check"
    /\ Enter(t, "unlock_error")
    /\ UNCHANGED <<stored, refreshLock, account, reply, google, tokenHistory>>

\* Mutant: the credentials in state.db are not compared.
NotCompared(t) == TRUE

\* state.db still holds the credentials that were refreshed.
StillCurrent(t) ==
    /\ stored.refresh = account[t].refresh
    /\ stored.access = account[t].access

\* Mutant: a rotated refresh token is not stored.
StoreKeepsRefresh(t) ==
    /\ phase[t] = "persist" /\ StillCurrent(t)
    /\ stored' = [reply[t] EXCEPT !.refresh = stored.refresh]
    /\ account' = [account EXCEPT ![t] = reply[t]]
    /\ held' = held \cup {reply[t].access}
    /\ Enter(t, "unlock_ok")
    /\ UNCHANGED <<refreshLock, reply, google, login, posts, failures, lost>>

\* The transaction replaces the credentials.
Store(t) ==
    /\ phase[t] = "persist" /\ StillCurrent(t)
    /\ stored' = reply[t]
    /\ account' = [account EXCEPT ![t] = reply[t]]
    /\ held' = held \cup {reply[t].access}
    /\ Enter(t, "unlock_ok")
    /\ UNCHANGED <<refreshLock, reply, google, login, posts, failures, lost>>

\* The refresh token that Google no longer accepts when reply[t] is dropped.
Dropped(t) == IF reply[t].refresh = account[t].refresh THEN {} ELSE {account[t].refresh}

\* Mutant: the token is used although it could not be stored.
UseUnstored(t) ==
    /\ phase[t] = "persist"
    /\ lost' = lost \cup Dropped(t)
    /\ Failed(t)
    /\ account' = [account EXCEPT ![t] = reply[t]]
    /\ Enter(t, "unlock_ok")
    /\ UNCHANGED <<stored, refreshLock, reply, google, login, held, posts>>

\* The transaction fails, or finds other credentials: the new token is dropped.
StoreFails(t) ==
    /\ phase[t] = "persist"
    /\ lost' = lost \cup Dropped(t)
    /\ Failed(t)
    /\ Enter(t, "unlock_error")
    /\ UNCHANGED <<stored, refreshLock, account, reply, google, login, held, posts>>

\* Mutant: the lock file is not unlocked on an error.
UnlockOnSuccess(t) ==
    /\ phase[t] \in {"unlock_ok", "unlock_error"}
    /\ refreshLock' = IF phase[t] = "unlock_ok" THEN NoCaller ELSE refreshLock
    /\ Enter(t, IF phase[t] = "unlock_ok" THEN "ok" ELSE "error")
    /\ UNCHANGED <<stored, account, reply, google, tokenHistory>>

Unlock(t) ==
    /\ phase[t] \in {"unlock_ok", "unlock_error"}
    /\ refreshLock' = NoCaller
    /\ Enter(t, IF phase[t] = "unlock_ok" THEN "ok" ELSE "error")
    /\ UNCHANGED <<stored, account, reply, google, tokenHistory>>

---------------------------------------------------------------------------
(* The environment.                                                        *)

\* A caller's process dies; the kernel drops its lock.
Die(t) ==
    /\ phase[t] \notin Returned
    /\ refreshLock' = IF refreshLock = t THEN NoCaller ELSE refreshLock
    /\ IF phase[t] = "persist"
       THEN Failed(t) /\ lost' = lost \cup Dropped(t)
       ELSE UNCHANGED <<failures, lost>>
    /\ Enter(t, "crashed")
    /\ UNCHANGED <<stored, account, reply, google, login, held, posts>>

Expire(a) ==
    /\ a \in live
    /\ live' = live \ {a}
    /\ UNCHANGED <<stored, refreshLock, phase, account, reply, issued, usable, tokenHistory>>

\* The transaction of accounts.Login with a new grant.
LoginAgain ==
    /\ issued < MaxToken
    /\ issued' = issued + 1
    /\ live' = live \cup {issued + 1}
    /\ usable' = usable \cup {issued + 1}
    /\ stored' = [access |-> issued + 1, refresh |-> issued + 1, timed |-> TRUE,
                    grant |-> issued + 1]
    /\ login' = issued + 1
    /\ held' = held \cup {issued + 1}
    /\ UNCHANGED <<refreshLock, phase, account, reply, posts, failures, lost>>

\* The transaction of accounts.ImportCurrent: native agy has refreshed its own
\* access token with the same refresh token.  The expiry is not imported.
ImportCurrent ==
    /\ issued < MaxToken
    /\ stored.refresh \in usable
    /\ issued' = issued + 1
    /\ live' = live \cup {issued + 1}
    /\ stored' = [stored EXCEPT !.access = issued + 1, !.timed = FALSE]
    /\ held' = held \cup {issued + 1}
    /\ UNCHANGED <<refreshLock, phase, account, reply, usable, login, posts, failures, lost>>

---------------------------------------------------------------------------

RefreshToken(t) ==
    \/ Read(t) \/ UseCopy(t) \/ Acquire(t) \/ LookAgain(t) \/ CheckFails(t)
    \/ Post(t) \/ PostFails(t) \/ Store(t) \/ StoreFails(t) \/ Unlock(t)

TokenNext ==
    \/ \E t \in Callers : RefreshToken(t) \/ Die(t)
    \/ \E a \in Token : Expire(a)
    \/ LoginAgain \/ ImportCurrent

TokenSpec == TokenInit /\ [][TokenNext]_tokenVars

\* A caller keeps going: Google answers or the HTTP client times out.  The lock
\* file is granted to some waiter, and there are finitely many.
FairTokenSpec == TokenSpec /\ \A t \in Callers : WF_tokenVars(RefreshToken(t))

---------------------------------------------------------------------------
(* Properties.                                                             *)

\* A refresh never brings back credentials from before the user's last login.
LatestLoginWins == stored.grant = login

\* However many callers find the same token expired, Google is asked again only
\* after an attempt failed (MIGRATION_CONTRACT 8: "without calling Google").
NoHerd == \A a \in Token : posts[a] <= failures[a] + 1

\* A caller is handed no token that state.db has not held, so that the next
\* caller would not find it.
HandsOutHeldTokens ==
    \A t \in Callers : phase[t] \in {"unlock_ok", "ok"} => account[t].access \in held

\* The stored refresh token works, or its successor is about to be stored, unless
\* a refresh that rotated it could not be stored: ordinary interleavings never
\* cost the user a new login.
UsableUnlessLost ==
    \/ stored.refresh \in usable \cup lost
    \/ \E t \in Callers : phase[t] = "persist" /\ account[t].refresh = stored.refresh

\* Every call returns; one that has returned stays so.
EveryCallReturns == <>(\A t \in Callers : phase[t] \in Returned)

=============================================================================
