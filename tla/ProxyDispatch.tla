--------------------------- MODULE ProxyDispatch ---------------------------
(***************************************************************************)
(* The proxy's request path: Handler.HandleProxy, dispatchAccount, the     *)
(* response committer and the bookkeeping transactions of failover.go.     *)
(* Several requests run concurrently (one goroutine each) over one pool.   *)
(*                                                                         *)
(* A pool transaction is one atomic step (StateTx shows that the storage   *)
(* layer makes it so).  The scheduler's ranking inside a tier and the      *)
(* cached quota telemetry are arbitrary here.  The clock appears only as   *)
(* "rate_limited_until is in the future", the set cooling.                 *)
(***************************************************************************)
EXTENDS Naturals, Sequences, FiniteSets

CONSTANTS
    Requests,      \* client requests the daemon serves
    Accounts,      \* every account that may ever be in the pool
    NoAccount      \* pool.ActiveAccountID = nil

ASSUME NoAccountAssumption == NoAccount \notin Accounts
ASSUME Finiteness == IsFiniteSet(Accounts) /\ IsFiniteSet(Requests)

VARIABLES
    \* state.db
    members,       \* accounts in the pool
    active,        \* active_account_id
    restricted,    \* accounts with status validation_required or auth_error
    cooling,       \* accounts with rate_limited_until in the future
    genCount,      \* gen_count of each account
    \* one goroutine per request
    pc,            \* where HandleProxy is
    gen,           \* isGeneration
    cand,          \* candidates not tried yet, in order
    cur,           \* the account of the current dispatch
    commit,        \* ResponseCommitter.state
    heads,         \* number of response heads written downstream
    reply,         \* what the client was answered
    gone,          \* the client has disconnected (r.Context() is cancelled)
    \* the upstream service
    up,            \* what became of the request's last upstream call
    charged        \* accounts on which upstream executed the request

poolVars == <<members, active, restricted, cooling, genCount>>
reqVars  == <<pc, gen, cand, cur, commit, heads, reply, gone>>
upVars   == <<up, charged>>
vars     == <<poolVars, reqVars, upVars>>

PC == {"idle", "reserve", "next", "token", "send", "wait", "stream", "done"}
CommitState == {"NotCommitted", "HeadersCommitted", "BodyCommitted", "StreamCommitted"}
Reply == {"none", "bad_request", "no_accounts", "exhausted", "gateway_error",
          "upstream_error", "success", "truncated", "empty_ok"}
UpState == {"idle", "sent", "accepted", "rejected"}

\* The type invariant of the request path.
TypeOK ==
    /\ members \subseteq Accounts
    /\ active \in Accounts \cup {NoAccount}
    /\ restricted \subseteq Accounts
    /\ cooling \subseteq Accounts
    /\ genCount \in [Accounts -> Nat]
    /\ pc \in [Requests -> PC]
    /\ gen \in [Requests -> BOOLEAN]
    /\ cand \in [Requests -> Seq(Accounts)]
    /\ cur \in [Requests -> Accounts \cup {NoAccount}]
    /\ commit \in [Requests -> CommitState]
    /\ heads \in [Requests -> Nat]
    /\ reply \in [Requests -> Reply]
    /\ gone \in [Requests -> BOOLEAN]
    /\ up \in [Requests -> UpState]
    /\ charged \in [Requests -> SUBSET Accounts]

Init ==
    /\ members \in SUBSET Accounts
    /\ active \in members \cup {NoAccount}
    /\ restricted = {}
    /\ cooling = {}
    /\ genCount = [a \in Accounts |-> 0]
    /\ pc = [r \in Requests |-> "idle"]
    /\ gen = [r \in Requests |-> FALSE]
    /\ cand = [r \in Requests |-> <<>>]
    /\ cur = [r \in Requests |-> NoAccount]
    /\ commit = [r \in Requests |-> "NotCommitted"]
    /\ heads = [r \in Requests |-> 0]
    /\ reply = [r \in Requests |-> "none"]
    /\ gone = [r \in Requests |-> FALSE]
    /\ up = [r \in Requests |-> "idle"]
    /\ charged = [r \in Requests |-> {}]

---------------------------------------------------------------------------
(* The response writer.                                                    *)

\* A response head goes out on the ResponseWriter.
WriteHead(r, what) ==
    /\ heads' = [heads EXCEPT ![r] = @ + 1]
    /\ reply' = [reply EXCEPT ![r] = what]

\* The same through the ResponseCommitter, with the state the sender marks.
WriteResponse(r, what, state) ==
    /\ WriteHead(r, what)
    /\ commit' = [commit EXCEPT ![r] = state]

\* http.Error(committer, ...) with status 502 or 504: no failover follows.
GatewayError(r) ==
    /\ WriteResponse(r, "gateway_error", "HeadersCommitted")
    /\ pc' = [pc EXCEPT ![r] = "done"]

---------------------------------------------------------------------------
(* Candidate selection.                                                    *)

\* Tier of a generation candidate in OrderCandidates (restricted accounts
\* are filtered out before): eligible, depleted, cooldown.
GenerationTier(a, depleted) ==
    IF a \in cooling THEN 2 ELSE IF a \in depleted THEN 1 ELSE 0

\* The score function of the non-generation branch.
OtherTier(a) ==
    IF a \in restricted THEN 3
    ELSE IF a \in cooling THEN 2
    ELSE IF a = active THEN 0 ELSE 1

Tier(a, isGeneration, depleted) ==
    IF isGeneration THEN GenerationTier(a, depleted) ELSE OtherTier(a)

Eligible(isGeneration) == IF isGeneration THEN members \ restricted ELSE members

\* Every order of the candidates that respects the tiers.
Orders(isGeneration, depleted) ==
    {s \in [1 .. Cardinality(Eligible(isGeneration)) -> Eligible(isGeneration)] :
        \A i, j \in DOMAIN s : i < j =>
            /\ s[i] # s[j]
            /\ Tier(s[i], isGeneration, depleted) <= Tier(s[j], isGeneration, depleted)}

\* ReadRequestBody fails: 400 or 413, before there is a committer.
RejectBody(r) ==
    /\ pc[r] = "idle"
    /\ WriteHead(r, "bad_request")
    /\ pc' = [pc EXCEPT ![r] = "done"]
    /\ UNCHANGED <<poolVars, gen, cand, cur, commit, gone, upVars>>

\* LoadPool fails or finds no account: 503, before there is a committer.
PoolUnavailable(r) ==
    /\ pc[r] = "idle"
    /\ WriteHead(r, "no_accounts")
    /\ pc' = [pc EXCEPT ![r] = "done"]
    /\ UNCHANGED <<poolVars, gen, cand, cur, commit, gone, upVars>>

\* LoadPool and the ordering of its snapshot.  Under round_robin a generation
\* request goes on to reserve its order in a transaction of its own.
Select(r) ==
    /\ pc[r] = "idle"
    /\ members # {}
    /\ \E isGeneration \in BOOLEAN, depleted \in SUBSET members :
        /\ gen' = [gen EXCEPT ![r] = isGeneration]
        /\ \E s \in Orders(isGeneration, depleted) : cand' = [cand EXCEPT ![r] = s]
        /\ \E next \in {"next"} \cup (IF isGeneration THEN {"reserve"} ELSE {}) :
            pc' = [pc EXCEPT ![r] = next]
    /\ UNCHANGED <<poolVars, cur, commit, heads, reply, gone, upVars>>

\* ReserveRoundRobinCandidates orders the pool as it is by now; when it fails
\* the order of the earlier snapshot is used.
Reserve(r) ==
    /\ pc[r] = "reserve"
    /\ \/ \E depleted \in SUBSET members : \E s \in Orders(TRUE, depleted) :
            cand' = [cand EXCEPT ![r] = s]
       \/ UNCHANGED cand
    /\ pc' = [pc EXCEPT ![r] = "next"]
    /\ UNCHANGED <<poolVars, gen, cur, commit, heads, reply, gone, upVars>>

---------------------------------------------------------------------------
(* The loop over the candidates.                                           *)

\* Mutant: the loop does not advance past the failed account.
NextCandidateStuck(r) ==
    /\ pc[r] = "next"
    /\ cand[r] # <<>>
    /\ cur' = [cur EXCEPT ![r] = Head(cand[r])]
    /\ up' = [up EXCEPT ![r] = "idle"]
    /\ pc' = [pc EXCEPT ![r] = "token"]
    /\ UNCHANGED <<poolVars, gen, cand, commit, heads, reply, gone, charged>>

\* The loop variable advances: only after ActionFailoverNext, and only while
\* nothing is committed.
NextCandidate(r) ==
    /\ pc[r] = "next"
    /\ commit[r] = "NotCommitted"
    /\ cand[r] # <<>>
    /\ cur' = [cur EXCEPT ![r] = Head(cand[r])]
    /\ cand' = [cand EXCEPT ![r] = Tail(@)]
    /\ up' = [up EXCEPT ![r] = "idle"]
    /\ pc' = [pc EXCEPT ![r] = "token"]
    /\ UNCHANGED <<poolVars, gen, commit, heads, reply, gone, charged>>

\* All accounts exhausted: 503.
Exhausted(r) ==
    /\ pc[r] = "next"
    /\ commit[r] = "NotCommitted"
    /\ cand[r] = <<>>
    /\ WriteResponse(r, "exhausted", "HeadersCommitted")
    /\ pc' = [pc EXCEPT ![r] = "done"]
    /\ UNCHANGED <<poolVars, gen, cand, cur, gone, upVars>>

---------------------------------------------------------------------------
(* Bookkeeping transactions of failover.go.  FindAccount returns nil for an *)
(* account that has been removed: nothing is stored.                       *)

RecordQuotaError(a) ==
    /\ cooling' = IF a \in members THEN cooling \cup {a} ELSE cooling
    /\ UNCHANGED <<members, active, restricted, genCount>>

\* RecordValidationError and RecordAuthError.
RecordRestriction(a) ==
    /\ cooling' = IF a \in members THEN cooling \cup {a} ELSE cooling
    /\ restricted' = IF a \in members THEN restricted \cup {a} ELSE restricted
    /\ UNCHANGED <<members, active, genCount>>

\* The promotion at the end of RecordSuccess.
Promoted(a) ==
    IF active = NoAccount \/ (active \in members /\ active \in cooling /\ a # active)
    THEN a ELSE active

RecordSuccess(a, isGeneration) ==
    /\ genCount' = IF a \in members /\ isGeneration
                   THEN [genCount EXCEPT ![a] = @ + 1] ELSE genCount
    /\ active' = IF a \in members THEN Promoted(a) ELSE active
    /\ UNCHANGED <<members, restricted, cooling>>

\* A failed transaction is logged and changes nothing.
Persist(record) == record \/ UNCHANGED poolVars

---------------------------------------------------------------------------
(* dispatchAccount.                                                        *)

\* RefreshToken fails: transiently, or with ErrInvalidCredentials.
TokenRefreshFailed(r) ==
    /\ pc[r] = "token"
    /\ Persist(RecordRestriction(cur[r]))
    /\ pc' = [pc EXCEPT ![r] = "next"]
    /\ UNCHANGED <<gen, cand, cur, commit, heads, reply, gone, upVars>>

TokenReady(r) ==
    /\ pc[r] = "token"
    /\ pc' = [pc EXCEPT ![r] = "send"]
    /\ UNCHANGED <<poolVars, gen, cand, cur, commit, heads, reply, gone, upVars>>

\* http.NewRequestWithContext fails on a target that cannot be parsed: terminal,
\* and HandleProxy returns without writing, so that net/http answers for it with
\* an empty 200 of which the committer knows nothing.
RequestCreationFailed(r) ==
    /\ pc[r] = "send"
    /\ WriteHead(r, "empty_ok")
    /\ pc' = [pc EXCEPT ![r] = "done"]
    /\ UNCHANGED <<poolVars, gen, cand, cur, commit, gone, upVars>>

\* client.Do puts the request on the wire.
Send(r) ==
    /\ pc[r] = "send"
    /\ ~gone[r]
    /\ up' = [up EXCEPT ![r] = "sent"]
    /\ pc' = [pc EXCEPT ![r] = "wait"]
    /\ UNCHANGED <<poolVars, gen, cand, cur, commit, heads, reply, gone, charged>>

\* client.Do fails because the client went away, before or after sending.  The
\* empty 200 of net/http reaches nobody.
ClientDisconnected(r) ==
    /\ pc[r] \in {"send", "wait"}
    /\ gone[r]
    /\ pc' = [pc EXCEPT ![r] = "done"]
    /\ UNCHANGED <<poolVars, gen, cand, cur, commit, heads, reply, gone, upVars>>

\* Mutant: a transport failure fails over like an explicit rejection.
ReplayOnTransportFailure(r) ==
    /\ pc[r] \in {"send", "wait"}
    /\ ~gone[r]
    /\ pc' = [pc EXCEPT ![r] = "next"]
    /\ UNCHANGED <<poolVars, gen, cand, cur, commit, heads, reply, gone, upVars>>

\* client.Do fails otherwise, or the body of a response that is not a success
\* stream cannot be read: ambiguous, so 502 or 504 and no other account.
AmbiguousTransportFailure(r) ==
    /\ pc[r] \in {"send", "wait"}
    /\ ~gone[r] \/ up[r] \in {"accepted", "rejected"}
    /\ GatewayError(r)
    /\ UNCHANGED <<poolVars, gen, cand, cur, gone, upVars>>

\* 429, or 403/401 with a quota, validation or auth marker.
RetryableResponse(r) ==
    /\ pc[r] = "wait"
    /\ up[r] = "rejected"
    /\ \/ Persist(RecordQuotaError(cur[r]))
       \/ Persist(RecordRestriction(cur[r]))
    /\ pc' = [pc EXCEPT ![r] = "next"]
    /\ UNCHANGED <<gen, cand, cur, commit, heads, reply, gone, upVars>>

\* Redirects and ordinary upstream errors are forwarded as they are.
NonRetryableResponse(r) ==
    /\ pc[r] = "wait"
    /\ up[r] \in {"accepted", "rejected"}
    /\ WriteResponse(r, "upstream_error", "BodyCommitted")
    /\ pc' = [pc EXCEPT ![r] = "done"]
    /\ UNCHANGED <<poolVars, gen, cand, cur, gone, upVars>>

\* Mutant: the status is not looked at before the stream is relayed.
BeginStreamAnyStatus(r) ==
    /\ pc[r] = "wait"
    /\ up[r] \in {"accepted", "rejected"}
    /\ Persist(RecordSuccess(cur[r], gen[r]))
    /\ WriteResponse(r, "success", "StreamCommitted")
    /\ pc' = [pc EXCEPT ![r] = "stream"]
    /\ UNCHANGED <<gen, cand, cur, gone, upVars>>

\* 2xx on a stream: bookkeeping, then the head, then the chunks.
BeginStream(r) ==
    /\ pc[r] = "wait"
    /\ up[r] = "accepted"
    /\ Persist(RecordSuccess(cur[r], gen[r]))
    /\ WriteResponse(r, "success", "StreamCommitted")
    /\ pc' = [pc EXCEPT ![r] = "stream"]
    /\ UNCHANGED <<gen, cand, cur, gone, upVars>>

\* Mutant: the success is recorded again when the stream has ended.
EndStreamRecordsAgain(r) ==
    /\ pc[r] = "stream"
    /\ Persist(RecordSuccess(cur[r], gen[r]))
    /\ pc' = [pc EXCEPT ![r] = "done"]
    /\ UNCHANGED <<gen, cand, cur, commit, heads, reply, gone, upVars>>

\* SendStream returns: complete, or truncated by either side.
EndStream(r) ==
    /\ pc[r] = "stream"
    /\ \E what \in {"success", "truncated"} : reply' = [reply EXCEPT ![r] = what]
    /\ pc' = [pc EXCEPT ![r] = "done"]
    /\ UNCHANGED <<poolVars, gen, cand, cur, commit, heads, gone, upVars>>

\* 2xx without a stream: the body was read, bookkeeping, SendBuffered.  A
\* generation request is always a stream (IsStreamRequest).
RelayBuffered(r) ==
    /\ pc[r] = "wait"
    /\ ~gen[r]
    /\ up[r] = "accepted"
    /\ Persist(RecordSuccess(cur[r], gen[r]))
    /\ WriteResponse(r, "success", "BodyCommitted")
    /\ pc' = [pc EXCEPT ![r] = "done"]
    /\ UNCHANGED <<gen, cand, cur, gone, upVars>>

---------------------------------------------------------------------------
(* The environment.                                                        *)

\* Upstream executes the request, possibly after the proxy has given up.
UpstreamAccepts(r) ==
    /\ up[r] = "sent"
    /\ up' = [up EXCEPT ![r] = "accepted"]
    /\ charged' = [charged EXCEPT ![r] = @ \cup {cur[r]}]
    /\ UNCHANGED <<poolVars, reqVars>>

\* Upstream refuses the request without executing it.
UpstreamRejects(r) ==
    /\ up[r] = "sent"
    /\ up' = [up EXCEPT ![r] = "rejected"]
    /\ UNCHANGED <<poolVars, reqVars, charged>>

ClientGoes(r) ==
    /\ pc[r] \notin {"idle", "done"}
    /\ gone' = [gone EXCEPT ![r] = TRUE]
    /\ UNCHANGED <<poolVars, pc, gen, cand, cur, commit, heads, reply, upVars>>

CooldownExpires(a) ==
    /\ a \in cooling
    /\ cooling' = cooling \ {a}
    /\ UNCHANGED <<members, active, restricted, genCount, reqVars, upVars>>

\* The transaction of accounts.Login: re-authentication, or a new account.
Login(a) ==
    /\ members' = members \cup {a}
    /\ active' = IF a \notin members /\ active = NoAccount THEN a ELSE active
    /\ restricted' = restricted \ {a}
    /\ cooling' = cooling \ {a}
    /\ genCount' = IF a \in members THEN genCount ELSE [genCount EXCEPT ![a] = 0]
    /\ UNCHANGED <<reqVars, upVars>>

\* The transaction of accounts.RemoveAccount: the first remaining account
\* becomes active when the active one is removed.
RemoveAccount(a) ==
    /\ a \in members
    /\ members' = members \ {a}
    /\ IF active = a
       THEN active' \in (IF members' = {} THEN {NoAccount} ELSE members')
       ELSE active' = active
    /\ restricted' = restricted \ {a}
    /\ cooling' = cooling \ {a}
    /\ UNCHANGED <<genCount, reqVars, upVars>>

---------------------------------------------------------------------------

\* The steps of the request's own goroutine.
Handle(r) ==
    \/ RejectBody(r) \/ PoolUnavailable(r) \/ Select(r) \/ Reserve(r)
    \/ NextCandidate(r) \/ Exhausted(r)
    \/ TokenRefreshFailed(r) \/ TokenReady(r)
    \/ RequestCreationFailed(r) \/ Send(r)
    \/ ClientDisconnected(r) \/ AmbiguousTransportFailure(r)
    \/ RetryableResponse(r) \/ NonRetryableResponse(r)
    \/ BeginStream(r) \/ EndStream(r) \/ RelayBuffered(r)

Environment ==
    \/ \E r \in Requests : UpstreamAccepts(r) \/ UpstreamRejects(r) \/ ClientGoes(r)
    \/ \E a \in Accounts : CooldownExpires(a) \/ Login(a) \/ RemoveAccount(a)

Next == Environment \/ \E r \in Requests : Handle(r)

Spec == Init /\ [][Next]_vars

---------------------------------------------------------------------------
(* Properties.                                                             *)

\* Strict at-most-once generation: upstream executes a client's request on at
\* most one account, whatever the proxy sees of timeouts, lost responses and
\* late acceptances (README "Strict No-Replay", MIGRATION_CONTRACT 16).
AtMostOnceUpstream ==
    \A r \in Requests : \A a, b \in charged[r] : a = b

\* "All accounts exhausted" and "no accounts" tell the client that nothing ran
\* upstream, so that it may safely send the request again.  The empty 200 of a
\* request that could not be built is no more than that: nothing ran for it.
RefusalMeansNotExecuted ==
    \A r \in Requests :
        reply[r] \in {"bad_request", "no_accounts", "exhausted", "empty_ok"} =>
            /\ charged[r] = {}
            /\ up[r] \notin {"sent", "accepted"}

\* The client gets one response head: no error page after a committed body or
\* stream, and none missing unless the client left.
OneResponse ==
    \A r \in Requests :
        /\ heads[r] <= 1
        /\ commit[r] # "NotCommitted" => heads[r] = 1
        /\ pc[r] = "done" /\ heads[r] = 0 => gone[r]

\* A relayed success is backed by an execution on the account it came from.
SuccessIsExecuted ==
    \A r \in Requests :
        reply[r] \in {"success", "truncated"} => charged[r] = {cur[r]}

\* The persisted active account is always an account of the pool: promotion by
\* RecordSuccess, removal and login keep the reference valid.
ActiveIsMember ==
    active \in members \cup {NoAccount}

\* gen_count, which least_used schedules by, never counts more generations
\* than upstream executed on the account.
UsageNotOvercounted ==
    \A a \in Accounts :
        genCount[a] <= Cardinality({r \in Requests : gen[r] /\ a \in charged[r]})

\* Once anything is committed downstream the request starts no upstream call.
NoSendAfterCommit ==
    [][\A r \in Requests :
        commit[r] # "NotCommitted" => up'[r] = up[r] \/ up[r] = "sent"]_vars

\* What HandleProxy tells a client is true: a refusal, the number of answers, a
\* relayed success.  The one answer that is not true is the empty 200, which
\* NotCommittedIsUnsent is about.
ResponseIsTrue == RefusalMeansNotExecuted /\ OneResponse /\ SuccessIsExecuted

\* "NotCommitted indicates no headers or body bytes have been sent downstream"
\* (commitment.go 14): the client of a selected request gets nothing but what the
\* committer let through.  RequestCreationFailed contradicts it.
NotCommittedIsUnsent ==
    \A r \in Requests :
        commit[r] = "NotCommitted" /\ reply[r] \notin {"bad_request", "no_accounts"} =>
            heads[r] = 0

\* The steps a goroutine may still take at most: five for each candidate left.
StepsLeft(r) ==
    CASE pc[r] = "idle"    -> 5 * Cardinality(Accounts) + 3
      [] pc[r] = "reserve" -> 5 * Cardinality(Accounts) + 2
      [] pc[r] = "token"   -> 5 * Len(cand[r]) + 5
      [] pc[r] = "send"    -> 5 * Len(cand[r]) + 4
      [] pc[r] = "wait"    -> 5 * Len(cand[r]) + 3
      [] pc[r] = "stream"  -> 5 * Len(cand[r]) + 2
      [] pc[r] = "next"    -> 5 * Len(cand[r]) + 1
      [] pc[r] = "done"    -> 0

\* Failover ends: every step of a goroutine leaves fewer steps, however the
\* pool changes and however often upstream rejects the request.
FailoverAdvances == [][\A r \in Requests : Handle(r) => StepsLeft(r)' < StepsLeft(r)]_vars

\* Every request that arrived is finished: its goroutine can always go on, since
\* every wait on upstream ends at the latest with the client's 300 s timeout, and
\* it goes on only so many times.
EveryRequestEnds ==
    /\ [](\A r \in Requests : pc[r] # "done" => ENABLED Handle(r))
    /\ FailoverAdvances

=============================================================================
