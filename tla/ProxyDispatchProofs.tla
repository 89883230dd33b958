------------------------ MODULE ProxyDispatchProofs ------------------------
(***************************************************************************)
(* Proofs about ProxyDispatch, for any number of requests and any finite   *)
(* set of accounts.  The inductive invariant ties where a request's        *)
(* goroutine is to what its last upstream call may have become and to what *)
(* has been written downstream.                                            *)
(***************************************************************************)
EXTENDS ProxyDispatch, FiniteSetTheorems, TLAPS

\* The request ran on the account of the last call and nowhere else, and only
\* if that call was accepted.
ChargeInv ==
    \A r \in Requests :
        /\ charged[r] = IF up[r] = "accepted" THEN {cur[r]} ELSE {}
        /\ cur[r] = NoAccount => up[r] = "idle"

\* Before a call nothing is in flight; only a waiting or finished request can
\* have an unanswered call.
ControlInv ==
    \A r \in Requests :
        /\ pc[r] \in {"idle", "reserve", "token", "send"} => up[r] = "idle"
        /\ pc[r] = "next" => up[r] \in {"idle", "rejected"}
        /\ pc[r] \in {"token", "send"} => cur[r] # NoAccount
        /\ pc[r] = "stream" => up[r] = "accepted"

\* Nothing is written before the request is answered, and then one head.
ResponseInv ==
    \A r \in Requests :
        /\ pc[r] \notin {"stream", "done"} =>
            heads[r] = 0 /\ commit[r] = "NotCommitted" /\ reply[r] = "none"
        /\ pc[r] = "stream" => heads[r] = 1 /\ reply[r] = "success"
        /\ heads[r] <= 1
        /\ commit[r] # "NotCommitted" => heads[r] = 1
        /\ pc[r] = "done" /\ heads[r] = 0 => gone[r]
        /\ reply[r] \in {"bad_request", "no_accounts", "exhausted", "empty_ok"} =>
            up[r] \in {"idle", "rejected"}
        /\ reply[r] \in {"success", "truncated"} => up[r] = "accepted"

IInv == TypeOK /\ ChargeInv /\ ControlInv /\ ResponseInv /\ ActiveIsMember

-----------------------------------------------------------------------------

\* Every candidate order is a sequence of accounts.
LEMMA OrdersAreSequences ==
    ASSUME TypeOK, NEW isGeneration \in BOOLEAN, NEW depleted,
           NEW s \in Orders(isGeneration, depleted)
    PROVE  s \in Seq(Accounts)
<1> DEFINE E == Eligible(isGeneration)
<1>1. E \subseteq Accounts
  BY DEF Eligible, TypeOK
<1>2. IsFiniteSet(E)
  BY <1>1, Finiteness, FS_Subset
<1>3. Cardinality(E) \in Nat
  BY <1>2, FS_CardinalityType
<1>4. s \in [1 .. Cardinality(E) -> E]
  BY DEF Orders
<1>5. s \in [1 .. Cardinality(E) -> Accounts]
  BY <1>1, <1>4
<1> QED
  BY <1>3, <1>5

\* Init establishes the invariant.
LEMMA InitIInv == Init => IInv
<1> SUFFICES ASSUME Init PROVE IInv
  OBVIOUS
<1>1. TypeOK
  BY DEF Init, TypeOK, PC, CommitState, Reply, UpState
<1>2. ChargeInv /\ ControlInv /\ ResponseInv
  BY DEF Init, ChargeInv, ControlInv, ResponseInv
<1>3. ActiveIsMember
  BY DEF Init, ActiveIsMember
<1> QED
  BY <1>1, <1>2, <1>3 DEF IInv

\* Counting one more generation keeps the counters natural numbers.
LEMMA CountOneMore ==
    ASSUME NEW f \in [Accounts -> Nat], NEW a \in Accounts
    PROVE  [f EXCEPT ![a] = @ + 1] \in [Accounts -> Nat]
OBVIOUS

\* The bookkeeping transactions keep the pool well-typed and its active
\* account a member.
LEMMA BookkeepingKeepsPool ==
    ASSUME IInv, NEW r \in Requests, cur[r] # NoAccount,
           \/ Persist(RecordQuotaError(cur[r]))
           \/ Persist(RecordRestriction(cur[r]))
           \/ Persist(RecordSuccess(cur[r], gen[r]))
    PROVE  /\ members' \subseteq Accounts
           /\ active' \in Accounts \cup {NoAccount}
           /\ restricted' \subseteq Accounts
           /\ cooling' \subseteq Accounts
           /\ genCount' \in [Accounts -> Nat]
           /\ ActiveIsMember'
<1> USE DEF IInv, TypeOK, ActiveIsMember
<1>1. cur[r] \in Accounts
  OBVIOUS
<1>2. CASE Persist(RecordQuotaError(cur[r]))
  BY <1>1, <1>2 DEF Persist, RecordQuotaError, poolVars
<1>3. CASE Persist(RecordRestriction(cur[r]))
  BY <1>1, <1>3 DEF Persist, RecordRestriction, poolVars
<1>4. CASE Persist(RecordSuccess(cur[r], gen[r]))
  <2>1. CASE UNCHANGED poolVars
    BY <2>1 DEF poolVars
  <2>2. CASE RecordSuccess(cur[r], gen[r])
    <3>1. UNCHANGED <<members, restricted, cooling>>
      BY <2>2 DEF RecordSuccess
    <3>2. \/ genCount' = genCount
          \/ genCount' = [genCount EXCEPT ![cur[r]] = @ + 1]
      BY <2>2, Zenon DEF RecordSuccess
    <3>3. genCount' \in [Accounts -> Nat]
      <4>1. genCount \in [Accounts -> Nat]
        OBVIOUS
      <4>2. [genCount EXCEPT ![cur[r]] = @ + 1] \in [Accounts -> Nat]
        BY <1>1, <4>1, CountOneMore
      <4> QED
        BY <3>2, <4>1, <4>2, Zenon
    <3>4. active' = active \/ (cur[r] \in members /\ active' = cur[r])
      BY <2>2, Zenon DEF RecordSuccess, Promoted
    <3> QED
      BY <1>1, <3>1, <3>3, <3>4
  <2> QED
    BY <1>4, <2>1, <2>2 DEF Persist
<1> QED
  BY <1>2, <1>3, <1>4

-----------------------------------------------------------------------------
\* A step that does not touch state.db keeps the invariant.
LEMMA RequestStep ==
    ASSUME IInv, NEW r \in Requests,
           \/ NextCandidate(r)
           \/ Exhausted(r)
           \/ RejectBody(r)
           \/ PoolUnavailable(r)
           \/ TokenReady(r)
           \/ RequestCreationFailed(r)
           \/ Send(r)
           \/ ClientDisconnected(r)
           \/ AmbiguousTransportFailure(r)
           \/ NonRetryableResponse(r)
           \/ EndStream(r)
           \/ UpstreamAccepts(r)
           \/ UpstreamRejects(r)
           \/ ClientGoes(r)
    PROVE  IInv'
<1> USE DEF IInv, TypeOK, ChargeInv, ControlInv, ResponseInv, ActiveIsMember,
            PC, CommitState, Reply, UpState, poolVars, upVars
<1>1. CASE NextCandidate(r)
  <2>1. /\ Head(cand[r]) \in Accounts
        /\ Tail(cand[r]) \in Seq(Accounts)
    BY <1>1 DEF NextCandidate
  <2>2. TypeOK'
    BY <1>1, <2>1 DEF NextCandidate
  <2>3. ChargeInv' /\ ControlInv'
    BY <1>1, <2>1, NoAccountAssumption DEF NextCandidate
  <2>4. ResponseInv' /\ ActiveIsMember'
    BY <1>1 DEF NextCandidate
  <2> QED
    BY <2>2, <2>3, <2>4
<1>2. CASE Exhausted(r)
  BY <1>2 DEF Exhausted, WriteResponse, WriteHead
<1>3. CASE RejectBody(r)
  BY <1>3 DEF RejectBody, WriteHead
<1>4. CASE PoolUnavailable(r)
  BY <1>4 DEF PoolUnavailable, WriteHead
<1>5. CASE TokenReady(r)
  BY <1>5 DEF TokenReady
<1>6. CASE RequestCreationFailed(r)
  <2>1. TypeOK'
    BY <1>6 DEF RequestCreationFailed, WriteHead
  <2>2. ChargeInv' /\ ControlInv' /\ ActiveIsMember'
    BY <1>6 DEF RequestCreationFailed
  <2>3. ResponseInv'
    BY <1>6 DEF RequestCreationFailed, WriteHead
  <2> QED
    BY <2>1, <2>2, <2>3
<1>7. CASE Send(r)
  BY <1>7 DEF Send
<1>8. CASE ClientDisconnected(r)
  BY <1>8 DEF ClientDisconnected
<1>9. CASE AmbiguousTransportFailure(r)
  <2>1. TypeOK'
    BY <1>9 DEF AmbiguousTransportFailure, GatewayError, WriteResponse, WriteHead
  <2>2. ChargeInv' /\ ControlInv' /\ ActiveIsMember'
    BY <1>9 DEF AmbiguousTransportFailure, GatewayError
  <2>3. ResponseInv'
    BY <1>9 DEF AmbiguousTransportFailure, GatewayError, WriteResponse, WriteHead
  <2> QED
    BY <2>1, <2>2, <2>3
<1>10. CASE NonRetryableResponse(r)
  <2>1. TypeOK'
    BY <1>10 DEF NonRetryableResponse, WriteResponse, WriteHead
  <2>2. ChargeInv' /\ ControlInv' /\ ActiveIsMember'
    BY <1>10 DEF NonRetryableResponse
  <2>3. ResponseInv'
    BY <1>10 DEF NonRetryableResponse, WriteResponse, WriteHead
  <2> QED
    BY <2>1, <2>2, <2>3
<1>11. CASE EndStream(r)
  BY <1>11 DEF EndStream
<1>12. CASE UpstreamAccepts(r)
  <2>1. up[r] = "sent"
    BY <1>12 DEF UpstreamAccepts
  <2>2. cur[r] \in Accounts
    BY <2>1
  <2>3. charged[r] = {}
    BY <2>1
  <2>4. charged[r] \cup {cur[r]} = {cur[r]}
    BY <2>3
  <2>5. charged' = [charged EXCEPT ![r] = {cur[r]}]
    BY <1>12, <2>4, Zenon DEF UpstreamAccepts
  <2>6. TypeOK'
    <3>1. charged' \in [Requests -> SUBSET Accounts]
      BY <2>2, <2>5
    <3> QED
      BY <1>12, <3>1 DEF UpstreamAccepts, reqVars
  <2>7. ChargeInv'
    <3> SUFFICES ASSUME NEW q \in Requests
                 PROVE  /\ charged'[q] = IF up'[q] = "accepted" THEN {cur'[q]} ELSE {}
                        /\ cur'[q] = NoAccount => up'[q] = "idle"
      OBVIOUS
    <3>1. cur' = cur /\ up' = [up EXCEPT ![r] = "accepted"]
      BY <1>12 DEF UpstreamAccepts, reqVars
    <3>2. CASE q = r
      BY <2>2, <2>5, <3>1, <3>2, NoAccountAssumption
    <3>3. CASE q # r
      BY <2>5, <3>1, <3>3
    <3> QED
      BY <3>2, <3>3
  <2>8. ControlInv' /\ ResponseInv' /\ ActiveIsMember'
    BY <1>12 DEF UpstreamAccepts, reqVars
  <2> QED
    BY <2>6, <2>7, <2>8
<1>13. CASE UpstreamRejects(r)
  BY <1>13 DEF UpstreamRejects, reqVars
<1>14. CASE ClientGoes(r)
  BY <1>14 DEF ClientGoes
<1> QED
  BY <1>1, <1>2, <1>3, <1>4, <1>5, <1>6, <1>7, <1>8, <1>9, <1>10, <1>11, <1>12, <1>13, <1>14

\* Choosing candidates keeps the invariant.
LEMMA SelectionStep ==
    ASSUME IInv, NEW r \in Requests, Select(r) \/ Reserve(r)
    PROVE  IInv'
<1> USE DEF IInv, TypeOK, ChargeInv, ControlInv, ResponseInv, ActiveIsMember,
            PC, CommitState, Reply, UpState, poolVars, upVars
<1>1. CASE Select(r)
  <2>1. PICK isGeneration \in BOOLEAN, depleted \in SUBSET members :
           /\ gen' = [gen EXCEPT ![r] = isGeneration]
           /\ \E s \in Orders(isGeneration, depleted) : cand' = [cand EXCEPT ![r] = s]
           /\ \E next \in {"next", "reserve"} : pc' = [pc EXCEPT ![r] = next]
    BY <1>1 DEF Select
  <2>2. \E s \in Seq(Accounts) : cand' = [cand EXCEPT ![r] = s]
    BY <2>1, OrdersAreSequences
  <2> QED
    BY <1>1, <2>1, <2>2 DEF Select
<1>2. CASE Reserve(r)
  <2>1. cand' = cand \/ \E s \in Seq(Accounts) : cand' = [cand EXCEPT ![r] = s]
    <3>1. CASE UNCHANGED cand
      BY <3>1
    <3>2. ASSUME NEW depleted \in SUBSET members, NEW s \in Orders(TRUE, depleted),
                 cand' = [cand EXCEPT ![r] = s]
          PROVE  \E t \in Seq(Accounts) : cand' = [cand EXCEPT ![r] = t]
      BY <3>2, OrdersAreSequences
    <3> QED
      BY <1>2, <3>1, <3>2, Zenon DEF Reserve
  <2>2. cand' \in [Requests -> Seq(Accounts)]
    <3>1. cand \in [Requests -> Seq(Accounts)]
      OBVIOUS
    <3>2. ASSUME NEW s \in Seq(Accounts)
          PROVE  [cand EXCEPT ![r] = s] \in [Requests -> Seq(Accounts)]
      BY <3>1
    <3>3. CASE cand' = cand
      BY <3>1, <3>3
    <3>4. ASSUME NEW s \in Seq(Accounts), cand' = [cand EXCEPT ![r] = s]
          PROVE  cand' \in [Requests -> Seq(Accounts)]
      BY <3>2, <3>4, Zenon
    <3> QED
      BY <2>1, <3>3, <3>4, Zenon
  <2> QED
    BY <1>2, <2>2, ZenonT(30) DEF Reserve
<1> QED
  BY <1>1, <1>2

\* A dispatch that records its outcome in the pool keeps the invariant.
LEMMA RecordingStep ==
    ASSUME IInv, NEW r \in Requests,
           \/ TokenRefreshFailed(r)
           \/ RetryableResponse(r)
           \/ BeginStream(r)
           \/ RelayBuffered(r)
    PROVE  IInv'
<1>1. cur[r] # NoAccount
  BY DEF IInv, ControlInv, ChargeInv, TokenRefreshFailed, RetryableResponse,
         BeginStream, RelayBuffered
<1>2. \/ Persist(RecordQuotaError(cur[r]))
      \/ Persist(RecordRestriction(cur[r]))
      \/ Persist(RecordSuccess(cur[r], gen[r]))
  BY DEF TokenRefreshFailed, RetryableResponse, BeginStream, RelayBuffered
<1>3. /\ members' \subseteq Accounts
      /\ active' \in Accounts \cup {NoAccount}
      /\ restricted' \subseteq Accounts
      /\ cooling' \subseteq Accounts
      /\ genCount' \in [Accounts -> Nat]
      /\ ActiveIsMember'
  BY <1>1, <1>2, BookkeepingKeepsPool
<1> USE DEF IInv, TypeOK, ChargeInv, ControlInv, ResponseInv,
            PC, CommitState, Reply, UpState, upVars
<1>4. CASE TokenRefreshFailed(r)
  BY <1>3, <1>4 DEF TokenRefreshFailed
<1>5. CASE RetryableResponse(r)
  BY <1>3, <1>5 DEF RetryableResponse
<1>6. CASE BeginStream(r)
  BY <1>3, <1>6, SMTT(30) DEF BeginStream, WriteResponse, WriteHead
<1>7. CASE RelayBuffered(r)
  BY <1>3, <1>7 DEF RelayBuffered, WriteResponse, WriteHead
<1> QED
  BY <1>4, <1>5, <1>6, <1>7

\* Steps of the pool alone keep the invariant.
LEMMA PoolStep ==
    ASSUME IInv, NEW a \in Accounts,
           CooldownExpires(a) \/ Login(a) \/ RemoveAccount(a)
    PROVE  IInv'
<1>a. UNCHANGED <<reqVars, upVars>>
  BY DEF CooldownExpires, Login, RemoveAccount
<1>b. ChargeInv'
  BY <1>a DEF reqVars, upVars, IInv, ChargeInv
<1>c. ControlInv'
  BY <1>a DEF reqVars, upVars, IInv, ControlInv
<1>d. ResponseInv'
  BY <1>a DEF reqVars, upVars, IInv, ResponseInv
<1> USE DEF IInv, TypeOK, ActiveIsMember
<1>1. ChargeInv' /\ ControlInv' /\ ResponseInv'
  BY <1>b, <1>c, <1>d
<1>2. CASE CooldownExpires(a)
  BY <1>1, <1>2 DEF CooldownExpires, reqVars, upVars
<1>3. CASE Login(a)
  BY <1>1, <1>3 DEF Login, reqVars, upVars
<1>4. CASE RemoveAccount(a)
  BY <1>1, <1>4 DEF RemoveAccount, reqVars, upVars
<1> QED
  BY <1>2, <1>3, <1>4

\* The invariant is inductive.
LEMMA NextIInv == IInv /\ [Next]_vars => IInv'
<1> SUFFICES ASSUME IInv, [Next]_vars PROVE IInv'
  OBVIOUS
<1>1. CASE UNCHANGED vars
  BY <1>1 DEF IInv, TypeOK, ChargeInv, ControlInv, ResponseInv, ActiveIsMember,
              vars, poolVars, reqVars, upVars
<1>2. CASE Environment
  BY <1>2, RequestStep, PoolStep DEF Environment
<1>3. ASSUME NEW r \in Requests, Handle(r) PROVE IInv'
  BY <1>3, RequestStep, SelectionStep, RecordingStep DEF Handle
<1> QED
  BY <1>1, <1>2, <1>3 DEF Next

\* The inductive invariant holds in every reachable state.
THEOREM Invariance == Spec => []IInv
  BY InitIInv, NextIInv, PTL DEF Spec

-----------------------------------------------------------------------------
(* What the invariant implies.                                              *)

\* The state of the request path is always well-typed.
THEOREM TypeCorrect == Spec => []TypeOK
  BY Invariance, PTL DEF IInv

\* However many accounts and requests there are, and however late upstream
\* acts on a call the proxy has given up, dispatchAccount never lets a request
\* be executed on two accounts.
THEOREM AtMostOnce == Spec => []AtMostOnceUpstream
<1>1. IInv => AtMostOnceUpstream
  BY DEF IInv, ChargeInv, AtMostOnceUpstream
<1> QED
  BY <1>1, Invariance, PTL

\* A 400, 413 or 503 of the proxy itself means that nothing was executed, and so
\* does the empty 200 of a request that could not be built.
THEOREM Refusals == Spec => []RefusalMeansNotExecuted
<1>1. IInv => RefusalMeansNotExecuted
  BY DEF IInv, ChargeInv, ResponseInv, RefusalMeansNotExecuted
<1> QED
  BY <1>1, Invariance, PTL

\* A request gets one response head, and none only if its client left.
THEOREM Responses == Spec => []OneResponse
<1>1. IInv => OneResponse
  BY DEF IInv, ResponseInv, OneResponse
<1> QED
  BY <1>1, Invariance, PTL

\* A relayed success was executed on the account that is credited with it.
THEOREM Successes == Spec => []SuccessIsExecuted
<1>1. IInv => SuccessIsExecuted
  BY DEF IInv, ChargeInv, ResponseInv, SuccessIsExecuted
<1> QED
  BY <1>1, Invariance, PTL

\* What HandleProxy tells a client is true, for any number of accounts and
\* requests: every answer but the empty 200 that net/http gives for it, of which
\* it says that nothing was executed.
THEOREM TrueResponses == Spec => []ResponseIsTrue
  BY Refusals, Responses, Successes, PTL DEF ResponseIsTrue

\* RecordSuccess, Login and RemoveAccount never leave a dangling active account.
THEOREM ActiveReference == Spec => []ActiveIsMember
  BY Invariance, PTL DEF IInv

\* After anything is committed downstream no upstream call is started.
THEOREM NoReplayAfterCommit == Spec => NoSendAfterCommit
<1> DEFINE Quiet == \A r \in Requests :
        commit[r] # "NotCommitted" => up'[r] = up[r] \/ up[r] = "sent"
<1>1. IInv /\ [Next]_vars => [Quiet]_vars
  <2> SUFFICES ASSUME IInv, Next, NEW q \in Requests, commit[q] # "NotCommitted"
               PROVE  up'[q] = up[q] \/ up[q] = "sent"
    OBVIOUS
  <2>1. pc[q] \in {"stream", "done"}
    BY DEF IInv, ResponseInv
  <2> USE DEF IInv, TypeOK
  <2>2. ASSUME NEW r \in Requests, Handle(r)
        PROVE  up'[q] = up[q]
    <3>1. CASE NextCandidate(r) \/ Send(r)
      BY <2>1, <3>1 DEF NextCandidate, Send
    <3>2. CASE ~(NextCandidate(r) \/ Send(r))
      BY <2>2, <3>2 DEF Handle, RejectBody, PoolUnavailable, Select, Reserve,
        Exhausted, TokenRefreshFailed, TokenReady, RequestCreationFailed,
        ClientDisconnected, AmbiguousTransportFailure, RetryableResponse,
        NonRetryableResponse, BeginStream, EndStream, RelayBuffered, upVars
    <3> QED
      BY <3>1, <3>2
  <2>3. CASE Environment
    BY <2>3 DEF Environment, UpstreamAccepts, UpstreamRejects, ClientGoes,
                CooldownExpires, Login, RemoveAccount, upVars
  <2> QED
    BY <2>2, <2>3 DEF Next
<1> QED
  BY <1>1, Invariance, PTL DEF Spec, NoSendAfterCommit

-----------------------------------------------------------------------------
(* The failover loop ends.                                                  *)

\* An order has one place for each account at most.
LEMMA OrdersAreShort ==
    ASSUME TypeOK, NEW isGeneration \in BOOLEAN, NEW depleted \in SUBSET members,
           NEW s \in Orders(isGeneration, depleted)
    PROVE  /\ s \in Seq(Accounts)
           /\ Len(s) \in Nat /\ Cardinality(Accounts) \in Nat
           /\ Len(s) <= Cardinality(Accounts)
<1> DEFINE E == Eligible(isGeneration)
<1>1. E \subseteq Accounts
  BY DEF Eligible, TypeOK
<1>2. IsFiniteSet(E) /\ Cardinality(E) <= Cardinality(Accounts)
  BY <1>1, Finiteness, FS_Subset
<1>3. Cardinality(E) \in Nat /\ Cardinality(Accounts) \in Nat
  BY <1>2, Finiteness, FS_CardinalityType
<1>4. s \in [1 .. Cardinality(E) -> E]
  BY DEF Orders
<1> HIDE DEF E
<1>5. s \in Seq(E) /\ Len(s) = Cardinality(E)
  BY <1>3, <1>4
<1>6. s \in Seq(Accounts)
  BY <1>1, <1>5
<1> QED
  BY <1>2, <1>3, <1>5, <1>6

\* The candidates of a request are never more than the accounts; a reservation
\* that fails falls back on them.
ShortInv == \A r \in Requests : Len(cand[r]) <= Cardinality(Accounts)

LEMMA ShortStep == IInv /\ ShortInv /\ [Next]_vars => ShortInv'
<1> SUFFICES ASSUME IInv, ShortInv, [Next]_vars, NEW q \in Requests
             PROVE  Len(cand'[q]) <= Cardinality(Accounts)
  BY DEF ShortInv
<1> USE DEF IInv, TypeOK
<1>1. cand[q] \in Seq(Accounts) /\ Len(cand[q]) \in Nat /\ Len(cand[q]) <= Cardinality(Accounts)
  BY DEF ShortInv
<1>2. CASE UNCHANGED vars
  BY <1>1, <1>2 DEF vars, reqVars
<1>3. CASE Environment
  BY <1>1, <1>3 DEF Environment, UpstreamAccepts, UpstreamRejects, ClientGoes,
                    CooldownExpires, Login, RemoveAccount, reqVars
<1>4. ASSUME NEW r \in Requests, Select(r)
      PROVE  Len(cand'[q]) <= Cardinality(Accounts)
  <2>1. PICK isGeneration \in BOOLEAN, depleted \in SUBSET members :
          \E s \in Orders(isGeneration, depleted) : cand' = [cand EXCEPT ![r] = s]
    BY <1>4 DEF Select
  <2>2. PICK s \in Orders(isGeneration, depleted) : cand' = [cand EXCEPT ![r] = s]
    BY <2>1
  <2> QED
    BY <1>1, <2>2, OrdersAreShort
<1>5. ASSUME NEW r \in Requests, Reserve(r)
      PROVE  Len(cand'[q]) <= Cardinality(Accounts)
  <2>1. CASE UNCHANGED cand
    BY <1>1, <2>1
  <2>2. CASE \E depleted \in SUBSET members : \E s \in Orders(TRUE, depleted) :
               cand' = [cand EXCEPT ![r] = s]
    BY <1>1, <2>2, OrdersAreShort
  <2> QED
    BY <1>5, <2>1, <2>2 DEF Reserve
<1>6. ASSUME NEW r \in Requests, NextCandidate(r)
      PROVE  Len(cand'[q]) <= Cardinality(Accounts)
  <2>1. cand[r] # <<>> /\ cand' = [cand EXCEPT ![r] = Tail(@)]
    BY <1>6 DEF NextCandidate
  <2>2. cand[q] # <<>> => Len(Tail(cand[q])) = Len(cand[q]) - 1
    BY <1>1
  <2>3. Cardinality(Accounts) \in Nat
    BY Finiteness, FS_CardinalityType
  <2> QED
    BY <1>1, <2>1, <2>2, <2>3
<1>7. ASSUME NEW r \in Requests, Handle(r), ~Select(r), ~Reserve(r), ~NextCandidate(r)
      PROVE  cand' = cand
  BY <1>7 DEF Handle, RejectBody, PoolUnavailable, Exhausted, TokenRefreshFailed, TokenReady,
    RequestCreationFailed, Send, ClientDisconnected, AmbiguousTransportFailure,
    RetryableResponse, NonRetryableResponse, BeginStream, EndStream, RelayBuffered
<1> QED
  BY <1>1, <1>2, <1>3, <1>4, <1>5, <1>6, <1>7 DEF Next

\* Every step of a request's goroutine leaves it fewer steps, for any pool and
\* whatever the other requests and the commands do to it.
THEOREM FailoverEnds == Spec => FailoverAdvances
<1>1. IInv /\ ShortInv /\ [Next]_vars => [\A r \in Requests : Handle(r) => StepsLeft(r)' < StepsLeft(r)]_vars
  <2> SUFFICES ASSUME IInv, ShortInv, NEW r \in Requests, Handle(r)
               PROVE  StepsLeft(r)' < StepsLeft(r)
    OBVIOUS
  <2> USE DEF IInv, TypeOK
  <2>1. Cardinality(Accounts) \in Nat
    BY Finiteness, FS_CardinalityType
  <2>2. cand[r] \in Seq(Accounts) /\ Len(cand[r]) \in Nat
    OBVIOUS
  <2>3. CASE RejectBody(r) \/ PoolUnavailable(r)
    BY <2>1, <2>3 DEF RejectBody, PoolUnavailable, StepsLeft
  <2>4. CASE Select(r)
    <3> PICK isGeneration \in BOOLEAN, depleted \in SUBSET members :
          /\ \E s \in Orders(isGeneration, depleted) : cand' = [cand EXCEPT ![r] = s]
          /\ \E next \in {"next"} \cup (IF isGeneration THEN {"reserve"} ELSE {}) :
               pc' = [pc EXCEPT ![r] = next]
      BY <2>4 DEF Select
    <3>1. PICK s \in Orders(isGeneration, depleted) : cand' = [cand EXCEPT ![r] = s]
      OBVIOUS
    <3>2. cand'[r] = s /\ Len(s) \in Nat /\ Len(s) <= Cardinality(Accounts)
      BY <3>1, OrdersAreShort
    <3>3. pc[r] = "idle" /\ pc'[r] \in {"next", "reserve"}
      BY <2>4 DEF Select
    <3> QED
      BY <2>1, <3>2, <3>3 DEF StepsLeft
  <2>5. CASE Reserve(r)
    <3>1. pc[r] = "reserve" /\ pc'[r] = "next"
      BY <2>5 DEF Reserve
    <3>2. Len(cand'[r]) \in Nat /\ Len(cand'[r]) <= Cardinality(Accounts)
      <4>1. CASE UNCHANGED cand
        BY <2>2, <4>1 DEF ShortInv
      <4>2. CASE \E depleted \in SUBSET members : \E s \in Orders(TRUE, depleted) :
                   cand' = [cand EXCEPT ![r] = s]
        BY <4>2, OrdersAreShort
      <4> QED
        BY <2>5, <4>1, <4>2 DEF Reserve
    <3> QED
      BY <2>1, <3>1, <3>2 DEF StepsLeft
  <2>6. CASE NextCandidate(r)
    <3>1. pc[r] = "next" /\ pc'[r] = "token" /\ cand[r] # <<>> /\ cand'[r] = Tail(cand[r])
      BY <2>6 DEF NextCandidate
    <3>2. Len(cand'[r]) = Len(cand[r]) - 1
      BY <2>2, <3>1
    <3> QED
      BY <2>2, <3>1, <3>2 DEF StepsLeft
  <2>7. CASE \/ Exhausted(r) \/ TokenRefreshFailed(r) \/ TokenReady(r) \/ RequestCreationFailed(r)
             \/ Send(r) \/ ClientDisconnected(r)
    <3>1. \/ pc[r] = "next" /\ pc'[r] = "done"
          \/ pc[r] = "token" /\ pc'[r] \in {"next", "send"}
          \/ pc[r] = "send" /\ pc'[r] \in {"done", "wait"}
          \/ pc[r] = "wait" /\ pc'[r] = "done"
      BY <2>7 DEF Exhausted, TokenRefreshFailed, TokenReady, RequestCreationFailed, Send,
                  ClientDisconnected
    <3>2. cand' = cand
      BY <2>7 DEF Exhausted, TokenRefreshFailed, TokenReady, RequestCreationFailed, Send,
                  ClientDisconnected
    <3> QED
      BY <2>2, <3>1, <3>2 DEF StepsLeft
  <2>8. CASE \/ AmbiguousTransportFailure(r) \/ RetryableResponse(r) \/ NonRetryableResponse(r)
             \/ BeginStream(r) \/ EndStream(r) \/ RelayBuffered(r)
    <3>1. \/ pc[r] = "send" /\ pc'[r] = "done"
          \/ pc[r] = "wait" /\ pc'[r] \in {"next", "stream", "done"}
          \/ pc[r] = "stream" /\ pc'[r] = "done"
      BY <2>8 DEF AmbiguousTransportFailure, GatewayError, RetryableResponse,
                  NonRetryableResponse, BeginStream, EndStream, RelayBuffered
    <3>2. cand' = cand
      BY <2>8 DEF AmbiguousTransportFailure, RetryableResponse, NonRetryableResponse,
                  BeginStream, EndStream, RelayBuffered
    <3> QED
      BY <2>2, <3>1, <3>2 DEF StepsLeft
  <2> QED
    BY <2>3, <2>4, <2>5, <2>6, <2>7, <2>8 DEF Handle
<1>2. Init => ShortInv
  <2> SUFFICES ASSUME Init, NEW r \in Requests
               PROVE  Len(cand[r]) <= Cardinality(Accounts)
    BY DEF ShortInv
  <2> QED
    BY Finiteness, FS_CardinalityType DEF Init
<1> QED
  BY <1>1, <1>2, ShortStep, Invariance, PTL DEF Spec, FailoverAdvances

-----------------------------------------------------------------------------
(* Usage counters.                                                          *)

\* The generations executed on account a whose relay has begun.
Relayed(a) == {r \in Requests : gen[r] /\ a \in charged[r] /\ pc[r] \in {"stream", "done"}}

\* The strengthening of UsageNotOvercounted that is inductive: an executed
\* generation is counted only when its relay begins.
UsageInv == \A a \in Accounts : genCount[a] <= Cardinality(Relayed(a))

\* No step takes a relayed generation back.
LEMMA RelayedGrows ==
    ASSUME IInv, Next, NEW a \in Accounts
    PROVE  Relayed(a) \subseteq Relayed(a)'
<1> SUFFICES ASSUME NEW q \in Requests, gen[q], a \in charged[q],
                    pc[q] \in {"stream", "done"}
             PROVE  gen'[q] /\ a \in charged'[q] /\ pc'[q] \in {"stream", "done"}
  BY DEF Relayed
<1> USE DEF IInv, TypeOK
<1>1. CASE Environment
  BY <1>1 DEF Environment, UpstreamAccepts, UpstreamRejects, ClientGoes,
              CooldownExpires, Login, RemoveAccount, reqVars, upVars
<1>2. ASSUME NEW r \in Requests, Handle(r)
      PROVE  /\ gen'[q] = gen[q]
             /\ charged' = charged
             /\ pc'[q] \in {"stream", "done"}
  BY <1>2 DEF Handle, RejectBody, PoolUnavailable, Select, Reserve,
    NextCandidate, Send, Exhausted, TokenRefreshFailed, TokenReady,
    RequestCreationFailed, ClientDisconnected, AmbiguousTransportFailure,
    GatewayError, RetryableResponse, NonRetryableResponse, BeginStream,
    EndStream, RelayBuffered, upVars
<1> QED
  BY <1>1, <1>2, Zenon DEF Next

\* Relayed generations are finitely many, so that they can be counted.
LEMMA RelayedFinite ==
    ASSUME NEW a \in Accounts
    PROVE  /\ IsFiniteSet(Relayed(a)) /\ Cardinality(Relayed(a)) \in Nat
           /\ IsFiniteSet(Relayed(a)') /\ Cardinality(Relayed(a)') \in Nat
<1>1. Relayed(a) \subseteq Requests /\ Relayed(a)' \subseteq Requests
  BY DEF Relayed
<1> QED
  BY <1>1, Finiteness, FS_Subset, FS_CardinalityType

\* A counter moves only when a relay begins, and then by one.
LEMMA CounterMoves ==
    ASSUME IInv, Next, NEW a \in Accounts
    PROVE  \/ genCount'[a] = genCount[a]
           \/ genCount'[a] = 0
           \/ /\ genCount'[a] = genCount[a] + 1
              /\ \E r \in Requests : r \in Relayed(a)' /\ r \notin Relayed(a)
<1> USE DEF IInv, TypeOK
<1>1. CASE Environment
  BY <1>1 DEF Environment, UpstreamAccepts, UpstreamRejects, ClientGoes,
              CooldownExpires, Login, RemoveAccount, poolVars
<1>2. ASSUME NEW r \in Requests, BeginStream(r)
      PROVE  \/ genCount'[a] = genCount[a]
             \/ /\ genCount'[a] = genCount[a] + 1
                /\ r \in Relayed(a)' /\ r \notin Relayed(a)
  <2>1. CASE UNCHANGED poolVars
    BY <2>1 DEF poolVars
  <2>2. CASE RecordSuccess(cur[r], gen[r])
    <3>1. CASE a = cur[r] /\ gen[r]
      <4>1. genCount'[a] = genCount[a] \/ genCount'[a] = genCount[a] + 1
        BY <2>2, <3>1 DEF RecordSuccess
      <4>2. r \notin Relayed(a)
        BY <1>2 DEF BeginStream, Relayed
      <4>3. a \in charged[r]
        BY <1>2, <3>1 DEF BeginStream, ChargeInv
      <4>4. r \in Relayed(a)'
        BY <1>2, <3>1, <4>3 DEF BeginStream, Relayed, upVars
      <4> QED
        BY <4>1, <4>2, <4>4
    <3>2. CASE ~(a = cur[r] /\ gen[r])
      BY <2>2, <3>2 DEF RecordSuccess
    <3> QED
      BY <3>1, <3>2
  <2> QED
    BY <1>2, <2>1, <2>2 DEF BeginStream, Persist
<1>3. ASSUME NEW r \in Requests, Handle(r), ~BeginStream(r)
      PROVE  genCount'[a] = genCount[a]
  BY <1>3 DEF Handle, RejectBody, PoolUnavailable, Select, Reserve,
    NextCandidate, Send, Exhausted, TokenRefreshFailed, TokenReady,
    RequestCreationFailed, ClientDisconnected, AmbiguousTransportFailure,
    RetryableResponse, NonRetryableResponse, EndStream, RelayBuffered,
    Persist, RecordQuotaError, RecordRestriction, RecordSuccess, poolVars
<1> QED
  BY <1>1, <1>2, <1>3 DEF Next

\* The counters stay below the relayed generations.
LEMMA UsageStep == IInv /\ UsageInv /\ [Next]_vars => UsageInv'
<1> SUFFICES ASSUME IInv, UsageInv, [Next]_vars, NEW a \in Accounts
             PROVE  genCount'[a] <= Cardinality(Relayed(a)')
  BY DEF UsageInv
<1>1. CASE UNCHANGED vars
  BY <1>1 DEF UsageInv, Relayed, vars, poolVars, reqVars, upVars
<1>2. CASE Next
  <2>1. genCount[a] \in Nat /\ genCount[a] <= Cardinality(Relayed(a))
    BY DEF IInv, TypeOK, UsageInv
  <2>2. Cardinality(Relayed(a)) <= Cardinality(Relayed(a)')
    BY <1>2, RelayedGrows, RelayedFinite, FS_Subset
  <2>3. ASSUME NEW r \in Requests, r \in Relayed(a)', r \notin Relayed(a)
        PROVE  Cardinality(Relayed(a)) + 1 <= Cardinality(Relayed(a)')
    <3>1. Relayed(a) \cup {r} \subseteq Relayed(a)'
      BY <1>2, <2>3, RelayedGrows
    <3>2. Cardinality(Relayed(a) \cup {r}) = Cardinality(Relayed(a)) + 1
      BY <2>3, RelayedFinite, FS_AddElement
    <3>3. Cardinality(Relayed(a) \cup {r}) <= Cardinality(Relayed(a)')
      BY <3>1, RelayedFinite, FS_Subset
    <3> QED
      BY <3>2, <3>3
  <2> QED
    BY <1>2, <2>1, <2>2, <2>3, CounterMoves, RelayedFinite
<1> QED
  BY <1>1, <1>2

\* least_used never counts a generation that upstream did not execute, for any
\* number of concurrent requests, failed transactions and removed accounts.
THEOREM UsageBound == Spec => []UsageNotOvercounted
<1>1. Init => UsageInv
  <2> SUFFICES ASSUME Init, NEW a \in Accounts
               PROVE  genCount[a] <= Cardinality(Relayed(a))
    BY DEF UsageInv
  <2> QED
    BY RelayedFinite DEF Init
<1>2. IInv /\ UsageInv => UsageNotOvercounted
  <2> SUFFICES ASSUME IInv, UsageInv, NEW a \in Accounts
               PROVE  genCount[a] <=
                        Cardinality({r \in Requests : gen[r] /\ a \in charged[r]})
    BY DEF UsageNotOvercounted
  <2> DEFINE Executed == {r \in Requests : gen[r] /\ a \in charged[r]}
  <2>1. Relayed(a) \subseteq Executed /\ IsFiniteSet(Executed)
    BY Finiteness, FS_Subset DEF Relayed
  <2>2. Cardinality(Relayed(a)) <= Cardinality(Executed) /\ Cardinality(Executed) \in Nat
    BY <2>1, FS_Subset, FS_CardinalityType
  <2>3. genCount[a] \in Nat /\ genCount[a] <= Cardinality(Relayed(a))
    BY DEF IInv, TypeOK, UsageInv
  <2> HIDE DEF Executed
  <2>4. genCount[a] <= Cardinality(Executed)
    BY <2>2, <2>3, RelayedFinite
  <2> QED
    BY <2>4 DEF Executed
<1> QED
  BY <1>1, <1>2, UsageStep, Invariance, PTL DEF Spec
=============================================================================
