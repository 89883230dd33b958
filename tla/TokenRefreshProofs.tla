-------------------------- MODULE TokenRefreshProofs --------------------------
(***************************************************************************)
(* Proofs about TokenRefresh for any number of callers and tokens.  The    *)
(* lock file makes the callers that ask Google one at a time; token        *)
(* numbers are never reused, so credentials that compare equal stem from   *)
(* the same login.                                                         *)
(***************************************************************************)
EXTENDS TokenRefresh, TLAPS

\* The callers between Acquire and Unlock hold the lock file.
Locked == {"check", "post", "persist", "unlock_ok", "unlock_error"}

LockInv == \A t \in Callers : phase[t] \in Locked => refreshLock = t

\* All credentials somebody knows.
Known == {stored} \cup {account[t] : t \in Callers} \cup {reply[t] : t \in Callers}

\* Tokens not issued yet are not known.
Issued(c) == c.access <= issued /\ c.refresh <= issued
IssuedInv == Issued(stored) /\ \A t \in Callers : Issued(account[t]) /\ Issued(reply[t])

\* A refresh token belongs to one login.
GrantInv == \A c, d \in Known : c.refresh = d.refresh => c.grant = d.grant

\* An answer waiting to be stored continues the grant that was refreshed.
ReplyInv == \A t \in Callers : phase[t] = "persist" => reply[t].grant = account[t].grant

\* Google still accepts its refresh token, since only the lock's holder rotates.
UsableInv == \A t \in Callers : phase[t] = "persist" => reply[t].refresh \in usable \cup lost

\* Its access token is nobody's yet.
UnseenInv ==
    \A t \in Callers : phase[t] = "persist" =>
        /\ stored.access # reply[t].access
        /\ \A u \in Callers : account[u].access # reply[t].access
        /\ posts[reply[t].access] = 0

\* Every refresh of the stored access token has failed, or is about to be
\* stored; the one about to be sent finds no other.
SentInv ==
    /\ \A a \in Token : a > issued => posts[a] = 0
    /\ \/ posts[stored.access] <= failures[stored.access]
       \/ \E t \in Callers : phase[t] = "persist" /\ account[t].access = stored.access
    /\ \A t \in Callers : phase[t] = "post" =>
           posts[account[t].access] <= failures[account[t].access]

\* Copies of the account hold tokens of state.db.
HeldInv == stored.access \in held /\ \A t \in Callers : account[t].access \in held

\* The inductive invariant.
IInv ==
    /\ TokenTypeOK /\ LockInv /\ IssuedInv /\ GrantInv /\ ReplyInv /\ UsableInv /\ UnseenInv
    /\ SentInv /\ HeldInv
    /\ LatestLoginWins /\ NoHerd /\ UsableUnlessLost

\* The first login is in the invariant.
LEMMA InitIInv == TokenInit => IInv
<1> SUFFICES ASSUME TokenInit PROVE IInv
    OBVIOUS
<1>1. 0 \in Token /\ FirstLogin \in AccountTokens
    BY RefreshAssumption DEF Token, AccountTokens, FirstLogin
<1>2. TokenTypeOK
    BY <1>1 DEF TokenInit, TokenTypeOK, Phases
<1>3. Known = {FirstLogin}
    BY DEF TokenInit, Known
<1>4. GrantInv
    BY <1>3 DEF GrantInv, Known
<1>5. LockInv /\ ReplyInv /\ UsableInv /\ UnseenInv
    BY DEF TokenInit, LockInv, Locked, ReplyInv, UsableInv, UnseenInv
<1>6. IssuedInv /\ HeldInv /\ LatestLoginWins /\ UsableUnlessLost
    BY DEF TokenInit, FirstLogin, IssuedInv, Issued, HeldInv, LatestLoginWins, UsableUnlessLost
<1>7. SentInv /\ NoHerd
    BY <1>1 DEF TokenInit, FirstLogin, SentInv, NoHerd
<1> QED
    BY <1>2, <1>4, <1>5, <1>6, <1>7 DEF IInv

\* The fields of credentials.
LEMMA Fields ==
    ASSUME NEW c \in AccountTokens
    PROVE  c.access \in Token /\ c.refresh \in Token /\ c.timed \in BOOLEAN /\ c.grant \in Token
BY DEF AccountTokens

\* Credentials hold numbers.
LEMMA Numbers ==
    \A c \in AccountTokens : c.access \in Nat /\ c.refresh \in Nat
BY DEF AccountTokens, Token

\* Tokens are numbers up to the bound.
LEMMA TokenFacts ==
    /\ \A a \in Token : a \in Nat
    /\ \A a \in Token : a < MaxToken => a + 1 \in Token
BY RefreshAssumption DEF Token

\* What Google does when it issues a token for a caller.
LEMMA IssueFacts ==
    ASSUME TokenTypeOK, NEW t \in Callers, NEW rotate \in BOOLEAN, Issue(t, rotate)
    PROVE  /\ issued' = issued + 1 /\ issued' \in Token
           /\ live' \subseteq Token /\ usable' \subseteq Token
           /\ reply' \in [Callers -> AccountTokens]
           /\ \A u \in Callers : u # t => reply'[u] = reply[u]
           /\ reply'[t].access = issued + 1
           /\ reply'[t].grant = account[t].grant
           /\ reply'[t].refresh = IF rotate THEN issued + 1 ELSE account[t].refresh
           /\ reply'[t].refresh \in usable'
           /\ usable \subseteq usable' \cup (IF rotate THEN {account[t].refresh} ELSE {})
<1> DEFINE r == [access |-> issued + 1, timed |-> TRUE, grant |-> account[t].grant,
                 refresh |-> IF rotate THEN issued + 1 ELSE account[t].refresh]
<1>1. issued + 1 \in Token /\ issued' = issued + 1
  BY TokenFacts DEF TokenTypeOK, Issue
<1>2. account[t].refresh \in Token /\ account[t].grant \in Token
  BY Fields DEF TokenTypeOK
<1>3. r \in AccountTokens
  BY <1>1, <1>2 DEF AccountTokens
<1>4. reply' = [reply EXCEPT ![t] = r]
  BY DEF Issue
<1>5. reply' \in [Callers -> AccountTokens] /\ reply'[t] = r
        /\ \A u \in Callers : u # t => reply'[u] = reply[u]
  BY <1>3, <1>4 DEF TokenTypeOK
<1>6. live' \subseteq Token /\ usable' \subseteq Token
  BY <1>1, <1>2 DEF TokenTypeOK, Issue
<1> QED
  BY <1>1, <1>5, <1>6 DEF Issue

\* Every step preserves the types.
LEMMA NextTypeOK == TokenTypeOK /\ [TokenNext]_tokenVars => TokenTypeOK'
<1> SUFFICES ASSUME TokenTypeOK, [TokenNext]_tokenVars
             PROVE  TokenTypeOK'
    OBVIOUS
<1> USE RefreshAssumption DEF TokenTypeOK, Phases, Enter, google, tokenHistory
<1>1. ASSUME NEW t \in Callers, RefreshToken(t) \/ Die(t) PROVE TokenTypeOK'
  <2>1. CASE Read(t)
    BY <2>1 DEF Read
  <2>2. CASE UseCopy(t)
    BY <2>2 DEF UseCopy
  <2>3. CASE Acquire(t)
    BY <2>3 DEF Acquire
  <2>4. CASE LookAgain(t)
    <3>1. phase' \in [Callers -> Phases] /\ account' \in [Callers -> AccountTokens]
      BY <2>4 DEF LookAgain
    <3> QED
      BY <2>4, <3>1 DEF LookAgain
  <2>5. CASE CheckFails(t)
    BY <2>5 DEF CheckFails
  <2>6. CASE Post(t)
    <3>1. PICK rotate \in BOOLEAN : Issue(t, rotate)
      BY <2>6 DEF Post
    <3>2. account[t].access \in Token
      BY Fields
    <3> QED
      BY <2>6, <3>1, <3>2, IssueFacts DEF Post
  <2>7. CASE PostFails(t)
    <3>1. account[t].access \in Token /\ account[t].refresh \in Token
      BY Fields
    <3>2. posts' \in [Token -> Nat] /\ failures' \in [Token -> Nat]
      BY <2>7, <3>1 DEF PostFails, Failed
    <3>3. CASE UNCHANGED <<google, reply, lost>>
      BY <2>7, <3>2, <3>3 DEF PostFails
    <3>4. CASE ~UNCHANGED <<google, reply, lost>>
      <4>1. PICK rotate \in BOOLEAN :
              /\ Issue(t, rotate)
              /\ lost' = IF rotate THEN lost \cup {account[t].refresh} ELSE lost
        BY <2>7, <3>4 DEF PostFails
      <4> QED
        BY <2>7, <3>1, <3>2, <4>1, IssueFacts DEF PostFails
    <3> QED
      BY <3>3, <3>4
  <2>8. CASE Store(t)
    <3>1. reply[t] \in AccountTokens /\ reply[t].access \in Token
      BY Fields
    <3> QED
      BY <2>8, <3>1 DEF Store
  <2>9. CASE StoreFails(t)
    <3>1. account[t].access \in Token /\ account[t].refresh \in Token
      BY Fields
    <3> QED
      BY <2>9, <3>1 DEF StoreFails, Failed, Dropped
  <2>10. CASE Unlock(t)
    BY <2>10 DEF Unlock
  <2>11. CASE Die(t)
    <3>1. account[t].access \in Token /\ account[t].refresh \in Token
      BY Fields
    <3>2. refreshLock' \in Callers \cup {NoCaller} /\ phase' \in [Callers -> Phases]
      BY <2>11 DEF Die
    <3>3. lost' \subseteq Token /\ failures' \in [Token -> Nat]
      BY <2>11, <3>1 DEF Die, Failed, Dropped
    <3> QED
      BY <2>11, <3>2, <3>3 DEF Die
  <2> QED
    BY <1>1, <2>1, <2>2, <2>3, <2>4, <2>5, <2>6, <2>7, <2>8, <2>9, <2>10, <2>11 DEF RefreshToken
<1>2. ASSUME NEW a \in Token, Expire(a) PROVE TokenTypeOK'
  BY <1>2 DEF Expire
<1>3. ASSUME LoginAgain PROVE TokenTypeOK'
  <2>1. issued + 1 \in Token
    BY <1>3, TokenFacts DEF LoginAgain
  <2>2. stored' \in AccountTokens
    BY <1>3, <2>1 DEF LoginAgain, AccountTokens
  <2> QED
    BY <1>3, <2>1, <2>2 DEF LoginAgain
<1>4. ASSUME ImportCurrent PROVE TokenTypeOK'
  <2>1. issued + 1 \in Token
    BY <1>4, TokenFacts DEF ImportCurrent
  <2>2. stored' \in AccountTokens
    BY <1>4, <2>1 DEF ImportCurrent, AccountTokens
  <2> QED
    BY <1>4, <2>1, <2>2 DEF ImportCurrent
<1>5. CASE UNCHANGED tokenVars
  BY <1>5 DEF tokenVars, google, tokenHistory
<1> QED
  BY <1>1, <1>2, <1>3, <1>4, <1>5 DEF TokenNext

\* One caller at a time is between Acquire and Unlock.
LEMMA NextLockInv == TokenTypeOK /\ LockInv /\ [TokenNext]_tokenVars => LockInv'
<1> SUFFICES ASSUME TokenTypeOK, LockInv, [TokenNext]_tokenVars
             PROVE  LockInv'
    OBVIOUS
<1> USE RefreshAssumption DEF TokenTypeOK, LockInv, Locked, Enter, google, tokenHistory
<1>1. ASSUME NEW t \in Callers, RefreshToken(t) \/ Die(t) PROVE LockInv'
  <2>1. CASE Read(t)
    BY <2>1 DEF Read
  <2>2. CASE UseCopy(t)
    BY <2>2 DEF UseCopy
  <2>3. CASE Acquire(t)
    BY <2>3 DEF Acquire
  <2>4. CASE LookAgain(t)
    BY <2>4 DEF LookAgain
  <2>5. CASE CheckFails(t)
    BY <2>5 DEF CheckFails
  <2>6. CASE Post(t)
    BY <2>6 DEF Post, Issue
  <2>7. CASE PostFails(t)
    BY <2>7 DEF PostFails, Issue, Failed
  <2>8. CASE Store(t)
    BY <2>8 DEF Store, StillCurrent
  <2>9. CASE StoreFails(t)
    BY <2>9 DEF StoreFails, Failed, Dropped
  <2>10. CASE Unlock(t)
    BY <2>10 DEF Unlock
  <2>11. CASE Die(t)
    BY <2>11 DEF Die, Failed, Dropped, Returned
  <2> QED
    BY <1>1, <2>1, <2>2, <2>3, <2>4, <2>5, <2>6, <2>7, <2>8, <2>9, <2>10, <2>11 DEF RefreshToken
<1>2. ASSUME NEW a \in Token, Expire(a) PROVE LockInv'
  BY <1>2 DEF Expire
<1>3. ASSUME LoginAgain PROVE LockInv'
  BY <1>3 DEF LoginAgain
<1>4. ASSUME ImportCurrent PROVE LockInv'
  BY <1>4 DEF ImportCurrent
<1>5. CASE UNCHANGED tokenVars
  BY <1>5 DEF tokenVars, google, tokenHistory
<1> QED
  BY <1>1, <1>2, <1>3, <1>4, <1>5 DEF TokenNext

\* Known tokens have been issued.
LEMMA NextIssuedInv == TokenTypeOK /\ IssuedInv /\ [TokenNext]_tokenVars => IssuedInv'
<1> SUFFICES ASSUME TokenTypeOK, IssuedInv, [TokenNext]_tokenVars
             PROVE  IssuedInv'
    OBVIOUS
<1> USE RefreshAssumption DEF TokenTypeOK, IssuedInv, Issued, Enter, google, tokenHistory
<1>1. ASSUME NEW t \in Callers, RefreshToken(t) \/ Die(t) PROVE IssuedInv'
  <2>1. CASE Read(t)
    BY <2>1 DEF Read
  <2>2. CASE UseCopy(t)
    BY <2>2 DEF UseCopy
  <2>3. CASE Acquire(t)
    BY <2>3 DEF Acquire
  <2>4. CASE LookAgain(t)
    BY <2>4 DEF LookAgain
  <2>5. CASE CheckFails(t)
    BY <2>5 DEF CheckFails
  <2>6. CASE Post(t)
    <3>1. PICK rotate \in BOOLEAN : Issue(t, rotate)
      BY <2>6 DEF Post
    <3> QED
      BY <2>6, <3>1, IssueFacts, Numbers, TokenFacts DEF Post
  <2>7. CASE PostFails(t)
    <3>1. CASE UNCHANGED <<google, reply, lost>>
      BY <2>7, <3>1, Numbers, TokenFacts DEF PostFails, Failed
    <3>2. CASE ~UNCHANGED <<google, reply, lost>>
      <4>1. PICK rotate \in BOOLEAN :
              /\ Issue(t, rotate)
              /\ lost' = IF rotate THEN lost \cup {account[t].refresh} ELSE lost
        BY <2>7, <3>2 DEF PostFails
      <4> QED
        BY <2>7, <4>1, IssueFacts, Numbers, TokenFacts DEF PostFails, Failed
    <3> QED
      BY <3>1, <3>2
  <2>8. CASE Store(t)
    BY <2>8 DEF Store, StillCurrent
  <2>9. CASE StoreFails(t)
    BY <2>9 DEF StoreFails, Failed, Dropped
  <2>10. CASE Unlock(t)
    BY <2>10 DEF Unlock
  <2>11. CASE Die(t)
    BY <2>11 DEF Die, Failed, Dropped, Returned
  <2> QED
    BY <1>1, <2>1, <2>2, <2>3, <2>4, <2>5, <2>6, <2>7, <2>8, <2>9, <2>10, <2>11 DEF RefreshToken
<1>2. ASSUME NEW a \in Token, Expire(a) PROVE IssuedInv'
  BY <1>2 DEF Expire
<1>3. ASSUME LoginAgain PROVE IssuedInv'
  <2>1. issued \in Nat /\ issued + 1 \in Token /\ issued + 1 \in Nat
    BY <1>3, TokenFacts DEF LoginAgain
  <2> QED
    BY <1>3, <2>1, Numbers, Fields DEF LoginAgain
<1>4. ASSUME ImportCurrent PROVE IssuedInv'
  <2>1. issued \in Nat /\ issued + 1 \in Token /\ issued + 1 \in Nat
    BY <1>4, TokenFacts DEF ImportCurrent
  <2> QED
    BY <1>4, <2>1, Numbers, Fields DEF ImportCurrent
<1>5. CASE UNCHANGED tokenVars
  BY <1>5 DEF tokenVars, google, tokenHistory
<1> QED
  BY <1>1, <1>2, <1>3, <1>4, <1>5 DEF TokenNext

\* What is known after a step: credentials of a grant and refresh token known
\* before, or the one new refresh token.
LEMMA KnownStep ==
    ASSUME TokenTypeOK, [TokenNext]_tokenVars
    PROVE  \E n : \A c \in Known' :
              \/ \E d \in Known : c.refresh = d.refresh /\ c.grant = d.grant
              \/ c = n /\ n.refresh = issued + 1
<1> DEFINE Old(c) == \E d \in Known : c.refresh = d.refresh /\ c.grant = d.grant
<1> USE DEF Known
<1>1. ASSUME Old(stored'), \A u \in Callers : Old(account'[u]) /\ Old(reply'[u])
      PROVE  \A c \in Known' : Old(c)
  BY <1>1
<1>2. Old(stored) /\ \A u \in Callers : Old(account[u]) /\ Old(reply[u])
  OBVIOUS
<1> HIDE DEF Old
<1>3. ASSUME NEW t \in Callers, RefreshToken(t) \/ Die(t),
             ~Post(t), ~(PostFails(t) /\ ~UNCHANGED reply)
      PROVE  \A c \in Known' : Old(c)
  <2>1. UNCHANGED reply
    BY <1>3 DEF RefreshToken, Read, UseCopy, Acquire, LookAgain, CheckFails, Store,
           StoreFails, Unlock, Die
  <2>2. stored' \in {stored, reply[t]}
    BY <1>3 DEF RefreshToken, Read, UseCopy, Acquire, LookAgain, CheckFails, PostFails,
           Store, StoreFails, Unlock, Die
  <2>3. \A u \in Callers : account'[u] \in {account[u], stored, reply[u]}
    BY <1>3 DEF RefreshToken, Read, UseCopy, Acquire, LookAgain, CheckFails, PostFails,
           Store, StoreFails, Unlock, Die, TokenTypeOK
  <2> QED
    BY <1>1, <1>2, <2>1, <2>2, <2>3
<1>4. ASSUME NEW t \in Callers, Post(t) \/ (PostFails(t) /\ ~UNCHANGED reply)
      PROVE  \A c \in Known' : Old(c) \/ (c = reply'[t] /\ reply'[t].refresh = issued + 1)
  <2>1. PICK rotate \in BOOLEAN : Issue(t, rotate)
    BY <1>4 DEF Post, PostFails
  <2>2. UNCHANGED <<stored, account>>
    BY <1>4 DEF Post, PostFails
  <2>3. Old(reply'[t]) \/ reply'[t].refresh = issued + 1
    BY <2>1, IssueFacts DEF Old
  <2>4. \A u \in Callers : Old(reply'[u]) \/ u = t
    BY <1>2, <2>1, IssueFacts
  <2> QED
    BY <1>2, <2>2, <2>3, <2>4
<1>5. ASSUME LoginAgain
      PROVE  \A c \in Known' : Old(c) \/ (c = stored' /\ stored'.refresh = issued + 1)
  BY <1>2, <1>5 DEF LoginAgain
<1>6. ASSUME ImportCurrent PROVE \A c \in Known' : Old(c)
  <2>1. Old(stored')
    BY <1>6 DEF ImportCurrent, Old, TokenTypeOK, AccountTokens
  <2> QED
    BY <1>1, <1>2, <1>6, <2>1 DEF ImportCurrent
<1>7. ASSUME UNCHANGED <<stored, account, reply>> PROVE \A c \in Known' : Old(c)
  BY <1>1, <1>2, <1>7
<1>8. CASE \E t \in Callers : Post(t) \/ (PostFails(t) /\ ~UNCHANGED reply)
  BY <1>4, <1>8 DEF Old
<1>9. CASE LoginAgain
  BY <1>5, <1>9 DEF Old
<1>10. CASE ~LoginAgain /\ ~\E t \in Callers : Post(t) \/ (PostFails(t) /\ ~UNCHANGED reply)
  <2>1. \A c \in Known' : Old(c)
    BY <1>3, <1>6, <1>7, <1>10 DEF TokenNext, Expire, tokenVars
  <2> QED
    BY <2>1 DEF Old
<1> QED
  BY <1>8, <1>9, <1>10

\* New refresh tokens have new numbers.
LEMMA NextGrantInv == TokenTypeOK /\ IssuedInv /\ GrantInv /\ [TokenNext]_tokenVars => GrantInv'
<1> SUFFICES ASSUME TokenTypeOK, IssuedInv, GrantInv, [TokenNext]_tokenVars PROVE GrantInv'
    OBVIOUS
<1>1. \A d \in Known : d.refresh # issued + 1
  BY Numbers, TokenFacts DEF IssuedInv, Issued, Known, TokenTypeOK
<1>2. PICK n : \A c \in Known' :
        \/ \E d \in Known : c.refresh = d.refresh /\ c.grant = d.grant
        \/ c = n /\ n.refresh = issued + 1
  BY KnownStep
<1> QED
  BY <1>1, <1>2 DEF GrantInv

\* An answer keeps its grant until it is stored.
LEMMA NextReplyInv == TokenTypeOK /\ LockInv /\ ReplyInv /\ [TokenNext]_tokenVars => ReplyInv'
<1> SUFFICES ASSUME TokenTypeOK, LockInv, ReplyInv, [TokenNext]_tokenVars
             PROVE  ReplyInv'
    OBVIOUS
<1> USE RefreshAssumption DEF TokenTypeOK, LockInv, Locked, ReplyInv, Enter, google,
       tokenHistory
<1>1. ASSUME NEW t \in Callers, RefreshToken(t) \/ Die(t) PROVE ReplyInv'
  <2>1. CASE Read(t)
    BY <2>1 DEF Read
  <2>2. CASE UseCopy(t)
    BY <2>2 DEF UseCopy
  <2>3. CASE Acquire(t)
    BY <2>3 DEF Acquire
  <2>4. CASE LookAgain(t)
    BY <2>4 DEF LookAgain
  <2>5. CASE CheckFails(t)
    BY <2>5 DEF CheckFails
  <2>6. CASE Post(t)
    <3>1. PICK rotate \in BOOLEAN : Issue(t, rotate)
      BY <2>6 DEF Post
    <3> QED
      BY <2>6, <3>1, IssueFacts DEF Post
  <2>7. CASE PostFails(t)
    <3>1. CASE UNCHANGED <<google, reply, lost>>
      BY <2>7, <3>1 DEF PostFails, Failed
    <3>2. CASE ~UNCHANGED <<google, reply, lost>>
      <4>1. PICK rotate \in BOOLEAN :
              /\ Issue(t, rotate)
              /\ lost' = IF rotate THEN lost \cup {account[t].refresh} ELSE lost
        BY <2>7, <3>2 DEF PostFails
      <4> QED
        BY <2>7, <4>1, IssueFacts DEF PostFails, Failed
    <3> QED
      BY <3>1, <3>2
  <2>8. CASE Store(t)
    BY <2>8 DEF Store, StillCurrent
  <2>9. CASE StoreFails(t)
    BY <2>9 DEF StoreFails, Failed, Dropped
  <2>10. CASE Unlock(t)
    BY <2>10 DEF Unlock
  <2>11. CASE Die(t)
    BY <2>11 DEF Die, Failed, Dropped, Returned
  <2> QED
    BY <1>1, <2>1, <2>2, <2>3, <2>4, <2>5, <2>6, <2>7, <2>8, <2>9, <2>10, <2>11 DEF RefreshToken
<1>2. ASSUME NEW a \in Token, Expire(a) PROVE ReplyInv'
  BY <1>2 DEF Expire
<1>3. ASSUME LoginAgain PROVE ReplyInv'
  BY <1>3 DEF LoginAgain
<1>4. ASSUME ImportCurrent PROVE ReplyInv'
  BY <1>4 DEF ImportCurrent
<1>5. CASE UNCHANGED tokenVars
  BY <1>5 DEF tokenVars, google, tokenHistory
<1> QED
  BY <1>1, <1>2, <1>3, <1>4, <1>5 DEF TokenNext

\* Nobody else rotates the refresh token of an answer.
LEMMA NextUsableInv == TokenTypeOK /\ LockInv /\ UsableInv /\ [TokenNext]_tokenVars => UsableInv'
<1> SUFFICES ASSUME TokenTypeOK, LockInv, UsableInv, [TokenNext]_tokenVars
             PROVE  UsableInv'
    OBVIOUS
<1> USE RefreshAssumption DEF TokenTypeOK, LockInv, Locked, UsableInv, Enter, google,
       tokenHistory
<1>1. ASSUME NEW t \in Callers, RefreshToken(t) \/ Die(t) PROVE UsableInv'
  <2>1. CASE Read(t)
    BY <2>1 DEF Read
  <2>2. CASE UseCopy(t)
    BY <2>2 DEF UseCopy
  <2>3. CASE Acquire(t)
    BY <2>3 DEF Acquire
  <2>4. CASE LookAgain(t)
    BY <2>4 DEF LookAgain
  <2>5. CASE CheckFails(t)
    BY <2>5 DEF CheckFails
  <2>6. CASE Post(t)
    <3>1. PICK rotate \in BOOLEAN : Issue(t, rotate)
      BY <2>6 DEF Post
    <3> QED
      BY <2>6, <3>1, IssueFacts DEF Post
  <2>7. CASE PostFails(t)
    <3>1. CASE UNCHANGED <<google, reply, lost>>
      BY <2>7, <3>1 DEF PostFails, Failed
    <3>2. CASE ~UNCHANGED <<google, reply, lost>>
      <4>1. PICK rotate \in BOOLEAN :
              /\ Issue(t, rotate)
              /\ lost' = IF rotate THEN lost \cup {account[t].refresh} ELSE lost
        BY <2>7, <3>2 DEF PostFails
      <4> QED
        BY <2>7, <4>1, IssueFacts DEF PostFails, Failed
    <3> QED
      BY <3>1, <3>2
  <2>8. CASE Store(t)
    BY <2>8 DEF Store, StillCurrent
  <2>9. CASE StoreFails(t)
    BY <2>9 DEF StoreFails, Failed, Dropped
  <2>10. CASE Unlock(t)
    BY <2>10 DEF Unlock
  <2>11. CASE Die(t)
    BY <2>11 DEF Die, Failed, Dropped, Returned
  <2> QED
    BY <1>1, <2>1, <2>2, <2>3, <2>4, <2>5, <2>6, <2>7, <2>8, <2>9, <2>10, <2>11 DEF RefreshToken
<1>2. ASSUME NEW a \in Token, Expire(a) PROVE UsableInv'
  BY <1>2 DEF Expire
<1>3. ASSUME LoginAgain PROVE UsableInv'
  BY <1>3 DEF LoginAgain
<1>4. ASSUME ImportCurrent PROVE UsableInv'
  BY <1>4 DEF ImportCurrent
<1>5. CASE UNCHANGED tokenVars
  BY <1>5 DEF tokenVars, google, tokenHistory
<1> QED
  BY <1>1, <1>2, <1>3, <1>4, <1>5 DEF TokenNext

\* The new access token stays unknown until it is stored.
LEMMA NextUnseenInv ==
    TokenTypeOK /\ LockInv /\ IssuedInv /\ SentInv /\ UnseenInv /\ [TokenNext]_tokenVars
        => UnseenInv'
<1> SUFFICES ASSUME TokenTypeOK, LockInv, IssuedInv, SentInv, UnseenInv, [TokenNext]_tokenVars
             PROVE  UnseenInv'
    OBVIOUS
<1> USE RefreshAssumption DEF TokenTypeOK, LockInv, Locked, IssuedInv, Issued, SentInv,
       UnseenInv, Enter, google, tokenHistory
<1>1. ASSUME NEW t \in Callers, RefreshToken(t) \/ Die(t) PROVE UnseenInv'
  <2>1. CASE Read(t)
    BY <2>1 DEF Read
  <2>2. CASE UseCopy(t)
    BY <2>2 DEF UseCopy
  <2>3. CASE Acquire(t)
    BY <2>3 DEF Acquire
  <2>4. CASE LookAgain(t)
    BY <2>4 DEF LookAgain
  <2>5. CASE CheckFails(t)
    BY <2>5 DEF CheckFails
  <2>6. CASE Post(t)
    <3>1. PICK rotate \in BOOLEAN : Issue(t, rotate)
      BY <2>6 DEF Post
    <3> QED
      BY <2>6, <3>1, IssueFacts, Numbers, TokenFacts, Fields DEF Post
  <2>7. CASE PostFails(t)
    <3>1. CASE UNCHANGED <<google, reply, lost>>
      BY <2>7, <3>1, Numbers, TokenFacts, Fields DEF PostFails, Failed
    <3>2. CASE ~UNCHANGED <<google, reply, lost>>
      <4>1. PICK rotate \in BOOLEAN :
              /\ Issue(t, rotate)
              /\ lost' = IF rotate THEN lost \cup {account[t].refresh} ELSE lost
        BY <2>7, <3>2 DEF PostFails
      <4> QED
        BY <2>7, <4>1, IssueFacts, Numbers, TokenFacts, Fields DEF PostFails, Failed
    <3> QED
      BY <3>1, <3>2
  <2>8. CASE Store(t)
    BY <2>8 DEF Store, StillCurrent
  <2>9. CASE StoreFails(t)
    BY <2>9 DEF StoreFails, Failed, Dropped
  <2>10. CASE Unlock(t)
    BY <2>10 DEF Unlock
  <2>11. CASE Die(t)
    BY <2>11 DEF Die, Failed, Dropped, Returned
  <2> QED
    BY <1>1, <2>1, <2>2, <2>3, <2>4, <2>5, <2>6, <2>7, <2>8, <2>9, <2>10, <2>11 DEF RefreshToken
<1>2. ASSUME NEW a \in Token, Expire(a) PROVE UnseenInv'
  BY <1>2 DEF Expire
<1>3. ASSUME LoginAgain PROVE UnseenInv'
  <2>1. issued \in Nat /\ issued + 1 \in Token /\ issued + 1 \in Nat
    BY <1>3, TokenFacts DEF LoginAgain
  <2> QED
    BY <1>3, <2>1, Numbers, Fields DEF LoginAgain
<1>4. ASSUME ImportCurrent PROVE UnseenInv'
  <2>1. issued \in Nat /\ issued + 1 \in Token /\ issued + 1 \in Nat
    BY <1>4, TokenFacts DEF ImportCurrent
  <2> QED
    BY <1>4, <2>1, Numbers, Fields DEF ImportCurrent
<1>5. CASE UNCHANGED tokenVars
  BY <1>5 DEF tokenVars, google, tokenHistory
<1> QED
  BY <1>1, <1>2, <1>3, <1>4, <1>5 DEF TokenNext

\* Only the lock's holder asks Google, and only after it has looked again.
LEMMA NextSentInv ==
    TokenTypeOK /\ LockInv /\ IssuedInv /\ UnseenInv /\ SentInv /\ NoHerd /\ [TokenNext]_tokenVars
        => SentInv'
<1> SUFFICES ASSUME TokenTypeOK, LockInv, IssuedInv, UnseenInv, SentInv, NoHerd,
                [TokenNext]_tokenVars
             PROVE  SentInv'
    OBVIOUS
<1> USE RefreshAssumption DEF TokenTypeOK, LockInv, Locked, IssuedInv, Issued, UnseenInv,
       SentInv, NoHerd, Enter, google, tokenHistory
<1>1. ASSUME NEW t \in Callers, RefreshToken(t) \/ Die(t) PROVE SentInv'
  <2>1. CASE Read(t)
    BY <2>1 DEF Read
  <2>2. CASE UseCopy(t)
    BY <2>2 DEF UseCopy
  <2>3. CASE Acquire(t)
    BY <2>3 DEF Acquire
  <2>4. CASE LookAgain(t)
    BY <2>4 DEF LookAgain
  <2>5. CASE CheckFails(t)
    BY <2>5 DEF CheckFails
  <2>6. CASE Post(t)
    <3>1. PICK rotate \in BOOLEAN : Issue(t, rotate)
      BY <2>6 DEF Post
    <3> QED
      BY <2>6, <3>1, IssueFacts, Numbers, TokenFacts, Fields DEF Post
  <2>7. CASE PostFails(t)
    <3>1. CASE UNCHANGED <<google, reply, lost>>
      BY <2>7, <3>1, Numbers, TokenFacts, Fields DEF PostFails, Failed
    <3>2. CASE ~UNCHANGED <<google, reply, lost>>
      <4>1. PICK rotate \in BOOLEAN :
              /\ Issue(t, rotate)
              /\ lost' = IF rotate THEN lost \cup {account[t].refresh} ELSE lost
        BY <2>7, <3>2 DEF PostFails
      <4> QED
        BY <2>7, <4>1, IssueFacts, Numbers, TokenFacts, Fields DEF PostFails, Failed
    <3> QED
      BY <3>1, <3>2
  <2>8. CASE Store(t)
    <3>1. reply[t].access \in Token
      BY Fields
    <3>2. posts[reply[t].access] = 0 /\ failures[reply[t].access] \in Nat
      BY <2>8, <3>1 DEF Store
    <3> QED
      BY <2>8, <3>1, <3>2 DEF Store
  <2>9. CASE StoreFails(t)
    <3>1. account[t].access \in Token /\ stored.access \in Token
      BY Fields
    <3>2. \A u \in Callers : account[u].access \in Token
      BY Fields
    <3>3. \A a \in Token : failures'[a] \in Nat /\ failures'[a] >= failures[a] /\ posts[a] \in Nat
      BY <2>9, <3>1 DEF StoreFails, Failed
    <3>4. posts[account[t].access] <= failures'[account[t].access]
      BY <2>9, <3>1 DEF StoreFails, Failed
    <3> QED
      BY <2>9, <3>1, <3>2, <3>3, <3>4 DEF StoreFails
  <2>10. CASE Unlock(t)
    BY <2>10 DEF Unlock
  <2>11. CASE Die(t)
    <3>1. account[t].access \in Token /\ stored.access \in Token
      BY Fields
    <3>2. \A u \in Callers : account[u].access \in Token
      BY Fields
    <3>3. \A a \in Token : failures'[a] \in Nat /\ failures'[a] >= failures[a] /\ posts[a] \in Nat
      BY <2>11, <3>1 DEF Die, Failed
    <3>4. phase[t] = "persist" => posts[account[t].access] <= failures'[account[t].access]
      BY <2>11, <3>1 DEF Die, Failed
    <3> QED
      BY <2>11, <3>1, <3>2, <3>3, <3>4 DEF Die
  <2> QED
    BY <1>1, <2>1, <2>2, <2>3, <2>4, <2>5, <2>6, <2>7, <2>8, <2>9, <2>10, <2>11 DEF RefreshToken
<1>2. ASSUME NEW a \in Token, Expire(a) PROVE SentInv'
  BY <1>2 DEF Expire
<1>3. ASSUME LoginAgain PROVE SentInv'
  <2>1. issued \in Nat /\ issued + 1 \in Token /\ issued + 1 \in Nat
    BY <1>3, TokenFacts DEF LoginAgain
  <2> QED
    BY <1>3, <2>1, Numbers, Fields DEF LoginAgain
<1>4. ASSUME ImportCurrent PROVE SentInv'
  <2>1. issued \in Nat /\ issued + 1 \in Token /\ issued + 1 \in Nat
    BY <1>4, TokenFacts DEF ImportCurrent
  <2>2. stored'.access = issued + 1 /\ issued' = issued + 1
    BY <1>4 DEF ImportCurrent, AccountTokens
  <2>3. posts[issued + 1] = 0 /\ failures[issued + 1] \in Nat
    BY <2>1
  <2>4. UNCHANGED <<posts, failures, phase, account>>
    BY <1>4 DEF ImportCurrent
  <2>5. posts'[stored'.access] <= failures'[stored'.access]
    BY <2>2, <2>3, <2>4
  <2>6. \A a \in Token : a > issued' => posts'[a] = 0
    BY <2>1, <2>2, <2>4, TokenFacts
  <2> QED
    BY <2>4, <2>5, <2>6
<1>5. CASE UNCHANGED tokenVars
  BY <1>5 DEF tokenVars, google, tokenHistory
<1> QED
  BY <1>1, <1>2, <1>3, <1>4, <1>5 DEF TokenNext

\* Copies are taken from state.db, or stored first.
LEMMA NextHeldInv == TokenTypeOK /\ HeldInv /\ [TokenNext]_tokenVars => HeldInv'
<1> SUFFICES ASSUME TokenTypeOK, HeldInv, [TokenNext]_tokenVars
             PROVE  HeldInv'
    OBVIOUS
<1> USE RefreshAssumption DEF TokenTypeOK, HeldInv, Enter, google, tokenHistory
<1>1. ASSUME NEW t \in Callers, RefreshToken(t) \/ Die(t) PROVE HeldInv'
  <2>1. CASE Read(t)
    BY <2>1 DEF Read
  <2>2. CASE UseCopy(t)
    BY <2>2 DEF UseCopy
  <2>3. CASE Acquire(t)
    BY <2>3 DEF Acquire
  <2>4. CASE LookAgain(t)
    BY <2>4 DEF LookAgain
  <2>5. CASE CheckFails(t)
    BY <2>5 DEF CheckFails
  <2>6. CASE Post(t)
    BY <2>6 DEF Post, Issue
  <2>7. CASE PostFails(t)
    BY <2>7 DEF PostFails, Issue, Failed
  <2>8. CASE Store(t)
    BY <2>8 DEF Store, StillCurrent
  <2>9. CASE StoreFails(t)
    BY <2>9 DEF StoreFails, Failed, Dropped
  <2>10. CASE Unlock(t)
    BY <2>10 DEF Unlock
  <2>11. CASE Die(t)
    BY <2>11 DEF Die, Failed, Dropped, Returned
  <2> QED
    BY <1>1, <2>1, <2>2, <2>3, <2>4, <2>5, <2>6, <2>7, <2>8, <2>9, <2>10, <2>11 DEF RefreshToken
<1>2. ASSUME NEW a \in Token, Expire(a) PROVE HeldInv'
  BY <1>2 DEF Expire
<1>3. ASSUME LoginAgain PROVE HeldInv'
  BY <1>3 DEF LoginAgain
<1>4. ASSUME ImportCurrent PROVE HeldInv'
  BY <1>4 DEF ImportCurrent
<1>5. CASE UNCHANGED tokenVars
  BY <1>5 DEF tokenVars, google, tokenHistory
<1> QED
  BY <1>1, <1>2, <1>3, <1>4, <1>5 DEF TokenNext

\* A refresh is stored only over credentials of the same login.
LEMMA NextLogin ==
    TokenTypeOK /\ GrantInv /\ ReplyInv /\ LatestLoginWins /\ [TokenNext]_tokenVars
        => LatestLoginWins'
<1> SUFFICES ASSUME TokenTypeOK, GrantInv, ReplyInv, LatestLoginWins, [TokenNext]_tokenVars
             PROVE  LatestLoginWins'
    OBVIOUS
<1> USE RefreshAssumption DEF TokenTypeOK, GrantInv, Known, ReplyInv, LatestLoginWins,
       Enter, google, tokenHistory
<1>1. ASSUME NEW t \in Callers, RefreshToken(t) \/ Die(t) PROVE LatestLoginWins'
  <2>1. CASE Read(t)
    BY <2>1 DEF Read
  <2>2. CASE UseCopy(t)
    BY <2>2 DEF UseCopy
  <2>3. CASE Acquire(t)
    BY <2>3 DEF Acquire
  <2>4. CASE LookAgain(t)
    BY <2>4 DEF LookAgain
  <2>5. CASE CheckFails(t)
    BY <2>5 DEF CheckFails
  <2>6. CASE Post(t)
    <3>1. PICK rotate \in BOOLEAN : Issue(t, rotate)
      BY <2>6 DEF Post
    <3> QED
      BY <2>6, <3>1, IssueFacts DEF Post
  <2>7. CASE PostFails(t)
    <3>1. CASE UNCHANGED <<google, reply, lost>>
      BY <2>7, <3>1 DEF PostFails, Failed
    <3>2. CASE ~UNCHANGED <<google, reply, lost>>
      <4>1. PICK rotate \in BOOLEAN :
              /\ Issue(t, rotate)
              /\ lost' = IF rotate THEN lost \cup {account[t].refresh} ELSE lost
        BY <2>7, <3>2 DEF PostFails
      <4> QED
        BY <2>7, <4>1, IssueFacts DEF PostFails, Failed
    <3> QED
      BY <3>1, <3>2
  <2>8. CASE Store(t)
    BY <2>8 DEF Store, StillCurrent
  <2>9. CASE StoreFails(t)
    BY <2>9 DEF StoreFails, Failed, Dropped
  <2>10. CASE Unlock(t)
    BY <2>10 DEF Unlock
  <2>11. CASE Die(t)
    BY <2>11 DEF Die, Failed, Dropped, Returned
  <2> QED
    BY <1>1, <2>1, <2>2, <2>3, <2>4, <2>5, <2>6, <2>7, <2>8, <2>9, <2>10, <2>11 DEF RefreshToken
<1>2. ASSUME NEW a \in Token, Expire(a) PROVE LatestLoginWins'
  BY <1>2 DEF Expire
<1>3. ASSUME LoginAgain PROVE LatestLoginWins'
  BY <1>3 DEF LoginAgain
<1>4. ASSUME ImportCurrent PROVE LatestLoginWins'
  BY <1>4 DEF ImportCurrent
<1>5. CASE UNCHANGED tokenVars
  BY <1>5 DEF tokenVars, google, tokenHistory
<1> QED
  BY <1>1, <1>2, <1>3, <1>4, <1>5 DEF TokenNext

\* A refresh that is sent finds all earlier ones failed.
LEMMA NextNoHerd == TokenTypeOK /\ SentInv /\ NoHerd /\ [TokenNext]_tokenVars => NoHerd'
<1> SUFFICES ASSUME TokenTypeOK, SentInv, NoHerd, [TokenNext]_tokenVars
             PROVE  NoHerd'
    OBVIOUS
<1> USE RefreshAssumption DEF TokenTypeOK, SentInv, NoHerd, Enter, google, tokenHistory
<1>1. ASSUME NEW t \in Callers, RefreshToken(t) \/ Die(t) PROVE NoHerd'
  <2>1. CASE Read(t)
    BY <2>1 DEF Read
  <2>2. CASE UseCopy(t)
    BY <2>2 DEF UseCopy
  <2>3. CASE Acquire(t)
    BY <2>3 DEF Acquire
  <2>4. CASE LookAgain(t)
    BY <2>4 DEF LookAgain
  <2>5. CASE CheckFails(t)
    BY <2>5 DEF CheckFails
  <2>6. CASE Post(t)
    <3>1. PICK rotate \in BOOLEAN : Issue(t, rotate)
      BY <2>6 DEF Post
    <3> QED
      BY <2>6, <3>1, IssueFacts, Fields DEF Post
  <2>7. CASE PostFails(t)
    <3>1. CASE UNCHANGED <<google, reply, lost>>
      BY <2>7, <3>1, Fields DEF PostFails, Failed
    <3>2. CASE ~UNCHANGED <<google, reply, lost>>
      <4>1. PICK rotate \in BOOLEAN :
              /\ Issue(t, rotate)
              /\ lost' = IF rotate THEN lost \cup {account[t].refresh} ELSE lost
        BY <2>7, <3>2 DEF PostFails
      <4> QED
        BY <2>7, <4>1, IssueFacts, Fields DEF PostFails, Failed
    <3> QED
      BY <3>1, <3>2
  <2>8. CASE Store(t)
    BY <2>8 DEF Store, StillCurrent
  <2>9. CASE StoreFails(t)
    BY <2>9 DEF StoreFails, Failed, Dropped
  <2>10. CASE Unlock(t)
    BY <2>10 DEF Unlock
  <2>11. CASE Die(t)
    BY <2>11 DEF Die, Failed, Dropped, Returned
  <2> QED
    BY <1>1, <2>1, <2>2, <2>3, <2>4, <2>5, <2>6, <2>7, <2>8, <2>9, <2>10, <2>11 DEF RefreshToken
<1>2. ASSUME NEW a \in Token, Expire(a) PROVE NoHerd'
  BY <1>2 DEF Expire
<1>3. ASSUME LoginAgain PROVE NoHerd'
  BY <1>3 DEF LoginAgain
<1>4. ASSUME ImportCurrent PROVE NoHerd'
  BY <1>4 DEF ImportCurrent
<1>5. CASE UNCHANGED tokenVars
  BY <1>5 DEF tokenVars, google, tokenHistory
<1> QED
  BY <1>1, <1>2, <1>3, <1>4, <1>5 DEF TokenNext

\* A rotated refresh token is replaced in state.db or counted as lost.
LEMMA NextUsable ==
    TokenTypeOK /\ LockInv /\ UsableInv /\ UsableUnlessLost /\ [TokenNext]_tokenVars
        => UsableUnlessLost'
<1> SUFFICES ASSUME TokenTypeOK, LockInv, UsableInv, UsableUnlessLost, [TokenNext]_tokenVars
             PROVE  UsableUnlessLost'
    OBVIOUS
<1> USE RefreshAssumption DEF TokenTypeOK, LockInv, Locked, UsableInv, UsableUnlessLost,
       Enter, google, tokenHistory
<1>1. ASSUME NEW t \in Callers, RefreshToken(t) \/ Die(t) PROVE UsableUnlessLost'
  <2>1. CASE Read(t)
    BY <2>1 DEF Read
  <2>2. CASE UseCopy(t)
    BY <2>2 DEF UseCopy
  <2>3. CASE Acquire(t)
    BY <2>3 DEF Acquire
  <2>4. CASE LookAgain(t)
    BY <2>4 DEF LookAgain
  <2>5. CASE CheckFails(t)
    BY <2>5 DEF CheckFails
  <2>6. CASE Post(t)
    <3>1. PICK rotate \in BOOLEAN : Issue(t, rotate)
      BY <2>6 DEF Post
    <3> QED
      BY <2>6, <3>1, IssueFacts DEF Post
  <2>7. CASE PostFails(t)
    <3>1. CASE UNCHANGED <<google, reply, lost>>
      BY <2>7, <3>1 DEF PostFails, Failed
    <3>2. CASE ~UNCHANGED <<google, reply, lost>>
      <4>1. PICK rotate \in BOOLEAN :
              /\ Issue(t, rotate)
              /\ lost' = IF rotate THEN lost \cup {account[t].refresh} ELSE lost
        BY <2>7, <3>2 DEF PostFails
      <4> QED
        BY <2>7, <4>1, IssueFacts DEF PostFails, Failed
    <3> QED
      BY <3>1, <3>2
  <2>8. CASE Store(t)
    BY <2>8 DEF Store, StillCurrent
  <2>9. CASE StoreFails(t)
    BY <2>9 DEF StoreFails, Failed, Dropped
  <2>10. CASE Unlock(t)
    BY <2>10 DEF Unlock
  <2>11. CASE Die(t)
    BY <2>11 DEF Die, Failed, Dropped, Returned
  <2> QED
    BY <1>1, <2>1, <2>2, <2>3, <2>4, <2>5, <2>6, <2>7, <2>8, <2>9, <2>10, <2>11 DEF RefreshToken
<1>2. ASSUME NEW a \in Token, Expire(a) PROVE UsableUnlessLost'
  BY <1>2 DEF Expire
<1>3. ASSUME LoginAgain PROVE UsableUnlessLost'
  BY <1>3 DEF LoginAgain
<1>4. ASSUME ImportCurrent PROVE UsableUnlessLost'
  BY <1>4 DEF ImportCurrent
<1>5. CASE UNCHANGED tokenVars
  BY <1>5 DEF tokenVars, google, tokenHistory
<1> QED
  BY <1>1, <1>2, <1>3, <1>4, <1>5 DEF TokenNext

\* The invariant is inductive.
THEOREM Invariance == TokenSpec => []IInv
<1>1. IInv /\ [TokenNext]_tokenVars => IInv'
    BY NextTypeOK, NextLockInv, NextIssuedInv, NextGrantInv, NextReplyInv, NextUsableInv,
       NextUnseenInv, NextSentInv, NextHeldInv, NextLogin, NextNoHerd, NextUsable DEF IInv
<1> QED
    BY <1>1, InitIInv, PTL DEF TokenSpec

\* The credentials, the lock file and the counters are well-typed.
THEOREM TypeCorrect == TokenSpec => []TokenTypeOK
BY Invariance, PTL DEF IInv

\* No refresh, however late, brings back credentials from before the last login.
THEOREM LoginSurvives == TokenSpec => []LatestLoginWins
BY Invariance, PTL DEF IInv

\* Any number of callers that find a token expired cause one refresh, and
\* another only after a failure.
THEOREM HerdIsOne == TokenSpec => []NoHerd
BY Invariance, PTL DEF IInv

\* Whoever gets a token gets one that state.db has held.
THEOREM HeldTokens == TokenSpec => []HandsOutHeldTokens
<1>1. IInv => HandsOutHeldTokens
    BY DEF IInv, HeldInv, HandsOutHeldTokens
<1> QED
    BY <1>1, Invariance, PTL

\* The stored refresh token stops working only when a rotation could not be
\* stored.
THEOREM RefreshTokenKept == TokenSpec => []UsableUnlessLost
BY Invariance, PTL DEF IInv

=============================================================================
