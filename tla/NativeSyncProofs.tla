-------------------------- MODULE NativeSyncProofs --------------------------
(***************************************************************************)
(* Proofs about NativeSync, for any number of accounts and operations.     *)
(* The token file is written under its lock only, so what the holder of    *)
(* the lock has read stays true of the file, and of state.db too as long   *)
(* as nobody writes there without the lock.                                *)
(***************************************************************************)
EXTENDS NativeSync, FiniteSetTheorems, SequenceTheorems, TLAPS

\* Between Lock and Release an operation holds the token file's lock.
Holding == PC \ (Final \cup {"start"})
LockInv == \A o \in Ops : pc[o] \in Holding => lock = o

\* The operation has chosen credentials, for the file or in it.
Chosen(o) == pc[o] \in {"refresh", "write"} \/ (pc[o] = "commit" /\ chosen[o] # None)

\* What an operation knows whatever happens beside it.
LocalInv(o) ==
    /\ pc[o] = "start" =>
        attempt[o] = 0 /\ chosen[o] = None /\ previous[o] = None /\ target[o] = NoAccount
    /\ pc[o] \in {"read", "refresh", "recheck"} => attempt[o] < MaxAttempts
    /\ pc[o] = "read" /\ Kind[o] # "sync" => chosen[o] = None /\ previous[o] = None
    /\ pc[o] \in {"refresh", "recheck", "write"} => chosen[o].acct \in Accounts
    /\ pc[o] = "recheck" => Kind[o] = "sync"
    /\ pc[o] \in {"commit", "rollback"} => Kind[o] # "sync"
    /\ pc[o] = "commit" =>
        \/ chosen[o].acct \in Accounts /\ file = chosen[o]
        \/ Kind[o] = "remove" /\ chosen[o] = None /\ previous[o] = None
    /\ previous[o] = None \/ previous[o].acct \in Accounts
    /\ pc[o] = "rollback" => previous[o].acct \in Accounts

\* The file belongs to whom it belonged, or what a rollback restores does.
IdentityInv(o) ==
    /\ pc[o] \in {"refresh", "recheck", "write"} \/ (pc[o] = "commit" /\ ~Chosen(o)) =>
        file.acct = owner
    /\ Kind[o] # "sync" /\ (Chosen(o) \/ pc[o] = "rollback") => previous[o].acct = base
    /\ Kind[o] = "remove" /\ Chosen(o) => previous[o] # None
    /\ pc[o] = "release_error" =>
        Restored \/ (Kind[o] = "switch" /\ base = NoAccount /\ file = chosen[o])

\* What it read about state.db is still so.
StillSo(o) ==
    /\ pc[o] \in {"refresh", "recheck", "write", "commit"} => active = base
    /\ Chosen(o) \/ pc[o] = "recheck" => chosen[o].ver = cred[chosen[o].acct]
    /\ Kind[o] = "sync" /\ pc[o] = "write" => active = chosen[o].acct
    /\ Kind[o] = "remove" /\ Chosen(o) =>
        active = target[o] /\ chosen[o].acct = Replacement(pool, target[o])
    /\ Kind[o] = "remove" /\ pc[o] = "commit" /\ ~Chosen(o) =>
        active # target[o] \/ Replacement(pool, target[o]) = NoAccount

\* The stores agree after a success.
Agreement(o) ==
    pc[o] = "release_ok" =>
        CASE Kind[o] # "remove" -> Agree
          [] Kind[o] = "remove" -> Agreed \/ chosen[o] # None => SameIdentity

QuietInv(o) == quiet => StillSo(o) /\ Agreement(o)

\* The inductive invariant.
IInv ==
    /\ TypeOK /\ LockInv /\ ActiveIsMember
    /\ \A o \in Ops : LocalInv(o) /\ IdentityInv(o) /\ QuietInv(o)

-----------------------------------------------------------------------------
(* The pool as a sequence.                                                 *)

\* Removing an element that occurs once leaves the others.
LEMMA RemoveFacts ==
    ASSUME NEW S, NEW s \in Seq(S), IsInjective(s), NEW e
    PROVE  /\ RemoveFirst(s, e) \in Seq(S) /\ IsInjective(RemoveFirst(s, e))
           /\ ToSet(RemoveFirst(s, e)) = ToSet(s) \ {e}
<1> DEFINE I == {i \in 1 .. Len(s) : s[i] = e}
           r == RemoveFirst(s, e)
<1>1. CASE I = {}
    <2>1. ~\E i \in 1 .. Len(s) : s[i] = e
        BY <1>1
    <2>2. e \notin ToSet(s)
        BY <2>1 DEF ToSet
    <2>3. r = s
        BY <2>1 DEF RemoveFirst
    <2> QED
        BY <2>2, <2>3
<1>2. CASE I # {}
    <2>1. PICK k \in 1 .. Len(s) : s[k] = e
        BY <1>2
    <2>2. I = {k}
        BY <2>1 DEF IsInjective
    <2>3. Min({k}) = k
        BY DEF Min
    <2>4. SelectInSeq(s, LAMBDA v : v = e) = k
        BY <1>2, <2>2, <2>3 DEF SelectInSeq
    <2>5. r = SubSeq(s, 1, k - 1) \o SubSeq(s, k + 1, Len(s))
        BY <2>1, <2>4 DEF RemoveFirst, RemoveAt
    <2> HIDE DEF r
    <2> DEFINE t == SubSeq(s, 1, k - 1)
               u == SubSeq(s, k + 1, Len(s))
    <2>t. /\ t \in Seq(S) /\ Len(t) = k - 1
          /\ \A i \in 1 .. k - 1 : t[i] = s[i]
        BY SubSeqProperties
    <2>u. /\ u \in Seq(S) /\ Len(u) = Len(s) - k
          /\ \A i \in 1 .. Len(s) - k : u[i] = s[k + i]
        BY SubSeqProperties
    <2>c. r = t \o u
        BY <2>5
    <2> HIDE DEF t, u
    <2>6. r \in Seq(S) /\ Len(r) = Len(s) - 1
        <3>1. t \o u \in Seq(S) /\ Len(t \o u) = Len(t) + Len(u)
            BY <2>t, <2>u, ConcatProperties
        <3>2. k - 1 + (Len(s) - k) = Len(s) - 1
            OBVIOUS
        <3> QED
            BY <2>c, <2>t, <2>u, <3>1, <3>2
    <2>7. \A i \in 1 .. Len(r) : r[i] = IF i < k THEN s[i] ELSE s[i + 1]
        BY <2>c, <2>6, <2>t, <2>u, ConcatProperties
    <2>8. IsInjective(r)
        <3> SUFFICES ASSUME NEW i \in 1 .. Len(r), NEW j \in 1 .. Len(r), r[i] = r[j]
                     PROVE  i = j
            BY <2>6 DEF IsInjective
        <3>1. \A m, n \in 1 .. Len(s) : s[m] = s[n] => m = n
            BY DEF IsInjective
        <3>2. i \in 1 .. Len(s) /\ j \in 1 .. Len(s) /\ i + 1 \in 1 .. Len(s) /\ j + 1 \in 1 .. Len(s)
            BY <2>6
        <3> QED
            BY <2>7, <3>1, <3>2
    <2>9. ASSUME NEW x \in ToSet(r) PROVE x \in ToSet(s) \ {e}
        <3>1. PICK i \in 1 .. Len(r) : r[i] = x
            BY <2>6 DEF ToSet
        <3>2. PICK j \in 1 .. Len(s) : s[j] = x /\ j # k
            BY <2>6, <2>7, <3>1
        <3> QED
            BY <2>1, <3>2 DEF ToSet, IsInjective
    <2>10. ASSUME NEW x \in ToSet(s) \ {e} PROVE x \in ToSet(r)
        <3>1. PICK j \in 1 .. Len(s) : s[j] = x /\ j # k
            BY <2>1 DEF ToSet
        <3>2. CASE j < k
            BY <2>1, <2>6, <2>7, <3>1, <3>2 DEF ToSet
        <3>3. CASE j > k
            <4>1. j - 1 \in 1 .. Len(r) /\ r[j - 1] = x
                BY <2>1, <2>6, <2>7, <3>1, <3>3
            <4> QED
                BY <2>6, <4>1 DEF ToSet
        <3> QED
            BY <3>1, <3>2, <3>3
    <2> QED
        BY <2>6, <2>8, <2>9, <2>10 DEF r
<1> QED
    BY <1>1, <1>2

\* The replacement is one of the remaining accounts, if there are any.
LEMMA ReplacementFacts ==
    ASSUME NEW s \in Seq(Accounts), IsInjective(s), NEW a
    PROVE  /\ Replacement(s, a) \in ToSet(RemoveFirst(s, a)) \cup {NoAccount}
           /\ Replacement(s, a) \in Accounts \cup {NoAccount}
           /\ Replacement(s, a) # a \/ a = NoAccount
<1>1. RemoveFirst(s, a) \in Seq(Accounts) /\ ToSet(RemoveFirst(s, a)) = ToSet(s) \ {a}
    BY RemoveFacts
<1> DEFINE r == RemoveFirst(s, a)
<1>2. CASE r = <<>>
    BY <1>2 DEF Replacement
<1>3. CASE r # <<>>
    <2>1. Head(r) \in Accounts /\ Head(r) \in ToSet(r)
        BY <1>1, <1>3 DEF ToSet
    <2> QED
        BY <1>1, <1>3, <2>1 DEF Replacement
<1> QED
    BY <1>2, <1>3

\* A sequence of the initial states.
LEMMA FirstPools ==
    ASSUME NEW s \in SetToAllKPermutations(Accounts)
    PROVE  s \in Seq(Accounts) /\ IsInjective(s)
<1>1. PICK T \in SUBSET Accounts : s \in SetToSeqs(T)
    BY DEF SetToAllKPermutations
<1>2. Cardinality(T) \in Nat
    BY SyncAssumption, FS_Subset, FS_CardinalityType
<1> QED
    BY <1>1, <1>2 DEF SetToSeqs, IsInjective

\* Appending a new element.
LEMMA AppendFacts ==
    ASSUME NEW S, NEW s \in Seq(S), IsInjective(s), NEW e \in S, e \notin ToSet(s)
    PROVE  /\ Append(s, e) \in Seq(S) /\ IsInjective(Append(s, e))
           /\ ToSet(Append(s, e)) = ToSet(s) \cup {e}
<1>1. /\ Append(s, e) \in Seq(S) /\ Len(Append(s, e)) = Len(s) + 1
      /\ \A i \in 1 .. Len(s) + 1 : Append(s, e)[i] = IF i <= Len(s) THEN s[i] ELSE e
    OBVIOUS
<1>2. \A i \in 1 .. Len(s) : s[i] # e
    BY DEF ToSet
<1>3. IsInjective(Append(s, e))
    BY <1>1, <1>2 DEF IsInjective
<1>4. ToSet(Append(s, e)) = ToSet(s) \cup {e}
    <2>1. \A x \in ToSet(Append(s, e)) : x \in ToSet(s) \cup {e}
        BY <1>1 DEF ToSet
    <2>2. \A x \in ToSet(s) : x \in ToSet(Append(s, e))
        BY <1>1 DEF ToSet
    <2>3. e \in ToSet(Append(s, e))
        BY <1>1 DEF ToSet
    <2> QED
        BY <2>1, <2>2, <2>3
<1> QED
    BY <1>1, <1>3, <1>4

-----------------------------------------------------------------------------
(* The initial states, the types and the lock.                             *)

\* At first nobody holds the lock.
LEMMA InitIInv == Init => IInv
<1> SUFFICES ASSUME Init PROVE IInv
    OBVIOUS
<1>1. pool \in Seq(Accounts) /\ IsInjective(pool)
    BY FirstPools DEF Init
<1>2. Members \subseteq Accounts
    BY <1>1 DEF Members, ToSet
<1>3. None \in Credentials /\ \A a \in Accounts : [acct |-> a, ver |-> 0] \in Credentials
    BY SyncAssumption DEF None, Credentials
<1>4. TypeOK
    <2>1. active \in Accounts \cup {NoAccount} /\ file \in Credentials
        BY <1>2, <1>3 DEF Init
    <2>2. 0 \in 0 .. MaxCred /\ 0 \in 0 .. MaxAttempts
        BY SyncAssumption DEF MaxAttempts
    <2> QED
        BY <1>1, <1>3, <2>1, <2>2 DEF Init, TypeOK, PC
<1>5. LockInv /\ ActiveIsMember
    BY DEF Init, LockInv, Holding, ActiveIsMember
<1>6. \A o \in Ops : LocalInv(o) /\ IdentityInv(o) /\ QuietInv(o)
    BY SyncAssumption DEF Init, LocalInv, IdentityInv, Chosen, QuietInv, MaxAttempts
<1> QED
    BY <1>4, <1>5, <1>6 DEF IInv

\* Copies and renewals are credentials of their account.
LEMMA CopyFacts ==
    ASSUME TypeOK
    PROVE  /\ None \in Credentials /\ None.acct = NoAccount
           /\ \A a \in Accounts : /\ Copy(a) \in Credentials /\ Copy(a) # None
                                 /\ Copy(a).acct = a /\ Copy(a).ver = cred[a]
           /\ Copy(NoAccount) = None
           /\ Members \subseteq Accounts
<1>1. \A a \in Accounts : a # NoAccount /\ cred[a] \in 0 .. MaxCred
    BY SyncAssumption DEF TypeOK
<1>2. 0 \in 0 .. MaxCred
    BY SyncAssumption
<1> QED
    BY <1>1, <1>2 DEF Copy, None, Credentials, TypeOK, Members, ToSet

LEMMA RenewalFacts ==
    ASSUME TypeOK, NEW d \in Credentials, d.acct \in Accounts, NEW c \in Renewals(d)
    PROVE  /\ c \in Credentials /\ c.acct = d.acct
           /\ c.ver \in {d.ver, cred[d.acct], cred[d.acct] + 1}
           /\ [cred EXCEPT ![c.acct] = IF c.ver > @ THEN c.ver ELSE @] \in [Accounts -> 0 .. MaxCred]
<1>1. Copy(d.acct) \in Credentials /\ Copy(d.acct).acct = d.acct /\ Copy(d.acct).ver = cred[d.acct]
    BY CopyFacts
<1>2. c \in Credentials /\ c.acct = d.acct /\ c.ver \in {d.ver, cred[d.acct], cred[d.acct] + 1}
    <2>1. CASE c \in {d, Copy(d.acct)}
        BY <1>1, <2>1
    <2>2. CASE c \notin {d, Copy(d.acct)}
        <3>1. PICK v \in {cred[d.acct] + 1} \cap (0 .. MaxCred) : c = [acct |-> d.acct, ver |-> v]
            BY <2>2 DEF Renewals
        <3> QED
            BY <3>1 DEF Credentials
    <2> QED
        BY <2>1, <2>2
<1>3. c.ver \in 0 .. MaxCred
    BY <1>2 DEF Credentials
<1> QED
    BY <1>2, <1>3 DEF TypeOK

\* Every step keeps the types.
LEMMA NextTypeOK == IInv /\ [Next]_vars => TypeOK'
<1> SUFFICES ASSUME IInv, [Next]_vars PROVE TypeOK'
    OBVIOUS
<1> USE SyncAssumption DEF IInv, TypeOK, Goto, local, history
<1>a. /\ None \in Credentials /\ Members \subseteq Accounts
      /\ \A a \in Accounts \cup {NoAccount} : Copy(a) \in Credentials
    BY CopyFacts
<1>b. ASSUME Observe
      PROVE  /\ owner' \in Accounts \cup {NoAccount} /\ base' \in Accounts \cup {NoAccount}
             /\ quiet' \in BOOLEAN
    BY <1>b DEF Observe, Credentials
<1>1. ASSUME NEW o \in Ops, Lock(o) \/ ReadFails(o) \/ SyncFails(o) \/ CommitFails(o) \/ RollbackFails(o)
      PROVE TypeOK'
    <2>1. CASE Lock(o)
        BY <2>1 DEF Lock, PC
    <2>2. CASE ReadFails(o)
        BY <2>2, <1>b DEF ReadFails, PC
    <2>3. CASE SyncFails(o) \/ CommitFails(o) \/ RollbackFails(o)
        BY <2>3 DEF SyncFails, CommitFails, RollbackFails, PC
    <2> QED
        BY <1>1, <2>1, <2>2, <2>3
<1>2. ASSUME NEW o \in Ops, ReadActive(o) PROVE TypeOK'
    <2>1. active \in Members => Copy(active) \in Credentials
        BY <1>a
    <2>2. chosen' \in [Ops -> Credentials] /\ pc' \in [Ops -> PC]
        BY <1>2, <2>1, ZenonT(30) DEF ReadActive, PC
    <2> QED
        BY <1>2, <2>2, <1>b DEF ReadActive
<1>3. ASSUME NEW o \in Ops, ReadSelected(o) PROVE TypeOK'
    <2>1. chosen' \in [Ops -> Credentials] /\ previous' \in [Ops -> Credentials]
        BY <1>3, <1>a DEF ReadSelected
    <2> QED
        BY <1>3, <2>1, <1>b DEF ReadSelected, PC
<1>4. ASSUME NEW o \in Ops, ReadTarget(o) PROVE TypeOK'
    <2>1. PICK a \in Members :
            /\ target' = [target EXCEPT ![o] = a]
            /\ \/ /\ Replacement(pool, a) # NoAccount
                  /\ chosen' = [chosen EXCEPT ![o] = Copy(Replacement(pool, a))]
                  /\ previous' = [previous EXCEPT ![o] = Copy(a)]
                  /\ pc' = [pc EXCEPT ![o] = "refresh"]
               \/ pc' = [pc EXCEPT ![o] = "commit"] /\ UNCHANGED <<chosen, previous>>
        BY <1>4 DEF ReadTarget
    <2>2. Replacement(pool, a) \in Accounts \cup {NoAccount}
        BY ReplacementFacts
    <2>3. Copy(Replacement(pool, a)) \in Credentials /\ Copy(a) \in Credentials /\ a \in Accounts
        BY <1>a, <2>2
    <2>4. chosen' \in [Ops -> Credentials] /\ previous' \in [Ops -> Credentials]
        <3>1. CASE UNCHANGED <<chosen, previous>>
            BY <3>1
        <3>2. CASE /\ chosen' = [chosen EXCEPT ![o] = Copy(Replacement(pool, a))]
                   /\ previous' = [previous EXCEPT ![o] = Copy(a)]
            BY <2>3, <3>2
        <3> QED
            BY <2>1, <3>1, <3>2
    <2>5. target' \in [Ops -> Accounts \cup {NoAccount}] /\ pc' \in [Ops -> PC]
        BY <2>1, <2>3 DEF PC
    <2> QED
        BY <1>4, <2>4, <2>5, <1>b DEF ReadTarget
<1>5. ASSUME NEW o \in Ops, Refresh(o) PROVE TypeOK'
    <2>1. PICK c \in Renewals(chosen[o]) :
            /\ chosen' = [chosen EXCEPT ![o] = c]
            /\ cred' = [cred EXCEPT ![c.acct] = IF c.ver > @ THEN c.ver ELSE @]
        BY <1>5 DEF Refresh
    <2>2. chosen[o].acct \in Accounts
        BY <1>5 DEF Refresh, LocalInv
    <2>3. c \in Credentials /\ cred' \in [Accounts -> 0 .. MaxCred]
        BY <2>1, <2>2, RenewalFacts
    <2> QED
        BY <1>5, <2>1, <2>3 DEF Refresh, PC
<1>6. ASSUME NEW o \in Ops, Recheck(o) PROVE TypeOK'
    <2>1. attempt[o] < MaxAttempts /\ attempt[o] \in 0 .. MaxAttempts
        BY <1>6 DEF Recheck, LocalInv
    <2>2. attempt[o] + 1 \in 0 .. MaxAttempts
        BY <2>1 DEF MaxAttempts
    <2> QED
        BY <1>6, <2>2 DEF Recheck, PC
<1>7. ASSUME NEW o \in Ops, Write(o) PROVE TypeOK'
    BY <1>7 DEF Write, PC
<1>8. ASSUME NEW o \in Ops, CommitSwitch(o) PROVE TypeOK'
    BY <1>8, <1>a DEF CommitSwitch, PC
<1>9. ASSUME NEW o \in Ops, CommitRemove(o) PROVE TypeOK'
    <2>1. pool' \in Seq(Accounts) /\ IsInjective(pool')
        BY <1>9, RemoveFacts DEF CommitRemove
    <2>2. active' \in Accounts \cup {NoAccount}
        BY <1>9, ReplacementFacts DEF CommitRemove
    <2> QED
        BY <1>9, <2>1, <2>2 DEF CommitRemove, PC
<1>10. ASSUME NEW o \in Ops, Rollback(o) PROVE TypeOK'
    <2>1. PICK c \in Renewals(previous[o]) :
            /\ file' = c
            /\ cred' = [cred EXCEPT ![c.acct] = IF c.ver > @ THEN c.ver ELSE @]
        BY <1>10 DEF Rollback
    <2>2. previous[o].acct \in Accounts
        BY <1>10 DEF Rollback, LocalInv
    <2>3. c \in Credentials /\ cred' \in [Accounts -> 0 .. MaxCred]
        BY <2>1, <2>2, RenewalFacts
    <2> QED
        BY <1>10, <2>1, <2>3 DEF Rollback, PC
<1>11. ASSUME NEW o \in Ops, Release(o) \/ Crash(o) PROVE TypeOK'
    <2>1. PICK l \in {"ok", "error", "crashed"} : Leave(o, l)
        BY <1>11 DEF Release, Crash
    <2>2. 0 \in 0 .. MaxAttempts /\ l \in PC
        BY DEF MaxAttempts, PC
    <2> QED
        BY <1>a, <2>1, <2>2 DEF Leave
<1>12. ASSUME NEW a \in Accounts, Promote(a) \/ RefreshElsewhere(a) \/ Login(a) PROVE TypeOK'
    <2>1. CASE Promote(a)
        BY <2>1 DEF Promote
    <2>2. CASE RefreshElsewhere(a)
        <3>1. cred[a] + 1 \in 0 .. MaxCred
            BY <2>2 DEF RefreshElsewhere
        <3> QED
            BY <2>2, <3>1 DEF RefreshElsewhere
    <2>3. CASE Login(a)
        <3>1. cred[a] + 1 \in 0 .. MaxCred
            BY <2>3 DEF Login
        <3>2. pool' \in Seq(Accounts) /\ IsInjective(pool')
            BY <2>3, AppendFacts DEF Login, Members
        <3>3. active' \in Accounts \cup {NoAccount}
            BY <2>3 DEF Login
        <3> QED
            BY <2>3, <3>1, <3>2, <3>3 DEF Login
    <2> QED
        BY <1>12, <2>1, <2>2, <2>3
<1>13. CASE UNCHANGED vars
    BY <1>13 DEF vars
<1> QED
    BY <1>1, <1>2, <1>3, <1>4, <1>5, <1>6, <1>7, <1>8, <1>9, <1>10, <1>11, <1>12, <1>13
    DEF Next, Step

\* The holder alone takes steps that need the lock.
LEMMA NextLock == IInv /\ [Next]_vars => LockInv'
<1> SUFFICES ASSUME IInv, [Next]_vars PROVE LockInv'
    OBVIOUS
<1> USE SyncAssumption DEF IInv, TypeOK, LockInv, Goto
<1>1. ASSUME NEW o \in Ops, Lock(o) PROVE LockInv'
    BY <1>1 DEF Lock, Holding
<1>2. ASSUME NEW o \in Ops, Step(o), ~Lock(o), ~Release(o) PROVE LockInv'
    <2>1. pc[o] \in Holding /\ lock' = lock /\ \A p \in Ops \ {o} : pc'[p] = pc[p]
        BY <1>2 DEF Step, ReadFails, ReadActive, ReadSelected, ReadTarget, Refresh, SyncFails,
            Recheck, Write, CommitSwitch, CommitRemove, CommitFails, Rollback, RollbackFails,
            Holding, PC, Final
    <2> QED
        BY <2>1
<1>3. ASSUME NEW o \in Ops, Release(o) \/ Crash(o) PROVE LockInv'
    <2>1. pc[o] \in Holding
        BY <1>3 DEF Release, Crash, Holding, PC, Final
    <2>2. PICK l \in Final : Leave(o, l)
        BY <1>3 DEF Release, Crash, Final
    <2>3. pc' = [pc EXCEPT ![o] = l] /\ l \notin Holding
        BY <2>2 DEF Leave, Holding
    <2>4. \A p \in Ops \ {o} : pc[p] \notin Holding
        BY <2>1
    <2> QED
        BY <2>3, <2>4
<1>4. ASSUME NEW a \in Accounts, Promote(a) \/ RefreshElsewhere(a) \/ Login(a) PROVE LockInv'
    BY <1>4 DEF Promote, RefreshElsewhere, Login
<1>5. CASE UNCHANGED vars
    BY <1>5 DEF vars
<1> QED
    BY <1>1, <1>2, <1>3, <1>4, <1>5 DEF Next

\* The active account stays in the pool: a switch chooses a member of the pool
\* its transaction sees, and a removal replaces the account it removes.
LEMMA NextMember == IInv /\ [Next]_vars => ActiveIsMember'
<1> SUFFICES ASSUME IInv, [Next]_vars PROVE ActiveIsMember'
    OBVIOUS
<1> USE SyncAssumption DEF IInv, TypeOK, ActiveIsMember, Members
<1>1. ASSUME NEW o \in Ops, CommitRemove(o) PROVE ActiveIsMember'
    <2>1. pool' = RemoveFirst(pool, target[o]) /\ ToSet(pool') = ToSet(pool) \ {target[o]}
        BY <1>1, RemoveFacts DEF CommitRemove
    <2>2. CASE active = target[o]
        BY <1>1, <2>1, <2>2, ReplacementFacts DEF CommitRemove
    <2>3. CASE active # target[o]
        BY <1>1, <2>1, <2>3 DEF CommitRemove
    <2> QED
        BY <2>2, <2>3
<1>2. ASSUME NEW o \in Ops, Step(o) \/ Crash(o), ~CommitRemove(o) PROVE ActiveIsMember'
    <2>1. CASE CommitSwitch(o)
        BY <2>1 DEF CommitSwitch
    <2>2. CASE ~CommitSwitch(o)
        <3>1. UNCHANGED <<pool, active>>
            BY <1>2, <2>2 DEF Step, Lock, ReadFails, ReadActive, ReadSelected, ReadTarget, Refresh,
                SyncFails, Recheck, Write, CommitFails, Rollback, RollbackFails, Release, Crash, Leave
        <3> QED
            BY <3>1
    <2> QED
        BY <2>1, <2>2
<1>3. ASSUME NEW a \in Accounts, Promote(a) \/ RefreshElsewhere(a) PROVE ActiveIsMember'
    BY <1>3 DEF Promote, RefreshElsewhere
<1>4. ASSUME NEW a \in Accounts, Login(a) PROVE ActiveIsMember'
    <2>1. CASE a \in ToSet(pool)
        BY <1>4, <2>1 DEF Login
    <2>2. CASE a \notin ToSet(pool)
        <3>1. ToSet(pool') = ToSet(pool) \cup {a}
            BY <1>4, <2>2, AppendFacts DEF Login
        <3> QED
            BY <1>4, <3>1 DEF Login
    <2> QED
        BY <2>1, <2>2
<1>5. CASE UNCHANGED vars
    BY <1>5 DEF vars
<1> QED
    BY <1>1, <1>2, <1>3, <1>4, <1>5 DEF Next

-----------------------------------------------------------------------------
(* What the operations know.                                               *)

\* An operation that does not hold the lock knows nothing that a step of
\* another could spoil.
LEMMA Bystander ==
    ASSUME IInv, NEW o \in Ops, NEW p \in Ops \ {o}, Step(o) \/ Crash(o)
    PROVE  LocalInv(p)' /\ IdentityInv(p)' /\ QuietInv(p)'
<1> USE DEF IInv, TypeOK
<1>1. /\ pc'[p] = pc[p] /\ attempt'[p] = attempt[p] /\ chosen'[p] = chosen[p]
      /\ previous'[p] = previous[p] /\ target'[p] = target[p]
    <2>1. CASE Lock(o) \/ ReadFails(o) \/ ReadActive(o) \/ ReadSelected(o)
        BY <2>1 DEF Lock, ReadFails, ReadActive, ReadSelected, Goto, local
    <2>2. CASE ReadTarget(o)
        <3>1. \E a \in Members : target' = [target EXCEPT ![o] = a]
            BY <2>2 DEF ReadTarget
        <3>2. \/ UNCHANGED <<chosen, previous>>
              \/ \E c, d : chosen' = [chosen EXCEPT ![o] = c] /\ previous' = [previous EXCEPT ![o] = d]
            BY <2>2 DEF ReadTarget
        <3>3. \E l : pc' = [pc EXCEPT ![o] = l]
            BY <2>2 DEF ReadTarget, Goto
        <3>4. UNCHANGED attempt
            BY <2>2 DEF ReadTarget
        <3> QED
            BY <3>1, <3>2, <3>3, <3>4
    <2>3. CASE Refresh(o) \/ SyncFails(o) \/ Recheck(o) \/ Write(o)
        BY <2>3 DEF Refresh, SyncFails, Recheck, Write, Goto, local
    <2>4. CASE CommitSwitch(o) \/ CommitRemove(o) \/ CommitFails(o) \/ Rollback(o) \/ RollbackFails(o)
        BY <2>4 DEF CommitSwitch, CommitRemove, CommitFails, Rollback, RollbackFails, Goto, local
    <2>5. CASE Release(o) \/ Crash(o)
        BY <2>5 DEF Release, Crash, Leave, Goto
    <2> QED
        BY <2>1, <2>2, <2>3, <2>4, <2>5 DEF Step
<1>2. pc[p] \notin Holding
    <2>1. CASE Lock(o)
        BY <2>1, SyncAssumption DEF Lock, LockInv
    <2>2. CASE ~Lock(o)
        <3>1. pc[o] \in Holding
            BY <2>2 DEF Step, ReadFails, ReadActive, ReadSelected, ReadTarget, Refresh, SyncFails,
                Recheck, Write, CommitSwitch, CommitRemove, CommitFails, Rollback, RollbackFails,
                Release, Crash, Holding, PC, Final
        <3> QED
            BY <3>1 DEF LockInv
    <2> QED
        BY <2>1, <2>2
<1>3. pc[p] \in Final \cup {"start"}
    BY <1>2 DEF Holding
<1>4. LocalInv(p)'
    BY <1>1, <1>3 DEF LocalInv, Final
<1>5. QuietInv(p)'
    BY <1>1, <1>3 DEF QuietInv, StillSo, Agreement, Chosen, Final
<1>6. IdentityInv(p)'
    BY <1>1, <1>3 DEF IdentityInv, Chosen, Final
<1> QED
    BY <1>4, <1>5, <1>6

\* Reading the pool.
LEMMA ReadKnows ==
    ASSUME IInv, NEW o \in Ops, ReadFails(o) \/ ReadActive(o) \/ ReadSelected(o) \/ ReadTarget(o)
    PROVE  LocalInv(o)' /\ IdentityInv(o)' /\ QuietInv(o)'
<1> USE SyncAssumption DEF IInv, TypeOK
<1>a. /\ pc[o] = "read" /\ LocalInv(o) /\ UNCHANGED <<pool, active, cred, file, attempt>>
      /\ quiet' = TRUE /\ owner' = file.acct /\ base' = active
    BY DEF ReadFails, ReadActive, ReadSelected, ReadTarget, Observe, local
<1>b. active \in Accounts \cup {NoAccount} /\ (active # NoAccount => active \in Members)
    BY DEF ActiveIsMember
<1>c. None.acct = NoAccount
    BY CopyFacts
<1>1. CASE ReadFails(o)
    <2>1. pc'[o] = "release_error" /\ UNCHANGED local
        BY <1>1 DEF ReadFails, Goto
    <2>2. LocalInv(o)'
        BY <1>a, <2>1 DEF LocalInv, local
    <2>3. QuietInv(o)'
        BY <1>a, <2>1 DEF QuietInv, StillSo, Agreement, Chosen, local
    <2>4. IdentityInv(o)'
        BY <1>a, <2>1 DEF IdentityInv, Chosen, Restored
    <2> QED
        BY <2>2, <2>3, <2>4
<1>2. CASE ReadActive(o)
    <2>0. Kind[o] = "sync" /\ UNCHANGED <<target, previous>>
        BY <1>2 DEF ReadActive
    <2>1. CASE active \in Members
        <3>1. pc'[o] = "refresh" /\ chosen'[o] = Copy(active)
            BY <1>2, <2>1 DEF ReadActive, Goto
        <3>2. chosen'[o].acct = active /\ chosen'[o].ver = cred[active] /\ active \in Accounts
            BY <2>1, <3>1, CopyFacts
        <3>3. LocalInv(o)'
            BY <1>a, <2>0, <3>1, <3>2 DEF LocalInv
        <3>4. QuietInv(o)'
            BY <1>a, <2>0, <3>1, <3>2 DEF QuietInv, StillSo, Agreement, Chosen
        <3>5. IdentityInv(o)'
            BY <1>a, <2>0, <3>1 DEF IdentityInv, Chosen
        <3> QED
            BY <3>3, <3>4, <3>5
    <2>2. CASE active \notin Members
        <3>1. pc'[o] = "release_ok" /\ UNCHANGED chosen /\ active = NoAccount
            BY <1>2, <1>b, <2>2 DEF ReadActive, Goto
        <3>2. LocalInv(o)'
            BY <1>a, <2>0, <3>1 DEF LocalInv
        <3>3. QuietInv(o)'
            BY <1>a, <2>0, <3>1 DEF QuietInv, StillSo, Agreement, Chosen, Agree
        <3>4. IdentityInv(o)'
            BY <1>a, <2>0, <3>1 DEF IdentityInv, Chosen
        <3> QED
            BY <3>2, <3>3, <3>4
    <2> QED
        BY <2>1, <2>2
<1>3. CASE ReadSelected(o)
    <2>1. PICK a \in Members : chosen' = [chosen EXCEPT ![o] = Copy(a)]
        BY <1>3 DEF ReadSelected
    <2>2. /\ Kind[o] = "switch" /\ pc'[o] = "refresh" /\ UNCHANGED target
          /\ previous'[o] = IF active \in Members THEN Copy(active) ELSE None
        BY <1>3 DEF ReadSelected, Goto
    <2>3. a \in Accounts /\ chosen'[o].acct = a /\ chosen'[o].ver = cred[a]
        BY <2>1, CopyFacts
    <2>4. /\ previous'[o].acct = active
          /\ previous'[o] = None \/ previous'[o].acct \in Accounts
        BY <1>b, <1>c, <2>2, CopyFacts
    <2>5. LocalInv(o)'
        BY <1>a, <2>2, <2>3, <2>4 DEF LocalInv
    <2>6. QuietInv(o)'
        BY <1>a, <2>2, <2>3, <2>4 DEF QuietInv, StillSo, Agreement, Chosen
    <2>7. IdentityInv(o)'
        BY <1>a, <2>2, <2>4 DEF IdentityInv, Chosen
    <2> QED
        BY <2>5, <2>6, <2>7
<1>4. CASE ReadTarget(o)
    <2>1. PICK a \in Members :
            /\ target' = [target EXCEPT ![o] = a]
            /\ IF active = a /\ Replacement(pool, a) # NoAccount
               THEN /\ chosen' = [chosen EXCEPT ![o] = Copy(Replacement(pool, a))]
                    /\ previous' = [previous EXCEPT ![o] = Copy(a)]
                    /\ pc' = [pc EXCEPT ![o] = "refresh"]
               ELSE /\ pc' = [pc EXCEPT ![o] = "commit"]
                    /\ UNCHANGED <<chosen, previous>>
        BY <1>4 DEF ReadTarget, Goto
    <2>2. Kind[o] = "remove" /\ target'[o] = a /\ a \in Accounts
        BY <1>4, <2>1, CopyFacts DEF ReadTarget
    <2>3. CASE active = a /\ Replacement(pool, a) # NoAccount
        <3> DEFINE b == Replacement(pool, a)
        <3>1. b \in Accounts
            BY <2>3, ReplacementFacts
        <3>2. /\ chosen'[o].acct = b /\ chosen'[o].ver = cred[b]
              /\ previous'[o].acct = a /\ pc'[o] = "refresh"
            BY <2>1, <2>2, <2>3, <3>1, CopyFacts
        <3>3. Replacement(pool', target'[o]) = b
            BY <1>a, <2>2
        <3>4. LocalInv(o)'
            BY <1>a, <2>2, <3>1, <3>2 DEF LocalInv
        <3>5. QuietInv(o)'
            BY <1>a, <2>2, <2>3, <3>1, <3>2, <3>3
            DEF QuietInv, StillSo, Agreement, Chosen
        <3>6. previous'[o] # None
            BY <1>c, <2>2, <3>2, SyncAssumption
        <3>7. IdentityInv(o)'
            BY <1>a, <2>2, <2>3, <3>2, <3>6 DEF IdentityInv, Chosen
        <3> QED
            BY <3>4, <3>5, <3>7
    <2>4. CASE ~(active = a /\ Replacement(pool, a) # NoAccount)
        <3>1. pc'[o] = "commit" /\ UNCHANGED <<chosen, previous>>
            BY <2>1, <2>4
        <3>2. chosen'[o] = None /\ previous'[o] = None
            BY <1>a, <2>2, <3>1 DEF LocalInv
        <3>3. active # a \/ Replacement(pool', target'[o]) = NoAccount
            BY <1>a, <2>2, <2>4
        <3>4. LocalInv(o)'
            BY <1>a, <2>2, <3>1, <3>2 DEF LocalInv
        <3>5. QuietInv(o)'
            BY <1>a, <2>2, <3>1, <3>2, <3>3
            DEF QuietInv, StillSo, Agreement, Chosen
        <3>6. IdentityInv(o)'
            BY <1>a, <2>2, <3>1, <3>2 DEF IdentityInv, Chosen
        <3> QED
            BY <3>4, <3>5, <3>6
    <2> QED
        BY <2>3, <2>4
<1> QED
    BY <1>1, <1>2, <1>3, <1>4

\* Refreshing a token, and putting the old one back.
LEMMA RefreshKnows ==
    ASSUME IInv, NEW o \in Ops, Refresh(o) \/ Rollback(o)
    PROVE  LocalInv(o)' /\ IdentityInv(o)' /\ QuietInv(o)'
<1> USE SyncAssumption DEF IInv, TypeOK
<1>a. LocalInv(o) /\ IdentityInv(o) /\ QuietInv(o)
    OBVIOUS
<1>1. CASE Refresh(o)
    <2>1. PICK c \in Renewals(chosen[o]) :
            /\ chosen' = [chosen EXCEPT ![o] = c]
            /\ cred' = [cred EXCEPT ![c.acct] = IF c.ver > @ THEN c.ver ELSE @]
        BY <1>1 DEF Refresh
    <2>2. pc[o] = "refresh" /\ chosen[o].acct \in Accounts
        BY <1>1 DEF Refresh, LocalInv
    <2>3. c.acct = chosen[o].acct /\ c.ver \in {chosen[o].ver, cred[c.acct], cred[c.acct] + 1}
        BY <2>2, RenewalFacts
    <2>4. /\ chosen'[o].acct = chosen[o].acct
          /\ UNCHANGED <<pool, active, file, attempt, target, previous, history>>
          /\ pc'[o] = IF Kind[o] = "sync" THEN "recheck" ELSE "write"
        BY <1>1, <2>1, <2>3 DEF Refresh, Goto
    <2>5. quiet => chosen'[o].ver = cred'[chosen'[o].acct]
        <3>1. cred[c.acct] \in Nat
            BY <2>2, <2>3
        <3>2. quiet => chosen[o].ver = cred[c.acct]
            BY <1>a, <2>2, <2>3 DEF QuietInv, StillSo, Chosen
        <3>3. chosen'[o] = c /\ cred'[c.acct] = IF c.ver > cred[c.acct] THEN c.ver ELSE cred[c.acct]
            BY <2>1, <2>2, <2>3
        <3> QED
            BY <2>3, <3>1, <3>2, <3>3
    <2>6. LocalInv(o)'
        BY <1>a, <2>2, <2>4 DEF LocalInv
    <2>7. QuietInv(o)'
        BY <1>a, <2>2, <2>4, <2>5
        DEF QuietInv, StillSo, Agreement, Chosen, history
    <2>8. IdentityInv(o)'
        BY <1>a, <2>2, <2>4 DEF IdentityInv, Chosen, history
    <2> QED
        BY <2>6, <2>7, <2>8
<1>2. CASE Rollback(o)
    <2>1. PICK c \in Renewals(previous[o]) : file' = c
        BY <1>2 DEF Rollback
    <2>2. pc[o] = "rollback" /\ previous[o].acct \in Accounts /\ Kind[o] # "sync"
        BY <1>2 DEF Rollback, LocalInv
    <2>3. file'.acct = previous[o].acct
        BY <2>1, <2>2, RenewalFacts
    <2>4. pc'[o] = "release_error" /\ UNCHANGED <<pool, active, local, history>>
        BY <1>2 DEF Rollback, Goto
    <2>5. LocalInv(o)'
        BY <1>a, <2>2, <2>4 DEF LocalInv, local
    <2>6. QuietInv(o)'
        BY <1>a, <2>2, <2>4 DEF QuietInv, StillSo, Agreement, Chosen, local, history
    <2>7. file'.acct = base' /\ base' # NoAccount
        BY <1>a, <2>2, <2>3, <2>4 DEF IdentityInv, history
    <2>8. IdentityInv(o)'
        BY <2>4, <2>7 DEF IdentityInv, Chosen, Restored
    <2> QED
        BY <2>5, <2>6, <2>8
<1> QED
    BY <1>1, <1>2

\* The steps that fail leave both stores as they are.
LEMMA FailureKnows ==
    ASSUME IInv, NEW o \in Ops, SyncFails(o) \/ CommitFails(o) \/ RollbackFails(o)
    PROVE  LocalInv(o)' /\ IdentityInv(o)' /\ QuietInv(o)'
<1> USE SyncAssumption DEF IInv, TypeOK
<1>a. LocalInv(o) /\ IdentityInv(o) /\ QuietInv(o) /\ UNCHANGED <<pool, active, cred, file, local, history>>
    BY DEF SyncFails, CommitFails, RollbackFails
<1>1. CASE SyncFails(o)
    <2>1. pc[o] \in {"refresh", "recheck", "write"} /\ pc'[o] = "release_error"
        BY <1>1 DEF SyncFails, Goto
    <2> QED
        BY <1>a, <2>1
        DEF LocalInv, IdentityInv, Restored, QuietInv, StillSo, Agreement, Chosen, local, history
<1>2. CASE CommitFails(o)
    <2>1. /\ pc[o] = "commit"
          /\ pc'[o] = IF previous[o] = None THEN "release_error" ELSE "rollback"
        BY <1>2 DEF CommitFails, Goto
    <2>2. None.acct = NoAccount
        BY CopyFacts
    <2>3. LocalInv(o)'
        BY <1>a, <2>1 DEF LocalInv, local
    <2>4. CASE previous[o] = None
        <3>1. pc'[o] = "release_error"
            BY <2>1, <2>4
        <3>2. Restored \/ (Kind[o] = "switch" /\ base = NoAccount /\ file = chosen[o])
            <4>1. CASE Chosen(o)
                BY <1>a, <2>1, <2>2, <2>4, <4>1 DEF LocalInv, IdentityInv, Chosen
            <4>2. CASE ~Chosen(o)
                BY <1>a, <2>1, <4>2 DEF IdentityInv, Restored
            <4> QED
                BY <4>1, <4>2
        <3>3. IdentityInv(o)'
            BY <1>a, <3>1, <3>2 DEF IdentityInv, Chosen, Restored, local, history
        <3> QED
            BY <1>a, <2>3, <3>1, <3>3 DEF QuietInv, StillSo, Agreement, Chosen, local, history
    <2>5. CASE previous[o] # None
        <3>1. pc'[o] = "rollback" /\ Chosen(o)
            BY <1>a, <2>1, <2>5, <2>2 DEF LocalInv, Chosen
        <3>2. IdentityInv(o)'
            BY <1>a, <3>1 DEF IdentityInv, Chosen, local, history
        <3> QED
            BY <1>a, <2>1, <2>3, <3>1, <3>2
            DEF QuietInv, StillSo, Agreement, Chosen, local, history
    <2> QED
        BY <2>4, <2>5
<1>3. CASE RollbackFails(o)
    <2>1. pc'[o] = "release_unrestored"
        BY <1>3 DEF RollbackFails, Goto
    <2> QED
        BY <1>a, <2>1
        DEF LocalInv, IdentityInv, Restored, QuietInv, StillSo, Agreement, Chosen, local, history
<1> QED
    BY <1>1, <1>2, <1>3

\* The steps that change a store, and the look at the active account.
LEMMA WriteKnows ==
    ASSUME IInv, NEW o \in Ops, Recheck(o) \/ Write(o) \/ CommitSwitch(o) \/ CommitRemove(o)
    PROVE  LocalInv(o)' /\ IdentityInv(o)' /\ QuietInv(o)'
<1> USE SyncAssumption DEF IInv, TypeOK
<1>a. LocalInv(o) /\ IdentityInv(o) /\ QuietInv(o) /\ UNCHANGED <<cred, chosen, target, previous, history>>
    BY DEF Recheck, Write, CommitSwitch, CommitRemove, local
<1>b. None.acct = NoAccount
    BY CopyFacts
<1>1. CASE Recheck(o)
    <2>1. /\ pc[o] = "recheck" /\ attempt'[o] = attempt[o] + 1 /\ UNCHANGED <<pool, active, file>>
          /\ pc'[o] = IF active = chosen[o].acct THEN "write"
                      ELSE IF attempt[o] + 1 < MaxAttempts THEN "read" ELSE "release_error"
        BY <1>1 DEF Recheck, Goto
    <2>2. Kind[o] = "sync" /\ chosen[o].acct \in Accounts
        BY <1>a, <2>1 DEF LocalInv
    <2>3. LocalInv(o)'
        BY <1>a, <2>1, <2>2 DEF LocalInv
    <2>4. QuietInv(o)'
        BY <1>a, <2>1, <2>2 DEF QuietInv, StillSo, Agreement, Chosen, history
    <2>5. IdentityInv(o)'
        BY <1>a, <2>1, <2>2 DEF IdentityInv, Chosen, Restored, history
    <2> QED
        BY <2>3, <2>4, <2>5
<1>2. CASE Write(o)
    <2>1. /\ pc[o] = "write" /\ file' = chosen[o] /\ UNCHANGED <<pool, active, attempt>>
          /\ pc'[o] = IF Kind[o] = "sync" THEN "release_ok" ELSE "commit"
        BY <1>2 DEF Write, Goto, local
    <2>2. chosen[o].acct \in Accounts /\ chosen[o] # None /\ chosen[o] \in Credentials
        BY <1>a, <1>b, <2>1 DEF LocalInv
    <2>3. LocalInv(o)'
        BY <1>a, <2>1, <2>2 DEF LocalInv
    <2>4. CASE Kind[o] = "sync"
        <3>1. quiet => active = chosen[o].acct /\ chosen[o].ver = cred[active]
            BY <1>a, <2>1, <2>4 DEF QuietInv, StillSo, Chosen
        <3>2. quiet => Agree'
            BY <1>a, <2>1, <2>2, <3>1 DEF Agree, Copy, Credentials
        <3> QED
            BY <1>a, <2>1, <2>3, <2>4, <3>2
            DEF IdentityInv, QuietInv, StillSo, Agreement, Chosen, history
    <2>5. CASE Kind[o] # "sync"
        <3>1. pc'[o] = "commit" /\ Chosen(o) /\ Chosen(o)'
            BY <1>a, <2>1, <2>2, <2>5 DEF Chosen
        <3> QED
            BY <1>a, <2>1, <2>3, <2>5, <3>1
            DEF IdentityInv, QuietInv, StillSo, Agreement, history
    <2> QED
        BY <2>4, <2>5
<1>3. CASE CommitSwitch(o)
    <2>1. /\ pc[o] = "commit" /\ pc'[o] = "release_ok" /\ active' = chosen[o].acct
          /\ Kind[o] = "switch" /\ UNCHANGED <<pool, file, attempt>>
        BY <1>3 DEF CommitSwitch, Goto, local
    <2>2. chosen[o].acct \in Accounts /\ file = chosen[o] /\ chosen[o] # None
        BY <1>a, <1>b, <2>1 DEF LocalInv
    <2>3. quiet => chosen[o].ver = cred[chosen[o].acct]
        BY <1>a, <2>1, <2>2 DEF QuietInv, StillSo, Chosen
    <2>4. quiet => Agree'
        BY <1>a, <2>1, <2>2, <2>3 DEF Agree, Copy, Credentials
    <2>5. LocalInv(o)'
        BY <1>a, <2>1 DEF LocalInv
    <2>6. IdentityInv(o)'
        BY <2>1 DEF IdentityInv, Chosen
    <2>7. QuietInv(o)'
        BY <1>a, <2>1, <2>4 DEF QuietInv, StillSo, Agreement, Chosen, history
    <2> QED
        BY <2>5, <2>6, <2>7
<1>4. CASE CommitRemove(o)
    <2>1. /\ pc[o] = "commit" /\ pc'[o] = "release_ok" /\ Kind[o] = "remove"
          /\ active' = IF active = target[o] THEN Replacement(pool, target[o]) ELSE active
          /\ UNCHANGED <<file, attempt>>
        BY <1>4 DEF CommitRemove, Goto, local
    <2>2. ASSUME quiet, chosen[o] # None PROVE SameIdentity'
        <3>1. chosen[o].acct \in Accounts /\ file = chosen[o]
            BY <1>a, <2>1, <2>2 DEF LocalInv
        <3>2. active = target[o] /\ chosen[o].acct = Replacement(pool, target[o])
            BY <1>a, <2>1, <2>2 DEF QuietInv, StillSo, Chosen
        <3> QED
            BY <2>1, <3>1, <3>2 DEF SameIdentity
    <2>3. ASSUME quiet, Agreed, chosen[o] = None PROVE SameIdentity'
        <3>1. active # target[o] \/ Replacement(pool, target[o]) = NoAccount
            BY <1>a, <2>1, <2>3 DEF QuietInv, StillSo, Chosen
        <3>2. active = base /\ file.acct = owner
            BY <1>a, <2>1, <2>3 DEF IdentityInv, QuietInv, StillSo, Chosen
        <3> QED
            BY <2>1, <2>3, <3>1, <3>2 DEF Agreed, SameIdentity
    <2>4. Agreed' = Agreed
        BY <1>a DEF Agreed, history
    <2> QED
        BY <1>a, <2>1, <2>2, <2>3, <2>4
        DEF LocalInv, IdentityInv, QuietInv, StillSo, Agreement, Chosen, history
<1> QED
    BY <1>1, <1>2, <1>3, <1>4

\* Taking and leaving the lock.
LEMMA LockKnows ==
    ASSUME IInv, NEW o \in Ops, Lock(o) \/ Release(o) \/ Crash(o)
    PROVE  LocalInv(o)' /\ IdentityInv(o)' /\ QuietInv(o)'
<1> USE SyncAssumption DEF IInv, TypeOK
<1>1. CASE Lock(o)
    <2>1. pc[o] = "start" /\ pc'[o] = "read" /\ UNCHANGED local /\ LocalInv(o)
        BY <1>1 DEF Lock, Goto
    <2> QED
        BY <2>1 DEF LocalInv, IdentityInv, QuietInv, StillSo, Agreement, Chosen, local, MaxAttempts
<1>2. CASE Release(o) \/ Crash(o)
    <2>1. PICK l \in Final : Leave(o, l)
        BY <1>2 DEF Release, Crash, Final
    <2>2. pc'[o] = l /\ previous'[o] = None
        BY <2>1 DEF Leave, Goto
    <2> QED
        BY <2>2 DEF LocalInv, IdentityInv, QuietInv, StillSo, Agreement, Chosen, Final
<1> QED
    BY <1>1, <1>2

-----------------------------------------------------------------------------
(* The theorems.                                                           *)

\* The inductive invariant holds in every reachable state.
THEOREM Invariance == Spec => []IInv
<1>1. IInv /\ [Next]_vars => \A p \in Ops : LocalInv(p)' /\ IdentityInv(p)' /\ QuietInv(p)'
    <2> SUFFICES ASSUME IInv, [Next]_vars, NEW p \in Ops PROVE LocalInv(p)' /\ IdentityInv(p)' /\ QuietInv(p)'
        OBVIOUS
    <2>1. ASSUME NEW o \in Ops, Step(o) \/ Crash(o) PROVE LocalInv(p)' /\ IdentityInv(p)' /\ QuietInv(p)'
        <3>1. CASE p # o
            BY <2>1, <3>1, Bystander
        <3>2. CASE p = o
            BY <2>1, <3>2, ReadKnows, RefreshKnows, FailureKnows, WriteKnows, LockKnows DEF Step
        <3> QED
            BY <3>1, <3>2
    <2>2. ASSUME NEW a \in Accounts, Promote(a) \/ RefreshElsewhere(a) \/ Login(a)
          PROVE  LocalInv(p)' /\ IdentityInv(p)' /\ QuietInv(p)'
        <3>1. quiet' = FALSE /\ UNCHANGED <<file, pc, local, owner, base>>
            BY <2>2 DEF Promote, RefreshElsewhere, Login
        <3> QED
            BY <3>1 DEF IInv, LocalInv, IdentityInv, Chosen, Restored, QuietInv, local
    <2>3. CASE UNCHANGED vars
        BY <2>3 DEF IInv, LocalInv, IdentityInv, Restored, QuietInv, StillSo, Agreement, Chosen,
            Agreed, SameIdentity, Agree, Copy, vars, local, history
    <2> QED
        BY <2>1, <2>2, <2>3 DEF Next
<1>2. IInv /\ [Next]_vars => IInv'
    BY <1>1, NextTypeOK, NextLock, NextMember DEF IInv
<1> QED
    BY <1>2, InitIInv, PTL DEF Spec

\* The state of the synchronisation is always well-typed; no account is twice in
\* the pool.
THEOREM TypeCorrect == Spec => []TypeOK
BY Invariance, PTL DEF IInv

\* The active account is always in the pool, whatever switches, removals, logins
\* and promotions overlap.
THEOREM ActiveStaysMember == Spec => []ActiveIsMember
BY Invariance, PTL DEF IInv

\* After a success the token file and state.db agree.
THEOREM SuccessMeansAgreement == Spec => []SuccessAgrees
<1>1. IInv => SuccessAgrees
    BY DEF IInv, QuietInv, Agreement, SuccessAgrees
<1> QED
    BY <1>1, Invariance, PTL

\* After a reported failure the token file belongs to whom it belonged before, or
\* a rollback has given it to the account that was active: except after a switch
\* with nobody active.  This needs no quiet: promotions, refreshes and logins may
\* come between.
THEOREM FailureMeansRestored == Spec => []FailureRestores
<1>1. IInv => FailureRestores
    BY DEF IInv, IdentityInv, FailureRestores
<1> QED
    BY <1>1, Invariance, PTL
=============================================================================
