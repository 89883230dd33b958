---------------------------- MODULE StateDbProofs ----------------------------
(***************************************************************************)
(* Proofs about state.db: about its transactions (StateTx), then about how *)
(* it is opened for the first time (StateOpen), for any number of          *)
(* processes, calls, attempts and faults.                                  *)
(*                                                                         *)
(* Transactions: SQLite's write lock belongs to the one call between BEGIN *)
(* and the end of its transaction, so that the committed pool cannot move  *)
(* under a loaded one: a mutator decides on the pool it will replace, and  *)
(* the transactions implement AtomicPool.                                  *)
(*                                                                         *)
(* Opening: three things must be known of a process in the middle of       *)
(* OpenStateDB: that the file it has open is state.db, that what its stat  *)
(* said still tells whether it may create the schema, and that with a JSON *)
(* pool it cannot be on the way to create one at all.                      *)
(***************************************************************************)
EXTENDS StateTx, StateOpen, TLAPS

-----------------------------------------------------------------------------
(* Transactions.                                                           *)

\* A call is inside a transaction exactly while it holds the write lock.
InTransaction(t) == pc[t] \in {"load", "mutate", "commit"}

LockInv == \A t \in Tasks : InTransaction(t) <=> dbLock = t

\* The pool contains a call's effect exactly from its commit on.
EffectInv ==
    \A t \in Tasks :
        /\ pc[t] \in {"committed", "ok"} => AP!InEffect(t)
        /\ pc[t] \notin {"committed", "ok", "crashed"} => ~AP!InEffect(t)

\* A call that is still trying to begin has an attempt left.
AttemptInv == \A t \in Tasks : pc[t] \in {"start", "pool", "update", "begin"} => attempt[t] < MaxAttempts

\* The inductive invariant.
IInv == TypeOK /\ AttemptInv /\ LockInv /\ DecidesOnCurrentPool /\ EffectInv

\* The steps that leave the pool, the write lock and the loaded pools alone and
\* keep a call on its side of the transaction.
Quiet(t) ==
    /\ UNCHANGED <<db, dbLock, snap>>
    /\ \E l \in PC \ {"load", "mutate", "commit"} :
        /\ pc' = [pc EXCEPT ![t] = l]
        /\ ~InTransaction(t)
        /\ pc[t] = "committed" <=> l = "ok"
        /\ l # "committed"
        /\ pc[t] \notin Final
        /\ l # "crashed"

\* The state store starts in the invariant.
LEMMA InitIInv == Init => IInv
BY TaskAssumption DEF Init, IInv, TypeOK, AttemptInv, LockInv, DecidesOnCurrentPool, EffectInv,
    InTransaction, PC, Final, AP!InEffect

\* A call that is not at "begin" and moves without a transaction is quiet.
LEMMA QuietSteps ==
    ASSUME TypeOK, NEW t \in Tasks,
           OpenFails(t) \/ Open(t) \/ LockPool(t) \/ EnterReservation(t) \/ LockWrites(t)
             \/ BeginBusy(t) \/ BeginFails(t) \/ Return(t)
    PROVE  Quiet(t)
BY DEF TypeOK, OpenFails, Open, LockPool, EnterReservation, LockWrites, BeginBusy, BeginFails,
    Return, Quiet, Goto, InTransaction, PC, Final

\* Every step preserves the types.
LEMMA NextTypeOK == TypeOK /\ AttemptInv /\ [Next]_vars => TypeOK'
<1> SUFFICES ASSUME TypeOK, AttemptInv, [Next]_vars PROVE TypeOK'
    OBVIOUS
<1> USE TaskAssumption DEF TypeOK
<1>1. ASSUME NEW t \in Tasks, Step(t) PROVE TypeOK'
  <2>1. CASE OpenFails(t)
    BY <2>1 DEF OpenFails, Goto, PC, Final
  <2>2. CASE LockPool(t)
    BY <2>2 DEF LockPool, Goto, PC, Final
  <2>3. CASE EnterReservation(t)
    BY <2>3 DEF EnterReservation, Goto, PC, Final
  <2>4. CASE LockWrites(t)
    BY <2>4 DEF LockWrites, Goto, PC, Final
  <2>5. CASE Begin(t)
    BY <2>5 DEF Begin, Goto, PC, Final
  <2>6. CASE BeginBusy(t)
    <3>1. attempt[t] + 1 \in 0 .. MaxAttempts
      BY <2>6 DEF BeginBusy, AttemptInv
    <3> QED
      BY <2>6, <3>1 DEF BeginBusy, PC, Final
  <2>7. CASE BeginFails(t)
    BY <2>7 DEF BeginFails, Goto, PC, Final
  <2>8. CASE Load(t)
    BY <2>8 DEF Load, Goto, PC, Final
  <2>9. CASE Mutate(t)
    BY <2>9 DEF Mutate, Goto, PC, Final
  <2>10. CASE Rollback(t)
    BY <2>10 DEF Rollback, Goto, PC, Final
  <2>11. CASE Commit(t)
    <3>1. Append(snap[t], t) \in Seq(Tasks)
      OBVIOUS
    <3> QED
      BY <2>11, <3>1 DEF Commit, Goto, PC, Final
  <2>12. CASE Return(t)
    BY <2>12 DEF Return, Released, Goto, PC, Final
  <2>13. CASE Open(t)
    BY <2>13 DEF Open, Goto, PC, Final
  <2> QED
    BY <1>1, <2>1, <2>2, <2>3, <2>4, <2>5, <2>6, <2>7, <2>8, <2>9, <2>10, <2>11, <2>12, <2>13
       DEF Step, Progress
<1>2. ASSUME NEW p \in Procs, Crash(p) PROVE TypeOK'
  BY <1>2 DEF Crash, Running, PC, Final
<1>3. CASE UNCHANGED vars
  BY <1>3 DEF vars
<1> QED
  BY <1>1, <1>2, <1>3 DEF Next

\* Every step leaves the callers that still try an attempt.
LEMMA NextAttemptInv == TypeOK /\ AttemptInv /\ [Next]_vars => AttemptInv'
<1> SUFFICES ASSUME TypeOK, AttemptInv, [Next]_vars PROVE AttemptInv'
    OBVIOUS
<1> USE TaskAssumption DEF TypeOK, AttemptInv
<1>1. ASSUME NEW t \in Tasks, Step(t) PROVE AttemptInv'
  <2>1. CASE BeginBusy(t)
    <3>1. \A u \in Tasks \ {t} : pc'[u] = pc[u] /\ attempt'[u] = attempt[u]
      BY <2>1 DEF BeginBusy
    <3>2. pc'[t] # "failed" => attempt'[t] < MaxAttempts
      <4>1. attempt[t] \in 0 .. MaxAttempts /\ attempt[t] < MaxAttempts
        BY <2>1 DEF BeginBusy
      <4>2. attempt'[t] = attempt[t] + 1
        BY <2>1 DEF BeginBusy
      <4>3. attempt[t] + 1 = MaxAttempts => pc'[t] = "failed"
        BY <2>1 DEF BeginBusy
      <4> QED
        BY <4>1, <4>2, <4>3
    <3> QED
      BY <3>1, <3>2
  <2>2. CASE ~BeginBusy(t)
    BY <1>1, <2>2 DEF Step, Progress, OpenFails, Open, LockPool, EnterReservation, LockWrites,
       Begin, BeginFails, Load, Mutate, Rollback, Commit, Return, Goto
  <2> QED
    BY <2>1, <2>2
<1>2. ASSUME NEW p \in Procs, Crash(p) PROVE AttemptInv'
  BY <1>2 DEF Crash
<1>3. CASE UNCHANGED vars
  BY <1>3 DEF vars
<1> QED
  BY <1>1, <1>2, <1>3 DEF Next

\* Only one call is in a transaction, and it holds the write lock.
LEMMA NextLockInv == TypeOK /\ LockInv /\ [Next]_vars => LockInv'
<1> SUFFICES ASSUME TypeOK, LockInv, [Next]_vars PROVE LockInv'
    OBVIOUS
<1> USE TaskAssumption DEF TypeOK, LockInv, InTransaction
<1>1. ASSUME NEW t \in Tasks, Step(t) PROVE LockInv'
  <2>1. CASE Quiet(t)
    BY <2>1 DEF Quiet
  <2>2. CASE Begin(t)
    BY <2>2 DEF Begin, Goto
  <2>3. CASE Load(t) \/ Mutate(t)
    BY <2>3 DEF Load, Mutate, Goto
  <2>4. CASE Rollback(t)
    BY <2>4 DEF Rollback, Goto
  <2>5. CASE Commit(t)
    BY <2>5 DEF Commit, Goto
  <2> QED
    BY <1>1, <2>1, <2>2, <2>3, <2>4, <2>5, QuietSteps DEF Step, Progress
<1>2. ASSUME NEW p \in Procs, Crash(p) PROVE LockInv'
  BY <1>2 DEF Crash, Running, Final
<1>3. CASE UNCHANGED vars
  BY <1>3 DEF vars
<1> QED
  BY <1>1, <1>2, <1>3 DEF Next

\* The committed pool does not move under a loaded one: only the holder of the
\* write lock commits.
LEMMA NextDecides ==
    TypeOK /\ LockInv /\ DecidesOnCurrentPool /\ [Next]_vars => DecidesOnCurrentPool'
<1> SUFFICES ASSUME TypeOK, LockInv, DecidesOnCurrentPool, [Next]_vars
             PROVE  DecidesOnCurrentPool'
    OBVIOUS
<1> USE TaskAssumption DEF TypeOK, LockInv, DecidesOnCurrentPool, InTransaction
<1>1. ASSUME NEW t \in Tasks, Step(t) PROVE DecidesOnCurrentPool'
  <2>1. CASE Quiet(t)
    BY <2>1 DEF Quiet
  <2>2. CASE Begin(t)
    BY <2>2 DEF Begin, Goto
  <2>3. CASE Load(t) \/ Mutate(t)
    BY <2>3 DEF Load, Mutate, Goto
  <2>4. CASE Rollback(t)
    BY <2>4 DEF Rollback, Goto
  <2>5. CASE Commit(t)
    BY <2>5 DEF Commit, Goto
  <2> QED
    BY <1>1, <2>1, <2>2, <2>3, <2>4, <2>5, QuietSteps DEF Step, Progress
<1>2. ASSUME NEW p \in Procs, Crash(p) PROVE DecidesOnCurrentPool'
  BY <1>2 DEF Crash, Running, Final
<1>3. CASE UNCHANGED vars
  BY <1>3 DEF vars
<1> QED
  BY <1>1, <1>2, <1>3 DEF Next

\* What a commit adds to the effects.
LEMMA AppendEffect ==
    ASSUME TypeOK, NEW t \in Tasks, db' = Append(db, t), NEW u \in Tasks
    PROVE  AP!InEffect(u)' <=> AP!InEffect(u) \/ u = t
<1> USE DEF TypeOK, AP!InEffect
<1>1. Len(db') = Len(db) + 1 /\ Len(db) \in Nat
    OBVIOUS
<1>2. \A i \in 1 .. Len(db) : db'[i] = db[i]
    OBVIOUS
<1>3. db'[Len(db) + 1] = t
    OBVIOUS
<1>4. ASSUME AP!InEffect(u)', u # t PROVE AP!InEffect(u)
  <2>1. PICK i \in 1 .. Len(db') : db'[i] = u
    BY <1>4
  <2>2. i \in 1 .. Len(db)
    BY <1>1, <1>3, <1>4, <2>1, SMTT(30)
  <2> QED
    BY <1>2, <2>1, <2>2
<1>5. ASSUME AP!InEffect(u) PROVE AP!InEffect(u)'
  <2>1. PICK i \in 1 .. Len(db) : db[i] = u
    BY <1>5
  <2>2. i \in 1 .. Len(db') /\ db'[i] = u
    BY <1>1, <1>2, <2>1
  <2> QED
    BY <2>2
<1>6. ASSUME u = t PROVE AP!InEffect(u)'
  <2>1. Len(db) + 1 \in 1 .. Len(db')
    BY <1>1
  <2> QED
    BY <1>3, <1>6, <2>1
<1> QED
    BY <1>4, <1>5, <1>6

\* A commit appends its own call to the committed pool.
LEMMA CommitAppends ==
    ASSUME DecidesOnCurrentPool, NEW t \in Tasks, Commit(t)
    PROVE  db' = Append(db, t)
BY DEF DecidesOnCurrentPool, Commit

\* A call's effect is there exactly from its commit on.
LEMMA NextEffectInv ==
    TypeOK /\ DecidesOnCurrentPool /\ EffectInv /\ [Next]_vars => EffectInv'
<1> SUFFICES ASSUME TypeOK, DecidesOnCurrentPool, EffectInv, [Next]_vars
             PROVE  EffectInv'
    OBVIOUS
<1>1. ASSUME NEW t \in Tasks, Step(t) PROVE EffectInv'
  <2>1. CASE Quiet(t)
    <3>1. \A u \in Tasks : AP!InEffect(u)' <=> AP!InEffect(u)
      BY <2>1 DEF Quiet, AP!InEffect
    <3> QED
      BY <2>1, <3>1 DEF Quiet, EffectInv, TypeOK, InTransaction, Final
  <2>2. CASE Begin(t) \/ Load(t) \/ Mutate(t) \/ Rollback(t)
    <3>1. \A u \in Tasks : AP!InEffect(u)' <=> AP!InEffect(u)
      BY <2>2 DEF Begin, Load, Mutate, Rollback, AP!InEffect
    <3> QED
      BY <2>2, <3>1 DEF Begin, Load, Mutate, Rollback, Goto, EffectInv, TypeOK
  <2>3. CASE Commit(t)
    <3>1. \A u \in Tasks : AP!InEffect(u)' <=> AP!InEffect(u) \/ u = t
      BY <2>3, CommitAppends, AppendEffect
    <3> QED
      BY <2>3, <3>1 DEF Commit, Goto, EffectInv, TypeOK
  <2> QED
    BY <1>1, <2>1, <2>2, <2>3, QuietSteps DEF Step, Progress
<1>2. ASSUME NEW p \in Procs, Crash(p) PROVE EffectInv'
  <2>1. \A u \in Tasks : AP!InEffect(u)' <=> AP!InEffect(u)
    BY <1>2 DEF Crash, AP!InEffect
  <2> QED
    BY <1>2, <2>1 DEF Crash, Running, Final, EffectInv, TypeOK
<1>3. CASE UNCHANGED vars
  BY <1>3 DEF vars, EffectInv, AP!InEffect
<1> QED
  BY <1>1, <1>2, <1>3 DEF Next

\* The invariant is inductive.
THEOREM Invariance == Spec => []IInv
<1>1. IInv /\ [Next]_vars => IInv'
    BY NextTypeOK, NextAttemptInv, NextLockInv, NextDecides, NextEffectInv DEF IInv
<1> QED
    BY <1>1, InitIInv, PTL DEF Spec

\* The state of the store is always well-typed.
THEOREM TypeCorrect == Spec => []TypeOK
BY Invariance, PTL DEF IInv

\* No mutator and no reservation ever decides on a stale pool, whichever
\* processes write to state.db meanwhile or die in the middle.
THEOREM CurrentDecisions == Spec => []DecidesOnCurrentPool
BY Invariance, PTL DEF IInv

---------------------------------------------------------------------------
(* The refinement of AtomicPool.                                           *)

\* A quiet step tells the caller its outcome, or nothing happens.
LEMMA QuietImplements ==
    ASSUME IInv, NEW t \in Tasks, Quiet(t)
    PROVE  AP!Next \/ UNCHANGED <<db, Outcome>>
<1> USE DEF IInv, TypeOK
<1>1. PICK l \in PC \ {"load", "mutate", "commit"} :
        /\ pc' = [pc EXCEPT ![t] = l]
        /\ pc[t] = "committed" <=> l = "ok"
        /\ pc[t] \notin Final
        /\ l \notin {"committed", "crashed"}
    BY DEF Quiet
<1>2. UNCHANGED db
    BY DEF Quiet
<1>3. Outcome[t] = "pending" /\ Outcome \in [Tasks -> Final \cup {"pending"}]
    BY <1>1 DEF Outcome
<1>4. CASE l \in Final
  <2>1. Outcome' = [Outcome EXCEPT ![t] = l]
    BY <1>1, <1>4 DEF Outcome
  <2>2. CASE l = "ok"
    <3>1. AP!InEffect(t)
      BY <1>1, <2>2 DEF EffectInv
    <3> QED
      BY <1>2, <1>3, <2>1, <2>2, <3>1 DEF AP!Next, AP!Succeed
  <2>3. CASE l = "error"
    <3>1. ~AP!InEffect(t)
      BY <1>1, <2>3 DEF EffectInv, Final
    <3> QED
      BY <1>2, <1>3, <2>1, <2>3, <3>1 DEF AP!Next, AP!Fail
  <2> QED
    BY <1>1, <1>4, <2>2, <2>3 DEF Final
<1>5. CASE l \notin Final
    BY <1>1, <1>2, <1>5 DEF Outcome
<1> QED
    BY <1>4, <1>5

\* A commit is the instant at which a transaction takes effect.
LEMMA CommitImplements ==
    ASSUME IInv, NEW t \in Tasks, Commit(t)
    PROVE  AP!TakeEffect(t)
<1> USE DEF IInv, TypeOK
<1>1. db' = Append(db, t)
    BY CommitAppends
<1>2. ~AP!InEffect(t)
    BY DEF Commit, EffectInv
<1>3. Outcome[t] = "pending" /\ Outcome' = Outcome
    BY DEF Commit, Goto, Outcome, Final
<1> QED
    BY <1>1, <1>2, <1>3 DEF AP!TakeEffect

\* The death of a process is the death of its unanswered callers.
LEMMA CrashImplements ==
    ASSUME IInv, NEW p \in Procs, Crash(p)
    PROVE  AP!Crash(Running(p))
<1> USE DEF IInv, TypeOK
<1>1. UNCHANGED db
    BY DEF Crash
<1>2. \A t \in Running(p) : Outcome[t] = "pending"
    BY DEF Running, Outcome
<1>3. Outcome' = [t \in Tasks |-> IF t \in Running(p) THEN "crashed" ELSE Outcome[t]]
    BY DEF Crash, Outcome, Running, Final
<1> QED
    BY <1>1, <1>2, <1>3 DEF AP!Crash

\* Every step of the store is a step of the abstract pool, or changes nothing of
\* it.
LEMMA StepImplements == IInv /\ [Next]_vars => [AP!Next]_<<db, Outcome>>
<1> SUFFICES ASSUME IInv, [Next]_vars PROVE AP!Next \/ UNCHANGED <<db, Outcome>>
    OBVIOUS
<1>1. ASSUME NEW t \in Tasks, Step(t) PROVE AP!Next \/ UNCHANGED <<db, Outcome>>
  <2>1. CASE Quiet(t)
    BY <2>1, QuietImplements
  <2>2. CASE Begin(t) \/ Load(t) \/ Mutate(t) \/ Rollback(t)
    BY <2>2 DEF Begin, Load, Mutate, Rollback, Goto, Outcome, Final, IInv, TypeOK
  <2>3. CASE Commit(t)
    BY <2>3, CommitImplements DEF AP!Next
  <2> QED
    BY <1>1, <2>1, <2>2, <2>3, QuietSteps DEF Step, Progress, IInv
<1>2. ASSUME NEW p \in Procs, Crash(p) PROVE AP!Next \/ UNCHANGED <<db, Outcome>>
  <2>1. Running(p) \in SUBSET Tasks
    BY DEF Running
  <2> QED
    BY <1>2, <2>1, CrashImplements DEF AP!Next
<1>3. CASE UNCHANGED vars
    BY <1>3 DEF vars, Outcome
<1> QED
    BY <1>1, <1>2, <1>3 DEF Next

\* The transactions of all processes are atomic: none is lost to another's
\* save, none is half applied, and a reported failure left nothing behind.
THEOREM Atomicity == Spec => Atomic
<1>1. Init => AP!Init
    BY DEF Init, AP!Init, Outcome, Final
<1> QED
    BY <1>1, StepImplements, Invariance, PTL DEF Spec, Atomic, AP!Spec

-----------------------------------------------------------------------------
(* Opening: types.                                                                  *)

\* What an update of one field of a file leaves alone.
LEMMA FileFields ==
    ASSUME NEW r \in File
    PROVE  \A l \in {"empty", "header", "ready"} :
                /\ [r EXCEPT !.level = l] \in File
                /\ [r EXCEPT !.level = l].level = l
                /\ [r EXCEPT !.level = l].pool = r.pool
                /\ [r EXCEPT !.level = l].commits = r.commits
    BY DEF File

LEMMA FileCommits ==
    ASSUME NEW r \in File, NEW C \in SUBSET Openers
    PROVE  /\ [r EXCEPT !.commits = C] \in File
           /\ [r EXCEPT !.commits = C].level = r.level
           /\ [r EXCEPT !.commits = C].pool = r.pool
           /\ [r EXCEPT !.commits = C].commits = C
    BY DEF File

\* What the steps put into a file.
WithHeader(r) == [r EXCEPT !.level = IF r.level = "empty" THEN "header" ELSE r.level]

LEMMA NewFiles ==
    /\ Empty \in File /\ Empty.level = "empty" /\ ~Empty.pool /\ Empty.commits = {}
    /\ HeaderOnly \in File /\ HeaderOnly.level = "header" /\ ~HeaderOnly.pool
    /\ Migrated \in File /\ Migrated.level = "ready" /\ Migrated.pool
    BY DEF Empty, HeaderOnly, Migrated, File

\* What each step writes, as an update of one entry of file.
LEMMA Writes ==
    ASSUME OpenTypeOK, NEW p \in Openers
    PROVE  /\ Pragma(p) => file' = [file EXCEPT ![handle[p]] = WithHeader(file[handle[p]])]
           /\ Schema(p) /\ file[handle[p]].level # "ready" =>
                file' = [file EXCEPT ![handle[p]] = [file[handle[p]] EXCEPT !.level = "ready"]]
           /\ CommitCall(p) =>
                file' = [file EXCEPT ![handle[p]] =
                            [file[handle[p]] EXCEPT !.commits = file[handle[p]].commits \cup {p}]]
<1>1. Pragma(p) => file' = [file EXCEPT ![handle[p]] = WithHeader(file[handle[p]])]
    BY Zenon DEF Pragma, WithHeader
<1>2. Schema(p) /\ file[handle[p]].level # "ready" =>
        file' = [file EXCEPT ![handle[p]] = [file[handle[p]] EXCEPT !.level = "ready"]]
    BY Zenon DEF Schema
<1>3. CommitCall(p) =>
        file' = [file EXCEPT ![handle[p]] =
                    [file[handle[p]] EXCEPT !.commits = file[handle[p]].commits \cup {p}]]
    BY Zenon DEF CommitCall
<1> QED
    BY <1>1, <1>2, <1>3

\* What they do to the rest.
LEMMA Frames ==
    ASSUME NEW p \in Openers
    PROVE  /\ Pragma(p) =>
                /\ phase[p] = "pragma"
                /\ phase' = [phase EXCEPT ![p] = IF exists[p] THEN "verify" ELSE "schema"]
                /\ UNCHANGED <<legacy, target, exists, handle, faults, acked, overtaken, spoiled>>
           /\ Schema(p) =>
                /\ phase[p] = "schema"
                /\ IF file[handle[p]].level = "ready"
                   THEN phase' = [phase EXCEPT ![p] = "idle"] /\ file' = file
                   ELSE phase' = [phase EXCEPT ![p] = "open"]
                /\ UNCHANGED <<legacy, target, exists, handle, faults, acked, overtaken, spoiled>>
           /\ CommitCall(p) =>
                /\ phase[p] = "open" /\ acked' = acked \cup {p}
                /\ UNCHANGED <<legacy, target, phase, exists, handle, faults, overtaken, spoiled>>
    BY Zenon DEF Pragma, Schema, CommitCall, Enter, local, history

\* The same, field by field: a step that has a file open writes there and
\* nowhere else.
LEMMA HandleWrites ==
    ASSUME OpenTypeOK, NEW p \in Openers, Pragma(p) \/ Schema(p) \/ CommitCall(p)
    PROVE  /\ handle[p] \in Openers
           /\ file' \in [Openers -> File]
           /\ \A f \in Openers : file'[f].pool = file[f].pool
           /\ \A f \in Openers : file[f].level = "ready" => file'[f].level = "ready"
           /\ \A f \in Openers : CommitCall(p) \/ Pragma(p) \/ f # handle[p] =>
                (file'[f].level = "ready" => file[f].level = "ready")
           /\ \A f \in Openers : file[f].commits \subseteq file'[f].commits
           /\ CommitCall(p) => p \in file'[handle[p]].commits
           /\ Schema(p) => file'[handle[p]].level = "ready"
<1> DEFINE h == handle[p]
<1>1. h \in Openers /\ file \in [Openers -> File] /\ file[h] \in File
    BY DEF OpenTypeOK, OptFile, Connected, Pragma, Schema, CommitCall
<1> HIDE DEF h
<1>2. CASE Pragma(p)
    <2>1. file' = [file EXCEPT ![h] = WithHeader(file[h])]
        BY <1>2, Writes DEF h
    <2>2. /\ WithHeader(file[h]) \in File
          /\ WithHeader(file[h]).pool = file[h].pool
          /\ WithHeader(file[h]).commits = file[h].commits
          /\ WithHeader(file[h]).level = "ready" <=> file[h].level = "ready"
        BY <1>1, FileFields DEF WithHeader, File
    <2>3. ~Schema(p) /\ ~CommitCall(p)
        BY <1>2 DEF Pragma, Schema, CommitCall
    <2> DEFINE w == WithHeader(file[h])
    <2>4. /\ file' = [file EXCEPT ![h] = w]
          /\ w \in File /\ w.pool = file[h].pool /\ w.commits = file[h].commits
          /\ w.level = "ready" <=> file[h].level = "ready"
        BY <2>1, <2>2
    <2> HIDE DEF w
    <2> QED
        BY <1>1, <2>3, <2>4 DEF h
<1>3. CASE Schema(p)
    <2>1. ~Pragma(p) /\ ~CommitCall(p)
        BY <1>3 DEF Pragma, Schema, CommitCall
    <2>2. CASE file[h].level = "ready"
        <3>1. file' = file
            BY <1>3, <2>2 DEF Schema, h
        <3> QED
            BY <1>1, <2>1, <2>2, <3>1 DEF h
    <2>3. CASE file[h].level # "ready"
        <3>1. file' = [file EXCEPT ![h] = [file[h] EXCEPT !.level = "ready"]]
            BY <1>3, <2>3, Writes DEF h
        <3>2. /\ [file[h] EXCEPT !.level = "ready"] \in File
              /\ [file[h] EXCEPT !.level = "ready"].pool = file[h].pool
              /\ [file[h] EXCEPT !.level = "ready"].level = "ready"
              /\ [file[h] EXCEPT !.level = "ready"].commits = file[h].commits
            BY <1>1, FileFields
        <3> DEFINE w == [file[h] EXCEPT !.level = "ready"]
        <3>3. /\ file' = [file EXCEPT ![h] = w]
              /\ w \in File /\ w.pool = file[h].pool /\ w.level = "ready"
              /\ w.commits = file[h].commits
            BY <3>1, <3>2
        <3> HIDE DEF w
        <3> QED
            BY <1>1, <2>1, <3>3 DEF h
    <2> QED
        BY <2>2, <2>3
<1>4. CASE CommitCall(p)
    <2>1. file' = [file EXCEPT ![h] = [file[h] EXCEPT !.commits = file[h].commits \cup {p}]]
        BY <1>4, Writes DEF h
    <2>2. file[h].commits \cup {p} \in SUBSET Openers
        BY <1>1 DEF File
    <2>3. ~Schema(p) /\ ~Pragma(p)
        BY <1>4 DEF Pragma, Schema, CommitCall
    <2> DEFINE C == file[h].commits \cup {p}
               w == [file[h] EXCEPT !.commits = C]
    <2> HIDE DEF C
    <2>4. /\ w \in File /\ w.pool = file[h].pool /\ w.level = file[h].level
          /\ w.commits = C
        <3>1. C \in SUBSET Openers
            BY <2>2 DEF C
        <3> QED
            BY <1>1, <3>1, FileCommits
    <2>5. file' = [file EXCEPT ![h] = w]
        BY <2>1 DEF C
    <2> HIDE DEF w
    <2> QED
        BY <1>1, <2>3, <2>4, <2>5 DEF h, C
<1> QED
    BY <1>2, <1>3, <1>4

LEMMA NextType == OpenTypeOK /\ [OpenNext]_openVars => OpenTypeOK'
<1> SUFFICES ASSUME OpenTypeOK, [OpenNext]_openVars PROVE OpenTypeOK'
    OBVIOUS
<1> USE OpenAssumption DEF OpenTypeOK, Enter, Phases, OptFile, Connected
<1>1. ASSUME NEW p \in Openers, Start(p) PROVE OpenTypeOK'
    BY <1>1 DEF Start, local, history
<1>2. ASSUME NEW p \in Openers, Build(p) PROVE OpenTypeOK'
    BY <1>2, NewFiles DEF Build, local, history
<1>3. ASSUME NEW p \in Openers, LoseCheckpoint(p) PROVE OpenTypeOK'
    BY <1>3, NewFiles DEF LoseCheckpoint, local
<1>4. ASSUME NEW p \in Openers, Publish(p) PROVE OpenTypeOK'
    BY <1>4 DEF Publish, local
<1>5. ASSUME NEW p \in Openers, Look(p) PROVE OpenTypeOK'
    BY <1>5 DEF Look, history
<1>6. ASSUME NEW p \in Openers, Connect(p) PROVE OpenTypeOK'
    <2>1. target' \in Openers /\ file' \in [Openers -> File]
        BY <1>6, NewFiles DEF Connect
    <2> QED
        BY <1>6, <2>1 DEF Connect, history
<1>7. ASSUME NEW p \in Openers, Verify(p) PROVE OpenTypeOK'
    BY <1>7 DEF Verify, local, history
<1>8. ASSUME NEW p \in Openers, Pragma(p) PROVE OpenTypeOK'
    BY <1>8, HandleWrites, Frames
<1>9. ASSUME NEW p \in Openers, Schema(p) PROVE OpenTypeOK'
    BY <1>9, HandleWrites, Frames
<1>10. ASSUME NEW p \in Openers, CommitCall(p) PROVE OpenTypeOK'
    BY <1>10, HandleWrites, Frames
<1>11. ASSUME NEW p \in Openers, Fault(p) PROVE OpenTypeOK'
    BY <1>11 DEF Fault, local
<1>12. CASE UNCHANGED openVars
    BY <1>12 DEF openVars, local, history
<1> QED
    BY <1>1, <1>2, <1>3, <1>4, <1>5, <1>6, <1>7, <1>8, <1>9, <1>10, <1>11, <1>12 DEF OpenNext, Run

LEMMA InitType == OpenInit => OpenTypeOK
<1> SUFFICES ASSUME OpenInit PROVE OpenTypeOK
    OBVIOUS
<1>1. legacy \in BOOLEAN /\ file \in [Openers -> File] /\ target \in OptFile
    BY NewFiles DEF OpenInit, OptFile
<1>2. phase \in [Openers -> Phases] /\ \A p \in Openers : phase[p] \notin Connected
    BY DEF OpenInit, Phases, Connected
<1>3. exists \in [Openers -> BOOLEAN] /\ handle \in [Openers -> OptFile]
    BY DEF OpenInit, OptFile
<1>4. faults \in 0 .. MaxFaults /\ acked \subseteq Openers
    BY OpenAssumption DEF OpenInit
<1>5. overtaken \in BOOLEAN /\ spoiled \in BOOLEAN
    BY DEF OpenInit
<1> QED
    BY <1>1, <1>2, <1>3, <1>4, <1>5 DEF OpenTypeOK

\* The state of first starts is well-typed; in particular no more faults are
\* counted than allowed.
THEOREM OpenTypeCorrect == OpenSpec => []OpenTypeOK
    BY InitType, NextType, PTL DEF OpenSpec

-----------------------------------------------------------------------------
(* What is true until a migration replaces a state.db.                     *)

Opening == {"look", "connect", "pragma", "verify", "schema", "open"}

\* The file that is open is state.db.
HandleInv == \A p \in Openers : phase[p] \in Connected => target # NoFile /\ handle[p] = target

\* With a JSON pool nobody gets to OpenStateDB before there is a state.db, and
\* then the stat finds it.
LegacyInv ==
    /\ \A p \in Openers : phase[p] \in {"build", "publish"} => legacy /\ target # p
    /\ \A p \in Openers : legacy /\ phase[p] \in Opening => target # NoFile
    /\ \A p \in Openers : legacy /\ phase[p] \in {"connect", "pragma"} => exists[p]
    /\ \A p \in Openers : phase[p] = "schema" => ~legacy

\* migrate-legacy publishes once and opens nothing.
CommandInv ==
    \A p \in Commands : phase[p] \notin Opening /\ (target = p => phase[p] = "done")

\* A ready file that is, or is to become, state.db has the pool there was.
PoolInv ==
    \A f \in Openers : (f = target \/ phase[f] = "publish") /\ file[f].level = "ready"
                        => file[f].pool = legacy

EmptyInv == ~legacy => \A f \in Openers : ~file[f].pool

\* An open database has its schema, and what was committed is in state.db.
DoneInv ==
    /\ \A p \in Openers : phase[p] = "open" => file[handle[p]].level = "ready"
    /\ acked # {} => target # NoFile /\ acked \subseteq file[target].commits

Inv == HandleInv /\ LegacyInv /\ CommandInv /\ PoolInv /\ EmptyInv /\ DoneInv
OpenIInv == OpenTypeOK /\ (~overtaken => Inv)

LEMMA InvImplies == OpenIInv => NothingForgotten
<1> SUFFICES ASSUME OpenIInv, ~overtaken PROVE NothingForgotten
    BY DEF NothingForgotten
<1> USE DEF OpenIInv, Inv, OpenTypeOK, OptFile
<1>1. ASSUME NEW p \in Openers, phase[p] = "open"
      PROVE  handle[p] = target /\ file[target].level = "ready" /\ file[target].pool = legacy
    <2>1. target \in Openers /\ handle[p] = target
        BY <1>1 DEF HandleInv, Connected
    <2>2. file[target].level = "ready"
        BY <1>1, <2>1 DEF DoneInv
    <2> QED
        BY <2>1, <2>2 DEF PoolInv
<1>2. acked # {} => target # NoFile /\ acked \subseteq file[target].commits
    BY DEF DoneInv
<1> QED
    BY <1>1, <1>2 DEF NothingForgotten

\* A step that has a file open writes to state.db: what the other parts of the
\* invariant say of it and of other files is kept.
LEMMA HandleStep ==
    ASSUME OpenIInv, ~overtaken, NEW p \in Openers, Pragma(p) \/ Schema(p) \/ CommitCall(p)
    PROVE  Inv'
<1> USE DEF OpenIInv, Inv
<1>0. handle[p] = target /\ target # NoFile /\ target \in Openers
    BY HandleWrites, Frames DEF HandleInv, Connected
<1>1. target' = target /\ handle' = handle /\ exists' = exists /\ legacy' = legacy
    BY Frames
<1>2. OpenTypeOK /\ OpenTypeOK'
    BY NextType DEF OpenNext, Run
<1>3. \A q \in Openers : q # p => phase'[q] = phase[q]
    BY <1>2, Frames DEF OpenTypeOK
<1>4. /\ phase[p] \in Connected
      /\ phase'[p] \in {"verify", "schema", "idle", "open"}
      /\ phase'[p] = "schema" => phase[p] = "pragma" /\ ~exists[p]
      /\ phase'[p] = "open" => phase[p] = "open" \/ (Schema(p) /\ phase[p] = "schema")
    BY <1>2, Frames DEF OpenTypeOK, Connected
<1>5. HandleInv'
    BY <1>0, <1>1, <1>3, <1>4 DEF HandleInv, Connected
<1>6. LegacyInv'
    BY <1>0, <1>1, <1>3, <1>4 DEF LegacyInv, Opening, Connected
<1>7. CommandInv'
    BY <1>1, <1>3, <1>4, OpenAssumption DEF CommandInv, Opening, Connected
<1>8. EmptyInv'
    BY <1>1, HandleWrites DEF EmptyInv
<1>9. PoolInv'
    <2> SUFFICES ASSUME NEW f \in Openers, f = target \/ phase'[f] = "publish", file'[f].level = "ready"
                 PROVE  file'[f].pool = legacy
        BY <1>1 DEF PoolInv
    <2>1. f = target \/ phase[f] = "publish"
        BY <1>3, <1>4
    <2>2. CASE file[f].level = "ready"
        BY <2>1, <2>2, HandleWrites DEF PoolInv
    <2>3. CASE file[f].level # "ready"
        <3>1. Schema(p)
            BY <2>3, <1>2, HandleWrites DEF Pragma, Schema, CommitCall
        <3>2. ~legacy
            BY <3>1, Frames DEF LegacyInv
        <3> QED
            BY <3>2, <1>2, HandleWrites DEF EmptyInv, OpenTypeOK, File
    <2> QED
        BY <2>2, <2>3
<1>10. DoneInv'
    <2>1. ASSUME NEW q \in Openers, phase'[q] = "open" PROVE file'[handle[q]].level = "ready"
        <3>1. handle[q] \in Openers
            BY <1>1, <1>2, <2>1 DEF OpenTypeOK, OptFile, Connected
        <3>2. CASE phase[q] = "open"
            BY <3>1, <3>2, <1>2, HandleWrites DEF DoneInv
        <3>3. CASE phase[q] # "open"
            <4>1. q = p /\ Schema(p)
                BY <2>1, <3>3, <1>3, <1>4
            <4> QED
                BY <4>1, <1>2, HandleWrites
        <3> QED
            BY <3>2, <3>3
    <2>2. acked' = acked \/ (CommitCall(p) /\ acked' = acked \cup {p})
        BY Frames
    <2>3. acked \subseteq file[target].commits
        BY <1>0 DEF DoneInv
    <2>4. acked' \subseteq file'[target].commits
        BY <1>0, <1>2, <2>2, <2>3, HandleWrites
    <2> QED
        BY <1>0, <1>1, <2>1, <2>4 DEF DoneInv
<1> QED
    BY <1>5, <1>6, <1>7, <1>8, <1>9, <1>10

\* Connect opens state.db, or creates it when nobody has it open.
LEMMA ConnectStep == ASSUME OpenIInv, ~overtaken, NEW p \in Openers, Connect(p) PROVE Inv'
<1> USE DEF OpenIInv, Inv
<1>1. OpenTypeOK /\ OpenTypeOK' /\ phase[p] = "connect"
    BY NextType DEF OpenNext, Run, Connect
<1>2. /\ phase' = [phase EXCEPT ![p] = "pragma"] /\ handle' = [handle EXCEPT ![p] = target']
      /\ exists' = exists /\ legacy' = legacy /\ acked' = acked
    BY DEF Connect, Enter, history
<1>3. CASE target # NoFile
    <2>1. target' = target /\ file' = file
        BY <1>3 DEF Connect
    <2>2. HandleInv'
        BY <1>1, <1>2, <1>3, <2>1 DEF HandleInv, Connected, OpenTypeOK
    <2>3. LegacyInv'
        BY <1>1, <1>2, <1>3, <2>1 DEF LegacyInv, Opening, OpenTypeOK
    <2>4. CommandInv' /\ EmptyInv' /\ PoolInv'
        BY <1>1, <1>2, <2>1, OpenAssumption DEF CommandInv, EmptyInv, PoolInv, Opening, OpenTypeOK
    <2>5. DoneInv'
        BY <1>1, <1>2, <2>1 DEF DoneInv, OpenTypeOK
    <2> QED
        BY <2>2, <2>3, <2>4, <2>5
<1>4. CASE target = NoFile
    <2>1. target' = p /\ file' = [file EXCEPT ![p] = Empty]
        BY <1>4 DEF Connect
    <2>2. \A q \in Openers : phase[q] \notin Connected
        BY <1>4 DEF HandleInv
    <2>3. ~legacy
        BY <1>1, <1>4 DEF LegacyInv, Opening
    <2>4. p \notin Commands /\ p # NoFile
        BY <1>1, OpenAssumption DEF CommandInv, Opening
    <2>5. HandleInv'
        BY <1>1, <1>2, <2>1, <2>2, <2>4 DEF HandleInv, Connected, OpenTypeOK
    <2>6. LegacyInv'
        BY <1>1, <1>2, <2>1, <2>3, <2>4 DEF LegacyInv, Opening, OpenTypeOK
    <2>7. CommandInv'
        BY <1>1, <1>2, <2>1, <2>4, OpenAssumption DEF CommandInv, Opening, OpenTypeOK
    <2>8. EmptyInv' /\ PoolInv'
        BY <1>1, <1>2, <2>1, <2>3, NewFiles DEF EmptyInv, PoolInv, LegacyInv, OpenTypeOK
    <2>9. DoneInv'
        BY <1>1, <1>2, <1>4, <2>1, <2>2 DEF DoneInv, Connected, OpenTypeOK
    <2> QED
        BY <2>5, <2>6, <2>7, <2>8, <2>9
<1> QED
    BY <1>3, <1>4

\* The rename: as it replaces nothing, nobody had a state.db.
LEMMA PublishStep == ASSUME OpenIInv, ~overtaken, NEW p \in Openers, Publish(p), ~overtaken' PROVE Inv'
<1> USE DEF OpenIInv, Inv
<1>1. OpenTypeOK /\ OpenTypeOK' /\ phase[p] = "publish" /\ target = NoFile /\ target' = p
    BY NextType DEF OpenNext, Run, Publish
<1>2. /\ phase' = [phase EXCEPT ![p] = IF p \in Commands THEN "done" ELSE "look"]
      /\ handle' = handle /\ file' = file
      /\ exists' = exists /\ legacy' = legacy /\ acked' = acked
    BY DEF Publish, Enter, local
<1>3. \A q \in Openers : phase[q] \notin Connected
    BY <1>1 DEF HandleInv
<1>4. p # NoFile
    BY OpenAssumption
<1>5. HandleInv'
    BY <1>1, <1>2, <1>3 DEF HandleInv, Connected, OpenTypeOK
<1>6. LegacyInv'
    BY <1>1, <1>2, <1>4 DEF LegacyInv, Opening, OpenTypeOK
<1>7. CommandInv'
    BY <1>1, <1>2, OpenAssumption DEF CommandInv, Opening, OpenTypeOK
<1>8. EmptyInv' /\ PoolInv'
    BY <1>1, <1>2 DEF EmptyInv, PoolInv, OpenTypeOK
<1>9. DoneInv'
    BY <1>1, <1>2, <1>3 DEF DoneInv, Connected, OpenTypeOK
<1> QED
    BY <1>5, <1>6, <1>7, <1>8, <1>9

\* The temporary file is nobody else's, and not state.db.
LEMMA BuildStep ==
    ASSUME OpenIInv, ~overtaken, NEW p \in Openers, Build(p) \/ LoseCheckpoint(p) PROVE Inv'
<1> USE DEF OpenIInv, Inv
<1>1. OpenTypeOK /\ OpenTypeOK' /\ phase[p] = "build" /\ phase' = [phase EXCEPT ![p] = "publish"]
    BY NextType DEF OpenNext, Run, Build, LoseCheckpoint, Enter
<1>2. target' = target /\ handle' = handle /\ exists' = exists /\ legacy' = legacy /\ acked' = acked
    BY DEF Build, LoseCheckpoint, local, history
<1>3. \E f \in {Migrated, HeaderOnly} : file' = [file EXCEPT ![p] = f]
    BY DEF Build, LoseCheckpoint
<1>4. legacy /\ target # p
    BY <1>1 DEF LegacyInv
<1>5. HandleInv' /\ LegacyInv'
    BY <1>1, <1>2, <1>4 DEF HandleInv, LegacyInv, Connected, Opening, OpenTypeOK
<1>6. CommandInv'
    BY <1>1, <1>2, <1>4, OpenAssumption DEF CommandInv, Opening, OpenTypeOK
<1>7. EmptyInv' /\ PoolInv'
    BY <1>1, <1>2, <1>3, <1>4, NewFiles, ZenonT(30) DEF EmptyInv, PoolInv, OpenTypeOK
<1>8. DoneInv'
    BY <1>1, <1>2, <1>3, <1>4 DEF DoneInv, HandleInv, Connected, OpenTypeOK, OptFile
<1> QED
    BY <1>5, <1>6, <1>7, <1>8

LEMMA NextInv == OpenIInv /\ [OpenNext]_openVars => OpenIInv'
<1> SUFFICES ASSUME OpenIInv, [OpenNext]_openVars PROVE OpenIInv'
    OBVIOUS
<1>1. OpenTypeOK /\ OpenTypeOK'
    BY NextType DEF OpenIInv
<1> SUFFICES ASSUME ~overtaken' PROVE Inv'
    BY <1>1 DEF OpenIInv
<1>2. ~overtaken
    BY DEF OpenNext, Run, openVars, history, Start, Build, LoseCheckpoint, Publish, Look, Connect,
        Pragma, Verify, Schema, CommitCall, Fault
<1>3. Inv
    BY <1>2 DEF OpenIInv
<1> USE DEF Inv
<1>4. ASSUME NEW p \in Openers, Start(p) \/ Look(p) \/ Verify(p) \/ Fault(p) PROVE Inv'
    <2>1. /\ file' = file /\ target' = target /\ handle' = handle /\ legacy' = legacy /\ acked' = acked
          /\ \A q \in Openers : q # p => phase'[q] = phase[q] /\ exists'[q] = exists[q]
        BY <1>1, <1>4 DEF Start, Look, Verify, Fault, Enter, local, history, OpenTypeOK
    <2>2. /\ Start(p) => /\ phase[p] = "idle" /\ exists' = exists
                         /\ phase'[p] = "build" => legacy /\ (target = NoFile \/ p \in Commands)
                         /\ phase'[p] = "look" => p \notin Commands /\ (legacy => target # NoFile)
                         /\ phase'[p] \in {"build", "look", "done"}
          /\ Look(p) => /\ phase[p] = "look" /\ phase'[p] \in {"idle", "connect"}
                        /\ exists'[p] = (target # NoFile)
          /\ Verify(p) => /\ phase[p] = "verify" /\ exists' = exists
                          /\ phase'[p] \in {"idle", "open"}
                          /\ phase'[p] = "open" => file[handle[p]].level = "ready"
          /\ Fault(p) => /\ phase[p] \notin {"idle", "done", "dead"} /\ exists' = exists
                         /\ phase'[p] \in {"idle", "dead"}
        BY <1>1 DEF Start, Look, Verify, Fault, Enter, local, OpenTypeOK
    <2>3. HandleInv'
        BY <1>3, <1>4, <2>1, <2>2 DEF HandleInv, Connected
    <2>4. LegacyInv'
        BY <1>3, <1>4, <2>1, <2>2, OpenAssumption DEF LegacyInv, CommandInv, Opening
    <2>5. CommandInv'
        BY <1>3, <1>4, <2>1, <2>2, OpenAssumption DEF CommandInv, Opening
    <2>6. EmptyInv' /\ PoolInv'
        BY <1>3, <1>4, <2>1, <2>2 DEF EmptyInv, PoolInv
    <2>7. DoneInv'
        BY <1>3, <1>4, <2>1, <2>2 DEF DoneInv
    <2> QED
        BY <2>3, <2>4, <2>5, <2>6, <2>7
<1>5. CASE UNCHANGED openVars
    BY <1>3, <1>5 DEF openVars, local, history, HandleInv, LegacyInv, CommandInv, EmptyInv, PoolInv, DoneInv
<1> QED
    BY <1>2, <1>4, <1>5, HandleStep, ConnectStep, PublishStep, BuildStep DEF OpenNext, Run

\* Unless a migration was renamed over a state.db, everybody works on the one
\* state.db, with the pool of the JSON files and all committed transactions, for
\* any number of processes, crashes and errors.
THEOREM NothingIsForgotten == OpenSpec => []NothingForgotten
<1>1. OpenInit => OpenIInv
    <2> SUFFICES ASSUME OpenInit PROVE Inv
        BY InitType DEF OpenIInv
    <2>1. \A p \in Openers : phase[p] = "idle" /\ file[p] = Empty
        BY DEF OpenInit
    <2>2. target = NoFile /\ acked = {}
        BY DEF OpenInit
    <2>3. HandleInv /\ LegacyInv
        BY <2>1 DEF HandleInv, LegacyInv, Connected, Opening
    <2>4. CommandInv
        BY <2>1, <2>2, OpenAssumption DEF CommandInv, Opening
    <2>5. PoolInv /\ EmptyInv
        BY <2>1, <2>2, NewFiles, OpenAssumption DEF PoolInv, EmptyInv
    <2>6. DoneInv
        BY <2>1, <2>2 DEF DoneInv
    <2> QED
        BY <2>3, <2>4, <2>5, <2>6 DEF Inv
<1> QED
    BY <1>1, NextInv, InvImplies, PTL DEF OpenSpec
=============================================================================
