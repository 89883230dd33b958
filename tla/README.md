# A verification project for agy-go

TLA+ models of the concurrent and failure-prone parts of agy-go (the
`agy-pool` gateway and its tools), the TLC runs that check them and theorems
about them proved with TLAPS. Paths are relative to the repository root.

## 1. The system

`agy-pool` puts a local reverse proxy between the native `agy` command and
Google and spreads the requests over a pool of accounts. One daemon serves the
requests; commands (`run`, `login`, `switch`, `remove`, `quota`, `start`, ...)
run as processes of their own. All of them share files.

| part | state | operations | meets the others through |
|---|---|---|---|
| request path (`internal/proxy`) | one goroutine per request: candidates, current account, what was committed downstream | select, dispatch, fail over, relay, bookkeeping | pool transactions; upstream; the client |
| scheduler (`internal/scheduler`) | none (cursor in state.db) | order the candidates | called by the request path with a pool it has read |
| state.db (`internal/storage`) | accounts, active account, round-robin cursor | load, whole-pool transaction, reservation, open, migrate | every other part, from several processes |
| token refresh (`internal/auth`) | per-account lock file; the credentials in state.db | refresh, compare and store | Google; logins and imports |
| quota probes (`internal/quota`) | running probes and back-off per process; quota data in state.db | schedule, probe, store | upstream errors, logins, the request path |
| native token file (`internal/accounts`) | the file native `agy` reads, and its lock | synchronise, switch, remove, import, login | state.db, without a common commit |
| daemon (`internal/daemon`) | PID file, its lock, the port, runtime file, log | start, stop, restart, serve, rotate | other commands, signals |
| routing audit (`internal/proxy`, `internal/diagnostics`) | bounded queue, subscribers, drop counters | emit, subscribe, evaluate | the request path, without waiting |
| usage ledger (`internal/tokei`) | ledger database with a manifest per conversation | incremental ingest, catalog cache, verify | databases that another program is writing |
| inventory, archive, restore (`internal/inventory`) | archives, registry database | scan, plan, archive, verify, restore | databases in use; two directories without a common commit |
| installer (`internal/installer`) | shims and the preserved native binary | install, repair, uninstall | an updater that overwrites the shim |
| configuration, diagnostics, command line, display | none of their own | read, print | — |

What is hard in it:

* **Ambiguity.** After a transport error nobody knows whether upstream runs the
  generation, or will. Trying another account may charge twice.
* **Waiting in the middle.** Requests, refreshes and probes work on copies of an
  account for as long as the network takes; logins, promotions, removals and
  429s happen meanwhile.
* **Two stores, no common commit.** state.db and the native token file; the PID
  file and the process; the restored database and its brain directory.
* **Processes that die**, between any two of those steps.
* **Several processes** on one SQLite file, with a mutex each, and lock files.

`PROJECT.json` lists every component with its status, and every hazard with its
line and the properties that cover it.

## 2. The modules

```
AtomicPool <--implements-- StateTx      StateOpen        every pool transaction is one step,
                              | justifies  | on one state.db
      +------------+----------+------------+
 ProxyDispatch TokenRefresh QuotaProbe NativeSync      DaemonLifecycle      Installer
      ^ orders within
  Scheduler

 Generations <- Ingest            ConversationFiles <- Archive <- Restore <- AgyDb
 (agy-tokei)                      (agy-db)          <- Inventory ----------/
```

`StateTx` is proved to implement `AtomicPool`; the four modules below it take a
pool transaction as one atomic step for that reason, and each transaction's
failure as an alternative of that step.

**AtomicPool** — what a caller of `PoolTransaction` may rely on: a call that
reports success took effect exactly once, one that reports an error did not
take effect, one whose process died did so at most once.

**StateTx** (`storage.go` 207-234, `db.go` 303-382) — `storage.poolMu`,
`StateDB.writeMu`, `BEGIN IMMEDIATE` with its retries, load, mutator, whole-pool
save, commit or rollback, and processes that die anywhere. The pool is the
sequence of the calls whose effect it holds, so a save based on a stale read
erases an entry. A reservation takes no `poolMu`, as `ReserveRoundRobinCandidates`
does not. What can fail before a lock is asked for (`Open`: directories, opening)
fails there only: a call that waits for `poolMu` or `writeMu` cannot fail its way
out. `Progress` is the steps that do not fail, and fairness is theirs alone.

**StateOpen** (`db.go` 71-275, `storage.go` 287-488) — `GetStateDB` of several
processes on a directory without state.db: the look, the migration of a JSON
pool into a temporary database and its rename, the file SQLite creates (first
empty, then with a header, then with a schema), the refusal of what is not
ready, `migrate-legacy`, and faults between any two steps. A file is named by its
creator, so what happens to a handle after a rename is visible. Two things the
code permits are in the model and marked by history variables: a migration that
is renamed over a state.db others already use (`overtaken`), and an
initialisation cut short, which leaves a database every later start refuses
(`spoiled`).

**ProxyDispatch** (`proxy.go` 529-1021, `failover.go`, `commitment.go`,
`stream.go`) — one goroutine per request: reading the body, selection (with the
reservation for round robin), token, send, and then each way a dispatch can
end: client gone, ambiguous transport error, retryable refusal, other status,
stream, buffered body, and a request that cannot be built: then the handler
returns without writing, and `net/http` answers with an empty 200
(`RequestCreationFailed`). Upstream is a separate process: it may accept a call
after the proxy has given up on it. Logins, removals and expiring cooldowns
change the pool at any time. The order of candidates inside a tier is arbitrary.

**Scheduler** (`scheduler.go`, `quota.go` 15-376, `db.go` 353-382) — the capacity of an
account, `OrderCandidates` with its three strategies and the reservation of
round robin, over a pool that changes by probes, 429s, logins and removals.
Fractions are thousandths. The order is written as the code computes it
(partition, stable sort by keys, rotation) and compared with the order by
the code's keys; where `docs/MIGRATION_CONTRACT.md` has other keys is said in section 3.
An INSTANCE of ProxyDispatch checks that it is one of the orders assumed
there. A stable sort puts an account at the place given by the number of those ahead
of it; the rotation is the stable sort that puts those behind the cursor first.

**TokenRefresh** (`auth.go` 230-380) — `RefreshToken` with its lock file (`Enter`
and its phases), its second look at state.db
(`LookAgain`), the request to Google, the compare-and-store. Google may rotate the
refresh token. Logins and imports (`accounts.go`) replace the credentials
(`LoginAgain`); processes die with the answer in hand (`Die`).

**QuotaProbe** (`refresh.go`) — background probes with single flight and
back-off per process, probes of commands beside them, a clock for the back-off.
What upstream measured is stored later than it was measured; 429s, validation
errors and logins come in between. Whether the restriction that is stored then is
the one the probe saw is decided by value, as in the code (`Lifted`).

**NativeSync** (`accounts.go` 179-466) — `SyncActiveAgyTokenFile`, `SwitchAccount`
and `RemoveAccount` under the token file's lock, step by step over two stores,
with the roll-back and with crashes; the proxy's promotions and refreshes and
the transaction of a login change state.db without that lock. `owner` and `base`
remember whose the file was and who was active when the operation read state.db.
An account's
identity is fixed; a removal's selector keeps meaning the account it meant when
the pool was read (names and numbers are resolved again in the code; the lock
excludes other removals).

**DaemonLifecycle** (`control.go`, `lifecycle.go`, `server.go`, `pid.go`) — the
daemon from lock to exit, in the order of its deferred calls, and the operations
that start, stop and restart it. Reading the PID file and removing it are two
steps, as in the code; the reads that decide a branch are one. A SIGTERM before
`signal.Notify` kills. A process ID is not reused *during* a run, only before it,
so the last gap of `stopWithFile`, between identifying a process and signalling
it, is not explored. `StopTimesOut` assumes that a serving daemon reacts to
SIGTERM within the poll's seconds and only requests under way take longer.
Configuration and version are compared as values; a configuration file edited in
place and records of older versions are left out. A restart that names another
configuration file than the running daemon's drops the error of
`stopWithFile` (`control.go` 151) and, if the binaries are the same, reports
success without having restarted anything: `RestartsMeetTheirOwn` excludes it
from `RestartReplaces`. In the run the automatic start names another file and
is of another binary, so that the restart fails instead.

**Generations** (`reader.go`, `types.go` of `internal/tokei`) — the pure part of
agy-tokei: joining the aliases of a generation, merging its counters, the identity
under which it is stored, as functions over a sequence of usages.

**Ingest** (`service.go`, `ledger.go`, `reader.go`, `catalog.go`) — `Service.Ingest`
of one or two processes beside the program that writes the conversations: the
skip check in its two halves, the read through SQLite, the checks before and
after, the ledger's transaction, failures recorded, the catalog with its cache,
older ledgers found at the start, crashes. A source is a main file with a stamp
and a log that a checkpoint empties.

**ConversationFiles**, **Archive**, **Inventory**, **Restore**, **AgyDb**
(`internal/inventory`, `cmd/agy-db`) — the files that agy-db only reads, with both
journal modes of SQLite; archiving (look, copy page by page, look again, the same
for brain and summary, publication without replacement); the copy and the policy
of plan; verification and restoration (stage, publish the database, then the
brain, verify, record) with the registry they share. AgyDb composes them, with
others who damage archives, take destinations and replace directories. A
database is two pages, so that a copy may mix two states.

**Installer** (`installer.go`, `diagnostics.go` 157-420, where the native
binary is looked for) — install, repair and uninstall beside the updater of the native
program, over two directories, each command killed or failing between any two
renames, two commands at a time.

A module's actions carry the names of what the code does at that place;
`PROJECT.json` "map" gives the lines. Operators that no specification uses, such
as `ReapWaits`, are changed forms of the definition after them: with one of them
in its place TLC finds the property it is listed with in "mutants" violated.

## 3. The runs

Bounds are the constants of each `.cfg`. Every hazard is between two actors (two
goroutines, or a goroutine and a command) or an actor and a crash, so two or
three actors and two accounts, tokens or windows suffice for each to occur.

| run | bounds | what it shows |
|---|---|---|
| `proxy` | 2 requests, 2 accounts | no replay, one true answer, no over-counted use; every request that arrived is finished |
| `proxy_unsent` | as `proxy` | **violation**, see below |
| `state_db` | two calls and a reservation of a daemon and a call of a command, 2 attempts; or the first start of a daemon, a command and `migrate-legacy`, 2 faults, with and without a JSON pool | transactions are atomic; every call returns, whoever failed or died; nothing migrated or committed is forgotten unless a migration replaces a state.db; first starts do not keep each other out unless one is cut short |
| `scheduler` | 3 accounts, 6 kinds of quota data and state | each strategy's order is that of the code's keys, of the accounts that are not restricted, and one of ProxyDispatch's; an account with less quota never moves forward; round robin passes nobody over twice |
| `probe` | 2 background probes of one daemon and a command's, 2 seconds, 1 change of credentials | single flight and back-off; a started probe ends and frees its entry |
| `credentials` | 2 refreshes, 3 tokens; or a sync, a switch and a removal, 2 accounts, 1 credential change each | a login is never undone by an older refresh, no herd, only stored tokens are handed out, the stored refresh token is usable unless a rotation was lost; success leaves state.db and the token file in agreement, an error the file with whom it belonged to or who was active; every `RefreshToken` and every operation on the file ends |
| `native_rollback` | as `credentials` | **violation**, see below |
| `daemon` | an automatic start, a stop and a restart, 2 processes | what starts and restarts report is true, what serves is recorded, stop stops, operations end |
| `daemon_ownership` | a start, a stop and a restart, 3 processes | **violation**, see below |
| `ingest` | 4 scenarios: 2 conversations with 3 contents each, 2 catalogs, up to 2 processes, 4 kinds of ledger | rows tell of one state and count each generation once, nothing is skipped that was not stored, success is fresh, projects follow the catalog |
| `agydb` | 13 scenarios: a command and what it may race with | archives are moments of the source, plans rest on committed states and evidence, restores place whole bundles, replace nothing and say what they did |
| `installer` | 2 commands at a time, 3 in all, 2 versions of the native binary | the newest version is kept, the shim always works, success is complete |

Bounds that are not constants: `CommandEarly` of `probe` lets the command run in
the first second only (a clock further on adds nothing to its race with the
probes, which do not see it otherwise). The scenarios of `agydb` give each actor
its rivals one at a time, not all at once; those of `ingest` bound the contents
and who ingests. `MaxCred`, `MaxToken`, `MaxTime`, `MaxFaults`, `MaxVersion` and
`MaxCommands` bound counters that are unbounded in the code. `MaxAttempts` of NativeSync is the
code's three; the ten attempts of `BEGIN` are two in the runs and any number in
the proofs. CHECK_DEADLOCK is off where all calls of an instance may have ended.
Symmetry is used where no temporal property is checked, over sets whose members
no constant distinguishes; `proxy` states termination without a temporal
property for that reason: `EveryRequestEnds` says that a request's next step is
always enabled and that each of its steps lowers a natural number, `StepsLeft`.

`state_db` and `credentials` each hold two protocols about the same data, in
`MCStateDb` and `MCCredentials`: the first step of a behaviour (`part`) says which of
the two it is of, the other module's variables stand still, and a liveness property
is required of the behaviours that have the calls it is about. Neither protocol
sees the other; they share the run, not the state.

In `state_db` the daemon's two calls contend for its `poolMu`, beside a reservation
that takes only `writeMu`, and the command's call contends for SQLite's lock: a lock
that is not given back leaves a waiter blocked for good, and `CallsReturn` fails
(its mutant returns with the lock held).

Three runs show a disagreement of the code with what its texts say, quoted in
"findings":

* `proxy_unsent`: when `http.NewRequestWithContext` fails, `dispatchAccount` returns
  and `HandleProxy` writes nothing (`proxy.go` 825-832). The committer says
  NotCommitted, "no headers or body bytes have been sent downstream"
  (`commitment.go` 14), but `net/http` sends an empty 200: a success for a generation
  that nobody executed. `ResponseIsTrue` says of that answer only that nothing was
  executed for it.
* `native_rollback`: "Account changes ... attempt rollback on reported errors"
  (the repository's `README.md` 193). A switch while nobody is active has nothing to roll back
  to (`accounts.go` 457-464): when its transaction fails, the file is the chosen
  account's and the error says nothing of it. `FailureRestores` holds for every
  other reported error.
* `daemon_ownership`: `RemovePIDFileIfOwned` may remove another daemon's record (an
  overlapping start, stop and restart), against `pid.go` 206.

Three more disagreements belong to `scheduler`, whose `OrderIsRight` states the
code's order and not that of `docs/MIGRATION_CONTRACT.md`:

* a reset that has passed has the ratio 0 (480); in the code it counts as a whole
  window to go (`quota.go` 286-302), which lowers the account's pace;
* Restricted accounts are ordered last (465-472); in the code they are not
  candidates at all (`scheduler.go` 59-61);
* the tuple of max_quota starts with the number of known windows (488-499); the code
  first puts the accounts in reserve behind all others (`scheduler.go` 129-181).

Conditions in the properties are what the code does not promise, and TLC refutes
the property without them:

* `NothingForgotten` ends where a migration is renamed over a state.db:
  `GetStateDB` looks and renames without a lock, and `migrate-legacy` does not
  look at all. What others have committed by then is lost, they go on using the
  file that no longer has a name, and its WAL stays beside the new one.
* `ProcessesOpen` ends where an initialisation is cut short: nothing repairs a
  state.db without a schema. A migration whose checkpoint fails counts too, since
  its error is dropped.
* `ServingIsRecorded`, `StopStops`, `RestartReplaces` hold while operations come one
  at a time, `SuccessIsFresh` and `ProjectsFollowCatalog` while ingests do.
  Between the two halves of the skip check a checkpoint may hide a change until
  the next ingest, and the removal of a conversation with its log hides one for
  good; overlapping ingests may store the older scan last.
* `SuccessAgrees` holds while nobody changes state.db without the token file's lock
  (`quiet`): a promotion or a refresh between an operation's read and its end leaves
  the stores in disagreement until the next synchronisation. `FailureRestores` needs
  no such condition.
* `KnownWindowsKept` is proved for one process only (`Solo`). Each of two processes
  stores its own copy of the quota, taken before the network calls, and the
  later one deletes a window that the other has cached.
* `RoundRobinFair` needs the account of the cursor to be eligible: otherwise
  `OrderCandidates` starts again at the first eligible account, and two accounts
  that take turns in cooldown keep a third waiting.
* `NewestKept` and `ShimWorks` name in `disturbed` what nothing protects: an update
  that arrives while a command runs, commands that overtake each other, and a
  preserved copy that has updated itself.

**Fairness.** Liveness assumes weak fairness of each goroutine or process that
has work to do (`Step`, `Progress`, `RefreshToken`, `Run`, `Daemon`): Go's and the kernel's
schedulers give it, and calls to the network return because every client of the
code has a timeout. In StateOpen a process that could not open state.db tries
again, as the daemon's ticker and every request do. Nothing is assumed of the
environment: users, crashes, upstream and other programs may act or not. Locks
are granted to some waiter; with finitely many calls each gets its turn.

## 4. The theorems

| module | theorem | statement |
|---|---|---|
| `ProxyDispatchProofs` | `TypeCorrect`, `AtMostOnce`, `TrueResponses`, `UsageBound`, `ActiveReference`, `NoReplayAfterCommit` | the type invariant, the invariants of `proxy`, and two more: the active account exists, nothing is sent after the response was begun |
| | `FailoverEnds` | every step of a request lowers `StepsLeft`: the half of `EveryRequestEnds` without ENABLED |
| `StateDbProofs` | `TypeCorrect`, `CurrentDecisions`, `Atomicity` | mutators decide on the pool they replace; `Spec => AP!Spec` |
| | `OpenTypeCorrect`, `NothingIsForgotten` | the type invariant and `NothingForgotten` |
| `TokenRefreshProofs` | `TypeCorrect`, `LoginSurvives`, `HerdIsOne`, `HeldTokens`, `RefreshTokenKept` | the type invariant and the safety properties of `credentials` about refreshes |
| `UsageProofs` | `TypeCorrect`, `OneFlight`, `BackoffIsRespected` | the type invariant and the safety properties of `probe` |
| | `WindowsAreKept` | `Solo => (Spec => KnownWindowsKept)`: one process probes, in the background |
| | `IngestInvariant`, `SkippedAreStored`, `ProjectsAreCatalogs`, `SuccessesAreFresh` | the inductive invariant and the properties of `ingest` about conversations and catalog |
| | `RowsAreGenerations` | `ReadingIsRight => (IngestSpec => []RowsCountGenerations)` |
| | `PoolInvariant`, `OrdersAreRight`, `LessQuotaIsNoReward`, `RoundRobinIsFair` | the inductive invariant and all properties of `scheduler` |
| `NativeSyncProofs` | `TypeCorrect`, `ActiveStaysMember`, `SuccessMeansAgreement`, `FailureMeansRestored` | the type invariant, the invariants of `credentials` about the token file, and that the active account exists |
| `DaemonLifecycleProofs` | `TypeCorrect`, `StartsAreTrue`, `RecordIsTrue`, `StopsStop` | the type invariant and the safety properties of `daemon` |
| `InstallerProofs` | `TypeCorrect`, `ShimAlwaysWorks`, `NewestIsKept`, `SuccessMeansComplete` | the type invariant and all properties of `installer` |
| `AgyDbProofs` | `AgyDbTypeCorrect`, `ArchivesAreMoments`, `VerifiedAreCommitted`, `RestoresAreArchives`, `ResultsTellPlaced`, `EligibleNeedsEvidence`, `NothingIsReplaced` | type correctness and all properties of `agydb` |

They hold for any finite sets of requests and accounts, any sets of calls,
processes, callers, probes, operations, commands, account states, conversations, contents, catalogs,
pages, brain files, paths and directories, any scenario, and any bound on tokens, credentials, faults, versions
and time. The assumptions are the named `ASSUME`s of the modules: the extra
values are not members of the sets, the bounds are natural numbers, the delays
of the back-off start with the shortest, and where something is counted or a
pool is chosen the sets are finite. For agy-db the pages and brain files are
numbers, since the code copies them in an order, and a scenario says in which
journal mode each database is and what there is of the brain. For the scheduler the
identifiers are natural numbers, as in state.db, and the states are any records of
integer fractions, resets and ages, present or absent. For agy-tokei the
conversations are numbers, in the order of their file names. Where a type invariant is proved for every
value of the constants and says nothing about a hazard, no run repeats it.

*Proxy.* At-most-once is not inductive. `ChargeInv` says that a request is
charged exactly on its current account and exactly when its last call was
accepted; `ControlInv` that nothing is in flight where a new call may start —
only a refused call leads back into the loop — and `ResponseInv` ties the
response to where the handler is. `UsageNotOvercounted` needs a second
strengthening: a counter is bounded by the requests whose relay has *begun*,
since the increment is the step that begins it.

*Transactions.* `LockInv` (exactly the holder of SQLite's lock is inside a
transaction) makes `DecidesOnCurrentPool` inductive; `EffectInv` (the pool holds
a call's effect exactly from its commit on) gives the refinement mapping's
outcome. `AttemptInv` bounds the retries.

*First starts.* Until a migration replaces a state.db, whoever is past the
connect has state.db itself open (`HandleInv`); with a JSON pool nobody is on the
way to create a schema, because the stat of whoever gets that far finds a
database (`LegacyInv`); so a ready state.db has the pool (`PoolInv`), and commits
are made where later processes look (`DoneInv`). A rename that replaces nothing
finds nobody connected, which is why it may forget nothing.

*Token refresh.* A login is protected by what the lock does *not* protect: the
comparison in the storing transaction. The invariant relates each caller's copy
to the grants issued so far (`IssuedInv`, `GrantInv`), the answer of Google to
the token it was sent for (`ReplyInv`, `SentInv`), and the tokens state.db has
held to those that callers hold (`HeldInv`); `UsableInv` and `UnseenInv` follow
a rotated refresh token until it is stored or lost.

*Quota probes.* A background probe owns the in-flight entry of its process from
`Schedule` to `Clear` (`FlightInv`), so within a process nothing happens between
its read and its write; that gives single flight and, with one prober, that its
copy knows all windows (`CopyInv`). `BackoffInv` says that a failure that has
been counted keeps the next probe away from the time of the failure, not from the
time it was planned.

*Usage ledger.* `IngestInv` rests on the native program's `Drift`: a conversation
that still has its stamp, and no log, has not changed. So a stamp taken before a
read `Describes` the version that was read (`ReadInv`), from the first stat on and
through commits of others, and a completed manifest describes the version its
rows are from (`StoredInv`): that is `SkippedIsStored`. `CatalogInv` says the same
of the catalog (`Fresh`, `Agrees`), in each phase from the stat of the catalog to
the last commit. `FreshInv` follows an ingest that runs alone (`AloneInv`):
each conversation discovered is still to do, recent enough, or failed, and a
manifest that matches the stat seen in the first half of the skip check is of
rows that are recent enough, unless the log that the second half looks at is
there. `low` forgets a conversation whose log goes in between, which is exactly
what the code cannot see. `RowsCountGenerations` is about an algorithm, too:
`ReadingIsRight` says of each content by itself that joining and merging give
its generations; it is the hypothesis of `RowsAreGenerations`, it holds of the
contents of the run, and the run checks it with the property, since it stores
each of them.

*Scheduler.* `OrderIsRight` and `NoRewardForLess` are about an algorithm and hold of any
pool: `PoolTypeOK` is all they need. Keys of one length, with the place in the pool behind them, are totally ordered
(`GreaterIsStrict`, `GreaterIsTransitive`, `GreaterIsTotal`). In a finite set so
ordered the number of those ahead of an element takes each value once (`Ranking`:
it is injective into an interval of the same cardinality, which replaces an
induction over the sort), so a stable sort lists its accounts once and in order
(`StableSortFacts`); joined lists of disjoint tiers do too (`JoinedLists`), and
their order, `Before`, is that of the code's keys (`RankFacts`). For `NoRewardForLess`
each step of `ComputeCapacityState` is shown to be monotone (`ClampIsMonotone`,
`MeasuredIsMonotone`, `CapacityIsMonotone`), so that a tier can only become later and a
key only smaller (`KeyIsMonotone`); whoever was ahead stays ahead (`StillBefore`)
and the place can only grow (`PlaceGrows`). A reservation takes the eligible
account that comes first after the cursor (`ReserveFacts`), so whom the reservations
preferred to `a` lies, around the pool, between `a` and the cursor (`RoundInv`), also
while members come at the end and leave (`AppendFacts`, `RemovalFacts`), and the
next one is taken from the rest of the round.

*Native token file.* The lock's holder is the only operation between `Lock` and
`Release` (`LockInv`), so the file changes by its hand only. What it has read of
state.db may change under it; the history variable `quiet` says that it has not,
and then everything it read and chose is still so (`StillSo`), and a success
leaves the stores in agreement (`Agreement`). An error needs no quiet: what the file
was, and who was active, are facts about the moment of the read, and `IdentityInv`
carries them to the report: until it writes, the file is still its owner's; what it
will roll back to is the account that was active then, if there was one. Removal needs facts about removing an
element from a sequence without repetitions (`RemoveFacts`, `ReplacementFacts`).

*Daemon.* Lock and port belong to the process that is past taking them
(`SystemInv`), so a daemon that is recorded while the port answers is up. While
operations come one at a time, what is up is recorded, what is on its way there
is the child of the operation that waits for it (`Awaited`), and each operation
`Knows` what it relies on: that nothing is up where it removes a record or
spawns, that the process it signalled is the only one up.

*Installer.* `Control` and `Alone` say what a command's place in the program and the
disturbances so far mean; `CommandsApart` that without an overlap two commands are
not under way together. The shim's theorem rests on the order of the
steps: the preserved copy and agy-pool are there before the shim and outlive it.
The other two rest on where Install looks first: the newest version is the one it
takes, holds or leaves where it is.

*agy-db.* `IInv` is `FilesTypeOK`, `FilesInv`, `CaptureInv`, `PlansInv` and
`RestoreInv`. Everything rests on `Drift`: whatever the native program does, a
file that looks as before is as before, because a main file's stamp only grows, a
new log carries a later stamp, and a brain file a later version. So a capture is
described by what it will be worth if the second look agrees: while the stamp is
the one seen first (`MainInv`), the copied pages are those of that moment;
while the log is the one seen, the copied log is (`LogInv`); and the two
together were committed at one moment, the one at which the log, or the absence
of a journal, was seen (`MomentInv`). The second look runs over the four files
one after the other, so each part says what has been seen again already
(`after`) and no longer depends on what the file does. `BrainInv` does the same
for the brain: all files listed were there together when they were
listed again, if those not yet hashed for the second time are unchanged. A plan
has no log to reckon with: it requires that none lies there (`PlanInv`). `ArchiveInv`
carries the archives through damage, copies and removals; the set of moments only
grows, so what was a moment stays one. Of a restore, `ProgressInv` says what it has
published where it is, `BundleInv` that what it verified is an archive and what it
staged is part of it, `PlacedInv` that what bears its name is just that; nobody
else writes under its name, so other steps `Spare` it. Eligibility needs no
invariant: it is the case analysis of `Evaluate`, for all evidence.

**Only model-checked:** the functions of Generations, which join and merge
sequences of generations recursively: what they return for every input needs an
induction over data; liveness under fairness, which the prover does not reach; and
every statement about ENABLED. `ReadingIsRight` is where the proofs about agy-tokei
take over from TLC.

## 5. Not modelled, and the plan

* The audit queue (`routing_audit.go`), the statistics writer and the counters:
  observation only, no decision depends on them.
* Log rotation: copy and truncate beside an appender; lines written in between
  are lost and nothing promises otherwise.
* Row-wise reading of the pool: `LoadPoolFromTx` does not look at `rows.Err`, so an
  error half way looks like a smaller pool. What the driver reports then is not
  documented; the models read the pool in one step.
* What SQLite makes of a database that was renamed over one in use.
* Identifiers that `NextAccountID` gives again, while a request of the removed
  account is under way: the models do not reuse them.
* Command line, terminal code, formatting, configuration parsing, and the rest of
  diagnostics (functions of their inputs and the environment); the encryption of
  account bundles and the protobuf decoder (computation on bytes); the Python
  scripts.
* Of the installer: configuration, shell files, a copy installed with `--target` or
  `--prefix` (which is not among the candidates of later commands), and
  the different ways install and uninstall resolve their directory.

Facts met while modelling that no property states: two processes that initialise a
fresh archive registry collide, and the second fails (`registry.go` 116-195); an
archive path once registered cannot be registered again after its archive was
removed (`registry.go` 306-335); a verification recorded late may call an archive
valid that a newer one found damaged (`registry.go` 262-277); a restore that dies
between its two renames leaves the database without its brain and no event; an
empty brain directory is archived, and restored, as an empty one (`archive.go`
567-617), so that of two archives without brain files one may publish a brain;
merged counters take the maximum of each, which may exceed every total reported
(`reader.go` 345-378); a probe that succeeds lifts the restriction it saw, though
`refresh.go` 364-366 says that the authentication state is left alone, and since it
compares by value (376-383) it also lifts a newer 429 that ends in the same second,
though 376 says "never a newer one".

Hazards without a property, each with its reason in `PROJECT.json`: a first start
that is cut short (`db.go` 103), a promotion between the steps of an operation on
the token file (`failover.go` 57), a 401 that meets a new login (`failover.go` 114),
identifiers given again (`storage.go` 258), what a probe lifts and in which order probes of several
processes are stored (`refresh.go` 375-383), rows that fail half way (`db.go` 476), a
restart that reports the old daemon (`control.go` 151), an update that arrives while
the installer runs (`installer.go` 408), verifications recorded late
(`registry.go` 262).

Next: instances of the daemon with several data directories; the halves of the
liveness properties that need no ENABLED, as `FailoverEnds` is for the request path.
