----------------------------- MODULE Scheduler -----------------------------
(***************************************************************************)
(* The order in which the proxy tries the accounts: the capacity of an     *)
(* account (internal/quota/quota.go), OrderCandidates with its three       *)
(* strategies (internal/scheduler/scheduler.go) and the round-robin        *)
(* reservation, over a pool whose telemetry, cooldowns and members change. *)
(*                                                                         *)
(* Fractions and ratios are integers in thousandths; times are hours from  *)
(* now.  An account comes from state.db, which has no columns for the      *)
(* alpha fields (quota, *_pct, *_reset, *_reset_sec): they are nil here.   *)
(***************************************************************************)
EXTENDS Integers, SequencesExt

CONSTANTS
    Accounts,          \* identifiers, natural numbers so that they compare
    AccountStates,     \* what state.db may say of an account: last_quota (its windows,
                       \* combined fraction, reset and age in seconds), gen_count,
                       \* whether it is in cooldown, whether it is restricted
    Levels,            \* fractions that a window may drop to
    Nil                \* an absent pointer

QuotaWindows == {"w5", "w7"}      \* five hours, seven days

OptInt == Int \cup {Nil}
Window == [frac : OptInt, left : OptInt]
Telemetry == [win : [QuotaWindows -> Window \cup {Nil}],
              remaining : OptInt, left : OptInt, age : OptInt]
Record == [tele : Telemetry \cup {Nil}, hits : Nat, cooling : BOOLEAN, restricted : BOOLEAN]

ASSUME SchedulerAssumption ==
    /\ Accounts \subseteq Nat
    /\ Nil \notin Int /\ Nil \notin Window /\ Nil \notin Telemetry
    /\ AccountStates \subseteq Record
    /\ Levels \subseteq Int

VARIABLES
    pool,       \* pool.Accounts, by identifier
    acct,       \* the records
    cursor,     \* round_robin_last_account_id
    passed      \* history: whom a reservation preferred to an account that stayed eligible

schedulerVars == <<pool, acct, cursor, passed>>

Strategies == {"max_quota", "least_used", "round_robin"}
NoData == [tele |-> Nil, hits |-> 0, cooling |-> FALSE, restricted |-> FALSE]

---------------------------------------------------------------------------
(* Capacity.                                                               *)

\* Mutant: a fraction of zero counts as missing.
ClampZeroUnknown(f) ==
    IF f \in {Nil, 0} THEN Nil ELSE IF f < 0 THEN 0 ELSE IF f > 1000 THEN 1000 ELSE f

\* ParseQuotaFraction.
Clamp(f) == IF f = Nil THEN Nil ELSE IF f < 0 THEN 0 ELSE IF f > 1000 THEN 1000 ELSE f

Hours == [w5 |-> 5, w7 |-> 168]

\* resetRatio: an unknown or past reset, or a late one, counts as a whole window to go.
ResetRatio(left, w) ==
    IF left = Nil \/ left <= 0 \/ left > Hours[w] THEN 1000 ELSE (1000 * left) \div Hours[w]

NoWindow == [frac |-> Nil, left |-> Nil]

HasExplicitWindows(t) == t # Nil /\ \E w \in QuotaWindows : t.win[w] # Nil

LegacyFractionKnown(t) == t # Nil /\ ~HasExplicitWindows(t) /\ t.remaining # Nil

\* The fraction and the reset of a window: of the explicit one, or else the
\* combined ones.
Measured(t, w) ==
    IF HasExplicitWindows(t) /\ t.win[w] # Nil THEN [t.win[w] EXCEPT !.frac = Clamp(@)]
    ELSE IF LegacyFractionKnown(t) THEN [frac |-> Clamp(t.remaining), left |-> t.left]
    ELSE NoWindow

Minimum(S, default) == IF S = {} THEN default ELSE Min(S)
NegInf == -10000

Pace(window, w) == IF window.frac = Nil THEN 0 ELSE window.frac - ResetRatio(window.left, w)

\* ComputeCapacityState.
Capacity(t) ==
    LET m == [w5 |-> Measured(t, "w5"), w7 |-> Measured(t, "w7")]
        known == {w \in QuotaWindows : m[w].frac # Nil}
        pace == [w5 |-> Pace(m.w5, "w5"), w7 |-> Pace(m.w7, "w7")]
        floor == Minimum({m[w].frac : w \in known}, 0)
    IN [windows |-> IF LegacyFractionKnown(t) THEN [w5 |-> NoWindow, w7 |-> NoWindow] ELSE m,
        count |-> IF LegacyFractionKnown(t) THEN 1 ELSE Cardinality(known),
        worst |-> Minimum({pace[w] : w \in known}, NegInf),
        total |-> IF known = {} THEN NegInf ELSE pace.w5 + pace.w7,
        floor |-> floor,
        depleted |-> known # {} /\ floor <= 5]

\* FreshnessRank: fresh or aging, stale, unknown.
FreshnessRank(t) ==
    IF t = Nil \/ t.age = Nil THEN 0
    ELSE IF \/ t.age > 300
            \/ \E w \in QuotaWindows : t.win[w] # Nil /\ t.win[w].left # Nil /\ t.win[w].left <= 0
         THEN 1 ELSE 2

\* IsReserveCapacity: the floors apply to windows, not to a combined fraction.
IsReserve(t) ==
    LET c == Capacity(t) IN
    /\ ~c.depleted
    /\ \/ c.windows.w5.frac # Nil /\ c.windows.w5.frac <= 150
       \/ c.windows.w7.frac # Nil /\ c.windows.w7.frac <= 100

---------------------------------------------------------------------------
(* OrderCandidates, of the pool p with the records ac and the cursor c.    *)

\* Sort keys; the greater one comes first.
MaxQuotaKey(r) ==
    LET c == Capacity(r.tele) IN
    <<c.count, FreshnessRank(r.tele), c.worst, c.total, c.floor, -r.hits>>

LeastUsedKey(r, a) ==
    LET c == Capacity(r.tele) IN
    <<-r.hits, c.count, FreshnessRank(r.tele), c.worst, c.total, c.floor, -a>>

DepletedKey(r) == <<Capacity(r.tele).floor, -r.hits>>

Greater(k, l) ==
    \E i \in DOMAIN k : k[i] > l[i] /\ \A j \in 1 .. i - 1 : k[j] = l[j]

\* The place of an account in the pool p; 0 of one that is not there.
Position(p, a) == IF a \in Range(p) THEN CHOOSE i \in DOMAIN p : p[i] = a ELSE 0

\* sort.SliceStable of the accounts T of the pool p, by the key of each: behind
\* those with a greater key and, of equal keys, as in p.
StableSort(p, T, key) ==
    LET entries == {[id |-> a, key |-> key[a] \o <<-Position(p, a)>>] : a \in T}
        ahead(e) == {f \in entries : Greater(f.key, e.key)}
        At(k) == CHOOSE e \in entries : Cardinality(ahead(e)) = k - 1
    IN [k \in 1 .. Cardinality(T) |-> At(k).id]

\* Round robin: the accounts after the cursor's first, if it is among them.
Rotated(p, T, c) ==
    LET Behind(a) == c \in T /\ Position(p, a) > Position(p, c) IN
    StableSort(p, T, [a \in T |-> IF Behind(a) THEN <<1>> ELSE <<0>>])

InCooldown(r) == r.cooling /\ ~r.restricted
IsDepleted(r) == ~r.cooling /\ ~r.restricted /\ Capacity(r.tele).depleted
IsEligible(r) == ~r.cooling /\ ~r.restricted /\ ~Capacity(r.tele).depleted

\* Mutant: the reserve is put in front.
MaxQuotaReserveFirst(p, T, ac) ==
    LET Part(S) == StableSort(p, S, [a \in S |-> MaxQuotaKey(ac[a])])
        reserve == {a \in T : IsReserve(ac[a].tele)}
    IN Part(reserve) \o Part(T \ reserve)

MaxQuotaOrder(p, T, ac) ==
    LET Part(S) == StableSort(p, S, [a \in S |-> MaxQuotaKey(ac[a])])
        reserve == {a \in T : IsReserve(ac[a].tele)}
    IN Part(T \ reserve) \o Part(reserve)

DepletedOrder(p, T, ac) == StableSort(p, T, [a \in T |-> DepletedKey(ac[a])])

\* As they are appended.
CooldownOrder(p, T) == StableSort(p, T, [a \in T |-> <<>>])

EligibleOrder(p, T, ac, strategy, c) ==
    CASE strategy = "least_used"  -> StableSort(p, T, [a \in T |-> LeastUsedKey(ac[a], a)])
      [] strategy = "round_robin" -> Rotated(p, T, c)
      [] OTHER                    -> MaxQuotaOrder(p, T, ac)

OrderCandidates(p, ac, strategy, c) ==
    EligibleOrder(p, {a \in Range(p) : IsEligible(ac[a])}, ac, strategy, c)
        \o DepletedOrder(p, {a \in Range(p) : IsDepleted(ac[a])}, ac)
        \o CooldownOrder(p, {a \in Range(p) : InCooldown(ac[a])})

---------------------------------------------------------------------------
(* The pool.                                                               *)

Members == Range(pool)
Eligible == {a \in Members : IsEligible(acct[a])}

\* The type invariant of the pool.
PoolTypeOK ==
    /\ pool \in Seq(Accounts) /\ IsInjective(pool)
    /\ acct \in [Accounts -> AccountStates \cup {NoData}]
    /\ cursor \in Accounts \cup {Nil}
    /\ passed \in [Accounts -> SUBSET Accounts]

SchedulerInit ==
    /\ pool = <<>>
    /\ acct = [a \in Accounts |-> NoData]
    /\ cursor = Nil
    /\ passed = [a \in Accounts |-> {}]

\* Whom the reservation of x passes over, unless the position was lost.
Passing(x) ==
    [a \in Accounts |->
        IF a = x \/ a \notin Eligible THEN {}
        ELSE {x} \cup (IF cursor \in Eligible THEN passed[a] ELSE {})]

\* ReserveRoundRobinCandidates: the cursor moves to the first candidate,
\* whatever its tier.
Reserve ==
    LET order == OrderCandidates(pool, acct, "round_robin", cursor) IN
    /\ UNCHANGED <<pool, acct>>
    /\ order # <<>>
    /\ cursor' = Head(order)
    /\ passed' = Passing(Head(order))

\* The record of an account changes: probes, 429s, restrictions, requests, and
\* cooldowns that end.
Change(a) ==
    /\ a \in Members
    /\ \E r \in AccountStates :
        /\ acct' = [acct EXCEPT ![a] = r]
        /\ passed' = IF IsEligible(r) THEN passed ELSE [passed EXCEPT ![a] = {}]
    /\ UNCHANGED <<pool, cursor>>

\* A login appends an account with no quota data; another login of a member is
\* a Change.
AddAccount(a) ==
    /\ a \notin Members
    /\ pool' = Append(pool, a)
    /\ acct' = [acct EXCEPT ![a] = NoData]
    /\ UNCHANGED <<cursor, passed>>

\* Mutant: the cursor keeps naming the removed account.
RemoveKeepsCursor(a) ==
    /\ a \in Members
    /\ pool' = RemoveFirst(pool, a)
    /\ acct' = [acct EXCEPT ![a] = NoData]
    /\ passed' = [b \in Accounts |-> IF b = a THEN {} ELSE passed[b] \ {a}]
    /\ UNCHANGED cursor

\* RemoveAccount.
RemoveAccount(a) ==
    /\ a \in Members
    /\ pool' = RemoveFirst(pool, a)
    /\ cursor' = IF cursor = a THEN Nil ELSE cursor
    /\ acct' = [acct EXCEPT ![a] = NoData]
    /\ passed' = [b \in Accounts |-> IF b = a THEN {} ELSE passed[b] \ {a}]

SchedulerNext ==
    \/ Reserve
    \/ \E a \in Accounts : Change(a) \/ AddAccount(a) \/ RemoveAccount(a)

SchedulerSpec == SchedulerInit /\ [][SchedulerNext]_schedulerVars

---------------------------------------------------------------------------
(* Properties.                                                             *)

Index(a) == Position(pool, a)

Tier(r) == IF InCooldown(r) THEN 2 ELSE IF IsDepleted(r) THEN 1 ELSE 0

\* Steps from the cursor to a, around the pool; from the first account when the
\* cursor's account is not eligible.
Distance(a) ==
    IF cursor \in Eligible THEN (Index(a) - Index(cursor) - 1) % Len(pool) ELSE Index(a)

\* What decides among the accounts of one tier, by the code's keys.
Merit(a, strategy) ==
    IF Tier(acct[a]) = 2 THEN <<>>
    ELSE IF Tier(acct[a]) = 1 THEN DepletedKey(acct[a])
    ELSE CASE strategy = "max_quota" ->
                <<IF IsReserve(acct[a].tele) THEN 0 ELSE 1>> \o MaxQuotaKey(acct[a])
           [] strategy = "least_used" -> LeastUsedKey(acct[a], a)
           [] strategy = "round_robin" -> <<-Distance(a)>>

\* The request path with this pool.
PD == INSTANCE ProxyDispatch WITH
    Requests <- {}, NoAccount <- Nil, members <- Members, active <- Nil,
    restricted <- {a \in Members : acct[a].restricted},
    cooling <- {a \in Members : acct[a].cooling},
    genCount <- [a \in Accounts |-> acct[a].hits],
    pc <- <<>>, gen <- <<>>, cand <- <<>>, cur <- <<>>, commit <- <<>>, heads <- <<>>,
    reply <- <<>>, gone <- <<>>, up <- <<>>, charged <- <<>>

\* OrderCandidates sorts, partitions, rotates and concatenates; what comes out is
\* one order of all accounts that are not restricted, none lost or twice:
\* eligible before depleted before cooldown, by the code's keys within a tier,
\* and else as in the pool.  And it is one of those that the request path of
\* ProxyDispatch is modelled with.
OrderIsRight ==
    \A strategy \in Strategies :
        LET order == OrderCandidates(pool, acct, strategy, cursor)
            rank(a) == <<-Tier(acct[a])>> \o Merit(a, strategy) \o <<-Index(a)>>
        IN /\ Range(order) = {a \in Members : ~acct[a].restricted}
           /\ Len(order) = Cardinality(Range(order))
           /\ \A i \in 1 .. Len(order) - 1 : Greater(rank(order[i]), rank(order[i + 1]))
           /\ order \in PD!Orders(TRUE, {a \in Members : IsDepleted(acct[a])})

\* The same account with less of one window, or less of the combined fraction.
Less(r) ==
    IF r.tele = Nil THEN {}
    ELSE {[r EXCEPT !.tele.win[w].frac = f] : w \in {w \in QuotaWindows : r.tele.win[w] # Nil},
                                              f \in Levels}
         \cup {[r EXCEPT !.tele.remaining = f] : f \in Levels}

IsLess(l, r) ==
    /\ r.tele.remaining # Nil => l.tele.remaining <= r.tele.remaining
    /\ r.tele.remaining = Nil => l.tele.remaining = Nil
    /\ \A w \in QuotaWindows : r.tele.win[w] # Nil =>
        IF r.tele.win[w].frac = Nil THEN l.tele.win[w].frac = Nil
        ELSE l.tele.win[w].frac <= r.tele.win[w].frac

\* Having less quota never moves an account towards the front: the tiers, the
\* reserve and the paces of both windows pull in one direction.
NoRewardForLess ==
    \A strategy \in {"max_quota", "least_used"} :
        LET order == OrderCandidates(pool, acct, strategy, cursor)
            with(a, l) == OrderCandidates(pool, [acct EXCEPT ![a] = l], strategy, cursor)
        IN \A a \in Members : \A l \in Less(acct[a]) :
            IsLess(l, acct[a]) => Position(with(a, l), a) >= Position(order, a)

\* Round robin prefers no account twice to one that stays eligible, as long as
\* the cursor's account is eligible at each reservation.
RoundRobinFair ==
    [][Reserve /\ cursor \in Eligible =>
        \A a \in Eligible : cursor' \notin passed[a] \/ cursor' = a]_schedulerVars

=============================================================================
