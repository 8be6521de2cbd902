------------------------------ MODULE PoolMemory ------------------------------
(***************************************************************************)
(* pool-memory.json (pool-memory.js): what the agent remembers of every    *)
(* pool it closed a position in, and the cooldowns that follow from it.    *)
(* A db is a function on the pools it has an entry of; a close is a record *)
(* [reason, pnl, fees, ...]: percentages, and the reason as text.          *)
(***************************************************************************)
EXTENDS Integers, FiniteSets, SequencesExt

CONSTANTS
    Pools,          \* pool addresses
    Tokens,         \* base tokens
    TokenOf,        \* the base token of a pool
    NoToken,        \* base_mint: null
    Torn,           \* a file that does not parse
    OorTrigger,     \* oorCooldownTriggerCount
    OorHours,       \* oorCooldownHours
    RepeatTrigger,  \* repeatDeployCooldownTriggerCount
    RepeatHours,    \* repeatDeployCooldownHours; 0 turns the rule off
    RepeatScope,    \* repeatDeployCooldownScope: "pool", "token" or "both"
    MinFeePct,      \* repeatDeployCooldownMinFeeEarnedPct
    LowYieldHours,  \* the 4 hours after a low yield close
    SnapshotCap     \* the snapshots kept of a pool: 48

ASSUME PoolConstants ==
    /\ TokenOf \in [Pools -> Tokens]
    /\ NoToken \notin Tokens
    /\ OorTrigger \in Nat \ {0} /\ RepeatTrigger \in Nat \ {0}
    /\ OorHours \in Nat /\ RepeatHours \in Nat /\ LowYieldHours \in Nat
    /\ MinFeePct \in Nat /\ SnapshotCap \in Nat \ {0}
    /\ RepeatScope \in {"pool", "token", "both"}

\* The reasons the agent closes for that the code tells apart.
Reasons == {"oor", "pumped", "low yield", "stop loss", "other"}

isOorCloseReason(r) == r = "oor"
isAdjustedWinRateExcludedReason(r) == r \in {"oor", "pumped"}
isFeeGeneratingDeploy(d) == d.fees > 0 /\ d.fees >= MinFeePct

\* load: a file that does not parse is read as an empty one.
load(file) == IF file = Torn THEN [p \in {} |-> 0] ELSE file

NewEntry(mint) == [mint |-> mint, deploys |-> <<>>, poolUntil |-> 0,
                   mintUntil |-> 0, snapshots |-> 0, notes |-> 0]
EntryOr(db, p, mint) == IF p \in DOMAIN db THEN db[p] ELSE NewEntry(mint)
Put(db, p, e) == [q \in DOMAIN db \cup {p} |-> IF q = p THEN e ELSE db[q]]

\* entry.deploys.slice(-n), which is shorter if there are fewer.
RecentDeploys(s, n) == SubSeq(s, IF Len(s) > n THEN Len(s) - n + 1 ELSE 1, Len(s))

setPoolCooldown(e, until) == [e EXCEPT !.poolUntil = until]
setBaseMintCooldown(db, mint, until) ==
    [q \in DOMAIN db |->
        IF mint # NoToken /\ db[q].mint = mint
        THEN [db[q] EXCEPT !.mintUntil = until] ELSE db[q]]

\* The two rules of recordPoolDeploy that look back.
RepeatedOor(s) ==
    /\ Len(s) >= OorTrigger
    /\ \A d \in Range(RecentDeploys(s, OorTrigger)) : isOorCloseReason(d.reason)
RepeatedFees(s) ==
    /\ RepeatHours > 0 /\ Len(s) >= RepeatTrigger
    /\ \A d \in Range(RecentDeploys(s, RepeatTrigger)) : isFeeGeneratingDeploy(d)

\* The entry after the close and before the two rules.
WithClose(db, p, d, now) ==
    LET old == EntryOr(db, p, TokenOf[p])
        e == [old EXCEPT !.deploys = Append(@, d),
                         !.mint = IF @ = NoToken THEN TokenOf[p] ELSE @]
    IN  IF d.reason = "low yield" THEN setPoolCooldown(e, now + LowYieldHours) ELSE e

OorCooldown(db, p, now) ==
    IF RepeatedOor(db[p].deploys)
    THEN setBaseMintCooldown(Put(db, p, setPoolCooldown(db[p], now + OorHours)),
                             db[p].mint, now + OorHours)
    ELSE db

RepeatCooldown(db, p, now) ==
    IF ~RepeatedFees(db[p].deploys) THEN db
    ELSE LET until == now + RepeatHours
             pooled == IF RepeatScope \in {"pool", "both"} \/ db[p].mint = NoToken
                       THEN Put(db, p, setPoolCooldown(db[p], until)) ELSE db
         IN  IF RepeatScope \in {"token", "both"}
             THEN setBaseMintCooldown(pooled, db[p].mint, until) ELSE pooled

\* Mutant: the token is filled in after the rules have run.
recordPoolDeploy_tokenLast(db, p, d, now) ==
    LET old == EntryOr(db, p, TokenOf[p])
        e == [old EXCEPT !.deploys = Append(@, d)]
    IN  RepeatCooldown(OorCooldown(Put(db, p, e), p, now), p, now)

recordPoolDeploy(db, p, d, now) ==
    RepeatCooldown(OorCooldown(Put(db, p, WithClose(db, p, d, now)), p, now), p, now)

isPoolOnCooldown(db, p, now) == p \in DOMAIN db /\ db[p].poolUntil > now
isBaseMintOnCooldown(db, t, now) ==
    \E q \in DOMAIN db : db[q].mint = t /\ db[q].mintUntil > now

\* Mutant: the entry is made anew, known or not.
recordPositionSnapshot_anew(db, p) == Put(db, p, [NewEntry(NoToken) EXCEPT !.snapshots = 1])

recordPositionSnapshot(db, p) ==
    LET e == EntryOr(db, p, NoToken) IN
    Put(db, p, [e EXCEPT !.snapshots = IF @ < SnapshotCap THEN @ + 1 ELSE @])

addPoolNote(db, p) ==
    LET e == EntryOr(db, p, NoToken) IN Put(db, p, [e EXCEPT !.notes = @ + 1])

\* The rates recordPoolDeploy writes beside the list: wins out of how many.
Rate(s) == [wins |-> Len(SelectSeq(s, LAMBDA d : d.pnl >= 0)), of |-> Len(s)]
win_rate(e) == Rate(e.deploys)
adjusted_win_rate(e) ==
    Rate(SelectSeq(e.deploys, LAMBDA d : ~isAdjustedWinRateExcludedReason(d.reason)))

\* getPoolMemory and recallForPool: what the model is told of a pool.  The
\* token's cooldown is read from the pool's own entry.
getPoolMemory(db, p) ==
    IF p \notin DOMAIN db THEN [known |-> FALSE]
    ELSE [known |-> TRUE, deploys |-> Len(db[p].deploys), rate |-> win_rate(db[p]),
          adjusted |-> adjusted_win_rate(db[p]), entry |-> db[p]]
recallForPool(db, p, now) ==
    IF p \notin DOMAIN db THEN {}
    ELSE LET e == db[p] IN
         (IF Len(e.deploys) > 0 THEN {"history"} ELSE {}) \cup
         (IF e.poolUntil > now THEN {"pool cooldown"} ELSE {}) \cup
         (IF e.mintUntil > now THEN {"token cooldown"} ELSE {}) \cup
         (IF e.snapshots >= 2 THEN {"trend"} ELSE {}) \cup
         (IF e.notes > 0 THEN {"note"} ELSE {})
=============================================================================
