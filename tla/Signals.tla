------------------------------- MODULE Signals -------------------------------
(***************************************************************************)
(* The staging area of signal-tracker.js: what screening saw of a pool is  *)
(* kept for a while, found by pool or by base token, and taken by the      *)
(* deploy or the close it is to be attributed to.                          *)
(***************************************************************************)
EXTENDS Integers, FiniteSets

CONSTANTS
    Ttl             \* STAGE_TTL_MS, in ticks

\* A staging area: stage, from pools to [mint, at, serial], and index, from
\* tokens to pools (_staged and _stagedByBaseMint).
EmptyStage == [stage |-> [p \in {} |-> 0], index |-> [t \in {} |-> 0]]

Without(f, D) == [x \in DOMAIN f \ D |-> f[x]]
With(f, x, v) == [y \in DOMAIN f \cup {x} |-> IF y = x THEN v ELSE f[y]]

\* The pool goes, and the index entry that leads to it.
Unstage(a, p) ==
    LET t == a.stage[p].mint IN
    [stage |-> Without(a.stage, {p}),
     index |-> IF t \in DOMAIN a.index /\ a.index[t] = p THEN Without(a.index, {t})
               ELSE a.index]

cleanupStale(a, now) ==
    LET old == {p \in DOMAIN a.stage : now - a.stage[p].at > Ttl}
    IN  [stage |-> Without(a.stage, old),
         index |-> Without(a.index, {t \in DOMAIN a.index :
                       a.index[t] \in old /\ a.stage[a.index[t]].mint = t})]

stageSignals(area, p, t, serial, now) ==
    LET a == cleanupStale(area, now) IN
    [stage |-> With(a.stage, p, [mint |-> t, at |-> now, serial |-> serial]),
     index |-> With(a.index, t, p)]

\* The pool's own signals, else those the token leads to.
Found(a, p, t) ==
    IF p \in DOMAIN a.stage THEN {p}
    ELSE {a.index[u] : u \in {t} \cap DOMAIN a.index} \cap DOMAIN a.stage

Taken(area, p, t, now) ==
    LET a == cleanupStale(area, now) IN {a.stage[q] : q \in Found(a, p, t)}

\* Mutant: what was found is left where it was.
Left_kept(area, p, t, now) == cleanupStale(area, now)

\* What getAndClearStagedSignals leaves.
Left(area, p, t, now) ==
    LET a == cleanupStale(area, now) IN
    IF Found(a, p, t) = {} THEN a ELSE Unstage(a, CHOOSE q \in Found(a, p, t) : TRUE)
=============================================================================
