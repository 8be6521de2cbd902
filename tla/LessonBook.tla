------------------------------ MODULE LessonBook ------------------------------
(***************************************************************************)
(* lessons.json (lessons.js): the performance of the positions closed so   *)
(* far, the lessons drawn from it or written by a person or a model, and   *)
(* which of them the prompt of an agent is given.  A lesson is known by    *)
(* its id, which is the time it was made: two made in one tick share it.   *)
(***************************************************************************)
EXTENDS Integers, FiniteSets, SequencesExt

CONSTANTS
    EvolveEach,     \* MIN_EVOLVE_POSITIONS: 5
    Caps            \* [auto, chat] |-> [pinned, role, recent]

ASSUME LessonConstants ==
    /\ EvolveEach \in Nat \ {0}
    /\ DOMAIN Caps = {"auto", "chat"}
    /\ \A k \in DOMAIN Caps : Caps[k] \in [pinned : Nat, role : Nat, recent : Nat]

AgentTypes == {"SCREENER", "MANAGER", "GENERAL"}
\* tag: the role the tags speak of, "none" without tags, "off" for no role's.
Lesson == [id : Nat, role : AgentTypes \cup {"all"}, pinned : BOOLEAN,
           outcome : {"good", "bad", "manual"},
           tag : {"SCREENER", "MANAGER", "none", "off"}]

\* The members of a set of indices as a sequence, sorted by a relation.
Sorted(K, before) ==
    [k \in 1 .. Cardinality(K) |->
        CHOOSE i \in K : Cardinality({j \in K : <<j, i>> \in before}) = k - 1]
Earlier(K) == {e \in K \X K : e[1] < e[2]}
\* The members of s at the places K, in their order.
Keep(s, K) == LET at == Sorted(K, Earlier(K)) IN [k \in DOMAIN at |-> s[at[k]]]

-----------------------------------------------------------------------------
(* recordPerformance: what is kept of a close *)

\* Unit mix-ups and losses of 90 % that no stop loss explains are not recorded;
\* what was worth less than 20 USD is.
Suspicious(c) ==
    /\ ~c.small
    /\ c.mixed \/ (c.pnl <= -90 /\ c.reason # "stop loss")

Outcome(c) ==
    IF c.pnl >= 5 \/ (c.pnl >= 0 /\ c.fees >= 2) THEN "good"
    ELSE IF c.pnl >= 0 THEN "neutral"
    ELSE IF c.pnl >= -5 THEN "poor"
    ELSE "bad"

\* derivLesson: the poor and the neutral leave no rule.  Of the tags only
\* "oor" speaks of a role.
derivLesson(c, now) ==
    IF Outcome(c) \notin {"good", "bad"} THEN <<>>
    ELSE <<[id |-> now, role |-> "all", pinned |-> FALSE, outcome |-> Outcome(c),
            tag |-> IF Outcome(c) = "bad" /\ c.inRange < 30 THEN "MANAGER" ELSE "off"]>>

Recorded(data, c, now) ==
    [perf |-> Append(data.perf, c), lessons |-> data.lessons \o derivLesson(c, now)]

-----------------------------------------------------------------------------
(* evolveThresholds *)

\* The records of the winners and of the losers.
Winners(perf) == {i \in DOMAIN perf : perf[i].pnl > 0}
Losers(perf) == {i \in DOMAIN perf : perf[i].pnl < -5}
Organic(perf, K) == MapThenSumSet(LAMBDA i : perf[i].organic, K)
LeastOrganic(perf, K) == Min({perf[i].organic : i \in K})

Bounded(lo, hi, v) == IF v < lo THEN lo ELSE IF v > hi THEN hi ELSE v
\* nudge by at most a fifth, rounded
Nudged(current, target) ==
    IF 5 * (target - current) <= current THEN target ELSE (12 * current + 5) \div 10

HasSignal(perf) == Len(perf) >= EvolveEach
                   /\ (Cardinality(Winners(perf)) >= 2 \/ Cardinality(Losers(perf)) >= 2)
\* The averages of winners and losers are ten or more apart.
ClearGap(perf, w, l) ==
    Organic(perf, w) * Cardinality(l) - Organic(perf, l) * Cardinality(w)
        >= 10 * Cardinality(w) * Cardinality(l)

\* The organic floor after the evolution; the two other thresholds the code
\* looks at are not in config.screening, so that no comparison with them holds.
evolveThresholds(perf, current) ==
    LET w == Winners(perf)
        l == Losers(perf)
        least == LeastOrganic(perf, w) - 3
        target == IF least > current THEN least ELSE current
        new == Bounded(60, 90, Nudged(current, target))
    IN  IF /\ HasSignal(perf) /\ Cardinality(l) >= 2 /\ w # {}
           /\ ClearGap(perf, w, l) /\ new > current
        THEN new ELSE current

EvolutionLesson(now) == [id |-> now, role |-> "all", pinned |-> FALSE,
                         outcome |-> "manual", tag |-> "off"]

-----------------------------------------------------------------------------
(* the operations on the book *)

NewLesson(role, pinned, tag, now) ==
    [id |-> now, role |-> role, pinned |-> pinned, outcome |-> "manual", tag |-> tag]
addLesson(book, l) == Append(book, l)

\* find: the first lesson with the id
FirstWith(book, id) == Min({i \in DOMAIN book : book[i].id = id})
SetPinned(book, id, b) == [book EXCEPT ![FirstWith(book, id)].pinned = b]
pinLesson(book, id) == SetPinned(book, id, TRUE)
unpinLesson(book, id) == SetPinned(book, id, FALSE)
\* A keyword that the rules of some outcome have in common.
removeLessonsByKeyword(book, outcome) ==
    Keep(book, {i \in DOMAIN book : book[i].outcome # outcome})

-----------------------------------------------------------------------------
(* getLessonsForPrompt: indices into the book, pinned, for the role, recent *)

CapsOf(agent) == IF agent = "GENERAL" THEN Caps["chat"] ELSE Caps["auto"]
outcomePriority(l) == CASE l.outcome = "bad" -> 1 [] l.outcome = "manual" -> 2 [] OTHER -> 3

Upto(s, n) == SubSeq(s, 1, IF n < Len(s) THEN n ELSE Len(s))
\* sort(byPriority) is stable.
byPriority(book) ==
    {e \in (DOMAIN book) \X (DOMAIN book) :
        LET a == outcomePriority(book[e[1]])
            b == outcomePriority(book[e[2]])
        IN  a < b \/ (a = b /\ e[1] < e[2])}
\* The later first; what was made in one tick keeps its order.
latestFirst(book) ==
    {e \in (DOMAIN book) \X (DOMAIN book) :
        LET a == book[e[1]].id
            b == book[e[2]].id
        IN  a > b \/ (a = b /\ e[1] < e[2])}

RoleOk(l, agent) == l.role = "all" \/ l.role = agent \/ agent = "GENERAL"
TagOk(l, agent) == agent = "GENERAL" \/ l.tag \in {"none", agent}
IdsOf(book, s) == {book[s[i]].id : i \in DOMAIN s}

PinnedTier(book, agent) ==
    Upto(Sorted({i \in DOMAIN book : book[i].pinned /\ RoleOk(book[i], agent)},
                byPriority(book)),
         CapsOf(agent).pinned)

RoleTier(book, agent) ==
    LET used == IdsOf(book, PinnedTier(book, agent)) IN
    Upto(Sorted({i \in DOMAIN book : /\ book[i].id \notin used
                                     /\ RoleOk(book[i], agent) /\ TagOk(book[i], agent)},
                byPriority(book)),
         CapsOf(agent).role)

\* What the tiers before leave of the cap, and the lessons with other ids.
Room(book, agent) ==
    CapsOf(agent).recent - Len(PinnedTier(book, agent)) - Len(RoleTier(book, agent))
Fill(book, used, room) ==
    IF room <= 0 THEN <<>>
    ELSE Upto(Sorted({i \in DOMAIN book : book[i].id \notin used}, latestFirst(book)), room)

\* Mutant: the ids of the second tier are not remembered.
RecentTier_forgets(book, agent) ==
    Fill(book, IdsOf(book, PinnedTier(book, agent)), Room(book, agent))

RecentTier(book, agent) ==
    Fill(book, IdsOf(book, PinnedTier(book, agent) \o RoleTier(book, agent)),
         Room(book, agent))

getLessonsForPrompt(book, agent) ==
    PinnedTier(book, agent) \o RoleTier(book, agent) \o RecentTier(book, agent)

-----------------------------------------------------------------------------
(* getPerformanceSummary, over the records of the file *)

getPerformanceSummary(perf) ==
    [closed |-> Len(perf), wins |-> Cardinality(Winners(perf))]
=============================================================================
