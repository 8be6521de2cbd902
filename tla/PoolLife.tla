------------------------------- MODULE PoolLife -------------------------------
(***************************************************************************)
(* What closing a position leaves behind, and what it changes: the close   *)
(* settles on chain, its performance and its lesson go to lessons.json,    *)
(* then, one await later, the pool's memory is written, and with every     *)
(* EvolveEach-th record the thresholds and the signal weights are adapted. *)
(* Deploys look at the cooldowns in that memory, between awaits of their   *)
(* own.  The process may die at any step, and in the middle of a write.    *)
(***************************************************************************)
EXTENDS PoolMemory, LessonBook, SignalWeights

CONSTANTS
    Deployers,      \* sessions that may deploy
    Closes,         \* the closes there may be: what recordPerformance is given
    Manual,         \* the lessons people and models write: [role, pinned, tag]
    MaxTime, MaxCloses, MaxExtras   \* bounds; extras are writes besides and crashes

ASSUME LifeConstants ==
    /\ Closes \subseteq [reason : Reasons, pnl : Int, fees : Nat, inRange : Nat,
                         organic : Nat, small : BOOLEAN, mixed : BOOLEAN]
    /\ \A m \in Manual : NewLesson(m.role, m.pinned, m.tag, 0) \in Lesson
    /\ MaxTime \in Nat /\ MaxCloses \in Nat /\ MaxExtras \in Nat

\* What the memory holds of a pool, and the file of lessons.
Entry == [mint : Tokens \cup {NoToken}, deploys : Seq(Closes), poolUntil : Nat,
          mintUntil : Nat, snapshots : 0..SnapshotCap, notes : Nat]
Book == [perf : Seq(Closes), lessons : Seq(Lesson)]

ASSUME TornDistinct ==
    Torn \notin Book /\ \A P \in SUBSET Pools : Torn \notin [P -> Entry]

VARIABLES
    now,        \* the clock, in the hours of the cooldowns
    open,       \* pools with an open position
    attempt,    \* the deploy each session is in the middle of
    settling,   \* closed on chain, performance not yet recorded
    memory,     \* pool-memory.json
    data,       \* lessons.json
    recorded,   \* recordPerformance after its first await, oldest first
    evolving,   \* recordPerformance about to evolve: what it had loaded
    minOrganic, \* config.screening.minOrganic
    weights,    \* signal-weights.json
    history,    \* history: every record [pool, close] there was
    lost,       \* history: records whose process died before the memory
    torn,       \* history: records up to which the memory was lost
    coldUntil,  \* history: until when each token must be left alone
    evolved,    \* history: evolutions
    extras      \* counts for the bound
vars == <<now, open, attempt, settling, memory, data, recorded, evolving, minOrganic,
          weights, history, lost, torn, coldUntil, evolved, extras>>

book == <<data, minOrganic, weights, evolving, evolved>>
trace == <<history, lost, torn, coldUntil>>

Idle == [stage |-> "idle"]
EmptyData == [perf |-> <<>>, lessons |-> <<>>]
Data == IF data = Torn THEN EmptyData ELSE data

Init ==
    /\ now = 0 /\ open = {} /\ settling = {}
    /\ attempt = [d \in Deployers |-> Idle]
    /\ memory = [p \in {} |-> 0]
    /\ data = EmptyData
    /\ recorded = <<>> /\ evolving = <<>>
    /\ minOrganic = 60 /\ weights = DefaultWeights
    /\ history = <<>> /\ lost = {} /\ torn = 0
    /\ coldUntil = [t \in Tokens |-> 0]
    /\ evolved = 0 /\ extras = 0

Extra == extras < MaxExtras /\ extras' = extras + 1

Tick ==
    /\ now < MaxTime
    /\ now' = now + 1
    /\ UNCHANGED <<open, attempt, settling, memory, recorded, book, trace, extras>>

-----------------------------------------------------------------------------
(* deployPosition: the pool's cooldown, an await, the token's, more awaits *)

BeginDeploy(d, p) ==
    /\ attempt[d] = Idle /\ p \notin open
    /\ ~isPoolOnCooldown(load(memory), p, now)
    /\ attempt' = [attempt EXCEPT ![d] = [stage |-> "pool", pool |-> p,
                                          until |-> coldUntil[TokenOf[p]]]]
    /\ UNCHANGED <<now, open, settling, memory, recorded, book, trace, extras>>

\* getPool has answered: the token is known.
CheckToken(d) ==
    /\ attempt[d].stage = "pool"
    /\ attempt' = [attempt EXCEPT ![d] =
                      IF isBaseMintOnCooldown(load(memory), TokenOf[@.pool], now)
                      THEN Idle ELSE [@ EXCEPT !.stage = "token"]]
    /\ UNCHANGED <<now, open, settling, memory, recorded, book, trace, extras>>

Opened(d) ==
    /\ attempt[d].stage = "token" /\ attempt[d].pool \notin open
    /\ open' = open \cup {attempt[d].pool}
    /\ attempt' = [attempt EXCEPT ![d] = Idle]
    /\ UNCHANGED <<now, settling, memory, recorded, book, trace, extras>>

DeployFails(d) ==
    /\ attempt[d] # Idle
    /\ attempt' = [attempt EXCEPT ![d] = Idle]
    /\ UNCHANGED <<now, open, settling, memory, recorded, book, trace, extras>>

-----------------------------------------------------------------------------
(* closePosition and recordPerformance *)

\* The transactions are confirmed; the closed PnL is asked for.
CloseSettles(p) ==
    /\ p \in open /\ p \notin settling
    /\ Len(history) + Cardinality(settling) < MaxCloses
    /\ open' = open \ {p} /\ settling' = settling \cup {p}
    /\ UNCHANGED <<now, attempt, memory, recorded, book, trace, extras>>

\* Up to the first await: one load, one save.
recordPerformance(p, c) ==
    /\ p \in settling
    /\ settling' = settling \ {p}
    /\ IF Suspicious(c)
       THEN UNCHANGED <<data, recorded, history>>
       ELSE LET kept == Recorded(Data, c, now) IN
            /\ data' = kept
            /\ history' = Append(history, [pool |-> p, close |-> c])
            /\ recorded' = Append(recorded, [index |-> Len(history) + 1, perf |-> kept.perf])
    /\ UNCHANGED <<now, open, attempt, memory, minOrganic, weights, evolving, evolved,
                   lost, torn, coldUntil, extras>>

\* The closes of a pool that its memory must hold.
InMemory(h, waiting) ==
    {i \in torn + 1 .. Len(h) : i \notin lost /\ i \notin waiting}
Waiting == {recorded[i].index : i \in DOMAIN recorded}
ClosesOf(p, h, known) ==
    LET kept == Keep(h, {i \in known : h[i].pool = p})
    IN  [k \in DOMAIN kept |-> kept[k].close]

\* What a repeat loser or a repeat earner must lead to.
ColdAfter(p, closes, t) ==
    Max({coldUntil[t]}
        \cup {now + OorHours : x \in {y \in {1} : t = TokenOf[p] /\ RepeatedOor(closes)}}
        \cup {now + RepeatHours : x \in {y \in {1} :
                t = TokenOf[p] /\ RepeatScope # "pool" /\ RepeatedFees(closes)}})

\* After import("./pool-memory.js"): handlers go on in the order they waited.
RecordPool ==
    /\ recorded # <<>>
    /\ LET r == Head(recorded)
           p == history[r.index].pool
           closes == ClosesOf(p, history, InMemory(history, Waiting \ {r.index}))
       IN  /\ memory' = recordPoolDeploy(load(memory), p, history[r.index].close, now)
           /\ coldUntil' = [t \in Tokens |-> ColdAfter(p, closes, t)]
           /\ evolving' = IF Len(r.perf) % EvolveEach = 0
                          THEN Append(evolving, r.perf) ELSE evolving
    /\ recorded' = Tail(recorded)
    /\ UNCHANGED <<now, open, attempt, settling, data, minOrganic, weights, evolved,
                   history, lost, torn, extras>>

\* evolveThresholds, then recalculateWeights, with what was loaded back then;
\* the evolution's own lesson goes to the file as it is by now.
Evolve ==
    /\ evolving # <<>>
    /\ LET perf == Head(evolving)
           new == evolveThresholds(perf, minOrganic)
           wins == Cardinality(Winners(perf))
       IN  /\ minOrganic' = new
           /\ data' = IF new = minOrganic THEN data
                      ELSE [Data EXCEPT !.lessons = addLesson(@, EvolutionLesson(now))]
           /\ IF CanRank(wins, Len(perf) - wins)
              THEN \E r \in Rankings : weights' = recalculateWeights(weights, r)
              ELSE UNCHANGED weights
    /\ evolving' = Tail(evolving)
    /\ evolved' = evolved + 1
    /\ UNCHANGED <<now, open, attempt, settling, memory, recorded, trace, extras>>

-----------------------------------------------------------------------------
(* what people, models and management cycles write besides *)

Snapshot(p) ==
    /\ Extra /\ p \in open
    /\ memory' = recordPositionSnapshot(load(memory), p)
    /\ UNCHANGED <<now, open, attempt, settling, recorded, book, trace>>

Note(p) ==
    /\ Extra
    /\ memory' = addPoolNote(load(memory), p)
    /\ UNCHANGED <<now, open, attempt, settling, recorded, book, trace>>

OnLessons(lessons) ==
    /\ Extra
    /\ data' = [Data EXCEPT !.lessons = lessons]
    /\ UNCHANGED <<now, open, attempt, settling, memory, recorded, minOrganic, weights,
                   evolving, evolved, trace>>

AddLesson == \E m \in Manual : OnLessons(addLesson(Data.lessons,
                                      NewLesson(m.role, m.pinned, m.tag, now)))
Pin == \E i \in DOMAIN Data.lessons : OnLessons(pinLesson(Data.lessons, Data.lessons[i].id))
Unpin == \E i \in DOMAIN Data.lessons : OnLessons(unpinLesson(Data.lessons, Data.lessons[i].id))
RemoveLessons == \E o \in {"good", "bad"} : OnLessons(removeLessonsByKeyword(Data.lessons, o))
clearAllLessons == OnLessons(<<>>)

clearPerformance ==
    /\ Extra
    /\ data' = [Data EXCEPT !.perf = <<>>]
    /\ UNCHANGED <<now, open, attempt, settling, memory, recorded, minOrganic, weights,
                   evolving, evolved, trace>>

-----------------------------------------------------------------------------
(* the process dies and is started again *)

Dies ==
    /\ Extra
    /\ attempt' = [d \in Deployers |-> Idle]
    /\ settling' = {} /\ recorded' = <<>> /\ evolving' = <<>>
    /\ lost' = lost \cup Waiting
    /\ UNCHANGED <<now, open, minOrganic, weights, history, evolved>>

Crash == Dies /\ UNCHANGED <<memory, data, torn, coldUntil>>

\* ... in the write of recordPoolDeploy or of a snapshot
DiesInMemory ==
    /\ Dies /\ (recorded # <<>> \/ open # {})
    /\ memory' = Torn
    /\ torn' = Len(history)
    /\ coldUntil' = [t \in Tokens |-> 0]
    /\ UNCHANGED data

\* ... in the write of recordPerformance
DiesInLessons ==
    /\ Dies /\ settling # {}
    /\ data' = Torn
    /\ UNCHANGED <<memory, torn, coldUntil>>

Next ==
    \/ Tick \/ RecordPool \/ Evolve
    \/ \E d \in Deployers : CheckToken(d) \/ Opened(d) \/ DeployFails(d)
    \/ \E d \in Deployers, p \in Pools : BeginDeploy(d, p)
    \/ \E p \in Pools : CloseSettles(p) \/ Snapshot(p) \/ Note(p)
    \/ \E p \in Pools, c \in Closes : recordPerformance(p, c)
    \/ AddLesson \/ Pin \/ Unpin \/ RemoveLessons \/ clearAllLessons \/ clearPerformance
    \/ Crash \/ DiesInMemory \/ DiesInLessons

Spec == Init /\ [][Next]_vars

-----------------------------------------------------------------------------
TypeOK ==
    /\ now \in 0..MaxTime /\ open \subseteq Pools /\ settling \subseteq Pools
    /\ \A d \in Deployers :
          attempt[d] \in {Idle} \cup [stage : {"pool", "token"}, pool : Pools, until : Nat]
    /\ memory # Torn =>
          /\ DOMAIN memory \subseteq Pools
          /\ \A p \in DOMAIN memory :
                /\ memory[p].mint \in {NoToken, TokenOf[p]}
                /\ Range(memory[p].deploys) \subseteq Closes
                /\ memory[p].snapshots \in 0..SnapshotCap
    /\ data # Torn => Range(data.perf) \subseteq Closes /\ Range(data.lessons) \subseteq Lesson
    /\ minOrganic \in 60..90
    /\ weights \in [Signals -> WeightFloor..WeightCeiling]

\* After OorTrigger closes out of range in a row in one of its pools, or as
\* many that earned fees, no pool of the token is deployed into until the
\* cooldown is over, whatever happened between the checks: neither the pool
\* where it happened nor another one whose entry a snapshot or a note made.
TokenStaysCold ==
    \A d \in Deployers : attempt[d].stage = "token" => now >= attempt[d].until

\* The pool's memory holds the closes of the pool that were recorded, each
\* once and in order, without those whose process died between the two files
\* or whose file was torn.
MemoryFollowsRecord ==
    \A p \in Pools :
        LET closes == ClosesOf(p, history, InMemory(history, Waiting)) IN
        IF p \in DOMAIN load(memory) THEN load(memory)[p].deploys = closes
        ELSE closes = <<>>

\* A prompt tells no lesson twice, though its three tiers are picked one after
\* the other and lessons made in one tick share an id; and the tiers that go
\* by role hold no lesson of another role.
PromptIsSound ==
    \A agent \in AgentTypes :
        LET lessons == Data.lessons
            prompt == getLessonsForPrompt(lessons, agent)
            byRole == PinnedTier(lessons, agent) \o RoleTier(lessons, agent)
        IN  /\ Cardinality(Range(prompt)) = Len(prompt)
            /\ \A i \in Range(byRole) : RoleOk(lessons[i], agent)
=============================================================================
