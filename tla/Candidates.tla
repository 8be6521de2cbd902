----------------------------- MODULE Candidates -----------------------------
(***************************************************************************)
(* The screening funnel: discoverPools and getTopCandidates (screening.js) *)
(* with their awaits between the filters, as run by the screening cycle    *)
(* and by the /screen command at the same time; the two blocklists that a  *)
(* chat may change meanwhile; the cached list that /deploy n picks from;   *)
(* and the signals staged by the cycle, which the next deploy or close of  *)
(* the pool or its token takes.                                            *)
(*                                                                         *)
(* Thresholds, wash flags, cooldowns and scores are verdicts of the moment *)
(* and chosen freely; who deployed a token is a fact that the sources know *)
(* or do not know.  PoolLife has the cooldowns, DeployGuard the checks of  *)
(* a deploy, ScreeningCycle the lock around the cycle.                     *)
(***************************************************************************)
EXTENDS Signals, Indicators, Sequences, SequencesExt

CONSTANTS
    Pools, Tokens, MintOf,
    Devs, DevOf,        \* deployers of tokens
    NoDev,
    UseDiscord,         \* config.screening.useDiscordSignals
    DiscordOnly,        \* discordSignalMode = "only"
    AvoidPvp, BlockPvp, PvpShortlist,
    CycleLimit, CommandLimit,
    MaxTime, MaxChanges, MaxStaged, MaxScreens   \* bounds

ASSUME CandidatesAssumption ==
    /\ IsFiniteSet(Pools)
    /\ MintOf \in [Pools -> Tokens] /\ DevOf \in [Tokens -> Devs] /\ NoDev \notin Devs
    /\ Ttl \in Nat /\ PvpShortlist \in Nat /\ {CycleLimit, CommandLimit} \subseteq Nat \ {0}
    /\ {MaxTime, MaxChanges, MaxStaged, MaxScreens} \subseteq Nat

Screens == {"cycle", "command"}

VARIABLES
    now,
    blocked,    \* dev-blocklist.json
    blacklist,  \* token-blacklist.json
    screen,     \* of each screen: where it is, its candidates, and the deployers
                \* that have been blocked ever since it began
    latest,     \* _latestCandidates, as pools
    staged,     \* the staging area
    open,       \* pools with an open position
    issued,     \* history: how many records were staged; they are numbered
    used,       \* history: the signals taken, as [serial, age]
    changes,    \* history: changes of the blocklists
    screens     \* history: screens begun

vars == <<now, blocked, blacklist, screen, latest, staged, open, issued, used, changes, screens>>

\* What Jupiter answers of a token: its deployer; that it knows none; an HTTP
\* error, which the code reads as knowing none; nothing, by a thrown error.
JupAnswers == {"ok", "none", "httpError", "error"}

\* A candidate: dev is the deployer as far as known, jup what Jupiter said.
Cand == [pool : Pools, dev : Devs \cup {NoDev}, jup : {"unasked"} \cup JupAnswers]

Stages == {"idle", "discover", "lookup", "positions", "pvp", "okx", "indicators",
           "recon", "bins", "agent"}

Idle == [pc |-> "idle", cands |-> <<>>, since |-> {}]

PoolsOf(s) == {s[i].pool : i \in DOMAIN s}

\* The members of s at the places K, in their order.
Keep(s, K) ==
    [k \in 1 .. Cardinality(K) |-> s[CHOOSE i \in K : Cardinality({j \in K : j <= i}) = k]]

TypeOK ==
    /\ now \in 0 .. MaxTime
    /\ blocked \subseteq Devs /\ blacklist \subseteq Tokens
    /\ \A s \in Screens : /\ screen[s].pc \in Stages
                          /\ screen[s].cands \in Seq(Cand)
                          /\ screen[s].since \subseteq blocked
    /\ latest \in Seq(Pools)
    /\ DOMAIN staged.stage \subseteq Pools /\ DOMAIN staged.index \subseteq Tokens
    /\ open \subseteq Pools

Init ==
    /\ now = 0 /\ blocked = {} /\ blacklist = {}
    /\ screen = [s \in Screens |-> Idle]
    /\ latest = <<>> /\ staged = EmptyStage /\ open = {}
    /\ issued = 0 /\ used = <<>> /\ changes = 0 /\ screens = 0

Goto(s, pc, cands) == screen' = [screen EXCEPT ![s].pc = pc, ![s].cands = cands]

(***************************************************************************)
(* discoverPools                                                           *)
(***************************************************************************)
\* What a source says of a pool's figures; the later answer counts if any.
Answers == {"good", "weak", "none"}
OrElse(a, b) == IF a = "none" THEN b ELSE a

\* A pool of the discovery page met the thresholds there.  A signalled pool
\* comes with a snapshot that a refresh may replace.  The longer volatility
\* window overrides both, and a launchpad may be barred.
Passes(onPage, signalled, snapshot, refreshed, longer, barred) ==
    LET short == IF onPage THEN "good" ELSE OrElse(refreshed, snapshot)
    IN  /\ IF UseDiscord THEN signalled \/ (onPage /\ ~DiscordOnly) ELSE onPage
        /\ OrElse(longer, short) = "good"
        /\ ~barred

PassVerdicts ==
    {Passes(onPage, signalled, snapshot, refreshed, longer, barred) :
        onPage \in BOOLEAN, signalled \in BOOLEAN, snapshot \in Answers,
        refreshed \in Answers, longer \in Answers, barred \in BOOLEAN}

Begin(s) ==
    /\ screen[s].pc = "idle" /\ screens < MaxScreens
    /\ screen' = [screen EXCEPT ![s] = [pc |-> "discover", cands |-> <<>>, since |-> blocked]]
    /\ screens' = screens + 1
    /\ UNCHANGED <<now, blocked, blacklist, latest, staged, open, issued, used, changes>>

Missing(cands) == {i \in DOMAIN cands : cands[i].dev = NoDev}

\* The filters by blocklist over what discovery told; deployers it did not
\* tell are asked for if anybody is on the list.
Discover(s) ==
    /\ screen[s].pc = "discover"
    /\ \E verdict \in [Pools -> PassVerdicts], told \in SUBSET Pools :
        LET found == {p \in Pools : verdict[p] /\ MintOf[p] \notin blacklist}
            Made(p) == [pool |-> p, jup |-> "unasked",
                        dev |-> IF p \in told THEN DevOf[MintOf[p]] ELSE NoDev]
            pools == {c \in {Made(p) : p \in found} : c.dev \notin blocked}
        IN  \E cands \in SetToSeqs(pools) :
                Goto(s, IF blocked # {} /\ Missing(cands) # {} THEN "lookup" ELSE "positions",
                     cands)
    /\ UNCHANGED <<now, blocked, blacklist, latest, staged, open, issued, used, changes, screens>>

\* Jupiter's answers for the deployers that are missing.  A call that throws is
\* noted on the candidate, for the gate after the next filter; an HTTP error
\* leaves it like one whose deployer nobody knows.
Lookup(s) ==
    /\ screen[s].pc = "lookup"
    /\ \E answer \in [Missing(screen[s].cands) -> JupAnswers] :
        LET Asked(i, c) ==
                IF i \notin DOMAIN answer THEN c
                ELSE [c EXCEPT !.jup = answer[i],
                               !.dev = IF answer[i] = "ok" THEN DevOf[MintOf[c.pool]] ELSE @]
            asked == [i \in DOMAIN screen[s].cands |-> Asked(i, screen[s].cands[i])]
        IN  Goto(s, "positions",
                 Keep(asked, {i \in DOMAIN asked : asked[i].jup = "ok" => asked[i].dev \notin blocked}))
    /\ UNCHANGED <<now, blocked, blacklist, latest, staged, open, issued, used, changes, screens>>

(***************************************************************************)
(* getTopCandidates                                                        *)
(***************************************************************************)
LimitOf == [s \in Screens |-> IF s = "cycle" THEN CycleLimit ELSE CommandLimit]

\* Mutant: a deployer that could not be looked up is let through.
Verified_failOpen(c) == c.jup = "ok" => c.dev \notin blocked

\* The gate: only what was asked for is looked at again.
Verified(c) == c.jup # "error" /\ (c.jup = "ok" => c.dev \notin blocked)

\* Where the candidates go next; a stage that has nothing to ask is passed.
AfterGate(cands) == IF cands = <<>> THEN "done" ELSE IF AvoidPvp THEN "pvp" ELSE "okx"

\* A screen that has its list: the cycle looks closer, the command is done.
Present(s, cands) ==
    /\ latest' = [i \in DOMAIN cands |-> cands[i].pool]
    /\ screen' = [screen EXCEPT ![s] =
                    IF s = "cycle" /\ cands # <<>> THEN [@ EXCEPT !.pc = "recon", !.cands = cands]
                    ELSE Idle]

Onward(s, pc, cands) ==
    IF pc = "done" \/ cands = <<>> THEN Present(s, cands)
    ELSE Goto(s, pc, cands) /\ UNCHANGED latest

\* Open positions, cooldowns, the cut to the limit and the gate, after the
\* positions were fetched: an API failure is answered with none.
Eligible(s) ==
    /\ screen[s].pc = "positions"
    /\ \E known \in {open, {}}, cold \in SUBSET Pools :
        LET Free(c) == /\ MintOf[c.pool] \notin {MintOf[p] : p \in known}
                       /\ c.pool \notin cold
            cands == screen[s].cands
            free == Keep(cands, {i \in DOMAIN cands : Free(cands[i])})
            kept == Keep(free, {i \in DOMAIN free : i <= LimitOf[s] /\ Verified(free[i])})
        IN  Onward(s, AfterGate(kept), kept)
    /\ UNCHANGED <<now, blocked, blacklist, staged, open, issued, used, changes, screens>>

\* Only the first of the list are searched for rivals.
Pvp(s) ==
    /\ screen[s].pc = "pvp"
    /\ \E rivalled \in SUBSET (1 .. PvpShortlist) :
        LET cands == screen[s].cands
        IN  Onward(s, "okx", Keep(cands, {i \in DOMAIN cands : BlockPvp => i \notin rivalled}))
    /\ UNCHANGED <<now, blocked, blacklist, staged, open, issued, used, changes, screens>>

\* OKX tells creators, wash trading and the distance from the high; a
\* failing answer tells nothing and drops nothing.
Okx(s) ==
    /\ screen[s].pc = "okx"
    /\ \E told \in SUBSET Pools, dropped \in SUBSET Pools :
        LET Filled(c) == IF c.dev = NoDev /\ c.pool \in told
                         THEN [c EXCEPT !.dev = DevOf[MintOf[c.pool]]] ELSE c
            filled == [i \in DOMAIN screen[s].cands |-> Filled(screen[s].cands[i])]
        IN  Onward(s, "indicators",
                   Keep(filled, {i \in DOMAIN filled : /\ filled[i].pool \notin dropped
                                                       /\ filled[i].dev \notin blocked}))
    /\ UNCHANGED <<now, blocked, blacklist, staged, open, issued, used, changes, screens>>

Indicate(s) ==
    /\ screen[s].pc = "indicators"
    /\ \E verdict \in [PoolsOf(screen[s].cands) -> Verdicts] :
        LET cands == screen[s].cands
        IN  Present(s, Keep(cands, {i \in DOMAIN cands : verdict[cands[i].pool]}))
    /\ UNCHANGED <<now, blocked, blacklist, staged, open, issued, used, changes, screens>>

\* A blocklist that does not parse, or an API error: the screen ends without
\* a list, and the cached one stays.
ScreenFails(s) ==
    /\ screen[s].pc \in {"discover", "lookup", "positions", "pvp", "okx", "indicators"}
    /\ screen' = [screen EXCEPT ![s] = Idle]
    /\ UNCHANGED <<now, blocked, blacklist, latest, staged, open, issued, used, changes, screens>>

(***************************************************************************)
(* The cycle's own look at the list, the staging, and the deploys          *)
(***************************************************************************)
\* A lone candidate, by what was found out about it.
LoneSkip(wash, rug, strong, fewFees, crowded, bots, pvp, narrative) ==
    \/ wash \/ fewFees \/ crowded \/ bots
    \/ (rug \/ pvp \/ ~narrative) /\ ~strong

SkipVerdicts ==
    {LoneSkip(wash, rug, strong, fewFees, crowded, bots, pvp, narrative) :
        wash \in BOOLEAN, rug \in BOOLEAN, strong \in BOOLEAN, fewFees \in BOOLEAN,
        crowded \in BOOLEAN, bots \in BOOLEAN, pvp \in BOOLEAN, narrative \in BOOLEAN}

\* Launchpad and bot holders, after each candidate was looked up in turn.
Recon ==
    LET s == "cycle" IN
    /\ screen[s].pc = "recon"
    /\ \E barred \in SUBSET Pools, skip \in SkipVerdicts :
        LET cands == screen[s].cands
            passing == Keep(cands, {i \in DOMAIN cands : cands[i].pool \notin barred})
        IN  IF passing = <<>> \/ (Len(passing) = 1 /\ skip)
            THEN screen' = [screen EXCEPT ![s] = Idle]
            ELSE Goto(s, "bins", passing)
    /\ UNCHANGED <<now, blocked, blacklist, latest, staged, open, issued, used, changes, screens>>

\* The active bins are fetched, then the signals of all that passed are
\* staged before the model is asked; without a model the cycle ends.
StageAll ==
    LET s == "cycle"
        cands == screen[s].cands
        area[i \in 0 .. Len(cands)] ==
            IF i = 0 THEN staged
            ELSE stageSignals(area[i - 1], cands[i].pool, MintOf[cands[i].pool], issued + i, now)
    IN
    /\ screen[s].pc = "bins" /\ issued + Len(cands) <= MaxStaged
    /\ staged' = area[Len(cands)]
    /\ issued' = issued + Len(cands)
    /\ \/ Goto(s, "agent", cands)
       \/ screen' = [screen EXCEPT ![s] = Idle]
    /\ UNCHANGED <<now, blocked, blacklist, latest, open, used, changes, screens>>

CycleEnds ==
    /\ screen["cycle"].pc = "agent"
    /\ screen' = [screen EXCEPT !["cycle"] = Idle]
    /\ UNCHANGED <<now, blocked, blacklist, latest, staged, open, issued, used, changes, screens>>

\* The staged signals of the pool or its token go to whoever asks first.
TakeSignals(p) ==
    LET taken == Taken(staged, p, MintOf[p], now) IN
    /\ staged' = Left(staged, p, MintOf[p], now)
    /\ used' = used \o SetToSeq({[serial |-> r.serial, age |-> now - r.at] : r \in taken})

\* Neither executor nor deployPosition asks the blocklists again.
Deployed(p) ==
    /\ MintOf[p] \notin {MintOf[q] : q \in open}
    /\ open' = open \cup {p}
    /\ TakeSignals(p)

\* The model deploys one of the candidates it was shown, which ends its part.
DeployShown ==
    /\ screen["cycle"].pc = "agent"
    /\ \E p \in PoolsOf(screen["cycle"].cands) : Deployed(p)
    /\ screen' = [screen EXCEPT !["cycle"] = Idle]
    /\ UNCHANGED <<now, blocked, blacklist, latest, issued, changes, screens>>

\* /deploy n: whatever is n-th in the cached list now; a list of one is
\* looked at again.
DeployLatest ==
    /\ \E i \in DOMAIN latest, skip \in SkipVerdicts :
        ~(Len(latest) = 1 /\ skip) /\ Deployed(latest[i])
    /\ UNCHANGED <<now, blocked, blacklist, screen, latest, issued, changes, screens>>

\* Signals staged since the deploy go into the record of its performance.
Close ==
    /\ \E p \in open : open' = open \ {p} /\ TakeSignals(p)
    /\ UNCHANGED <<now, blocked, blacklist, screen, latest, issued, changes, screens>>

(***************************************************************************)
(* The blocklists, the clock, a restart                                    *)
(***************************************************************************)
Change == changes < MaxChanges /\ changes' = changes + 1

blockDev ==
    /\ Change /\ \E d \in Devs \ blocked : blocked' = blocked \cup {d}
    /\ UNCHANGED <<now, blacklist, screen, latest, staged, open, issued, used, screens>>

unblockDev ==
    /\ Change
    /\ \E d \in blocked :
        /\ blocked' = blocked \ {d}
        /\ screen' = [s \in Screens |-> [screen[s] EXCEPT !.since = @ \ {d}]]
    /\ UNCHANGED <<now, blacklist, latest, staged, open, issued, used, screens>>

addToBlacklist ==
    /\ Change /\ \E t \in Tokens \ blacklist : blacklist' = blacklist \cup {t}
    /\ UNCHANGED <<now, blocked, screen, latest, staged, open, issued, used, screens>>

removeFromBlacklist ==
    /\ Change /\ \E t \in blacklist : blacklist' = blacklist \ {t}
    /\ UNCHANGED <<now, blocked, screen, latest, staged, open, issued, used, screens>>

Tick ==
    /\ now < MaxTime /\ now' = now + 1
    /\ UNCHANGED <<blocked, blacklist, screen, latest, staged, open, issued, used, changes, screens>>

\* Lists, stage and screens are in memory; positions and blocklists are not.
Restart ==
    /\ screen' = [s \in Screens |-> Idle] /\ latest' = <<>> /\ staged' = EmptyStage
    /\ UNCHANGED <<now, blocked, blacklist, open, issued, used, changes, screens>>

Next ==
    \/ \E s \in Screens :
        \/ Begin(s) \/ Discover(s) \/ Lookup(s) \/ Eligible(s) \/ Pvp(s) \/ Okx(s)
        \/ Indicate(s) \/ ScreenFails(s)
    \/ Recon \/ StageAll \/ CycleEnds \/ DeployShown \/ DeployLatest \/ Close
    \/ blockDev \/ unblockDev \/ addToBlacklist \/ removeFromBlacklist \/ Tick \/ Restart

Spec == Init /\ [][Next]_vars

(***************************************************************************)
(* Properties                                                              *)
(***************************************************************************)
\* A deployer that has been blocked ever since a screen began is not among
\* its candidates at the end of the filters, with blocks, unblocks and other
\* screens between them, unless nobody told it: the first list and OKX did
\* not, and Jupiter knew none or answered an HTTP error.  A call to Jupiter
\* that throws drops the candidate.
BlockedDeployerIsDropped ==
    \A s \in Screens : screen[s].pc \in {"indicators", "recon", "bins", "agent"} =>
        \A i \in DOMAIN screen[s].cands :
            LET c == screen[s].cands[i] IN
            DevOf[MintOf[c.pool]] \in screen[s].since =>
                c.dev = NoDev /\ c.jup \in {"none", "httpError"}

\* What was staged is attributed at most once, and no later than its
\* lifetime, whatever was staged again, expired or was taken through the
\* other index, by deploys and closes of two pools of one token.
SignalsServeOnce ==
    \A i \in DOMAIN used :
        /\ used[i].age <= Ttl
        /\ \A j \in DOMAIN used : used[j].serial = used[i].serial => i = j
=============================================================================
