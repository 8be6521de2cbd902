------------------------------ MODULE ExitLoop ------------------------------
(***************************************************************************)
(* The loops of index.js that decide when a position is closed: the        *)
(* management cycle, the 30-second PnL poller, the hourly health check and *)
(* the 15-second recheck timers, over the records state.js persists.       *)
(*                                                                         *)
(* The process is one event loop.  Everything between two awaits is one    *)
(* action.  All loops read positions through getMyPositions, which shares  *)
(* one scan in flight among its callers: when it completes, their          *)
(* continuations run one after another before any other callback.          *)
(* Durations are abstract: a timer may fire, and a window may close, at    *)
(* any time.                                                               *)
(* The positions of paper mode are never in state.json: PaperStore has     *)
(* them.                                                                   *)
(***************************************************************************)
EXTENDS ExitState, FiniteSets

CONSTANTS
    Positions,      \* addresses of positions, each deployed at most once
    NoPosition,     \* "no position"
    Readings,       \* the readings a scan may report
    MaxPositions,   \* risk.maxPositions
    LlmEnabled,     \* isLlmEnabled()
    Crashes         \* whether the process may be killed and restarted

ASSUME LoopConstants ==
    /\ NoPosition \notin Positions
    /\ Readings \subseteq Reading
    /\ MaxPositions \in Nat
    /\ LlmEnabled \in BOOLEAN /\ Crashes \in BOOLEAN

VARIABLES
    chain,          \* [Positions -> "none" | "open" | "closed"], on chain
    rec,            \* [Positions -> Record], state.json
    managementBusy, \* _managementBusy
    screeningBusy,  \* _screeningBusy
    pollBusy,       \* _pnlPollBusy
    pollCooling,    \* _pollTriggeredAt is less than one interval ago
    screenCooling,  \* _screeningLastTriggered is less than 5 minutes ago
    phase,          \* where the holder of _managementBusy is
    closing,        \* position whose close is sent and not yet recorded
    actions,        \* actionMap of the management cycle
    peakTimers,     \* keys of _peakConfirmTimers
    dropTimers,     \* keys of _trailingDropConfirmTimers
    waiting,        \* callers awaiting the scan in flight
    ready,          \* callers the completed scan resumes
    snap,           \* what that scan reported
    queuedNow,      \* history: rechecks queued from the scan being delivered
    restarted       \* history: the process has restarted

vars == <<chain, rec, managementBusy, screeningBusy, pollBusy, pollCooling,
          screenCooling, phase, closing, actions, peakTimers, dropTimers,
          waiting, ready, snap, queuedNow, restarted>>

cycleVars == <<managementBusy, phase, closing, actions>>
timerVars == <<peakTimers, dropTimers>>
flagVars == <<screeningBusy, pollCooling, screenCooling>>

Mgmt == <<"mgmt", NoPosition>>
Poll == <<"poll", NoPosition>>
PeakCheck(p) == <<"peak", p>>
DropCheck(p) == <<"drop", p>>
Callers == {Mgmt, Poll} \cup ({"peak", "drop"} \X Positions)

Absent == [pnl |-> NoPnl, listed |-> FALSE]
Listed(d) == d # Absent

Exits == {"STOP_LOSS", "TRAILING_TP", "OUT_OF_RANGE", "LOW_YIELD"}
Closes == Exits \cup {"RULE"}
Actions == Closes \cup {"NONE", "STAY", "CLAIM", "INSTRUCTION"}
Phases == {"idle", "entry", "llm", "after", "health"}
NoActions == [p \in Positions |-> "NONE"]
NoSnap == [p \in Positions |-> Absent]

Init ==
    /\ chain = [p \in Positions |-> "none"]
    /\ rec = [p \in Positions |-> Blank]
    /\ managementBusy = FALSE /\ screeningBusy = FALSE /\ pollBusy = FALSE
    /\ pollCooling = FALSE /\ screenCooling = FALSE
    /\ phase = "idle" /\ closing = NoPosition
    /\ actions = NoActions
    /\ peakTimers = {} /\ dropTimers = {}
    /\ waiting = {} /\ ready = {} /\ snap = NoSnap
    /\ queuedNow = {} /\ restarted = FALSE

\* A macrotask runs only when no continuation of a completed scan is due.
Quiet == ready = {}

-----------------------------------------------------------------------------
(* getMyPositions *)

\* Positions a scan lists: those open on chain; one deployed moments ago may
\* not be indexed yet.
CanOmit(p) == rec[p].status = "open" /\ rec[p].fresh

Reports(s) ==
    \A p \in Positions :
        /\ Listed(s[p]) => chain[p] = "open"
        /\ chain[p] = "open" /\ ~CanOmit(p) => Listed(s[p])

Synced(s) ==
    [p \in Positions |-> IF Listed(s[p]) THEN markRange(rec[p], s[p])
                         ELSE syncMissing(rec[p])]

\* A successful scan.
ScanSucceeds ==
    /\ Quiet /\ waiting # {}
    /\ \E s \in [Positions -> Readings \cup {Absent}] :
          /\ Reports(s)
          /\ snap' = s
          /\ rec' = Synced(s)
    /\ ready' = waiting /\ waiting' = {}
    /\ queuedNow' = {}
    /\ UNCHANGED <<chain, cycleVars, flagVars, timerVars, pollBusy, restarted>>

\* Any failure of the API is reported as an empty list of positions.
ScanFails ==
    /\ Quiet /\ waiting # {}
    /\ snap' = NoSnap
    /\ ready' = waiting /\ waiting' = {}
    /\ queuedNow' = {}
    /\ UNCHANGED <<chain, rec, cycleVars, flagVars, timerVars, pollBusy,
                   restarted>>

ListedNow == {p \in Positions : Listed(snap[p])}

\* Caller c has consumed the delivered scan.
Consume(c) ==
    /\ c \in ready
    /\ ready' = ready \ {c}
    /\ snap' = IF ready = {c} THEN NoSnap ELSE snap

-----------------------------------------------------------------------------
(* What handling the listed positions in S leaves. *)

HandleAll(S) ==
    /\ rec' = [p \in Positions |->
                 IF p \in S THEN Handled(rec[p], snap[p]) ELSE rec[p]]
    /\ LET peaks == {p \in S : ArmsPeak(rec[p], snap[p])}
           drops == {p \in S : ArmsDrop(rec[p], snap[p])}
       IN  /\ peakTimers' = peakTimers \cup peaks
           /\ dropTimers' = dropTimers \cup drops
           /\ queuedNow' = queuedNow \cup {PeakCheck(p) : p \in peaks}
                                     \cup {DropCheck(p) : p \in drops}

Throws(p) == ExitOf(rec[p], snap[p]) = "THROWS"

\* The loop is over positions in the order the API lists them: any set of
\* harmless ones may precede the one that ends it.
Prefixes(stops) == SUBSET (ListedNow \ stops)

-----------------------------------------------------------------------------
(* Management cycle *)

\* Mutant: runManagementCycle without `if (_managementBusy) return null`.
RunManagement_unguarded(w) ==
    /\ managementBusy' = TRUE /\ phase' = "entry"
    /\ waiting' = w \cup {Mgmt}
    /\ UNCHANGED <<closing, actions>>

\* runManagementCycle called while `w` wait for the scan in flight.
RunManagement(w) ==
    IF managementBusy
    THEN waiting' = w /\ UNCHANGED cycleVars
    ELSE /\ managementBusy' = TRUE /\ phase' = "entry"
         /\ waiting' = w \cup {Mgmt}
         /\ UNCHANGED <<closing, actions>>

ManagementCron ==
    /\ Quiet /\ ~managementBusy
    /\ RunManagement(waiting)
    /\ UNCHANGED <<chain, rec, flagVars, timerVars, pollBusy, ready, snap,
                   queuedNow, restarted>>

\* The finally block.
Finish ==
    /\ managementBusy' = FALSE /\ phase' = "idle"
    /\ actions' = NoActions
    /\ UNCHANGED closing

RunScreening == screeningBusy' = TRUE /\ screenCooling' = TRUE

\* An empty list, also that of a failed scan, goes looking for a deploy.
ManagementEmpty ==
    /\ phase = "entry" /\ Consume(Mgmt) /\ ListedNow = {}
    /\ Finish
    /\ IF screeningBusy THEN UNCHANGED <<screeningBusy, screenCooling>>
       ELSE RunScreening
    /\ UNCHANGED <<chain, rec, timerVars, pollBusy, pollCooling, waiting,
                   queuedNow, restarted>>

ChosenAction(p) ==
    LET exit == ExitOf(rec[p], snap[p]) IN
    IF exit # "NONE" /\ ~NeedsRecheck(rec[p], snap[p])
    THEN IF exit = "TRAILING_DROP" THEN "TRAILING_TP" ELSE exit
    ELSE IF snap[p].instructed THEN "INSTRUCTION"
    ELSE IF DeterministicCloseRule(rec[p], snap[p]) THEN "RULE"
    ELSE IF snap[p].claimable THEN "CLAIM"
    ELSE "STAY"

\* Without the LLM, or with nothing to do, the cycle goes to its last scan.
Proceed(acts) ==
    IF LlmEnabled /\ \E p \in Positions : acts[p] \notin {"NONE", "STAY"}
    THEN phase' = "llm" /\ UNCHANGED waiting
    ELSE phase' = "after" /\ waiting' = waiting \cup {Mgmt}

ManagementEvaluate ==
    /\ phase = "entry" /\ Consume(Mgmt) /\ ListedNow # {}
    /\ \A p \in ListedNow : ~Throws(p)
    /\ HandleAll(ListedNow)
    /\ LET acts == [p \in Positions |->
                      IF p \in ListedNow THEN ChosenAction(p) ELSE "NONE"]
       IN  actions' = acts /\ Proceed(acts)
    /\ UNCHANGED <<chain, flagVars, pollBusy, managementBusy, closing,
                   restarted>>

\* One position's missing PnL throws; the catch block ends the whole cycle.
ManagementThrows ==
    /\ phase = "entry" /\ Consume(Mgmt)
    /\ \E t \in ListedNow :
          /\ Throws(t)
          /\ \E S \in Prefixes({p \in ListedNow : Throws(p)}) :
                HandleAll(S \cup {t})
    /\ Finish
    /\ UNCHANGED <<chain, flagVars, pollBusy, waiting, restarted>>

\* The agent has executed what it was asked, or as much as it chose to.
LlmDone ==
    /\ Quiet /\ phase = "llm" /\ closing = NoPosition
    /\ phase' = "after" /\ waiting' = waiting \cup {Mgmt}
    /\ UNCHANGED <<chain, rec, flagVars, timerVars, pollBusy, managementBusy,
                   closing, actions, ready, snap, queuedNow, restarted>>

\* Mutant: a failed agent loop skips the finally block.
LlmFails_leaksFlag ==
    /\ Quiet /\ phase = "llm" /\ closing = NoPosition
    /\ phase' = "idle" /\ actions' = NoActions
    /\ UNCHANGED <<managementBusy, closing>>
    /\ UNCHANGED <<chain, rec, flagVars, timerVars, pollBusy, waiting, ready,
                   snap, queuedNow, restarted>>

LlmFails ==
    /\ Quiet /\ phase = "llm" /\ closing = NoPosition
    /\ Finish
    /\ UNCHANGED <<chain, rec, flagVars, timerVars, pollBusy, waiting, ready,
                   snap, queuedNow, restarted>>

ManagementAfter ==
    /\ phase = "after" /\ Consume(Mgmt)
    /\ Finish
    /\ IF /\ Cardinality(ListedNow) < MaxPositions
          /\ ~screenCooling /\ ~screeningBusy
       THEN RunScreening ELSE UNCHANGED <<screeningBusy, screenCooling>>
    /\ UNCHANGED <<chain, rec, timerVars, pollBusy, pollCooling, waiting,
                   queuedNow, restarted>>

-----------------------------------------------------------------------------
(* closePosition as these loops use it: the transactions, then the record.  *)
(* What the relay submits is taken to close the position, as by the local   *)
(* path; the code confirms it only by a list that no longer has it.         *)

MayClose(p) ==
    \/ phase = "llm" /\ actions[p] \notin {"NONE", "STAY"}
    \/ phase = "health"

CloseSent(p) ==
    /\ Quiet /\ closing = NoPosition /\ MayClose(p) /\ chain[p] = "open"
    /\ chain' = [chain EXCEPT ![p] = "closed"]
    /\ closing' = p
    /\ UNCHANGED <<rec, flagVars, timerVars, pollBusy, managementBusy, phase,
                   actions, waiting, ready, snap, queuedNow, restarted>>

CloseRecorded ==
    /\ Quiet /\ closing # NoPosition
    /\ rec' = [rec EXCEPT ![closing] = recordClose(@)]
    /\ closing' = NoPosition
    /\ UNCHANGED <<chain, flagVars, timerVars, pollBusy, managementBusy, phase,
                   actions, waiting, ready, snap, queuedNow, restarted>>

-----------------------------------------------------------------------------
(* Hourly health check: an agent loop under _managementBusy. *)

HealthStart ==
    /\ Quiet /\ ~managementBusy /\ LlmEnabled
    /\ managementBusy' = TRUE /\ phase' = "health"
    /\ UNCHANGED <<chain, rec, flagVars, timerVars, pollBusy, closing, actions,
                   waiting, ready, snap, queuedNow, restarted>>

HealthEnd ==
    /\ Quiet /\ phase = "health" /\ closing = NoPosition
    /\ managementBusy' = FALSE /\ phase' = "idle"
    /\ UNCHANGED <<chain, rec, flagVars, timerVars, pollBusy, closing, actions,
                   waiting, ready, snap, queuedNow, restarted>>

-----------------------------------------------------------------------------
(* PnL poller *)

PollStart ==
    /\ Quiet /\ ~managementBusy /\ ~screeningBusy /\ ~pollBusy
    /\ \E p \in Positions : rec[p].status = "open"
    /\ pollBusy' = TRUE
    /\ waiting' = waiting \cup {Poll}
    /\ UNCHANGED <<chain, rec, cycleVars, flagVars, timerVars, ready, snap,
                   queuedNow, restarted>>

\* The poller stops at the first position that calls for a close.
PollStops(p) ==
    LET exit == ExitOf(rec[p], snap[p]) IN
    /\ exit # "THROWS" /\ ~NeedsRecheck(rec[p], snap[p])
    /\ exit # "NONE" \/ DeterministicCloseRule(rec[p], snap[p])

PollEnds == {p \in ListedNow : Throws(p) \/ PollStops(p)}

PollQuietly ==
    /\ Consume(Poll) /\ PollEnds = {}
    /\ HandleAll(ListedNow)
    /\ pollBusy' = FALSE
    /\ UNCHANGED <<chain, cycleVars, flagVars, waiting, restarted>>

PollAlerts ==
    /\ Consume(Poll)
    /\ \E b \in PollEnds :
          /\ ~Throws(b)
          /\ \E S \in Prefixes(PollEnds) : HandleAll(S \cup {b})
    /\ IF pollCooling
       THEN UNCHANGED <<cycleVars, waiting>>
       ELSE RunManagement(waiting)
    /\ pollCooling' = TRUE
    /\ pollBusy' = FALSE
    /\ UNCHANGED <<chain, screeningBusy, screenCooling, restarted>>

\* What a new process starts with; state.json and the chain are kept.
Volatile ==
    /\ managementBusy' = FALSE /\ screeningBusy' = FALSE /\ pollBusy' = FALSE
    /\ pollCooling' = FALSE /\ screenCooling' = FALSE
    /\ phase' = "idle" /\ closing' = NoPosition /\ actions' = NoActions
    /\ peakTimers' = {} /\ dropTimers' = {}
    /\ waiting' = {} /\ ready' = {} /\ snap' = NoSnap
    /\ queuedNow' = {} /\ restarted' = TRUE

\* The poller has no catch: the rejection is unhandled and ends the process.
PollThrows ==
    /\ Poll \in ready
    /\ \E t \in ListedNow :
          /\ Throws(t)
          /\ \E S \in Prefixes(PollEnds) :
                rec' = [p \in Positions |->
                          IF p \in S \cup {t} THEN Handled(rec[p], snap[p])
                          ELSE rec[p]]
    /\ Volatile
    /\ UNCHANGED chain

-----------------------------------------------------------------------------
(* Recheck timers: a fired timer leaves the map, then scans again.  At most *)
(* one recheck of a kind and position waits on a scan (a scan is shorter    *)
(* than the 15-second delay).                                               *)

PeakTimerFires(p) ==
    /\ Quiet /\ p \in peakTimers /\ PeakCheck(p) \notin waiting
    /\ peakTimers' = peakTimers \ {p}
    /\ waiting' = waiting \cup {PeakCheck(p)}
    /\ UNCHANGED <<chain, rec, cycleVars, flagVars, dropTimers, pollBusy,
                   ready, snap, queuedNow, restarted>>

DropTimerFires(p) ==
    /\ Quiet /\ p \in dropTimers /\ DropCheck(p) \notin waiting
    /\ dropTimers' = dropTimers \ {p}
    /\ waiting' = waiting \cup {DropCheck(p)}
    /\ UNCHANGED <<chain, rec, cycleVars, flagVars, peakTimers, pollBusy,
                   ready, snap, queuedNow, restarted>>

\* The recheck looks at pnl_pct only, whatever the suspicion flag says.
PeakRecheck(p) ==
    /\ Consume(PeakCheck(p))
    /\ rec' = [rec EXCEPT ![p] = resolvePendingPeak(@, snap[p].pnl)]
    /\ UNCHANGED <<chain, cycleVars, flagVars, timerVars, pollBusy, waiting,
                   queuedNow, restarted>>

DropRecheck(p) ==
    /\ Consume(DropCheck(p))
    /\ rec' = [rec EXCEPT ![p] = resolvePendingTrailingDrop(@, snap[p].pnl)]
    /\ IF ConfirmsDrop(rec[p], snap[p].pnl)
       THEN RunManagement(waiting)
       ELSE UNCHANGED <<cycleVars, waiting>>
    /\ UNCHANGED <<chain, flagVars, timerVars, pollBusy, queuedNow, restarted>>

-----------------------------------------------------------------------------
(* Environment: the screening cycle as these loops see it, time, the user. *)

ScreeningStart ==
    /\ Quiet /\ ~screeningBusy
    /\ RunScreening
    /\ UNCHANGED <<chain, rec, cycleVars, timerVars, pollBusy, pollCooling,
                   waiting, ready, snap, queuedNow, restarted>>

ScreeningDeploys(p) ==
    /\ Quiet /\ screeningBusy /\ LlmEnabled /\ chain[p] = "none"
    /\ chain' = [chain EXCEPT ![p] = "open"]
    /\ rec' = [rec EXCEPT ![p] = trackPosition]
    /\ UNCHANGED <<cycleVars, flagVars, timerVars, pollBusy, waiting, ready,
                   snap, queuedNow, restarted>>

ScreeningEnd ==
    /\ Quiet /\ screeningBusy
    /\ screeningBusy' = FALSE
    /\ UNCHANGED <<chain, rec, cycleVars, timerVars, pollBusy, pollCooling,
                   screenCooling, waiting, ready, snap, queuedNow, restarted>>

\* A position opened by hand in the same wallet is on chain, untracked.
OpenedOutside(p) ==
    /\ Quiet /\ chain[p] = "none"
    /\ chain' = [chain EXCEPT ![p] = "open"]
    /\ UNCHANGED <<rec, cycleVars, flagVars, timerVars, pollBusy, waiting,
                   ready, snap, queuedNow, restarted>>

ClosedOutside(p) ==
    /\ Quiet /\ chain[p] = "open"
    /\ chain' = [chain EXCEPT ![p] = "closed"]
    /\ UNCHANGED <<rec, cycleVars, flagVars, timerVars, pollBusy, waiting,
                   ready, snap, queuedNow, restarted>>

\* confirmed_trailing_exit_until passes.
ConfirmedExitExpires(p) ==
    /\ Quiet /\ rec[p].confirmedExit
    /\ rec' = [rec EXCEPT ![p].confirmedExit = FALSE]
    /\ UNCHANGED <<chain, cycleVars, flagVars, timerVars, pollBusy, waiting,
                   ready, snap, queuedNow, restarted>>

GraceEnds(p) ==
    /\ Quiet /\ rec[p].fresh
    /\ rec' = [rec EXCEPT ![p].fresh = FALSE]
    /\ UNCHANGED <<chain, cycleVars, flagVars, timerVars, pollBusy, waiting,
                   ready, snap, queuedNow, restarted>>

CooldownEnds ==
    /\ Quiet
    /\ \/ pollCooling /\ pollCooling' = FALSE /\ UNCHANGED screenCooling
       \/ screenCooling /\ screenCooling' = FALSE /\ UNCHANGED pollCooling
    /\ UNCHANGED <<chain, rec, cycleVars, screeningBusy, timerVars, pollBusy,
                   waiting, ready, snap, queuedNow, restarted>>

Restart ==
    /\ Crashes
    /\ Volatile
    /\ UNCHANGED <<chain, rec>>

-----------------------------------------------------------------------------
Management ==
    \/ ManagementCron \/ ManagementEmpty \/ ManagementEvaluate
    \/ ManagementThrows \/ LlmDone \/ LlmFails \/ ManagementAfter
    \/ HealthStart \/ HealthEnd \/ CloseRecorded
    \/ \E p \in Positions : CloseSent(p)

Poller == PollStart \/ PollQuietly \/ PollAlerts \/ PollThrows

Rechecks ==
    \E p \in Positions :
        \/ PeakTimerFires(p) \/ DropTimerFires(p)
        \/ PeakRecheck(p) \/ DropRecheck(p)

Environment ==
    \/ ScreeningStart \/ ScreeningEnd \/ CooldownEnds \/ Restart
    \/ \E p \in Positions :
          \/ ScreeningDeploys(p) \/ OpenedOutside(p) \/ ClosedOutside(p)
          \/ ConfirmedExitExpires(p) \/ GraceEnds(p)

Next ==
    \/ ScanSucceeds \/ ScanFails
    \/ Management \/ Poller \/ Rechecks \/ Environment

Spec == Init /\ [][Next]_vars

(***************************************************************************)
(* Fairness: a started scan ends, due continuations run, the event loop    *)
(* reaches every timer that is due, the LLM call and the transactions of a *)
(* close return (the clients they use time out).  Nothing is assumed of    *)
(* the cron schedule, the user or the readings.                            *)
(***************************************************************************)
ScanReaches(c) == (ScanSucceeds \/ ScanFails) /\ c \in ready'

Continuation == ready # {} /\ Next /\ ready' # ready

HolderProceeds == CloseRecorded \/ LlmDone \/ HealthEnd

Fairness ==
    /\ \A c \in Callers : SF_vars(ScanReaches(c))
    /\ WF_vars(Continuation)
    /\ SF_vars(HolderProceeds)
    /\ \A p \in Positions :
          SF_vars(PeakTimerFires(p)) /\ SF_vars(DropTimerFires(p))

FairSpec == Spec /\ Fairness

-----------------------------------------------------------------------------
(* Properties *)

TypeOK ==
    /\ chain \in [Positions -> {"none", "open", "closed"}]
    /\ rec \in [Positions -> Record]
    /\ managementBusy \in BOOLEAN /\ screeningBusy \in BOOLEAN
    /\ pollBusy \in BOOLEAN /\ pollCooling \in BOOLEAN
    /\ screenCooling \in BOOLEAN
    /\ phase \in Phases
    /\ closing \in Positions \cup {NoPosition}
    /\ actions \in [Positions -> Actions]
    /\ peakTimers \in SUBSET Positions /\ dropTimers \in SUBSET Positions
    /\ waiting \in SUBSET Callers /\ ready \in SUBSET Callers
    /\ snap \in [Positions -> Reading \cup {Absent}]
    /\ queuedNow \in SUBSET ({"peak", "drop"} \X Positions)
    /\ restarted \in BOOLEAN

\* _managementBusy (index.js) admits one cycle or health check at a time: its
\* flag is up exactly while a holder is at work, a close in progress belongs
\* to that holder, and the poller's flag is up exactly while its scan is due.
OneHolder ==
    /\ managementBusy <=> phase # "idle"
    /\ Mgmt \in waiting \cup ready <=> phase \in {"entry", "after"}
    /\ closing # NoPosition => phase \in {"llm", "health"}
    /\ Poll \in waiting \cup ready <=> pollBusy

\* The evidence of ExitState behind every pending or confirmed trailing exit:
\* a confirmed peak at or above the trigger, and a drop of at least DropPct from
\* a peak no higher than the recorded one (state.js).
ExitEvidence == \A p \in Positions : EvidenceOf(rec[p])

\* A queued peak or drop is always followed by its 15-second recheck
\* ("queued for 15s confirmation", state.js): a timer is armed for it or its
\* callback awaits a scan.
RecheckDue(p) ==
    /\ rec[p].pendingPeak # NoPnl =>
          p \in peakTimers \/ PeakCheck(p) \in waiting \cup ready
    /\ rec[p].pendingDropCurrent # NoPnl =>
          p \in dropTimers \/ DropCheck(p) \in waiting \cup ready

PendingHasRecheck == \A p \in Positions : rec[p].status = "open" => RecheckDue(p)

\* The same, in a process that has not replaced a crashed one.
PendingHasRecheckUntilRestart == restarted \/ PendingHasRecheck

\* state.json never calls a position closed that is still open on chain: a
\* close is recorded after its transactions, and reconciliation spares a
\* position the API has not indexed yet.
ClosedIsClosedOnChain ==
    \A p \in Positions : rec[p].status = "closed" => chain[p] = "closed"

\* "Hard exit - highest priority" (index.js): whenever the management cycle
\* judges its scan, every open position at its stop loss is chosen for a close.
\* ExitMissingPnl.cfg refutes it.
ManagementJudges == ManagementEmpty \/ ManagementEvaluate \/ ManagementThrows

AtItsStopLoss == {p \in ListedNow : rec[p].status = "open" /\ AtStopLoss(snap[p])}

StopLossAlwaysSelected ==
    [][ManagementJudges => \A p \in AtItsStopLoss : actions'[p] \in Closes]_vars

\* What the code keeps of it: only a position in the same scan whose PnL is missing,
\* and whose peak is high enough for the trailing drop to be judged by it, comes
\* between an open position at its stop loss and its close; no trailing exit, no
\* instruction of the user, no other rule and no other position does.
HasGap(q) ==
    rec[q].status = "open" /\ snap[q].pnl = NoPnl /\ rec[q].peak >= DropPct

StopLossSelected ==
    [][ManagementJudges =>
         \/ \A p \in AtItsStopLoss : actions'[p] \in Closes
         \/ \E q \in ListedNow : HasGap(q)]_vars

\* A recorded peak never falls, and without the relay it rises only when a
\* recheck holds up a pending peak, to at least that pending peak.
PeakRisesByRecheck ==
    [][\A p \in Positions :
         /\ rec[p].status = "open" => rec'[p].peak >= rec[p].peak
         /\ ~Relay /\ rec[p].status = "open" /\ rec'[p].peak # rec[p].peak =>
               /\ PeakCheck(p) \in ready
               /\ rec[p].pendingPeak # NoPnl
               /\ rec'[p].peak >= rec[p].pendingPeak]_vars

\* A recheck is a second look: it judges a drop by a scan other than the one
\* that queued it.
RecheckIsSecondLook ==
    [][\A p \in Positions :
         rec'[p].confirmedExit /\ ~rec[p].confirmedExit
            => DropCheck(p) \notin queuedNow]_vars

\* Every cycle and health check gives _managementBusy back.
ManagementReleases == managementBusy ~> ~managementBusy

\* Every queued peak and every queued drop is confirmed or rejected, unless the
\* process that queued it dies first.
RechecksSettle ==
    \A p \in Positions :
        /\ rec[p].pendingPeak # NoPnl /\ ~restarted ~>
              restarted \/ rec[p].pendingPeak = NoPnl \/ rec[p].status = "closed"
        /\ rec[p].pendingDropCurrent # NoPnl /\ ~restarted ~>
              \/ restarted \/ rec[p].pendingDropCurrent = NoPnl
              \/ rec[p].status = "closed"
=============================================================================
