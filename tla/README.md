# Meridian, modelled

Meridian is an agent that provides liquidity on Meteora DLMM pools: a Node.js
process (`index.js`, `agent.js`, `state.js`, `tools/`) that screens pools, opens
positions, watches them and closes them. Beside it, `defi_autonomy/` ("Hermes")
is a Python pipeline that proposes, checks, signs and, after an operator's
approval, broadcasts transactions. This directory holds TLA+ models of the parts
whose correctness depends on order, failure and shared state, the TLC
configurations that check them, and proofs for all values of their constants.

    tlc -config ExitRecheck.cfg MCExitLoop.tla     # one run; see PROJECT.json for all
    tlapm DeployPath_proofs.tla                    # the proofs of one module

`PROJECT.json` maps every definition to the lines it stands for, and lists runs,
mutants, findings, hazards and theorems. A definition named `X_y` and introduced
as *Mutant* is `X` with a plausible bug `y`; for each property it shows a bug the
property catches.

## 1. Inventory

### 1.1 The agent (JavaScript)

| part | state | operations | correct when |
|---|---|---|---|
| **Exit confirmation** `state.js`, `index.js`, scan in `tools/dlmm.js` | `state.json`: per position peak, pending peak, pending drop, confirmed exit, out-of-range, status; busy flags, cooldowns and timers in memory | management cycle (cron), 30 s poller, hourly health check, 15 s rechecks, closes, reconciliation | exits rest on evidence looked at twice; pending rechecks settle; one holder at a time; `closed` means closed on chain; a stop loss is never shadowed |
| **Deploy path** `agent.js`, `tools/executor.js`, `tools/dlmm.js` | the once-per-session lock, the scan in flight, the chain, the record | tool calls of a model message, safety checks, deploy transactions, `trackPosition` | no more than `maxPositions`; one position per token; no deploy by a message after the one that opened a position |
| **ReAct loop** `agent.js`, callbacks in `index.js` | step, attempt, model, tool choice, locked tools; what the cycle notes | requests with retries and fallbacks, parallel tool calls | nothing destructive runs twice; retries are bounded; the cycle notes what happened; a session ends |
| **Screening cycle, sessions** `index.js`, `telegram.js` | `_screeningBusy`, `busy`, queue of five, `_offset`, cron jobs, pollers, live message depth | cycle, long polling, handler, queue drain, terminal, `/pause`, `/resume`, shutdown | one session at a time; every update is taken, and accounted for; locks are given back; cron follows its switch |
| **Configuration, gates** `config.js`, `tools/executor.js`, `execution-modes.js`, `scripts/config-doctor.js`, writers in `lessons.js`, `hivemind.js`, `setup.js`, `cli.js` | `user-config.json`, the live object, the environment | load, `update_config`, menu, evolution, agent id, setup; start, tool calls that send | bins stay in order; a restart brings back what is neither clamped nor saved under two keys; no writer drops a key; nothing is sent but through the gate; what starts can deploy |
| **Pool memory, lessons** `pool-memory.js`, `lessons.js`, `signal-weights.js` | `pool-memory.json`, `lessons.json`, `signal-weights.json`, a threshold | record a close, cooldowns, snapshots, notes, lessons, prompt, evolution | a token in cooldown is not deployed into; the memory follows the record; a prompt repeats nothing |
| **Screening, block lists, signals** `tools/screening.js`, `tools/chart-indicators.js`, `dev-blocklist.js`, `token-blacklist.js`, `signal-tracker.js` | candidates of a screen in flight, `_latestCandidates`, two lists, staged signals | discovery and its filters, block and unblock, stage and take | a deployer known to be blocked is dropped; a staged record is used once and fresh |
| **Paper positions** `tools/dlmm.js`, auto-closes in `index.js` | active and archive file, the cached list | paper deploy, paper close, listing, the cycle that closes by itself | a position is in exactly one file, and a closed one is not shown |
| others | caches, small maps, logs | fetches, strategies, wallets, HiveMind, Discord listener | see PROJECT.json for why each is left out |

Everything in the process runs on one event loop: the parts meet in shared module
variables (the flags, the position cache and the scan in flight), in JSON files
read and written synchronously, and on chain. What is hard: anything may run
during an `await`; every reader of positions shares one scan; an API failure looks
like "no positions"; a restart loses timers, flags and locks but not files; a write
cut short leaves a file that does not parse, which some readers take for an empty
one; transactions may land although their confirmation is lost.

### 1.2 Hermes (Python)

| part | state | operations | correct when |
|---|---|---|---|
| **Coordinator, policy, simulator, wallet** | cycle, approval token (300 s), wallet ledger, stop files | run a cycle: evaluate, simulate, sign, record | nothing is signed without passing; a stop stops |
| **Guardian, broadcast, positions** | approvals, halt and pause files, broadcast ledger, positions log | `/approve`, `/halt`, `/pause`, `/resume`; broadcast, record, open, close | only approved and recorded envelopes go out; the daily cap holds; a position has a receipt |
| **Ingestion and sources** | per-source health, three output files | bounded read-only requests, atomic replaces | the files belong together |
| **Scoring and learning** | outcome events | score, record outcomes, bias the next scores | the bias stays within its clamp |
| **Proposals, board, transaction building, dry run** | append-only files, records | propose, plan, build | nothing executes from them |

The parts meet only in files: append-only JSONL ledgers and small JSON files. What
is hard: processes read each other's ledgers at any time, a crash cuts a line and
the next append is glued to it, envelope ids can collide, answers are lost.

## 2. Modules

| module | models | uses |
|---|---|---|
| `ExitState` | one record of `state.json` and the pure functions on it | |
| `ExitLoop` | the loops, timers, flags, scan and chain around all records | `ExitState` |
| `DeployGuard` | a deploy call from the model's message to the record | |
| `AgentLoop` | one `agentLoop` session with its callbacks | |
| `ScreeningCycle` | the lock of the screening cycle and its ways out | |
| `Sessions` | the process around the cycles: polling, queue, chat, terminal, cron, restart | `ScreeningCycle` |
| `UserConfig` | `config.js`, `update_config`, menu and evolution as operators on file and memory | |
| `Gates` | mode gate, deploy amounts, `config-doctor` as operators | `UserConfig` |
| `Settings` | the file, its writers, the process and a tool call over time | `Gates` |
| `PoolMemory`, `LessonBook`, `SignalWeights` | the three files as operators | |
| `PoolLife` | closes, records, deploys, evolution and crashes over the three files | those three |
| `Signals`, `Indicators` | the staging area, the verdict over chart intervals, as operators | |
| `Candidates` | two screens, the lists they read, and deploys and closes that take signals | those two |
| `PaperStore` | the two files of paper mode, the calls that rewrite them, the auto-closing cycle | `PaperLife` |
| `PaperLife` | what paper mode promises of a position, without files: the abstract specification `PaperStore` implements | |
| `JsonLines` | an append-only JSONL file with cut and glued lines | |
| `Hermes` | coordinator, guardian, broadcaster, position log over five ledgers and three switches | `JsonLines` |
| `ApprovedBroadcast` | what Hermes promises, without files: the abstract specification `Hermes` implements | |
| `MC*` | instances for TLC | |
| `*_proofs` | theorems and lemmas; `DeployPath_proofs` has those of `DeployGuard` and of `AgentLoop` | TLAPS |

Where two modules meet, each has the other's part as a free choice: `Sessions`
starts and ends the cycles that `ExitLoop` and `ScreeningCycle` decide,
`ScreeningCycle` has a session that notes a deploy or not (`AgentLoop` says when
that is true), `AgentLoop` has a deploy that succeeds or not (`DeployGuard`),
`DeployGuard` has cooldown and gate as `Refuses` (`PoolLife`, `Settings`).

### 2.1 ExitState, ExitLoop

A record is a function of `state.js`'s fields; each exported function is one
operator, since it loads, changes and saves without an await. `Handled` is what the
management cycle and the poller do with one reading; a tick may queue a peak
or a drop, and a recheck 15 s later resolves it. `ExitLoop` gives every await of
the loops a `phase` or a place in `waiting`/`ready`: `waiting` are the callers of
the scan in flight, `ready` those the finished scan resumes, one after another,
before any timer or new callback. A scan may omit a fresh position (the API's
index lags) and may fail, which every caller sees as an empty list. The LLM's
closes are nondeterministic; the relay is a constant. Paper positions never reach
`state.json`, so they are not here but in `PaperStore`.

Percentages are integers, time is abstract (a timer may fire, a window may end, at
any moment), a position is deployed at most once, and readings come from a small
set, in `ExitRecheck` with a PnL that is missing (`dlmm.js:1418`). `LlmFails`,
`ManagementThrows` and `PollThrows` are the error paths. Records are read from a
file that parses.

`StopLossSelected` says that a cycle chooses every position at its stop loss, with
the one exemption the code forces: `ManagementThrows` when the scan also lists a
position without a PnL whose peak is at least the trailing drop (`HasGap`), since
the drop rule then reads the missing value (`state.js:426`) and nothing of the scan
is acted on. `StopLossAlwaysSelected` has no exemption, and `ExitMissingPnl`
refutes it.

### 2.2 DeployGuard

A model message issues one to `MaxCalls` deploys at once (`ModelCalls`); each has
looked at the lock before any has an outcome, and each goes `called -> scanning ->
passed -> landed -> idle`, one state per await that matters. Pool, and whether the
call names its token, are chosen where the code first reads them (`CheckScans`).
`place` tells for each position where it is open on chain, so that what a scan
lists is a function of the same shape. The scan in flight is shared: `CheckScans`
starts or joins, `ScanReads` is the answer of the portfolio API (possibly without
positions it has not indexed), `ScanFinishes` and `ScanFails` resume every caller.
Checks that change nothing (mode, thresholds, amounts, balance, cooldowns) are
`Refuses`. `MaxUnderWay` bounds the calls under way over all sessions.

`OneMessageOpens` is what the lock gives: after a session has opened a position, no
call of a later message begins. The comment at `agent.js:237` promises more
(`SessionOpensOne`), and two calls of one message break it (`DeployParallel`).

The guards cannot hold unconditionally, so the model remembers what weakened a
check: `"unsure"` (the check ran while another deploy was between its check and its
transaction, was answered by a failing API or by a list without a position that is
open) and `"unnamed"` (the call left out `base_mint`, which is optional).
`CapHolds` and `OnePerToken` say that these are the only ways. A failed
confirmation does not weaken anything: the lock and the scan still see what landed.

### 2.3 Hermes, JsonLines, ApprovedBroadcast

Each access to a file and each provider call is a step; checks in a row that only
read are one. The three stop mechanisms are three variables, since the components
look at different ones (`CoordinatorStopped`, `PolicyStopped`, `WalletStopped`).
`JsonLines` has what a reader gets from a damaged file: it stops at the first line
that does not parse. The caller of `broadcast_envelope` is not in the sources; it
is modelled as the tests write it (external in the map): broadcast, then
`write_broadcast_ledger`, then the position. Amount, slippage, digest
and allowlist checks are the sets `Permitted` and `Signable`.

A broadcast is checked (`BroadcastChecks`), stamped with the day and handed to the
provider (`Submits`, `broadcast_executor.py:321`), and answered (`Answers`); midnight
may fall between any two. The answer says little: whatever is raised becomes
`FAILED`, an answer that is no dictionary `SUBMITTED`. Whether the chain executes
the transaction is another step (`Lands`), at any time after it was handed over, or
never, and does not depend on the answer, except that `CONFIRMED` is given only to
what was executed. A position is opened on any receipt but a `FAILED` one
(`position_lifecycle.py:194`), and so on a transaction that may never land; the
envelope it names is an argument nothing compares with the receipt
(`position_lifecycle.py:249`), so any held one. `PositionHasReceipt` therefore
promises an accepted receipt of a sent and approved envelope, and nothing of
`p.env` or of `landed`. The estimate summed for the daily cap is what the caller
gives to `write_broadcast_ledger` (its default is 0.0, which would count nothing);
the model's caller gives the envelope's. Ids of receipts and positions are taken to
be distinct; those of envelopes are not.

`ApprovedBroadcast` says what matters: a transaction is sent only after it was
armed, and armed only while no kill switch is set and while an approval of that very
transaction is live. The refinement maps the ledger lines written and not expired to
`live`, the kill switch file to `stopped`, the envelope between checks and
submission to `armed`. A stop set after the checks does not stop the submission:
this window is part of the promise, not of a violation.

### 2.4 AgentLoop

One session: a request is out (`ask`), the calls of the answer run (`tools`), or
the loop is over. The retry ladder is one action per rung: `RejectsSystemRole`,
`RejectsToolChoice`, `Overloaded` (fallback model), `RateLimited`, `RequestFails`,
`AnswersEmpty`, `AnswersText` (with the demand for a real tool and its two
retries). The first two do not count an attempt or a step in the code, which is
why `requests` needs a bound at all. The calls of one message run in parallel
(`CallsTools`, `ToolReturns` for each, `ResultsJoin`), and the lock on destructive
tools is taken where the code takes it. The notes of the screening cycle
(`deployAttempted`, `deploySucceeded`) are its callbacks of `index.js`. Its variables
and formulas have names of their own (`LoopSpec`, `LoopTypeOK`), so that one module
can extend it and `DeployGuard`.

### 2.5 ScreeningCycle, Sessions

An action is the stretch between two awaits; a continuation that is due runs
first (`Quiet` is false meanwhile). Telegram keeps updates until a request with a
higher offset confirms them, so a restart, which forgets `_offset`, is given some
again. A handled message runs in one of two loops: the one that polls, or a drain
loop that a chat starts at its end; `running` says which. Two drain loops may be
alive at once: one awaits a command it drained while a chat, taken by the poll,
ends and starts another. `due` is the one whose turn it is.
Headless and terminal starts differ: the headless start leaves `cronStarted` false
(`index.js:2766`), and `LaunchCron` can run later than the first jobs. The recheck
timers survive `/pause` (`SilentManages`), and `/stop`, which the help names, has
no handler, so it is a chat. A live message raises `liveDepth`, which holds back
notices.

The ledger lines of the cycle are counted, not their text. `appendDecisionLedger`
creates its directory outside its `try`: in the pre-checks such a failure leaves
`_screeningBusy` set, the stage `stuck`.

### 2.6 UserConfig, Gates, Settings

Some fifteen keys stand for the file: the four bins, which are clamped in three
places, an alias (`takeProfitFeePct`), the timeframe and the two fields it rescales
(`ScaledKeys`), amounts and `positionSizePct`, the mode, `agentId`, which both
`update_config` and HiveMind write, and two keys `update_config` does not know.
Operators follow the functions: `Load` is the module body of `config.js` with the
null and wrong-type conversions each key gets; `Known`, `Acceptable`, `Applied`,
`Apply`, `Persist` are the passes of `update_config`; `Reload` is the reload after
an evolution. `Settings` is one process that starts, dies (also in the middle of a
write, which leaves `Torn`), and changes its settings, beside a second writer that
reads and later writes (`OtherReads`, `OtherWrites`: setup, the command line, an
editor). `FindAgentId` and `MakeAgentId` are the two ways of `ensureAgentId`.
`drift` records what may set memory and file apart, so that the properties can say
"unless". `RestartKeepsPlainSettings` compares the settings that are neither clamped
nor saved under two keys (`PlainFields`); of the bins and of `takeProfitPct` it is
not true (section 5). A tool call passes the gate (`CallStarts`), and awaits before
it sends; the mode can change in between. Upper case in `executionMode`, which
`getExecutionMode` and `isLiveMode` treat differently, is not modelled.

### 2.7 PoolMemory, LessonBook, SignalWeights, PoolLife

The first three hold one file each. `Suspicious` has the loss that looks wrong only
for positions that began with at least 20 USD (`lessons.js:126`). `PoolLife` follows
a close: it settles on chain, `recordPerformance` saves `lessons.json`, awaits an
import, saves the pool's memory, and every fifth record evolves. Several closes may
be anywhere on this way; they continue in the order they began to wait. A deploy
looks at the pool's cooldown, awaits, looks at the token's. `DiesInMemory` and
`DiesInLessons` tear a file, which is read as empty. Which signal separates winners
from losers is floating-point statistics and a free choice (`Rankings`); what the
weights then do is exact, in thousandths. The branches of `evolveThresholds` for
`maxVolatility` and `minFeeTvlRatio` are dead, since `config.screening` has neither
key. Filters and sorts of the code are sets of indices put in an order: `Sorted`
lists a finite set by a relation (`byPriority`, `latestFirst`, both stable as
`Array.prototype.sort` is), `Keep` lists the members at some places. `Entry` and
`Book` are what the two files hold when they parse.

### 2.8 Signals, Indicators, Candidates

Two screens, the cycle's and `/screen`'s, go through the filters of
`discoverPools` and `getTopCandidates`, one step per await, with each source
answering or failing. Thresholds, scores and cooldowns are verdicts chosen freely;
the deployer of a token is a fact that a source knows or does not. Jupiter answers,
names none, answers with an HTTP error (null without an error: the candidate passes,
`screening.js:566`), or fails (the candidate is dropped). `since` is the
set of deployers that have been blocked ever since a screen began: only those must
be dropped. The cycle stages signals and asks the model; `/deploy n` takes the n-th
of the list as it is by then; a deploy or a close takes the signals of its pool or
token (`Taken`, `Left`).

### 2.9 PaperStore

A paper deploy or close is one action per await: it loads a file, holds its copy in
`calls`, and saves it over whatever the file is by then. `Saved` is a write: it
succeeds, fails (logged, and the call goes on), or is cut, and a cut file is read
as an empty list. The cycle judges a listed position, closes what it chose one
after another (`todo`), and reads the list again only if it closed something. A
close that succeeds drops the cached list; a deploy does not, which only delays
its being shown. `tangled` names the positions whose call met another or a fault;
all others must be kept, once.

`PaperLife` has one stage per position (none, open, leaving, filed) and moves one
position per step. `LivesAsPromised` reads the stage off the two files (`Stage`):
`UntangledAreKept` speaks of positions at rest, this of every write. A tangled
position is given up (`unsure`), and giving up some moves no other.

## 3. Runs

| run | instance | shows |
|---|---|---|
| `ExitRecheck` | two positions, readings rise, fall, collapse, are missing | `ExitEvidence`, `PendingHasRecheckUntilRestart`, `OneHolder`, `StopLossSelected`, `PeakRisesByRecheck` |
| `ExitCrash` | one position, a rise, a fall, a collapse, a missing PnL, a rule, crashes, fairness | `ClosedIsClosedOnChain`, `RechecksSettle`, `ManagementReleases` |
| `DeployGuard` | two sessions, two calls under way (of two sessions, or of one message), three positions, limit two, three pools of two tokens, all faults | `CapHolds`, `OnePerToken`, `OneMessageOpens`, `OpenIsNotWrittenOff` |
| `AgentLoop` | three steps, two calls per message, every provider error | `NoRepeatAfterAnswer`, `NotedDeployIsReal`, `Terminates` |
| `Sessions` | two updates of any kind, a queue of one, two starts, fairness | `TypeOK`, `SessionsCounted`, `UpdatesAccounted`, `LockAccounted`, `CronMatchesSwitch`, `EveryUpdateTaken` |
| `Settings` | two writes by any writer, torn and failed writes, restarts, four environments, every tool that sends, position sizes 35, 95 and 100% | `BinsOrdered`, `RestartKeepsPlainSettings`, `GatesFit`, `SendsAreAllowed`, `FileIsSpared` |
| `PoolLife` | three closes in two pools of one token, one extra write or crash | `TypeOK`, `TokenStaysCold`, `MemoryFollowsRecord`, `PromptIsSound` |
| `Candidates` | two screens of two pools of one token, two block list changes, a signal lifetime of one tick | `BlockedDeployerIsDropped`, `SignalsServeOnce` |
| `PaperStore` | three positions, a tool call beside the auto-closing cycle, one failed write or crash | `UntangledAreKept`, `ClosedIsNotShown`, `LivesAsPromised` |
| `HermesApproval` | one candidate signed twice under one id, torn lines, lost answers, late or no landing, crashes | `TypeOK`, `SubmittedWasApproved`, `PositionHasReceipt`, `RefinesApproved` |
| `HermesCap` | one candidate signed twice, a cap that has room for one, two days, midnight anywhere, torn lines, lost answers, crashes | `SpendWithinCap` |
| `ScannerSends` | the instance of `Settings` | **violated** `OnlyLiveSends`: a close, claim or swap is sent in every mode |

A violated property states what a comment, a log line or a requirement of the
repository says; `findings` quotes it.

**Bounds.** Two positions are enough for one position's trouble to reach another in
a cycle or a shared scan; nothing in `ExitLoop` relates three. The readings have one
member on each side of each threshold the run is about: 3% trigger, 2% drop, -50%
stop. `DeployGuard` needs three positions to exceed a limit of two, two sessions to
overlap (or two calls of one message: `MaxUnderWay` is two), two pools of one token
to duplicate it and a third pool to fill the limit beside them; a position is never
reopened, as a key pair is never reused. Three steps give `AgentLoop` a call, its
error and a repeated call, and two slots the parallel ones. Two updates and a queue
of one (five in the code) let `Sessions` fill the queue behind a busy chat; two
starts give a restart with updates unconfirmed. Two writes in `Settings` are a read
before and a write after another's, or a failed write and what follows it; the
amounts and bins lie on both sides of each clamp. Three closes in `PoolLife` pass
the trigger (two) and the evolution (every second; five in the code) and leave one
more; `MaxTime` lets a cooldown of one tick run out; the closes are one of each
outcome that the code tells apart. In `Candidates` `MaxStaged` lets a pool be staged
anew before and after its first record is taken, and two ticks let it expire. In
`PaperStore` two positions may tangle and the third is the bystander; one fault is
enough to lose a file, and the archive may list a position twice. In `Hermes`, two
signed envelopes with one id are the collision, two approvals and receipts the
repetition, two days the midnight; with these bounds (`MaxSigned`, `MaxApprovals`,
`MaxReceipts`, `MaxCloses`, `MaxDay`) the counters stop. Symmetry (positions,
sessions, pools of one token) is used in `DeployGuard`, `PoolLife`, `Candidates` and
`PaperStore`, which check no liveness. `CHECK_DEADLOCK FALSE` stands where the
bounds end every behaviour.

**Fairness.** `FairSpec` of `ExitLoop`, used by `ExitCrash`: a scan that was started
ends and its continuations run (the clients have timeouts and the event loop is
fair); a timer that keeps being due fires; the holder of the management flag
proceeds, since transactions and LLM calls return or throw. Strong fairness is used
where other callbacks may keep interrupting. Nothing is assumed of the cron, the
user or the readings. The run has one position. A crash ends what was under way, so
`RechecksSettle` promises nothing to a process that dies. `LoopSpec` of `AgentLoop`:
`WF_agentVars(LoopNext)`, since the loop only waits for a request, which the client
times out after five minutes, or for `executeTool`, which returns. `FairSpec` of
`Sessions`: handlers end (they are sessions and commands with those timeouts), drain
continuations run, `poll()` asks again and takes what it was given, and Telegram,
asked again and again, answers again and again (strong: failed requests may come
between). Signals, cron and the user are free. `EveryUpdateTaken` needs no cycle to
end.

## 4. Proofs

Proved by TLAPS for all values of the constants, under the modules' named
assumptions (`ExitConstants`, `LoopConstants`, `GuardConstants`, `StepsAssumption`,
`SessionConstants`, `ConfigConstants`, `SettingsConstants`, `HermesConstants`,
`HermesDistinct`, `SignableCost`, `PaperDistinct`, `CandidatesAssumption`,
`PoolConstants`, `LessonConstants`, `WeightConstants`, `LifeConstants`, `TornDistinct`),
which TLC evaluates in the runs. The `...Distinct` ones say that the model values for a
torn file, or for nothing, are none of what a file may hold.

| theorem | property | argument |
|---|---|---|
| `ExitLoop_proofs!TypeCorrect`, `EvidenceCorrect` | `ExitEvidence` | together inductive; the lemmas on `ExitState` say what each operator does to a record |
| `ExitLoop_proofs!ClosedCorrect` | `ClosedIsClosedOnChain` | `ChainSafe`: also, a record has a position that is or was on chain, and what is being closed is closed on chain before it is recorded |
| `ExitLoop_proofs!HolderCorrect` | `OneHolder` | `HolderInv`: a caller is not both waiting and ready |
| `ExitLoop_proofs!RecheckCorrect` | `PendingHasRecheckUntilRestart` | every step that queues arms a timer in the same step |
| `ExitLoop_proofs!PeakCorrect` | `PeakRisesByRecheck` | action property, case by case over the steps that write a record |
| `ExitLoop_proofs!StopLossCorrect` | `StopLossSelected` | no hypothesis: a cycle throws only over a scan with a `HasGap` position (`ThrowsAtGap`); while the cycle is at its entry only `ManagementEmpty` and `ManagementEvaluate` consume its scan, and the exit of a position at its stop loss is that or a confirmed trailing one |
| `DeployPath_proofs!TypeCorrect` | | inductive with the outcome of a resumed scan as a lemma (`ResumeTyped`) |
| `DeployPath_proofs!CapCorrect` | `CapHolds` | `CapInv`: while no check was unsure, at most one call is unsettled, its scan misses no open position, and it passes only with room; `Cardinality` by the finite-set library |
| `DeployPath_proofs!TokenCorrect` | `OnePerToken` | `TokenInv`: a call that passed has the token of no open position |
| `DeployPath_proofs!RegistryCorrect` | `OpenIsNotWrittenOff` | `RegistryInv`: a scan lacks no open position whose record is past its grace |
| `DeployPath_proofs!SessionCorrect` | `OneMessageOpens` | for any number of calls per message; `SessionInv`: a session that opened a position is locked, or the call that opened it is still under way, so that no new message begins |
| `DeployPath_proofs!LoopTypeCorrect` | | inductive |
| `DeployPath_proofs!LockHolds` | `NoRepeatAfterAnswer` | what ran is locked from the moment its message's calls are issued or answered, and a locked tool is not run for a later step |
| `DeployPath_proofs!RequestsStayBounded` | `RequestsBounded` | requests are paid for by steps and by the two retries that cost none |
| `DeployPath_proofs!NotedIsReal` | `NotedDeployIsReal` | a note is set where a successful run is added to the history |
| `Sessions_proofs!TypeCorrect`, `SessionsStayCounted`, `UpdatesStayAccounted`, `LockStaysAccounted`, `CronFollowsSwitch` | `TypeOK`, `SessionsCounted`, `UpdatesAccounted`, `LockAccounted`, `CronMatchesSwitch` | one invariant, `IInv` of eleven parts: a chat holds `busy` and at most one runs (`ChatInv`); the depth is what is open (`DepthInv`); the batch is fresh, consecutive and above the offset (`Fresh`, `BatchInv`); what waits has not run (`QueueInv`, `TimesInv`, `FirstRun`) |
| `Settings_proofs!TypeCorrect` | | `TypeOK` of `Settings`, which the properties rest on; no run checks it by itself, nor those of `ExitLoop`, `DeployGuard` and `AgentLoop` |
| `Settings_proofs!BinsStayOrdered` | `BinsOrdered` | each of load, apply and reload orders its bins, by lemmas on the clamps |
| `Settings_proofs!RestartKeeps` | `RestartKeepsPlainSettings` | while only updates came in between, file and memory agree on every plain field; each writer keeps that |
| `Settings_proofs!SendsWereAllowed` | `SendsAreAllowed` | a call that is under way passed the gate, and the environment does not change while the process lives |
| `Settings_proofs!FileStaysSpared` | `FileIsSpared` | action property, over the steps that write the file; for any writers, keys and failures |
| `Settings_proofs!GatesAlwaysFit` | `GatesFit` | `FitInv`: a live process that was not updated since its start passed config-doctor; at most 95% as `positionSizePct`; amounts rounded to hundredths stay between the bounds the doctor compared |
| `Hermes_proofs!TypeCorrect` | `TypeOK` | with `InProgress`: each program point holds what it needs |
| `Hermes_proofs!SubmittedCorrect` | `SubmittedWasApproved` | `SubmittedInv`, over ledgers whose whole lines only grow (`AppendKeeps`, `TearKeeps`) |
| `Hermes_proofs!PositionsCorrect` | `PositionHasReceipt` | `PositionInv`: the receipt in hand is of what was sent, and is in the ledger, or glued there, once written |
| `Hermes_proofs!RefinementCorrect` | `RefinesApproved` | initial states map to initial states, each step to a step or a stutter |
| `Hermes_proofs!CapCorrect` | `SpendWithinCap` | no hypothesis on faults; `CapInv`: an envelope between the check and its receipt had room on its day, or was stamped with a later day, of which nothing was counted yet; a cut line takes receipts out of a reader's sum, never adds one |
| `PaperStore_proofs!KeptCorrect` | `UntangledAreKept` | `KeptInv`: of an untangled position, its own call is the only one under way and holds its next step (`Own`), and the copies of all others say what the files say (`Apart`) |
| `PaperStore_proofs!ShownCorrect` | `ClosedIsNotShown` | `ShownInv`, on `KeptInv`: what is listed is read from a file, in which nothing closed is left, and a close drops the cache |
| `PaperStore_proofs!LifeCorrect` | `LivesAsPromised` | on `KeptInv`, step by step: a save by another's call leaves an untangled position where it is (`SaveSpares`), one by its own moves it on (`SaveMoves`); all else moves nothing or gives up some |
| `Candidates_proofs!BlockedCorrect` | `BlockedDeployerIsDropped` | `ScreensInv`: what is known of a candidate's deployer is true; of one in `since` the first list knew nothing, nor, behind the filter that asks it, did Jupiter (`Fits`) |
| `Candidates_proofs!ServeOnceCorrect` | `SignalsServeOnce` | `SignalsInv`: what is staged has serials that were issued, are not used up and are all different (`Fresh`); the fold over the candidates by induction on how many are staged (`UpTo`) |
| `PoolLife_proofs!TypeCorrect` | `TypeOK` | `Typed`, with `Fifo` (a queued record is one of the history); `FloorStays`, `WeightsStay` |
| `PoolLife_proofs!MemoryCorrect` | `MemoryFollowsRecord` | inductive with `Typed` and `Fifo`: what waits is in the order of the record and all before it is remembered or lost, so the next one is the next close of its pool (`KeepAppends`, `ClosesGrow`); an append to the record changes nothing remembered (`ClosesStay`) |
| `PoolLife_proofs!ColdCorrect` | `TokenStaysCold` | under `SameHours`; `Cold`: a token that must rest has an entry that says so for as long, and an attempt not yet past the second check waits for no later time |
| `PoolLife_proofs!PromptCorrect` | `PromptIsSound` | no invariant beyond `Typed`; a sorted set lists no member twice (`SortedLists`, `TierOk`) and each tier's ids exclude those of the tiers before it (`OnceJoined`) |

The properties themselves are not inductive: `CapHolds`, for one, speaks of open
positions only, and a call that has passed its check is what breaks it a step
later; `UpdatesAccounted` speaks of handled updates and needs what the batch and the
queue may hold; `MemoryFollowsRecord` fails a step after a record that waits out of
order.

One theorem has a hypothesis, the weakest for which the property holds of the code.
`SameHours` of `ColdCorrect` (the scope is pools only, or the second rule is off or
lasts as long as the first, as by default): otherwise the later of the two cooldowns
replaces the longer one (`PoolHours.cfg`). All other conditions stand in the
properties, where a reader sees them: `SpendWithinCap` asks for `MaxTx > 0`, since
without a limit per transaction the estimate of the next one is not added
(`broadcast_executor.py:314`); `StopLossSelected` exempts a scan with a `HasGap`
position; `CapHolds` and `OnePerToken` say "unless a check was weakened".

Only model-checked: the liveness properties (`RechecksSettle`, `ManagementReleases`,
`EveryUpdateTaken`, `Terminates`), which with ENABLED are beyond the prover.
Every invariant and action property of the runs that pass has a theorem. Facts that
need induction over data (`SortedLists`, `LeastMember`, `UpTo`) are proved from the
library's theorems on finite sets: the induction theorems themselves cannot be
cited, since they take an operator.

## 5. Divergences

`ScannerSends` is the one among the runs. The configurations below are kept beside
them; each is a counterexample to a sentence of the repository. Run them with
`tlc -config <cfg> <module>.tla`.

| cfg | module | violated | the code against the sentence |
|---|---|---|---|
| `ExitRestart` | `MCExitLoop` | `PendingHasRecheck` | the timer of a queued peak (`index.js:220`) dies with the process, the peak stays queued in `state.json` (`state.js:233`) |
| `ExitMissingPnl` | `MCExitLoop` | `StopLossAlwaysSelected` | "Hard exit — highest priority" (`index.js:363`): a position without a PnL makes the cycle throw (`state.js:426`) before the next one is judged |
| `ExitSecondLook` | `MCExitLoop` | `RecheckIsSecondLook` | a recheck (`index.js:243`) joins the scan whose reading queued the drop (`state.js:307`) |
| `DeployParallel` | `MCDeployGuard` | `SessionOpensOne` | the lock (`agent.js:237`) is looked at before (`agent.js:365`, `406`) and taken after (`agent.js:434`) the parallel calls |
| `AgentLedger` | `AgentLoop` | `NoDeployNotedIsReal` | a second deploy that the lock refuses (`agent.js:408`) reaches the callback (`index.js:1117`) and overwrites the first one's success |
| `SessionsLedger` | `Sessions` | `LedgerNeverStopsScreening` | `mkdirSync` stands outside the `try` (`decision-ledger.js:23`) and is called in the pre-checks of the cycle (`index.js:672`-`697`) |
| `SessionsQueue` | `Sessions` | `QueuedIsHandled` | "Queue is full (5 messages). Wait for the agent to finish." (`index.js:2266`): only a chat drains the queue (`index.js:2710`), what a command or the terminal held up waits |
| `PaperParallel` | `PaperStore` | `NothingIsLost` | two deploys or closes of one message each save the list they loaded (`dlmm.js:576`-`632`, `1617`-`1632`); "check appended to archive" (`test/test-phase1.js:1832`) tests one close by itself |
| `HermesHalt` | `MCHermes` | `HaltStopsBroadcasts` | "/halt - Emergency stop all operations" (`telegram_guardian.py:354`): it writes a file that the broadcast does not read |
| `PoolHours` | `MCPoolLife` | `TokenStaysCold` | "Base mint cooldown set for … until …" (`pool-memory.js:184`): a later, shorter cooldown of the token is written over the longer one (`pool-memory.js:74`) |
| `HermesCapLost` | `MCHermes` | `ExecutedWithinCap` | "max_daily_spend_usd" read as what is spent in a day: a transaction that landed and was answered by an error is recorded as failed (`broadcast_executor.py:322`) and not counted, and one handed over before midnight may be executed after it, under the old day's stamp (`broadcast_executor.py:321`) |

Read in the code while modelling, some of them outside the models' alphabets:

- `dlmm.js:1265` against `executor.js:884`: "force fresh scan to avoid stale
  cache", but a forced scan joins the one in flight. `DeployGuard` has it as
  `"unsure"`.
- `execution-modes.js:13-22` asks for an approval in live mode; no check of it lies
  on the deploy path.
- `index.js:2084` takes a blocked deploy for a deployed one, and Telegram says so.
- `index.js:2034`: `/deploy n` and `/close n` count in the list as it is by then.
- `dlmm.js:1738`: the relay's close is confirmed by a list that is empty when the
  API fails.
- `screening.js:690`: a failed lookup of a deployer, "network timeout, HTTP error,
  etc.", drops the candidate; but an HTTP error is turned into null
  (`screening.js:566`) and the candidate passes as one without a deployer.
- A restart changes some settings. `minBinsBelow` updated to 80 and then to 40
  leaves a maximum of 80 in memory and, after a restart, 69: memory is clamped, the
  file has what was asked. An update of `takeProfitFeePct` (`executor.js:487`) is
  saved under that key and ignored by the next start if the file has
  `takeProfitPct` (`config.js:116`).
- With `positionSizePct` above 95 a computed amount, rounded to hundredths
  (`config.js:258`), can exceed what is free; the checks then refuse it.
- `position_lifecycle.py:194` opens a position on `SUBMITTED`, before anything is
  confirmed, and does not compare its envelope with the receipt's.
- With the defaults a live start is refused: `minSolToOpen` 0.55 is less than the
  deploy amount and the gas reserve. `minSolToOpen` is read by nothing else.
- `config-doctor` accepts deploys from 0.03 SOL, the executor from 0.1.
- A second process that writes `user-config.json` drops what was written since it
  read; `NothingLost` says that this is the only way. `evolveThresholds` and
  `ensureAgentId` replace a file that does not parse.
- A close whose PnL looks wrong leaves neither record nor memory, so no cooldown;
  a crash between `lessons.json` and `pool-memory.json` loses the close from the
  second; both are in `MemoryFollowsRecord`. The prompt's tier for recent lessons
  ignores the role, and the first two tiers can exceed the cap.
- `token-blacklist.js:2` has "mints the agent should never deploy into.": a deploy
  does not look at the lists, only a screen does, at its beginning; a deployer that no source names passes.
- Only the first two candidates are searched for rivals; a failing positions API
  empties the filter by open positions; a close may take signals that a later
  screen staged (`dlmm.js:1116`).
- Hermes: Risk-Off does not stop signing, an expired token is not looked at when
  signing, approvals can be used again, `/resume` leaves the kill switch file.

## 6. Not modelled

Listed with reasons in PROJECT.json. In short: fetches and scores are floats without
shared state; wording, logs and menus decide nothing; strategies and wallets are
synchronous maps; the relay branch is never taken (`dlmm.js:104`); the Discord
listener and HiveMind are seen as inputs. `Settings` has a paper close of a tool
call as one step. Hermes' ingestion, scoring, proposals and transaction building
write files from which nothing is executed.

## 7. Plan

1. Hermes' **ingestion** (three files, a crash between) and **learning** (clamped
   feedback over repeated outcomes), with a reader of each.
2. A `state.json` that does not parse, in `ExitState`.
