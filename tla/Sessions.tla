------------------------------ MODULE Sessions ------------------------------
(***************************************************************************)
(* The agent process around its cycles (index.js, telegram.js): Telegram's *)
(* long polling, the handler of a message with its queue, the chat that    *)
(* holds `busy', the terminal, the cron jobs that /pause, /resume and a    *)
(* changed interval stop and start, the live messages, shutdown and        *)
(* restart.  Screening is ScreeningCycle; what a management cycle decides  *)
(* is ExitLoop's subject, here it starts, may trigger screening, and ends. *)
(*                                                                         *)
(* Between two awaits the event loop runs nothing else: an action is such  *)
(* a stretch.  A continuation that is due runs before any other callback.  *)
(***************************************************************************)
EXTENDS ScreeningCycle, Integers, Sequences, FiniteSets

CONSTANTS
    MaxMessages,     \* bound: updates the user sends, numbered from 1
    QueueLimit,      \* 5 in telegramHandler
    MaxStarts        \* bound: processes started one after another

ASSUME SessionConstants ==
    /\ MaxMessages \in Nat /\ QueueLimit \in Nat \ {0}
    /\ MaxStarts \in Nat

Message == 1 .. MaxMessages
\* "blocked": what read-only mode refuses, when it is on.  "settings" is the
\* menu, "command" any other command; a chat is free-form.
Kinds == {"chat", "command", "settings", "pause", "resume", "blocked"}

VARIABLES
    mode,            \* "tty" with a terminal, else "headless"
    life,            \* "starting" | "up" | "stopping" | "down"
    starts,          \* processes started so far
    sent,            \* how many updates the user sent
    kinds,           \* what they were, as far as an answer brought them
    confirmed,       \* Telegram forgets the updates below it
    offset,          \* _offset, zero after a restart
    polling,         \* _polling
    asking,          \* a getUpdates request is out
    batch,           \* updates of the last answer not handled yet
    queue,           \* _telegramQueue
    running,         \* [Message -> which loop awaits its handler, or "no"]
    due,             \* a drain loop whose message ended is to continue
    times,           \* history: [Message -> times its handler ran]
    refused,         \* history: answered with a refusal
    redelivered,     \* history: taken and not confirmed when a process ended
    busy, terminal,  \* busy; a terminal command or the startup holds it
    cronStarted, cronOn, pollers,
    current,         \* the jobs run at the configured intervals, if they run
    management,      \* the cycle: "idle" | "silent" | "live"
    finalizing,      \* an ended cycle's live message is being finalized
    liveDepth        \* _liveMessageDepth

userVars == <<sent, kinds, confirmed>>
pollVars == <<offset, polling, asking, batch>>
handlerVars == <<queue, running, due, times, refused, busy>>
cronVars == <<cronStarted, cronOn, pollers, current>>
processVars == <<mode, life, starts, redelivered>>
vars == <<userVars, pollVars, handlerVars, cronVars, processVars, cycleVars,
          terminal, management, finalizing, liveDepth>>

Handled(m) == running[m] # "no"
Quiet == ~due /\ life # "down"

-----------------------------------------------------------------------------
(* Cron *)

StopCron ==
    /\ cronOn' = FALSE
    /\ pollers' = IF cronOn THEN pollers - 1 ELSE pollers
    /\ current' = TRUE

StartCron ==
    /\ cronOn' = TRUE
    /\ pollers' = (IF cronOn THEN pollers - 1 ELSE pollers) + 1
    /\ current' = TRUE

LaunchCron ==
    IF cronStarted THEN UNCHANGED cronVars
                   ELSE cronStarted' = TRUE /\ StartCron

\* Mutant: the restarter does not ask whether the cycles were paused.
CronRestarter_always ==
    StartCron /\ UNCHANGED cronStarted

\* Called by update_config when an interval changed.
CronRestarter ==
    IF cronStarted THEN StartCron /\ UNCHANGED cronStarted
                   ELSE current' = ~cronOn /\ UNCHANGED <<cronStarted, cronOn, pollers>>

-----------------------------------------------------------------------------
(* The process *)

Init ==
    /\ mode \in {"tty", "headless"}
    /\ life = "down" /\ starts = 0
    /\ sent = 0 /\ kinds = <<>> /\ confirmed = 1
    /\ times = [m \in Message |-> 0] /\ refused = {} /\ redelivered = {}
    /\ offset = 0 /\ polling = FALSE /\ asking = FALSE /\ batch = <<>>
    /\ queue = <<>> /\ running = [m \in Message |-> "no"] /\ due = FALSE
    /\ busy = FALSE /\ terminal = FALSE
    /\ cronStarted = FALSE /\ cronOn = FALSE /\ pollers = 0 /\ current = TRUE
    /\ screeningBusy = FALSE /\ stage = "idle" /\ unaccounted = FALSE
    /\ management = "idle" /\ finalizing = FALSE /\ liveDepth = 0

Headless == mode = "headless"

\* A process starts.  With a terminal it first fetches what it shows there;
\* without one the jobs, the polling and a screening cycle start at once, and
\* cronStarted stays false.
Boot ==
    /\ life = "down" /\ starts < MaxStarts /\ starts' = starts + 1
    /\ life' = IF Headless THEN "up" ELSE "starting"
    /\ polling' = Headless
    /\ busy' = ~Headless /\ terminal' = ~Headless
    /\ cronOn' = Headless /\ pollers' = IF Headless THEN 1 ELSE 0
    /\ screeningBusy' = Headless
    /\ stage' = IF Headless THEN "precheck" ELSE "idle"
    /\ UNCHANGED <<mode, redelivered, userVars, offset, asking,
                   batch, queue, running, due, times, refused, unaccounted,
                   cronStarted, current, management, finalizing, liveDepth>>

\* A signal, /stop in the terminal, or its end.
Shutdown ==
    /\ Quiet /\ life \in {"starting", "up"} /\ life' = "stopping"
    /\ polling' = FALSE
    /\ StopCron /\ UNCHANGED cronStarted
    /\ UNCHANGED <<mode, starts, redelivered, userVars,
                   offset, asking, batch, handlerVars, cycleVars, terminal,
                   management, finalizing, liveDepth>>

\* Memory is lost; what Telegram has not been told about will come again.
Dies ==
    /\ life' = "down"
    /\ redelivered' = redelivered \cup {m \in Message : confirmed <= m /\ m < offset}
    /\ offset' = 0 /\ polling' = FALSE /\ asking' = FALSE /\ batch' = <<>>
    /\ queue' = <<>> /\ running' = [m \in Message |-> "no"] /\ due' = FALSE
    /\ busy' = FALSE /\ terminal' = FALSE
    /\ cronStarted' = FALSE /\ cronOn' = FALSE /\ pollers' = 0 /\ current' = TRUE
    /\ screeningBusy' = FALSE /\ stage' = "idle"
    /\ management' = "idle" /\ finalizing' = FALSE /\ liveDepth' = 0
    /\ UNCHANGED <<mode, starts, userVars, times, refused, unaccounted>>

\* The positions were read, or five seconds are over.
Exits == Quiet /\ life = "stopping" /\ Dies

Killed == life # "down" /\ starts < MaxStarts /\ Dies

-----------------------------------------------------------------------------
(* telegramHandler *)

\* A chat takes `busy' before its first await.
Claims(m, held) == held \/ kinds[m] = "chat"

\* What the handler of m does before its first await, in a process whose other
\* handlers are r and whose live messages are depth.
Begin(m, loop, r, depth, held) ==
    /\ running' = [r EXCEPT ![m] = loop]
    /\ times' = [times EXCEPT ![m] = @ + 1]
    /\ busy' = Claims(m, held)
    /\ liveDepth' = IF kinds[m] = "chat" THEN depth + 1 ELSE depth
    /\ CASE kinds[m] = "pause" -> StopCron /\ cronStarted' = FALSE
         [] kinds[m] = "resume" -> LaunchCron
         [] OTHER -> UNCHANGED cronVars

Blocked(m) == kinds[m] = "blocked"
AnyBusy == management # "idle" \/ screeningBusy \/ busy
MustWait(m) == ~Blocked(m) /\ kinds[m] # "settings" /\ AnyBusy

\* Mutant: a full queue drops its oldest message.
Enqueue_dropsOldest(m) ==
    /\ queue' = Append(IF Len(queue) < QueueLimit THEN queue ELSE Tail(queue), m)
    /\ UNCHANGED refused

\* Mutant: one message too many.
Enqueue_offByOne(m) ==
    IF Len(queue) <= QueueLimit
    THEN queue' = Append(queue, m) /\ UNCHANGED refused
    ELSE refused' = refused \cup {m} /\ UNCHANGED queue

Enqueue(m) ==
    IF Len(queue) < QueueLimit
    THEN queue' = Append(queue, m) /\ UNCHANGED refused
    ELSE refused' = refused \cup {m} /\ UNCHANGED queue

NotBegun == UNCHANGED <<running, times, busy, liveDepth, cronVars>>

\* The tests in the handler's order: read-only, settings, busy.
Dispatch(m) ==
    \/ /\ Blocked(m) /\ refused' = refused \cup {m}
       /\ UNCHANGED queue /\ NotBegun
    \/ MustWait(m) /\ Enqueue(m) /\ NotBegun
    \/ /\ ~Blocked(m) /\ ~MustWait(m)
       /\ Begin(m, "poll", running, liveDepth, busy)
       /\ UNCHANGED <<queue, refused>>

\* One turn of drainTelegramQueue, busy being free.
Drain(r, depth) ==
    IF queue # <<>> /\ management = "idle" /\ ~screeningBusy
    THEN /\ queue' = Tail(queue)
         /\ Begin(Head(queue), "drain", r, depth, FALSE)
    ELSE /\ running' = r /\ liveDepth' = depth /\ busy' = FALSE
         /\ UNCHANGED <<queue, times, cronVars>>

Others == UNCHANGED <<userVars, pollVars, processVars, cycleVars, terminal,
                      management, finalizing>>

\* Mutant: a chat that failed leaves its live message open.
ChatEnds_leavesOpen(m) ==
    /\ Quiet /\ Handled(m) /\ kinds[m] = "chat"
    /\ Drain([running EXCEPT ![m] = "no"], liveDepth)
    /\ due' = (running[m] = "drain")
    /\ UNCHANGED refused /\ Others

\* The live message is finalized or failed, `busy' is released, and a drain
\* loop starts; the loop that awaited this chat continues after that.
ChatEnds(m) ==
    /\ Quiet /\ Handled(m) /\ kinds[m] = "chat"
    /\ Drain([running EXCEPT ![m] = "no"], liveDepth - 1)
    /\ due' = (running[m] = "drain")
    /\ UNCHANGED refused /\ Others

CommandEnds(m) ==
    /\ Quiet /\ Handled(m) /\ kinds[m] # "chat"
    /\ running' = [running EXCEPT ![m] = "no"]
    /\ due' = (running[m] = "drain")
    /\ UNCHANGED <<queue, times, refused, busy, liveDepth, cronVars>> /\ Others

DrainContinues ==
    /\ due /\ life # "down" /\ due' = FALSE
    /\ IF busy
       THEN UNCHANGED <<queue, running, times, busy, liveDepth, cronVars>>
       ELSE Drain(running, liveDepth)
    /\ UNCHANGED refused /\ Others

-----------------------------------------------------------------------------
(* Long polling *)

UserSends ==
    /\ sent < MaxMessages /\ sent' = sent + 1
    /\ UNCHANGED <<kinds, confirmed, pollVars, handlerVars, cronVars, processVars,
                   cycleVars, terminal, management,
                   finalizing, liveDepth>>

LoopFree == batch = <<>> /\ \A m \in Message : running[m] # "poll"

PollFrame == UNCHANGED <<sent, processVars, cycleVars, terminal,
                         management, finalizing, due>>
NoHandler == UNCHANGED <<queue, running, times, refused, busy, liveDepth, cronVars>>

\* The request tells Telegram what not to send again.
PollAsks ==
    /\ Quiet /\ polling /\ LoopFree /\ ~asking /\ asking' = TRUE
    /\ confirmed' = IF offset > confirmed THEN offset ELSE confirmed
    /\ UNCHANGED <<kinds, offset, polling, batch>> /\ NoHandler /\ PollFrame

PollAnswers ==
    /\ Quiet /\ asking /\ sent >= confirmed /\ asking' = FALSE
    /\ batch' = [i \in 1 .. sent - confirmed + 1 |-> confirmed + i - 1]
    /\ kinds' \in {k \in [1 .. sent -> Kinds] : SubSeq(k, 1, Len(kinds)) = kinds}
    /\ UNCHANGED <<confirmed, offset, polling>> /\ NoHandler /\ PollFrame

\* Mutant: the catch is outside the loop.
PollFails_ends ==
    /\ Quiet /\ asking /\ asking' = FALSE /\ polling' = FALSE
    /\ UNCHANGED <<kinds, confirmed, offset, batch>> /\ NoHandler /\ PollFrame

\* An error, an abort or an empty answer: the loop asks again.
PollFails ==
    /\ Quiet /\ asking /\ asking' = FALSE
    /\ UNCHANGED <<kinds, confirmed, offset, polling, batch>> /\ NoHandler /\ PollFrame

\* The offset moves before the handler runs.
TakesUpdate ==
    /\ Quiet /\ batch # <<>> /\ \A m \in Message : running[m] # "poll"
    /\ offset' = Head(batch) + 1 /\ batch' = Tail(batch)
    /\ Dispatch(Head(batch))
    /\ UNCHANGED <<kinds, confirmed, polling, asking>> /\ PollFrame

-----------------------------------------------------------------------------
(* The terminal and the configuration *)

TerminalFrame == UNCHANGED <<userVars, running, queue, due, times, refused,
                             cycleVars, management, finalizing, liveDepth,
                             mode, starts, redelivered>>

\* The cycles and the polling start after the first fetch, failed or not.
StartupDone ==
    /\ life = "starting" /\ life' = "up"
    /\ busy' = FALSE /\ terminal' = FALSE
    /\ LaunchCron
    /\ polling' = TRUE
    /\ UNCHANGED <<offset, asking, batch>> /\ TerminalFrame

\* runBusy refuses a command while `busy' is held.
TerminalStarts ==
    /\ Quiet /\ life = "up" /\ mode = "tty" /\ ~busy
    /\ busy' = TRUE /\ terminal' = TRUE
    /\ UNCHANGED <<pollVars, cronVars, life>> /\ TerminalFrame

\* A number and "auto" launch the cycles at their end; no command drains the
\* queue.
TerminalEnds ==
    /\ Quiet /\ terminal /\ life # "starting"
    /\ busy' = FALSE /\ terminal' = FALSE
    /\ \/ LaunchCron
       \/ UNCHANGED cronVars
    /\ UNCHANGED <<pollVars, life>> /\ TerminalFrame

\* "go".
TerminalLaunches ==
    /\ Quiet /\ life = "up" /\ mode = "tty" /\ LaunchCron
    /\ UNCHANGED <<pollVars, life, busy, terminal>> /\ TerminalFrame

\* update_config with a new interval: the menu, /setcfg, or the model.
ChangesInterval ==
    /\ Quiet
    /\ \/ terminal /\ life # "starting"
       \/ \E m \in Message :
             Handled(m) /\ kinds[m] \in {"settings", "command", "chat"}
    /\ CronRestarter
    /\ UNCHANGED <<pollVars, life, busy, terminal>> /\ TerminalFrame

-----------------------------------------------------------------------------
(* The cycles *)

CycleFrame == UNCHANGED <<userVars, pollVars, handlerVars, cronVars,
                          processVars, terminal>>

\* A scheduled management cycle.  The hourly health check, which holds the same
\* lock, is in ExitLoop.
CronManages ==
    /\ Quiet /\ cronOn /\ management = "idle" /\ management' = "live"
    /\ liveDepth' = liveDepth + 1
    /\ UNCHANGED <<cycleVars, finalizing>> /\ CycleFrame

\* The poller, or a recheck timer: stopCronJobs does not clear those.
SilentManages ==
    /\ Quiet /\ life # "starting" /\ management = "idle" /\ management' = "silent"
    /\ UNCHANGED <<cycleVars, finalizing, liveDepth>> /\ CycleFrame

\* The lock is released before the report is sent.  Bound: a cycle does not
\* end before the report of an earlier one is out.
ManagementEnds ==
    /\ Quiet /\ management # "idle" /\ ~finalizing
    /\ management' = "idle" /\ finalizing' = (management = "live")
    /\ UNCHANGED <<cycleVars, liveDepth>> /\ CycleFrame

\* Cron, or a management cycle at its end or without positions.
ScreeningStarts ==
    /\ Quiet /\ (cronOn \/ management \in {"silent", "live"})
    /\ StartScreening
    /\ UNCHANGED <<management, finalizing, liveDepth>> /\ CycleFrame

ScreeningStep ==
    /\ Quiet
    /\ \/ /\ PrecheckPasses /\ liveDepth' = liveDepth + 1 /\ UNCHANGED finalizing
       \/ /\ PrecheckStops \/ AsksModel
          /\ UNCHANGED <<liveDepth, finalizing>>
       \/ /\ NoEntry \/ SessionEnds \/ ScreeningThrows
          /\ ~finalizing /\ finalizing' = TRUE /\ UNCHANGED liveDepth
    /\ UNCHANGED <<management>> /\ CycleFrame

Finalizes ==
    /\ Quiet /\ finalizing /\ finalizing' = FALSE /\ liveDepth' = liveDepth - 1
    /\ UNCHANGED <<cycleVars, management>> /\ CycleFrame

-----------------------------------------------------------------------------

Poll == PollAsks \/ PollAnswers \/ PollFails \/ TakesUpdate
Cycles == \/ CronManages \/ SilentManages \/ ManagementEnds
          \/ ScreeningStarts \/ ScreeningStep \/ Finalizes
Terminal == StartupDone \/ TerminalStarts \/ TerminalEnds \/ TerminalLaunches

Next ==
    \/ \E m \in Message : ChatEnds(m) \/ CommandEnds(m)
    \/ DrainContinues
    \/ UserSends \/ Poll
    \/ Terminal \/ ChangesInterval
    \/ Cycles
    \/ Boot \/ Shutdown \/ Exits \/ Killed

\* A session with the model and a command end: every request has a timeout and
\* every retry a bound.  Telegram answers again and again.  Nothing is assumed
\* of the user, the signals or the clock.
Fairness ==
    /\ \A m \in Message : WF_vars(ChatEnds(m) \/ CommandEnds(m))
    /\ WF_vars(DrainContinues)
    /\ WF_vars(PollAsks \/ TakesUpdate) /\ SF_vars(PollAnswers)
    /\ WF_vars(StartupDone)

\* So do cycles, reports, terminal commands and the shutdown.
CyclesEnd ==
    /\ WF_vars(TerminalEnds) /\ WF_vars(ManagementEnds) /\ WF_vars(ScreeningStep)
    /\ WF_vars(Finalizes) /\ WF_vars(Exits)

Spec == Init /\ [][Next]_vars
FairSpec == Spec /\ Fairness
SettlingSpec == FairSpec /\ CyclesEnd

-----------------------------------------------------------------------------
(* Properties *)

TypeOK ==
    /\ ScreeningTypeOK
    /\ mode \in {"tty", "headless"}
    /\ life \in {"starting", "up", "stopping", "down"}
    /\ starts \in 0 .. MaxStarts
    /\ kinds \in Seq(Kinds) /\ sent \in 0 .. MaxMessages
    /\ confirmed \in 1 .. MaxMessages + 1 /\ offset \in 0 .. MaxMessages + 1
    /\ polling \in BOOLEAN /\ asking \in BOOLEAN
    /\ batch \in Seq(Message) /\ queue \in Seq(Message)
    /\ Len(queue) <= QueueLimit
    /\ running \in [Message -> {"no", "poll", "drain"}]
    /\ due \in BOOLEAN
    /\ times \in [Message -> Nat]
    /\ refused \subseteq Message /\ redelivered \subseteq Message
    /\ busy \in BOOLEAN /\ terminal \in BOOLEAN
    /\ cronStarted \in BOOLEAN /\ cronOn \in BOOLEAN
    /\ pollers \in Nat /\ current \in BOOLEAN
    /\ management \in {"idle", "silent", "live"} /\ finalizing \in BOOLEAN
    /\ liveDepth \in Int

Chats == {m \in Message : Handled(m) /\ kinds[m] = "chat"}

\* One session at a time: at most one chat or terminal command runs, and `busy'
\* says whether one does, however chats, drain loops and the terminal meet.
OneSession ==
    /\ Cardinality(Chats) + (IF terminal THEN 1 ELSE 0) <= 1
    /\ busy = (terminal \/ Chats # {})

\* notifyDeploy and the other notices are held back while a live message is
\* open: the depth counts exactly the sessions and cycles that still have one.
LiveMessagesCounted ==
    liveDepth = Cardinality(Chats) + (IF finalizing THEN 1 ELSE 0)
                + (IF management = "live" THEN 1 ELSE 0)
                + (IF stage \in {"discover", "agent"} THEN 1 ELSE 0)

\* Both: sessions, the flag that announces them and their live messages agree.
SessionsCounted == OneSession /\ LiveMessagesCounted

\* No update is forgotten while a process lives: one that Telegram will not
\* send again was refused, was handled, or waits in the queue.  And none is
\* handled twice, unless a restart made Telegram send it again.
UpdatesAccounted ==
    \A m \in Message :
        /\ m < confirmed /\ starts = 1 /\ life # "down" =>
              \/ m \in refused \/ times[m] > 0
              \/ \E i \in DOMAIN queue : queue[i] = m
        /\ times[m] > 1 => m \in redelivered

\* Running jobs belong to the configured interval once they were started by
\* hand, a paused agent has none and stays so when an interval changes, and no
\* poller outlives its jobs.
CronMatchesSwitch ==
    /\ pollers = IF cronOn THEN 1 ELSE 0
    /\ cronStarted /\ life = "up" => cronOn /\ current
    /\ mode = "tty" /\ ~cronStarted => ~cronOn

\* A screening cycle that gives up its lock has left exactly one line in the
\* ledger, or none after a deploy it noted.
CycleAccounted == ~unaccounted

\* The lock is held by a cycle that still has something to do, or by one that
\* the ledger's missing directory threw out of its pre-checks.
LockHasHolder == screeningBusy = (stage # "idle")

\* Both: the screening lock is held by a cycle, and the ledger has its line
\* when the lock is free again.
LockAccounted == LockHasHolder /\ CycleAccounted

\* What the user sends reaches the handler, whatever chats and cycles run: again
\* and again nothing sent is still to be taken, unless the process is told to
\* stop.
EveryUpdateTaken ==
    []<>(offset > sent \/ confirmed > sent \/ life \in {"stopping", "down"})

\* Refuted: "Don't throw - ledger failure shouldn't crash the cycle".  A ledger
\* failure leaves no cycle behind that holds the lock for good.
LedgerNeverStopsScreening == stage # "stuck"

\* Refuted: a queued message is handled when the agent has finished.
QueuedIsHandled ==
    \A m \in Message :
        (\E i \in DOMAIN queue : queue[i] = m) ~> (Handled(m) \/ life # "up" \/ stage = "stuck")
=============================================================================
