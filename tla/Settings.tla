------------------------------- MODULE Settings -------------------------------
(***************************************************************************)
(* The settings of the agent: user-config.json, the copy in memory, and    *)
(* those who write them - update_config (the model, the command line, the  *)
(* Telegram menu), the evolution of the thresholds, the agent id of        *)
(* hivemind.js, and setup or a second process that reads the file, thinks, *)
(* and writes it back.  A write can fail, and a process can die in one,    *)
(* which leaves a file that does not parse.  On them depends whether a     *)
(* tool call that moves funds is let through and whether it sends.         *)
(***************************************************************************)
EXTENDS Gates

CONSTANTS
    Torn,           \* a file that does not parse
    NoFile,         \* nothing has been read by the other process
    Changes,        \* what update_config may be asked for
    Edits,          \* what setup or another process may write
    FirstFiles,     \* the files a person may leave
    Environments,   \* of the process: [dry, allow, key, mode]
    MaxChanges      \* bound on writes to the file

\* What a key of user-config.json may hold, but for a value of the wrong type:
\* a text is a mode, a key, an agent id or none of these.
Texts == Modes \cup {"key", "id", "other"}
KeyValues(k) ==
    CASE k \in {"executionMode", "walletKey", "agentId"} -> Texts \cup {Absent, Null}
      [] k = "dryRun" -> BOOLEAN \cup {Absent, Null}
      [] OTHER -> Int \cup {Absent, Null}

IsFile(f) ==
    /\ f = [k \in FileKeys |-> f[k]]
    /\ \A k \in FileKeys : f[k] \in KeyValues(k)

ASSUME SettingsConstants ==
    /\ MaxChanges \in Nat
    /\ {Torn, NoFile} \cap [FileKeys -> Int \cup Texts \cup BOOLEAN \cup {Absent, Null}] = {}
    /\ NoFile # Torn
    /\ {Absent, Null} \cap Texts = {}
    /\ \A f \in FirstFiles : IsFile(f)
    /\ \A e \in Edits : \A k \in DOMAIN e \cap FileKeys : e[k] \in KeyValues(k)
    /\ Environments \subseteq [dry : BOOLEAN \cup {Absent}, allow : BOOLEAN, key : BOOLEAN,
                              mode : Texts \cup {Absent}]
    /\ \A ch \in Changes : \A k \in DOMAIN ch \cap ConfigKeys :
          ch[k] = Text \/ (ch[k] \in KeyValues(k) /\ ch[k] # Absent)

VARIABLES
    file,       \* user-config.json
    live,       \* config, in memory
    up,         \* whether the process runs
    env,        \* what the process was started with
    penv,       \* process.env: env and what config.js took from the file
    seen,       \* what setup or another process has read and not yet written
    call,       \* the tool call that is under way
    drift,      \* history: what may set file and memory apart since the start
    changes     \* history: writes to the file
vars == <<file, live, up, env, penv, seen, call, drift, changes>>

Tools == {"deploy", "close", "claim", "swap"}
NoCall == [tool |-> "none", mode |-> "scanner", step |-> "none"]
Drifts == {"updated", "edited", "unwritten", "cleared"}

EmptyFile == [k \in FileKeys |-> Absent]
\* JSON.parse, for those who read a file that does not parse as an empty one.
Parsed == IF file = Torn THEN EmptyFile ELSE file

Unsaved == <<env, penv, seen, call>>

\* config.js: what the environment does not have is taken from the file.
StartEnv(e, f) ==
    [e EXCEPT !.dry = IF e.dry = Absent THEN f["dryRun"] ELSE e.dry,
              !.key = e.key \/ f["walletKey"] \notin {Absent, Null}]

Init ==
    /\ file \in FirstFiles
    /\ live = Load(EmptyFile)
    /\ up = FALSE
    /\ env \in Environments
    /\ penv = env
    /\ seen = NoFile
    /\ call = NoCall
    /\ drift = {}
    /\ changes = 0

-----------------------------------------------------------------------------
(* The process *)

\* index.js: with errors a process that is set to live does not start.  A file
\* that does not parse throws while config.js is imported.
Start ==
    /\ ~up
    /\ file # Torn
    /\ LET l == Load(file)
           e == StartEnv(env, file)
       IN  /\ runConfigDoctor(file, l, e) \/ DoctorMode(file, e) # "live"
           /\ live' = l
           /\ penv' = e
    /\ up' = TRUE
    /\ drift' = {}
    /\ UNCHANGED <<file, env, seen, call, changes>>

Down ==
    /\ up' = FALSE
    /\ live' = Load(EmptyFile)
    /\ penv' = env
    /\ call' = NoCall
    /\ drift' = {}
    /\ UNCHANGED <<env, seen>>

Dies ==
    /\ up
    /\ Down
    /\ UNCHANGED <<file, changes>>

\* writeFileSync empties the file first: one who dies in it leaves it torn.
DiesWriting ==
    /\ up
    /\ changes < MaxChanges
    /\ Down
    /\ file' = Torn
    /\ changes' = changes + 1

-----------------------------------------------------------------------------
(* update_config *)

\* Values of the wrong type, nothing it knows, or a file that does not parse:
\* no setting changes.
Accepts(ch) ==
    /\ Acceptable(ch)
    /\ DOMAIN Known(ch) # {}
    /\ file # Torn

Clears(a) == IF \E k \in DOMAIN a : a[k] = Null THEN {"cleared"} ELSE {}

\* Memory is changed before the file is written.
UpdateWith(ch) ==
    /\ Accepts(ch)
    /\ LET a == Applied(ch) IN
       /\ live' = Apply(live, a)
       /\ \/ /\ file' = Persist(file, a)
             /\ drift' = drift \cup {"updated"} \cup Clears(a)
          \/ \E f \in {file, Torn} :
                /\ file' = f
                /\ drift' = drift \cup {"updated", "unwritten"}
    /\ UNCHANGED <<up, Unsaved>>

Counted ==
    /\ up
    /\ changes < MaxChanges
    /\ changes' = changes + 1

UpdateConfig ==
    /\ Counted
    /\ \E ch \in Changes : UpdateWith(ch)

\* A step of the settings menu starts from the value in memory.
MenuStep ==
    /\ Counted
    /\ \E k \in {"minBinsBelow", "maxBinsBelow", "defaultBinsBelow",
                 "deployAmountSol"},
          up1 \in {-1, 1} :
          /\ live[FieldOf[k]] # Null
          /\ LET step == IF k \in BinKeys THEN 5 ELSE 100
                 v == MenuValue(k, live[FieldOf[k]] + up1 * step)
             IN  UpdateWith([c \in {k} |-> v])

-----------------------------------------------------------------------------
(* lessons.js and hivemind.js *)

\* evolveThresholds after a close that made it due, and the reload that
\* follows: a file that does not parse is replaced.
Evolve ==
    /\ Counted
    /\ live["minOrganic"] # Null
    /\ \E worst \in {70, 95} :
          LET new == EvolvedOrganic(live["minOrganic"], worst)
              saved == [Parsed EXCEPT !["minOrganic"] = new]
          IN  /\ new > live["minOrganic"]
              /\ file' = saved
              /\ live' = Reload([live EXCEPT !["minOrganic"] = new], saved)
    /\ UNCHANGED <<up, Unsaved, drift>>

\* ensureAgentId: the id of the file, if it has one,
FindAgentId ==
    /\ up
    /\ Parsed["agentId"] \notin {Absent, Null}
    /\ live' = [live EXCEPT !["agentId"] = Parsed["agentId"]]
    /\ UNCHANGED <<file, up, Unsaved, drift, changes>>

\* or a new one; a file that does not parse is replaced here too.
MakeAgentId ==
    /\ Counted
    /\ Parsed["agentId"] \in {Absent, Null}
    /\ file' = [Parsed EXCEPT !["agentId"] = "id"]
    /\ live' = [live EXCEPT !["agentId"] = "id"]
    /\ UNCHANGED <<up, Unsaved, drift>>

-----------------------------------------------------------------------------
(* setup, the command line, an editor *)

Edited == IF up THEN drift \cup {"edited"} ELSE {}

OtherReads ==
    /\ seen = NoFile
    /\ file # Torn
    /\ seen' = file
    /\ UNCHANGED <<file, live, up, env, penv, call, drift, changes>>

\* It writes back what it read, with its own changes.
OtherWrites ==
    /\ seen # NoFile
    /\ changes < MaxChanges
    /\ \E e \in Edits :
          file' = [k \in FileKeys |-> IF k \in DOMAIN e THEN e[k] ELSE seen[k]]
    /\ seen' = NoFile
    /\ drift' = Edited
    /\ changes' = changes + 1
    /\ UNCHANGED <<live, up, env, penv, call>>

OtherDiesWriting ==
    /\ seen # NoFile
    /\ changes < MaxChanges
    /\ file' = Torn
    /\ seen' = NoFile
    /\ drift' = Edited
    /\ changes' = changes + 1
    /\ UNCHANGED <<live, up, env, penv, call>>

\* A person puts a file back.
Repair ==
    /\ file = Torn
    /\ file' \in FirstFiles
    /\ drift' = Edited
    /\ UNCHANGED <<live, up, env, penv, seen, call, changes>>

-----------------------------------------------------------------------------
(* Tool calls that move funds *)

Mode == getExecutionMode(live, penv)

\* runSafetyChecks: its mode gate, then awaits.
CallStarts ==
    /\ up
    /\ call = NoCall
    /\ \E t \in Tools :
          /\ ModeGate(t, live, penv)
          /\ call' = [tool |-> t, mode |-> Mode, step |-> "checked"]
    /\ UNCHANGED <<file, live, up, env, penv, seen, drift, changes>>

\* A close in paper mode moves records only, and comes before its dry run; the
\* token it names may be swapped all the same.
PaperClose == call.tool = "close" /\ Mode = "paper"

\* The dry run is asked where the transaction is built.
MaySend(t) == ~DryRun(penv)

CallSends ==
    /\ call.step = "checked"
    /\ ~PaperClose
    /\ MaySend(call.tool)
    /\ call' = [call EXCEPT !.step = "sent"]
    /\ UNCHANGED <<file, live, up, env, penv, seen, drift, changes>>

\* executeTool: after a close or a claim the token is swapped back.
AutoSwap ==
    /\ \/ call.tool = "claim" /\ call.step = "sent"
       \/ call.tool = "close" /\ (call.step = "sent" \/ PaperClose)
    /\ MaySend("swap")
    /\ call' = [call EXCEPT !.tool = "swap", !.step = "sent"]
    /\ UNCHANGED <<file, live, up, env, penv, seen, drift, changes>>

CallEnds ==
    /\ call # NoCall
    /\ call' = NoCall
    /\ UNCHANGED <<file, live, up, env, penv, seen, drift, changes>>

Next ==
    \/ Start \/ Dies \/ DiesWriting
    \/ UpdateConfig \/ MenuStep \/ Evolve \/ FindAgentId \/ MakeAgentId
    \/ OtherReads \/ OtherWrites \/ OtherDiesWriting \/ Repair
    \/ CallStarts \/ CallSends \/ AutoSwap \/ CallEnds

Spec == Init /\ [][Next]_vars

-----------------------------------------------------------------------------
(* Properties *)

\* Every variable has its type.
TypeOK ==
    /\ file = Torn \/ IsFile(file)
    /\ seen = NoFile \/ IsFile(seen)
    /\ live = [x \in Fields |-> live[x]]
    /\ \A x \in BinFields : live[x] \in Int
    /\ \A x \in {"minOrganic", "deployAmountSol"} : live[x] \in Int \cup {Null}
    /\ up \in BOOLEAN
    /\ call \in [tool : Tools \cup {"none"}, mode : Modes,
                 step : {"none", "checked", "sent"}]
    /\ drift \subseteq Drifts
    /\ changes \in 0..MaxChanges
    /\ (~up => call = NoCall /\ drift = {})

\* Whatever was loaded, updated, stepped in the menu or reloaded, in whatever
\* order, the bins a deploy is laid out with are in order and safe
\* (config.js, executor.js, which settle them in three places).
BinsOrdered ==
    /\ MIN_SAFE_BINS_BELOW <= live["minBins"]
    /\ live["minBins"] <= live["defaultBins"]
    /\ live["defaultBins"] <= live["maxBins"]

\* The settings that are neither clamped nor known under two keys.
PlainFields == Fields \ (BinFields \cup {"takeProfitPct"})

\* A process that is started again has the plain settings it has now, unless a
\* write failed, the file was changed by another, or a setting was cleared.  Of
\* the others this is not so: bins are clamped in memory and saved as asked, and
\* takeProfitFeePct is saved beside a takeProfitPct that is read before it.
RestartKeepsPlainSettings ==
    (up /\ drift \subseteq {"updated"} /\ file # Torn) =>
        \A x \in PlainFields : Load(file)[x] = live[x]

\* Without a write that was cut short no key is ever lost: each writer keeps
\* what the others wrote, but for one that writes back what it read before.
NothingLost ==
    (file # Torn /\ file' # Torn /\ seen' = seen) =>
        \A k \in FileKeys : file[k] # Absent => file'[k] # Absent

\* While the file does not parse, update_config changes nothing: what changes
\* in memory then is what a reload of the evolved thresholds changes, and an
\* agent id that is made anew.
TornFileIsSpared ==
    (file = Torn /\ up /\ up') =>
        \A x \in PlainFields \ {"minOrganic", "agentId"} : live'[x] = live[x]

\* Both: no writer drops what another wrote, and none updates memory on top of
\* a file that it cannot read.
FileIsSpared == [][NothingLost /\ TornFileIsSpared]_vars

Hundredths(x) == x % 10 = 0

\* A live process whose settings were not updated since its start is one that
\* can deploy: the gate is open, and with the balance it asks for every amount
\* it computes is one the checks accept - if the amounts are whole hundredths,
\* the least deploy is kept, and at most 95% of what is free is deployed: with
\* more, an amount rounded up to hundredths can exceed it.
LiveStartCanDeploy ==
    (up /\ Mode = "live" /\ drift \cap {"updated", "unwritten"} = {}
        /\ Hundredths(live["deployAmountSol"])
        /\ Hundredths(live["maxDeployAmount"])
        /\ live["deployAmountSol"] >= LeastDeploy
        /\ Or(live["positionSizePct"], 35) <= 95) =>
        /\ checkLiveExecutionAllowed(live, penv)
        /\ \A b \in {live["minSolToOpen"], live["minSolToOpen"] + 336,
                     4 * live["minSolToOpen"], 40 * live["minSolToOpen"]} :
              AmountAccepted(live, penv, computeDeployAmount(live, b), b)

\* The two gates agree: what runExecutionGate would pass, the checks before a
\* deploy do not refuse but for the least amount.
GatesAgree ==
    up => \A amount \in {100, 500, 600, 1000}, balance \in {700, 800, 1200},
             room, approved \in BOOLEAN :
        (/\ Null \notin {live["gasReserve"], live["maxDeployAmount"],
                         live["deployAmountSol"]}
         /\ runExecutionGate(live, penv, amount, balance, room, approved)
         /\ amount >= AtLeast(LeastDeploy, live["deployAmountSol"])) =>
            /\ ModeGate("deploy", live, penv)
            /\ AmountAccepted(live, penv, amount, balance)

\* Both: what the doctor, the size of a deploy and the two gates demand of a
\* configuration fits together.
GatesFit == LiveStartCanDeploy /\ GatesAgree

\* No transaction leaves a process under DRY_RUN, and none of a deploy unless
\* the mode was live and live execution allowed when it was checked, however
\* the settings change under it.
SendsAreAllowed ==
    call.step = "sent" =>
        /\ ~DryRun(penv)
        /\ (call.tool = "deploy") =>
               (call.mode = "live" /\ penv.allow /\ penv.key)

\* execution-modes.js: "broadcast only if ALL hard gates pass", in live mode
\* only.  The gate stands before deploys only.
OnlyLiveSends == call.step = "sent" => call.mode = "live"
=============================================================================
