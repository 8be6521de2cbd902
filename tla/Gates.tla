-------------------------------- MODULE Gates --------------------------------
(***************************************************************************)
(* What stands between a tool call and a transaction, as operators on the  *)
(* settings in memory `live' and the environment `penv' of the process:    *)
(* execution-modes.js, the deploy checks of tools/executor.js, the size of *)
(* a deploy (config.js) and the checks made of a configuration at start    *)
(* (scripts/config-doctor.js).                                             *)
(***************************************************************************)
EXTENDS UserConfig

Modes == {"scanner", "simulate", "paper", "live"}

\* The least deploy, in thousandths of a SOL.
LeastDeploy == 100

\* The environment wins over the settings; what neither names is scanner.
getExecutionMode(live, penv) ==
    LET named == IF penv.mode # Absent THEN penv.mode ELSE live["executionMode"]
    IN  IF named \in Modes THEN named ELSE "scanner"

DryRun(penv) == penv.dry = TRUE

checkLiveExecutionAllowed(live, penv) ==
    /\ getExecutionMode(live, penv) = "live"
    /\ ~DryRun(penv)
    /\ penv.allow
    /\ penv.key

\* Mutant: the gate asks for the mode and not for the rest.
ModeGate_modeOnly(tool, live, penv) ==
    tool = "deploy" => getExecutionMode(live, penv) = "live" \/ DryRun(penv)

\* The mode gate of runSafetyChecks: it stands before deploys only.
ModeGate(tool, live, penv) ==
    tool = "deploy" =>
        IF getExecutionMode(live, penv) = "live"
        THEN checkLiveExecutionAllowed(live, penv)
        ELSE DryRun(penv)

-----------------------------------------------------------------------------
(* Sizes *)

\* toFixed(2): to hundredths of a SOL, half up.
Rounded(x) == ((x + 5) \div 10) * 10

\* A share of the free balance, within its bounds.
computeDeployAmount(live, balance) ==
    LET deployable == AtLeast(0, balance - live["gasReserve"])
        dynamic == (deployable * Or(live["positionSizePct"], 35)) \div 100
    IN  Rounded(AtMost(live["maxDeployAmount"],
                       AtLeast(live["deployAmountSol"], dynamic)))

\* The amount checks of runSafetyChecks.
AmountAccepted(live, penv, amount, balance) ==
    /\ amount >= AtLeast(LeastDeploy, live["deployAmountSol"])
    /\ amount <= live["maxDeployAmount"]
    /\ DryRun(penv) \/ balance >= amount + live["gasReserve"]

\* runExecutionGate: what execute_intent asks before it reports a pass; `room'
\* says that a position may still be opened.
runExecutionGate(live, penv, amount, balance, room, approved) ==
    /\ checkLiveExecutionAllowed(live, penv)
    /\ room
    /\ amount <= live["maxDeployAmount"]
    /\ balance >= amount + live["gasReserve"]
    /\ approved

-----------------------------------------------------------------------------
(* runConfigDoctor: its errors.  config.js has put dryRun and the wallet    *)
(* key of the file into the environment by then.                            *)

DoctorMode(f, penv) ==
    IF penv.mode # Absent THEN penv.mode ELSE Or(f["executionMode"], "scanner")

DoctorDryRun(f, penv) ==
    IF penv.dry \in BOOLEAN THEN penv.dry ELSE f["dryRun"]

\* Mutant: the reserve is forgotten.
AmountErrors_noReserve(live) ==
    \/ live["deployAmountSol"] <= 0
    \/ live["gasReserve"] < 0
    \/ live["maxDeployAmount"] < live["deployAmountSol"]
    \/ live["minSolToOpen"] < live["deployAmountSol"]

AmountErrors(live) ==
    \/ live["deployAmountSol"] <= 0
    \/ live["gasReserve"] < 0
    \/ live["maxDeployAmount"] < live["deployAmountSol"]
    \/ live["minSolToOpen"] < live["deployAmountSol"] + live["gasReserve"]

LiveErrors(f, penv) ==
    /\ DoctorMode(f, penv) = "live"
    /\ \/ DoctorDryRun(f, penv) = TRUE
       \/ ~penv.allow
       \/ ~penv.key /\ f["walletKey"] \in {Absent, Null}

runConfigDoctor(f, live, penv) ==
    /\ DoctorMode(f, penv) \in Modes
    /\ ~AmountErrors(live)
    /\ ~LiveErrors(f, penv)
=============================================================================
