----------------------------- MODULE MCSettings -----------------------------
(* Settings on a small instance: chosen changes, edits and environments. *)
EXTENDS Settings, TLC

Home == [EmptyFile EXCEPT !["walletKey"] = "key", !["dryRun"] = FALSE,
                          !["minSolToOpen"] = 750]

MCChanges ==
    { "minBinsBelow" :> 80,
      "binsBelow" :> 40,
      "maxBinsBelow" :> 20 @@ "defaultBinsBelow" :> 120,
      "takeProfitFeePct" :> 9,
      "timeframe" :> 24,
      "timeframe" :> 7 @@ "minVolume" :> 300,
      "minOrganic" :> Null,
      "minOrganic" :> Text @@ "deployAmountSol" :> 100,
      "dryRun" :> TRUE,
      "executionMode" :> "live",
      "executionMode" :> "paper",
      "deployAmountSol" :> 700,
      "minSolToOpen" :> 950 @@ "walletKey" :> "other",
      "agentId" :> "other" }

MCEdits ==
    { "minOrganic" :> 65 @@ "minBinsBelow" :> 90 @@ "dryRun" :> TRUE,
      "executionMode" :> "live" @@ "maxDeployAmount" :> 600 @@ "dryRun" :> FALSE
        @@ "positionSizePct" :> 100 }

MCFirstFiles ==
    { Home,
      [Home EXCEPT !["executionMode"] = "live", !["minSolToOpen"] = Absent],
      [Home EXCEPT !["minBinsBelow"] = 50, !["binsBelow"] = 45,
              !["positionSizePct"] = 95] }

MCEnvironments ==
    { [dry |-> Absent, allow |-> TRUE, key |-> FALSE, mode |-> Absent],
      [dry |-> TRUE, allow |-> TRUE, key |-> TRUE, mode |-> Absent],
      [dry |-> FALSE, allow |-> FALSE, key |-> TRUE, mode |-> Absent],
      [dry |-> FALSE, allow |-> TRUE, key |-> TRUE, mode |-> "live"] }
=============================================================================
