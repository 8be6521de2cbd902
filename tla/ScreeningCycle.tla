--------------------------- MODULE ScreeningCycle ---------------------------
(***************************************************************************)
(* runScreeningCycle (index.js): its lock, the pre-checks, the discovery   *)
(* and recon of candidates, the session with the model, and the lines the  *)
(* cycle leaves in the decision ledger on each way out.                    *)
(*                                                                         *)
(* The session itself is AgentLoop; here it reports whether a deploy was   *)
(* noted and what the report says.  A decision-log write that throws takes *)
(* the same way out as any other exception of its step.  The actions leave *)
(* the rest of the process to the module that extends this one.            *)
(***************************************************************************)
EXTENDS Naturals

CONSTANT LlmEnabled     \* isLlmEnabled()

VARIABLES
    screeningBusy,    \* _screeningBusy
    stage,            \* where the cycle is; "stuck": thrown out of a pre-check
    unaccounted       \* history: a cycle ended with a wrong number of lines

cycleVars == <<screeningBusy, stage, unaccounted>>

Stages == {"idle", "precheck", "discover", "agent", "stuck"}

ScreeningTypeOK ==
    /\ screeningBusy \in BOOLEAN
    /\ stage \in Stages
    /\ unaccounted \in BOOLEAN

StartScreening ==
    /\ ~screeningBusy
    /\ screeningBusy' = TRUE /\ stage' = "precheck"
    /\ UNCHANGED unaccounted

\* The lock is released after the cycle's lines.  It accounts for itself with
\* one line, or with none after a deploy it noted.  appendDecisionLedger
\* swallows a failed append, which counts as a line here, not a failed mkdir.
Release(lines, noted) ==
    /\ screeningBusy' = FALSE /\ stage' = "idle"
    /\ unaccounted' =
          (unaccounted \/ ~(lines = 1 \/ (lines = 0 /\ noted)))

\* No free slot, too little SOL, or a failed read: one line, and the lock is
\* released by hand.  When ./data is missing and cannot be created, the catch
\* block throws like the try block, and the function is left with the lock set.
PrecheckStops ==
    /\ stage = "precheck"
    /\ \/ Release(1, FALSE)
       \/ stage' = "stuck" /\ UNCHANGED <<screeningBusy, unaccounted>>

PrecheckPasses ==
    /\ stage = "precheck" /\ stage' = "discover"
    /\ UNCHANGED <<screeningBusy, unaccounted>>

\* Discovery, recon and the hard filters leave nothing, or one candidate that
\* is not worth it, or there is no model to ask.  A discovery that fails counts
\* as one without candidates.
NoEntry == stage = "discover" /\ Release(1, FALSE)

AsksModel ==
    /\ stage = "discover" /\ LlmEnabled /\ stage' = "agent"
    /\ UNCHANGED <<screeningBusy, unaccounted>>

\* Mutant: the second test is not an else branch of the first.
SessionEnds_twoIfs ==
    /\ stage = "agent"
    /\ \E noDeploy, noted \in BOOLEAN :
          Release((IF noDeploy THEN 1 ELSE 0) + (IF noted THEN 0 ELSE 1),
                  noted)

\* The session ends: a NO DEPLOY report or no noted deploy leaves a line, a
\* noted deploy leaves none of its own.
SessionEnds ==
    /\ stage = "agent"
    /\ \E noDeploy, noted \in BOOLEAN :
          Release(IF noDeploy \/ ~noted THEN 1 ELSE 0, noted)

\* Any exception after the pre-checks; the finally block releases the lock,
\* whatever the catch block throws.
ScreeningThrows ==
    /\ stage \in {"discover", "agent"}
    /\ Release(1, FALSE)
=============================================================================
