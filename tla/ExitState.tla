----------------------------- MODULE ExitState -----------------------------
(***************************************************************************)
(* The exit bookkeeping state.js keeps for one position in state.json, and *)
(* the pure part of what the PnL loops of index.js do with one reading of  *)
(* it.  A record is read, changed and written back synchronously, so every *)
(* operator below is one atomic step of the process.                       *)
(*                                                                         *)
(* Percentages are integers.  NoPnl stands for JavaScript's null.          *)
(***************************************************************************)
EXTENDS Integers

CONSTANTS
    NoPnl,          \* a missing percentage (null)
    TrailingOn,     \* management.trailingTakeProfit
    TriggerPct,     \* management.trailingTriggerPct: peak that arms trailing
    DropPct,        \* management.trailingDropPct: drop from the peak that exits
    StopLossPct,    \* management.stopLossPct
    TakeProfitPct,  \* management.takeProfitPct
    DropTolerance,  \* TRAILING_DROP_CONFIRM_TOLERANCE_PCT
    Relay           \* api.lpAgentRelayEnabled: readings are trusted at once

ASSUME ExitConstants ==
    /\ NoPnl \notin Int
    /\ TrailingOn \in BOOLEAN /\ Relay \in BOOLEAN
    /\ TriggerPct \in Int /\ DropPct \in Int
    /\ StopLossPct \in Int /\ TakeProfitPct \in Int
    /\ DropTolerance \in Int

Pct == Int \cup {NoPnl}

(***************************************************************************)
(* What a scan reports of one open position.  A missing PnL is never       *)
(* flagged suspicious: the flag compares two percentages.                  *)
(***************************************************************************)
Reading ==
    {d \in [pnl : Pct,
            suspicious : BOOLEAN,   \* reported and derived PnL disagree
            oor : BOOLEAN,          \* out of range
            waited : BOOLEAN,       \* outOfRangeWaitMinutes have passed
            lowYield : BOOLEAN,     \* fee/TVL below the minimum, old enough
            valued : BOOLEAN,       \* total_value_usd > 0.01
            binRule : BOOLEAN,      \* close rules 3, 4 or 5 hold
            instructed : BOOLEAN,   \* the user set an instruction
            claimable : BOOLEAN] :  \* unclaimed fees reach minClaimAmount
        d.pnl = NoPnl => ~d.suspicious}

Record ==
    [status : {"untracked", "open", "closed"},
     fresh : BOOLEAN,               \* deployed less than SYNC_GRACE_MS ago
     peak : Int,                    \* peak_pnl_pct
     pendingPeak : Pct,             \* pending_peak_pnl_pct
     pendingDropPeak : Pct,         \* pending_trailing_peak_pnl_pct
     pendingDropCurrent : Pct,      \* pending_trailing_current_pnl_pct
     confirmedExit : BOOLEAN,       \* confirmed_trailing_exit_*, not expired
     trailingActive : BOOLEAN,
     outOfRange : BOOLEAN]          \* out_of_range_since is set

Blank ==
    [status |-> "untracked", fresh |-> FALSE, peak |-> 0,
     pendingPeak |-> NoPnl, pendingDropPeak |-> NoPnl,
     pendingDropCurrent |-> NoPnl, confirmedExit |-> FALSE,
     trailingActive |-> FALSE, outOfRange |-> FALSE]

trackPosition == [Blank EXCEPT !.status = "open", !.fresh = TRUE]

recordClose(r) ==
    IF r.status = "untracked" THEN r ELSE [r EXCEPT !.status = "closed"]

\* markOutOfRange and markInRange, as a scan calls them for a listed position.
markRange(r, d) ==
    IF r.status = "untracked" THEN r ELSE [r EXCEPT !.outOfRange = d.oor]

\* Mutant: syncOpenPositions without the grace period.
syncMissing_noGrace(r) ==
    IF r.status = "open" THEN [r EXCEPT !.status = "closed"] ELSE r

\* syncOpenPositions for a position the scan did not list.
syncMissing(r) ==
    IF r.status = "open" /\ ~r.fresh THEN [r EXCEPT !.status = "closed"] ELSE r

-----------------------------------------------------------------------------
(* Peak confirmation *)

QueuesPeak(r, pnl) ==
    /\ pnl # NoPnl
    /\ r.status = "open"
    /\ pnl > r.peak
    /\ Relay \/ r.pendingPeak = NoPnl \/ pnl > r.pendingPeak

\* Mutant: every reading is trusted at once, as the relay's are.
queuePeakConfirmation_atOnce(r, pnl) ==
    IF ~QueuesPeak(r, pnl) THEN r
    ELSE [r EXCEPT !.peak = pnl, !.pendingPeak = NoPnl]

queuePeakConfirmation(r, pnl) ==
    IF ~QueuesPeak(r, pnl) THEN r
    ELSE IF Relay THEN [r EXCEPT !.peak = pnl, !.pendingPeak = NoPnl]
    ELSE [r EXCEPT !.pendingPeak = pnl]

Larger(a, b) == IF a >= b THEN a ELSE b

\* TRAILING_PEAK_CONFIRM_TOLERANCE is 0.85.
PeakHolds(r, pnl) == pnl # NoPnl /\ 100 * pnl >= 85 * r.pendingPeak

\* Mutant: a rejected peak stays pending.
resolvePendingPeak_keepsRejected(r, pnl) ==
    IF r.status # "open" \/ r.pendingPeak = NoPnl THEN r
    ELSE IF PeakHolds(r, pnl)
         THEN [r EXCEPT !.peak = Larger(r.peak, Larger(r.pendingPeak, pnl)),
                        !.pendingPeak = NoPnl]
         ELSE r

resolvePendingPeak(r, pnl) ==
    IF r.status # "open" \/ r.pendingPeak = NoPnl THEN r
    ELSE IF PeakHolds(r, pnl)
         THEN [r EXCEPT !.peak = Larger(r.peak, Larger(r.pendingPeak, pnl)),
                        !.pendingPeak = NoPnl]
         ELSE [r EXCEPT !.pendingPeak = NoPnl]

-----------------------------------------------------------------------------
(* Trailing drop confirmation *)

QueuesDrop(r, pnl) ==
    /\ r.status = "open"
    /\ r.peak - pnl >= DropPct
    /\ \/ r.pendingDropCurrent = NoPnl
       \/ pnl < r.pendingDropCurrent
       \/ r.peak - pnl > r.pendingDropPeak - r.pendingDropCurrent

queueTrailingDropConfirmation(r, pnl) ==
    IF QueuesDrop(r, pnl)
    THEN [r EXCEPT !.pendingDropPeak = r.peak, !.pendingDropCurrent = pnl]
    ELSE r

DropHolds(r, pnl) ==
    /\ pnl # NoPnl
    /\ pnl <= r.pendingDropCurrent + DropTolerance
    /\ r.pendingDropPeak - pnl >= DropPct

HasPendingDrop(r) ==
    r.status = "open" /\ r.pendingDropCurrent # NoPnl /\ r.pendingDropPeak # NoPnl

ConfirmsDrop(r, pnl) == HasPendingDrop(r) /\ DropHolds(r, pnl)

resolvePendingTrailingDrop(r, pnl) ==
    IF ~HasPendingDrop(r) THEN r
    ELSE [r EXCEPT !.pendingDropPeak = NoPnl, !.pendingDropCurrent = NoPnl,
                   !.confirmedExit = @ \/ DropHolds(r, pnl)]

-----------------------------------------------------------------------------
(* updatePnlAndCheckExits: the record it leaves and the exit it returns.   *)

\* Mutant: a peak still waiting for its recheck arms the trailing stop.
UpdatedRecord_unconfirmed(r, d) ==
    IF r.status # "open" THEN r
    ELSE IF r.confirmedExit THEN [r EXCEPT !.confirmedExit = FALSE]
    ELSE [r EXCEPT !.trailingActive =
                        \/ @
                        \/ TrailingOn /\ r.peak >= TriggerPct
                        \/ r.pendingPeak # NoPnl /\ r.pendingPeak >= TriggerPct,
                   !.outOfRange = d.oor]

UpdatedRecord(r, d) ==
    IF r.status # "open" THEN r
    ELSE IF r.confirmedExit THEN [r EXCEPT !.confirmedExit = FALSE]
    ELSE [r EXCEPT !.trailingActive = @ \/ (TrailingOn /\ r.peak >= TriggerPct),
                   !.outOfRange = d.oor]

AtStopLoss(d) == ~d.suspicious /\ d.pnl # NoPnl /\ d.pnl <= StopLossPct

\* JavaScript computes peak - null as peak - 0.
Dropped(r, d) ==
    /\ ~d.suspicious
    /\ r.trailingActive
    /\ r.peak - (IF d.pnl = NoPnl THEN 0 ELSE d.pnl) >= DropPct

\* Mutant: the trailing drop is looked at before the stop loss.
CheckExits_dropFirst(r, d) ==
    LET u == UpdatedRecord(r, d) IN
    CASE r.status # "open" -> "NONE"
      [] r.status = "open" /\ r.confirmedExit -> "TRAILING_TP"
      [] OTHER ->
           IF Dropped(u, d)
                THEN IF d.pnl = NoPnl THEN "THROWS" ELSE "TRAILING_DROP"
           ELSE IF AtStopLoss(d) THEN "STOP_LOSS"
           ELSE IF u.outOfRange /\ d.waited THEN "OUT_OF_RANGE"
           ELSE IF d.lowYield THEN "LOW_YIELD"
           ELSE "NONE"

CheckExits(r, d) ==
    LET u == UpdatedRecord(r, d) IN
    CASE r.status # "open" -> "NONE"
      [] r.status = "open" /\ r.confirmedExit -> "TRAILING_TP"
      [] OTHER ->
           IF AtStopLoss(d) THEN "STOP_LOSS"
           ELSE IF Dropped(u, d)
                \* the reason string calls null.toFixed(2)
                THEN IF d.pnl = NoPnl THEN "THROWS" ELSE "TRAILING_DROP"
           ELSE IF u.outOfRange /\ d.waited THEN "OUT_OF_RANGE"
           ELSE IF d.lowYield THEN "LOW_YIELD"
           ELSE "NONE"

\* getDeterministicCloseRule: rule 1 (stop loss), rule 2 (take profit), 3 to 5.
DeterministicCloseRule(r, d) ==
    \/ /\ d.pnl # NoPnl
       /\ ~(d.pnl <= -90 /\ r.status # "untracked" /\ d.valued)
       /\ d.pnl <= StopLossPct \/ d.pnl >= TakeProfitPct
    \/ d.binRule

-----------------------------------------------------------------------------
(* The body both loops of index.js run for one listed position.            *)

ArmsPeak(r, d) == ~Relay /\ ~d.suspicious /\ QueuesPeak(r, d.pnl)

AfterPeak(r, d) == IF d.suspicious THEN r ELSE queuePeakConfirmation(r, d.pnl)

ExitOf(r, d) == CheckExits(AfterPeak(r, d), d)

NeedsRecheck(r, d) == ExitOf(r, d) = "TRAILING_DROP" /\ ~Relay

ArmsDrop(r, d) ==
    NeedsRecheck(r, d) /\ QueuesDrop(UpdatedRecord(AfterPeak(r, d), d), d.pnl)

Handled(r, d) ==
    LET u == UpdatedRecord(AfterPeak(r, d), d)
    IN  IF NeedsRecheck(r, d) THEN queueTrailingDropConfirmation(u, d.pnl) ELSE u

-----------------------------------------------------------------------------
(* What a trailing exit that is pending or confirmed rests on. *)

EvidenceOf(r) ==
    /\ r.trailingActive => r.peak >= TriggerPct
    /\ r.confirmedExit => r.trailingActive
    /\ r.pendingDropPeak = NoPnl <=> r.pendingDropCurrent = NoPnl
    /\ r.pendingDropPeak # NoPnl =>
          /\ r.trailingActive
          /\ r.pendingDropPeak <= r.peak
          /\ r.pendingDropPeak - r.pendingDropCurrent >= DropPct
    /\ r.pendingPeak # NoPnl => r.pendingPeak > r.peak
=============================================================================
