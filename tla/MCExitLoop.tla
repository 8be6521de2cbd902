----------------------------- MODULE MCExitLoop -----------------------------
(***************************************************************************)
(* Small instances of ExitLoop for TLC.  Trailing stops arm at 3% and exit *)
(* 2% below the peak; the stop loss is -50% and the take profit 20%.       *)
(***************************************************************************)
EXTENDS ExitLoop

Plain ==
    [pnl |-> 0, suspicious |-> FALSE, oor |-> FALSE, waited |-> FALSE,
     lowYield |-> FALSE, valued |-> TRUE, binRule |-> FALSE,
     instructed |-> FALSE, claimable |-> FALSE]

At(x) == [Plain EXCEPT !.pnl = x]

\* A peak and a fall back to zero.
Swing == {At(0), At(10)}

\* The same, and a collapse.
Falls == Swing \cup {[At(-60) EXCEPT !.instructed = TRUE]}

\* The same, and a missing PnL.
Losses == Falls \cup {At(NoPnl)}

\* Rising to a peak, falling back from it, and a collapse.
Ticks == Falls \cup {At(9)}

\* A peak, a fall, a collapse, a missing PnL and a rule of the management.
Reasons ==
    {At(0), At(10), At(-60), At(NoPnl),
     [At(0) EXCEPT !.lowYield = TRUE, !.claimable = TRUE]}

\* Readings whose PnL is missing among them.
Gaps == {At(0), At(5), At(-60), At(NoPnl)}

MinusFifty == -50
=============================================================================
