----------------------------- MODULE Indicators -----------------------------
(***************************************************************************)
(* chart-indicators.js as screening uses it, on the entry side: what a     *)
(* preset makes of one interval's reading, and of several intervals of     *)
(* which some did not answer.                                              *)
(***************************************************************************)
EXTENDS FiniteSets

CONSTANTS
    EntryPreset,    \* config.indicators.entryPreset
    Intervals,      \* the normalised intervals asked for
    RequireAll      \* config.indicators.requireAllIntervals

\* A reading, by the comparisons that presets make; an absent number makes
\* its comparison false.
Readings ==
    [flipped : BOOLEAN, bullish : BOOLEAN, aboveTrend : BOOLEAN,
     oversold : BOOLEAN, belowBand : BOOLEAN,
     reclaimed : BOOLEAN, \* crossed a level upwards
     rejected : BOOLEAN]  \* crossed the 0.5 or the 0.618 level downwards

evaluatePreset(preset, r) ==
    LET trend == r.flipped \/ (r.bullish /\ r.aboveTrend)
    IN  \/ preset = "supertrend_break" /\ trend
        \/ preset = "rsi_reversal" /\ r.oversold
        \/ preset = "bollinger_reversion" /\ r.belowBand
        \/ preset = "rsi_plus_supertrend" /\ r.oversold /\ (r.flipped \/ r.bullish)
        \/ preset = "supertrend_or_rsi" /\ (trend \/ r.oversold)
        \/ preset = "bb_plus_rsi" /\ r.belowBand /\ r.oversold
        \/ preset = "fibo_reclaim" /\ r.reclaimed
        \/ preset = "fibo_reject" /\ r.rejected

\* What is confirmed when the intervals of "answered" answered with those
\* readings: with no answer at all screening goes by its other filters.
confirmIndicatorPreset(answered) ==
    LET ok == {i \in DOMAIN answered : evaluatePreset(EntryPreset, answered[i])}
    IN  \/ DOMAIN answered = {}
        \/ IF RequireAll THEN ok = DOMAIN answered ELSE ok # {}

\* Every verdict the intervals can lead to.
Verdicts ==
    {confirmIndicatorPreset(a) : a \in UNION {[I -> Readings] : I \in SUBSET Intervals}}
=============================================================================
