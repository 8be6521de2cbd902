---------------------------- MODULE SignalWeights ----------------------------
(***************************************************************************)
(* signal-weights.json (signal-weights.js): how much each screening signal *)
(* is to count, in thousandths, raised by a twentieth for the signals that *)
(* set winners apart best and lowered for those that do so least.          *)
(***************************************************************************)
EXTENDS Integers, FiniteSets, Sequences

CONSTANTS
    Signals,        \* SIGNAL_NAMES
    MinSamples,     \* darwin.minSamples
    WeightFloor,    \* darwin.weightFloor, in thousandths
    WeightCeiling   \* darwin.weightCeiling, in thousandths

ASSUME WeightConstants ==
    /\ MinSamples \in Nat
    /\ WeightFloor \in Nat /\ WeightCeiling \in Nat
    /\ WeightFloor <= 1000 /\ 1000 <= WeightCeiling

DefaultWeights == [s \in Signals |-> 1000]

\* Mutant: rounded, never cut off.
Boosted_uncapped(w) == (105 * w + 50) \div 100

\* Math.round of a product with 1.05 or 0.95, in thousandths
Boosted(w) == LET b == (105 * w + 50) \div 100 IN
              IF b > WeightCeiling THEN WeightCeiling ELSE b
Decayed(w) == LET d == (95 * w + 50) \div 100 IN
              IF d < WeightFloor THEN WeightFloor ELSE d

\* The lifts of the records in the window: any order of the signals that had
\* samples enough.  Which signal separates winners from losers is not modelled.
Rankings == UNION {{r \in [1..n -> Signals] : \A i, j \in 1..n : r[i] = r[j] => i = j}
                   : n \in 1..Cardinality(Signals)}
CanRank(wins, losses) == wins + losses >= MinSamples /\ wins > 0 /\ losses > 0

\* The first and the last quarter; with one signal it is in both, and first.
TopQuarter(r) == {r[i] : i \in 1..((Len(r) + 3) \div 4)}
BottomQuarter(r) == {r[i] : i \in ((3 * Len(r)) \div 4 + 1)..Len(r)}

recalculateWeights(weights, r) ==
    [s \in Signals |-> IF s \in TopQuarter(r) THEN Boosted(weights[s])
                       ELSE IF s \in BottomQuarter(r) THEN Decayed(weights[s])
                       ELSE weights[s]]
=============================================================================
