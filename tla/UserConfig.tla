------------------------------ MODULE UserConfig ------------------------------
(***************************************************************************)
(* user-config.json and the settings in memory (config.js): how the file   *)
(* is loaded, what update_config of tools/executor.js, the settings menu   *)
(* of index.js, the evolution of lessons.js, the agent id of hivemind.js   *)
(* and the reload make of both.  Operators only; Settings composes them.   *)
(*                                                                         *)
(* Of the settings those are kept that are derived from one another,       *)
(* renamed, clamped or written by several modules.  SOL amounts are in     *)
(* thousandths, timeframes in hours, ratios and shares in percent.         *)
(***************************************************************************)
EXTENDS Integers

CONSTANTS
    Absent,     \* a key the file does not have
    Null,       \* JSON null
    Text        \* a value of the wrong type

ASSUME ConfigConstants ==
    Absent \notin Int /\ Null \notin Int /\ Text \notin Int

MIN_SAFE_BINS_BELOW == 35

BinKeys == {"binsBelow", "minBinsBelow", "maxBinsBelow", "defaultBinsBelow"}
ConfigKeys == BinKeys \cup
    {"minOrganic", "timeframe", "minVolume", "minFeeActiveTvlRatio",
     "takeProfitPct", "takeProfitFeePct", "deployAmountSol", "gasReserve",
     "maxDeployAmount", "minSolToOpen", "positionSizePct", "executionMode",
     "agentId"}
\* Keys that update_config does not know.
OtherKeys == {"walletKey", "dryRun"}
FileKeys == ConfigKeys \cup OtherKeys

BinFields == {"minBins", "maxBins", "defaultBins"}

\* CONFIG_MAP: the field of a key, and the key it is saved under.
FieldOf ==
    [k \in ConfigKeys |->
        CASE k \in {"binsBelow", "maxBinsBelow"} -> "maxBins"
          [] k = "minBinsBelow" -> "minBins"
          [] k = "defaultBinsBelow" -> "defaultBins"
          [] k = "takeProfitFeePct" -> "takeProfitPct"
          [] OTHER -> k]
SavedAs(k) == IF k = "binsBelow" THEN "maxBinsBelow" ELSE k
Fields == {FieldOf[k] : k \in ConfigKeys}

AtLeast(a, b) == IF a >= b THEN a ELSE b
AtMost(a, b) == IF a <= b THEN a ELSE b

\* a ?? b
Or(a, b) == IF a \in {Absent, Null} THEN b ELSE a

-----------------------------------------------------------------------------
(* config.js *)

\* numericConfig: Number(null) is 0, and no number at all gives null.
IsNumeric(v) == v \notin {Absent, Text}
Numeric(v) == IF v = Null THEN 0 ELSE v
NumericOr(v, d) == IF IsNumeric(v) THEN Numeric(v) ELSE d

\* Mutant: the default is clamped by the configured maximum only.
SettleBins_noLowerClamp(lo, hi, d) ==
    LET min == AtLeast(MIN_SAFE_BINS_BELOW, lo)
        max == AtLeast(min, hi)
    IN  [minBins |-> min, maxBins |-> max, defaultBins |-> AtMost(max, d)]

\* The lower bound is at least the safe one, and the default lies between the
\* bounds.
SettleBins(lo, hi, d) ==
    LET min == AtLeast(MIN_SAFE_BINS_BELOW, lo)
        max == AtLeast(min, hi)
    IN  [minBins |-> min, maxBins |-> max,
         defaultBins |-> AtLeast(min, AtMost(max, d))]

LoadBins(f) ==
    LET lo == NumericOr(f["minBinsBelow"], MIN_SAFE_BINS_BELOW)
        hi == NumericOr(f["maxBinsBelow"],
                IF IsNumeric(f["binsBelow"])
                THEN AtLeast(Numeric(f["binsBelow"]), lo) ELSE 69)
    IN  SettleBins(lo, hi,
            NumericOr(f["defaultBinsBelow"], NumericOr(f["binsBelow"], hi)))

Defaults ==
    [minOrganic |-> 60, timeframe |-> 0, minVolume |-> 500,
     minFeeActiveTvlRatio |-> 5, deployAmountSol |-> 500, gasReserve |-> 200,
     maxDeployAmount |-> 50000, minSolToOpen |-> 550, positionSizePct |-> 35,
     executionMode |-> "scanner", agentId |-> Null]

\* The settings of a process that starts with the file f.
Load(f) ==
    LET bins == LoadBins(f) IN
    [x \in Fields |->
        CASE x \in BinFields -> bins[x]
          [] x = "takeProfitPct" ->
                Or(f["takeProfitPct"], Or(f["takeProfitFeePct"], 5))
          [] OTHER -> Or(f[x], Defaults[x])]

ScreeningFields == {"minOrganic", "timeframe", "minVolume", "minFeeActiveTvlRatio"}

\* reloadScreeningThresholds: the screening settings and the bins only; what
\* the file does not have is left as it is.
Reload(live, f) ==
    LET hi == NumericOr(f["maxBinsBelow"],
                NumericOr(f["binsBelow"], live["maxBins"]))
        bins == SettleBins(
                    NumericOr(f["minBinsBelow"], live["minBins"]), hi,
                    NumericOr(f["defaultBinsBelow"],
                        NumericOr(f["binsBelow"], live["defaultBins"])))
    IN [x \in Fields |->
        CASE x \in BinFields -> bins[x]
          [] x \in ScreeningFields -> Or(f[x], live[x])
          [] OTHER -> live[x]]

-----------------------------------------------------------------------------
(* update_config *)

\* One value of the wrong type makes the whole call fail.
Acceptable(ch) == \A k \in DOMAIN ch \cap ConfigKeys : ch[k] # Text

Normal(k, v) ==
    IF k \in BinKeys THEN AtLeast(MIN_SAFE_BINS_BELOW, Numeric(v)) ELSE v

\* Keys it does not know are reported and left out.
Known(ch) == [k \in DOMAIN ch \cap ConfigKeys |-> Normal(k, ch[k])]

\* normalizeTimeframe and what goes with a timeframe: 0 is 5m, what it does not
\* know becomes 4h.
Scaled(volume, ratio) == [minVolume |-> volume, minFeeActiveTvlRatio |-> ratio]
Scales ==
    [h \in {0, 4, 24} |->
        CASE h = 0 -> Scaled(500, 2) [] h = 4 -> Scaled(2000, 40)
          [] OTHER -> Scaled(10000, 200)]
ScaledKeys == {"minVolume", "minFeeActiveTvlRatio"}
ScaledTimeframe(h) == IF h \in DOMAIN Scales THEN h ELSE 4

Given(a, k) == k \in DOMAIN a /\ a[k] # Null

\* What is applied: a new timeframe brings its own floors along, unless one of
\* them was given.
Applied(ch) ==
    LET a == Known(ch) IN
    IF Given(a, "timeframe") /\ ~ \E k \in ScaledKeys : Given(a, k)
    THEN LET h == ScaledTimeframe(a["timeframe"]) IN
         [k \in DOMAIN a \cup ScaledKeys |->
             CASE k = "timeframe" -> h
               [] k \in ScaledKeys -> Scales[h][k]
               [] OTHER -> a[k]]
    ELSE a

Apply(live, a) ==
    LET new == [x \in Fields |->
                  IF \E k \in DOMAIN a : FieldOf[k] = x
                  THEN a[CHOOSE k \in DOMAIN a : FieldOf[k] = x]
                  ELSE live[x]]
        bins == SettleBins(new["minBins"], new["maxBins"], new["defaultBins"])
    IN  IF DOMAIN a \cap BinKeys = {} THEN new
        ELSE [x \in Fields |-> IF x \in BinFields THEN bins[x] ELSE new[x]]

\* Mutant: the values that go with a timeframe are not saved.
Persist_unscaled(f, a) ==
    [k \in FileKeys |->
        IF k \notin ScaledKeys /\ \E c \in DOMAIN a : SavedAs(c) = k
        THEN a[CHOOSE c \in DOMAIN a : SavedAs(c) = k]
        ELSE f[k]]

\* Mutant: what the file held is not read back.
Persist_onlyApplied(f, a) ==
    [k \in FileKeys |->
        IF \E c \in DOMAIN a : SavedAs(c) = k
        THEN a[CHOOSE c \in DOMAIN a : SavedAs(c) = k]
        ELSE Absent]

Persist(f, a) ==
    [k \in FileKeys |->
        IF \E c \in DOMAIN a : SavedAs(c) = k
        THEN a[CHOOSE c \in DOMAIN a : SavedAs(c) = k]
        ELSE f[k]]

\* The value a step of the settings menu asks for.
MenuValue(k, v) ==
    IF k \in BinKeys THEN AtLeast(MIN_SAFE_BINS_BELOW, v) ELSE AtLeast(0, v)

-----------------------------------------------------------------------------
(* evolveThresholds *)

\* nudge by at most a fifth, round, clamp(60, 90): the organic floor after
\* losers were clearly less organic than winners, the worst of whom had w.
Nudge(current, target) ==
    IF 5 * (target - current) <= current THEN target
    ELSE (12 * current + 5) \div 10
EvolvedOrganic(current, w) ==
    LET target == AtLeast(w - 3, current) IN
    AtLeast(60, AtMost(90, Nudge(current, target)))
=============================================================================
