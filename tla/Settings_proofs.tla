--------------------------- MODULE Settings_proofs ---------------------------
(***************************************************************************)
(* Proofs about Settings for all changes, edits, files and environments:   *)
(* the bins stay in order, a restart brings back the plain settings,       *)
(* no transaction of a deploy leaves that the mode gate had not let        *)
(* through, no writer drops another's keys, and the gates fit together.    *)
(***************************************************************************)
EXTENDS Settings, TLAPS

Numbers == Int \cup {Absent, Null}
NumberKeys == FileKeys \ {"executionMode", "walletKey", "agentId", "dryRun"}

\* What update_config applies, of the settings it knows.
IsApplied(a) ==
    /\ DOMAIN a \subseteq ConfigKeys
    /\ \A k \in DOMAIN a : a[k] \in KeyValues(k) /\ a[k] # Absent
    /\ \A k \in DOMAIN a \cap BinKeys : a[k] \in Int

IsLive(l) ==
    /\ l = [x \in Fields |-> l[x]]
    /\ \A x \in BinFields : l[x] \in Int
    /\ \A x \in {"minOrganic", "deployAmountSol"} : l[x] \in Int \cup {Null}

Ordered(l) ==
    /\ MIN_SAFE_BINS_BELOW <= l["minBins"]
    /\ l["minBins"] <= l["defaultBins"]
    /\ l["defaultBins"] <= l["maxBins"]

Kept(f, l) == \A x \in PlainFields : Load(f)[x] = l[x]

-----------------------------------------------------------------------------
(* Keys and fields *)

LEMMA ConfigKeysAre ==
    ConfigKeys = {"binsBelow", "minBinsBelow", "maxBinsBelow", "defaultBinsBelow",
                  "minOrganic", "timeframe", "minVolume", "minFeeActiveTvlRatio",
                  "takeProfitPct", "takeProfitFeePct", "deployAmountSol",
                  "gasReserve", "maxDeployAmount", "minSolToOpen",
                  "positionSizePct", "executionMode", "agentId"}
  BY DEF ConfigKeys, BinKeys

LEMMA FileKeysAre ==
    FileKeys = {"binsBelow", "minBinsBelow", "maxBinsBelow", "defaultBinsBelow",
                "minOrganic", "timeframe", "minVolume", "minFeeActiveTvlRatio",
                "takeProfitPct", "takeProfitFeePct", "deployAmountSol",
                "gasReserve", "maxDeployAmount", "minSolToOpen",
                "positionSizePct", "executionMode", "agentId",
                "walletKey", "dryRun"}
  BY ConfigKeysAre DEF FileKeys, OtherKeys

\* The field of every key.
LEMMA FieldsOfKeys ==
    /\ FieldOf["binsBelow"] = "maxBins" /\ FieldOf["maxBinsBelow"] = "maxBins"
    /\ FieldOf["minBinsBelow"] = "minBins" /\ FieldOf["defaultBinsBelow"] = "defaultBins"
    /\ FieldOf["takeProfitFeePct"] = "takeProfitPct"
    /\ \A k \in ConfigKeys \ (BinKeys \cup {"takeProfitFeePct"}) : FieldOf[k] = k
  BY ConfigKeysAre DEF FieldOf, BinKeys

LEMMA FieldsAre ==
    Fields = {"minBins", "maxBins", "defaultBins", "minOrganic", "timeframe",
              "minVolume", "minFeeActiveTvlRatio", "takeProfitPct",
              "deployAmountSol", "gasReserve", "maxDeployAmount", "minSolToOpen",
              "positionSizePct", "executionMode", "agentId"}
  <1>1. \A x \in Fields : x \in {"minBins", "maxBins", "defaultBins", "minOrganic",
            "timeframe", "minVolume", "minFeeActiveTvlRatio", "takeProfitPct",
            "deployAmountSol", "gasReserve", "maxDeployAmount", "minSolToOpen",
            "positionSizePct", "executionMode", "agentId"}
    <2>1. SUFFICES ASSUME NEW k \in ConfigKeys
                   PROVE  FieldOf[k] \in {"minBins", "maxBins", "defaultBins",
                            "minOrganic", "timeframe", "minVolume",
                            "minFeeActiveTvlRatio", "takeProfitPct",
                            "deployAmountSol", "gasReserve", "maxDeployAmount",
                            "minSolToOpen", "positionSizePct", "executionMode",
                            "agentId"}
      BY DEF Fields
    <2>2. QED  BY FieldsOfKeys, ConfigKeysAre DEF BinKeys
  <1>2. /\ \A k \in ConfigKeys : FieldOf[k] \in Fields
        /\ {"binsBelow", "minBinsBelow", "defaultBinsBelow"} \subseteq ConfigKeys
    BY ConfigKeysAre DEF Fields
  <1>3. /\ "minBins" \in Fields /\ "maxBins" \in Fields /\ "defaultBins" \in Fields
    BY <1>2, FieldsOfKeys
  <1>4. \A k \in ConfigKeys \ (BinKeys \cup {"takeProfitFeePct"}) : k \in Fields
    BY <1>2, FieldsOfKeys
  <1>5. QED  BY <1>1, <1>3, <1>4, ConfigKeysAre DEF BinKeys

LEMMA PlainFieldsAre ==
    /\ PlainFields = {"minOrganic", "timeframe", "minVolume",
                      "minFeeActiveTvlRatio", "deployAmountSol", "gasReserve",
                      "maxDeployAmount", "minSolToOpen", "positionSizePct",
                      "executionMode", "agentId"}
    /\ PlainFields \subseteq ConfigKeys /\ PlainFields \subseteq FileKeys
  BY FieldsAre, ConfigKeysAre, FileKeysAre DEF PlainFields, BinFields

\* A plain field belongs to one key, saved under its own name.
LEMMA OneKey ==
    ASSUME NEW x \in PlainFields, NEW k \in ConfigKeys
    PROVE  /\ FieldOf[k] = x <=> k = x
           /\ SavedAs(k) = x <=> k = x
  BY PlainFieldsAre, FieldsOfKeys, ConfigKeysAre DEF SavedAs, BinKeys

\* The fields of the bins belong to the keys of the bins.
LEMMA BinKeysOnly ==
    ASSUME NEW x \in BinFields, NEW k \in ConfigKeys, FieldOf[k] = x
    PROVE  k \in BinKeys
  BY FieldsOfKeys, ConfigKeysAre DEF BinKeys, BinFields

LEMMA NumberKeysAre ==
    /\ BinKeys \subseteq NumberKeys /\ NumberKeys \subseteq FileKeys
    /\ {"minOrganic", "timeframe", "minVolume", "minFeeActiveTvlRatio",
         "deployAmountSol"} \subseteq NumberKeys
    /\ \A k \in NumberKeys : KeyValues(k) = Numbers
  BY FileKeysAre DEF BinKeys, NumberKeys, KeyValues, Numbers

-----------------------------------------------------------------------------
(* Bins *)

LEMMA LoadsPlain ==
    ASSUME NEW f, NEW x \in PlainFields
    PROVE  Load(f)[x] = Or(f[x], Defaults[x])
  BY PlainFieldsAre, FieldsAre DEF Load, BinFields

\* Whatever the three numbers are, SettleBins puts them in order.
LEMMA SettledBins ==
    ASSUME NEW lo \in Int, NEW hi \in Int, NEW d \in Int
    PROVE  /\ Ordered(SettleBins(lo, hi, d))
           /\ \A x \in BinFields : SettleBins(lo, hi, d)[x] \in Int
  BY DEF SettleBins, Ordered, BinFields, AtLeast, AtMost, MIN_SAFE_BINS_BELOW

LEMMA NumericIsInt ==
    ASSUME NEW v \in Numbers, NEW d \in Int
    PROVE  NumericOr(v, d) \in Int
  BY ConfigConstants DEF Numbers, NumericOr, Numeric, IsNumeric

LEMMA AtLeastInt ==
    ASSUME NEW a \in Int, NEW b \in Int
    PROVE  AtLeast(a, b) \in Int /\ AtMost(a, b) \in Int
  BY DEF AtLeast, AtMost

LEMMA LoadedBins ==
    ASSUME NEW f, IsFile(f)
    PROVE  /\ IsLive(Load(f)) /\ Ordered(Load(f))
  <1>1. \A k \in BinKeys : f[k] \in Numbers
    BY NumberKeysAre DEF IsFile
  <1> DEFINE lo == NumericOr(f["minBinsBelow"], MIN_SAFE_BINS_BELOW)
             leg == IF IsNumeric(f["binsBelow"])
                    THEN AtLeast(Numeric(f["binsBelow"]), lo) ELSE 69
             hi == NumericOr(f["maxBinsBelow"], leg)
             d == NumericOr(f["defaultBinsBelow"], NumericOr(f["binsBelow"], hi))
  <1>2. lo \in Int
    BY <1>1, NumericIsInt DEF BinKeys, MIN_SAFE_BINS_BELOW
  <1>3. leg \in Int
    <2>1. f["binsBelow"] \in Numbers  BY <1>1 DEF BinKeys
    <2>2. CASE IsNumeric(f["binsBelow"])
      <3>1. Numeric(f["binsBelow"]) \in Int
        BY <2>1, <2>2, ConfigConstants DEF IsNumeric, Numeric, Numbers
      <3>2. QED  BY <3>1, <2>2, <1>2, AtLeastInt
    <2>3. QED  BY <2>2
  <1>4. hi \in Int
    BY <1>1, <1>3, NumericIsInt DEF BinKeys
  <1>5. d \in Int
    BY <1>1, <1>4, NumericIsInt DEF BinKeys
  <1>6. LoadBins(f) = SettleBins(lo, hi, d)
    BY DEF LoadBins
  <1>7. \A x \in BinFields : Load(f)[x] = SettleBins(lo, hi, d)[x]
    BY <1>6, FieldsAre DEF Load, BinFields
  <1>8. Load(f) = [x \in Fields |-> Load(f)[x]]
    BY DEF Load
  <1>9. \A x \in {"minOrganic", "deployAmountSol"} : Load(f)[x] \in Int
    <2>1. \A x \in {"minOrganic", "deployAmountSol"} :
             f[x] \in Numbers /\ Load(f)[x] = Or(f[x], Defaults[x]) /\ Defaults[x] \in Int
      BY NumberKeysAre, FieldsAre DEF IsFile, Load, BinFields, Defaults
    <2>2. QED  BY <2>1 DEF Or, Numbers
  <1>10. /\ Ordered(SettleBins(lo, hi, d))
         /\ \A x \in BinFields : SettleBins(lo, hi, d)[x] \in Int
    BY <1>2, <1>4, <1>5, SettledBins
  <1>11. Ordered(Load(f))
    BY <1>7, <1>10 DEF Ordered, BinFields
  <1>12. QED  BY <1>7, <1>8, <1>9, <1>10, <1>11 DEF IsLive

LEMMA ReloadedBins ==
    ASSUME NEW f, IsFile(f), NEW l, IsLive(l)
    PROVE  /\ IsLive(Reload(l, f)) /\ Ordered(Reload(l, f))
  <1>1. \A k \in BinKeys : f[k] \in Numbers
    BY NumberKeysAre DEF IsFile
  <1> DEFINE lo == NumericOr(f["minBinsBelow"], l["minBins"])
             hi == NumericOr(f["maxBinsBelow"], NumericOr(f["binsBelow"], l["maxBins"]))
             d == NumericOr(f["defaultBinsBelow"],
                            NumericOr(f["binsBelow"], l["defaultBins"]))
  <1>2. lo \in Int /\ hi \in Int /\ d \in Int
    BY <1>1, NumericIsInt DEF BinKeys, BinFields, IsLive
  <1>3. \A x \in BinFields : Reload(l, f)[x] = SettleBins(lo, hi, d)[x]
    BY FieldsAre DEF Reload, BinFields, ScreeningFields
  <1>4. Reload(l, f) = [x \in Fields |-> Reload(l, f)[x]]
    BY DEF Reload
  <1>5. /\ Reload(l, f)["minOrganic"] = Or(f["minOrganic"], l["minOrganic"])
        /\ Reload(l, f)["deployAmountSol"] = l["deployAmountSol"]
    BY FieldsAre DEF Reload, BinFields, ScreeningFields
  <1>6. f["minOrganic"] \in Numbers
    BY NumberKeysAre DEF IsFile
  <1>7. \A x \in {"minOrganic", "deployAmountSol"} : Reload(l, f)[x] \in Int \cup {Null}
    BY <1>5, <1>6 DEF Or, Numbers, IsLive
  <1>8. /\ Ordered(SettleBins(lo, hi, d))
        /\ \A x \in BinFields : SettleBins(lo, hi, d)[x] \in Int
    BY <1>2, SettledBins
  <1>9. Ordered(Reload(l, f))
    BY <1>3, <1>8 DEF Ordered, BinFields
  <1>10. QED  BY <1>3, <1>4, <1>7, <1>8, <1>9 DEF IsLive

-----------------------------------------------------------------------------
(* update_config *)

LEMMA AppliedTyped ==
    ASSUME NEW ch, Acceptable(ch),
           \A k \in DOMAIN ch \cap ConfigKeys :
               ch[k] = Text \/ (ch[k] \in KeyValues(k) /\ ch[k] # Absent)
    PROVE  IsApplied(Applied(ch))
  <1> DEFINE a == Known(ch)
  <1>1. /\ DOMAIN a = DOMAIN ch \cap ConfigKeys
        /\ \A k \in DOMAIN a : a[k] = Normal(k, ch[k])
    BY DEF Known
  <1>2. \A k \in DOMAIN a : ch[k] \in KeyValues(k) /\ ch[k] # Absent
    BY <1>1 DEF Acceptable
  <1>3. \A k \in DOMAIN a \cap BinKeys : a[k] \in Int
    <2>1. SUFFICES ASSUME NEW k \in DOMAIN a \cap BinKeys PROVE a[k] \in Int
      OBVIOUS
    <2>2. ch[k] \in Int \cup {Null}
      BY <1>2, NumberKeysAre DEF Numbers
    <2>3. Numeric(ch[k]) \in Int
      BY <2>2 DEF Numeric
    <2>4. MIN_SAFE_BINS_BELOW \in Int  BY DEF MIN_SAFE_BINS_BELOW
    <2>5. QED  BY <2>3, <2>4, <1>1, AtLeastInt DEF Normal
  <1>4. \A k \in DOMAIN a : a[k] \in KeyValues(k) /\ a[k] # Absent
    <2>1. SUFFICES ASSUME NEW k \in DOMAIN a PROVE a[k] \in KeyValues(k) /\ a[k] # Absent
      OBVIOUS
    <2>2. CASE k \in BinKeys
      BY <1>3, <2>2, NumberKeysAre, ConfigConstants DEF Numbers
    <2>3. CASE k \notin BinKeys
      BY <1>1, <1>2, <2>3 DEF Normal
    <2>4. QED  BY <2>2, <2>3
  <1>5. IsApplied(a)
    BY <1>1, <1>3, <1>4 DEF IsApplied
  <1>6. CASE ~(Given(a, "timeframe") /\ ~ \E k \in ScaledKeys : Given(a, k))
    BY <1>5, <1>6 DEF Applied
  <1>7. CASE Given(a, "timeframe") /\ ~ \E k \in ScaledKeys : Given(a, k)
    <2> DEFINE h == ScaledTimeframe(a["timeframe"])
               b == [k \in DOMAIN a \cup ScaledKeys |->
                       CASE k = "timeframe" -> h
                         [] k \in ScaledKeys -> Scales[h][k]
                         [] OTHER -> a[k]]
    <2>1. Applied(ch) = b  BY <1>7 DEF Applied
    <2>2. h \in {0, 4, 24}  BY DEF ScaledTimeframe, Scales
    <2>3. \A k \in ScaledKeys : Scales[h][k] \in Int
      BY <2>2 DEF Scales, Scaled, ScaledKeys
    <2>4. DOMAIN b \subseteq ConfigKeys
      BY <1>5, ConfigKeysAre DEF IsApplied, ScaledKeys
    <2>5. \A k \in DOMAIN b : \/ k = "timeframe" /\ b[k] = h
                              \/ k \in ScaledKeys /\ b[k] = Scales[h][k]
                              \/ k \in DOMAIN a /\ b[k] = a[k]
      OBVIOUS
    <2>6. /\ h \in Int /\ KeyValues("timeframe") = Numbers
          /\ \A k \in ScaledKeys : KeyValues(k) = Numbers
      BY <2>2, NumberKeysAre DEF ScaledKeys
    <2>7. \A k \in DOMAIN b : b[k] \in KeyValues(k) /\ b[k] # Absent
      BY <2>3, <2>5, <2>6, <1>4, ConfigConstants DEF Numbers
    <2>8. \A k \in DOMAIN b \cap BinKeys : b[k] \in Int
      BY <2>3, <2>5, <2>6, <1>3
    <2>9. QED  BY <2>1, <2>4, <2>7, <2>8 DEF IsApplied
  <1>8. QED  BY <1>6, <1>7

\* A plain setting is replaced by what was applied under its name.
LEMMA PlainApplied ==
    ASSUME NEW l, NEW a, IsApplied(a), NEW x \in PlainFields
    PROVE  Apply(l, a)[x] = IF x \in DOMAIN a THEN a[x] ELSE l[x]
  <1> DEFINE new == [y \in Fields |->
                  IF \E k \in DOMAIN a : FieldOf[k] = y
                  THEN a[CHOOSE k \in DOMAIN a : FieldOf[k] = y]
                  ELSE l[y]]
  <1>1. x \in Fields /\ x \notin BinFields
    BY DEF PlainFields
  <1>2. \A k \in DOMAIN a : FieldOf[k] = x <=> k = x
    BY OneKey DEF IsApplied
  <1>3. new[x] = IF x \in DOMAIN a THEN a[x] ELSE l[x]
    <2>1. CASE x \in DOMAIN a
      <3>1. \E k \in DOMAIN a : FieldOf[k] = x  BY <1>2, <2>1
      <3>2. (CHOOSE k \in DOMAIN a : FieldOf[k] = x) = x  BY <1>2, <3>1
      <3>3. QED  BY <1>1, <2>1, <3>1, <3>2
    <2>2. CASE x \notin DOMAIN a
      <3>1. ~ \E k \in DOMAIN a : FieldOf[k] = x  BY <1>2, <2>2
      <3>2. QED  BY <1>1, <2>2, <3>1
    <2>3. QED  BY <2>1, <2>2
  <1>4. Apply(l, a)[x] = new[x]
    BY <1>1 DEF Apply
  <1>5. QED  BY <1>3, <1>4

\* The same in the file.
LEMMA PlainPersisted ==
    ASSUME NEW f, NEW a, IsApplied(a), NEW x \in PlainFields
    PROVE  Persist(f, a)[x] = IF x \in DOMAIN a THEN a[x] ELSE f[x]
  <1>1. x \in FileKeys  BY PlainFieldsAre
  <1>2. \A k \in DOMAIN a : SavedAs(k) = x <=> k = x
    BY OneKey DEF IsApplied
  <1>3. CASE x \in DOMAIN a
    <2>1. \E k \in DOMAIN a : SavedAs(k) = x  BY <1>2, <1>3
    <2>2. (CHOOSE k \in DOMAIN a : SavedAs(k) = x) = x  BY <1>2, <2>1
    <2>3. QED  BY <1>1, <1>3, <2>1, <2>2 DEF Persist
  <1>4. CASE x \notin DOMAIN a
    <2>1. ~ \E k \in DOMAIN a : SavedAs(k) = x  BY <1>2, <1>4
    <2>2. QED  BY <1>1, <1>4, <2>1 DEF Persist
  <1>5. QED  BY <1>3, <1>4

LEMMA AppliedBins ==
    ASSUME NEW l, IsLive(l), Ordered(l), NEW a, IsApplied(a)
    PROVE  IsLive(Apply(l, a)) /\ Ordered(Apply(l, a))
  <1> DEFINE new == [y \in Fields |->
                  IF \E k \in DOMAIN a : FieldOf[k] = y
                  THEN a[CHOOSE k \in DOMAIN a : FieldOf[k] = y]
                  ELSE l[y]]
             bins == SettleBins(new["minBins"], new["maxBins"], new["defaultBins"])
  <1>1. BinFields \subseteq Fields  BY FieldsAre DEF BinFields
  <1>2. \A x \in BinFields : new[x] \in Int
    <2>1. SUFFICES ASSUME NEW x \in BinFields PROVE new[x] \in Int
      OBVIOUS
    <2>2. CASE \E k \in DOMAIN a : FieldOf[k] = x
      <3> DEFINE c == CHOOSE k \in DOMAIN a : FieldOf[k] = x
      <3>1. c \in DOMAIN a /\ FieldOf[c] = x  BY <2>2
      <3>2. c \in BinKeys  BY <3>1, BinKeysOnly DEF IsApplied
      <3>3. a[c] \in Int  BY <3>1, <3>2 DEF IsApplied
      <3>4. QED  BY <1>1, <2>2, <3>3
    <2>3. CASE ~ \E k \in DOMAIN a : FieldOf[k] = x
      BY <1>1, <2>3 DEF IsLive
    <2>4. QED  BY <2>2, <2>3
  <1>3. \A x \in {"minOrganic", "deployAmountSol"} : Apply(l, a)[x] \in Int \cup {Null}
    <2>1. SUFFICES ASSUME NEW x \in {"minOrganic", "deployAmountSol"}
                   PROVE  Apply(l, a)[x] \in Int \cup {Null}
      OBVIOUS
    <2>2. x \in PlainFields  BY PlainFieldsAre
    <2>3. x \in DOMAIN a => a[x] \in Int \cup {Null}
      BY NumberKeysAre DEF IsApplied, Numbers
    <2>4. QED  BY <2>2, <2>3, PlainApplied DEF IsLive
  <1>4. CASE DOMAIN a \cap BinKeys = {}
    <2>1. Apply(l, a) = new  BY <1>4 DEF Apply
    <2>2. \A x \in BinFields : new[x] = l[x]
      BY <1>1, <1>4, BinKeysOnly DEF IsApplied
    <2>3. QED
      BY <1>2, <1>3, <2>1, <2>2 DEF IsLive, Ordered, BinFields
  <1>5. CASE DOMAIN a \cap BinKeys # {}
    <2>1. Apply(l, a) = [x \in Fields |-> IF x \in BinFields THEN bins[x] ELSE new[x]]
      BY <1>5 DEF Apply
    <2>2. \A x \in BinFields : Apply(l, a)[x] = bins[x]
      BY <2>1, <1>1
    <2>3. Ordered(bins) /\ \A x \in BinFields : bins[x] \in Int
      BY <1>2, SettledBins DEF BinFields
    <2>4. Apply(l, a) = [x \in Fields |-> Apply(l, a)[x]]
      BY <2>1
    <2>5. Ordered(Apply(l, a))
      BY <2>2, <2>3 DEF Ordered, BinFields
    <2>6. QED  BY <1>3, <2>2, <2>3, <2>4, <2>5 DEF IsLive
  <1>6. QED  BY <1>4, <1>5

LEMMA PersistedFile ==
    ASSUME NEW f, IsFile(f), NEW a, IsApplied(a)
    PROVE  IsFile(Persist(f, a))
  <1>1. Persist(f, a) = [k \in FileKeys |-> Persist(f, a)[k]]
    BY DEF Persist
  <1>2. ASSUME NEW k \in FileKeys
        PROVE  Persist(f, a)[k] \in KeyValues(k)
    <2>1. CASE \E c \in DOMAIN a : SavedAs(c) = k
      <3> DEFINE c == CHOOSE c \in DOMAIN a : SavedAs(c) = k
      <3>1. c \in DOMAIN a /\ SavedAs(c) = k  BY <2>1
      <3>2. a[c] \in KeyValues(c)  BY <3>1 DEF IsApplied
      <3>3. KeyValues(c) = KeyValues(k)
        BY <3>1, FileKeysAre DEF SavedAs, KeyValues
      <3>4. QED  BY <2>1, <3>2, <3>3 DEF Persist
    <2>2. CASE ~ \E c \in DOMAIN a : SavedAs(c) = k
      BY <2>2 DEF Persist, IsFile
    <2>3. QED  BY <2>1, <2>2
  <1>3. QED  BY <1>1, <1>2 DEF IsFile

\* Unless a setting is cleared, file and memory take the same value.
LEMMA UpdateKeeps ==
    ASSUME NEW f, NEW l, Kept(f, l), NEW a, IsApplied(a), Clears(a) = {}
    PROVE  Kept(Persist(f, a), Apply(l, a))
  <1>1. SUFFICES ASSUME NEW x \in PlainFields
                 PROVE  Load(Persist(f, a))[x] = Apply(l, a)[x]
    BY DEF Kept
  <1>2. \A g : Load(g)[x] = Or(g[x], Defaults[x])
    BY LoadsPlain
  <1>3. CASE x \in DOMAIN a
    <2>1. a[x] # Null  BY <1>3 DEF Clears
    <2>2. a[x] # Absent  BY <1>3 DEF IsApplied
    <2>3. QED
      BY <1>2, <1>3, <2>1, <2>2, PlainPersisted, PlainApplied DEF Or
  <1>4. CASE x \notin DOMAIN a
    BY <1>2, <1>4, PlainPersisted, PlainApplied DEF Kept
  <1>5. QED  BY <1>3, <1>4

\* What a reload of evolved thresholds keeps: the file it reads is the one
\* that was saved, with the new organic floor in both.
LEMMA ReloadKeeps ==
    ASSUME NEW f, IsFile(f), NEW l, IsLive(l), Kept(f, l), NEW v \in Int
    PROVE  LET g == [f EXCEPT !["minOrganic"] = v]
           IN  Kept(g, Reload([l EXCEPT !["minOrganic"] = v], g))
  <1> DEFINE g == [f EXCEPT !["minOrganic"] = v]
             m == [l EXCEPT !["minOrganic"] = v]
  <1>1. SUFFICES ASSUME NEW x \in PlainFields
                 PROVE  Load(g)[x] = Reload(m, g)[x]
    BY DEF Kept
  <1>2. \A h : Load(h)[x] = Or(h[x], Defaults[x])
    BY LoadsPlain
  <1>3. x \in Fields /\ x \notin BinFields /\ x \in FileKeys
    BY PlainFieldsAre DEF PlainFields
  <1>4. Reload(m, g)[x] = IF x \in ScreeningFields
                          THEN Or(g[x], m[x]) ELSE m[x]
    BY <1>3 DEF Reload
  <1>5. CASE x = "minOrganic"
    <2>1. g[x] = v  BY <1>3, <1>5 DEF IsFile
    <2>2. v \notin {Absent, Null}  BY ConfigConstants
    <2>3. QED  BY <1>2, <1>4, <1>5, <2>1, <2>2 DEF Or, ScreeningFields
  <1>6. CASE x # "minOrganic"
    <2>1. g[x] = f[x]  BY <1>3, <1>6 DEF IsFile
    <2>2. m[x] = l[x]  BY <1>3, <1>6 DEF IsLive
    <2>3. l[x] = Or(f[x], Defaults[x])  BY <1>2 DEF Kept
    <2>4. Or(f[x], l[x]) = l[x]  BY <2>3 DEF Or
    <2>5. QED  BY <1>2, <1>4, <2>1, <2>2, <2>3, <2>4
  <1>7. QED  BY <1>5, <1>6

-----------------------------------------------------------------------------
(* The invariant *)

\* A process that finds its file torn has lost a write, or another wrote it.
TornIsDrift == up /\ file = Torn => drift \cap {"unwritten", "edited"} # {}

\* A deploy under way was checked under a gate that either let it through to
\* the chain or knew that it would not send.
DeployWasGated ==
    (call.tool = "deploy" /\ call.step # "none") =>
        (call.mode = "live" /\ penv.allow /\ penv.key) \/ DryRun(penv)

SentWasWet == call.step = "sent" => ~DryRun(penv)

\* A torn file and no file are no files.
LEMMA NotAFile ==
    ASSUME NEW f, IsFile(f)
    PROVE  f # Torn /\ f # NoFile
  <1>1. \A k \in FileKeys : f[k] \in Int \cup Texts \cup BOOLEAN \cup {Absent, Null}
    BY DEF IsFile, KeyValues
  <1>2. f \in [FileKeys -> Int \cup Texts \cup BOOLEAN \cup {Absent, Null}]
    BY <1>1 DEF IsFile
  <1>3. QED  BY <1>2, SettingsConstants

LEMMA TextsAreNone ==
    ASSUME NEW v \in Texts
    PROVE  v \notin {Absent, Null}
  BY SettingsConstants DEF Texts, Modes

LEMMA EmptyIsFile == IsFile(EmptyFile)
  BY DEF EmptyFile, IsFile, KeyValues

LEMMA ParsedIsFile == ASSUME TypeOK PROVE IsFile(Parsed)
  BY EmptyIsFile DEF TypeOK, Parsed

IsCall(c) ==
    c \in [tool : Tools \cup {"none"}, mode : Modes, step : {"none", "checked", "sent"}]

Marked(d) == d \subseteq Drifts
Bounded(n) == n \in 0..MaxChanges

StateTyped ==
    /\ file = Torn \/ IsFile(file)
    /\ seen = NoFile \/ IsFile(seen)
    /\ IsLive(live)
    /\ up \in BOOLEAN
    /\ IsCall(call)
    /\ Marked(drift)
    /\ Bounded(changes)
    /\ (~up => call = NoCall /\ drift = {})

MemoryKept ==
    up /\ drift \subseteq {"updated"} /\ file # Torn => Kept(file, live)

IInv ==
    /\ StateTyped /\ Ordered(live) /\ MemoryKept
    /\ TornIsDrift /\ DeployWasGated /\ SentWasWet

\* The properties follow from the invariant.
LEMMA InvImplies ==
    ASSUME IInv
    PROVE  TypeOK /\ BinsOrdered /\ RestartKeepsPlainSettings /\ SendsAreAllowed
  <1>1. TypeOK
    BY DEF IInv, TypeOK, StateTyped, IsLive, IsCall, Marked, Bounded
  <1>2. BinsOrdered
    BY DEF IInv, BinsOrdered, Ordered
  <1>3. RestartKeepsPlainSettings
    BY Zenon DEF IInv, MemoryKept, RestartKeepsPlainSettings, Kept
  <1>4. SendsAreAllowed
    BY DEF IInv, SendsAreAllowed, DeployWasGated, SentWasWet
  <1>5. QED  BY <1>1, <1>2, <1>3, <1>4

LEMMA NoCallTyped == IsCall(NoCall)
  BY DEF NoCall, IsCall, Modes, Tools

LEMMA InitInv == Init => IInv
  <1> SUFFICES ASSUME Init PROVE IInv
    OBVIOUS
  <1>1. IsFile(file)  BY SettingsConstants DEF Init
  <1>2. IsLive(live) /\ Ordered(live)
    BY EmptyIsFile, LoadedBins DEF Init
  <1>3. Bounded(changes)  BY SettingsConstants DEF Init, Bounded
  <1>4. up = FALSE /\ drift = {} /\ call = NoCall /\ seen = NoFile /\ Marked(drift)
    BY DEF Init, Marked
  <1>5. StateTyped
    BY <1>1, <1>2, <1>3, <1>4, NoCallTyped DEF StateTyped
  <1>6. MemoryKept /\ TornIsDrift /\ DeployWasGated /\ SentWasWet
    BY <1>4 DEF MemoryKept, TornIsDrift, DeployWasGated, SentWasWet, NoCall
  <1>7. QED  BY <1>2, <1>5, <1>6 DEF IInv

-----------------------------------------------------------------------------
(* Steps *)

\* What leaves the call alone keeps what is known of it.
LEMMA CallKept ==
    ASSUME DeployWasGated, SentWasWet, UNCHANGED <<call, penv>>
    PROVE  DeployWasGated' /\ SentWasWet'
  BY DEF DeployWasGated, SentWasWet, DryRun

LEMMA NoCallIsSafe ==
    ASSUME call' = NoCall
    PROVE  DeployWasGated' /\ SentWasWet'
  BY DEF DeployWasGated, SentWasWet, NoCall

LEMMA MarkedIs == \A d : Marked(d) <=> d \subseteq Drifts
  BY DEF Marked

LEMMA CountStep ==
    ASSUME Bounded(changes), changes < MaxChanges, changes' = changes + 1
    PROVE  Bounded(changes')
  BY SettingsConstants DEF Bounded

LEMMA StartStep ==
    ASSUME IInv, Start
    PROVE  IInv'
  <1>1. /\ ~up /\ file # Torn /\ live' = Load(file) /\ up' = TRUE /\ drift' = {}
        /\ UNCHANGED <<file, env, seen, call, changes>>
    BY DEF Start
  <1>2. IsFile(file)  BY <1>1 DEF IInv, StateTyped
  <1>3. IsLive(live') /\ Ordered(live')  BY <1>1, <1>2, LoadedBins
  <1>4. StateTyped'
    BY <1>1, <1>3 DEF IInv, StateTyped, Marked
  <1>5. Kept(file', live')
    BY <1>1 DEF Kept
  <1>6. call' = NoCall
    BY <1>1 DEF IInv, StateTyped
  <1>7. MemoryKept' /\ TornIsDrift'
    BY <1>1, <1>5 DEF MemoryKept, TornIsDrift
  <1>8. QED  BY <1>3, <1>4, <1>6, <1>7, NoCallIsSafe DEF IInv

LEMMA DownStep ==
    ASSUME IInv, Down, file' = file \/ file' = Torn, Bounded(changes')
    PROVE  IInv'
  <1>1. /\ up' = FALSE /\ live' = Load(EmptyFile) /\ call' = NoCall /\ drift' = {}
        /\ seen' = seen
    BY DEF Down
  <1>2. IsLive(live') /\ Ordered(live')  BY <1>1, EmptyIsFile, LoadedBins
  <1>3. StateTyped'
    BY <1>1, <1>2, NoCallTyped DEF IInv, StateTyped, Marked
  <1>4. MemoryKept' /\ TornIsDrift'
    BY <1>1 DEF MemoryKept, TornIsDrift
  <1>5. QED  BY <1>1, <1>2, <1>3, <1>4, NoCallIsSafe DEF IInv

LEMMA UpdateStep ==
    ASSUME IInv, up, changes < MaxChanges, changes' = changes + 1,
           NEW ch, UpdateWith(ch),
           \A k \in DOMAIN ch \cap ConfigKeys :
               ch[k] = Text \/ (ch[k] \in KeyValues(k) /\ ch[k] # Absent)
    PROVE  IInv'
  <1> DEFINE a == Applied(ch)
  <1>1. /\ Acceptable(ch) /\ file # Torn
        /\ live' = Apply(live, a)
        /\ \/ file' = Persist(file, a) /\ drift' = drift \cup {"updated"} \cup Clears(a)
           \/ file' \in {file, Torn} /\ drift' = drift \cup {"updated", "unwritten"}
        /\ UNCHANGED <<up, env, penv, seen, call>>
    BY DEF UpdateWith, Accepts, Unsaved
  <1>2. IsApplied(a)  BY <1>1, AppliedTyped
  <1>3. IsFile(file)  BY <1>1 DEF IInv, StateTyped
  <1>4. IsLive(live') /\ Ordered(live')
    BY <1>1, <1>2, AppliedBins DEF IInv, StateTyped
  <1>5. IsFile(Persist(file, a))
    BY <1>2, <1>3, PersistedFile
  <1>6. file' = Torn \/ IsFile(file')
    BY <1>1, <1>3, <1>5
  <1>7. Marked(drift')
    <2>1. Clears(a) \subseteq {"cleared"}  BY DEF Clears
    <2>2. drift \subseteq Drifts  BY DEF IInv, StateTyped, Marked
    <2>3. QED  BY <1>1, <2>1, <2>2 DEF Marked, Drifts
  <1>8. Bounded(changes')  BY CountStep DEF IInv, StateTyped
  <1>9. StateTyped'
    BY <1>1, <1>4, <1>6, <1>7, <1>8 DEF IInv, StateTyped
  <1>10. ASSUME file' = Persist(file, a), drift' = drift \cup {"updated"} \cup Clears(a)
         PROVE  MemoryKept' /\ TornIsDrift'
    <2>1. file' # Torn  BY <1>5, <1>10, NotAFile
    <2>2. ASSUME drift' \subseteq {"updated"} PROVE Kept(file', live')
      <3>1. Clears(a) = {}  BY <1>10, <2>2 DEF Clears
      <3>2. drift \subseteq {"updated"}  BY <1>10, <2>2
      <3>3. Kept(file, live)  BY <1>1, <3>2 DEF IInv, MemoryKept
      <3>4. QED  BY <1>1, <1>2, <1>10, <3>1, <3>3, UpdateKeeps
    <2>3. QED  BY <2>1, <2>2 DEF MemoryKept, TornIsDrift
  <1>11. ASSUME drift' = drift \cup {"updated", "unwritten"}
         PROVE  MemoryKept' /\ TornIsDrift'
    <2>1. "unwritten" \in drift'  BY <1>11
    <2>2. QED  BY <2>1 DEF MemoryKept, TornIsDrift
  <1>12. MemoryKept' /\ TornIsDrift'
    BY <1>1, <1>10, <1>11
  <1>13. DeployWasGated' /\ SentWasWet'
    BY <1>1, CallKept DEF IInv
  <1>14. QED  BY <1>4, <1>9, <1>12, <1>13 DEF IInv

LEMMA MenuTyped ==
    ASSUME IInv,
           NEW k \in {"minBinsBelow", "maxBinsBelow", "defaultBinsBelow", "deployAmountSol"},
           live[FieldOf[k]] # Null, NEW d \in Int
    PROVE  LET ch == [c \in {k} |-> MenuValue(k, live[FieldOf[k]] + d)]
           IN  \A c \in DOMAIN ch \cap ConfigKeys :
                   ch[c] \in KeyValues(c) /\ ch[c] # Absent
  <1>1. live[FieldOf[k]] \in Int
    BY FieldsOfKeys, ConfigKeysAre DEF IInv, StateTyped, IsLive, BinFields, BinKeys
  <1>2. MenuValue(k, live[FieldOf[k]] + d) \in Int
    BY <1>1 DEF MenuValue, AtLeast, MIN_SAFE_BINS_BELOW
  <1>3. KeyValues(k) = Numbers
    BY NumberKeysAre DEF BinKeys
  <1>4. QED  BY <1>2, <1>3, ConfigConstants DEF Numbers

LEMMA UpdateConfigStep ==
    ASSUME IInv, UpdateConfig
    PROVE  IInv'
  <1>1. PICK ch \in Changes : UpdateWith(ch)
    BY DEF UpdateConfig
  <1>2. \A k \in DOMAIN ch \cap ConfigKeys :
            ch[k] = Text \/ (ch[k] \in KeyValues(k) /\ ch[k] # Absent)
    BY SettingsConstants
  <1>3. up /\ changes < MaxChanges /\ changes' = changes + 1
    BY DEF UpdateConfig, Counted
  <1>4. QED  BY <1>1, <1>2, <1>3, UpdateStep

LEMMA MenuStepStep ==
    ASSUME IInv, MenuStep
    PROVE  IInv'
  <1>1. PICK k \in {"minBinsBelow", "maxBinsBelow", "defaultBinsBelow", "deployAmountSol"},
             up1 \in {-1, 1} :
          /\ live[FieldOf[k]] # Null
          /\ UpdateWith([c \in {k} |->
                MenuValue(k, live[FieldOf[k]] + up1 * (IF k \in BinKeys THEN 5 ELSE 100))])
    BY DEF MenuStep
  <1> DEFINE d == up1 * (IF k \in BinKeys THEN 5 ELSE 100)
             ch == [c \in {k} |-> MenuValue(k, live[FieldOf[k]] + d)]
  <1>2. d \in Int  BY <1>1
  <1>3. UpdateWith(ch) /\ live[FieldOf[k]] # Null  BY <1>1
  <1>4. \A c \in DOMAIN ch \cap ConfigKeys : ch[c] \in KeyValues(c) /\ ch[c] # Absent
    BY <1>1, <1>2, MenuTyped
  <1>5. up /\ changes < MaxChanges /\ changes' = changes + 1
    BY DEF MenuStep, Counted
  <1> HIDE DEF ch
  <1>6. QED  BY <1>3, <1>4, <1>5, UpdateStep

LEMMA EvolvedIsInt ==
    ASSUME NEW c \in Int, NEW w \in Int
    PROVE  EvolvedOrganic(c, w) \in Int
  BY DEF EvolvedOrganic, Nudge, AtLeast, AtMost

LEMMA EvolveStep ==
    ASSUME IInv, Evolve
    PROVE  IInv'
  <1>1. PICK worst \in {70, 95} :
            LET new == EvolvedOrganic(live["minOrganic"], worst)
                saved == [Parsed EXCEPT !["minOrganic"] = new]
            IN  /\ file' = saved
                /\ live' = Reload([live EXCEPT !["minOrganic"] = new], saved)
    BY DEF Evolve
  <1>2. /\ up /\ changes < MaxChanges /\ changes' = changes + 1
        /\ live["minOrganic"] # Null
        /\ UNCHANGED <<up, env, penv, seen, call, drift>>
    BY DEF Evolve, Counted, Unsaved
  <1> DEFINE v == EvolvedOrganic(live["minOrganic"], worst)
             g == [Parsed EXCEPT !["minOrganic"] = v]
             m == [live EXCEPT !["minOrganic"] = v]
  <1>3. v \in Int
    BY <1>2, EvolvedIsInt DEF IInv, StateTyped, IsLive
  <1>4. IsFile(Parsed)
    BY EmptyIsFile DEF IInv, StateTyped, Parsed
  <1>5. file' = g /\ live' = Reload(m, g)
    BY <1>1
  <1>6. "minOrganic" \in FileKeys /\ KeyValues("minOrganic") = Numbers
    BY NumberKeysAre
  <1> HIDE DEF v
  <1>7. IsFile(g)
    <2>1. g = [k \in FileKeys |-> g[k]]
      BY <1>4 DEF IsFile
    <2>2. \A k \in FileKeys : g[k] = IF k = "minOrganic" THEN v ELSE Parsed[k]
      BY <1>4, <1>6 DEF IsFile
    <2>3. QED  BY <1>3, <1>4, <1>6, <2>1, <2>2 DEF IsFile, Numbers
  <1>8. IsLive(m)
    <2>1. IsLive(live)  BY DEF IInv, StateTyped
    <2>2. m = [x \in Fields |-> m[x]]  BY <2>1 DEF IsLive
    <2>3. \A x \in Fields : m[x] = IF x = "minOrganic" THEN v ELSE live[x]
      BY <2>1, FieldsAre DEF IsLive
    <2>4. QED  BY <1>3, <2>1, <2>2, <2>3, FieldsAre DEF IsLive, BinFields
  <1>9. IsLive(live') /\ Ordered(live')
    BY <1>5, <1>7, <1>8, ReloadedBins
  <1>10. file' # Torn
    BY <1>5, <1>7, NotAFile
  <1>11. StateTyped'
    BY <1>2, <1>5, <1>7, <1>9, CountStep DEF IInv, StateTyped
  <1>12. ASSUME drift' \subseteq {"updated"} PROVE Kept(file', live')
    <2>1. drift \subseteq {"updated"}  BY <1>2, <1>12
    <2>2. file # Torn  BY <1>2, <2>1 DEF IInv, TornIsDrift
    <2>3. Kept(file, live) /\ IsFile(file) /\ IsLive(live)
      BY <1>2, <2>1, <2>2 DEF IInv, MemoryKept, StateTyped
    <2>4. Parsed = file  BY <2>2 DEF Parsed
    <2>5. QED  BY <1>3, <1>5, <2>3, <2>4, ReloadKeeps
  <1>13. MemoryKept' /\ TornIsDrift'
    BY <1>10, <1>12 DEF MemoryKept, TornIsDrift
  <1>14. DeployWasGated' /\ SentWasWet'
    BY <1>2, CallKept DEF IInv
  <1>15. QED  BY <1>9, <1>11, <1>13, <1>14 DEF IInv

\* The id that is found, or made, is the id of the file afterwards.
LEMMA AgentIdIs ==
    ASSUME IInv, FindAgentId \/ MakeAgentId
    PROVE  \E v \in Texts :
              /\ up /\ Bounded(changes')
              /\ live' = [live EXCEPT !["agentId"] = v]
              /\ \/ file' = [Parsed EXCEPT !["agentId"] = v]
                 \/ file' = file /\ file # Torn /\ file["agentId"] = v
              /\ Parsed["agentId"] \in {Absent, Null} \/ file' = file
              /\ UNCHANGED <<up, env, penv, seen, call, drift>>
  <1>1. CASE FindAgentId
    <2>1. Parsed["agentId"] \notin {Absent, Null}  BY <1>1 DEF FindAgentId
    <2>2. "agentId" \in FileKeys /\ KeyValues("agentId") = Texts \cup {Absent, Null}
      BY FileKeysAre DEF KeyValues
    <2>3. IsFile(Parsed)
      BY EmptyIsFile DEF IInv, StateTyped, Parsed
    <2>4. Parsed["agentId"] \in Texts
      BY <2>1, <2>2, <2>3 DEF IsFile
    <2>5. file # Torn  BY <2>1, <2>2 DEF Parsed, EmptyFile
    <2>6. Parsed = file  BY <2>5 DEF Parsed
    <2>7. /\ up /\ Bounded(changes') /\ file' = file
          /\ live' = [live EXCEPT !["agentId"] = Parsed["agentId"]]
          /\ UNCHANGED <<up, env, penv, seen, call, drift>>
      BY <1>1 DEF FindAgentId, Unsaved, IInv, StateTyped
    <2>8. QED  BY <2>4, <2>5, <2>6, <2>7
  <1>2. CASE MakeAgentId
    <2>1. /\ up /\ file' = [Parsed EXCEPT !["agentId"] = "id"]
          /\ live' = [live EXCEPT !["agentId"] = "id"]
          /\ Parsed["agentId"] \in {Absent, Null}
          /\ UNCHANGED <<up, env, penv, seen, call, drift>>
      BY <1>2 DEF MakeAgentId, Counted, Unsaved
    <2>2. Bounded(changes')
      BY <1>2, CountStep DEF MakeAgentId, Counted, IInv, StateTyped
    <2>3. "id" \in Texts  BY DEF Texts
    <2>4. QED  BY <2>1, <2>2, <2>3
  <1>3. QED  BY <1>1, <1>2

LEMMA AgentIdSteps ==
    ASSUME IInv, FindAgentId \/ MakeAgentId
    PROVE  IInv'
  <1>1. PICK v \in Texts :
              /\ up /\ Bounded(changes')
              /\ live' = [live EXCEPT !["agentId"] = v]
              /\ \/ file' = [Parsed EXCEPT !["agentId"] = v]
                 \/ file' = file /\ file # Torn /\ file["agentId"] = v
              /\ Parsed["agentId"] \in {Absent, Null} \/ file' = file
              /\ UNCHANGED <<up, env, penv, seen, call, drift>>
    BY AgentIdIs
  <1>2. IsFile(Parsed)
    BY EmptyIsFile DEF IInv, StateTyped, Parsed
  <1>3. "agentId" \in FileKeys /\ KeyValues("agentId") = Texts \cup {Absent, Null}
    BY FileKeysAre DEF KeyValues
  <1>4. /\ IsFile(file')
        /\ \A k \in FileKeys : file'[k] = IF k = "agentId" THEN v ELSE Parsed[k]
    <2>1. CASE file' = [Parsed EXCEPT !["agentId"] = v]
      <3>1. \A k \in FileKeys : file'[k] = IF k = "agentId" THEN v ELSE Parsed[k]
        BY <1>2, <2>1 DEF IsFile
      <3>2. file' = [k \in FileKeys |-> file'[k]]
        BY <1>2, <2>1 DEF IsFile
      <3>3. \A k \in FileKeys : file'[k] \in KeyValues(k)
        BY <1>1, <1>2, <1>3, <3>1 DEF IsFile
      <3>4. QED  BY <3>1, <3>2, <3>3 DEF IsFile
    <2>2. CASE file' = file /\ file # Torn /\ file["agentId"] = v
      <3>1. Parsed = file  BY <2>2 DEF Parsed
      <3>2. QED  BY <1>2, <2>2, <3>1
    <2>3. QED  BY <1>1, <2>1, <2>2
  <1>5. file' # Torn
    BY <1>4, NotAFile
  <1>6. /\ IsLive(live') /\ Ordered(live')
        /\ \A x \in Fields : live'[x] = IF x = "agentId" THEN v ELSE live[x]
    <2>1. IsLive(live) /\ Ordered(live)  BY DEF IInv, StateTyped
    <2>2. \A x \in Fields : live'[x] = IF x = "agentId" THEN v ELSE live[x]
      BY <1>1, <2>1, FieldsAre DEF IsLive
    <2>3. live' = [x \in Fields |-> live'[x]]
      BY <1>1, <2>1 DEF IsLive
    <2>4. \A x \in BinFields \cup {"minOrganic", "deployAmountSol"} : live'[x] = live[x]
      BY <2>2, FieldsAre DEF BinFields
    <2>5. QED  BY <2>1, <2>2, <2>3, <2>4 DEF IsLive, Ordered, BinFields
  <1>7. StateTyped'
    BY <1>1, <1>4, <1>6 DEF IInv, StateTyped
  <1>8. ASSUME drift' \subseteq {"updated"} PROVE Kept(file', live')
    <2>1. drift \subseteq {"updated"}  BY <1>1, <1>8
    <2>2. file # Torn  BY <1>1, <2>1 DEF IInv, TornIsDrift
    <2>3. Kept(file, live)
      BY <1>1, <2>1, <2>2 DEF IInv, MemoryKept
    <2>4. Parsed = file  BY <2>2 DEF Parsed
    <2>5. SUFFICES ASSUME NEW x \in PlainFields PROVE Load(file')[x] = live'[x]
      BY DEF Kept
    <2>6. /\ Load(file')[x] = Or(file'[x], Defaults[x])
          /\ Load(file)[x] = Or(file[x], Defaults[x])
      BY LoadsPlain
    <2>7. x \in FileKeys /\ x \in Fields  BY PlainFieldsAre DEF PlainFields
    <2>8. CASE x = "agentId"
      <3>1. v \notin {Absent, Null}
        BY <1>1, TextsAreNone
      <3>2. QED  BY <1>4, <1>6, <2>6, <2>7, <2>8, <3>1 DEF Or
    <2>9. CASE x # "agentId"
      <3>1. file'[x] = file[x] /\ live'[x] = live[x]
        BY <1>4, <1>6, <2>4, <2>7, <2>9
      <3>2. QED  BY <2>3, <2>6, <3>1 DEF Kept
    <2>10. QED  BY <2>8, <2>9
  <1>9. MemoryKept' /\ TornIsDrift'
    BY <1>5, <1>8 DEF MemoryKept, TornIsDrift
  <1>10. DeployWasGated' /\ SentWasWet'
    BY <1>1, CallKept DEF IInv
  <1>11. QED  BY <1>6, <1>7, <1>9, <1>10 DEF IInv

\* Another process that changes the file while this one runs leaves a mark.
LEMMA OtherStep ==
    ASSUME IInv, file' = Torn \/ IsFile(file'), seen' = NoFile \/ IsFile(seen'),
           drift' = Edited, Bounded(changes'), UNCHANGED <<live, up, env, penv, call>>
    PROVE  IInv'
  <1>1. Marked(drift')
    BY DEF IInv, StateTyped, Marked, Edited, Drifts
  <1>2. ~up => drift' = {}
    BY DEF IInv, StateTyped, Edited
  <1>3. up => "edited" \in drift'
    BY DEF Edited
  <1>4. StateTyped'
    BY <1>1, <1>2 DEF IInv, StateTyped
  <1>5. MemoryKept' /\ TornIsDrift'
    BY <1>3 DEF MemoryKept, TornIsDrift
  <1>6. DeployWasGated' /\ SentWasWet'
    BY CallKept DEF IInv
  <1>7. QED  BY <1>4, <1>5, <1>6 DEF IInv

LEMMA OtherWritesFile ==
    ASSUME IInv, OtherWrites
    PROVE  IsFile(file')
  <1>1. PICK e \in Edits :
          file' = [k \in FileKeys |-> IF k \in DOMAIN e THEN e[k] ELSE seen[k]]
    BY DEF OtherWrites
  <1>2. IsFile(seen)
    BY DEF IInv, StateTyped, OtherWrites
  <1>3. \A k \in FileKeys : k \in DOMAIN e => e[k] \in KeyValues(k)
    BY SettingsConstants
  <1>4. \A k \in FileKeys : file'[k] \in KeyValues(k)
    BY <1>1, <1>2, <1>3 DEF IsFile
  <1>5. file' = [k \in FileKeys |-> file'[k]]
    BY <1>1
  <1>6. QED  BY <1>4, <1>5 DEF IsFile

LEMMA OtherReadsStep ==
    ASSUME IInv, OtherReads
    PROVE  IInv'
  <1>1. /\ file # Torn /\ seen' = file
        /\ UNCHANGED <<file, live, up, env, penv, call, drift, changes>>
    BY DEF OtherReads
  <1>2. StateTyped'
    BY <1>1 DEF IInv, StateTyped
  <1>3. MemoryKept' /\ TornIsDrift'
    BY <1>1 DEF IInv, MemoryKept, TornIsDrift
  <1>4. DeployWasGated' /\ SentWasWet'
    BY <1>1, CallKept DEF IInv
  <1>5. Ordered(live')  BY <1>1 DEF IInv
  <1>6. QED  BY <1>2, <1>3, <1>4, <1>5 DEF IInv

LEMMA OthersSteps ==
    ASSUME IInv, OtherWrites \/ OtherDiesWriting \/ Repair
    PROVE  IInv'
  <1>1. CASE OtherWrites
    <2>1. /\ seen' = NoFile /\ drift' = Edited
          /\ changes < MaxChanges /\ changes' = changes + 1
          /\ UNCHANGED <<live, up, env, penv, call>>
      BY <1>1 DEF OtherWrites
    <2>2. IsFile(file')  BY <1>1, OtherWritesFile
    <2>3. Bounded(changes')  BY <2>1, CountStep DEF IInv, StateTyped
    <2>4. QED  BY <2>1, <2>2, <2>3, OtherStep
  <1>2. CASE OtherDiesWriting
    <2>1. /\ file' = Torn /\ seen' = NoFile /\ drift' = Edited
          /\ changes < MaxChanges /\ changes' = changes + 1
          /\ UNCHANGED <<live, up, env, penv, call>>
      BY <1>2 DEF OtherDiesWriting
    <2>2. Bounded(changes')  BY <2>1, CountStep DEF IInv, StateTyped
    <2>3. QED  BY <2>1, <2>2, OtherStep
  <1>3. CASE Repair
    <2>1. /\ file' \in FirstFiles /\ drift' = Edited
          /\ UNCHANGED <<live, up, env, penv, seen, call, changes>>
      BY <1>3 DEF Repair
    <2>2. IsFile(file')  BY <2>1, SettingsConstants
    <2>3. /\ seen' = NoFile \/ IsFile(seen')
          /\ Bounded(changes')
      BY <2>1 DEF IInv, StateTyped
    <2>4. QED  BY <2>1, <2>2, <2>3, OtherStep
  <1>4. QED  BY <1>1, <1>2, <1>3

LEMMA DyingSteps ==
    ASSUME IInv, Dies \/ DiesWriting
    PROVE  IInv'
  <1>1. CASE Dies
    <2>1. Down /\ file' = file /\ changes' = changes  BY <1>1 DEF Dies
    <2>2. Bounded(changes')  BY <2>1 DEF IInv, StateTyped
    <2>3. QED  BY <2>1, <2>2, DownStep
  <1>2. CASE DiesWriting
    <2>1. Down /\ file' = Torn /\ changes < MaxChanges /\ changes' = changes + 1
      BY <1>2 DEF DiesWriting
    <2>2. Bounded(changes')  BY <2>1, CountStep DEF IInv, StateTyped
    <2>3. QED  BY <2>1, <2>2, DownStep
  <1>3. QED  BY <1>1, <1>2

-----------------------------------------------------------------------------
(* Tool calls *)

\* A step of a call touches nothing else.
LEMMA CallStep ==
    ASSUME IInv, up, IsCall(call'), DeployWasGated', SentWasWet',
           UNCHANGED <<file, live, up, env, penv, seen, drift, changes>>
    PROVE  IInv'
  <1>1. StateTyped'  BY DEF IInv, StateTyped
  <1>2. MemoryKept' /\ TornIsDrift'  BY DEF IInv, MemoryKept, TornIsDrift
  <1>3. Ordered(live')  BY DEF IInv
  <1>4. QED  BY <1>1, <1>2, <1>3 DEF IInv

\* A call is under way only while the process runs.
LEMMA CallMeansUp ==
    ASSUME IInv, call # NoCall
    PROVE  up
  BY DEF IInv, StateTyped

LEMMA ModeIsMode ==
    ASSUME NEW l, NEW p
    PROVE  getExecutionMode(l, p) \in Modes
  <1>1. "scanner" \in Modes  BY DEF Modes
  <1>2. CASE p.mode # Absent
    BY <1>1, <1>2 DEF getExecutionMode
  <1>3. CASE p.mode = Absent
    BY <1>1, <1>3 DEF getExecutionMode
  <1>4. QED  BY <1>2, <1>3

LEMMA CallStartsStep ==
    ASSUME IInv, CallStarts
    PROVE  IInv'
  <1>1. PICK t \in Tools :
          /\ ModeGate(t, live, penv)
          /\ call' = [tool |-> t, mode |-> Mode, step |-> "checked"]
    BY DEF CallStarts
  <1>2. up /\ UNCHANGED <<file, live, up, env, penv, seen, drift, changes>>
    BY DEF CallStarts
  <1>3. IsCall(call')
    BY <1>1, ModeIsMode DEF IsCall, Mode
  <1>4. SentWasWet'
    BY <1>1 DEF SentWasWet
  <1>5. DeployWasGated'
    <2>1. SUFFICES ASSUME t = "deploy"
                   PROVE  (Mode = "live" /\ penv.allow /\ penv.key) \/ DryRun(penv)
      BY <1>1, <1>2 DEF DeployWasGated, DryRun
    <2>2. CASE Mode = "live"
      <3>1. checkLiveExecutionAllowed(live, penv)
        BY <1>1, <2>1, <2>2 DEF ModeGate, Mode
      <3>2. QED  BY <2>2, <3>1 DEF checkLiveExecutionAllowed
    <2>3. CASE Mode # "live"
      BY <1>1, <2>1, <2>3 DEF ModeGate, Mode
    <2>4. QED  BY <2>2, <2>3
  <1>6. QED  BY <1>2, <1>3, <1>4, <1>5, CallStep

LEMMA CallSendsStep ==
    ASSUME IInv, CallSends
    PROVE  IInv'
  <1>1. /\ call.step = "checked" /\ ~DryRun(penv)
        /\ call' = [call EXCEPT !.step = "sent"]
        /\ UNCHANGED <<file, live, up, env, penv, seen, drift, changes>>
    BY DEF CallSends, MaySend
  <1>2. IsCall(call)  BY DEF IInv, StateTyped
  <1>3. up
    BY <1>1, CallMeansUp DEF NoCall
  <1>4. IsCall(call') /\ call'.tool = call.tool /\ call'.mode = call.mode
    BY <1>1, <1>2 DEF IsCall
  <1>5. SentWasWet'
    BY <1>1 DEF SentWasWet, DryRun
  <1>6. DeployWasGated'
    BY <1>1, <1>4 DEF IInv, DeployWasGated, DryRun
  <1>7. QED  BY <1>1, <1>3, <1>4, <1>5, <1>6, CallStep

LEMMA AutoSwapStep ==
    ASSUME IInv, AutoSwap
    PROVE  IInv'
  <1>1. /\ call.tool \in {"claim", "close"} /\ ~DryRun(penv)
        /\ call' = [call EXCEPT !.tool = "swap", !.step = "sent"]
        /\ UNCHANGED <<file, live, up, env, penv, seen, drift, changes>>
    BY DEF AutoSwap, MaySend
  <1>2. IsCall(call)  BY DEF IInv, StateTyped
  <1>3. up
    BY <1>1, CallMeansUp DEF NoCall
  <1>4. IsCall(call') /\ call'.tool = "swap"
    BY <1>1, <1>2 DEF IsCall, Tools
  <1>5. SentWasWet'
    BY <1>1 DEF SentWasWet, DryRun
  <1>6. DeployWasGated'
    BY <1>4 DEF DeployWasGated
  <1>7. QED  BY <1>1, <1>3, <1>4, <1>5, <1>6, CallStep

LEMMA CallEndsStep ==
    ASSUME IInv, CallEnds
    PROVE  IInv'
  <1>1. /\ call # NoCall /\ call' = NoCall
        /\ UNCHANGED <<file, live, up, env, penv, seen, drift, changes>>
    BY DEF CallEnds
  <1>2. up  BY <1>1, CallMeansUp
  <1>3. QED  BY <1>1, <1>2, NoCallTyped, NoCallIsSafe, CallStep

-----------------------------------------------------------------------------
(* Theorems *)

LEMMA StutterStep ==
    ASSUME IInv, UNCHANGED vars
    PROVE  IInv'
  <1>1. UNCHANGED <<file, live, up, env, penv, seen, call, drift, changes>>
    BY DEF vars
  <1>2. StateTyped'  BY <1>1 DEF IInv, StateTyped
  <1>3. MemoryKept' /\ TornIsDrift'  BY <1>1 DEF IInv, MemoryKept, TornIsDrift
  <1>4. DeployWasGated' /\ SentWasWet'  BY <1>1, CallKept DEF IInv
  <1>5. Ordered(live')  BY <1>1 DEF IInv
  <1>6. QED  BY <1>2, <1>3, <1>4, <1>5 DEF IInv

LEMMA StepInv ==
    ASSUME IInv, [Next]_vars
    PROVE  IInv'
  BY StartStep, DyingSteps, UpdateConfigStep, MenuStepStep, EvolveStep,
     AgentIdSteps, OtherReadsStep, OthersSteps, CallStartsStep, CallSendsStep,
     AutoSwapStep, CallEndsStep, StutterStep DEF Next

\* The invariant holds in every reachable state.
LEMMA InvHolds == Spec => []IInv
  <1>1. Init => IInv  BY InitInv
  <1>2. IInv /\ [Next]_vars => IInv'  BY StepInv
  <1>3. QED  BY <1>1, <1>2, PTL DEF Spec

\* Every variable keeps its type (config.js, tools/executor.js).
THEOREM TypeCorrect == Spec => []TypeOK
  <1>1. IInv => TypeOK  BY InvImplies
  <1>2. QED  BY <1>1, InvHolds, PTL

\* Whatever is loaded, updated, stepped or reloaded in whatever order, the bins
\* a deploy is laid out with are in order and safe (config.js:34-39,
\* executor.js, reloadScreeningThresholds).
THEOREM BinsStayOrdered == Spec => []BinsOrdered
  <1>1. IInv => BinsOrdered  BY InvImplies
  <1>2. QED  BY <1>1, InvHolds, PTL

\* A restart brings back the plain settings of memory - those that are neither
\* clamped nor saved under two keys - unless a write failed, another wrote the
\* file, or a setting was cleared (executor.js update_config).
THEOREM RestartKeeps == Spec => []RestartKeepsPlainSettings
  <1>1. IInv => RestartKeepsPlainSettings  BY InvImplies
  <1>2. QED  BY <1>1, InvHolds, PTL

\* Nothing is sent under DRY_RUN, and no deploy that was not checked in live
\* mode with live execution allowed (execution-modes.js, runSafetyChecks).
THEOREM SendsWereAllowed == Spec => []SendsAreAllowed
  <1>1. IInv => SendsAreAllowed  BY InvImplies
  <1>2. QED  BY <1>1, InvHolds, PTL

-----------------------------------------------------------------------------
(* What a step does to the file *)

\* Persisting adds keys and takes none: what is applied is a value.
LEMMA PersistKeeps ==
    ASSUME NEW f, NEW a, IsApplied(a), NEW k \in FileKeys, f[k] # Absent
    PROVE  Persist(f, a)[k] # Absent
  <1>1. CASE \E c \in DOMAIN a : SavedAs(c) = k
    <2> DEFINE c == CHOOSE c \in DOMAIN a : SavedAs(c) = k
    <2>1. c \in DOMAIN a  BY <1>1
    <2>2. a[c] # Absent  BY <2>1 DEF IsApplied
    <2>3. QED  BY <1>1, <2>2 DEF Persist
  <1>2. CASE ~ \E c \in DOMAIN a : SavedAs(c) = k
    BY <1>2 DEF Persist
  <1>3. QED  BY <1>1, <1>2

\* A write that update_config makes.
LEMMA UpdateSpares ==
    ASSUME IInv, NEW ch, UpdateWith(ch),
           \A k \in DOMAIN ch \cap ConfigKeys :
               ch[k] = Text \/ (ch[k] \in KeyValues(k) /\ ch[k] # Absent)
    PROVE  NothingLost /\ TornFileIsSpared
  <1> DEFINE a == Applied(ch)
  <1>1. /\ Acceptable(ch) /\ file # Torn
        /\ file' = Persist(file, a) \/ file' \in {file, Torn}
    BY DEF UpdateWith, Accepts
  <1>2. IsApplied(a)  BY <1>1, AppliedTyped
  <1> HIDE DEF a
  <1>3. NothingLost
    <2>1. CASE file' = Persist(file, a)
      BY <1>2, <2>1, PersistKeeps DEF NothingLost
    <2>2. CASE file' \in {file, Torn}
      BY <2>2 DEF NothingLost
    <2>3. QED  BY <1>1, <2>1, <2>2
  <1>4. TornFileIsSpared  BY <1>1 DEF TornFileIsSpared
  <1>5. QED  BY <1>3, <1>4

LEMMA EvolveSpares ==
    ASSUME IInv, Evolve
    PROVE  NothingLost /\ TornFileIsSpared
  <1>1. PICK worst \in {70, 95} :
            LET new == EvolvedOrganic(live["minOrganic"], worst)
                saved == [Parsed EXCEPT !["minOrganic"] = new]
            IN  /\ file' = saved
                /\ live' = Reload([live EXCEPT !["minOrganic"] = new], saved)
    BY DEF Evolve
  <1> DEFINE v == EvolvedOrganic(live["minOrganic"], worst)
             g == [Parsed EXCEPT !["minOrganic"] = v]
             m == [live EXCEPT !["minOrganic"] = v]
  <1>2. v \in Int
    <2>1. live["minOrganic"] # Null  BY DEF Evolve
    <2>2. QED  BY <2>1, EvolvedIsInt DEF IInv, StateTyped, IsLive
  <1>3. IsFile(Parsed) /\ IsLive(live)
    BY EmptyIsFile DEF IInv, StateTyped, Parsed
  <1>4. file' = g /\ live' = Reload(m, g)
    BY <1>1
  <1> HIDE DEF v
  <1>5. \A k \in FileKeys : g[k] = IF k = "minOrganic" THEN v ELSE Parsed[k]
    BY <1>3 DEF IsFile
  <1>6. NothingLost
    <2>1. SUFFICES ASSUME file # Torn, NEW k \in FileKeys, file[k] # Absent
                   PROVE  g[k] # Absent
      BY <1>4 DEF NothingLost
    <2>2. Parsed = file  BY <2>1 DEF Parsed
    <2>3. QED  BY <1>2, <1>5, <2>1, <2>2, ConfigConstants
  <1>7. TornFileIsSpared
    <2>1. SUFFICES ASSUME file = Torn, NEW x \in PlainFields \ {"minOrganic", "agentId"}
                   PROVE  Reload(m, g)[x] = live[x]
      BY <1>4 DEF TornFileIsSpared
    <2>2. x \in Fields /\ x \notin BinFields /\ x \in FileKeys
      BY <2>1, PlainFieldsAre DEF PlainFields
    <2>3. m[x] = live[x]  BY <1>3, <2>1, <2>2 DEF IsLive
    <2>4. g[x] = Absent  BY <1>5, <2>1, <2>2 DEF Parsed, EmptyFile
    <2>5. Reload(m, g)[x] = IF x \in ScreeningFields
                            THEN Or(g[x], m[x]) ELSE m[x]
      BY <2>2 DEF Reload
    <2>6. Or(g[x], m[x]) = m[x]  BY <2>4 DEF Or
    <2>7. QED  BY <2>3, <2>5, <2>6
  <1>8. QED  BY <1>6, <1>7

LEMMA AgentIdSpares ==
    ASSUME IInv, FindAgentId \/ MakeAgentId
    PROVE  NothingLost /\ TornFileIsSpared
  <1>1. PICK v \in Texts :
              /\ up /\ Bounded(changes')
              /\ live' = [live EXCEPT !["agentId"] = v]
              /\ \/ file' = [Parsed EXCEPT !["agentId"] = v]
                 \/ file' = file /\ file # Torn /\ file["agentId"] = v
              /\ Parsed["agentId"] \in {Absent, Null} \/ file' = file
              /\ UNCHANGED <<up, env, penv, seen, call, drift>>
    BY AgentIdIs
  <1>2. IsFile(Parsed) /\ IsLive(live)
    BY EmptyIsFile DEF IInv, StateTyped, Parsed
  <1>3. NothingLost
    <2>1. CASE file' = file  BY <2>1 DEF NothingLost
    <2>2. CASE file' = [Parsed EXCEPT !["agentId"] = v]
      <3>1. SUFFICES ASSUME file # Torn, NEW k \in FileKeys, file[k] # Absent
                     PROVE  file'[k] # Absent
        BY DEF NothingLost
      <3>2. Parsed = file  BY <3>1 DEF Parsed
      <3>3. file'[k] = IF k = "agentId" THEN v ELSE file[k]
        BY <1>2, <2>2, <3>2 DEF IsFile
      <3>4. v # Absent  BY TextsAreNone
      <3>5. QED  BY <3>1, <3>3, <3>4
    <2>3. QED  BY <1>1, <2>1, <2>2
  <1>4. TornFileIsSpared
    <2>1. SUFFICES ASSUME NEW x \in PlainFields \ {"minOrganic", "agentId"}
                   PROVE  live'[x] = live[x]
      BY DEF TornFileIsSpared
    <2>2. QED  BY <1>1, <1>2, <2>1 DEF IsLive, PlainFields
  <1>5. QED  BY <1>3, <1>4

\* The other steps: they leave the file, tear it, repair it, or are the write
\* of another process, and none changes what is in memory.
LEMMA OthersSpare ==
    ASSUME IInv,
           \/ Start \/ Dies \/ DiesWriting \/ OtherReads \/ OtherWrites
           \/ OtherDiesWriting \/ Repair \/ CallStarts \/ CallSends \/ AutoSwap
           \/ CallEnds \/ UNCHANGED vars
    PROVE  NothingLost /\ TornFileIsSpared
  <1>1. \/ file' = file \/ file' = Torn \/ file = Torn
        \/ seen # NoFile /\ seen' = NoFile
    BY DEF Start, Dies, DiesWriting, OtherReads, OtherWrites, OtherDiesWriting,
           Repair, CallStarts, CallSends, AutoSwap, CallEnds, vars
  <1>2. live' = live \/ ~up \/ ~up'
    BY DEF Start, Dies, DiesWriting, Down, OtherReads, OtherWrites,
           OtherDiesWriting, Repair, CallStarts, CallSends, AutoSwap, CallEnds, vars
  <1>3. NothingLost  BY <1>1 DEF NothingLost
  <1>4. TornFileIsSpared  BY <1>2 DEF TornFileIsSpared
  <1>5. QED  BY <1>3, <1>4

LEMMA StepSpares ==
    ASSUME IInv, [Next]_vars
    PROVE  NothingLost /\ TornFileIsSpared
  <1>1. CASE UpdateConfig
    <2>1. PICK ch \in Changes : UpdateWith(ch)
      BY <1>1 DEF UpdateConfig
    <2>2. \A k \in DOMAIN ch \cap ConfigKeys :
              ch[k] = Text \/ (ch[k] \in KeyValues(k) /\ ch[k] # Absent)
      BY SettingsConstants
    <2>3. QED  BY <2>1, <2>2, UpdateSpares
  <1>2. CASE MenuStep
    <2>1. PICK k \in {"minBinsBelow", "maxBinsBelow", "defaultBinsBelow", "deployAmountSol"},
               up1 \in {-1, 1} :
            /\ live[FieldOf[k]] # Null
            /\ UpdateWith([c \in {k} |->
                  MenuValue(k, live[FieldOf[k]] + up1 * (IF k \in BinKeys THEN 5 ELSE 100))])
      BY <1>2 DEF MenuStep
    <2> DEFINE d == up1 * (IF k \in BinKeys THEN 5 ELSE 100)
               ch == [c \in {k} |-> MenuValue(k, live[FieldOf[k]] + d)]
    <2>2. d \in Int  BY <2>1
    <2>3. UpdateWith(ch) /\ live[FieldOf[k]] # Null  BY <2>1
    <2>4. \A c \in DOMAIN ch \cap ConfigKeys : ch[c] \in KeyValues(c) /\ ch[c] # Absent
      BY <2>1, <2>2, MenuTyped
    <2> HIDE DEF ch
    <2>5. QED  BY <2>3, <2>4, UpdateSpares
  <1>3. CASE Evolve  BY <1>3, EvolveSpares
  <1>4. CASE FindAgentId \/ MakeAgentId  BY <1>4, AgentIdSpares
  <1>5. CASE ~(UpdateConfig \/ MenuStep \/ Evolve \/ FindAgentId \/ MakeAgentId)
    BY <1>5, OthersSpare DEF Next
  <1>6. QED  BY <1>1, <1>2, <1>3, <1>4, <1>5

\* No writer drops a key that another wrote, but one that writes back what it
\* read before; and a file that does not parse stops update_config
\* (executor.js, lessons.js, hivemind.js, setup.js).
THEOREM FileStaysSpared == Spec => FileIsSpared
  <1>1. IInv /\ [Next]_vars => [NothingLost /\ TornFileIsSpared]_vars
    BY StepSpares
  <1>2. QED  BY <1>1, InvHolds, PTL DEF Spec, FileIsSpared

-----------------------------------------------------------------------------
(***************************************************************************)
(* The checks of Gates fit together in every state of Settings that can be *)
(* reached: what config-doctor demands of a live process is enough for the *)
(* size of a deploy and for the checks made before it, and the two gates   *)
(* agree.                                                                  *)
(***************************************************************************)

Amounts == {"deployAmountSol", "gasReserve", "maxDeployAmount", "minSolToOpen",
            "positionSizePct"}

\* What config-doctor demands of the amounts.
CanPay(l) ==
    /\ \A x \in Amounts : l[x] \in Int
    /\ l["deployAmountSol"] > 0 /\ l["gasReserve"] >= 0
    /\ l["maxDeployAmount"] >= l["deployAmountSol"]
    /\ l["minSolToOpen"] >= l["deployAmountSol"] + l["gasReserve"]

\* A live process that has not been updated since its start has passed.
Untouched == drift \cap {"updated", "unwritten"} = {}
Doctored ==
    up /\ Mode = "live" /\ Untouched =>
        checkLiveExecutionAllowed(live, penv) /\ CanPay(live)

FitInv == IInv /\ env \in Environments /\ Doctored

-----------------------------------------------------------------------------
(* Sizes *)

\* Rounding moves by at most half a hundredth and passes no whole one.
LEMMA RoundedIs ==
    ASSUME NEW x \in Int
    PROVE  /\ Rounded(x) \in Int /\ Rounded(x) <= x + 5
           /\ \A d \in Int : Hundredths(d) /\ d <= x => d <= Rounded(x)
           /\ \A d \in Int : Hundredths(d) /\ x <= d => Rounded(x) <= d
  <1> DEFINE q == (x + 5) \div 10
  <1>1. q \in Int /\ 10 * q <= x + 5 /\ x + 5 < 10 * q + 10
    OBVIOUS
  <1> HIDE DEF q
  <1>2. Rounded(x) = q * 10  BY DEF Rounded, q
  <1>3. ASSUME NEW d \in Int, Hundredths(d)
        PROVE  (d <= x => d <= Rounded(x)) /\ (x <= d => Rounded(x) <= d)
    <2> DEFINE e == d \div 10
    <2>1. e \in Int /\ d = 10 * e  BY <1>3 DEF Hundredths
    <2> HIDE DEF e
    <2>2. QED  BY <1>1, <1>2, <2>1
  <1>4. QED  BY <1>1, <1>2, <1>3

\* A share of at most 95 percent, times a hundred.
LEMMA ShareIs ==
    ASSUME NEW a \in Nat, NEW p \in Int, p <= 95
    PROVE  a * p \in Int /\ a * p <= 95 * a
  <1> DEFINE r == 95 - p
  <1>1. r \in Nat  OBVIOUS
  <1>2. a * r \in Nat  BY <1>1
  <1>3. a * p = 95 * a - a * r  OBVIOUS
  <1>4. QED  BY <1>2, <1>3

\* With the balance that is asked for, the amount passes its checks.
LEMMA AmountFits ==
    ASSUME NEW l, CanPay(l), NEW b \in Int, b >= l["minSolToOpen"], NEW e,
           Hundredths(l["deployAmountSol"]), Hundredths(l["maxDeployAmount"]),
           l["deployAmountSol"] >= LeastDeploy, Or(l["positionSizePct"], 35) <= 95
    PROVE  AmountAccepted(l, e, computeDeployAmount(l, b), b)
  <1> DEFINE D == l["deployAmountSol"]
             G == l["gasReserve"]
             M == l["maxDeployAmount"]
             free == AtLeast(0, b - G)
             p == Or(l["positionSizePct"], 35)
             dynamic == (free * p) \div 100
             x == AtMost(M, AtLeast(D, dynamic))
  <1>1. /\ D \in Int /\ G \in Int /\ M \in Int /\ l["minSolToOpen"] \in Int
        /\ D >= 100 /\ G >= 0 /\ M >= D /\ l["minSolToOpen"] >= D + G
    BY DEF CanPay, Amounts, LeastDeploy
  <1>2. free \in Int /\ free = b - G /\ free >= D
    BY <1>1 DEF AtLeast
  <1>3. dynamic \in Int /\ 100 * dynamic <= 95 * free
    <2>1. p \in Int /\ p <= 95  BY DEF CanPay, Amounts, Or
    <2> DEFINE n == free * p
    <2>2. free \in Nat  BY <1>1, <1>2
    <2> HIDE DEF p, free
    <2>3. n \in Int /\ n <= 95 * free
      BY <2>1, <2>2, ShareIs
    <2>4. dynamic = n \div 100  OBVIOUS
    <2> HIDE DEF n, dynamic
    <2>5. n \div 100 \in Int /\ 100 * (n \div 100) <= n
      BY <2>3
    <2>6. QED  BY <2>2, <2>3, <2>4, <2>5
  <1> HIDE DEF free, dynamic
  <1>4. x \in Int /\ D <= x /\ x <= M /\ (x <= D \/ x <= dynamic)
    BY <1>1, <1>3 DEF AtMost, AtLeast
  <1>5. computeDeployAmount(l, b) = Rounded(x)
    BY DEF computeDeployAmount, free, dynamic
  <1> HIDE DEF x
  <1>6. Rounded(x) \in Int /\ D <= Rounded(x) /\ Rounded(x) <= M
    BY <1>1, <1>4, RoundedIs
  <1>7. Rounded(x) <= b - G
    <2>1. CASE x <= D
      <3>1. Rounded(x) <= D  BY <1>1, <1>4, <2>1, RoundedIs
      <3>2. QED  BY <1>1, <1>2, <1>6, <3>1
    <2>2. CASE x <= dynamic
      <3>1. Rounded(x) <= dynamic + 5
        BY <1>3, <1>4, <1>6, <2>2, RoundedIs
      <3>2. QED  BY <1>1, <1>2, <1>3, <1>6, <3>1
    <2>3. QED  BY <1>4, <2>1, <2>2
  <1>8. QED
    BY <1>1, <1>5, <1>6, <1>7 DEF AmountAccepted, LeastDeploy, AtLeast

-----------------------------------------------------------------------------
(* The start *)

LEMMA EnvIs ==
    ASSUME NEW e \in Environments, NEW f
    PROVE  /\ StartEnv(e, f).mode = e.mode /\ StartEnv(e, f).allow = e.allow
           /\ StartEnv(e, f).dry = IF e.dry = Absent THEN f["dryRun"] ELSE e.dry
           /\ StartEnv(e, f).key = (e.key \/ f["walletKey"] \notin {Absent, Null})
           /\ e.allow \in BOOLEAN /\ e.key \in BOOLEAN /\ e.mode \in Texts \cup {Absent}
  <1>1. e \in [dry : BOOLEAN \cup {Absent}, allow : BOOLEAN, key : BOOLEAN,
               mode : Texts \cup {Absent}]
    BY SettingsConstants
  <1>2. QED  BY <1>1 DEF StartEnv

\* The amounts of a file that parses are numbers once they are loaded.
LEMMA LoadedAmounts ==
    ASSUME NEW f, IsFile(f)
    PROVE  \A x \in Amounts : Load(f)[x] \in Int
  <1>1. SUFFICES ASSUME NEW x \in Amounts PROVE Load(f)[x] \in Int
    OBVIOUS
  <1>2. x \in PlainFields /\ x \in NumberKeys
    BY PlainFieldsAre, FileKeysAre DEF Amounts, NumberKeys
  <1>3. f[x] \in Numbers  BY <1>2, NumberKeysAre DEF IsFile
  <1>4. Defaults[x] \in Int  BY DEF Amounts, Defaults
  <1>5. Load(f)[x] = Or(f[x], Defaults[x])  BY <1>2, LoadsPlain
  <1>6. QED  BY <1>3, <1>4, <1>5 DEF Numbers, Or

\* The mode the agent finds itself in is the one that the doctor looked at.
LEMMA DoctorSawLive ==
    ASSUME NEW f, NEW e, getExecutionMode(Load(f), e) = "live"
    PROVE  DoctorMode(f, e) = "live"
  <1>1. "executionMode" \in PlainFields  BY PlainFieldsAre
  <1>2. Load(f)["executionMode"] = Or(f["executionMode"], "scanner")
    BY <1>1, LoadsPlain DEF Defaults
  <1>3. CASE e.mode # Absent
    BY <1>3 DEF getExecutionMode, DoctorMode
  <1>4. CASE e.mode = Absent
    BY <1>2, <1>4 DEF getExecutionMode, DoctorMode
  <1>5. QED  BY <1>3, <1>4

LEMMA StartFits ==
    ASSUME FitInv, Start
    PROVE  Doctored'
  <1>1. /\ file # Torn /\ live' = Load(file) /\ penv' = StartEnv(env, file)
        /\ \/ runConfigDoctor(file, Load(file), StartEnv(env, file))
           \/ DoctorMode(file, StartEnv(env, file)) # "live"
    BY DEF Start
  <1>2. IsFile(file)  BY <1>1 DEF FitInv, IInv, StateTyped
  <1> DEFINE l == Load(file)
             e == StartEnv(env, file)
  <1>3. SUFFICES ASSUME getExecutionMode(l, e) = "live"
                 PROVE  checkLiveExecutionAllowed(l, e) /\ CanPay(l)
    BY <1>1 DEF Doctored, Mode
  <1>4. DoctorMode(file, e) = "live" /\ runConfigDoctor(file, l, e)
    BY <1>1, <1>3, DoctorSawLive
  <1>5. \A x \in Amounts : l[x] \in Int
    BY <1>2, LoadedAmounts
  <1>6. /\ DoctorDryRun(file, e) # TRUE /\ e.allow
        /\ e.key \/ file["walletKey"] \notin {Absent, Null}
    BY <1>4 DEF runConfigDoctor, LiveErrors
  <1>7. e.key
    BY <1>6, EnvIs DEF FitInv
  <1>8. ~DryRun(e)
    BY <1>6 DEF DoctorDryRun, DryRun
  <1> HIDE DEF l, e
  <1>9. CanPay(l)
    BY <1>4, <1>5 DEF runConfigDoctor, AmountErrors, CanPay, Amounts
  <1>10. QED  BY <1>3, <1>6, <1>7, <1>8, <1>9 DEF checkLiveExecutionAllowed

-----------------------------------------------------------------------------
(* The steps *)

\* What is asked of a live process lies in these fields.
LEMMA SameFits ==
    ASSUME FitInv, up' => up, penv' = penv, Untouched' => Untouched,
           \A x \in Amounts \cup {"executionMode"} : live'[x] = live[x]
    PROVE  up' => Doctored'
  <1>1. live'["executionMode"] = live["executionMode"]
    OBVIOUS
  <1>2. getExecutionMode(live', penv') = getExecutionMode(live, penv)
    BY <1>1 DEF getExecutionMode
  <1>3. CanPay(live) => CanPay(live')
    BY DEF CanPay, Amounts
  <1>4. checkLiveExecutionAllowed(live, penv) => checkLiveExecutionAllowed(live', penv')
    BY <1>2 DEF checkLiveExecutionAllowed
  <1>5. QED  BY <1>2, <1>3, <1>4 DEF FitInv, Doctored, Mode

LEMMA EvolveFits ==
    ASSUME FitInv, Evolve
    PROVE  Doctored'
  <1>1. PICK worst \in {70, 95} :
            LET new == EvolvedOrganic(live["minOrganic"], worst)
                saved == [Parsed EXCEPT !["minOrganic"] = new]
            IN  live' = Reload([live EXCEPT !["minOrganic"] = new], saved)
    BY DEF Evolve
  <1> DEFINE v == EvolvedOrganic(live["minOrganic"], worst)
             g == [Parsed EXCEPT !["minOrganic"] = v]
             m == [live EXCEPT !["minOrganic"] = v]
  <1>2. live' = Reload(m, g)  BY <1>1
  <1> HIDE DEF v, g
  <1>3. IsLive(live)  BY DEF FitInv, IInv, StateTyped
  <1>4. ASSUME NEW x \in Amounts \cup {"executionMode"}
        PROVE  live'[x] = live[x]
    <2>1. /\ x \in PlainFields /\ x \in Fields /\ x \notin BinFields
          /\ x \notin ScreeningFields
      BY <1>4, PlainFieldsAre, FieldsAre DEF Amounts, BinFields, ScreeningFields
    <2>2. m[x] = live[x]  BY <1>3, <2>1 DEF IsLive, ScreeningFields
    <2> HIDE DEF m
    <2>3. Reload(m, g)[x] = m[x]  BY <2>1 DEF Reload
    <2>4. QED  BY <1>2, <2>2, <2>3
  <1>5. up /\ up' = up /\ penv' = penv /\ (Untouched' => Untouched)
    BY DEF Evolve, Counted, Unsaved, Untouched
  <1>6. QED  BY <1>4, <1>5, SameFits

LEMMA AgentIdFits ==
    ASSUME FitInv, FindAgentId \/ MakeAgentId
    PROVE  Doctored'
  <1>1. PICK v : /\ live' = [live EXCEPT !["agentId"] = v]
                 /\ up /\ UNCHANGED <<up, env, penv, seen, call, drift>>
    BY DEF FindAgentId, MakeAgentId, Counted, Unsaved
  <1>2. IsLive(live)  BY DEF FitInv, IInv, StateTyped
  <1>3. \A x \in Amounts \cup {"executionMode"} : live'[x] = live[x]
    BY <1>1, <1>2, FieldsAre DEF IsLive, Amounts
  <1>4. Untouched' => Untouched  BY <1>1 DEF Untouched
  <1>5. QED  BY <1>1, <1>3, <1>4, SameFits

LEMMA StepFits ==
    ASSUME FitInv, [Next]_vars
    PROVE  FitInv'
  <1>1. IInv'  BY StepInv DEF FitInv
  <1>2. env' = env
    BY DEF Next, Start, Dies, DiesWriting, Down, UpdateConfig, MenuStep, UpdateWith,
           Unsaved, Evolve, FindAgentId, MakeAgentId, OtherReads, OtherWrites,
           OtherDiesWriting, Repair, CallStarts, CallSends, AutoSwap, CallEnds, vars
  <1>3. Doctored'
    <2>1. CASE Start  BY <2>1, StartFits
    <2>2. CASE Dies \/ DiesWriting
      BY <2>2 DEF Dies, DiesWriting, Down, Doctored
    <2>3. CASE UpdateConfig \/ MenuStep
      <3>1. "updated" \in drift'
        BY <2>3 DEF UpdateConfig, MenuStep, UpdateWith
      <3>2. QED  BY <3>1 DEF Doctored, Untouched
    <2>4. CASE Evolve  BY <2>4, EvolveFits
    <2>5. CASE \/ OtherReads \/ OtherWrites \/ OtherDiesWriting
               \/ Repair \/ CallStarts \/ CallSends \/ AutoSwap \/ CallEnds
               \/ UNCHANGED vars
      <3>1. UNCHANGED <<live, up, penv>> /\ (drift' = drift \/ drift' = Edited)
        BY <2>5 DEF OtherReads, OtherWrites,
              OtherDiesWriting, Repair, CallStarts, CallSends, AutoSwap, CallEnds, vars
      <3>2. Untouched' => Untouched  BY <3>1 DEF Untouched, Edited, FitInv, IInv, StateTyped
      <3>3. QED  BY <3>1, <3>2, SameFits DEF Doctored
    <2>6. CASE FindAgentId \/ MakeAgentId  BY <2>6, AgentIdFits
    <2>7. QED  BY <2>1, <2>2, <2>3, <2>4, <2>5, <2>6 DEF Next
  <1>4. QED  BY <1>1, <1>2, <1>3 DEF FitInv

-----------------------------------------------------------------------------
(* The theorem *)

LEMMA LiveFits ==
    ASSUME FitInv
    PROVE  LiveStartCanDeploy
  <1>1. SUFFICES ASSUME up, Mode = "live", Untouched,
                        Hundredths(live["deployAmountSol"]),
                        Hundredths(live["maxDeployAmount"]),
                        live["deployAmountSol"] >= LeastDeploy,
                        Or(live["positionSizePct"], 35) <= 95
                 PROVE  /\ checkLiveExecutionAllowed(live, penv)
                        /\ \A b \in {live["minSolToOpen"], live["minSolToOpen"] + 336,
                                     4 * live["minSolToOpen"], 40 * live["minSolToOpen"]} :
                              AmountAccepted(live, penv, computeDeployAmount(live, b), b)
    BY DEF LiveStartCanDeploy, Untouched
  <1>2. checkLiveExecutionAllowed(live, penv) /\ CanPay(live)
    BY <1>1 DEF FitInv, Doctored
  <1>3. live["minSolToOpen"] \in Int /\ live["minSolToOpen"] >= 0
    BY <1>2 DEF CanPay, Amounts
  <1>4. ASSUME NEW b \in {live["minSolToOpen"], live["minSolToOpen"] + 336,
                          4 * live["minSolToOpen"], 40 * live["minSolToOpen"]}
        PROVE  b \in Int /\ b >= live["minSolToOpen"]
    BY <1>3
  <1>5. QED  BY <1>1, <1>2, <1>4, AmountFits

LEMMA GatesDoAgree == GatesAgree
  BY DEF GatesAgree, runExecutionGate, checkLiveExecutionAllowed, ModeGate,
         AmountAccepted

\* A live process whose settings were not updated since its start can deploy
\* with the balances named, if it deploys at most 95% of what is free, and
\* execute_intent's gate passes nothing that the checks before a deploy refuse
\* (config-doctor.js, config.js, execution-modes.js, executor.js).
THEOREM GatesAlwaysFit == Spec => []GatesFit
  <1>1. Init => FitInv
    BY InitInv DEF Init, FitInv, Doctored
  <1>2. FitInv /\ [Next]_vars => FitInv'
    BY StepFits
  <1>3. FitInv => GatesFit
    BY LiveFits, GatesDoAgree DEF GatesFit
  <1>4. QED  BY <1>1, <1>2, <1>3, PTL DEF Spec
=============================================================================
