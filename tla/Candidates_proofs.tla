-------------------------- MODULE Candidates_proofs --------------------------
(***************************************************************************)
(* Proofs about Candidates: a deployer blocked all along is dropped unless *)
(* nobody knew it, and staged signals serve once and in time, for any      *)
(* pools, tokens and deployers, limits and bounds.                         *)
(***************************************************************************)
EXTENDS Candidates, FiniteSetTheorems, SequenceTheorems, TLAPS

-----------------------------------------------------------------------------
(* Filtering a sequence, and induction along one. *)

Rank(K, i) == Cardinality({j \in K : j <= i})

\* The members of a finite set of numbers have the ranks from 1 to its size.
LEMMA Ranked ==
    ASSUME NEW n \in Nat, NEW K \in SUBSET (1 .. n)
    PROVE  /\ Cardinality(K) \in Nat
           /\ \A k \in 1 .. Cardinality(K) : \E i \in K : Rank(K, i) = k
<1> DEFINE Below(i) == {j \in K : j <= i}
           f == [i \in K |-> Rank(K, i)]
           m == Cardinality(K)
<1>1. IsFiniteSet(K) /\ m \in Nat
    <2>1. IsFiniteSet(1 .. n)
        BY FS_Interval
    <2>2. IsFiniteSet(K)
        BY <2>1, FS_Subset
    <2> QED
        BY <2>2, FS_CardinalityType
<1>2. IsFiniteSet(1 .. m) /\ Cardinality(1 .. m) = m
    BY <1>1, FS_Interval
<1>3. ASSUME NEW i \in K
      PROVE  /\ IsFiniteSet(Below(i)) /\ Rank(K, i) \in 1 .. m
    <2>1. Below(i) \in SUBSET K /\ i \in Below(i)
        OBVIOUS
    <2>2. IsFiniteSet(Below(i)) /\ Rank(K, i) <= m /\ Rank(K, i) \in Nat
        BY <1>1, <2>1, FS_Subset, FS_CardinalityType DEF Rank
    <2>3. Rank(K, i) # 0
        <3> DEFINE B == Below(i)
        <3>1. IsFiniteSet(B) /\ B # {} /\ Rank(K, i) = Cardinality(B)
            BY <2>1, <2>2 DEF Rank
        <3> HIDE DEF B
        <3> QED
            BY <3>1, FS_EmptySet
    <2> QED
        BY <1>1, <2>2, <2>3
<1>4. ASSUME NEW i \in K, NEW j \in K, i < j
      PROVE  Rank(K, i) # Rank(K, j)
    <2>0. \A x \in K : x \in Int
        OBVIOUS
    <2>1. Below(i) \in SUBSET Below(j)
        <3>1. \A x \in K : x <= i => x <= j
            BY <1>4, <2>0
        <3> QED
            BY <3>1
    <2>2. j <= j /\ ~ (j <= i)
        BY <1>4, <2>0
    <2>3. j \in Below(j) /\ j \notin Below(i)
        BY <2>2
    <2>4. IsFiniteSet(Below(j))
        BY <1>3
    <2> QED
        BY <2>1, <2>3, <2>4, FS_Subset DEF Rank
<1>5. \A i, j \in K : i # j => Rank(K, i) # Rank(K, j)
    BY <1>4
<1>6. f \in Injection(K, 1 .. m)
    BY <1>3, <1>5 DEF Injection, IsInjective
<1>7. f \in Surjection(K, 1 .. m)
    BY <1>2, <1>6, FS_Injection
<1> QED
    BY <1>1, <1>7 DEF Surjection

\* A filter keeps members only, and keeps them typed.
LEMMA KeepMembers ==
    ASSUME NEW S, NEW s \in Seq(S), NEW K \in SUBSET DOMAIN s
    PROVE  /\ Keep(s, K) \in Seq(S)
           /\ \A k \in DOMAIN Keep(s, K) : \E i \in K : Keep(s, K)[k] = s[i]
<1> DEFINE At(k) == CHOOSE i \in K : Rank(K, i) = k
<1>1. K \in SUBSET (1 .. Len(s)) /\ Len(s) \in Nat
    OBVIOUS
<1>2. Cardinality(K) \in Nat
    BY <1>1, Ranked
<1>3. ASSUME NEW k \in 1 .. Cardinality(K) PROVE At(k) \in K
    BY <1>1, Ranked
<1>4. Keep(s, K) = [k \in 1 .. Cardinality(K) |-> s[At(k)]]
    BY DEF Keep, Rank
<1> HIDE DEF At
<1>5. \A k \in 1 .. Cardinality(K) : s[At(k)] \in S
    BY <1>1, <1>3
<1> QED
    BY <1>2, <1>3, <1>4, <1>5

\* What holds of 0 and passes from each number to the next holds up to k.
LEMMA UpTo ==
    ASSUME NEW k \in Nat, NEW S, 0 \in S,
           \A n \in 0 .. k : n < k /\ n \in S => n + 1 \in S
    PROVE  0 .. k \subseteq S
<1> DEFINE bad == (0 .. k) \ S
           F == {0 .. n : n \in bad}
<1> SUFFICES ASSUME bad # {} PROVE FALSE
    OBVIOUS
<1>1. IsFiniteSet(0 .. k)
    BY FS_Interval
<1>2. F \subseteq FiniteSubsetsOf(0 .. k) /\ F # {}
    <2>1. \A x \in F : x \subseteq 0 .. k
        OBVIOUS
    <2> QED
        BY <1>1, <2>1, FS_FiniteSubsetsOfFinite
<1> HIDE DEF F
<1>3. PICK x \in F : \A y \in F : ~ (<<y, x>> \in StrictSubsetOrdering(0 .. k))
    BY <1>1, <1>2, FS_StrictSubsetOrderingWellFounded, WFMin
<1>4. PICK n \in bad : x = 0 .. n
    BY <1>3 DEF F
<1>5. n # 0 /\ n - 1 \in 0 .. k /\ n - 1 < k
    BY <1>4
<1>6. CASE n - 1 \in S
    BY <1>4, <1>5, <1>6
<1>7. CASE n - 1 \notin S
    <2>1. 0 .. (n - 1) \in F
        BY <1>5, <1>7 DEF F
    <2>2. 0 .. (n - 1) \subseteq 0 .. n /\ n \in 0 .. n /\ n \notin 0 .. (n - 1)
        BY <1>4
    <2>3. <<0 .. (n - 1), 0 .. n>> \in StrictSubsetOrdering(0 .. k)
        BY <1>2, <1>4, <2>1, <2>2 DEF StrictSubsetOrdering, F
    <2> QED
        BY <1>3, <1>4, <2>1, <2>3
<1> QED
    BY <1>6, <1>7

-----------------------------------------------------------------------------
(* The screens. *)

Row == [pc : Stages, cands : Seq(Cand), since : SUBSET Devs]

\* Stages behind the gate.
Filtered == {"pvp", "okx", "indicators", "recon", "bins", "agent"}

\* What is known of a candidate's deployer is true; one that has been blocked
\* since the screen began is not known, and Jupiter was asked for it in time.
Fits(pc, since, c) ==
    /\ c.dev \in {NoDev, DevOf[MintOf[c.pool]]}
    /\ DevOf[MintOf[c.pool]] \in since =>
          /\ c.dev = NoDev
          /\ pc = "positions" => c.jup \in {"none", "httpError", "error"}
          /\ pc \in Filtered => c.jup \in {"none", "httpError"}

AllFit(pc, since, cands) == \A i \in DOMAIN cands : Fits(pc, since, cands[i])

RowOk(r, b) ==
    r \in Row /\ r.since \subseteq b /\ AllFit(r.pc, r.since, r.cands)

ScreensInv ==
    /\ blocked \subseteq Devs
    /\ screen \in [Screens -> Row]
    /\ \A s \in Screens : RowOk(screen[s], blocked)

\* A filter over candidates that fit leaves candidates that fit.
LEMMA KeepFits ==
    ASSUME NEW cands \in Seq(Cand), NEW K \in SUBSET DOMAIN cands,
           NEW pc, NEW since, \A i \in K : Fits(pc, since, cands[i])
    PROVE  Keep(cands, K) \in Seq(Cand) /\ AllFit(pc, since, Keep(cands, K))
    BY KeepMembers DEF AllFit

LEMMA IdleOk == ASSUME NEW b PROVE RowOk(Idle, b)
<1>1. <<>> \in Seq(Cand) /\ DOMAIN <<>> = {}
    OBVIOUS
<1> QED
    BY <1>1 DEF RowOk, Row, Idle, Stages, AllFit

\* A screen's own row is all that its step changes.
LEMMA RowChanges ==
    ASSUME ScreensInv, NEW s \in Screens, NEW r, RowOk(r, blocked),
           screen' = [screen EXCEPT ![s] = r], blocked' = blocked
    PROVE  ScreensInv'
    BY DEF ScreensInv, RowOk

LEMMA GotoFits ==
    ASSUME ScreensInv, NEW s \in Screens, NEW pc \in Stages, NEW cands \in Seq(Cand),
           AllFit(pc, screen[s].since, cands), Goto(s, pc, cands), blocked' = blocked
    PROVE  ScreensInv'
<1> DEFINE r == [screen[s] EXCEPT !.pc = pc, !.cands = cands]
<1>1. screen' = [screen EXCEPT ![s] = r]
    BY DEF Goto
<1>2. screen[s] \in Row /\ screen[s].since \subseteq blocked
    BY DEF ScreensInv, RowOk
<1>3. r \in Row /\ r.pc = pc /\ r.cands = cands /\ r.since = screen[s].since
    BY <1>2 DEF Row
<1> HIDE DEF r
<1>4. RowOk(r, blocked)
    BY <1>2, <1>3 DEF RowOk
<1> QED
    BY <1>1, <1>4, RowChanges

\* Behind the gate a candidate fits every stage alike.
LEMMA FitsBehind ==
    ASSUME NEW pc \in Filtered, NEW q \in Filtered, NEW since, NEW c, Fits(pc, since, c)
    PROVE  Fits(q, since, c)
    BY DEF Fits, Filtered

LEMMA AllFitBehind ==
    ASSUME NEW pc \in Filtered, NEW q \in Filtered, NEW since, NEW cands,
           AllFit(pc, since, cands)
    PROVE  AllFit(q, since, cands)
    BY FitsBehind DEF AllFit

LEMMA PresentFits ==
    ASSUME ScreensInv, NEW s \in Screens, NEW cands \in Seq(Cand), NEW pc \in Filtered,
           AllFit(pc, screen[s].since, cands), Present(s, cands), blocked' = blocked
    PROVE  ScreensInv'
<1>1. CASE s = "cycle" /\ cands # <<>>
    <2>1. screen' = [screen EXCEPT ![s] = [@ EXCEPT !.pc = "recon", !.cands = cands]]
        BY <1>1 DEF Present
    <2>2. Goto(s, "recon", cands)
        BY <2>1 DEF Goto
    <2>3. AllFit("recon", screen[s].since, cands)
        BY AllFitBehind DEF Filtered
    <2> QED
        BY <2>2, <2>3, GotoFits DEF Stages
<1>2. CASE ~ (s = "cycle" /\ cands # <<>>)
    <2>1. screen' = [screen EXCEPT ![s] = Idle]
        BY <1>2 DEF Present
    <2> QED
        BY <2>1, IdleOk, RowChanges
<1> QED
    BY <1>1, <1>2

LEMMA OnwardFits ==
    ASSUME ScreensInv, NEW s \in Screens, NEW cands \in Seq(Cand), NEW q \in Filtered,
           AllFit(q, screen[s].since, cands),
           NEW pc \in {"done", "pvp", "okx", "indicators"}, Onward(s, pc, cands),
           blocked' = blocked
    PROVE  ScreensInv'
<1>1. CASE pc = "done" \/ cands = <<>>
    BY <1>1, PresentFits DEF Onward
<1>2. CASE ~ (pc = "done" \/ cands = <<>>)
    <2>1. pc \in Filtered /\ pc \in Stages
        BY <1>2 DEF Filtered, Stages
    <2> QED
        BY <1>2, <2>1, AllFitBehind, GotoFits DEF Onward
<1> QED
    BY <1>1, <1>2

\* A function over the places of a sequence is a sequence.
LEMMA RetypedSeq ==
    ASSUME NEW S, NEW s \in Seq(S), NEW g, g = [i \in DOMAIN s |-> g[i]],
           NEW T, \A i \in DOMAIN s : g[i] \in T
    PROVE  g \in Seq(T) /\ DOMAIN g = DOMAIN s
<1>1. Len(s) \in Nat /\ DOMAIN s = 1 .. Len(s)
    OBVIOUS
<1>2. g \in [1 .. Len(s) -> T]
    BY <1>1
<1> QED
    BY <1>1, <1>2

\* What a screen holds, typed.
LEMMA RowTyped ==
    ASSUME ScreensInv, NEW s \in Screens
    PROVE  /\ screen[s] \in Row /\ screen[s].cands \in Seq(Cand)
           /\ screen[s].since \subseteq blocked /\ blocked \subseteq Devs
           /\ \A i \in DOMAIN screen[s].cands :
                 /\ screen[s].cands[i] \in Cand
                 /\ Fits(screen[s].pc, screen[s].since, screen[s].cands[i])
<1>1. screen[s] \in Row /\ RowOk(screen[s], blocked) /\ blocked \subseteq Devs
    BY DEF ScreensInv
<1>2. screen[s].cands \in Seq(Cand)
    BY <1>1 DEF Row
<1> QED
    BY <1>1, <1>2 DEF RowOk, AllFit

LEMMA KnownDeployer ==
    ASSUME NEW c \in Cand
    PROVE  DevOf[MintOf[c.pool]] \in Devs /\ DevOf[MintOf[c.pool]] # NoDev
    BY CandidatesAssumption DEF Cand, JupAnswers

LEMMA DiscoverFits ==
    ASSUME ScreensInv, NEW s \in Screens, Discover(s)
    PROVE  ScreensInv'
<1>1. PICK verdict \in [Pools -> PassVerdicts], told \in SUBSET Pools :
        LET found == {p \in Pools : verdict[p] /\ MintOf[p] \notin blacklist}
            Made(p) == [pool |-> p, jup |-> "unasked",
                        dev |-> IF p \in told THEN DevOf[MintOf[p]] ELSE NoDev]
            pools == {c \in {Made(p) : p \in found} : c.dev \notin blocked}
        IN  \E cands \in SetToSeqs(pools) :
                Goto(s, IF blocked # {} /\ Missing(cands) # {} THEN "lookup" ELSE "positions",
                     cands)
    BY DEF Discover
<1> DEFINE found == {p \in Pools : verdict[p] /\ MintOf[p] \notin blacklist}
           Made(p) == [pool |-> p, jup |-> "unasked",
                       dev |-> IF p \in told THEN DevOf[MintOf[p]] ELSE NoDev]
           pools == {c \in {Made(p) : p \in found} : c.dev \notin blocked}
<1>2. PICK cands \in SetToSeqs(pools) :
         Goto(s, IF blocked # {} /\ Missing(cands) # {} THEN "lookup" ELSE "positions", cands)
    BY <1>1
<1>3. \A c \in pools : /\ c \in Cand /\ c = Made(c.pool)
                        /\ c.dev \in {NoDev, DevOf[MintOf[c.pool]]}
                        /\ c.dev \notin blocked
    BY CandidatesAssumption DEF Cand, JupAnswers
<1> HIDE DEF pools
<1>4. IsFiniteSet(pools)
    <2> DEFINE f == [c \in pools |-> c.pool]
    <2>1. f \in Injection(pools, Pools)
        BY <1>3 DEF Injection, IsInjective, Cand
    <2> QED
        BY <2>1, CandidatesAssumption, FS_Injection
<1>5. cands \in Seq(Cand) /\ \A i \in DOMAIN cands : cands[i] \in pools
    <2>1. Cardinality(pools) \in Nat
        BY <1>4, FS_CardinalityType
    <2>2. cands \in [1 .. Cardinality(pools) -> pools]
        BY <1>2 DEF SetToSeqs
    <2> QED
        BY <1>3, <2>1, <2>2
<1> DEFINE pc == IF blocked # {} /\ Missing(cands) # {} THEN "lookup" ELSE "positions"
<1>6. AllFit(pc, screen[s].since, cands)
    <2> SUFFICES ASSUME NEW i \in DOMAIN cands PROVE Fits(pc, screen[s].since, cands[i])
        BY DEF AllFit
    <2>1. /\ cands[i] \in Cand /\ cands[i].dev \in {NoDev, DevOf[MintOf[cands[i].pool]]}
          /\ cands[i].dev \notin blocked
        BY <1>3, <1>5
    <2>2. CASE DevOf[MintOf[cands[i].pool]] \in screen[s].since
        <3>1. blocked # {} /\ cands[i].dev = NoDev
            BY <2>1, <2>2, RowTyped
        <3>2. pc = "lookup"
            BY <3>1 DEF Missing
        <3> QED
            BY <3>1, <3>2 DEF Fits, Filtered
    <2>3. CASE DevOf[MintOf[cands[i].pool]] \notin screen[s].since
        BY <2>1, <2>3 DEF Fits
    <2> QED
        BY <2>2, <2>3
<1>7. pc \in Stages /\ blocked' = blocked
    BY DEF Stages, Discover
<1> QED
    BY <1>2, <1>5, <1>6, <1>7, GotoFits

LEMMA LookupFits ==
    ASSUME ScreensInv, NEW s \in Screens, Lookup(s)
    PROVE  ScreensInv'
<1> DEFINE cands == screen[s].cands
           Asked(answer, i, c) ==
                IF i \notin DOMAIN answer THEN c
                ELSE [c EXCEPT !.jup = answer[i],
                               !.dev = IF answer[i] = "ok" THEN DevOf[MintOf[c.pool]] ELSE @]
           Told(answer) == [i \in DOMAIN cands |-> Asked(answer, i, cands[i])]
           Kept(asked) == {i \in DOMAIN asked : asked[i].jup = "ok" => asked[i].dev \notin blocked}
<1>1. PICK answer \in [Missing(cands) -> JupAnswers] :
         Goto(s, "positions", Keep(Told(answer), Kept(Told(answer))))
    BY DEF Lookup
<1> DEFINE asked == Told(answer)
<1>2. cands \in Seq(Cand) /\ Missing(cands) \subseteq DOMAIN cands
    BY RowTyped DEF Missing
<1>3. ASSUME NEW i \in DOMAIN cands
      PROVE  asked[i] \in Cand /\ (i \in Kept(asked) => Fits("positions", screen[s].since, asked[i]))
    <2> DEFINE c == cands[i]
               dev == DevOf[MintOf[c.pool]]
    <2>1. c \in Cand /\ c.dev \in {NoDev, dev} /\ (dev \in screen[s].since => c.dev = NoDev)
        BY RowTyped DEF Fits
    <2>2. dev \in Devs /\ dev # NoDev /\ screen[s].since \subseteq blocked
        BY <2>1, KnownDeployer, RowTyped
    <2>3. CASE i \notin Missing(cands)
        <3>1. asked[i] = c /\ c.dev # NoDev
            BY <2>3 DEF Missing
        <3> QED
            BY <2>1, <3>1 DEF Fits
    <2>4. CASE i \in Missing(cands)
        <3> DEFINE a == answer[i]
                   new == [c EXCEPT !.jup = a, !.dev = IF a = "ok" THEN dev ELSE @]
        <3>1. asked[i] = new /\ c.dev = NoDev /\ a \in JupAnswers
            BY <2>4 DEF Missing
        <3>2. /\ new \in Cand /\ new.pool = c.pool /\ new.jup = a
              /\ new.dev = IF a = "ok" THEN dev ELSE NoDev
            BY <2>1, <2>2, <3>1 DEF Cand, JupAnswers
        <3> HIDE DEF new, a
        <3>3. i \in Kept(asked) => (a = "ok" => dev \notin blocked)
            BY <3>1, <3>2
        <3> QED
            BY <2>2, <3>1, <3>2, <3>3 DEF Fits, Filtered, JupAnswers
    <2> QED
        BY <2>3, <2>4
<1>4. asked \in Seq(Cand) /\ DOMAIN asked = DOMAIN cands
    <2>1. DOMAIN asked = DOMAIN cands /\ asked = [i \in DOMAIN cands |-> asked[i]]
        OBVIOUS
    <2> HIDE DEF asked
    <2> QED
        BY <1>2, <1>3, <2>1, RetypedSeq
<1> HIDE DEF asked, Told
<1>5. /\ Keep(asked, Kept(asked)) \in Seq(Cand)
      /\ AllFit("positions", screen[s].since, Keep(asked, Kept(asked)))
    BY <1>3, <1>4, KeepFits
<1>6. blocked' = blocked /\ "positions" \in Stages
    BY DEF Lookup, Stages
<1> QED
    BY <1>1, <1>5, <1>6, GotoFits DEF asked

LEMMA EligibleFits ==
    ASSUME ScreensInv, NEW s \in Screens, Eligible(s)
    PROVE  ScreensInv'
<1> DEFINE cands == screen[s].cands
           since == screen[s].since
           FreeOf(known, cold) ==
               {i \in DOMAIN cands : /\ MintOf[cands[i].pool] \notin {MintOf[p] : p \in known}
                                     /\ cands[i].pool \notin cold}
           Behind(free) == {i \in DOMAIN free : i <= LimitOf[s] /\ Verified(free[i])}
<1>1. PICK known \in {open, {}}, cold \in SUBSET Pools :
         LET free == Keep(cands, FreeOf(known, cold))
             kept == Keep(free, Behind(free))
         IN  Onward(s, AfterGate(kept), kept)
    BY DEF Eligible
<1> DEFINE free == Keep(cands, FreeOf(known, cold))
           kept == Keep(free, Behind(free))
<1>2. /\ cands \in Seq(Cand) /\ screen[s].pc = "positions"
      /\ \A i \in DOMAIN cands : Fits("positions", since, cands[i])
    BY RowTyped DEF Eligible
<1>3. FreeOf(known, cold) \in SUBSET DOMAIN cands
    OBVIOUS
<1> HIDE DEF FreeOf, cands
<1>4. free \in Seq(Cand) /\ AllFit("positions", since, free)
    BY <1>2, <1>3, KeepFits
<1> HIDE DEF free
<1>5. Behind(free) \in SUBSET DOMAIN free
    OBVIOUS
<1>6. \A i \in Behind(free) : Fits("okx", since, free[i])
    BY <1>4 DEF AllFit, Fits, Verified, Filtered
<1> HIDE DEF Behind
<1>7. kept \in Seq(Cand) /\ AllFit("okx", since, kept)
    BY <1>4, <1>5, <1>6, KeepFits
<1>8. Onward(s, AfterGate(kept), kept)
    BY <1>1 DEF free
<1> HIDE DEF kept
<1>9. AfterGate(kept) \in {"done", "pvp", "okx", "indicators"} /\ blocked' = blocked
    BY DEF AfterGate, Eligible
<1> QED
    BY <1>7, <1>8, <1>9, OnwardFits DEF Filtered

LEMMA PvpFits ==
    ASSUME ScreensInv, NEW s \in Screens, Pvp(s)
    PROVE  ScreensInv'
<1> DEFINE cands == screen[s].cands
           Spared(rivalled) == {i \in DOMAIN cands : BlockPvp => i \notin rivalled}
<1>1. PICK rivalled \in SUBSET (1 .. PvpShortlist) :
         Onward(s, "okx", Keep(cands, Spared(rivalled)))
    BY DEF Pvp
<1>2. /\ cands \in Seq(Cand) /\ screen[s].pc = "pvp"
      /\ \A i \in DOMAIN cands : Fits("pvp", screen[s].since, cands[i])
    BY RowTyped DEF Pvp
<1>3. Spared(rivalled) \in SUBSET DOMAIN cands
    OBVIOUS
<1> HIDE DEF Spared, cands
<1>4. /\ Keep(cands, Spared(rivalled)) \in Seq(Cand)
      /\ AllFit("pvp", screen[s].since, Keep(cands, Spared(rivalled)))
    BY <1>2, <1>3, KeepFits
<1>5. blocked' = blocked
    BY DEF Pvp
<1> QED
    BY <1>1, <1>4, <1>5, OnwardFits DEF Filtered

LEMMA OkxFits ==
    ASSUME ScreensInv, NEW s \in Screens, Okx(s)
    PROVE  ScreensInv'
<1> DEFINE cands == screen[s].cands
           since == screen[s].since
           Filled(told, c) == IF c.dev = NoDev /\ c.pool \in told
                              THEN [c EXCEPT !.dev = DevOf[MintOf[c.pool]]] ELSE c
           All(told) == [i \in DOMAIN cands |-> Filled(told, cands[i])]
           Kept(filled, dropped) ==
               {i \in DOMAIN filled : /\ filled[i].pool \notin dropped
                                      /\ filled[i].dev \notin blocked}
<1>1. PICK told \in SUBSET Pools, dropped \in SUBSET Pools :
         Onward(s, "indicators", Keep(All(told), Kept(All(told), dropped)))
    BY DEF Okx
<1> DEFINE filled == All(told)
<1>2. /\ cands \in Seq(Cand) /\ screen[s].pc = "okx"
      /\ \A i \in DOMAIN cands : cands[i] \in Cand /\ Fits("okx", since, cands[i])
    BY RowTyped DEF Okx
<1>3. ASSUME NEW i \in DOMAIN cands
      PROVE  /\ filled[i] \in Cand
             /\ filled[i].dev \notin blocked => Fits("okx", since, filled[i])
    <2> DEFINE c == cands[i]
               dev == DevOf[MintOf[c.pool]]
               new == [c EXCEPT !.dev = dev]
    <2>1. c \in Cand /\ Fits("okx", since, c)
        BY <1>2
    <2>2. dev \in Devs /\ since \subseteq blocked
        BY <2>1, KnownDeployer, RowTyped
    <2>3. CASE filled[i] = c
        BY <2>1, <2>3
    <2>4. CASE filled[i] = new
        <3>1. new \in Cand /\ new.pool = c.pool /\ new.dev = dev
            BY <2>1, <2>2 DEF Cand, JupAnswers
        <3> HIDE DEF new
        <3> QED
            BY <2>2, <2>4, <3>1 DEF Fits
    <2> QED
        BY <2>3, <2>4
<1>4. filled \in Seq(Cand) /\ DOMAIN filled = DOMAIN cands
    <2>1. filled = [i \in DOMAIN cands |-> filled[i]]
        OBVIOUS
    <2> HIDE DEF filled
    <2> QED
        BY <1>2, <1>3, <2>1, RetypedSeq
<1>5. Onward(s, "indicators", Keep(filled, Kept(filled, dropped)))
    BY <1>1
<1> HIDE DEF filled
<1>6. /\ Keep(filled, Kept(filled, dropped)) \in Seq(Cand)
      /\ AllFit("okx", since, Keep(filled, Kept(filled, dropped)))
    <2>1. Kept(filled, dropped) \in SUBSET DOMAIN filled
        OBVIOUS
    <2>2. \A i \in Kept(filled, dropped) : Fits("okx", since, filled[i])
        BY <1>3, <1>4
    <2> QED
        BY <1>4, <2>1, <2>2, KeepFits
<1>7. blocked' = blocked
    BY DEF Okx
<1> HIDE DEF Kept
<1> QED
    BY <1>5, <1>6, <1>7, OnwardFits DEF Filtered

LEMMA IndicateFits ==
    ASSUME ScreensInv, NEW s \in Screens, Indicate(s)
    PROVE  ScreensInv'
<1> DEFINE cands == screen[s].cands
           Confirmed(verdict) == {i \in DOMAIN cands : verdict[cands[i].pool]}
<1>1. PICK verdict \in [PoolsOf(cands) -> Verdicts] :
         Present(s, Keep(cands, Confirmed(verdict)))
    BY DEF Indicate
<1>2. /\ cands \in Seq(Cand)
      /\ \A i \in DOMAIN cands : Fits("indicators", screen[s].since, cands[i])
    BY RowTyped DEF Indicate
<1>3. Confirmed(verdict) \in SUBSET DOMAIN cands
    OBVIOUS
<1> HIDE DEF Confirmed, cands
<1>4. /\ Keep(cands, Confirmed(verdict)) \in Seq(Cand)
      /\ AllFit("indicators", screen[s].since, Keep(cands, Confirmed(verdict)))
    BY <1>2, <1>3, KeepFits
<1>5. blocked' = blocked
    BY DEF Indicate
<1> QED
    BY <1>1, <1>4, <1>5, PresentFits DEF Filtered

LEMMA ReconFits ==
    ASSUME ScreensInv, Recon
    PROVE  ScreensInv'
<1> DEFINE s == "cycle"
           cands == screen[s].cands
           Passing(barred) == {i \in DOMAIN cands : cands[i].pool \notin barred}
<1>1. PICK barred \in SUBSET Pools :
         \/ screen' = [screen EXCEPT ![s] = Idle]
         \/ Goto(s, "bins", Keep(cands, Passing(barred)))
    BY DEF Recon
<1>2. s \in Screens /\ blocked' = blocked
    BY DEF Screens, Recon
<1>3. /\ cands \in Seq(Cand)
      /\ \A i \in DOMAIN cands : Fits("recon", screen[s].since, cands[i])
    BY <1>2, RowTyped DEF Recon
<1>4. Passing(barred) \in SUBSET DOMAIN cands
    OBVIOUS
<1> HIDE DEF Passing, cands
<1>5. /\ Keep(cands, Passing(barred)) \in Seq(Cand)
      /\ AllFit("recon", screen[s].since, Keep(cands, Passing(barred)))
    BY <1>3, <1>4, KeepFits
<1>6. AllFit("bins", screen[s].since, Keep(cands, Passing(barred)))
    BY <1>5, AllFitBehind DEF Filtered
<1>7. CASE screen' = [screen EXCEPT ![s] = Idle]
    BY <1>2, <1>7, IdleOk, RowChanges
<1>8. CASE Goto(s, "bins", Keep(cands, Passing(barred)))
    BY <1>2, <1>5, <1>6, <1>8, GotoFits DEF Stages
<1> QED
    BY <1>1, <1>7, <1>8

LEMMA BeginFits ==
    ASSUME ScreensInv, NEW s \in Screens, Begin(s)
    PROVE  ScreensInv'
<1> DEFINE r == [pc |-> "discover", cands |-> <<>>, since |-> blocked]
<1>1. screen' = [screen EXCEPT ![s] = r] /\ blocked' = blocked
    BY DEF Begin
<1>2. RowOk(r, blocked)
    <2>1. <<>> \in Seq(Cand) /\ DOMAIN <<>> = {} /\ blocked \subseteq Devs
        BY DEF ScreensInv
    <2> QED
        BY <2>1 DEF RowOk, Row, Stages, AllFit
<1> QED
    BY <1>1, <1>2, RowChanges

LEMMA StageFits ==
    ASSUME ScreensInv, StageAll
    PROVE  ScreensInv'
<1>1. "cycle" \in Screens /\ blocked' = blocked /\ screen["cycle"].pc = "bins"
    BY DEF Screens, StageAll
<1>2. \/ Goto("cycle", "agent", screen["cycle"].cands)
      \/ screen' = [screen EXCEPT !["cycle"] = Idle]
    BY DEF StageAll
<1>3. /\ screen["cycle"].cands \in Seq(Cand)
      /\ AllFit("bins", screen["cycle"].since, screen["cycle"].cands)
    BY <1>1, RowTyped DEF AllFit
<1>4. AllFit("agent", screen["cycle"].since, screen["cycle"].cands)
    BY <1>3, AllFitBehind DEF Filtered
<1>5. CASE Goto("cycle", "agent", screen["cycle"].cands)
    BY <1>1, <1>3, <1>4, <1>5, GotoFits DEF Stages
<1>6. CASE screen' = [screen EXCEPT !["cycle"] = Idle]
    BY <1>1, <1>6, IdleOk, RowChanges
<1> QED
    BY <1>2, <1>5, <1>6

\* What blocks a deployer leaves every screen's own set behind, and what
\* unblocks it takes it out of them all.
LEMMA BlockFits ==
    ASSUME ScreensInv, blockDev
    PROVE  ScreensInv'
<1>1. blocked' \subseteq Devs /\ blocked \subseteq blocked' /\ screen' = screen
    BY DEF ScreensInv, blockDev
<1> QED
    BY <1>1 DEF ScreensInv, RowOk

LEMMA UnblockFits ==
    ASSUME ScreensInv, unblockDev
    PROVE  ScreensInv'
<1>1. PICK d \in blocked :
        /\ blocked' = blocked \ {d}
        /\ screen' = [s \in Screens |-> [screen[s] EXCEPT !.since = @ \ {d}]]
    BY DEF unblockDev
<1>2. ASSUME NEW s \in Screens
      PROVE  screen'[s] \in Row /\ RowOk(screen'[s], blocked')
    <2> DEFINE r == screen[s]
               q == [r EXCEPT !.since = @ \ {d}]
    <2>1. r \in Row /\ r.since \subseteq blocked /\ AllFit(r.pc, r.since, r.cands)
        BY DEF ScreensInv, RowOk
    <2>2. /\ q \in Row /\ q.pc = r.pc /\ q.cands = r.cands /\ q.since = r.since \ {d}
          /\ screen'[s] = q
        BY <1>1, <2>1 DEF Row
    <2> HIDE DEF q
    <2>3. AllFit(r.pc, r.since \ {d}, r.cands)
        BY <2>1 DEF AllFit, Fits
    <2> QED
        BY <1>1, <2>1, <2>2, <2>3 DEF RowOk
<1>3. blocked' \subseteq Devs /\ screen' \in [Screens -> Row]
    BY <1>1, <1>2 DEF ScreensInv
<1> QED
    BY <1>2, <1>3 DEF ScreensInv

LEMMA RestartFits ==
    ASSUME ScreensInv, Restart
    PROVE  ScreensInv'
<1>1. screen' = [s \in Screens |-> Idle] /\ blocked' = blocked
    BY DEF Restart
<1>2. Idle \in Row /\ RowOk(Idle, blocked)
    BY IdleOk DEF RowOk
<1> QED
    BY <1>1, <1>2 DEF ScreensInv

LEMMA InitScreens == Init => ScreensInv
<1> SUFFICES ASSUME Init PROVE ScreensInv
    OBVIOUS
<1>1. screen = [s \in Screens |-> Idle] /\ blocked = {}
    BY DEF Init
<1>2. Idle \in Row /\ RowOk(Idle, blocked)
    BY IdleOk DEF RowOk
<1> QED
    BY <1>1, <1>2 DEF ScreensInv

LEMMA StepScreens == ScreensInv /\ [Next]_vars => ScreensInv'
<1> SUFFICES ASSUME ScreensInv, [Next]_vars PROVE ScreensInv'
    OBVIOUS
<1>1. ASSUME NEW s \in Screens,
             \/ Begin(s) \/ Discover(s) \/ Lookup(s) \/ Eligible(s) \/ Pvp(s) \/ Okx(s)
             \/ Indicate(s) \/ ScreenFails(s)
      PROVE  ScreensInv'
    <2>1. CASE ScreenFails(s)
        BY <2>1, IdleOk, RowChanges DEF ScreenFails
    <2> QED
        BY <1>1, <2>1, BeginFits, DiscoverFits, LookupFits, EligibleFits, PvpFits, OkxFits,
           IndicateFits
<1>2. CASE Recon \/ StageAll
    BY <1>2, ReconFits, StageFits
<1>3. CASE CycleEnds \/ DeployShown
    <2>1. /\ screen' = [screen EXCEPT !["cycle"] = Idle] /\ blocked' = blocked
          /\ "cycle" \in Screens
        BY <1>3 DEF CycleEnds, DeployShown, Screens
    <2> QED
        BY <2>1, IdleOk, RowChanges
<1>4. CASE blockDev \/ unblockDev \/ Restart
    BY <1>4, BlockFits, UnblockFits, RestartFits
<1>5. CASE screen' = screen /\ blocked' = blocked
    BY <1>5 DEF ScreensInv, RowOk
<1>6. CASE \/ DeployLatest \/ Close \/ addToBlacklist \/ removeFromBlacklist \/ Tick
           \/ UNCHANGED vars
    BY <1>5, <1>6 DEF DeployLatest, Close, addToBlacklist, removeFromBlacklist, Tick, vars
<1> QED
    BY <1>1, <1>2, <1>3, <1>4, <1>6 DEF Next

LEMMA ScreensCorrect == Spec => []ScreensInv
    BY InitScreens, StepScreens, PTL DEF Spec

\* A deployer blocked ever since a screen began is not among its candidates
\* behind the filters, unless nobody told it, an HTTP error of Jupiter
\* included: for any pools, deployers and limits, both screens, and blocks and
\* unblocks between their steps.
THEOREM BlockedCorrect == Spec => []BlockedDeployerIsDropped
<1>1. ScreensInv => BlockedDeployerIsDropped
    BY RowTyped DEF BlockedDeployerIsDropped, Fits, Filtered
<1> QED
    BY <1>1, ScreensCorrect, PTL

-----------------------------------------------------------------------------
(* The staged signals. *)

Use == [serial : Nat, age : Int]

\* The serial numbers of the signals that were taken.
Spent(uses) == {uses[i].serial : i \in DOMAIN uses}

\* The records in a staging area were not taken before, and are of one pool
\* each.
Fresh(a, past, n) ==
    /\ \A p \in DOMAIN a.stage : /\ a.stage[p].at \in Nat
                                 /\ a.stage[p].serial \in (1 .. n) \ past
    /\ \A p, q \in DOMAIN a.stage : a.stage[p].serial = a.stage[q].serial => p = q

SignalsInv ==
    /\ now \in Nat /\ issued \in Nat /\ used \in Seq(Use)
    /\ Spent(used) \subseteq 1 .. issued
    /\ Fresh(staged, Spent(used), issued)
    /\ SignalsServeOnce

\* What is left after the clean-up was there before it, and is in time.
LEMMA CleanupFresh ==
    ASSUME NEW a, NEW past, NEW n \in Nat, NEW t \in Nat, Fresh(a, past, n)
    PROVE  /\ Fresh(cleanupStale(a, t), past, n)
           /\ \A p \in DOMAIN cleanupStale(a, t).stage :
                 t - cleanupStale(a, t).stage[p].at <= Ttl
<1> DEFINE c == cleanupStale(a, t)
<1>1. /\ DOMAIN c.stage \subseteq DOMAIN a.stage
      /\ \A p \in DOMAIN c.stage : c.stage[p] = a.stage[p] /\ ~ (t - a.stage[p].at > Ttl)
    BY DEF cleanupStale, Without
<1> HIDE DEF c
<1>2. Fresh(c, past, n)
    BY <1>1 DEF Fresh
<1>3. \A p \in DOMAIN c.stage : t - c.stage[p].at <= Ttl
    BY <1>1, CandidatesAssumption DEF Fresh
<1> QED
    BY <1>2, <1>3 DEF c

\* A record staged under a new number leaves the area fresh.
LEMMA StageFresh ==
    ASSUME NEW a, NEW past, NEW n \in Nat, NEW t \in Nat, Fresh(a, past, n),
           past \subseteq 1 .. n, NEW p, NEW m
    PROVE  Fresh(stageSignals(a, p, m, n + 1, t), past, n + 1)
<1> DEFINE c == cleanupStale(a, t)
           b == stageSignals(a, p, m, n + 1, t)
<1>1. Fresh(c, past, n)
    BY CleanupFresh
<1>2. /\ DOMAIN b.stage = DOMAIN c.stage \cup {p}
      /\ b.stage[p].at = t /\ b.stage[p].serial = n + 1
      /\ \A q \in DOMAIN b.stage : q # p => q \in DOMAIN c.stage /\ b.stage[q] = c.stage[q]
    BY DEF stageSignals, With
<1> HIDE DEF b, c
<1>3. n + 1 \in (1 .. (n + 1)) \ past /\ n + 1 \notin 1 .. n /\ 1 .. n \subseteq 1 .. (n + 1)
    OBVIOUS
<1>4. ASSUME NEW q \in DOMAIN b.stage
      PROVE  b.stage[q].at \in Nat /\ b.stage[q].serial \in (1 .. (n + 1)) \ past
    <2>1. CASE q = p
        BY <1>2, <1>3, <2>1
    <2>2. CASE q # p
        BY <1>1, <1>2, <1>3, <2>2 DEF Fresh
    <2> QED
        BY <2>1, <2>2
<1>5. ASSUME NEW q \in DOMAIN b.stage, NEW r \in DOMAIN b.stage,
             b.stage[q].serial = b.stage[r].serial
      PROVE  q = r
    <2>1. \A x \in DOMAIN b.stage : x # p => b.stage[x].serial # n + 1
        BY <1>1, <1>2, <1>3 DEF Fresh
    <2>2. CASE q # p /\ r # p
        BY <1>1, <1>2, <1>5, <2>2 DEF Fresh
    <2>3. CASE q = p \/ r = p
        BY <1>2, <1>5, <2>1, <2>3
    <2> QED
        BY <2>2, <2>3
<1>6. Fresh(b, past, n + 1)
    BY <1>4, <1>5 DEF Fresh
<1> QED
    BY <1>6 DEF b

\* One record is found at most.
LEMMA FoundOne ==
    ASSUME NEW a, NEW p, NEW t
    PROVE  Found(a, p, t) = {} \/ \E q \in DOMAIN a.stage : Found(a, p, t) = {q}
    BY DEF Found

LEMMA OneAsSeq ==
    ASSUME NEW x
    PROVE  SetToSeq({x}) = <<x>>
<1> DEFINE f == [i \in 1 .. 1 |-> x]
<1>1. Cardinality({x}) = 1
    BY FS_Singleton
<1>2. f \in [1 .. 1 -> {x}] /\ IsInjective(f)
    BY DEF IsInjective
<1>3. SetToSeq({x}) \in [1 .. 1 -> {x}]
    BY <1>1, <1>2 DEF SetToSeq
<1> QED
    BY <1>3

LEMMA NoneAsSeq == SetToSeq({}) = <<>>
<1> DEFINE f == [i \in 1 .. 0 |-> 0]
<1>1. Cardinality({}) = 0
    BY FS_EmptySet
<1>2. f \in [1 .. 0 -> {}] /\ IsInjective(f)
    BY DEF IsInjective
<1>3. SetToSeq({}) \in [1 .. 0 -> {}]
    BY <1>1, <1>2 DEF SetToSeq
<1> QED
    BY <1>3

\* What is taken has not been taken before, is in time and leaves the area.
LEMMA TakeServes ==
    ASSUME SignalsInv, NEW p, TakeSignals(p), now' = now, issued' = issued
    PROVE  SignalsInv'
<1> DEFINE c == cleanupStale(staged, now)
           found == Found(c, p, MintOf[p])
           Of(r) == [serial |-> r.serial, age |-> now - r.at]
           taken == {c.stage[q] : q \in found}
           uses == {Of(r) : r \in taken}
<1>1. /\ now \in Nat /\ issued \in Nat /\ used \in Seq(Use)
      /\ Spent(used) \subseteq 1 .. issued
    BY DEF SignalsInv
<1>2. /\ Fresh(c, Spent(used), issued)
      /\ \A q \in DOMAIN c.stage : now - c.stage[q].at <= Ttl
    BY CleanupFresh DEF SignalsInv
<1>3. /\ used' = used \o SetToSeq(uses)
      /\ staged' = IF found = {} THEN c ELSE Unstage(c, CHOOSE q \in found : TRUE)
    BY DEF TakeSignals, Taken, Left
<1>4. found = {} \/ \E q \in DOMAIN c.stage : found = {q}
    BY FoundOne
<1> HIDE DEF found, c
<1>5. CASE found = {}
    <2>1. uses = {}
        BY <1>5
    <2> HIDE DEF uses
    <2>2. used' = used \o <<>> /\ staged' = c
        <3>1. SetToSeq(uses) = SetToSeq({})
            BY <2>1
        <3> QED
            BY <1>3, <1>5, <3>1, NoneAsSeq
    <2> QED
        <3>1. used' = used
            BY <1>1, <2>2
        <3> QED
            BY <1>1, <1>2, <2>2, <3>1 DEF SignalsInv, SignalsServeOnce
<1>6. ASSUME NEW q \in DOMAIN c.stage, found = {q}
      PROVE  SignalsInv'
    <2> DEFINE u == Of(c.stage[q])
    <2>1. uses = {u}
        BY <1>6
    <2>2. /\ u \in Use /\ u.age <= Ttl
          /\ u.serial = c.stage[q].serial /\ u.serial \in (1 .. issued) \ Spent(used)
        BY <1>1, <1>2 DEF Fresh, Use
    <2>3. (CHOOSE x \in found : TRUE) = q
        BY <1>6
    <2> HIDE DEF uses, u
    <2>4. used' = Append(used, u)
        <3>1. SetToSeq(uses) = SetToSeq({u})
            BY <2>1
        <3>2. used' = used \o <<u>>
            BY <1>3, <3>1, OneAsSeq
        <3> QED
            BY <1>1, <2>2, <3>2
    <2>5. staged'.stage = Without(c.stage, {q})
        BY <1>3, <1>6, <2>3 DEF Unstage
    <2>6. /\ used' \in Seq(Use) /\ Len(used) \in Nat
          /\ DOMAIN used = 1 .. Len(used) /\ DOMAIN used' = 1 .. (Len(used) + 1)
          /\ \A i \in DOMAIN used : used'[i] = used[i]
          /\ used'[Len(used) + 1] = u
        BY <1>1, <2>2, <2>4, AppendProperties
    <2>7. \A i \in DOMAIN used' : i \in DOMAIN used \/ i = Len(used) + 1
        BY <2>6
    <2>8. Spent(used)' = Spent(used) \cup {u.serial}
        BY <2>6, <2>7 DEF Spent
    <2>9. Fresh(staged, Spent(used), issued)'
        <3> DEFINE d == staged'
                   past == Spent(used)'
        <3>1. /\ DOMAIN d.stage \subseteq DOMAIN c.stage \ {q}
              /\ \A x \in DOMAIN d.stage : d.stage[x] = c.stage[x]
            BY <2>5 DEF Without
        <3>2. past = Spent(used) \cup {c.stage[q].serial}
            BY <2>2, <2>8
        <3> HIDE DEF d, past
        <3>3. Fresh(d, past, issued)
            BY <1>2, <3>1, <3>2 DEF Fresh
        <3> QED
            BY <3>3 DEF d, past, Fresh
    <2>10. SignalsServeOnce'
        <3>1. ASSUME NEW i \in DOMAIN used'
              PROVE  used'[i].age <= Ttl
            BY <2>2, <2>6, <2>7 DEF SignalsInv, SignalsServeOnce
        <3>2. ASSUME NEW i \in DOMAIN used', NEW j \in DOMAIN used',
                     used'[j].serial = used'[i].serial
              PROVE  i = j
            <4>1. \A k \in DOMAIN used : used'[k].serial # u.serial
                BY <2>2, <2>6 DEF Spent
            <4>2. CASE i \in DOMAIN used /\ j \in DOMAIN used
                BY <2>6, <3>2, <4>2 DEF SignalsInv, SignalsServeOnce
            <4>3. CASE ~ (i \in DOMAIN used /\ j \in DOMAIN used)
                BY <2>6, <2>7, <3>2, <4>1, <4>3
            <4> QED
                BY <4>2, <4>3
        <3> QED
            BY <3>1, <3>2 DEF SignalsServeOnce
    <2>11. Spent(used)' \subseteq 1 .. issued
        BY <1>1, <2>2, <2>8
    <2> QED
        BY <1>1, <2>6, <2>9, <2>10, <2>11 DEF SignalsInv
<1> QED
    BY <1>4, <1>5, <1>6

\* A function that is defined along 0 .. k by what it is at 0 and by a step
\* exists: here, the staging area while k candidates are staged in turn.
LEMMA AreaExists ==
    ASSUME NEW k \in Nat, NEW cands
    PROVE  \E f : f = [i \in 0 .. k |->
                   IF i = 0 THEN staged
                   ELSE stageSignals(f[i - 1], cands[i].pool, MintOf[cands[i].pool], issued + i, now)]
<1> DEFINE Step(a, i) == stageSignals(a, cands[i].pool, MintOf[cands[i].pool], issued + i, now)
           Upto(m, f) == f = [i \in 0 .. m |-> IF i = 0 THEN staged ELSE Step(f[i - 1], i)]
           S == {m \in 0 .. k : \E f : Upto(m, f)}
<1> HIDE DEF Step
<1>1. 0 \in S
    <2> DEFINE f == [i \in 0 .. 0 |-> staged]
    <2>1. f = [i \in 0 .. 0 |-> IF i = 0 THEN staged ELSE Step(f[i - 1], i)]
        OBVIOUS
    <2> HIDE DEF f
    <2> QED
        BY <2>1
<1>2. ASSUME NEW m \in 0 .. k, m < k, m \in S
      PROVE  m + 1 \in S
    <2>1. PICK f : Upto(m, f)
        BY <1>2
    <2> DEFINE g == [i \in 0 .. (m + 1) |-> IF i = m + 1 THEN Step(f[m], m + 1) ELSE f[i]]
               h == [i \in 0 .. (m + 1) |-> IF i = 0 THEN staged ELSE Step(g[i - 1], i)]
    <2>2. ASSUME NEW i \in 0 .. (m + 1) PROVE g[i] = h[i]
        <3>1. \A j \in 0 .. m : /\ g[j] = f[j]
                                /\ f[j] = IF j = 0 THEN staged ELSE Step(f[j - 1], j)
            BY <2>1
        <3>2. h[i] = IF i = 0 THEN staged ELSE Step(g[i - 1], i)
            OBVIOUS
        <3>3. g[m + 1] = Step(f[m], m + 1)
            OBVIOUS
        <3> HIDE DEF g, h
        <3>4. CASE i = m + 1
            BY <3>1, <3>2, <3>3, <3>4
        <3>5. CASE i # m + 1
            <4>1. i \in 0 .. m /\ (i # 0 => i - 1 \in 0 .. m)
                BY <3>5
            <4> QED
                BY <3>1, <3>2, <4>1
        <3> QED
            BY <3>4, <3>5
    <2>3. g = h
        <3>1. g = [i \in 0 .. (m + 1) |-> g[i]] /\ h = [i \in 0 .. (m + 1) |-> h[i]]
            OBVIOUS
        <3> HIDE DEF g, h
        <3> QED
            BY <2>2, <3>1
    <2>4. Upto(m + 1, g)
        BY <2>3
    <2> HIDE DEF g
    <2> QED
        BY <1>2, <2>4
<1>3. k \in 0 .. k /\ 0 .. k \subseteq S
    <2> HIDE DEF S
    <2> QED
        BY <1>1, <1>2, UpTo
<1> QED
    BY <1>3 DEF Step

\* Staging the candidates one after another leaves the area fresh.
LEMMA StageServes ==
    ASSUME SignalsInv, ScreensInv, StageAll
    PROVE  SignalsInv'
<1> DEFINE cands == screen["cycle"].cands
           past == Spent(used)
           k == Len(cands)
           area[i \in 0 .. k] ==
               IF i = 0 THEN staged
               ELSE stageSignals(area[i - 1], cands[i].pool, MintOf[cands[i].pool], issued + i, now)
           S == {i \in 0 .. k : Fresh(area[i], past, issued + i)}
<1>1. /\ staged' = area[k] /\ issued' = issued + k
      /\ now' = now /\ used' = used
    BY DEF StageAll
<1>2. /\ now \in Nat /\ issued \in Nat /\ used \in Seq(Use)
      /\ past \subseteq 1 .. issued /\ Fresh(staged, past, issued)
    BY DEF SignalsInv
<1>3. k \in Nat
    <2>1. cands \in Seq(Cand)
        BY RowTyped DEF Screens
    <2> QED
        BY <2>1
<1>4. area = [i \in 0 .. k |->
                 IF i = 0 THEN staged
                 ELSE stageSignals(area[i - 1], cands[i].pool, MintOf[cands[i].pool],
                                   issued + i, now)]
    <2> DEFINE Body(f) == [i \in 0 .. k |->
                   IF i = 0 THEN staged
                   ELSE stageSignals(f[i - 1], cands[i].pool, MintOf[cands[i].pool], issued + i, now)]
    <2> HIDE DEF cands, k
    <2>1. \E f : f = Body(f)
        BY <1>3, AreaExists, Zenon DEF Body
    <2>2. area = CHOOSE f : f = Body(f)
        OBVIOUS
    <2> HIDE DEF Body
    <2>3. area = Body(area)
        BY <2>1, <2>2
    <2> QED
        BY <2>3 DEF Body
<1> HIDE DEF area, k, cands, past
<1>5. 0 \in S
    <2>1. area[0] = staged /\ issued + 0 = issued /\ 0 \in 0 .. k
        BY <1>2, <1>3, <1>4
    <2> QED
        BY <1>2, <2>1
<1>6. ASSUME NEW i \in 0 .. k, i < k, i \in S
      PROVE  i + 1 \in S
    <2> DEFINE b == area[i]
               c == cands[i + 1]
               n == issued + i
    <2>1. i + 1 \in 0 .. k /\ i + 1 # 0 /\ (i + 1) - 1 = i
        BY <1>3, <1>6
    <2>2. area[i + 1] = stageSignals(b, c.pool, MintOf[c.pool], issued + (i + 1), now)
        BY <1>4, <2>1
    <2>3. n \in Nat /\ issued + (i + 1) = n + 1 /\ past \subseteq 1 .. n
        <3>1. i \in Nat
            OBVIOUS
        <3>2. 1 .. issued \subseteq 1 .. n
            BY <1>2, <3>1
        <3> QED
            BY <1>2, <3>1, <3>2
    <2>4. Fresh(b, past, n)
        BY <1>6
    <2> HIDE DEF b, c, n
    <2>5. Fresh(stageSignals(b, c.pool, MintOf[c.pool], n + 1, now), past, n + 1)
        BY <1>2, <2>3, <2>4, StageFresh
    <2> QED
        BY <2>1, <2>2, <2>3, <2>5
<1>7. k \in S
    <2> HIDE DEF S
    <2>1. 0 .. k \subseteq S
        BY <1>3, <1>5, <1>6, UpTo
    <2> QED
        BY <1>3, <2>1
<1>8. Fresh(area[k], past, issued + k)
    BY <1>7
<1>9. past \subseteq 1 .. (issued + k)
    <2>1. 1 .. issued \subseteq 1 .. (issued + k)
        BY <1>2, <1>3
    <2> QED
        BY <1>2, <2>1
<1>10. Fresh(staged, Spent(used), issued)'
    BY <1>1, <1>8 DEF Fresh, Spent, past
<1>11. SignalsServeOnce' /\ Spent(used)' = past
    BY <1>1 DEF SignalsInv, SignalsServeOnce, Spent, past
<1> QED
    BY <1>1, <1>2, <1>3, <1>9, <1>10, <1>11 DEF SignalsInv

LEMMA InitSignals == Init => SignalsInv
<1> SUFFICES ASSUME Init PROVE SignalsInv
    OBVIOUS
<1>1. DOMAIN <<>> = {} /\ <<>> \in Seq(Use) /\ DOMAIN EmptyStage.stage = {}
    BY DEF EmptyStage
<1>2. Spent(used) = {}
    BY <1>1 DEF Init, Spent
<1> QED
    BY <1>1, <1>2 DEF Init, SignalsInv, Fresh, SignalsServeOnce

LEMMA StepSignals == ScreensInv /\ SignalsInv /\ [Next]_vars => SignalsInv'
<1> SUFFICES ASSUME ScreensInv, SignalsInv, [Next]_vars PROVE SignalsInv'
    OBVIOUS
<1>1. CASE now' = now /\ UNCHANGED <<staged, issued, used>>
    BY <1>1 DEF SignalsInv, SignalsServeOnce, Fresh, Spent
<1>2. CASE \E s \in Screens :
             \/ Begin(s) \/ Discover(s) \/ Lookup(s) \/ Eligible(s) \/ Pvp(s) \/ Okx(s)
             \/ Indicate(s) \/ ScreenFails(s)
    BY <1>1, <1>2 DEF Begin, Discover, Lookup, Eligible, Pvp, Okx, Indicate, ScreenFails
<1>3. CASE \/ Recon \/ CycleEnds \/ blockDev \/ unblockDev \/ addToBlacklist
           \/ removeFromBlacklist \/ UNCHANGED vars
    BY <1>1, <1>3 DEF Recon, CycleEnds, blockDev, unblockDev, addToBlacklist,
       removeFromBlacklist, vars
<1>4. CASE StageAll
    BY <1>4, StageServes
<1>5. CASE DeployShown \/ DeployLatest \/ Close
    <2>1. /\ \E p : TakeSignals(p)
          /\ now' = now /\ issued' = issued
        BY <1>5 DEF DeployShown, DeployLatest, Close, Deployed
    <2> QED
        BY <2>1, TakeServes
<1>6. CASE Tick
    <2>1. now \in Nat /\ now' = now + 1 /\ UNCHANGED <<staged, issued, used>>
        BY <1>6 DEF Tick, SignalsInv
    <2> QED
        BY <2>1 DEF SignalsInv, SignalsServeOnce, Fresh, Spent
<1>7. CASE Restart
    <2>1. DOMAIN EmptyStage.stage = {}
        BY DEF EmptyStage
    <2>2. staged' = EmptyStage /\ now' = now /\ UNCHANGED <<issued, used>>
        BY <1>7 DEF Restart
    <2> QED
        BY <2>1, <2>2 DEF SignalsInv, SignalsServeOnce, Fresh, Spent
<1> QED
    BY <1>2, <1>3, <1>4, <1>5, <1>6, <1>7 DEF Next

\* Staged signals are attributed once at most and within their lifetime: for
\* any pools and tokens, however often they are staged again, expire or are
\* taken through the other index.
THEOREM ServeOnceCorrect == Spec => []SignalsServeOnce
<1>1. ScreensInv /\ SignalsInv => SignalsServeOnce
    BY DEF SignalsInv
<1> QED
    BY <1>1, InitScreens, StepScreens, InitSignals, StepSignals, PTL DEF Spec
==============================================================================
