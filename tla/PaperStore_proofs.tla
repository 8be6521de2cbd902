-------------------------- MODULE PaperStore_proofs --------------------------
(***************************************************************************)
(* Proofs about PaperStore: a position whose own calls met nothing is kept *)
(* in exactly one of the two files, and a closed one is not shown, for any *)
(* number of positions, of calls under way together and of faults.         *)
(***************************************************************************)
EXTENDS PaperStore, TLAPS

-----------------------------------------------------------------------------
(* Type correctness. *)

Files == [Positions -> Nat]

Call ==
    {Idle}
    \cup [at : {"deploy", "archive"}, pos : Positions, active : Files]
    \cup [at : {"save"}, pos : Positions, active : Files, archive : Files]
    \cup [at : {"file"}, pos : Positions, archive : Files]

TypeInv ==
    /\ active \in Files \cup {Torn} /\ archive \in Files \cup {Torn}
    /\ calls \in [Callers -> Call]
    /\ deployed \subseteq Positions

\* What a call holds, by where it is.
LEMMA CallFields ==
    ASSUME NEW k \in Call
    PROVE  /\ k.at \in {"idle", "deploy", "archive", "save", "file"}
           /\ k = Idle <=> k.at = "idle"
           /\ k # Idle => k.pos \in Positions
           /\ k.at \in {"deploy", "archive", "save"} => k.active \in Files
           /\ k.at \in {"save", "file"} => k.archive \in Files
    BY DEF Call, Idle

LEMMA LoadTyped ==
    ASSUME NEW file \in Files \cup {Torn}
    PROVE  /\ Load(file) \in Files
           /\ file \in Files => Load(file) = file
           /\ In(file) = {p \in Positions : Load(file)[p] > 0}
    BY PaperDistinct DEF Load, NoFile, Files, In

\* A save that fails costs the position of its call, and what a cut file held.
LEMMA SaveEffect ==
    ASSUME NEW old \in Files \cup {Torn}, NEW new \in Files, NEW q,
           NEW file \in Saved(old, new), Blamed(old, new, file, q)
    PROVE  /\ file \in Files \cup {Torn} /\ tangled \subseteq tangled'
           /\ \A p \in Positions \ tangled' :
                 /\ p = q => Load(file)[p] = new[p]
                 /\ new[p] = Load(old)[p] => Load(file)[p] = Load(old)[p]
<1>1. file \in {old, new, Torn}
    BY DEF Saved
<1>2. CASE file = new
    BY <1>2, LoadTyped DEF Blamed
<1>3. CASE file # new
    <2>1. tangled' = tangled \cup {q} \cup (IF file = Torn THEN In(old) ELSE {})
        BY <1>3 DEF Blamed
    <2>2. CASE file = Torn
        <3>1. \A p \in Positions \ In(old) : Load(old)[p] = 0
            BY LoadTyped DEF Files
        <3>2. \A p \in Positions : Load(file)[p] = 0
            BY <2>2 DEF Load, NoFile
        <3> QED
            BY <2>1, <2>2, <3>1, <3>2
    <2>3. CASE file # Torn
        BY <1>1, <1>3, <2>1, <2>3
    <2> QED
        BY <2>2, <2>3
<1> QED
    BY <1>2, <1>3

\* One call's own state is all that its step changes of the calls.
LEMMA CallChanges ==
    ASSUME TypeInv, NEW c \in Callers, NEW k, calls' = [calls EXCEPT ![c] = k]
    PROVE  /\ calls'[c] = k
           /\ \A d \in Callers \ {c} : calls'[d] = calls[d]
           /\ k \in Call => calls' \in [Callers -> Call]
    BY DEF TypeInv

\* The steps of the calls, each with what it does to the files.
LEMMA DeployLoadsEffect ==
    ASSUME TypeInv, NEW c \in Callers, NEW q \in Positions, DeployLoads(c, q)
    PROVE  LET k == [at |-> "deploy", pos |-> q, active |-> Load(active)]
           IN  k \in Call /\ calls' = [calls EXCEPT ![c] = k] /\ k.active = Load(active)
<1>1. Load(active) \in Files
    BY LoadTyped DEF TypeInv
<1> QED
    BY <1>1 DEF DeployLoads, Starts, Call

LEMMA CloseLoadsEffect ==
    ASSUME TypeInv, NEW c \in Callers, NEW q \in Positions, CloseLoads(c, q)
    PROVE  LET k == [at |-> "archive", pos |-> q, active |-> [active EXCEPT ![q] = @ - 1]]
           IN  /\ k \in Call /\ calls' = [calls EXCEPT ![c] = k]
               /\ Load(active)[q] > 0
               /\ k.active[q] = Load(active)[q] - 1
               /\ \A p \in Positions \ {q} : k.active[p] = Load(active)[p]
<1> DEFINE new == [active EXCEPT ![q] = @ - 1]
           k == [at |-> "archive", pos |-> q, active |-> new]
<1>1. Load(active)[q] > 0
    BY DEF CloseLoads, In
<1>2. active \in Files /\ Load(active) = active
    BY <1>1, LoadTyped DEF TypeInv, Load, NoFile
<1>3. /\ new \in Files /\ new[q] = active[q] - 1
      /\ \A p \in Positions \ {q} : new[p] = active[p]
    BY <1>1, <1>2 DEF Files
<1>4. calls' = [calls EXCEPT ![c] = k]
    BY DEF CloseLoads, Starts
<1> HIDE DEF new
<1>5. k \in Call
    BY <1>3 DEF Call
<1> QED
    BY <1>1, <1>2, <1>3, <1>4, <1>5 DEF new

LEMMA DeploySavesEffect ==
    ASSUME TypeInv, NEW c \in Callers, DeploySaves(c)
    PROVE  LET q == calls[c].pos
               new == [calls[c].active EXCEPT ![q] = @ + 1]
           IN  /\ calls[c].at = "deploy" /\ q \in Positions
               /\ new \in Files /\ new[q] = calls[c].active[q] + 1
               /\ \A p \in Positions \ {q} : new[p] = calls[c].active[p]
               /\ active' \in Saved(active, new) /\ Blamed(active, new, active', q)
               /\ deployed' = deployed \cup {q} /\ UNCHANGED <<archive, closed>>
               /\ calls' = [calls EXCEPT ![c] = Idle]
<1>1. calls[c] \in Call /\ calls[c].at = "deploy"
    BY DEF TypeInv, DeploySaves
<1>2. calls[c].pos \in Positions /\ calls[c].active \in Files
    BY <1>1, CallFields
<1> DEFINE q == calls[c].pos
           new == [calls[c].active EXCEPT ![q] = @ + 1]
<1>3. /\ new \in Files /\ new[q] = calls[c].active[q] + 1
      /\ \A p \in Positions \ {q} : new[p] = calls[c].active[p]
    BY <1>2 DEF Files
<1>4. /\ active' \in Saved(active, new) /\ Blamed(active, new, active', q)
      /\ deployed' = deployed \cup {q} /\ UNCHANGED <<archive, closed>>
      /\ calls' = [calls EXCEPT ![c] = Idle]
    BY DEF DeploySaves, Ends
<1> QED
    BY <1>1, <1>2, <1>3, <1>4

LEMMA CloseLoadsArchiveEffect ==
    ASSUME TypeInv, NEW c \in Callers, CloseLoadsArchive(c)
    PROVE  LET q == calls[c].pos
               new == [Load(archive) EXCEPT ![q] = @ + 1]
               k == [at |-> "save", pos |-> q, active |-> calls[c].active,
                     archive |-> new]
           IN  /\ calls[c].at = "archive" /\ q \in Positions
               /\ k \in Call /\ calls' = [calls EXCEPT ![c] = k]
               /\ k.archive[q] = Load(archive)[q] + 1
               /\ \A p \in Positions \ {q} : k.archive[p] = Load(archive)[p]
<1> DEFINE q == calls[c].pos
           new == [Load(archive) EXCEPT ![q] = @ + 1]
           k == [at |-> "save", pos |-> q, active |-> calls[c].active,
                 archive |-> new]
<1>1. calls[c] \in Call /\ calls[c].at = "archive"
    BY DEF TypeInv, CloseLoadsArchive
<1>2. q \in Positions /\ calls[c].active \in Files
    BY <1>1, CallFields
<1>3. /\ new \in Files /\ new[q] = Load(archive)[q] + 1
      /\ \A p \in Positions \ {q} : new[p] = Load(archive)[p]
    <2>1. Load(archive) \in Files
        BY LoadTyped DEF TypeInv
    <2> QED
        BY <1>2, <2>1 DEF Files
<1>4. calls' = [calls EXCEPT ![c] = k]
    BY DEF CloseLoadsArchive
<1> HIDE DEF new
<1>5. k \in Call
    BY <1>2, <1>3 DEF Call
<1> QED
    BY <1>1, <1>2, <1>3, <1>4, <1>5 DEF new

LEMMA CloseSavesEffect ==
    ASSUME TypeInv, NEW c \in Callers, CloseSaves(c)
    PROVE  LET q == calls[c].pos
               k == [at |-> "file", pos |-> q, archive |-> calls[c].archive]
           IN  /\ calls[c].at = "save" /\ q \in Positions /\ calls[c].active \in Files
               /\ active' \in Saved(active, calls[c].active)
               /\ Blamed(active, calls[c].active, active', q)
               /\ k \in Call /\ calls' = [calls EXCEPT ![c] = k]
               /\ UNCHANGED <<archive, deployed, closed>>
<1>1. calls[c] \in Call /\ calls[c].at = "save"
    BY DEF TypeInv, CloseSaves
<1>2. /\ calls[c].pos \in Positions /\ calls[c].active \in Files
      /\ calls[c].archive \in Files
    BY <1>1, CallFields
<1> QED
    BY <1>1, <1>2 DEF CloseSaves, Call

LEMMA CloseFilesEffect ==
    ASSUME TypeInv, NEW c \in Callers, CloseFiles(c)
    PROVE  LET q == calls[c].pos
           IN  /\ calls[c].at = "file" /\ q \in Positions /\ calls[c].archive \in Files
               /\ archive' \in Saved(archive, calls[c].archive)
               /\ Blamed(archive, calls[c].archive, archive', q)
               /\ calls' = [calls EXCEPT ![c] = Idle]
               /\ closed' = closed \cup {q} /\ UNCHANGED <<active, deployed>>
<1>1. calls[c] \in Call /\ calls[c].at = "file"
    BY DEF TypeInv, CloseFiles
<1>2. calls[c].pos \in Positions /\ calls[c].archive \in Files
    BY <1>1, CallFields
<1> QED
    BY <1>1, <1>2 DEF CloseFiles, Ends

LEMMA InitTypes == Init => TypeInv
<1>1. NoFile \in Files
    BY DEF NoFile, Files
<1> QED
    BY <1>1 DEF Init, TypeInv, Call

LEMMA StepTypes == TypeInv /\ [Next]_vars => TypeInv'
<1> SUFFICES ASSUME TypeInv, [Next]_vars PROVE TypeInv'
    OBVIOUS
<1>i. Idle \in Call
    BY DEF Call
<1>1. ASSUME NEW c \in Callers, DeploySaves(c) PROVE TypeInv'
    <2> DEFINE q == calls[c].pos
               new == [calls[c].active EXCEPT ![q] = @ + 1]
    <2>1. /\ q \in Positions /\ new \in Files
          /\ active' \in Saved(active, new) /\ Blamed(active, new, active', q)
          /\ deployed' = deployed \cup {q} /\ archive' = archive
          /\ calls' = [calls EXCEPT ![c] = Idle]
        BY <1>1, DeploySavesEffect
    <2> HIDE DEF q, new
    <2>2. active' \in Files \cup {Torn}
        BY <2>1, SaveEffect DEF TypeInv
    <2>3. calls' \in [Callers -> Call]
        BY <1>i, <2>1, CallChanges
    <2> QED
        BY <2>1, <2>2, <2>3 DEF TypeInv
<1>2. ASSUME NEW c \in Callers, CloseLoadsArchive(c) PROVE TypeInv'
    <2>1. calls' \in [Callers -> Call]
        BY <1>2, CloseLoadsArchiveEffect, CallChanges
    <2> QED
        BY <1>2, <2>1 DEF CloseLoadsArchive, files, history, TypeInv
<1>3. ASSUME NEW c \in Callers, CloseSaves(c) PROVE TypeInv'
    BY <1>3, CloseSavesEffect, SaveEffect, CallChanges DEF TypeInv
<1>4. ASSUME NEW c \in Callers, CloseFiles(c) PROVE TypeInv'
    BY <1>4, <1>i, CloseFilesEffect, SaveEffect, CallChanges DEF TypeInv
<1>5. ASSUME NEW c \in Callers, NEW q \in Positions, DeployLoads(c, q)
      PROVE  TypeInv'
    <2>1. calls' \in [Callers -> Call]
        BY <1>5, DeployLoadsEffect, CallChanges
    <2> QED
        BY <1>5, <2>1 DEF DeployLoads, files, TypeInv
<1>6. ASSUME NEW c \in Callers, NEW q \in Positions, CloseLoads(c, q)
      PROVE  TypeInv'
    <2>1. calls' \in [Callers -> Call]
        BY <1>6, CloseLoadsEffect, CallChanges
    <2> QED
        BY <1>6, <2>1 DEF CloseLoads, files, TypeInv
<1>7. ASSUME UNCHANGED <<files, calls, deployed>> PROVE TypeInv'
    BY <1>7 DEF files, TypeInv
<1>8. ASSUME NEW c \in Callers, NEW q \in Positions, CloseNotFound(c, q)
      PROVE  TypeInv'
    BY <1>7, <1>8 DEF CloseNotFound, history
<1>9. CASE GetMyPositions \/ CycleJudges \/ CycleRefreshes \/ CycleEnds \/ UNCHANGED vars
    BY <1>7, <1>9 DEF GetMyPositions, CycleJudges, CycleRefreshes, CycleEnds, vars,
       files, history
<1>10. CASE Dies
    <2>1. active' \in {active, Torn} /\ archive' \in {archive, Torn}
        BY <1>10 DEF Dies
    <2>2. calls' \in [Callers -> Call]
        BY <1>10, <1>i DEF Dies
    <2> QED
        BY <1>10, <2>1, <2>2 DEF Dies, TypeInv
<1> QED
    BY <1>1, <1>2, <1>3, <1>4, <1>5, <1>6, <1>8, <1>9, <1>10 DEF Next

-----------------------------------------------------------------------------
(* Where a position is. *)

Active(p) == Load(active)[p]
Archived(p) == Load(archive)[p]

\* Between the two saves of its close a position is in neither file.
BeingFiled(p) == \E c \in UnderWay : calls[c].at = "file" /\ calls[c].pos = p

Where(p) ==
    /\ p \in closed => p \in deployed
    /\ IF BeingFiled(p)
       THEN p \in deployed \ closed /\ Active(p) = 0 /\ Archived(p) = 0
       ELSE /\ Active(p) + Archived(p) = IF p \in deployed THEN 1 ELSE 0
            /\ p \in closed <=> Archived(p) > 0

\* Call c is p's own: no other is under way, and its copies are p's next step.
Own(c, p) ==
    /\ UnderWay = {c}
    /\ calls[c].at = "deploy" => p \notin deployed /\ calls[c].active[p] = 0
    /\ calls[c].at \in {"archive", "save"} => Active(p) = 1 /\ calls[c].active[p] = 0
    /\ calls[c].at \in {"save", "file"} => calls[c].archive[p] = 1

\* Call c is another position's: its copies say of p what the files say.
Apart(c, p) ==
    /\ calls[c].at \in {"deploy", "archive", "save"} => calls[c].active[p] = Active(p)
    /\ calls[c].at \in {"save", "file"} => calls[c].archive[p] = Archived(p)

Kept(p) ==
    /\ Where(p)
    /\ \A c \in UnderWay : IF calls[c].pos = p THEN Own(c, p) ELSE Apart(c, p)

KeptInv == \A p \in Positions \ tangled : Kept(p)

\* The numbers are numbers, also after a step.
LEMMA Counts ==
    ASSUME TypeInv, NEW p \in Positions
    PROVE  /\ Active(p) \in Nat /\ Archived(p) \in Nat
           /\ Active(p) > 0 \/ Active(p) = 0
           /\ Archived(p) > 0 \/ Archived(p) = 0
<1>1. Active(p) \in Nat /\ Archived(p) \in Nat
    BY LoadTyped DEF TypeInv, Active, Archived, Files
<1> QED
    BY <1>1

\* While the call of another position is under way, p's own is not.
LEMMA OtherUnderWay ==
    ASSUME NEW p, Kept(p), NEW c \in UnderWay, calls[c].pos # p
    PROVE  /\ \A d \in UnderWay : calls[d].pos # p /\ Apart(d, p)
           /\ ~ BeingFiled(p)
<1>1. \A d \in UnderWay : calls[d].pos # p
    BY DEF Kept, Own
<1> QED
    BY <1>1 DEF Kept, BeingFiled

\* What concerns other positions only keeps p.
LEMMA KeptApart ==
    ASSUME NEW p, Kept(p), ~ BeingFiled(p),
           Active(p)' = Active(p), Archived(p)' = Archived(p),
           p \in deployed' <=> p \in deployed, p \in closed' <=> p \in closed,
           \A d \in UnderWay' : calls'[d].pos # p /\ Apart(d, p)'
    PROVE  Kept(p)'
<1>1. ~ BeingFiled(p)'
    BY DEF BeingFiled
<1>2. Where(p)'
    BY <1>1 DEF Kept, Where
<1> QED
    BY <1>2 DEF Kept

\* A call that starts names a position whose calls were at rest, or tangles it.
LEMMA StartKeeps ==
    ASSUME TypeInv, NEW p \in Positions, Kept(p), p \notin tangled',
           NEW c \in Callers, NEW q \in Positions, NEW k \in Call,
           Starts(c, q, k), k.pos = q, k.at \in {"deploy", "archive"},
           UNCHANGED <<files, deployed, closed>>,
           \A x \in Positions \ {q} : k.active[x] = Load(active)[x],
           k.at = "deploy" => q \notin deployed /\ k.active[q] = Load(active)[q],
           k.at = "archive" => /\ Load(active)[q] > 0
                               /\ k.active[q] = Load(active)[q] - 1
    PROVE  Kept(p)'
<1>1. /\ calls[c] = Idle /\ calls' = [calls EXCEPT ![c] = k] /\ calls'[c] = k
      /\ \A d \in Callers \ {c} : calls'[d] = calls[d]
    BY CallChanges DEF Starts
<1>2. k # Idle
    BY DEF Idle
<1>3. UnderWay' = UnderWay \cup {c} /\ c \notin UnderWay
    BY <1>1, <1>2 DEF UnderWay
<1>4. Active(p)' = Active(p) /\ Archived(p)' = Archived(p)
    BY DEF Active, Archived, files
<1>5. BeingFiled(p)' <=> BeingFiled(p)
    BY <1>1, <1>3 DEF BeingFiled, UnderWay
<1>6. Where(p)'
    BY <1>4, <1>5 DEF Kept, Where
<1>7. UnderWay # {} => p # q /\ \A d \in UnderWay : calls[d].pos # p
    BY DEF Starts, Named
<1>8. CASE p # q
    <2>1. \A d \in UnderWay : calls[d].pos # p /\ Apart(d, p)
        BY <1>7 DEF Kept
    <2>2. \A d \in UnderWay' : calls'[d].pos # p /\ Apart(d, p)'
        BY <1>1, <1>3, <1>4, <1>8, <2>1 DEF Apart, Active, UnderWay
    <2> QED
        BY <1>6, <2>2 DEF Kept
<1>9. CASE p = q
    <2>1. UnderWay = {} /\ UnderWay' = {c}
        BY <1>3, <1>7, <1>9
    <2>2. ~ BeingFiled(p)
        BY <2>1 DEF BeingFiled
    <2>3. Own(c, p)'
        <3>1. Active(p) \in Nat /\ Archived(p) \in Nat
            BY Counts
        <3>2. Active(p) + Archived(p) = IF p \in deployed THEN 1 ELSE 0
            BY <2>2 DEF Kept, Where
        <3>3. CASE k.at = "deploy"
            <4>1. Active(p) = 0
                BY <1>9, <3>1, <3>2, <3>3
            <4> QED
                BY <1>1, <1>9, <2>1, <3>3, <4>1 DEF Own, Active
        <3>4. CASE k.at = "archive"
            <4>1. Active(p) = 1
                BY <1>9, <3>1, <3>2, <3>4 DEF Active
            <4>2. k.active[p] = 0
                BY <1>9, <3>4, <4>1 DEF Active
            <4> QED
                BY <1>1, <1>4, <2>1, <3>4, <4>1, <4>2 DEF Own
        <3> QED
            BY <3>3, <3>4
    <2>4. calls'[c].pos = p
        BY <1>1, <1>9
    <2> QED
        BY <1>6, <2>1, <2>3, <2>4 DEF Kept
<1> QED
    BY <1>8, <1>9

LEMMA CallEnds ==
    ASSUME TypeInv, NEW c \in UnderWay, calls' = [calls EXCEPT ![c] = Idle]
    PROVE  /\ UnderWay' = UnderWay \ {c}
           /\ \A d \in UnderWay' : d \in UnderWay /\ calls'[d] = calls[d]
    BY CallChanges DEF UnderWay

LEMMA CallGoesOn ==
    ASSUME TypeInv, NEW c \in UnderWay, NEW k, k # Idle,
           calls' = [calls EXCEPT ![c] = k]
    PROVE  /\ UnderWay' = UnderWay /\ calls'[c] = k
           /\ \A d \in UnderWay \ {c} : calls'[d] = calls[d]
    BY CallChanges DEF UnderWay

LEMMA DeploySavesKeeps ==
    ASSUME TypeInv, NEW p \in Positions, Kept(p), p \notin tangled',
           NEW c \in Callers, DeploySaves(c)
    PROVE  Kept(p)'
<1> DEFINE q == calls[c].pos
           new == [calls[c].active EXCEPT ![q] = @ + 1]
<1>1. /\ calls[c].at = "deploy" /\ q \in Positions
      /\ new \in Files /\ new[q] = calls[c].active[q] + 1
      /\ \A x \in Positions \ {q} : new[x] = calls[c].active[x]
      /\ active' \in Saved(active, new) /\ Blamed(active, new, active', q)
      /\ deployed' = deployed \cup {q} /\ UNCHANGED <<archive, closed>>
      /\ calls' = [calls EXCEPT ![c] = Idle]
    BY DeploySavesEffect
<1> HIDE DEF new
<1>2. c \in UnderWay
    BY <1>1 DEF UnderWay, Idle
<1>3. /\ p = q => Load(active')[p] = new[p]
      /\ new[p] = Load(active)[p] => Load(active')[p] = Load(active)[p]
    BY <1>1, SaveEffect DEF TypeInv
<1>4. /\ UnderWay' = UnderWay \ {c}
      /\ \A d \in UnderWay' : d \in UnderWay /\ calls'[d] = calls[d]
    BY <1>1, <1>2, CallEnds
<1>5. Archived(p)' = Archived(p)
    BY <1>1 DEF Archived
<1>6. CASE p # q
    <2>1. /\ \A d \in UnderWay : calls[d].pos # p /\ Apart(d, p)
          /\ ~ BeingFiled(p)
        BY <1>2, <1>6, OtherUnderWay
    <2>2. Active(p)' = Active(p)
        BY <1>1, <1>2, <1>3, <1>6, <2>1 DEF Apart, Active
    <2>3. \A d \in UnderWay' : calls'[d].pos # p /\ Apart(d, p)'
        BY <1>4, <1>5, <2>1, <2>2 DEF Apart
    <2> QED
        BY <1>1, <1>5, <1>6, <2>1, <2>2, <2>3, KeptApart
<1>7. CASE p = q
    <2>1. Own(c, p)
        BY <1>2, <1>7 DEF Kept
    <2>2. UnderWay' = {} /\ p \notin deployed /\ calls[c].active[p] = 0
        BY <1>1, <1>4, <2>1 DEF Own
    <2>3. ~ BeingFiled(p) /\ ~ BeingFiled(p)'
        BY <1>1, <2>1, <2>2 DEF BeingFiled, Own
    <2>4. Active(p)' = 1
        BY <1>1, <1>3, <1>7, <2>2 DEF Active
    <2>5. Archived(p) = 0 /\ p \notin closed
        BY <2>2, <2>3, Counts DEF Kept, Where
    <2>6. Where(p)'
        BY <1>1, <1>5, <1>7, <2>3, <2>4, <2>5 DEF Where
    <2> QED
        BY <2>2, <2>6 DEF Kept
<1> QED
    BY <1>6, <1>7

LEMMA CloseLoadsArchiveKeeps ==
    ASSUME TypeInv, NEW p \in Positions, Kept(p), p \notin tangled',
           NEW c \in Callers, CloseLoadsArchive(c)
    PROVE  Kept(p)'
<1> DEFINE q == calls[c].pos
           k == [at |-> "save", pos |-> q, active |-> calls[c].active,
                 archive |-> [Load(archive) EXCEPT ![q] = @ + 1]]
<1>1. /\ calls[c].at = "archive" /\ q \in Positions
      /\ calls' = [calls EXCEPT ![c] = k]
      /\ k.archive[q] = Load(archive)[q] + 1
      /\ \A x \in Positions \ {q} : k.archive[x] = Load(archive)[x]
    BY CloseLoadsArchiveEffect
<1>2. /\ k.at = "save" /\ k.pos = q /\ k.active = calls[c].active
      /\ k # Idle
    BY DEF Idle
<1> HIDE DEF k
<1>3. c \in UnderWay
    BY <1>1 DEF UnderWay, Idle
<1>4. /\ UnderWay' = UnderWay /\ calls'[c] = k
      /\ \A d \in UnderWay \ {c} : calls'[d] = calls[d]
    BY <1>1, <1>2, <1>3, CallGoesOn
<1>5. /\ Active(p)' = Active(p) /\ Archived(p)' = Archived(p)
      /\ UNCHANGED <<deployed, closed>>
    BY DEF CloseLoadsArchive, files, history, Active, Archived
<1>6. CASE p # q
    <2>1. /\ \A d \in UnderWay : calls[d].pos # p /\ Apart(d, p)
          /\ ~ BeingFiled(p)
        BY <1>3, <1>6, OtherUnderWay
    <2>2. \A d \in UnderWay' : calls'[d].pos # p /\ Apart(d, p)'
        BY <1>1, <1>2, <1>4, <1>5, <1>6, <2>1 DEF Apart, Archived
    <2> QED
        BY <1>5, <2>1, <2>2, KeptApart
<1>7. CASE p = q
    <2>1. Own(c, p)
        BY <1>3, <1>7 DEF Kept
    <2>2. UnderWay = {c} /\ Active(p) = 1 /\ calls[c].active[p] = 0
        BY <1>1, <2>1 DEF Own
    <2>3. ~ BeingFiled(p) /\ ~ BeingFiled(p)'
        BY <1>1, <1>2, <1>4, <2>2 DEF BeingFiled
    <2>4. Archived(p) = 0
        BY <2>2, <2>3, Counts DEF Kept, Where
    <2>5. Own(c, p)'
        BY <1>1, <1>2, <1>4, <1>5, <1>7, <2>2, <2>4 DEF Own, Archived
    <2>6. Where(p)'
        BY <1>5, <2>3 DEF Kept, Where
    <2> QED
        BY <1>2, <1>4, <1>7, <2>2, <2>5, <2>6 DEF Kept
<1> QED
    BY <1>6, <1>7

LEMMA CloseSavesKeeps ==
    ASSUME TypeInv, NEW p \in Positions, Kept(p), p \notin tangled',
           NEW c \in Callers, CloseSaves(c)
    PROVE  Kept(p)'
<1> DEFINE q == calls[c].pos
           new == calls[c].active
           k == [at |-> "file", pos |-> q, archive |-> calls[c].archive]
<1>1. /\ calls[c].at = "save" /\ q \in Positions /\ new \in Files
      /\ active' \in Saved(active, new) /\ Blamed(active, new, active', q)
      /\ calls' = [calls EXCEPT ![c] = k]
      /\ UNCHANGED <<archive, deployed, closed>>
    BY CloseSavesEffect
<1>2. k.at = "file" /\ k.pos = q /\ k.archive = calls[c].archive /\ k # Idle
    BY DEF Idle
<1> HIDE DEF k
<1>3. c \in UnderWay
    BY <1>1 DEF UnderWay, Idle
<1>4. /\ UnderWay' = UnderWay /\ calls'[c] = k
      /\ \A d \in UnderWay \ {c} : calls'[d] = calls[d]
    BY <1>1, <1>2, <1>3, CallGoesOn
<1>5. /\ p = q => Load(active')[p] = new[p]
      /\ new[p] = Load(active)[p] => Load(active')[p] = Load(active)[p]
    BY <1>1, SaveEffect DEF TypeInv
<1>6. Archived(p)' = Archived(p)
    BY <1>1 DEF Archived
<1>7. CASE p # q
    <2>1. /\ \A d \in UnderWay : calls[d].pos # p /\ Apart(d, p)
          /\ ~ BeingFiled(p)
        BY <1>3, <1>7, OtherUnderWay
    <2>2. Active(p)' = Active(p)
        BY <1>1, <1>3, <1>5, <2>1 DEF Apart, Active
    <2>3. \A d \in UnderWay' : calls'[d].pos # p /\ Apart(d, p)'
        BY <1>1, <1>2, <1>4, <1>6, <1>7, <2>1, <2>2 DEF Apart
    <2> QED
        BY <1>1, <1>6, <2>1, <2>2, <2>3, KeptApart
<1>8. CASE p = q
    <2>1. Own(c, p)
        BY <1>3, <1>8 DEF Kept
    <2>2. /\ UnderWay = {c} /\ Active(p) = 1 /\ calls[c].active[p] = 0
          /\ calls[c].archive[p] = 1
        BY <1>1, <2>1 DEF Own
    <2>3. ~ BeingFiled(p)
        BY <1>1, <2>2 DEF BeingFiled
    <2>4. Archived(p) = 0 /\ p \in deployed \ closed
        BY <2>2, <2>3, Counts DEF Kept, Where
    <2>5. Active(p)' = 0
        BY <1>5, <1>8, <2>2 DEF Active
    <2>6. BeingFiled(p)'
        BY <1>2, <1>3, <1>4, <1>8 DEF BeingFiled
    <2>7. Where(p)'
        BY <1>1, <1>6, <2>4, <2>5, <2>6 DEF Where
    <2>8. Own(c, p)'
        BY <1>2, <1>4, <2>2 DEF Own
    <2> QED
        BY <1>2, <1>4, <1>8, <2>2, <2>7, <2>8 DEF Kept
<1> QED
    BY <1>7, <1>8

LEMMA CloseFilesKeeps ==
    ASSUME TypeInv, NEW p \in Positions, Kept(p), p \notin tangled',
           NEW c \in Callers, CloseFiles(c)
    PROVE  Kept(p)'
<1> DEFINE q == calls[c].pos
           new == calls[c].archive
<1>1. /\ calls[c].at = "file" /\ q \in Positions /\ new \in Files
      /\ archive' \in Saved(archive, new) /\ Blamed(archive, new, archive', q)
      /\ calls' = [calls EXCEPT ![c] = Idle]
      /\ closed' = closed \cup {q} /\ UNCHANGED <<active, deployed>>
    BY CloseFilesEffect
<1>2. c \in UnderWay
    BY <1>1 DEF UnderWay, Idle
<1>3. /\ p = q => Load(archive')[p] = new[p]
      /\ new[p] = Load(archive)[p] => Load(archive')[p] = Load(archive)[p]
    BY <1>1, SaveEffect DEF TypeInv
<1>4. /\ UnderWay' = UnderWay \ {c}
      /\ \A d \in UnderWay' : d \in UnderWay /\ calls'[d] = calls[d]
    BY <1>1, <1>2, CallEnds
<1>5. Active(p)' = Active(p)
    BY <1>1 DEF Active
<1>6. CASE p # q
    <2>1. /\ \A d \in UnderWay : calls[d].pos # p /\ Apart(d, p)
          /\ ~ BeingFiled(p)
        BY <1>2, <1>6, OtherUnderWay
    <2>2. Archived(p)' = Archived(p)
        BY <1>1, <1>2, <1>3, <2>1 DEF Apart, Archived
    <2>3. \A d \in UnderWay' : calls'[d].pos # p /\ Apart(d, p)'
        BY <1>4, <1>5, <2>1, <2>2 DEF Apart
    <2> QED
        BY <1>1, <1>5, <1>6, <2>1, <2>2, <2>3, KeptApart
<1>7. CASE p = q
    <2>1. Own(c, p)
        BY <1>2, <1>7 DEF Kept
    <2>2. UnderWay' = {} /\ calls[c].archive[p] = 1
        BY <1>1, <1>4, <2>1 DEF Own
    <2>3. BeingFiled(p) /\ ~ BeingFiled(p)'
        BY <1>1, <1>2, <1>7, <2>2 DEF BeingFiled
    <2>4. Active(p) = 0 /\ p \in deployed
        BY <2>3 DEF Kept, Where
    <2>5. Archived(p)' = 1
        BY <1>3, <1>7, <2>2 DEF Archived
    <2>6. Where(p)'
        BY <1>1, <1>5, <1>7, <2>3, <2>4, <2>5 DEF Where
    <2> QED
        BY <2>2, <2>6 DEF Kept
<1> QED
    BY <1>6, <1>7

\* A death of the process leaves what no call was filing and no write cut.
LEMMA DiesLeaves ==
    ASSUME TypeInv, NEW p \in Positions, p \notin tangled', Dies
    PROVE  ~ BeingFiled(p) /\ Active(p)' = Active(p) /\ Archived(p)' = Archived(p)
<1>1. PICK cut \in {"", "active", "archive"} :
         /\ active' = IF cut = "active" THEN Torn ELSE active
         /\ archive' = IF cut = "archive" THEN Torn ELSE archive
         /\ tangled' = tangled
               \cup Named({c \in UnderWay : calls[c].at = "file"})
               \cup (IF cut = "active" THEN In(active) ELSE {})
               \cup (IF cut = "archive" THEN In(archive) ELSE {})
    BY DEF Dies
<1>2. ~ BeingFiled(p)
    BY <1>1 DEF BeingFiled, Named
<1>3. Load(Torn)[p] = 0
    BY DEF Load, NoFile
<1>4. Active(p)' = Active(p)
    <2>1. CASE cut = "active"
        <3>1. p \notin In(active)
            BY <1>1, <2>1
        <3>2. ~ (Active(p) > 0)
            BY <3>1 DEF In, Active
        <3>3. Active(p) = 0
            BY <3>2, Counts
        <3> QED
            BY <1>1, <1>3, <2>1, <3>3 DEF Active
    <2> QED
        BY <1>1, <2>1 DEF Active
<1>5. Archived(p)' = Archived(p)
    <2>1. CASE cut = "archive"
        <3>1. p \notin In(archive)
            BY <1>1, <2>1
        <3>2. ~ (Archived(p) > 0)
            BY <3>1 DEF In, Archived
        <3>3. Archived(p) = 0
            BY <3>2, Counts
        <3> QED
            BY <1>1, <1>3, <2>1, <3>3 DEF Archived
    <2> QED
        BY <1>1, <2>1 DEF Archived
<1> QED
    BY <1>2, <1>4, <1>5

LEMMA DiesKeeps ==
    ASSUME TypeInv, NEW p \in Positions, Kept(p), p \notin tangled', Dies
    PROVE  Kept(p)'
<1>1. UnderWay' = {} /\ UNCHANGED <<deployed, closed>>
    BY DEF Dies, UnderWay
<1>2. ~ BeingFiled(p) /\ ~ BeingFiled(p)'
    BY <1>1, DiesLeaves DEF BeingFiled
<1>3. Where(p)'
    BY <1>1, <1>2, DiesLeaves DEF Kept, Where
<1> QED
    BY <1>1, <1>3 DEF Kept

LEMMA InitKept == Init => KeptInv
<1> SUFFICES ASSUME Init, NEW p \in Positions PROVE Kept(p)
    BY DEF KeptInv
<1>1. UnderWay = {}
    BY DEF Init, UnderWay
<1>2. Load(NoFile)[p] = 0
    BY PaperDistinct DEF Load, NoFile
<1>3. Active(p) = 0 /\ Archived(p) = 0
    BY <1>2 DEF Init, Active, Archived
<1> QED
    BY <1>1, <1>3 DEF Init, Kept, Where, BeingFiled

LEMMA TangledGrows == TypeInv /\ [Next]_vars => tangled \subseteq tangled'
<1> SUFFICES ASSUME TypeInv, [Next]_vars PROVE tangled \subseteq tangled'
    OBVIOUS
<1>1. CASE UNCHANGED tangled
    BY <1>1
<1>2. ASSUME NEW c \in Callers, DeploySaves(c) \/ CloseSaves(c) \/ CloseFiles(c)
      PROVE  tangled \subseteq tangled'
    BY <1>2 DEF DeploySaves, CloseSaves, CloseFiles, Blamed
<1>3. ASSUME NEW c \in Callers, NEW q \in Positions, DeployLoads(c, q) \/ CloseLoads(c, q)
      PROVE  tangled \subseteq tangled'
    BY <1>3 DEF DeployLoads, CloseLoads, Starts
<1>4. CASE Dies
    BY <1>4 DEF Dies
<1> QED
    BY <1>1, <1>2, <1>3, <1>4 DEF Next, CloseLoadsArchive, CloseNotFound,
       GetMyPositions, CycleJudges, CycleRefreshes, CycleEnds, history, vars

LEMMA StepKept == TypeInv /\ KeptInv /\ [Next]_vars => KeptInv'
<1> SUFFICES ASSUME TypeInv, KeptInv, [Next]_vars, NEW p \in Positions, p \notin tangled'
             PROVE  Kept(p)'
    BY DEF KeptInv
<1>k. Kept(p)
    BY TangledGrows DEF KeptInv
<1>1. ASSUME NEW c \in Callers, NEW q \in Positions, DeployLoads(c, q)
      PROVE  Kept(p)'
    <2> DEFINE k == [at |-> "deploy", pos |-> q, active |-> Load(active)]
    <2>1. k \in Call /\ k.active = Load(active) /\ k.pos = q /\ k.at = "deploy"
        BY <1>1, DeployLoadsEffect
    <2>2. Starts(c, q, k) /\ q \notin deployed /\ UNCHANGED <<files, deployed, closed>>
        BY <1>1 DEF DeployLoads
    <2> HIDE DEF k
    <2> QED
        BY <1>k, <2>1, <2>2, StartKeeps
<1>2. ASSUME NEW c \in Callers, NEW q \in Positions, CloseLoads(c, q)
      PROVE  Kept(p)'
    <2> DEFINE k == [at |-> "archive", pos |-> q, active |-> [active EXCEPT ![q] = @ - 1]]
    <2>1. /\ k \in Call /\ k.pos = q /\ k.at = "archive"
          /\ Load(active)[q] > 0 /\ k.active[q] = Load(active)[q] - 1
          /\ \A x \in Positions \ {q} : k.active[x] = Load(active)[x]
        BY <1>2, CloseLoadsEffect
    <2>2. Starts(c, q, k) /\ UNCHANGED <<files, deployed, closed>>
        BY <1>2 DEF CloseLoads
    <2> HIDE DEF k
    <2> QED
        BY <1>k, <2>1, <2>2, StartKeeps
<1>3. CASE UNCHANGED <<files, calls, deployed, closed>>
    BY <1>k, <1>3 DEF Kept, Where, Own, Apart, BeingFiled, UnderWay, Active, Archived, files
<1>4. ASSUME NEW c \in Callers, NEW q \in Positions, CloseNotFound(c, q)
      PROVE  Kept(p)'
    BY <1>3, <1>4 DEF CloseNotFound, history
<1>5. CASE GetMyPositions \/ CycleJudges \/ CycleRefreshes \/ CycleEnds \/ UNCHANGED vars
    BY <1>3, <1>5 DEF GetMyPositions, CycleJudges, CycleRefreshes, CycleEnds, vars,
       files, history
<1> QED
    BY <1>k, <1>1, <1>2, <1>4, <1>5, DeploySavesKeeps, CloseLoadsArchiveKeeps,
       CloseSavesKeeps, CloseFilesKeeps, DiesKeeps DEF Next

\* However many calls interleave and whatever fails, a position whose own calls
\* met no other call and no fault is in exactly one file, once: in the archive
\* if its close was answered with success (dlmm.js).
THEOREM KeptCorrect == Spec => []UntangledAreKept
<1>1. Init => TypeInv /\ KeptInv
    BY InitTypes, InitKept
<1>2. TypeInv /\ KeptInv /\ [Next]_vars => (TypeInv /\ KeptInv)'
    BY StepTypes, StepKept
<1>3. TypeInv /\ KeptInv => UntangledAreKept
    <2> SUFFICES ASSUME TypeInv, KeptInv,
                        NEW p \in deployed \ (tangled \cup Named(UnderWay))
                 PROVE  /\ Load(active)[p] + Load(archive)[p] = 1
                        /\ p \in closed <=> p \in In(archive)
        BY DEF UntangledAreKept
    <2>1. p \in Positions /\ Where(p)
        BY DEF TypeInv, KeptInv, Kept
    <2>2. ~ BeingFiled(p)
        BY DEF BeingFiled, Named
    <2>3. p \in In(archive) <=> Load(archive)[p] > 0
        BY <2>1 DEF In
    <2> QED
        BY <2>1, <2>2, <2>3 DEF Where, Active, Archived
<1> QED
    BY <1>1, <1>2, <1>3, PTL DEF Spec

-----------------------------------------------------------------------------
(* What the cycle and the cached list show. *)

\* The loop's own call is of the closing phase, for a position still to do.
ShownInv ==
    /\ ClosedIsNotShown
    /\ closedAny \subseteq closed
    /\ calls[Cycle] # Idle => phase = "closing" /\ calls[Cycle].pos \in todo

LEMMA InitShown == Init => ShownInv
    BY DEF Init, ShownInv, ClosedIsNotShown, Callers

\* A listed position is not closed, if it is untangled.
LEMMA ListedIsOpen ==
    ASSUME TypeInv, KeptInv
    PROVE  In(active) \cap closed \subseteq tangled
<1> SUFFICES ASSUME NEW p \in Positions, p \in In(active), p \in closed, p \notin tangled
             PROVE  FALSE
    BY DEF In
<1>1. Where(p) /\ Active(p) > 0
    BY DEF KeptInv, Kept, In, Active
<1> QED
    BY <1>1, Counts DEF Where

LEMMA StepShown ==
    TypeInv /\ KeptInv /\ ShownInv /\ [Next]_vars => ShownInv'
<1> SUFFICES ASSUME TypeInv, KeptInv, ShownInv, [Next]_vars PROVE ShownInv'
    OBVIOUS
<1>t. tangled \subseteq tangled'
    BY TangledGrows
<1>l. In(active) \cap closed \subseteq tangled
    BY ListedIsOpen
<1>c. Cycle \in Callers /\ calls[Cycle] \in Call
    BY DEF Callers, TypeInv
\* Calls that leave the cycle and the list alone.
<1>0. ASSUME UNCHANGED <<cycle, cache, closed>>,
             calls'[Cycle] # Idle => /\ calls[Cycle] # Idle
                                     /\ calls'[Cycle].pos = calls[Cycle].pos
      PROVE  ShownInv'
    BY <1>0, <1>t DEF ShownInv, ClosedIsNotShown, cycle
<1>1. ASSUME NEW c \in Callers, DeploySaves(c) PROVE ShownInv'
    <2>1. calls'[Cycle] \in {calls[Cycle], Idle}
        BY <1>1, <1>c, CallChanges DEF DeploySaves, Ends
    <2> QED
        BY <1>0, <1>1, <2>1 DEF DeploySaves
<1>2. ASSUME NEW c \in Callers, CloseLoadsArchive(c) \/ CloseSaves(c) PROVE ShownInv'
    <2>1. PICK k : calls' = [calls EXCEPT ![c] = k] /\ k.pos = calls[c].pos
        BY <1>2 DEF CloseLoadsArchive, CloseSaves
    <2>2. calls[c] # Idle
        BY <1>2 DEF CloseLoadsArchive, CloseSaves, Idle
    <2>3. calls'[c] = k /\ \A d \in Callers \ {c} : calls'[d] = calls[d]
        BY <2>1, CallChanges
    <2> QED
        BY <1>0, <1>2, <1>c, <2>1, <2>2, <2>3 DEF CloseLoadsArchive, CloseSaves, history
<1>3. ASSUME NEW c \in Callers, CloseFiles(c) PROVE ShownInv'
    <2>1. /\ cache' = None /\ closed' = closed \cup {calls[c].pos}
          /\ calls' = [calls EXCEPT ![c] = Idle] /\ calls[c] # Idle
          /\ Tried(c, calls[c].pos, TRUE)
        <3>1. calls[c].at # Idle.at
            BY <1>3 DEF CloseFiles, Idle
        <3> QED
            BY <1>3, <3>1 DEF CloseFiles, Ends
    <2>2. calls'[c] = Idle /\ \A d \in Callers \ {c} : calls'[d] = calls[d]
        BY <2>1, CallChanges
    <2>3. CASE c = Cycle
        <3>1. phase = "closing" /\ phase' = phase
              /\ closedAny' = closedAny \cup {calls[c].pos}
            BY <2>1, <2>3 DEF Tried, ShownInv
        <3> QED
            BY <2>1, <2>2, <2>3, <3>1 DEF ShownInv, ClosedIsNotShown
    <2>4. CASE c # Cycle
        <3>1. UNCHANGED cycle /\ calls'[Cycle] = calls[Cycle]
            BY <1>c, <2>1, <2>2, <2>4 DEF Tried
        <3> QED
            BY <1>t, <2>1, <3>1 DEF ShownInv, ClosedIsNotShown, cycle
    <2> QED
        BY <2>3, <2>4
<1>4. ASSUME NEW c \in Callers, NEW q \in Positions, DeployLoads(c, q)
      PROVE  ShownInv'
    <2>1. c # Cycle
        BY <1>4, PaperConstants DEF DeployLoads
    <2>2. calls'[Cycle] = calls[Cycle]
        BY <1>4, <1>c, <2>1, CallChanges DEF DeployLoads, Starts
    <2> QED
        BY <1>0, <1>4, <2>2 DEF DeployLoads
<1>5. ASSUME NEW c \in Callers, NEW q \in Positions, CloseLoads(c, q)
      PROVE  ShownInv'
    <2> DEFINE k == [at |-> "archive", pos |-> q, active |-> [active EXCEPT ![q] = @ - 1]]
    <2>1. calls' = [calls EXCEPT ![c] = k] /\ k.pos = q
        BY <1>5 DEF CloseLoads, Starts
    <2> HIDE DEF k
    <2>2. calls'[c] = k /\ \A d \in Callers \ {c} : calls'[d] = calls[d]
        BY <2>1, CallChanges
    <2>3. UNCHANGED <<cycle, cache, closed>>
        BY <1>5 DEF CloseLoads
    <2>4. CASE c = Cycle
        <3>1. phase = "closing" /\ q \in todo
            BY <1>5, <2>4 DEF CloseLoads, MayClose
        <3> QED
            BY <1>t, <2>1, <2>2, <2>3, <2>4, <3>1 DEF ShownInv, ClosedIsNotShown, cycle
    <2>5. CASE c # Cycle
        BY <1>0, <1>c, <2>2, <2>3, <2>5
    <2> QED
        BY <2>4, <2>5
<1>6. ASSUME NEW c \in Callers, NEW q \in Positions, CloseNotFound(c, q)
      PROVE  ShownInv'
    <2>1. UNCHANGED <<calls, cache, closed, tangled>> /\ Tried(c, q, FALSE)
        BY <1>6 DEF CloseNotFound, history
    <2>2. CASE c = Cycle
        <3>1. phase = "closing" /\ phase' = phase /\ calls[Cycle] = Idle
            BY <1>6, <2>1, <2>2 DEF CloseNotFound, MayClose, Tried
        <3>2. closedAny' = closedAny
            BY <2>1, <2>2 DEF Tried
        <3> QED
            BY <2>1, <3>1, <3>2 DEF ShownInv, ClosedIsNotShown
    <2>3. CASE c # Cycle
        BY <1>0, <2>1, <2>3 DEF Tried
    <2> QED
        BY <2>2, <2>3
<1>7. CASE GetMyPositions
    BY <1>7, <1>l DEF GetMyPositions, Lists, cycle, history, ShownInv, ClosedIsNotShown
<1>8. CASE CycleJudges
    BY <1>8, <1>l DEF CycleJudges, Lists, history, ShownInv, ClosedIsNotShown
<1>9. CASE CycleRefreshes
    <2>1. calls[Cycle] = Idle
        BY <1>9 DEF CycleRefreshes, ShownInv
    <2>2. CASE closedAny = {}
        BY <1>9, <2>1, <2>2 DEF CycleRefreshes, history, ShownInv, ClosedIsNotShown
    <2>3. CASE closedAny # {}
        BY <1>9, <1>l, <2>1, <2>3 DEF CycleRefreshes, Lists, history, ShownInv,
           ClosedIsNotShown
    <2> QED
        BY <2>2, <2>3
<1>10. CASE CycleEnds
    BY <1>10, <1>l DEF CycleEnds, Lists, history, ShownInv, ClosedIsNotShown
<1>11. CASE Dies
    BY <1>11, <1>c DEF Dies, ShownInv, ClosedIsNotShown
<1>12. CASE UNCHANGED vars
    BY <1>12 DEF vars, ShownInv, ClosedIsNotShown
<1> QED
    BY <1>1, <1>2, <1>3, <1>4, <1>5, <1>6, <1>7, <1>8, <1>9, <1>10, <1>11, <1>12 DEF Next

\* What a read lists is not closed, unless it is tangled, and what the cycle
\* goes on with after its closes leaves out what it closed (index.js).
THEOREM ShownCorrect == Spec => []ClosedIsNotShown
<1>1. Init => TypeInv /\ KeptInv /\ ShownInv
    BY InitTypes, InitKept, InitShown
<1>2. TypeInv /\ KeptInv /\ ShownInv /\ [Next]_vars => (TypeInv /\ KeptInv /\ ShownInv)'
    BY StepTypes, StepKept, StepShown
<1>3. ShownInv => ClosedIsNotShown
    BY DEF ShownInv
<1> QED
    BY <1>1, <1>2, <1>3, PTL DEF Spec

-----------------------------------------------------------------------------
(* The files tell lives of PaperLife. *)

StageOf == [p \in Positions |-> Stage(p)]

\* What the numbers say of a position, before and after a step.
LEMMA StageRead ==
    ASSUME NEW p \in Positions
    PROVE  /\ p \notin tangled =>
                Stage(p) = IF Active(p) > 0 THEN "open"
                           ELSE IF Archived(p) > 0 THEN "filed"
                           ELSE IF p \in deployed THEN "leaving" ELSE "none"
           /\ p \notin tangled' =>
                Stage(p)' = IF Active(p)' > 0 THEN "open"
                            ELSE IF Archived(p)' > 0 THEN "filed"
                            ELSE IF p \in deployed' THEN "leaving" ELSE "none"
<1>1. p \in In(active) <=> Active(p) > 0
    BY DEF In, Active
<1>2. p \in In(archive) <=> Archived(p) > 0
    BY DEF In, Archived
<1>3. (p \in In(active))' <=> Active(p)' > 0
    BY DEF In, Active
<1>4. (p \in In(archive))' <=> Archived(p)' > 0
    BY DEF In, Archived
<1> QED
    BY <1>1, <1>2, <1>3, <1>4 DEF Stage

LEMMA SameStage ==
    ASSUME NEW p \in Positions, p \notin tangled', tangled \subseteq tangled',
           Active(p)' = Active(p), Archived(p)' = Archived(p),
           p \in deployed' <=> p \in deployed
    PROVE  Stage(p)' = Stage(p)
    BY StageRead

\* Where all that is untangled stays, some are given up.
LEMMA LosesSome ==
    ASSUME tangled \subseteq tangled',
           \A p \in Positions \ tangled' : Stage(p)' = Stage(p)
    PROVE  Life!Next
<1> DEFINE lost == Positions \cap tangled'
<1>1. \A p \in Positions : Stage(p)' = IF p \in lost THEN "unsure" ELSE StageOf[p]
    BY DEF Stage, StageOf
<1>2. StageOf' = [p \in Positions |-> IF p \in lost THEN "unsure" ELSE StageOf[p]]
    BY <1>1 DEF StageOf
<1>3. Life!GiveUp(lost)
    BY <1>2 DEF Life!GiveUp, StageOf
<1> HIDE DEF lost
<1>4. lost \in SUBSET Positions
    BY DEF lost
<1> QED
    BY <1>3, <1>4 DEF Life!Next

\* Where one moves and all others stay, its move is one of its life.
LEMMA OneMoves ==
    ASSUME NEW q \in Positions, UNCHANGED tangled,
           \A p \in Positions \ (tangled' \cup {q}) : Stage(p)' = Stage(p),
           \/ Stage(q) = "none" /\ Stage(q)' = "open"
           \/ Stage(q) = "open" /\ Stage(q)' = "leaving"
           \/ Stage(q) = "leaving" /\ Stage(q)' = "filed"
    PROVE  Life!Next
<1>1. \A p \in Positions \ {q} : Stage(p)' = Stage(p)
    BY DEF Stage
<1>2. StageOf' = [StageOf EXCEPT ![q] = Stage(q)'] /\ StageOf[q] = Stage(q)
    BY <1>1 DEF StageOf
<1>3. Life!Open(q) \/ Life!TakeOut(q) \/ Life!File(q)
    BY <1>2 DEF Life!Open, Life!TakeOut, Life!File, Life!Moves, StageOf
<1> QED
    BY <1>3 DEF Life!Next

Saves(c) == DeploySaves(c) \/ CloseSaves(c) \/ CloseFiles(c)

LEMMA SaverUnderWay ==
    ASSUME NEW c \in Callers, Saves(c)
    PROVE  c \in UnderWay /\ calls[c].at \in {"deploy", "save", "file"}
<1>1. calls[c].at \in {"deploy", "save", "file"}
    BY DEF Saves, DeploySaves, CloseSaves, CloseFiles
<1> QED
    BY <1>1 DEF UnderWay, Idle

\* A save by another position's call leaves an untangled position where it is.
LEMMA SaveSpares ==
    ASSUME TypeInv, KeptInv, NEW c \in Callers, Saves(c),
           NEW p \in Positions, p \notin tangled', p # calls[c].pos
    PROVE  Stage(p)' = Stage(p)
<1>1. tangled \subseteq tangled'
    BY DEF Saves, DeploySaves, CloseSaves, CloseFiles, Blamed
<1>2. c \in UnderWay
    BY SaverUnderWay
<1>3. Apart(c, p)
    BY <1>1, <1>2, OtherUnderWay DEF KeptInv
<1>4. CASE DeploySaves(c)
    <2> DEFINE new == [calls[c].active EXCEPT ![calls[c].pos] = @ + 1]
    <2>1. /\ new \in Files /\ new[p] = calls[c].active[p] /\ calls[c].at = "deploy"
          /\ active' \in Saved(active, new) /\ Blamed(active, new, active', calls[c].pos)
          /\ deployed' = deployed \cup {calls[c].pos} /\ archive' = archive
        BY <1>4, DeploySavesEffect
    <2> HIDE DEF new
    <2>2. Active(p)' = Active(p)
        BY <1>3, <2>1, SaveEffect DEF TypeInv, Apart, Active
    <2> QED
        BY <1>1, <2>1, <2>2, SameStage DEF Archived
<1>5. CASE CloseSaves(c)
    <2>1. /\ calls[c].at = "save" /\ calls[c].active \in Files
          /\ active' \in Saved(active, calls[c].active)
          /\ Blamed(active, calls[c].active, active', calls[c].pos)
          /\ UNCHANGED <<archive, deployed>>
        BY <1>5, CloseSavesEffect
    <2>2. Active(p)' = Active(p)
        BY <1>3, <2>1, SaveEffect DEF TypeInv, Apart, Active
    <2> QED
        BY <1>1, <2>1, <2>2, SameStage DEF Archived
<1>6. CASE CloseFiles(c)
    <2>1. /\ calls[c].at = "file" /\ calls[c].archive \in Files
          /\ archive' \in Saved(archive, calls[c].archive)
          /\ Blamed(archive, calls[c].archive, archive', calls[c].pos)
          /\ UNCHANGED <<active, deployed>>
        BY <1>6, CloseFilesEffect
    <2>2. Archived(p)' = Archived(p)
        BY <1>3, <2>1, SaveEffect DEF TypeInv, Apart, Archived
    <2> QED
        BY <1>1, <2>1, <2>2, SameStage DEF Active
<1> QED
    BY <1>4, <1>5, <1>6 DEF Saves

\* A save that does not tangle its own position moves it on in its life.
LEMMA SaveMoves ==
    ASSUME TypeInv, KeptInv, NEW c \in Callers, Saves(c),
           NEW q \in Positions, q = calls[c].pos, q \notin tangled'
    PROVE  /\ UNCHANGED tangled
           /\ \/ Stage(q) = "none" /\ Stage(q)' = "open"
              \/ Stage(q) = "open" /\ Stage(q)' = "leaving"
              \/ Stage(q) = "leaving" /\ Stage(q)' = "filed"
<1>1. UNCHANGED tangled
    BY DEF Saves, DeploySaves, CloseSaves, CloseFiles, Blamed
<1>2. c \in UnderWay
    BY SaverUnderWay
<1>3. q \in Positions \ tangled
    BY <1>1
<1>4. Kept(q) /\ Kept(q)'
    BY <1>1, <1>3, DeploySavesKeeps, CloseSavesKeeps, CloseFilesKeeps DEF KeptInv, Saves
<1>5. Own(c, q)
    BY <1>2, <1>4 DEF Kept
<1>6. CASE DeploySaves(c)
    <2>1. /\ q \notin deployed /\ q \in deployed' /\ UNCHANGED <<archive, closed>>
          /\ UnderWay = {c} /\ calls[c].at = "deploy" /\ calls'[c] = Idle
        BY <1>5, <1>6, DeploySavesEffect, CallChanges DEF Own
    <2>2. ~ BeingFiled(q) /\ ~ BeingFiled(q)'
        BY <1>6, <2>1, SaverUnderWay, CallEnds, DeploySavesEffect DEF BeingFiled, Saves
    <2>3. Active(q) = 0 /\ Archived(q) = 0 /\ Archived(q)' = 0
        BY <1>3, <1>4, <2>1, <2>2, Counts DEF Kept, Where, Archived
    <2>4. Active(q)' \in Nat
        <3>1. TypeInv'
            BY <1>6, StepTypes DEF Next
        <3> QED
            BY <3>1, LoadTyped DEF TypeInv, Active, Files
    <2>5. Active(q)' > 0
        BY <1>4, <2>1, <2>2, <2>3, <2>4 DEF Kept, Where
    <2> QED
        BY <1>1, <1>3, <2>1, <2>3, <2>5, StageRead
<1>7. CASE CloseSaves(c)
    <2>1. /\ UnderWay = {c} /\ calls[c].at = "save" /\ Active(q) = 1
          /\ calls'[c].at = "file" /\ calls'[c].pos = q
        BY <1>5, <1>7 DEF CloseSaves, Own, TypeInv
    <2>2. BeingFiled(q)'
        BY <2>1 DEF BeingFiled, UnderWay, Idle
    <2>3. q \in deployed' /\ Active(q)' = 0 /\ Archived(q)' = 0
        BY <1>4, <2>2 DEF Kept, Where
    <2> QED
        BY <1>1, <1>3, <2>1, <2>3, StageRead
<1>8. CASE CloseFiles(c)
    <2>1. /\ calls[c].at = "file" /\ q \in closed' /\ UNCHANGED active
          /\ UnderWay = {c}
        BY <1>5, <1>8, CloseFilesEffect DEF Own
    <2>2. BeingFiled(q)
        BY <1>2, <2>1 DEF BeingFiled
    <2>3. q \in deployed /\ Active(q) = 0 /\ Archived(q) = 0 /\ Active(q)' = 0
        BY <1>4, <2>1, <2>2 DEF Kept, Where, Active
    <2>4. Archived(q)' > 0
        BY <1>4, <2>1 DEF Kept, Where
    <2> QED
        BY <1>1, <1>3, <2>3, <2>4, StageRead
<1> QED
    BY <1>1, <1>6, <1>7, <1>8 DEF Saves

LEMMA StepLives ==
    TypeInv /\ KeptInv /\ [Next]_vars => [Life!Next]_StageOf
<1> SUFFICES ASSUME TypeInv, KeptInv, [Next]_vars PROVE Life!Next
    OBVIOUS
<1>t. tangled \subseteq tangled'
    BY TangledGrows
<1>1. ASSUME NEW c \in Callers, Saves(c) PROVE Life!Next
    <2>1. PICK q \in Positions : q = calls[c].pos
        BY <1>1, DeploySavesEffect, CloseSavesEffect, CloseFilesEffect DEF Saves
    <2>2. \A p \in Positions \ (tangled' \cup {q}) : Stage(p)' = Stage(p)
        BY <1>1, <2>1, SaveSpares
    <2>3. CASE q \in tangled'
        BY <1>t, <2>2, <2>3, LosesSome
    <2>4. CASE q \notin tangled'
        <3>1. /\ UNCHANGED tangled
              /\ \/ Stage(q) = "none" /\ Stage(q)' = "open"
                 \/ Stage(q) = "open" /\ Stage(q)' = "leaving"
                 \/ Stage(q) = "leaving" /\ Stage(q)' = "filed"
            BY <1>1, <2>1, <2>4, SaveMoves
        <3> QED
            BY <2>2, <3>1, OneMoves
    <2> QED
        BY <2>3, <2>4
\* What touches no file moves nothing.
<1>2. ASSUME UNCHANGED <<files, deployed>> PROVE Life!Next
    <2>1. \A p \in Positions \ tangled' : Stage(p)' = Stage(p)
        BY <1>2, <1>t, SameStage DEF files, Active, Archived
    <2> QED
        BY <1>t, <2>1, LosesSome
<1>3. CASE Dies
    <2>1. \A p \in Positions \ tangled' : Stage(p)' = Stage(p)
        BY <1>3, <1>t, DiesLeaves, SameStage DEF Dies
    <2> QED
        BY <1>t, <2>1, LosesSome
<1>4. ASSUME NEW c \in Callers, NEW q \in Positions,
             DeployLoads(c, q) \/ CloseLoads(c, q) \/ CloseNotFound(c, q)
      PROVE  Life!Next
    BY <1>2, <1>4 DEF DeployLoads, CloseLoads, CloseNotFound, history
<1>5. ASSUME NEW c \in Callers, CloseLoadsArchive(c) PROVE Life!Next
    BY <1>2, <1>5 DEF CloseLoadsArchive, history
<1>6. CASE GetMyPositions \/ CycleJudges \/ CycleRefreshes \/ CycleEnds \/ UNCHANGED vars
    BY <1>2, <1>6 DEF GetMyPositions, CycleJudges, CycleRefreshes, CycleEnds, vars,
       files, history
<1> QED
    BY <1>1, <1>3, <1>4, <1>5, <1>6 DEF Next, Saves

\* The two files implement PaperLife: whatever copies calls hold of them, each
\* untangled position enters the list, leaves it and enters the archive once,
\* in a write of its own (deployPosition and closePosition, dlmm.js).
THEOREM LifeCorrect == Spec => LivesAsPromised
<1>1. Init => Life!Init
    <2> SUFFICES ASSUME Init, NEW p \in Positions PROVE Stage(p) = "none"
        BY DEF Life!Init
    <2>1. NoFile[p] = 0 /\ Load(NoFile)[p] = 0
        BY PaperDistinct DEF Load, NoFile
    <2> QED
        BY <2>1 DEF Init, Stage, In
<1>2. TypeInv /\ KeptInv /\ [Next]_vars => [Life!Next]_StageOf
    BY StepLives
<1>3. Init => TypeInv /\ KeptInv
    BY InitTypes, InitKept
<1>4. TypeInv /\ KeptInv /\ [Next]_vars => (TypeInv /\ KeptInv)'
    BY StepTypes, StepKept
<1> QED
    BY <1>1, <1>2, <1>3, <1>4, PTL DEF Spec, LivesAsPromised, Life!Spec, StageOf
==============================================================================
