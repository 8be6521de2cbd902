---------------------------- MODULE Hermes_proofs ----------------------------
(***************************************************************************)
(* Proofs about Hermes: well-formed state, the approval behind every       *)
(* submission, the receipt behind every position, and the implementation   *)
(* of ApprovedBroadcast.                                                   *)
(***************************************************************************)
EXTENDS Hermes, SequenceTheorems, FiniteSetTheorems, TLAPS

-----------------------------------------------------------------------------
(* Lines of a JSONL file. *)

LEMMA AppendTyped ==
    ASSUME NEW S, NEW log \in Seq(S \cup Damaged), NEW r \in S
    PROVE  AppendLine(log, r) \in Seq(S \cup Damaged)
<1>1. CASE EndsTorn(log)
    <2>1. Len(log) \in 1..Len(log)
        BY <1>1 DEF EndsTorn
    <2>2. Glued \in S \cup Damaged
        BY DEF Damaged
    <2>3. [log EXCEPT ![Len(log)] = Glued] \in Seq(S \cup Damaged)
        BY <2>1, <2>2, ExceptSeq
    <2> QED
        BY <1>1, <2>3 DEF AppendLine
<1>2. CASE ~EndsTorn(log)
    BY <1>2 DEF AppendLine
<1> QED
    BY <1>1, <1>2

LEMMA TearTyped ==
    ASSUME NEW S, NEW log \in Seq(S \cup Damaged)
    PROVE  TearLine(log) \in Seq(S \cup Damaged)
    BY DEF TearLine, Damaged

\* An append loses no whole line and adds at most the appended one.
LEMMA AppendKeeps ==
    ASSUME NEW S, NEW log \in Seq(S), NEW r
    PROVE  /\ Written(log) \subseteq Written(AppendLine(log, r))
           /\ Written(AppendLine(log, r)) \subseteq Written(log) \cup {r}
<1>1. CASE EndsTorn(log)
    <2> DEFINE new == [log EXCEPT ![Len(log)] = Glued]
    <2>1. Len(log) \in DOMAIN log /\ log[Len(log)] = Torn
        BY <1>1 DEF EndsTorn
    <2>2. DOMAIN new = DOMAIN log
        OBVIOUS
    <2>3. \A i \in DOMAIN log : i # Len(log) => new[i] = log[i]
        OBVIOUS
    <2>4. new[Len(log)] = Glued
        BY <2>1
    <2>5. AppendLine(log, r) = new
        BY <1>1 DEF AppendLine
    <2> HIDE DEF new
    <2>6. Written(new) = Written(log)
        BY <2>1, <2>2, <2>3, <2>4 DEF Written, Damaged
    <2> QED
        BY <2>5, <2>6
<1>2. CASE ~EndsTorn(log)
    <2>1. AppendLine(log, r) = Append(log, r)
        BY <1>2 DEF AppendLine
    <2>2. DOMAIN Append(log, r) = DOMAIN log \cup {Len(log) + 1}
        OBVIOUS
    <2>3. \A i \in DOMAIN log : Append(log, r)[i] = log[i]
        OBVIOUS
    <2>4. Append(log, r)[Len(log) + 1] = r
        OBVIOUS
    <2> DEFINE new == Append(log, r)
    <2> HIDE DEF new
    <2>5. Written(new) = (Written(log) \cup {r}) \ Damaged
        BY <2>2, <2>3, <2>4 DEF Written, new
    <2> QED
        BY <2>1, <2>5 DEF new, Written
<1> QED
    BY <1>1, <1>2

\* A whole record is there after its append when the file did not end torn.
LEMMA AppendAdds ==
    ASSUME NEW S, NEW log \in Seq(S), NEW r, r \notin Damaged, ~EndsTorn(log)
    PROVE  r \in Written(AppendLine(log, r))
<1>1. AppendLine(log, r) = Append(log, r)
    BY DEF AppendLine
<1>2. Len(log) + 1 \in DOMAIN Append(log, r)
    OBVIOUS
<1>3. Append(log, r)[Len(log) + 1] = r
    OBVIOUS
<1> QED
    BY <1>1, <1>2, <1>3 DEF Written

LEMMA TearKeeps ==
    ASSUME NEW S, NEW log \in Seq(S)
    PROVE  Written(TearLine(log)) = Written(log)
<1>1. CASE EndsTorn(log)
    BY <1>1 DEF TearLine
<1>2. CASE ~EndsTorn(log)
    <2>1. TearLine(log) = Append(log, Torn)
        BY <1>2 DEF TearLine
    <2>2. DOMAIN Append(log, Torn) = DOMAIN log \cup {Len(log) + 1}
        OBVIOUS
    <2>3. \A i \in DOMAIN log : Append(log, Torn)[i] = log[i]
        OBVIOUS
    <2>4. Append(log, Torn)[Len(log) + 1] = Torn
        OBVIOUS
    <2> DEFINE new == Append(log, Torn)
    <2> HIDE DEF new
    <2>5. Written(new) = Written(log)
        BY <2>2, <2>3, <2>4 DEF Written, Damaged, new
    <2> QED
        BY <2>1, <2>5 DEF new
<1> QED
    BY <1>1, <1>2

\* What a reader decodes was written whole.
LEMMA EntriesWritten ==
    ASSUME NEW S, NEW log \in Seq(S)
    PROVE  Entries(log) \subseteq Written(log)
<1>1. \A i \in DOMAIN log : i \in 1..i
    OBVIOUS
<1> QED
    BY <1>1 DEF Entries, Written, Readable

\* Whole lines have the type of the file's records.
LEMMA WrittenTyped ==
    ASSUME NEW S, NEW log \in Seq(S \cup Damaged)
    PROVE  Written(log) \subseteq S
    BY DEF Written

-----------------------------------------------------------------------------
(* Type correctness. *)

\* What the coordinator and the caller hold while they are at work.
InProgress ==
    /\ cycle \in {"simulate", "sign"} => current \in Candidates
    /\ cycle = "sign" => signed \in 1..MaxSigned
    /\ cycle = "ledger" => pending \in Envelope
    /\ caller # "idle" => receipt \in Receipt

TypeInv == TypeOK /\ InProgress

switchTypes ==
    /\ stopFile \in BOOLEAN /\ localStop \in BOOLEAN /\ macroHalt \in BOOLEAN

cycleTypes ==
    /\ cycle \in {"idle", "evaluate", "simulate", "sign", "ledger"}
    /\ todo \in SUBSET Candidates /\ current \in Candidates \cup {None}
    /\ tokenFresh \in BOOLEAN /\ signed \in 0..MaxSigned
    /\ pending \in Envelope \cup {None} /\ held \in SUBSET Envelope
    /\ wallet \in Seq(Envelope \cup Damaged)
    /\ cycle \in {"simulate", "sign"} => current \in Candidates
    /\ cycle = "sign" => signed \in 1..MaxSigned
    /\ cycle = "ledger" => pending \in Envelope

approvalTypes == approvals \in Seq(Approval \cup Damaged)

callerTypes ==
    /\ caller \in {"idle", "submit", "answer", "record", "position"}
    /\ receipt \in Receipt \cup {None}
    /\ receipts \in Seq(Receipt \cup Damaged)
    /\ positions \in Seq(Position \cup Closing \cup Damaged)
    /\ caller # "idle" => receipt \in Receipt

chainTypes ==
    /\ sent \in SUBSET Envelope /\ landed \in SUBSET Envelope
    /\ spent \in Nat

LEMMA TypeParts ==
    TypeInv <=> /\ switchTypes /\ cycleTypes /\ approvalTypes
                /\ callerTypes /\ chainTypes /\ day \in Nat
    BY DEF TypeInv, TypeOK, InProgress, switchTypes, cycleTypes,
           approvalTypes, callerTypes, chainTypes

LEMMA TypePartsNext ==
    TypeInv' <=> /\ switchTypes' /\ cycleTypes' /\ approvalTypes'
                 /\ callerTypes' /\ chainTypes' /\ day' \in Nat
    BY DEF TypeInv, TypeOK, InProgress, switchTypes, cycleTypes,
           approvalTypes, callerTypes, chainTypes

\* The state of a component that a step leaves alone keeps its type.
LEMMA TypesUnchanged ==
    /\ switchTypes /\ UNCHANGED switchVars => switchTypes'
    /\ cycleTypes /\ UNCHANGED cycleVars => cycleTypes'
    /\ approvalTypes /\ UNCHANGED approvals => approvalTypes'
    /\ callerTypes /\ UNCHANGED callerVars => callerTypes'
    /\ chainTypes /\ UNCHANGED chainVars => chainTypes'
    /\ day \in Nat /\ UNCHANGED day => day' \in Nat
<1>1. switchTypes /\ UNCHANGED switchVars => switchTypes'
    BY DEF switchTypes, switchVars
<1>2. cycleTypes /\ UNCHANGED cycleVars => cycleTypes'
    BY DEF cycleTypes, cycleVars
<1>3. approvalTypes /\ UNCHANGED approvals => approvalTypes'
    BY DEF approvalTypes
<1>4. callerTypes /\ UNCHANGED callerVars => callerTypes'
    BY DEF callerTypes, callerVars
<1>5. chainTypes /\ UNCHANGED chainVars => chainTypes'
    BY DEF chainTypes, chainVars
<1> QED
    BY <1>1, <1>2, <1>3, <1>4, <1>5

\* A component's steps, and what each leaves alone.
LEMMA CoordinatorTypes ==
    ASSUME cycleTypes, Coordinator
    PROVE  cycleTypes' /\ UNCHANGED <<switchVars, approvals, callerVars, chainVars, day>>
<1>1. CASE CycleStarts
    BY <1>1 DEF CycleStarts, cycleTypes
<1>2. ASSUME NEW c \in Candidates, PolicyEvaluates(c)
      PROVE  cycleTypes' /\ UNCHANGED <<switchVars, approvals, callerVars, chainVars, day>>
    BY <1>2 DEF PolicyEvaluates, cycleTypes
<1>3. CASE SimulationPasses
    <2>1. signed \in 0..MaxSigned /\ signed < MaxSigned /\ signed' = signed + 1
        BY <1>3 DEF SimulationPasses, cycleTypes
    <2>2. signed' \in 1..MaxSigned
        BY <2>1, HermesConstants
    <2>3. signed' \in 0..MaxSigned
        BY <2>2
    <2>4. CASE Level >= 2 /\ SigningPrep
        <3>1. cycle' = "sign" /\ current' = current /\ tokenFresh' = tokenFresh
            BY <1>3, <2>4 DEF SimulationPasses
        <3>2. UNCHANGED <<todo, pending, held, wallet>> /\ cycle = "simulate"
            BY <1>3 DEF SimulationPasses
        <3>3. cycleTypes'
            BY <2>2, <2>3, <3>1, <3>2 DEF cycleTypes
        <3> QED
            BY <1>3, <3>3 DEF SimulationPasses
    <2>5. CASE ~(Level >= 2 /\ SigningPrep)
        <3>1. NextCandidate /\ UNCHANGED <<todo, pending, held, wallet>>
            BY <1>3, <2>5 DEF SimulationPasses
        <3>2. cycleTypes'
            BY <2>3, <3>1 DEF NextCandidate, cycleTypes
        <3> QED
            BY <1>3, <3>2 DEF SimulationPasses
    <2> QED
        BY <2>4, <2>5
<1>4. CASE SimulationFails
    BY <1>4 DEF SimulationFails, NextCandidate, cycleTypes
<1>5. CASE Signs
    <2>1. PICK tag \in Tags : pending' = [id |-> <<current, tag>>, sim |-> signed]
        BY <1>5 DEF Signs
    <2>2. current \in Candidates /\ signed \in 1..MaxSigned
        BY <1>5 DEF Signs, cycleTypes
    <2>3. pending' \in Envelope
        BY <2>1, <2>2 DEF Envelope
    <2> QED
        BY <1>5, <2>3 DEF Signs, cycleTypes
<1>6. CASE SigningRefused
    BY <1>6 DEF SigningRefused, NextCandidate, cycleTypes
<1>7. CASE WalletLedgerWritten
    <2>1. pending \in Envelope /\ wallet \in Seq(Envelope \cup Damaged)
        BY <1>7 DEF WalletLedgerWritten, cycleTypes
    <2>2. wallet' \in Seq(Envelope \cup Damaged)
        BY <1>7, <2>1, AppendTyped, TearTyped DEF WalletLedgerWritten
    <2> QED
        BY <1>7, <2>2 DEF WalletLedgerWritten, NextCandidate, cycleTypes
<1>8. CASE CycleEnds
    BY <1>8 DEF CycleEnds, cycleTypes
<1> QED
    BY <1>1, <1>2, <1>3, <1>4, <1>5, <1>6, <1>7, <1>8 DEF Coordinator

LEMMA ApproveTypes ==
    ASSUME cycleTypes, approvalTypes, NEW id, ApproveCommand(id) \/ ApproveTorn(id)
    PROVE  approvalTypes'
<1>1. CASE ApproveCommand(id)
    <2>1. PICK i \in Named(id) :
             approvals' = AppendLine(approvals, [env |-> wallet[i], expired |-> FALSE])
        BY <1>1 DEF ApproveCommand
    <2>2. wallet[i] \in Envelope
        BY <2>1 DEF Named, Readable, cycleTypes
    <2>3. [env |-> wallet[i], expired |-> FALSE] \in Approval
        BY <2>2 DEF Approval
    <2> QED
        BY <2>1, <2>3, AppendTyped DEF approvalTypes
<1>2. CASE ApproveTorn(id)
    BY <1>2, TearTyped DEF ApproveTorn, approvalTypes
<1> QED
    BY <1>1, <1>2

LEMMA ExpiryTypes ==
    ASSUME approvalTypes, NEW i, ApprovalExpires(i)
    PROVE  approvalTypes'
<1>1. i \in 1..Len(approvals) /\ approvals[i] \in Approval
    BY DEF ApprovalExpires, approvalTypes
<1> DEFINE a == [approvals[i] EXCEPT !.expired = TRUE]
<1>2. a \in Approval
    BY <1>1 DEF Approval
<1>3. approvals' = [approvals EXCEPT ![i] = a]
    BY DEF ApprovalExpires
<1> HIDE DEF a
<1> QED
    BY <1>1, <1>2, <1>3, ExceptSeq DEF approvalTypes

LEMMA CallerTypes ==
    ASSUME cycleTypes, callerTypes, chainTypes, day \in Nat, Caller
    PROVE  /\ callerTypes' /\ chainTypes'
           /\ UNCHANGED <<switchVars, cycleVars, approvals, day>>
<1>1. ASSUME NEW e \in held, NEW a \in Entries(approvals) \cup {None},
             BroadcastChecks(e, a)
      PROVE  /\ callerTypes' /\ chainTypes'
             /\ UNCHANGED <<switchVars, cycleVars, approvals, day>>
    <2>1. [env |-> e, day |-> day, status |-> "NONE"] \in Receipt
        BY DEF cycleTypes, Receipt
    <2>2. callerTypes'
        BY <1>1, <2>1 DEF BroadcastChecks, callerTypes
    <2> QED
        BY <1>1, <2>2, TypesUnchanged DEF BroadcastChecks
<1>2. CASE Submits
    <2>1. receipt \in Receipt
        BY <1>2 DEF Submits, callerTypes
    <2>2. receipt.env \in Envelope /\ receipt' \in Receipt
        BY <1>2, <2>1 DEF Submits, Receipt
    <2>3. chainTypes'
        BY <1>2, <2>2 DEF Submits, chainTypes
    <2>4. callerTypes'
        BY <1>2, <2>2 DEF Submits, callerTypes
    <2> QED
        BY <1>2, <2>3, <2>4 DEF Submits
<1>6. CASE Answers
    <2>1. receipt \in Receipt
        BY <1>6 DEF Answers, callerTypes
    <2>2. receipt' \in Receipt
        BY <1>6, <2>1 DEF Answers, Receipt
    <2>3. callerTypes'
        BY <1>6, <2>2 DEF Answers, callerTypes
    <2> QED
        BY <1>6, <2>3, TypesUnchanged DEF Answers
<1>3. CASE ReceiptRecorded
    <2>1. receipt \in Receipt /\ receipts \in Seq(Receipt \cup Damaged)
        BY <1>3 DEF ReceiptRecorded, callerTypes
    <2>2. receipts' \in Seq(Receipt \cup Damaged)
        BY <1>3, <2>1, AppendTyped, TearTyped DEF ReceiptRecorded
    <2>3. callerTypes'
        BY <1>3, <2>1, <2>2 DEF ReceiptRecorded, callerTypes
    <2> QED
        BY <1>3, <2>3, TypesUnchanged DEF ReceiptRecorded
<1>4. CASE PositionCreated
    <2>1. receipt \in Receipt
        BY <1>4 DEF PositionCreated, callerTypes
    <2>2. positions \in Seq(Position \cup Closing \cup Damaged)
        BY DEF callerTypes
    <2>3. positions' \in Seq(Position \cup Closing \cup Damaged)
        <3>1. ASSUME NEW e \in held,
                     positions' = AppendLine(positions,
                         [id |-> Len(positions), status |-> "OPEN",
                          receipt |-> receipt, env |-> e])
              PROVE  positions' \in Seq(Position \cup Closing \cup Damaged)
            <4> DEFINE p == [id |-> Len(positions), status |-> "OPEN",
                             receipt |-> receipt, env |-> e]
            <4>1. Len(positions) \in Nat /\ e \in Envelope
                BY <2>2 DEF cycleTypes
            <4>2. p \in Position \cup Closing
                BY <2>1, <4>1 DEF Position
            <4>3. positions' = AppendLine(positions, p)
                BY <3>1
            <4> HIDE DEF p
            <4> QED
                BY <2>2, <4>2, <4>3, AppendTyped
        <3>2. CASE positions' = TearLine(positions) \/ positions' = positions
            BY <2>2, <3>2, TearTyped
        <3> QED
            BY <1>4, <3>1, <3>2 DEF PositionCreated
    <2>4. callerTypes'
        BY <1>4, <2>3 DEF PositionCreated, callerTypes
    <2> QED
        BY <1>4, <2>4, TypesUnchanged DEF PositionCreated
<1>5. CASE PositionClosed
    <2>1. PICK p \in Entries(positions) :
             \/ positions' = AppendLine(positions, [id |-> p.id, status |-> "CLOSED"])
             \/ positions' = TearLine(positions)
        BY <1>5 DEF PositionClosed
    <2>2. positions \in Seq(Position \cup Closing \cup Damaged)
        BY DEF callerTypes
    <2>3. p \in Position \cup Closing
        BY <2>1, <2>2, EntriesWritten, WrittenTyped
    <2> DEFINE c == [id |-> p.id, status |-> "CLOSED"]
    <2>4. c \in Position \cup Closing
        BY <2>3 DEF Position, Closing
    <2>5. \/ positions' = AppendLine(positions, c)
          \/ positions' = TearLine(positions)
        BY <2>1
    <2> HIDE DEF c
    <2>6. positions' \in Seq(Position \cup Closing \cup Damaged)
        BY <2>2, <2>4, <2>5, AppendTyped, TearTyped
    <2>7. callerTypes'
        BY <1>5, <2>6 DEF PositionClosed, callerTypes
    <2> QED
        BY <1>5, <2>7, TypesUnchanged DEF PositionClosed
<1> QED
    BY <1>1, <1>2, <1>3, <1>4, <1>5, <1>6 DEF Caller

LEMMA CostTyped == ASSUME NEW e \in Envelope PROVE CostOf(e) \in Nat
    BY HermesConstants DEF CostOf, Envelope

LEMMA LandingTypes ==
    ASSUME chainTypes, NEW e \in sent, Lands(e)
    PROVE  /\ chainTypes'
           /\ UNCHANGED <<switchVars, cycleVars, approvals, callerVars, sent, day>>
<1>1. e \in Envelope /\ CostOf(e) \in Nat
    BY CostTyped DEF chainTypes
<1> QED
    BY <1>1 DEF Lands, chainTypes

LEMMA GuardianTypes ==
    ASSUME switchTypes, cycleTypes, approvalTypes, Guardian
    PROVE  /\ switchTypes' /\ approvalTypes'
           /\ UNCHANGED <<cycleVars, callerVars, chainVars, day>>
<1>1. CASE HaltsOrPauses
    BY <1>1, TypesUnchanged DEF HaltsOrPauses, guardianUnchanged, switchTypes
<1>2. CASE Resumes
    BY <1>2, TypesUnchanged DEF Resumes, guardianUnchanged, switchTypes
<1>3. ASSUME NEW id \in Candidates \X Tags, ApproveCommand(id) \/ ApproveTorn(id)
      PROVE  /\ switchTypes' /\ approvalTypes'
             /\ UNCHANGED <<cycleVars, callerVars, chainVars, day>>
    <2>1. approvalTypes'
        BY <1>3, ApproveTypes
    <2>2. guardianUnchanged /\ UNCHANGED switchVars
        BY <1>3 DEF ApproveCommand, ApproveTorn
    <2> QED
        BY <2>1, <2>2, TypesUnchanged DEF guardianUnchanged
<1> QED
    BY <1>1, <1>2, <1>3 DEF Guardian

LEMMA EnvironmentTypes ==
    ASSUME TypeInv, Clock \/ StopFileSwitched \/ MacroChanges \/ Crash
    PROVE  TypeInv'
<1> USE TypeParts, TypePartsNext, TypesUnchanged
<1>1. CASE TokenExpires
    <2>1. cycleTypes'
        BY <1>1 DEF TokenExpires, cycleTypes
    <2> QED
        BY <1>1, <2>1 DEF TokenExpires
<1>2. CASE NewDay
    <2>1. day' \in Nat
        BY <1>2 DEF NewDay
    <2>2. chainTypes'
        BY <1>2 DEF NewDay, chainTypes
    <2> QED
        BY <1>2, <2>1, <2>2 DEF NewDay
<1>3. ASSUME NEW i \in DOMAIN approvals, ApprovalExpires(i)
      PROVE  TypeInv'
    <2>1. approvalTypes'
        BY <1>3, ExpiryTypes
    <2> QED
        BY <1>3, <2>1 DEF ApprovalExpires, guardianUnchanged
<1>4. CASE StopFileSwitched
    <2>1. switchTypes'
        BY <1>4 DEF StopFileSwitched, switchTypes
    <2> QED
        BY <1>4, <2>1 DEF StopFileSwitched, guardianUnchanged
<1>5. CASE MacroChanges
    <2>1. switchTypes'
        BY <1>5 DEF MacroChanges, switchTypes
    <2> QED
        BY <1>5, <2>1 DEF MacroChanges, guardianUnchanged
<1>6. CASE Crash
    <2>1. cycleTypes'
        BY <1>6 DEF Crash, cycleTypes
    <2>2. callerTypes'
        BY <1>6 DEF Crash, callerTypes
    <2> QED
        BY <1>6, <2>1, <2>2 DEF Crash
<1> QED
    BY <1>1, <1>2, <1>3, <1>4, <1>5, <1>6 DEF Clock

LEMMA InitTypes == Init => TypeInv
<1> SUFFICES ASSUME Init PROVE TypeInv
    OBVIOUS
<1>1. 0 \in 0..MaxSigned
    BY HermesConstants
<1>2. switchTypes
    BY DEF Init, switchTypes
<1>3. cycleTypes
    <2>1. todo \in SUBSET Candidates /\ held \in SUBSET Envelope
        BY DEF Init
    <2>2. current \in Candidates \cup {None} /\ pending \in Envelope \cup {None}
        BY DEF Init
    <2>3. wallet \in Seq(Envelope \cup Damaged)
        BY DEF Init
    <2>4. cycle = "idle" /\ signed = 0 /\ tokenFresh = FALSE
        BY DEF Init
    <2> QED
        BY <1>1, <2>1, <2>2, <2>3, <2>4 DEF cycleTypes
<1>4. approvalTypes
    BY DEF Init, approvalTypes
<1>5. callerTypes
    BY DEF Init, callerTypes
<1>6. chainTypes
    BY DEF Init, chainTypes
<1>7. day \in Nat
    BY DEF Init
<1> QED
    BY <1>2, <1>3, <1>4, <1>5, <1>6, <1>7, TypeParts

LEMMA StepTypes == TypeInv /\ [Next]_vars => TypeInv'
<1> SUFFICES ASSUME TypeInv, [Next]_vars PROVE TypeInv'
    OBVIOUS
<1> USE TypeParts, TypePartsNext, TypesUnchanged
<1>1. CASE Coordinator
    BY <1>1, CoordinatorTypes
<1>2. CASE Guardian
    BY <1>2, GuardianTypes
<1>3. CASE Caller
    BY <1>3, CallerTypes
<1>4. CASE Clock \/ StopFileSwitched \/ MacroChanges \/ Crash
    BY <1>4, EnvironmentTypes
<1>5. ASSUME NEW e \in sent, Lands(e) PROVE TypeInv'
    BY <1>5, LandingTypes
<1>6. CASE UNCHANGED vars
    BY <1>6 DEF vars
<1> QED
    BY <1>1, <1>2, <1>3, <1>4, <1>5, <1>6 DEF Next

\* Every file, ledger and component of the pipeline keeps its type, whichever
\* faults occur.
THEOREM TypeInvariant == Spec => []TypeInv
<1>1. Init => TypeInv
    BY InitTypes
<1>2. TypeInv /\ [Next]_vars => TypeInv'
    BY StepTypes
<1> QED
    BY <1>1, <1>2, PTL DEF Spec

\* The type invariant the runs check.
THEOREM TypeCorrect == Spec => []TypeOK
<1>1. TypeInv => TypeOK
    BY DEF TypeInv
<1> QED
    BY <1>1, TypeInvariant, PTL

-----------------------------------------------------------------------------
(* Approvals. *)

\* The append of an approval makes at most its envelope approved and live.
LEMMA ApproveEffect ==
    ASSUME cycleTypes, approvalTypes, NEW id, ApproveCommand(id) \/ ApproveTorn(id)
    PROVE  \E t \in Envelope \cap Written(wallet) :
              /\ ApprovedEnvelopes \subseteq ApprovedEnvelopes'
              /\ ApprovedEnvelopes' \subseteq ApprovedEnvelopes \cup {t}
              /\ Live' = Live \/ Live' = Live \cup {t}
<1>1. CASE ApproveCommand(id)
    <2>1. PICK i \in Named(id) :
             approvals' = AppendLine(approvals, [env |-> wallet[i], expired |-> FALSE])
        BY <1>1 DEF ApproveCommand
    <2> DEFINE t == wallet[i]
               a == [env |-> t, expired |-> FALSE]
    <2>2. t \in Entries(wallet)
        BY <2>1 DEF Named, Entries
    <2>3. t \in Written(wallet) /\ t \in Envelope
        BY <2>2, EntriesWritten, WrittenTyped DEF cycleTypes
    <2>4. /\ Written(approvals) \subseteq Written(approvals')
          /\ Written(approvals') \subseteq Written(approvals) \cup {a}
        BY <2>1, AppendKeeps DEF approvalTypes
    <2>5. a.env = t /\ ~a.expired
        OBVIOUS
    <2> HIDE DEF a, t
    <2>6. CASE a \in Written(approvals')
        <3>1. Written(approvals)' = Written(approvals) \cup {a}
            BY <2>4, <2>6
        <3>2. ApprovedEnvelopes' = ApprovedEnvelopes \cup {t}
            BY <2>5, <3>1 DEF ApprovedEnvelopes
        <3>3. Live' = Live \cup {t}
            BY <2>5, <3>1 DEF Live
        <3> QED
            BY <2>3, <3>2, <3>3
    <2>7. CASE a \notin Written(approvals')
        <3>1. Written(approvals)' = Written(approvals)
            BY <2>4, <2>7
        <3> QED
            BY <2>3, <3>1 DEF ApprovedEnvelopes, Live
    <2> QED
        BY <2>6, <2>7
<1>2. CASE ApproveTorn(id)
    <2>1. PICK i \in Named(id) : TRUE
        BY <1>2 DEF ApproveTorn
    <2>2. wallet[i] \in Entries(wallet)
        BY <2>1 DEF Named, Entries
    <2>3. wallet[i] \in Envelope \cap Written(wallet)
        BY <2>2, EntriesWritten, WrittenTyped DEF cycleTypes
    <2>4. Written(approvals)' = Written(approvals)
        BY <1>2, TearKeeps DEF ApproveTorn, approvalTypes
    <2> QED
        BY <2>3, <2>4 DEF ApprovedEnvelopes, Live
<1> QED
    BY <1>1, <1>2

\* An approval that expires stays approved and may stop being live.
LEMMA ExpiryEffect ==
    ASSUME approvalTypes, NEW i, ApprovalExpires(i)
    PROVE  \E t \in Envelope :
              /\ ApprovedEnvelopes' = ApprovedEnvelopes
              /\ Live' = Live \/ Live' = Live \ {t}
<1>1. i \in DOMAIN approvals /\ approvals[i] \in Approval
    BY DEF ApprovalExpires, approvalTypes
<1> DEFINE old == approvals[i]
           a == [approvals[i] EXCEPT !.expired = TRUE]
           new == [approvals EXCEPT ![i] = a]
<1>2. a \in Approval /\ a.env = old.env /\ a.expired
    BY <1>1 DEF Approval
<1>3. approvals' = new
    BY DEF ApprovalExpires
<1>4. old \notin Damaged /\ a \notin Damaged /\ old.env \in Envelope
    BY <1>1, <1>2, HermesDistinct DEF ApprovalExpires, Approval
<1> HIDE DEF a
<1>5. DOMAIN new = DOMAIN approvals
    OBVIOUS
<1>6. new[i] = a /\ \A j \in DOMAIN approvals : j # i => new[j] = approvals[j]
    BY <1>1
<1> HIDE DEF new, old
<1>7. /\ Written(new) \subseteq Written(approvals) \cup {a}
      /\ a \in Written(new) /\ old \in Written(approvals)
      /\ Written(approvals) \ {old} \subseteq Written(new)
    BY <1>1, <1>4, <1>5, <1>6 DEF Written, old
<1>8. ApprovedEnvelopes' = ApprovedEnvelopes
    <2>1. \A b \in Written(new) : b.env \in ApprovedEnvelopes
        BY <1>2, <1>7 DEF ApprovedEnvelopes
    <2>2. \A b \in Written(approvals) : \E d \in Written(new) : d.env = b.env
        BY <1>2, <1>7
    <2> QED
        BY <1>3, <2>1, <2>2 DEF ApprovedEnvelopes
<1>9. Live' \subseteq Live
    BY <1>2, <1>3, <1>7 DEF Live
<1>10. Live \ {old.env} \subseteq Live'
    BY <1>3, <1>7 DEF Live
<1>11. Live' = Live \/ Live' = Live \ {old.env}
    BY <1>9, <1>10
<1> QED
    BY <1>4, <1>8, <1>11

\* No step takes a whole line out of the wallet ledger.
LEMMA WalletGrows ==
    ASSUME cycleTypes, Coordinator
    PROVE  Written(wallet) \subseteq Written(wallet')
<1>1. CASE WalletLedgerWritten
    BY <1>1, AppendKeeps, TearKeeps DEF WalletLedgerWritten, cycleTypes
<1>2. CASE ~WalletLedgerWritten
    <2>1. wallet' = wallet
        BY <1>2 DEF Coordinator, CycleStarts, PolicyEvaluates, SimulationPasses,
                    SimulationFails, Signs, SigningRefused, CycleEnds
    <2> QED
        BY <2>1
<1> QED
    BY <1>1, <1>2

\* What was approved is in the wallet ledger; what is about to be submitted or
\* was submitted is approved.
SubmittedInv ==
    /\ ApprovedEnvelopes \subseteq Written(wallet)
    /\ Unapproved \/ (caller = "submit" => receipt.env \in ApprovedEnvelopes)
    /\ Unapproved \/ sent \subseteq ApprovedEnvelopes

LEMMA InitSubmitted == Init => SubmittedInv
    BY DEF Init, SubmittedInv, ApprovedEnvelopes, Written

LEMMA StepSubmitted == TypeInv /\ SubmittedInv /\ [Next]_vars => SubmittedInv'
<1> SUFFICES ASSUME TypeInv, SubmittedInv, [Next]_vars PROVE SubmittedInv'
    OBVIOUS
<1>t. cycleTypes /\ approvalTypes /\ callerTypes /\ chainTypes /\ switchTypes
      /\ day \in Nat
    BY TypeParts
<1>0. ASSUME UNCHANGED <<caller, receipt, sent>>,
             ApprovedEnvelopes \subseteq ApprovedEnvelopes',
             ApprovedEnvelopes' \subseteq Written(wallet')
      PROVE  SubmittedInv'
    BY <1>0 DEF SubmittedInv, Unapproved
<1>1. CASE Coordinator
    <2>1. UNCHANGED <<approvals, callerVars, chainVars>>
        BY <1>1, <1>t, CoordinatorTypes
    <2>2. ApprovedEnvelopes' = ApprovedEnvelopes
        BY <2>1 DEF ApprovedEnvelopes
    <2>3. Written(wallet) \subseteq Written(wallet')
        BY <1>1, <1>t, WalletGrows
    <2> QED
        BY <1>0, <2>1, <2>2, <2>3 DEF SubmittedInv, callerVars, chainVars
<1>2. CASE Guardian
    <2>1. UNCHANGED <<caller, receipt, sent, wallet>>
        BY <1>2, <1>t, GuardianTypes DEF callerVars, chainVars, cycleVars
    <2>2. CASE HaltsOrPauses \/ Resumes
        <3>1. approvals' = approvals
            BY <2>2 DEF HaltsOrPauses, Resumes
        <3> QED
            BY <1>0, <2>1, <3>1 DEF SubmittedInv, ApprovedEnvelopes
    <2>3. ASSUME NEW id \in Candidates \X Tags, ApproveCommand(id) \/ ApproveTorn(id)
          PROVE  SubmittedInv'
        <3>1. PICK t \in Envelope \cap Written(wallet) :
                 /\ ApprovedEnvelopes \subseteq ApprovedEnvelopes'
                 /\ ApprovedEnvelopes' \subseteq ApprovedEnvelopes \cup {t}
            BY <1>t, <2>3, ApproveEffect
        <3> QED
            BY <1>0, <2>1, <3>1 DEF SubmittedInv
    <2> QED
        BY <1>2, <2>2, <2>3 DEF Guardian
<1>3. CASE Caller
    <2>1. UNCHANGED <<wallet, approvals>>
        BY <1>3, <1>t, CallerTypes DEF cycleVars
    <2>2. ApprovedEnvelopes' = ApprovedEnvelopes
        BY <2>1 DEF ApprovedEnvelopes
    <2>3. ASSUME NEW e \in held, NEW a \in Entries(approvals) \cup {None},
                 BroadcastChecks(e, a)
          PROVE  SubmittedInv'
        <3>1. receipt'.env = e /\ sent' = sent
            BY <2>3 DEF BroadcastChecks, chainVars
        <3>2. Unapproved \/ e \in ApprovedEnvelopes
            <4>1. CASE ValidApproval(e, a)
                <5>1. a \in Entries(approvals) /\ a.env = e
                    BY <4>1 DEF ValidApproval
                <5>2. a \in Written(approvals)
                    BY <1>t, <5>1, EntriesWritten DEF approvalTypes
                <5> QED
                    BY <5>1, <5>2 DEF ApprovedEnvelopes
            <4> QED
                BY <2>3, <4>1 DEF BroadcastChecks
        <3> QED
            BY <2>1, <2>2, <3>1, <3>2 DEF SubmittedInv, Unapproved
    <2>4. CASE Submits
        <3>1. caller = "submit" /\ caller' = "answer" /\ sent' = sent \cup {receipt.env}
            BY <2>4 DEF Submits
        <3> QED
            BY <2>1, <2>2, <3>1 DEF SubmittedInv, Unapproved
    <2>5. CASE Answers \/ ReceiptRecorded \/ PositionCreated
        <3>1. caller' # "submit" /\ sent' = sent
            BY <2>5 DEF Answers, ReceiptRecorded, PositionCreated, chainVars
        <3> QED
            BY <2>1, <2>2, <3>1 DEF SubmittedInv, Unapproved
    <2>6. CASE PositionClosed
        <3>1. UNCHANGED <<caller, receipt, sent>>
            BY <2>6 DEF PositionClosed, chainVars
        <3> QED
            BY <2>1, <2>2, <3>1 DEF SubmittedInv, Unapproved
    <2> QED
        BY <1>3, <2>3, <2>4, <2>5, <2>6 DEF Caller
<1>4. ASSUME NEW i \in DOMAIN approvals, ApprovalExpires(i)
      PROVE  SubmittedInv'
    <2>1. ApprovedEnvelopes' = ApprovedEnvelopes
        BY <1>t, <1>4, ExpiryEffect
    <2>2. UNCHANGED <<caller, receipt, sent, wallet>>
        BY <1>4 DEF ApprovalExpires, guardianUnchanged, callerVars, chainVars, cycleVars
    <2> QED
        BY <1>0, <2>1, <2>2 DEF SubmittedInv
<1>5. CASE TokenExpires \/ NewDay \/ StopFileSwitched \/ MacroChanges
    <2>1. UNCHANGED <<caller, receipt, sent, wallet, approvals>>
        BY <1>5 DEF TokenExpires, NewDay, StopFileSwitched, MacroChanges,
                    guardianUnchanged, callerVars, chainVars, cycleVars
    <2> QED
        BY <1>0, <2>1 DEF SubmittedInv, ApprovedEnvelopes
<1>6. CASE Crash
    <2>1. caller' = "idle" /\ UNCHANGED <<sent, wallet, approvals>>
        BY <1>6 DEF Crash, chainVars
    <2> QED
        BY <2>1 DEF SubmittedInv, ApprovedEnvelopes, Unapproved
<1>7. CASE UNCHANGED vars \/ \E e \in sent : Lands(e)
    <2>1. UNCHANGED <<caller, receipt, sent, wallet, approvals>>
        BY <1>7, <1>t, LandingTypes DEF vars, callerVars, chainVars, cycleVars
    <2> QED
        BY <1>0, <2>1 DEF SubmittedInv, ApprovedEnvelopes
<1> QED
    BY <1>1, <1>2, <1>3, <1>4, <1>5, <1>6, <1>7 DEF Next, Clock

\* broadcast_executor hands an envelope to the chain only if the wallet ledger
\* records it and an operator approved it as recorded, unless it broadcasts
\* unattended, however the files are damaged and whichever ids collide.
THEOREM SubmittedCorrect == Spec => []SubmittedWasApproved
<1>1. Init => TypeInv /\ SubmittedInv
    BY InitTypes, InitSubmitted
<1>2. TypeInv /\ SubmittedInv /\ [Next]_vars => (TypeInv /\ SubmittedInv)'
    BY StepTypes, StepSubmitted
<1>3. SubmittedInv => SubmittedWasApproved
    BY DEF SubmittedInv, SubmittedWasApproved
<1> QED
    BY <1>1, <1>2, <1>3, PTL DEF Spec

-----------------------------------------------------------------------------
(* The level-2 flow implements ApprovedBroadcast. *)

AbstractVars == <<Live, WalletStopped, Armed, sent>>

\* Steps that touch neither approvals, switch, caller nor chain stutter.
LEMMA AbstractStutters ==
    ASSUME UNCHANGED <<approvals, stopFile, caller, receipt, sent>>
    PROVE  UNCHANGED AbstractVars
    BY DEF AbstractVars, Live, WalletStopped, Armed

LEMMA ArmedType == TypeInv => (Armed = None <=> caller # "submit")
<1> SUFFICES ASSUME TypeInv PROVE Armed = None <=> caller # "submit"
    OBVIOUS
<1>1. caller = "submit" => receipt.env \in Envelope
    BY DEF TypeInv, InProgress, Receipt
<1> QED
    BY <1>1, HermesDistinct DEF Armed

LEMMA InitRefines == Init => Abstract!Init
<1> SUFFICES ASSUME Init PROVE Abstract!Init
    OBVIOUS
<1>1. Live = {}
    BY DEF Init, Live, Written
<1>2. WalletStopped = FALSE
    BY DEF Init, WalletStopped
<1>3. Armed = None /\ sent = {}
    BY DEF Init, Armed
<1> QED
    BY <1>1, <1>2, <1>3 DEF Abstract!Init

LEMMA StepRefines ==
    TypeInv /\ [Next]_vars => [Abstract!Next]_AbstractVars
<1> SUFFICES ASSUME TypeInv, [Next]_vars
             PROVE  Abstract!Next \/ UNCHANGED AbstractVars
    OBVIOUS
<1>t. cycleTypes /\ approvalTypes /\ callerTypes /\ chainTypes /\ switchTypes
      /\ day \in Nat
    BY TypeParts
<1>1. CASE Coordinator
    <2>1. UNCHANGED <<approvals, stopFile, caller, receipt, sent>>
        BY <1>1, <1>t, CoordinatorTypes DEF switchVars, callerVars, chainVars
    <2> QED
        BY <2>1, AbstractStutters
<1>2. CASE HaltsOrPauses \/ Resumes
    <2>1. UNCHANGED <<approvals, stopFile, caller, receipt, sent>>
        BY <1>2 DEF HaltsOrPauses, Resumes, guardianUnchanged, callerVars, chainVars
    <2> QED
        BY <2>1, AbstractStutters
<1>3. ASSUME NEW id \in Candidates \X Tags, ApproveCommand(id) \/ ApproveTorn(id)
      PROVE  Abstract!Next \/ UNCHANGED AbstractVars
    <2>1. UNCHANGED <<stopFile, caller, receipt, sent>>
        BY <1>3 DEF ApproveCommand, ApproveTorn, guardianUnchanged, switchVars,
                    callerVars, chainVars
    <2>2. PICK t \in Envelope : Live' = Live \/ Live' = Live \cup {t}
        BY <1>t, <1>3, ApproveEffect
    <2>3. UNCHANGED <<WalletStopped, Armed, sent>>
        BY <2>1 DEF WalletStopped, Armed
    <2>4. CASE Live' = Live
        BY <2>3, <2>4 DEF AbstractVars
    <2>5. CASE Live' = Live \cup {t}
        <3>1. Abstract!Approve(t)
            BY <2>3, <2>5 DEF Abstract!Approve
        <3> QED
            BY <3>1 DEF Abstract!Next
    <2> QED
        BY <2>2, <2>4, <2>5
<1>4. ASSUME NEW e \in held, NEW a \in Entries(approvals) \cup {None},
             BroadcastChecks(e, a)
      PROVE  Abstract!Next \/ UNCHANGED AbstractVars
    <2>1. UNCHANGED <<approvals, stopFile, sent>> /\ caller' = "submit" /\ receipt'.env = e
        BY <1>4 DEF BroadcastChecks, switchVars, chainVars
    <2>2. UNCHANGED <<Live, WalletStopped, sent>> /\ Armed' = e
        BY <2>1 DEF Live, WalletStopped, Armed
    <2>3. Armed = None /\ ~WalletStopped
        BY <1>4, ArmedType DEF BroadcastChecks
    <2>4. Unapproved \/ e \in Live
        <3>1. CASE ValidApproval(e, a)
            <4>1. a \in Entries(approvals) /\ a.env = e /\ ~a.expired
                BY <3>1 DEF ValidApproval
            <4>2. a \in Written(approvals)
                BY <1>t, <4>1, EntriesWritten DEF approvalTypes
            <4> QED
                BY <4>1, <4>2 DEF Live
        <3> QED
            BY <1>4, <3>1 DEF BroadcastChecks
    <2>5. e \in Envelope
        BY <1>t DEF cycleTypes
    <2>6. Abstract!Arm(e)
        BY <2>2, <2>3, <2>4 DEF Abstract!Arm
    <2> QED
        BY <2>5, <2>6 DEF Abstract!Next
<1>5. CASE Submits
    <2>1. /\ caller = "submit" /\ caller' = "answer"
          /\ sent' = sent \cup {receipt.env}
          /\ UNCHANGED <<approvals, stopFile>>
        BY <1>5 DEF Submits, switchVars
    <2>2. Armed # None
        BY <2>1, ArmedType
    <2>3. Armed = receipt.env /\ Armed' = None /\ UNCHANGED <<Live, WalletStopped>>
        BY <2>1 DEF Armed, Live, WalletStopped
    <2>4. Abstract!Send
        BY <2>1, <2>2, <2>3 DEF Abstract!Send
    <2> QED
        BY <2>4 DEF Abstract!Next
<1>6. CASE Answers \/ ReceiptRecorded \/ PositionCreated \/ PositionClosed
    <2>1. /\ caller # "submit" /\ caller' # "submit"
          /\ UNCHANGED <<approvals, stopFile, sent>>
        BY <1>6 DEF Answers, ReceiptRecorded, PositionCreated, PositionClosed, switchVars,
                    chainVars
    <2> QED
        BY <2>1 DEF AbstractVars, Live, WalletStopped, Armed
<1>7. ASSUME NEW i \in DOMAIN approvals, ApprovalExpires(i)
      PROVE  Abstract!Next \/ UNCHANGED AbstractVars
    <2>1. PICK t \in Envelope : Live' = Live \/ Live' = Live \ {t}
        BY <1>t, <1>7, ExpiryEffect
    <2>2. UNCHANGED <<WalletStopped, Armed, sent>>
        BY <1>7 DEF ApprovalExpires, guardianUnchanged, switchVars, callerVars,
                    chainVars, WalletStopped, Armed
    <2>3. CASE Live' = Live
        BY <2>2, <2>3 DEF AbstractVars
    <2>4. CASE Live' = Live \ {t}
        <3>1. Abstract!Expire(t)
            BY <2>2, <2>4 DEF Abstract!Expire
        <3> QED
            BY <3>1 DEF Abstract!Next
    <2> QED
        BY <2>1, <2>3, <2>4
<1>8. CASE TokenExpires \/ NewDay \/ MacroChanges
    <2>1. UNCHANGED <<approvals, stopFile, caller, receipt, sent>>
        BY <1>8 DEF TokenExpires, NewDay, MacroChanges, guardianUnchanged,
                    switchVars, callerVars, chainVars
    <2> QED
        BY <2>1, AbstractStutters
<1>9. CASE StopFileSwitched
    <2>1. UNCHANGED <<Live, Armed, sent>> /\ stopFile' = ~stopFile
        BY <1>9 DEF StopFileSwitched, guardianUnchanged, callerVars, chainVars,
                    Live, Armed
    <2>2. CASE KillFile
        <3>1. WalletStopped' = ~WalletStopped
            BY <2>1, <2>2 DEF WalletStopped
        <3>2. Abstract!Switch
            BY <2>1, <3>1 DEF Abstract!Switch
        <3> QED
            BY <3>2 DEF Abstract!Next
    <2>3. CASE ~KillFile
        BY <2>1, <2>3 DEF AbstractVars, WalletStopped
    <2> QED
        BY <2>2, <2>3
<1>10. CASE Crash
    <2>1. caller' = "idle" /\ UNCHANGED <<approvals, stopFile, sent>>
        BY <1>10 DEF Crash, switchVars, chainVars
    <2>2. Armed' = None /\ UNCHANGED <<Live, WalletStopped, sent>>
        BY <2>1 DEF Armed, Live, WalletStopped
    <2>3. Abstract!Drop
        BY <2>2 DEF Abstract!Drop
    <2> QED
        BY <2>3 DEF Abstract!Next
<1>11. CASE UNCHANGED vars \/ \E e \in sent : Lands(e)
    <2>1. UNCHANGED <<approvals, stopFile, caller, receipt, sent>>
        BY <1>11, <1>t, LandingTypes DEF vars, switchVars, callerVars, chainVars
    <2> QED
        BY <2>1, AbstractStutters
<1> QED
    BY <1>1, <1>2, <1>3, <1>4, <1>5, <1>6, <1>7, <1>8, <1>9, <1>10, <1>11
       DEF Next, Guardian, Caller, Clock

\* Policy, simulation, signing, approval and broadcast, with their files and
\* faults, implement ApprovedBroadcast: what is handed to the chain was armed while
\* the kill switch file was absent and, unless unattended, while an approval of
\* that very transaction was live, one transaction being armed at a time.  It may
\* be handed over after the file was created or the approval expired.
THEOREM RefinementCorrect == Spec => RefinesApproved
<1>1. Init => Abstract!Init
    BY InitRefines
<1>2. TypeInv /\ [Next]_vars => [Abstract!Next]_AbstractVars
    BY StepRefines
<1> QED
    BY <1>1, <1>2, TypeInvariant, PTL DEF Spec, RefinesApproved, Abstract!Spec,
       AbstractVars

-----------------------------------------------------------------------------
(* Positions. *)

\* A cut line of the broadcast ledger took a receipt with it.
ReceiptLost == \E i \in DOMAIN receipts : receipts[i] = Glued

OnRecord(r) ==
    /\ r.status \in Accepted
    /\ r.env \in sent
    /\ r \in Written(receipts) \/ ReceiptLost

\* Positions rest on receipts on record, and the caller's receipt tells what was
\* handed over and is on record before a position is made of it.
PositionInv ==
    /\ \A p \in OpenedPositions : OnRecord(p.receipt)
    /\ caller \in {"answer", "record", "position"} => receipt.env \in sent
    /\ caller \in {"record", "position"} =>
          receipt.status \in Accepted \cup {"FAILED"}
    /\ caller = "position" => receipt \in Written(receipts) \/ ReceiptLost

\* Once on record, a receipt stays on record.
LEMMA RecordKept ==
    ASSUME callerTypes, sent \subseteq sent',
           \/ receipts' = receipts
           \/ receipts' = TearLine(receipts)
           \/ \E r : receipts' = AppendLine(receipts, r)
    PROVE  /\ ReceiptLost => ReceiptLost'
           /\ \A q : OnRecord(q) => OnRecord(q)'
<1>1. receipts \in Seq(Receipt \cup Damaged)
    BY DEF callerTypes
<1>2. Written(receipts) \subseteq Written(receipts')
    BY <1>1, AppendKeeps, TearKeeps
<1>3. ReceiptLost => ReceiptLost'
    <2>1. CASE receipts' = receipts
        BY <2>1 DEF ReceiptLost
    <2>2. CASE receipts' = TearLine(receipts)
        BY <1>1, <2>2 DEF TearLine, ReceiptLost
    <2>3. ASSUME NEW r, receipts' = AppendLine(receipts, r)
          PROVE  ReceiptLost => ReceiptLost'
        <3>1. CASE EndsTorn(receipts)
            <4>1. Len(receipts) \in DOMAIN receipts
                BY <1>1, <3>1 DEF EndsTorn
            <4>2. receipts' = [receipts EXCEPT ![Len(receipts)] = Glued]
                BY <2>3, <3>1 DEF AppendLine
            <4> QED
                BY <4>1, <4>2 DEF ReceiptLost
        <3>2. CASE ~EndsTorn(receipts)
            BY <1>1, <2>3, <3>2 DEF AppendLine, ReceiptLost
        <3> QED
            BY <3>1, <3>2
    <2> QED
        BY <2>1, <2>2, <2>3
<1> QED
    BY <1>2, <1>3 DEF OnRecord

LEMMA InitPositions == Init => PositionInv
    BY DEF Init, PositionInv, OpenedPositions, Written

LEMMA StepPositions == TypeInv /\ PositionInv /\ [Next]_vars => PositionInv'
<1> SUFFICES ASSUME TypeInv, PositionInv, [Next]_vars PROVE PositionInv'
    OBVIOUS
<1>t. cycleTypes /\ approvalTypes /\ callerTypes /\ chainTypes /\ switchTypes
      /\ day \in Nat
    BY TypeParts
<1>0. ASSUME UNCHANGED <<callerVars, sent>>
      PROVE  PositionInv'
    BY <1>0 DEF callerVars, PositionInv, OnRecord, OpenedPositions, ReceiptLost
<1>1. CASE Coordinator
    <2>1. UNCHANGED <<callerVars, sent>>
        BY <1>1, <1>t, CoordinatorTypes DEF chainVars
    <2> QED
        BY <1>0, <2>1
<1>2. CASE Guardian
    <2>1. UNCHANGED <<callerVars, sent>>
        BY <1>2, <1>t, GuardianTypes DEF chainVars
    <2> QED
        BY <1>0, <2>1
<1>3. ASSUME NEW e \in held, NEW a \in Entries(approvals) \cup {None},
             BroadcastChecks(e, a)
      PROVE  PositionInv'
    <2>1. caller' = "submit" /\ UNCHANGED <<receipts, positions, sent>>
        BY <1>3 DEF BroadcastChecks, chainVars
    <2> QED
        BY <2>1 DEF PositionInv, OnRecord, OpenedPositions, ReceiptLost
<1>4. CASE Submits
    <2>1. receipt \in Receipt
        BY <1>4, <1>t DEF Submits, callerTypes
    <2>2. receipt'.env = receipt.env
        BY <1>4, <2>1 DEF Submits, Receipt
    <2>3. /\ caller' = "answer" /\ UNCHANGED <<receipts, positions>>
          /\ sent' = sent \cup {receipt.env}
        BY <1>4 DEF Submits
    <2>4. \A q : OnRecord(q) => OnRecord(q)'
        BY <1>t, <2>3, RecordKept
    <2> QED
        BY <2>2, <2>3, <2>4 DEF PositionInv, OpenedPositions
<1>5. CASE Answers
    <2>1. receipt \in Receipt
        BY <1>5, <1>t DEF Answers, callerTypes
    <2>2. receipt'.env = receipt.env /\ receipt'.status \in Accepted \cup {"FAILED"}
        BY <1>5, <2>1 DEF Answers, Receipt, Accepted
    <2>3. /\ caller = "answer" /\ caller' = "record"
          /\ UNCHANGED <<receipts, positions, sent>>
        BY <1>5 DEF Answers, chainVars
    <2>4. \A q : OnRecord(q) => OnRecord(q)'
        BY <1>t, <2>3, RecordKept
    <2> QED
        BY <2>2, <2>3, <2>4 DEF PositionInv, OpenedPositions
<1>6. CASE ReceiptRecorded
    <2>1. caller = "record" /\ UNCHANGED <<positions, sent>>
        BY <1>6 DEF ReceiptRecorded, chainVars
    <2>2. \/ receipts' = TearLine(receipts)
          \/ receipts' = AppendLine(receipts, receipt)
        BY <1>6 DEF ReceiptRecorded
    <2>3. \A q : OnRecord(q) => OnRecord(q)'
        BY <1>t, <2>1, <2>2, RecordKept
    <2>4. \A p \in OpenedPositions' : OnRecord(p.receipt)'
        BY <2>1, <2>3 DEF PositionInv, OpenedPositions
    <2>5. CASE receipts' = AppendLine(receipts, receipt) /\ caller' = "position"
                /\ receipt' = receipt
        <3>1. receipts \in Seq(Receipt \cup Damaged) /\ receipt \in Receipt
            BY <1>t, <2>1 DEF callerTypes
        <3>2. receipt \notin Damaged
            BY <3>1, HermesDistinct
        <3>3. CASE EndsTorn(receipts)
            <4>1. Len(receipts) \in DOMAIN receipts
                BY <3>1, <3>3 DEF EndsTorn
            <4>2. receipts' = [receipts EXCEPT ![Len(receipts)] = Glued]
                BY <2>5, <3>3 DEF AppendLine
            <4>3. ReceiptLost'
                BY <4>1, <4>2 DEF ReceiptLost
            <4> QED
                BY <2>1, <2>4, <2>5, <4>3 DEF PositionInv
        <3>4. CASE ~EndsTorn(receipts)
            <4>1. receipt \in Written(receipts')
                BY <2>5, <3>1, <3>2, <3>4, AppendAdds
            <4> QED
                BY <2>1, <2>4, <2>5, <4>1 DEF PositionInv
        <3> QED
            BY <3>3, <3>4
    <2>6. CASE caller' = "idle"
        BY <2>4, <2>6 DEF PositionInv
    <2> QED
        BY <1>6, <2>5, <2>6 DEF ReceiptRecorded
<1>7. CASE PositionCreated
    <2>1. /\ caller = "position" /\ caller' = "idle"
          /\ UNCHANGED <<receipts, sent>>
        BY <1>7 DEF PositionCreated, chainVars
    <2>2. \A q : OnRecord(q) => OnRecord(q)'
        BY <1>t, <2>1, RecordKept
    <2>3. Opens => OnRecord(receipt)
        BY <2>1 DEF Opens, PositionInv, OnRecord, Accepted
    <2>4. positions \in Seq(Position \cup Closing \cup Damaged)
        BY <1>t DEF callerTypes
    <2>5. \A p \in OpenedPositions' : OnRecord(p.receipt)
        <3>1. ASSUME NEW e \in held, Opens,
                     positions' = AppendLine(positions,
                         [id |-> Len(positions), status |-> "OPEN",
                          receipt |-> receipt, env |-> e])
              PROVE  \A p \in OpenedPositions' : OnRecord(p.receipt)
            <4> DEFINE p == [id |-> Len(positions), status |-> "OPEN",
                             receipt |-> receipt, env |-> e]
            <4>1. positions' = AppendLine(positions, p) /\ p.receipt = receipt
                BY <3>1
            <4> HIDE DEF p
            <4>2. Written(positions') \subseteq Written(positions) \cup {p}
                BY <2>4, <4>1, AppendKeeps
            <4> QED
                BY <2>3, <3>1, <4>1, <4>2 DEF OpenedPositions, PositionInv
        <3>2. CASE positions' = TearLine(positions) \/ positions' = positions
            <4>1. Written(positions') = Written(positions)
                BY <2>4, <3>2, TearKeeps
            <4> QED
                BY <4>1 DEF OpenedPositions, PositionInv
        <3> QED
            BY <1>7, <3>1, <3>2 DEF PositionCreated
    <2> QED
        BY <2>1, <2>2, <2>5 DEF PositionInv
<1>8. CASE PositionClosed
    <2>1. UNCHANGED <<caller, receipt, receipts, sent>>
        BY <1>8 DEF PositionClosed, chainVars
    <2>2. PICK p \in Entries(positions) :
             \/ positions' = AppendLine(positions, [id |-> p.id, status |-> "CLOSED"])
             \/ positions' = TearLine(positions)
        BY <1>8 DEF PositionClosed
    <2> DEFINE c == [id |-> p.id, status |-> "CLOSED"]
    <2>3. c.status # "OPEN"
        OBVIOUS
    <2>4. positions \in Seq(Position \cup Closing \cup Damaged)
        BY <1>t DEF callerTypes
    <2>5. Written(positions') \subseteq Written(positions) \cup {c}
        BY <2>2, <2>4, AppendKeeps, TearKeeps
    <2> HIDE DEF c
    <2>6. OpenedPositions' \subseteq OpenedPositions
        BY <2>3, <2>5 DEF OpenedPositions
    <2>7. \A q : OnRecord(q) => OnRecord(q)'
        BY <1>t, <2>1, RecordKept
    <2> QED
        BY <2>1, <2>6, <2>7 DEF PositionInv, ReceiptLost
<1>9. CASE Clock \/ StopFileSwitched \/ MacroChanges \/ \E e \in sent : Lands(e)
    <2>1. UNCHANGED <<callerVars, sent>>
        BY <1>9 DEF Clock, TokenExpires, NewDay, ApprovalExpires, Lands,
                    StopFileSwitched, MacroChanges, guardianUnchanged, chainVars
    <2> QED
        BY <1>0, <2>1
<1>10. CASE Crash
    <2>1. caller' = "idle" /\ UNCHANGED <<receipts, positions, sent>>
        BY <1>10 DEF Crash, chainVars
    <2> QED
        BY <2>1 DEF PositionInv, OnRecord, OpenedPositions, ReceiptLost
<1>11. CASE UNCHANGED vars
    <2>1. UNCHANGED <<callerVars, sent>>
        BY <1>11 DEF vars, chainVars
    <2> QED
        BY <1>0, <2>1
<1> QED
    BY <1>1, <1>2, <1>3, <1>4, <1>5, <1>6, <1>7, <1>8, <1>9, <1>10, <1>11
       DEF Next, Caller

\* position_lifecycle opens a position only on an accepted receipt, of an envelope
\* that was handed to the chain and, unless unattended, approved; the receipt is in
\* the broadcast ledger unless a cut line took it.
THEOREM PositionsCorrect == Spec => []PositionHasReceipt
<1>1. Init => TypeInv /\ SubmittedInv /\ PositionInv
    BY InitTypes, InitSubmitted, InitPositions
<1>2. TypeInv /\ SubmittedInv /\ PositionInv /\ [Next]_vars
        => (TypeInv /\ SubmittedInv /\ PositionInv)'
    BY StepTypes, StepSubmitted, StepPositions
<1>3. SubmittedInv /\ PositionInv => PositionHasReceipt
    BY DEF SubmittedInv, PositionInv, PositionHasReceipt, OnRecord, ReceiptLost
<1> QED
    BY <1>1, <1>2, <1>3, PTL DEF Spec

-----------------------------------------------------------------------------
(* Sums over finite sets, as MapThenSumSet computes them: one member, always *)
(* the same, is taken out after the other.                                   *)

Pick(s) == CHOOSE x \in s : TRUE

\* h has the sum of g over every subset of S.
SumsUp(h, g, S) ==
    h = [s \in SUBSET S |-> IF s = {} THEN 0 ELSE g[Pick(s)] + h[s \ {Pick(s)}]]

\* A family of subsets of a finite set has a minimal member.
LEMMA Minimal ==
    ASSUME NEW S, IsFiniteSet(S), NEW F \in SUBSET SUBSET S, F # {}
    PROVE  \E x \in F : \A y \in F : y \subseteq x => y = x
<1>1. F \subseteq FiniteSubsetsOf(S)
    BY FS_FiniteSubsetsOfFinite
<1>2. PICK x \in F : \A y \in F : ~ (<<y, x>> \in StrictSubsetOrdering(S))
    BY <1>1, FS_StrictSubsetOrderingWellFounded, WFMin
<1>3. QED
    BY <1>2 DEF StrictSubsetOrdering

LEMMA PickIn == ASSUME NEW s, s # {} PROVE Pick(s) \in s
    BY DEF Pick

\* Sums over two sets agree on the subsets they share.
LEMMA SumsAgree ==
    ASSUME NEW S, IsFiniteSet(S), NEW T, S \subseteq T,
           NEW g, NEW k, \A x \in S : g[x] = k[x],
           NEW h, SumsUp(h, g, S), NEW m, SumsUp(m, k, T)
    PROVE  \A s \in SUBSET S : h[s] = m[s]
<1> DEFINE F == {s \in SUBSET S : h[s] # m[s]}
<1>1. SUFFICES ASSUME F # {} PROVE FALSE
    OBVIOUS
<1>2. PICK s \in F : \A t \in F : t \subseteq s => t = s
    <2> HIDE DEF F
    <2>1. F \in SUBSET SUBSET S
        BY DEF F
    <2>2. QED
        BY <1>1, <2>1, Minimal
<1>3. s # {}
    <2>1. h[{}] = 0 /\ m[{}] = 0
        BY DEF SumsUp
    <2>2. QED
        BY <2>1
<1>4. Pick(s) \in s
    BY <1>3, PickIn
<1> DEFINE t == s \ {Pick(s)}
<1>5. t \in SUBSET S /\ t \in SUBSET T /\ t # s
    BY <1>4
<1>6. h[t] = m[t]
    BY <1>2, <1>5
<1>7. h[s] = g[Pick(s)] + h[t] /\ m[s] = k[Pick(s)] + m[t]
    <2>1. s \in SUBSET S /\ s \in SUBSET T
        OBVIOUS
    <2> HIDE DEF F
    <2>2. QED
        BY <2>1, <1>3 DEF SumsUp
<1>8. QED
    BY <1>4, <1>6, <1>7

\* Every finite set has its sums.
LEMMA SumsExist ==
    ASSUME NEW S, IsFiniteSet(S), NEW g
    PROVE  \E h : SumsUp(h, g, S)
<1> DEFINE F == {s \in SUBSET S : ~ \E h : SumsUp(h, g, s)}
<1>1. SUFFICES ASSUME F # {} PROVE FALSE
    OBVIOUS
<1>2. PICK s \in F : \A t \in F : t \subseteq s => t = s
    <2> HIDE DEF F
    <2>1. F \in SUBSET SUBSET S
        BY DEF F
    <2>2. QED
        BY <1>1, <2>1, Minimal
<1> DEFINE Of(t) == CHOOSE h : SumsUp(h, g, t)
<1>3. ASSUME NEW t, t \subseteq s, t # s PROVE SumsUp(Of(t), g, t) /\ IsFiniteSet(t)
    <2>1. t \in SUBSET S /\ t \notin F
        BY <1>2, <1>3
    <2>2. \E h : SumsUp(h, g, t)
        BY <2>1
    <2>3. QED
        BY <2>1, <2>2, FS_Subset
<1> HIDE DEF Of, F
<1> DEFINE H == [t \in SUBSET s |-> IF t = {} THEN 0
                                    ELSE g[Pick(t)] + Of(t \ {Pick(t)})[t \ {Pick(t)}]]
<1>4. ASSUME NEW t \in SUBSET s, t # {}
      PROVE  H[t] = g[Pick(t)] + H[t \ {Pick(t)}]
    <2> DEFINE u == t \ {Pick(t)}
    <2>1. u \subseteq s /\ u # s /\ u \in SUBSET s
        BY <1>4, PickIn
    <2>2. SumsUp(Of(u), g, u) /\ IsFiniteSet(u)
        BY <2>1, <1>3
    <2>3. H[t] = g[Pick(t)] + Of(u)[u]
        BY <1>4
    <2> HIDE DEF u
    <2>4. H[u] = Of(u)[u]
        <3>1. CASE u = {}
            <4>1. Of(u)[u] = 0
                BY <2>2, <3>1, {} \in SUBSET u DEF SumsUp
            <4>2. H[u] = 0
                BY <2>1, <3>1
            <4>3. QED
                BY <4>1, <4>2
        <3>2. CASE u # {}
            <4> DEFINE v == u \ {Pick(u)}
            <4>1. v \subseteq u /\ v # u /\ v \subseteq s /\ v # s
                BY <2>1, <3>2, PickIn
            <4>2. SumsUp(Of(v), g, v) /\ IsFiniteSet(v)
                BY <4>1, <1>3
            <4>3. Of(u)[u] = g[Pick(u)] + Of(u)[v]
                BY <2>2, <3>2, u \in SUBSET u DEF SumsUp
            <4>4. H[u] = g[Pick(u)] + Of(v)[v]
                BY <2>1, <3>2
            <4> HIDE DEF v
            <4>5. Of(v)[v] = Of(u)[v]
                BY <4>1, <4>2, <2>2, SumsAgree, v \in SUBSET v
            <4>6. QED
                BY <4>3, <4>4, <4>5
        <3>3. QED
            BY <3>1, <3>2
    <2>5. QED
        BY <2>3, <2>4 DEF u
<1>5. H = [t \in SUBSET s |-> IF t = {} THEN 0 ELSE g[Pick(t)] + H[t \ {Pick(t)}]]
    BY <1>4
<1>6. SumsUp(H, g, s)
    BY <1>5 DEF SumsUp
<1>7. QED
    BY <1>2, <1>6 DEF F

\* Whichever member is taken out, the sum is its value and the rest.
LEMMA SumsTake ==
    ASSUME NEW S, IsFiniteSet(S), NEW g, \A x \in S : g[x] \in Nat,
           NEW h, SumsUp(h, g, S)
    PROVE  \A s \in SUBSET S : /\ h[s] \in Nat
                               /\ \A x \in s : h[s] = g[x] + h[s \ {x}]
<1> DEFINE Good(s) == h[s] \in Nat /\ \A x \in s : h[s] = g[x] + h[s \ {x}]
           F == {s \in SUBSET S : ~ Good(s)}
<1>1. SUFFICES ASSUME F # {} PROVE FALSE
    OBVIOUS
<1>2. PICK s \in F : \A t \in F : t \subseteq s => t = s
    <2> HIDE DEF F
    <2>1. F \in SUBSET SUBSET S
        BY DEF F
    <2>2. QED
        BY <1>1, <2>1, Minimal
<1>3. s \in SUBSET S /\ ~Good(s)
    OBVIOUS
<1>4. \A t \in SUBSET s : t # s => Good(t)
    BY <1>2, <1>3
<1> HIDE DEF F
<1>5. CASE s = {}
    BY <1>3, <1>5 DEF SumsUp
<1>6. CASE s # {}
    <2> DEFINE x == Pick(s)
    <2>1. x \in s
        BY <1>6, PickIn
    <2>2. h[s] = g[x] + h[s \ {x}]
        BY <1>3, <1>6 DEF SumsUp
    <2> HIDE DEF x
    <2>3. Good(s \ {x})
        BY <2>1, <1>4
    <2>4. g[x] \in Nat /\ h[s] \in Nat
        BY <2>1, <2>2, <2>3, <1>3
    <2>5. ASSUME NEW y \in s, y # x PROVE h[s] = g[y] + h[s \ {y}]
        <3>1. h[s \ {x}] = g[y] + h[(s \ {x}) \ {y}]
            BY <2>3, <2>5
        <3>2. Good(s \ {y})
            BY <2>5, <1>4
        <3>3. h[s \ {y}] = g[x] + h[(s \ {y}) \ {x}]
            BY <3>2, <2>1, <2>5
        <3>4. (s \ {y}) \ {x} = (s \ {x}) \ {y}
            OBVIOUS
        <3>5. Good((s \ {x}) \ {y})
            BY <1>4, <2>1
        <3>6. g[y] \in Nat
            BY <1>3
        <3> DEFINE rest == h[(s \ {x}) \ {y}]
        <3>7. rest \in Nat
            BY <3>5
        <3>8. h[s] = g[x] + (g[y] + rest)
            BY <2>2, <3>1
        <3>9. h[s \ {y}] = g[x] + rest
            BY <3>3, <3>4
        <3> HIDE DEF rest
        <3>10. QED
            BY <2>4, <3>6, <3>7, <3>8, <3>9
    <2>6. QED
        BY <1>3, <2>2, <2>4, <2>5
<1>7. QED
    BY <1>5, <1>6

-----------------------------------------------------------------------------
(* The daily cap. *)

\* The spend of any ledger on any day.
SpendOf(rs, d) ==
    MapThenSumSet(LAMBDA i : CostOf(rs[i].env),
                  {i \in Readable(rs) : rs[i].status \in Accepted /\ rs[i].day = d})

CountedIn(rs, d) == {i \in Readable(rs) : rs[i].status \in Accepted /\ rs[i].day = d}
Costs(rs) == [i \in Readable(rs) |-> CostOf(rs[i].env)]

\* What a reader of the ledger reaches are receipts, and finitely many.
LEMMA ReadableLines ==
    ASSUME NEW rs \in Seq(Receipt \cup Damaged)
    PROVE  /\ Readable(rs) \subseteq 1..Len(rs) /\ IsFiniteSet(Readable(rs))
           /\ \A i \in Readable(rs) : rs[i] \in Receipt /\ Costs(rs)[i] \in Nat
<1>1. Readable(rs) \subseteq 1..Len(rs)
    BY DEF Readable
<1>2. IsFiniteSet(Readable(rs))
    BY <1>1, FS_Interval, FS_Subset
<1>3. ASSUME NEW i \in Readable(rs) PROVE rs[i] \in Receipt /\ Costs(rs)[i] \in Nat
    <2>1. i \in 1..Len(rs) /\ i \in 1..i
        BY <1>1
    <2>2. rs[i] \notin Damaged
        BY <2>1 DEF Readable
    <2>3. rs[i] \in Receipt
        BY <2>1, <2>2
    <2>4. CostOf(rs[i].env) \in Nat
        BY <2>3, CostTyped DEF Receipt
    <2> QED
        BY <2>3, <2>4 DEF Costs
<1> QED
    BY <1>1, <1>2, <1>3

\* The spend of a ledger is the sum of the costs it counts.
LEMMA SpendIsSum ==
    ASSUME NEW rs \in Seq(Receipt \cup Damaged), NEW d, NEW S, IsFiniteSet(S),
           CountedIn(rs, d) \subseteq S, NEW g, NEW h, SumsUp(h, g, S),
           \A i \in CountedIn(rs, d) : g[i] = Costs(rs)[i]
    PROVE  SpendOf(rs, d) = h[CountedIn(rs, d)]
<1> DEFINE K == CountedIn(rs, d)
           P(m) == m = [s \in SUBSET K |->
                          IF s = {} THEN 0
                          ELSE CostOf(rs[CHOOSE x \in s : TRUE].env)
                               + m[s \ {CHOOSE x \in s : TRUE}]]
           m == CHOOSE m : P(m)
<1>1. K \subseteq Readable(rs) /\ IsFiniteSet(K)
    BY ReadableLines, FS_Subset DEF CountedIn
<1>2. \A f : P(f) <=> SumsUp(f, Costs(rs), K)
    <2>1. \A s \in SUBSET K : s # {} => Pick(s) \in Readable(rs)
        BY <1>1, PickIn
    <2> HIDE DEF K
    <2>2. \A s \in SUBSET K : s # {} => Costs(rs)[Pick(s)] = CostOf(rs[Pick(s)].env)
        BY <2>1 DEF Costs
    <2>3. ASSUME NEW f PROVE P(f) <=> SumsUp(f, Costs(rs), K)
        BY <2>2 DEF SumsUp, Pick
    <2> QED
        BY <2>3
<1>3. PICK f : SumsUp(f, Costs(rs), K)
    BY <1>1, SumsExist
<1> HIDE DEF P
<1>4. P(m)
    BY <1>2, <1>3
<1>5. SpendOf(rs, d) = m[K]
    <2>1. K = {i \in Readable(rs) : rs[i].status \in Accepted /\ rs[i].day = d}
        BY DEF CountedIn
    <2> HIDE DEF K
    <2>2. SpendOf(rs, d) = MapThenSumSet(LAMBDA i : CostOf(rs[i].env), K)
        BY <2>1 DEF SpendOf
    <2> QED
        BY <2>2 DEF MapThenSumSet, MapThenFoldSet, P
<1>6. SumsUp(m, Costs(rs), K)
    BY <1>2, <1>4
<1> HIDE DEF m, K
<1>7. IsFiniteSet(K)
    BY <1>1
<1>8. K \subseteq S
    BY DEF K
<1> DEFINE k == Costs(rs)
<1>9. SumsUp(m, k, K)
    BY <1>6
<1>10. \A i \in K : k[i] = g[i]
    BY DEF K
<1> HIDE DEF k
<1>11. \A s \in SUBSET K : m[s] = h[s]
    BY ONLY SumsUp(h, g, S), <1>7, <1>8, <1>9, <1>10, SumsAgree, Z3
<1> QED
    BY <1>5, <1>11 DEF K

\* A ledger's spend is an amount, and nothing on a day none of its receipts has.
LEMMA SpendTyped ==
    ASSUME NEW rs \in Seq(Receipt \cup Damaged), NEW d
    PROVE  /\ SpendOf(rs, d) \in Nat
           /\ (\A i \in Readable(rs) : rs[i].day # d) => SpendOf(rs, d) = 0
<1> DEFINE S == Readable(rs)
           K == CountedIn(rs, d)
<1>1. IsFiniteSet(S) /\ K \in SUBSET S
    BY ReadableLines DEF CountedIn
<1>2. \A i \in S : Costs(rs)[i] \in Nat
    BY ReadableLines
<1>3. (\A i \in Readable(rs) : rs[i].day # d) => K = {}
    BY DEF CountedIn
<1> HIDE DEF S, K
<1>4. PICK h : SumsUp(h, Costs(rs), S)
    BY <1>1, SumsExist
<1>5. SpendOf(rs, d) = h[K]
    BY <1>1, <1>4, SpendIsSum DEF K
<1>6. h[K] \in Nat
    BY <1>1, <1>2, <1>4, SumsTake
<1>7. h[{}] = 0
    BY <1>4 DEF SumsUp
<1> QED
    BY <1>3, <1>5, <1>6, <1>7

\* Ledgers of which a reader reaches the same receipts have the same spend.
LEMMA SpendSame ==
    ASSUME NEW rs \in Seq(Receipt \cup Damaged), NEW new \in Seq(Receipt \cup Damaged),
           Readable(new) = Readable(rs),
           \A i \in Readable(rs) : new[i] = rs[i], NEW d
    PROVE  SpendOf(new, d) = SpendOf(rs, d)
<1> DEFINE S == Readable(rs)
           K == CountedIn(rs, d)
<1>1. IsFiniteSet(S) /\ K \subseteq S
    BY ReadableLines DEF CountedIn
<1>2. CountedIn(new, d) = K
    BY DEF CountedIn
<1>3. \A i \in K : Costs(new)[i] = Costs(rs)[i]
    BY DEF CountedIn, Costs
<1> HIDE DEF S, K
<1>4. PICK h : SumsUp(h, Costs(rs), S)
    BY <1>1, SumsExist
<1>5. SpendOf(rs, d) = h[K]
    BY <1>1, <1>4, SpendIsSum DEF K
<1>6. SpendOf(new, d) = h[K]
    <2>1. CountedIn(new, d) \subseteq S
        BY <1>1, <1>2
    <2>2. \A i \in CountedIn(new, d) : Costs(rs)[i] = Costs(new)[i]
        BY <1>2, <1>3
    <2> QED
        BY <1>1, <1>2, <1>4, <2>1, <2>2, SpendIsSum
<1> QED
    BY <1>5, <1>6

\* A reader reaches what it reached before an append or a cut, and at most the
\* appended line in addition.
LEMMA AppendReadable ==
    ASSUME NEW rs \in Seq(Receipt \cup Damaged), NEW r, NEW new,
           new = AppendLine(rs, r) \/ new = TearLine(rs)
    PROVE  /\ \A i \in Readable(rs) : i \in Readable(new) /\ new[i] = rs[i]
           /\ \/ Readable(new) = Readable(rs)
              \/ /\ new = Append(rs, r)
                 /\ Readable(new) = Readable(rs) \cup {Len(rs) + 1}
<1> DEFINE n == Len(rs)
<1>1. CASE EndsTorn(rs)
    <2>1. n \in DOMAIN rs /\ n \in Nat /\ rs[n] = Torn /\ DOMAIN rs = 1..n
        BY <1>1 DEF EndsTorn
    <2>2. new = rs \/ new = [rs EXCEPT ![n] = Glued]
        BY <1>1 DEF AppendLine, TearLine
    <2>3. /\ DOMAIN new = 1..n /\ new[n] \in Damaged /\ rs[n] \in Damaged
          /\ \A j \in 1..n : j # n => new[j] = rs[j]
        BY <2>1, <2>2 DEF Damaged
    <2>4. \A i \in 1..n : i # n => \A j \in 1..i : j \in 1..n /\ j # n
        <3> HIDE DEF n
        <3> QED
            BY <2>1
    <2>5. n \notin Readable(rs) /\ n \notin Readable(new)
        BY <2>1, <2>3 DEF Readable
    <2>6. \A i \in 1..n : i # n => (i \in Readable(rs) <=> i \in Readable(new))
        BY <2>1, <2>3, <2>4 DEF Readable
    <2>7. Readable(rs) = Readable(new)
        BY <2>1, <2>3, <2>5, <2>6 DEF Readable
    <2> QED
        BY <2>1, <2>3, <2>5, <2>7 DEF Readable
<1>2. CASE ~EndsTorn(rs)
    <2>1. PICK x : /\ new = Append(rs, x)
                   /\ x = r \/ x = Torn
        BY <1>2 DEF AppendLine, TearLine
    <2>2. /\ n \in Nat /\ DOMAIN rs = 1..n /\ DOMAIN new = 1..(n + 1)
          /\ new[n + 1] = x /\ \A j \in 1..n : new[j] = rs[j]
        BY <2>1
    <2>3. \A i \in 1..n : \A j \in 1..i : j \in 1..n
        BY <2>2
    <2>4. \A i \in 1..n : i \in Readable(rs) <=> i \in Readable(new)
        BY <2>2, <2>3 DEF Readable
    <2>5. Readable(rs) \subseteq 1..n /\ Readable(new) \subseteq 1..n \cup {n + 1}
        BY <2>2 DEF Readable
    <2>6. n + 1 \in Readable(new) => x \notin Damaged
        BY <2>2 DEF Readable
    <2>7. n + 1 \in Readable(new) => new = Append(rs, r)
        BY <2>1, <2>6 DEF Damaged
    <2> HIDE DEF n
    <2>8. Readable(new) = Readable(rs) \/ Readable(new) = Readable(rs) \cup {n + 1}
        BY <2>4, <2>5
    <2>9. n + 1 \notin 1..n
        BY <2>2
    <2>10. Readable(new) = Readable(rs) \/ (n + 1) \in Readable(new)
        BY <2>8
    <2> QED
        BY <2>2, <2>4, <2>5, <2>7, <2>8, <2>10 DEF n
<1> QED
    BY <1>1, <1>2

\* A receipt appended to the ledger adds at most its cost to the spend of its
\* day, and nothing to that of another.
LEMMA SpendGrows ==
    ASSUME NEW rs \in Seq(Receipt \cup Damaged), NEW r \in Receipt, NEW d,
           NEW new, new = AppendLine(rs, r) \/ new = TearLine(rs)
    PROVE  /\ SpendOf(rs, d) \in Nat /\ SpendOf(new, d) \in Nat
           /\ SpendOf(new, d) <=
                SpendOf(rs, d) + IF r.status \in Accepted /\ r.day = d
                                 THEN CostOf(r.env) ELSE 0
<1>0. new \in Seq(Receipt \cup Damaged)
    BY AppendTyped, TearTyped
<1>c. /\ SpendOf(rs, d) \in Nat /\ SpendOf(new, d) \in Nat
      /\ CostOf(r.env) \in Nat
    <2>1. SpendOf(rs, d) \in Nat
        BY SpendTyped
    <2>2. SpendOf(new, d) \in Nat
        BY <1>0, SpendTyped
    <2>3. r.env \in Envelope
        BY DEF Receipt
    <2> QED
        BY <2>1, <2>2, <2>3, CostTyped
<1>a. /\ \A i \in Readable(rs) : i \in Readable(new) /\ new[i] = rs[i]
      /\ \/ Readable(new) = Readable(rs)
         \/ new = Append(rs, r) /\ Readable(new) = Readable(rs) \cup {Len(rs) + 1}
    BY AppendReadable, Zenon
<1>1. CASE Readable(new) = Readable(rs)
    <2>1. \A i \in Readable(rs) : new[i] = rs[i]
        BY <1>a
    <2>2. SpendOf(new, d) = SpendOf(rs, d)
        BY <1>0, <1>1, <2>1, SpendSame
    <2> QED
        BY <1>c, <2>2
<1>2. CASE Readable(new) # Readable(rs)
    <2> DEFINE n == Len(rs) + 1
               S == Readable(new)
               K == CountedIn(rs, d)
    <2>1. new = Append(rs, r) /\ S = Readable(rs) \cup {n}
        BY <1>2, <1>a
    <2>2. new[n] = r /\ n \notin Readable(rs)
          /\ \A i \in Readable(rs) : new[i] = rs[i]
        <3>1. Readable(rs) \subseteq 1..Len(rs)
            BY ReadableLines
        <3> QED
            BY <1>a, <2>1, <3>1
    <2>3. CountedIn(new, d) = IF r.status \in Accepted /\ r.day = d THEN K \cup {n} ELSE K
        <3> HIDE DEF n
        <3> QED
            BY <2>1, <2>2 DEF CountedIn
    <2>4. IsFiniteSet(S) /\ K \subseteq S /\ n \in S /\ n \notin K
          /\ K \subseteq Readable(rs)
        BY <1>0, <2>1, <2>2, ReadableLines DEF CountedIn
    <2>5. PICK h : SumsUp(h, Costs(new), S)
        BY <2>4, SumsExist
    <2>6. \A i \in S : Costs(new)[i] \in Nat
        BY <1>0, ReadableLines
    <2>7. Costs(new)[n] = CostOf(r.env) /\ \A i \in K : Costs(new)[i] = Costs(rs)[i]
        BY <2>1, <2>2, <2>4 DEF Costs
    <2> HIDE DEF n, S, K
    <2>8. SpendOf(rs, d) = h[K]
        BY <2>4, <2>5, <2>7, SpendIsSum DEF K
    <2>9. SpendOf(new, d) = h[CountedIn(new, d)]
        <3>1. CountedIn(new, d) \subseteq S
            BY <2>3, <2>4
        <3> QED
            BY <1>0, <2>4, <2>5, <3>1, SpendIsSum
    <2> DEFINE L == K \cup {n}
               rest == L \ {n}
    <2>10. L \in SUBSET S /\ n \in L /\ rest = K
        BY <2>4
    <2> HIDE DEF L
    <2>11. h[L] = CostOf(r.env) + h[rest]
        BY <2>4, <2>5, <2>6, <2>7, <2>10, SumsTake
    <2> HIDE DEF rest
    <2>12. h[L] = h[K] + CostOf(r.env)
        BY <1>c, <2>8, <2>10, <2>11
    <2> QED
        BY <1>c, <2>3, <2>8, <2>9, <2>12 DEF L
<1> QED
    BY <1>1, <1>2

\* The cap holds of every day.  While a transaction that passed the checks is not
\* yet on the ledger, there is room for the costliest on its day: before it is
\* stamped that is today, also when midnight falls after the checks, because
\* nothing was broadcast on the new day yet.
Stamped == caller \in {"answer", "record"}

CapInv ==
    /\ \A e \in held : e.id[1] \in Signable
    /\ caller # "idle" => receipt.env.id[1] \in Signable
    /\ \A i \in Readable(receipts) : receipts[i].day <= day
    /\ Stamped => receipt.day <= day
    /\ MaxDaily > 0 =>
          /\ \A d \in Nat : SpendOf(receipts, d) <= MaxDaily
          /\ caller = "submit" => SpendOf(receipts, day) + MaxTx <= MaxDaily
          /\ Stamped => SpendOf(receipts, receipt.day) + MaxTx <= MaxDaily

LEMMA SpendIsDaily ==
    /\ DailySpend = SpendOf(receipts, day)
    /\ \A d : BroadcastOn(d) = SpendOf(receipts, d)
    BY DEF DailySpend, SpendOf, Counted, BroadcastOn

LEMMA InitCap == Init => CapInv
<1> SUFFICES ASSUME Init PROVE CapInv
    OBVIOUS
<1>1. <<>> \in Seq(Receipt \cup Damaged) /\ Readable(<<>>) = {}
    BY DEF Readable
<1>2. \A d \in Nat : SpendOf(<<>>, d) = 0
    BY <1>1, SpendTyped
<1> QED
    BY <1>1, <1>2, HermesConstants DEF Init, CapInv, Stamped

\* Neither the coordinator nor the guardian nor a switch broadcasts.
LEMMA CapUnchanged ==
    ASSUME CapInv, UNCHANGED <<callerVars, day>>,
           \A e \in held' : e.id[1] \in Signable
    PROVE  CapInv'
    BY DEF CapInv, Stamped, callerVars

LEMMA StepCap ==
    ASSUME MaxTx > 0, TypeInv, CapInv, [Next]_vars
    PROVE  CapInv'
<1>t. cycleTypes /\ approvalTypes /\ callerTypes /\ chainTypes /\ switchTypes
      /\ day \in Nat
    BY TypeParts
<1>n. /\ MaxTx \in Nat /\ MaxDaily \in Nat
      /\ receipts \in Seq(Receipt \cup Damaged)
      /\ \A d : SpendOf(receipts, d) \in Nat
      /\ caller # "idle" => /\ receipt \in Receipt /\ receipt.env \in Envelope
                            /\ receipt.day \in Nat
    <2>1. receipts \in Seq(Receipt \cup Damaged)
        BY <1>t DEF callerTypes
    <2>2. \A d : SpendOf(receipts, d) \in Nat
        BY <2>1, SpendTyped
    <2> QED
        BY <1>t, <2>1, <2>2, HermesConstants DEF callerTypes, Receipt
<1>c. caller # "idle" => CostOf(receipt.env) \in Nat /\ CostOf(receipt.env) <= MaxTx
    <2> SUFFICES ASSUME caller # "idle"
                 PROVE  CostOf(receipt.env) \in Nat /\ CostOf(receipt.env) <= MaxTx
        OBVIOUS
    <2>1. receipt.env \in Envelope /\ receipt.env.id[1] \in Signable
        BY <1>n DEF CapInv
    <2> QED
        BY <2>1, CostTyped, SignableCost DEF CostOf
<1>0. ASSUME UNCHANGED <<callerVars, day, held>>
      PROVE  CapInv'
    <2>1. \A e \in held' : e.id[1] \in Signable
        BY <1>0 DEF CapInv
    <2> QED
        BY <1>0, <2>1, CapUnchanged
<1>1. CASE Coordinator
    <2>1. UNCHANGED <<callerVars, day>>
        BY <1>1, <1>t, CoordinatorTypes
    <2>2. CASE Signs
        <3>1. PICK tag \in Tags : pending' = [id |-> <<current, tag>>, sim |-> signed]
            BY <2>2 DEF Signs
        <3>2. current \in Signable /\ held' = held \cup {pending'}
            BY <2>2 DEF Signs, CanSign
        <3>3. \A e \in held' : e.id[1] \in Signable
            BY <3>1, <3>2 DEF CapInv
        <3> QED
            BY <2>1, <3>3, CapUnchanged
    <2>3. CASE held' = held
        BY <1>0, <2>1, <2>3
    <2> QED
        BY <1>1, <2>2, <2>3 DEF Coordinator, CycleStarts, SimulationPasses,
           SimulationFails, SigningRefused, WalletLedgerWritten, CycleEnds,
           PolicyEvaluates
<1>2. CASE Guardian
    <2>1. UNCHANGED <<callerVars, day, held>>
        BY <1>2, <1>t, GuardianTypes DEF cycleVars
    <2> QED
        BY <1>0, <2>1
<1>3. ASSUME NEW e \in held, NEW a \in Entries(approvals) \cup {None},
             BroadcastChecks(e, a)
      PROVE  CapInv'
    <2>1. /\ caller' = "submit"
          /\ receipt' = [env |-> e, day |-> day, status |-> "NONE"]
          /\ UNCHANGED <<receipts, held, day>>
        BY <1>3 DEF BroadcastChecks, cycleVars
    <2>2. MaxDaily > 0 => SpendOf(receipts, day) + MaxTx <= MaxDaily
        BY <1>3, SpendIsDaily DEF BroadcastChecks, WithinDailyCap
    <2>3. receipt'.env.id[1] \in Signable
        BY <2>1 DEF CapInv
    <2> QED
        BY <2>1, <2>2, <2>3 DEF CapInv, Stamped
<1>4. CASE Submits
    <2>1. caller = "submit" /\ caller' = "answer" /\ UNCHANGED <<receipts, held, day>>
        BY <1>4 DEF Submits, cycleVars
    <2>2. receipt'.env = receipt.env /\ receipt'.day = day
        BY <1>4, <1>n DEF Submits, Receipt
    <2> QED
        BY <1>t, <2>1, <2>2 DEF CapInv, Stamped
<1>5. CASE Answers
    <2>1. /\ caller = "answer" /\ caller' = "record"
          /\ UNCHANGED <<receipts, held, day>>
        BY <1>5 DEF Answers, cycleVars
    <2>2. receipt'.env = receipt.env /\ receipt'.day = receipt.day
        BY <1>5, <1>n, <2>1 DEF Answers, Receipt
    <2> QED
        BY <2>1, <2>2 DEF CapInv, Stamped
<1>6. CASE ReceiptRecorded
    <2>1. caller = "record" /\ UNCHANGED <<held, day>>
          /\ ((caller' = "position" /\ receipt' = receipt) \/ caller' = "idle")
        BY <1>6 DEF ReceiptRecorded, cycleVars
    <2>2. receipts' = AppendLine(receipts, receipt) \/ receipts' = TearLine(receipts)
        BY <1>6 DEF ReceiptRecorded
    <2>3. ~Stamped' /\ caller' # "submit"
        BY <2>1 DEF Stamped
    <2>4. ASSUME NEW i \in Readable(receipts') PROVE receipts'[i].day <= day
        <3>1. CASE i \in Readable(receipts)
            <4>1. receipts'[i] = receipts[i]
                BY <1>n, <2>2, <3>1, AppendReadable
            <4> QED
                BY <3>1, <4>1 DEF CapInv
        <3>2. CASE i \notin Readable(receipts)
            <4> DEFINE new == receipts'
            <4>0. new = AppendLine(receipts, receipt) \/ new = TearLine(receipts)
                BY <2>2
            <4> HIDE DEF new
            <4>a. \/ Readable(new) = Readable(receipts)
                  \/ /\ new = Append(receipts, receipt)
                     /\ Readable(new) = Readable(receipts) \cup {Len(receipts) + 1}
                BY <1>n, <4>0, AppendReadable
            <4>1. receipts' = Append(receipts, receipt) /\ i = Len(receipts) + 1
                BY <2>4, <3>2, <4>a DEF new
            <4>2. receipts'[i] = receipt
                BY <1>n, <4>1
            <4> QED
                BY <2>1, <4>2 DEF CapInv, Stamped
        <3> QED
            BY <3>1, <3>2
    <2>5. ASSUME MaxDaily > 0, NEW d \in Nat PROVE SpendOf(receipts', d) <= MaxDaily
        <3>1. /\ SpendOf(receipts', d) \in Nat
              /\ SpendOf(receipts', d) <=
                   SpendOf(receipts, d) + IF receipt.status \in Accepted /\ receipt.day = d
                                          THEN CostOf(receipt.env) ELSE 0
            BY <1>n, <2>1, <2>2, SpendGrows
        <3>2. SpendOf(receipts, d) <= MaxDaily
            BY <2>5 DEF CapInv
        <3>3. receipt.day = d => SpendOf(receipts, d) + MaxTx <= MaxDaily
            BY <2>1, <2>5 DEF CapInv, Stamped
        <3>4. SpendOf(receipts, d) \in Nat
            BY <1>n
        <3> QED
            BY <1>n, <1>c, <2>1, <3>1, <3>2, <3>3, <3>4
    <2> QED
        BY <2>1, <2>3, <2>4, <2>5 DEF CapInv
<1>7. CASE PositionCreated
    <2>1. caller' = "idle" /\ UNCHANGED <<receipts, held, day>>
        BY <1>7 DEF PositionCreated, cycleVars
    <2> QED
        BY <2>1 DEF CapInv, Stamped
<1>8. CASE PositionClosed
    <2>1. UNCHANGED <<caller, receipt, receipts, held, day>>
        BY <1>8 DEF PositionClosed, cycleVars
    <2> QED
        BY <2>1 DEF CapInv, Stamped
<1>9. CASE NewDay
    <2>1. day' = day + 1 /\ UNCHANGED <<caller, receipt, receipts, held>>
        BY <1>9 DEF NewDay, callerVars, cycleVars
    <2>2. ASSUME NEW i \in Readable(receipts)
          PROVE  receipts[i].day # day + 1 /\ receipts[i].day <= day + 1
        <3>1. receipts[i].day \in Nat
            BY <1>n, ReadableLines DEF Receipt
        <3>2. receipts[i].day <= day
            BY DEF CapInv
        <3> QED
            BY <1>t, <3>1, <3>2
    <2>3. SpendOf(receipts, day + 1) = 0
        BY <1>n, <2>2, SpendTyped
    <2>4. MaxDaily > 0 /\ caller = "submit" => MaxTx <= MaxDaily
        <3>1. SpendOf(receipts, day) \in Nat
            BY <1>n
        <3> QED
            BY <1>n, <3>1 DEF CapInv
    <2>5. Stamped => receipt.day <= day + 1
        BY <1>n, <1>t DEF CapInv, Stamped
    <2> QED
        BY <1>n, <2>1, <2>2, <2>3, <2>4, <2>5 DEF CapInv, Stamped
<1>10. CASE Crash
    <2>1. caller' = "idle" /\ held' = {} /\ UNCHANGED <<receipts, day>>
        BY <1>10 DEF Crash
    <2> QED
        BY <2>1 DEF CapInv, Stamped
<1>11. CASE TokenExpires \/ StopFileSwitched \/ MacroChanges \/ UNCHANGED vars
           \/ (\E i \in DOMAIN approvals : ApprovalExpires(i))
           \/ (\E e \in sent : Lands(e))
    <2>1. UNCHANGED <<callerVars, day, held>>
        BY <1>11 DEF TokenExpires, StopFileSwitched, MacroChanges, ApprovalExpires,
                     Lands, guardianUnchanged, vars, cycleVars
    <2> QED
        BY <1>0, <2>1
<1> QED
    BY <1>1, <1>2, <1>3, <1>4, <1>5, <1>6, <1>7, <1>8, <1>9, <1>10, <1>11
    DEF Next, Caller, Clock

\* With room for the costliest transaction, the one on its way fits too.
LEMMA CapFollows ==
    ASSUME MaxTx > 0, TypeInv, CapInv
    PROVE  SpendWithinCap
<1> SUFFICES ASSUME MaxDaily > 0, NEW d \in 0..day
             PROVE  BroadcastOn(d) + OnItsWay(d) <= MaxDaily
    BY DEF SpendWithinCap
<1>1. receipts \in Seq(Receipt \cup Damaged) /\ day \in Nat /\ d \in Nat
      /\ MaxDaily \in Nat /\ MaxTx \in Nat
    BY HermesConstants DEF TypeInv, TypeOK
<1>2. SpendOf(receipts, d) \in Nat /\ SpendOf(receipts, d) <= MaxDaily
    BY <1>1, SpendTyped DEF CapInv
<1>3. BroadcastOn(d) = SpendOf(receipts, d)
    BY SpendIsDaily
<1>4. CASE caller = "record" /\ receipt.status \in Accepted /\ receipt.day = d
    <2>1. receipt.env \in Envelope /\ receipt.env.id[1] \in Signable
        BY <1>4 DEF TypeInv, InProgress, Receipt, CapInv
    <2>2. CostOf(receipt.env) \in Nat /\ CostOf(receipt.env) <= MaxTx
        BY <2>1, CostTyped, SignableCost DEF CostOf
    <2>3. SpendOf(receipts, d) + MaxTx <= MaxDaily
        BY <1>4 DEF CapInv, Stamped
    <2>4. OnItsWay(d) = CostOf(receipt.env)
        BY <1>4 DEF OnItsWay
    <2> QED
        BY <1>1, <1>2, <1>3, <2>2, <2>3, <2>4
<1>5. CASE ~(caller = "record" /\ receipt.status \in Accepted /\ receipt.day = d)
    <2>1. OnItsWay(d) = 0
        BY <1>5 DEF OnItsWay
    <2> QED
        BY <1>2, <1>3, <2>1
<1> QED
    BY <1>4, <1>5

\* max_daily_spend_usd bounds the accepted receipts of a UTC day that a reader of
\* the broadcast ledger reaches, with the one on its way there, whatever is cut or
\* crashes and wherever midnight falls.  Without max_tx_usd nothing is said: the
\* check then adds nothing for the transaction at hand.
THEOREM CapCorrect == Spec => []SpendWithinCap
<1> DEFINE I == MaxTx > 0 => CapInv
<1>1. Init => TypeInv /\ I
    BY InitTypes, InitCap
<1>2. TypeInv /\ I /\ [Next]_vars => (TypeInv /\ I)'
    BY StepTypes, StepCap
<1>3. TypeInv /\ I => SpendWithinCap
    BY CapFollows DEF SpendWithinCap
<1> HIDE DEF I
<1> QED
    BY <1>1, <1>2, <1>3, PTL DEF Spec
=============================================================================
