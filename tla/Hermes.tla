------------------------------- MODULE Hermes -------------------------------
(***************************************************************************)
(* The human-approved transaction pipeline of defi_autonomy: the           *)
(* coordinator's cycle (policy, simulation, signing), the Telegram         *)
(* guardian's commands, the broadcast executor, and the position log.      *)
(*                                                                         *)
(* The coordinator, the guardian and the caller of broadcast_envelope meet *)
(* only in files: each access to a file, and each call of a provider, is a *)
(* step of its own, except that checks in a row that only read are one.    *)
(* The caller of broadcast_envelope is outside the sources; it is modelled *)
(* as the tests write it: broadcast, then ledger, then position.           *)
(***************************************************************************)
EXTENDS JsonLines, FiniteSetsExt

CONSTANTS
    Candidates,     \* scored candidates that are not SKIP
    Farms,          \* those scored FARM; the others are WATCH
    Permitted,      \* those that pass the static policy checks 4 to 17
    Signable,       \* those the wallet can sign: chain, caps, blocked flags
    Usd,            \* [Candidates -> estimated_tx_usd]
    Tags,           \* values of the millisecond suffix of an id
    None,
    Level,          \* autonomy_level
    KillFile,       \* kill_switch_file is configured
    SigningPrep,    \* allow_signing_prep, and a signer is given
    AllowBroadcast, \* allow_level2_broadcast
    Autonomous,     \* allow_autonomous_broadcast
    MaxTx,          \* max_tx_usd
    MaxDaily,       \* max_daily_spend_usd
    Faults          \* what may go wrong, a subset of FaultKinds

CONSTANTS           \* bounds of the model
    Switches,       \* the switches that are ever used, of SwitchKinds
    MaxSigned, MaxApprovals, MaxReceipts, MaxCloses, MaxDay

FaultKinds == {"crash", "tear"}
SwitchKinds == {"stopFile", "guardian", "macro"}

ASSUME HermesConstants ==
    /\ Farms \subseteq Candidates /\ Permitted \subseteq Candidates
    /\ Signable \subseteq Candidates
    /\ Usd \in [Candidates -> Nat]
    /\ Level \in Nat /\ MaxTx \in Nat /\ MaxDaily \in Nat
    /\ KillFile \in BOOLEAN /\ SigningPrep \in BOOLEAN
    /\ AllowBroadcast \in BOOLEAN /\ Autonomous \in BOOLEAN
    /\ Faults \subseteq FaultKinds /\ Switches \subseteq SwitchKinds
    /\ MaxSigned \in Nat /\ MaxApprovals \in Nat /\ MaxReceipts \in Nat
    /\ MaxCloses \in Nat /\ MaxDay \in Nat

VARIABLES
    stopFile,       \* the file kill_switch_file names exists
    localStop,      \* KILL_SWITCH.md starts with STOP
    macroHalt,      \* macro_state.json says HALT; Risk-Off is looked at nowhere
    cycle,          \* where run_cycle is
    todo,           \* candidates of the cycle still to be evaluated
    current,        \* the candidate under evaluation
    tokenFresh,     \* its approval token is less than 300 seconds old
    signed,         \* simulations passed so far: numbers the simulation ids
    pending,        \* the envelope to be written to the wallet ledger
    held,           \* signed envelopes in memory
    wallet,         \* wallet_execution_ledger.jsonl
    approvals,      \* operator_approvals.jsonl
    caller,         \* where the caller of broadcast_envelope is
    receipt,        \* the receipt in the caller's hands
    receipts,       \* broadcast_ledger.jsonl
    positions,      \* positions.jsonl
    sent,           \* history: envelopes handed to the provider
    landed,         \* history: envelopes executed on chain
    day,            \* UTC days passed
    spent           \* history: USD executed on chain today

Envelope == [id : Candidates \X Tags, sim : 1..MaxSigned]
Approval == [env : Envelope, expired : BOOLEAN]
Receipt ==
    [env : Envelope, day : Nat,
     status : {"NONE", "SUBMITTED", "CONFIRMED", "FAILED"}]
Position == [id : Nat, status : {"OPEN"}, receipt : Receipt, env : Envelope]
Closing == [id : Nat, status : {"CLOSED"}]

\* The wallet refuses what costs more than max_tx_usd, if that is set.
ASSUME SignableCost == MaxTx > 0 => \A c \in Signable : Usd[c] <= MaxTx

ASSUME HermesDistinct ==
    /\ None \notin Envelope
    /\ \A d \in Damaged : d \notin Receipt /\ d \notin Approval

switchVars == <<stopFile, localStop, macroHalt>>
cycleVars == <<cycle, todo, current, tokenFresh, signed, pending, held, wallet>>
callerVars == <<caller, receipt, receipts, positions>>
chainVars == <<sent, landed, spent>>

vars == <<switchVars, cycleVars, approvals, callerVars, chainVars, day>>

Init ==
    /\ stopFile = FALSE /\ localStop = FALSE /\ macroHalt = FALSE
    /\ cycle = "idle" /\ todo = {} /\ current = None /\ tokenFresh = FALSE
    /\ signed = 0 /\ pending = None /\ held = {} /\ wallet = <<>>
    /\ approvals = <<>>
    /\ caller = "idle" /\ receipt = None /\ receipts = <<>> /\ positions = <<>>
    /\ sent = {} /\ landed = {} /\ day = 0 /\ spent = 0

-----------------------------------------------------------------------------
(* The kill switches, as each component looks at them. *)

CoordinatorStopped == (KillFile /\ stopFile) \/ localStop

PolicyStopped == IF KillFile THEN stopFile ELSE localStop

WalletStopped == KillFile /\ stopFile

-----------------------------------------------------------------------------
(* run_cycle *)

\* Ingestion and scoring are outside: they leave some candidates that are not
\* SKIP.  A cycle that is halted or finds none only writes its report.
CycleStarts ==
    /\ cycle = "idle" /\ ~CoordinatorStopped /\ ~macroHalt
    /\ \E cs \in SUBSET Candidates \ {{}} : todo' = cs
    /\ cycle' = "evaluate"
    /\ UNCHANGED <<switchVars, current, tokenFresh, signed, pending, held,
                   wallet, approvals, callerVars, chainVars, day>>

RequiredLevel(c) == IF c \in Farms THEN 2 ELSE 0

Approves(c) ==
    /\ ~PolicyStopped /\ ~macroHalt
    /\ Level >= RequiredLevel(c) /\ c \in Permitted

\* A decision that cannot be written to execution_ledger.jsonl counts as denied.
PolicyEvaluates(c) ==
    /\ cycle = "evaluate" /\ c \in todo
    /\ todo' = todo \ {c}
    /\ \/ /\ Approves(c)
          /\ cycle' = "simulate" /\ current' = c /\ tokenFresh' = TRUE
       \/ /\ ~Approves(c) \/ "tear" \in Faults
          /\ UNCHANGED <<cycle, current, tokenFresh>>
    /\ UNCHANGED <<switchVars, signed, pending, held, wallet, approvals,
                   callerVars, chainVars, day>>

NextCandidate == cycle' = "evaluate" /\ current' = None /\ tokenFresh' = FALSE

SimulationPasses ==
    /\ cycle = "simulate" /\ tokenFresh /\ signed < MaxSigned
    /\ IF Level >= 2 /\ SigningPrep
       THEN cycle' = "sign" /\ UNCHANGED <<current, tokenFresh>>
       ELSE NextCandidate
    /\ signed' = signed + 1
    /\ UNCHANGED <<switchVars, todo, pending, held, wallet, approvals,
                   callerVars, chainVars, day>>

\* The provider reports or raises a failure, or the token has expired.
SimulationFails ==
    /\ cycle = "simulate"
    /\ NextCandidate
    /\ UNCHANGED <<switchVars, todo, signed, pending, held, wallet, approvals,
                   callerVars, chainVars, day>>

CanSign == ~WalletStopped /\ ~macroHalt /\ current \in Signable

\* The token's age is not looked at again.
Signs ==
    /\ cycle = "sign" /\ CanSign
    /\ \E tag \in Tags :
          pending' = [id |-> <<current, tag>>, sim |-> signed]
    /\ held' = held \cup {pending'}
    /\ cycle' = "ledger"
    /\ UNCHANGED <<switchVars, todo, current, tokenFresh, signed, wallet,
                   approvals, callerVars, chainVars, day>>

SigningRefused ==
    /\ cycle = "sign" /\ ~CanSign
    /\ NextCandidate
    /\ UNCHANGED <<switchVars, todo, signed, pending, held, wallet, approvals,
                   callerVars, chainVars, day>>

\* A failing write is swallowed.
WalletLedgerWritten ==
    /\ cycle = "ledger"
    /\ \/ wallet' = AppendLine(wallet, pending)
       \/ "tear" \in Faults /\ wallet' = TearLine(wallet)
    /\ pending' = None
    /\ NextCandidate
    /\ UNCHANGED <<switchVars, todo, signed, held, approvals, callerVars,
                   chainVars, day>>

CycleEnds ==
    /\ cycle = "evaluate" /\ todo = {}
    /\ cycle' = "idle"
    /\ UNCHANGED <<switchVars, todo, current, tokenFresh, signed, pending, held,
                   wallet, approvals, callerVars, chainVars, day>>

TokenExpires ==
    /\ tokenFresh
    /\ tokenFresh' = FALSE
    /\ UNCHANGED <<switchVars, cycle, todo, current, signed, pending, held,
                   wallet, approvals, callerVars, chainVars, day>>

Coordinator ==
    \/ CycleStarts \/ SimulationPasses \/ SimulationFails \/ Signs
    \/ SigningRefused \/ WalletLedgerWritten \/ CycleEnds
    \/ \E c \in Candidates : PolicyEvaluates(c)

-----------------------------------------------------------------------------
(* telegram_guardian *)

guardianUnchanged == UNCHANGED <<cycleVars, callerVars, chainVars, day>>

\* /halt and /pause write STOP; nothing reads the time a pause would be over.
HaltsOrPauses ==
    /\ "guardian" \in Switches
    /\ localStop' = TRUE
    /\ guardianUnchanged /\ UNCHANGED <<stopFile, macroHalt, approvals>>

Resumes ==
    /\ localStop
    /\ localStop' = FALSE
    /\ guardianUnchanged /\ UNCHANGED <<stopFile, macroHalt, approvals>>

Named(id) == {i \in Readable(wallet) : wallet[i].id = id}

\* Mutant: the approval leaves the simulation out.
ApproveCommand_noSimulation(id) ==
    /\ Level >= 2 /\ AllowBroadcast
    /\ Len(approvals) < MaxApprovals
    /\ \E i \in Named(id) :
          /\ \A j \in Named(id) : i <= j
          /\ approvals' = AppendLine(approvals, [env |-> [wallet[i] EXCEPT !.sim = 0],
                                                 expired |-> FALSE])
    /\ guardianUnchanged /\ UNCHANGED switchVars

\* /approve copies the fields of the first ledger line that has the id.
ApproveCommand(id) ==
    /\ Level >= 2 /\ AllowBroadcast
    /\ Len(approvals) < MaxApprovals
    /\ \E i \in Named(id) :
          /\ \A j \in Named(id) : i <= j
          /\ approvals' = AppendLine(approvals, [env |-> wallet[i], expired |-> FALSE])
    /\ guardianUnchanged /\ UNCHANGED switchVars

\* The write of the approval is cut.
ApproveTorn(id) ==
    /\ "tear" \in Faults
    /\ Level >= 2 /\ AllowBroadcast /\ Named(id) # {}
    /\ Len(approvals) < MaxApprovals
    /\ approvals' = TearLine(approvals)
    /\ guardianUnchanged /\ UNCHANGED switchVars

ApprovalExpires(i) ==
    /\ i \in DOMAIN approvals /\ approvals[i] \notin Damaged
    /\ ~approvals[i].expired
    /\ approvals' = [approvals EXCEPT ![i].expired = TRUE]
    /\ guardianUnchanged /\ UNCHANGED switchVars

Guardian ==
    \/ HaltsOrPauses \/ Resumes
    \/ \E id \in Candidates \X Tags : ApproveCommand(id) \/ ApproveTorn(id)

-----------------------------------------------------------------------------
(* broadcast_executor, and the caller's use of it *)

Accepted == {"SUBMITTED", "CONFIRMED"}

CostOf(env) == Usd[env.id[1]]

\* Mutant: only confirmed broadcasts are counted.
Counted_confirmedOnly(r) == r.status = "CONFIRMED" /\ r.day = day

Counted(r) == r.status \in Accepted /\ r.day = day

DailySpend ==
    MapThenSumSet(LAMBDA i : CostOf(receipts[i].env),
                  {i \in Readable(receipts) : Counted(receipts[i])})

WithinDailyCap == MaxDaily > 0 => DailySpend + MaxTx <= MaxDaily

Unapproved == Level >= 3 /\ Autonomous

\* Mutant: the approval is not compared with the envelope.
ValidApproval_anyEnvelope(e, a) == a # None /\ ~a.expired

ValidApproval(e, a) == a # None /\ a.env = e /\ ~a.expired

\* Mutant: the kill switch is not looked at.
BroadcastChecks_noSwitch(e, a) ==
    /\ caller = "idle" /\ Len(receipts) < MaxReceipts
    /\ AllowBroadcast /\ Level >= 2
    /\ Unapproved \/ ValidApproval(e, a)
    /\ WithinDailyCap
    /\ caller' = "submit"
    /\ receipt' = [env |-> e, day |-> day, status |-> "NONE"]
    /\ UNCHANGED <<switchVars, cycleVars, approvals, receipts, positions,
                   chainVars, day>>

\* broadcast_envelope up to the provider call.  The caller passes any signed
\* envelope it holds and any approval it can read, or none.
BroadcastChecks(e, a) ==
    /\ caller = "idle" /\ Len(receipts) < MaxReceipts
    /\ AllowBroadcast /\ Level >= 2
    /\ ~WalletStopped /\ ~macroHalt
    /\ Unapproved \/ ValidApproval(e, a)
    /\ WithinDailyCap
    /\ caller' = "submit"
    /\ receipt' = [env |-> e, day |-> day, status |-> "NONE"]
    /\ UNCHANGED <<switchVars, cycleVars, approvals, receipts, positions,
                   chainVars, day>>

\* The receipt is stamped with the day on which the envelope is handed to the
\* provider, which need not be the day of the checks, nor that of the answer.
Submits ==
    /\ caller = "submit"
    /\ receipt' = [receipt EXCEPT !.day = day]
    /\ sent' = sent \cup {receipt.env}
    /\ caller' = "answer"
    /\ UNCHANGED <<switchVars, cycleVars, approvals, receipts, positions,
                   landed, spent, day>>

\* Whatever the provider raises is reported as FAILED, also when the transaction
\* reached the chain and only the answer was lost; an answer that is not a
\* dictionary is SUBMITTED.  Only CONFIRMED tells that it was executed.
Answers ==
    /\ caller = "answer"
    /\ \E status \in {"SUBMITTED", "CONFIRMED", "FAILED"} :
          /\ status = "CONFIRMED" => receipt.env \in landed
          /\ receipt' = [receipt EXCEPT !.status = status]
    /\ caller' = "record"
    /\ UNCHANGED <<switchVars, cycleVars, approvals, receipts, positions,
                   chainVars, day>>

\* The chain executes what it was handed later, or never, and the same signed
\* bytes once.
Lands(e) ==
    /\ e \in sent \ landed
    /\ landed' = landed \cup {e}
    /\ spent' = spent + CostOf(e)
    /\ UNCHANGED <<switchVars, cycleVars, approvals, callerVars, sent, day>>

\* write_broadcast_ledger raises when its write fails.
ReceiptRecorded ==
    /\ caller = "record"
    /\ \/ /\ receipts' = AppendLine(receipts, receipt)
          /\ caller' = "position" /\ UNCHANGED receipt
       \/ /\ "tear" \in Faults
          /\ receipts' = TearLine(receipts)
          /\ caller' = "idle" /\ receipt' = None
    /\ UNCHANGED <<switchVars, cycleVars, approvals, positions, chainVars, day>>

\* Mutant: a position is opened whatever the receipt says.
Opens_always == TRUE

\* create_position_from_broadcast returns a position unless the receipt FAILED:
\* SUBMITTED is enough.
Opens == receipt.status # "FAILED"

\* The envelope is an argument of its own, which nothing compares with the one
\* the receipt names.
PositionCreated ==
    /\ caller = "position"
    /\ \/ /\ Opens
          /\ \E e \in held :
                positions' = AppendLine(positions,
                    [id |-> Len(positions), status |-> "OPEN",
                     receipt |-> receipt, env |-> e])
       \/ Opens /\ "tear" \in Faults /\ positions' = TearLine(positions)
       \/ ~Opens /\ UNCHANGED positions
    /\ caller' = "idle" /\ receipt' = None
    /\ UNCHANGED <<switchVars, cycleVars, approvals, receipts, chainVars, day>>

\* close_position appends a line; it neither looks whether the position is
\* open nor touches the line that opened it.
PositionClosed ==
    /\ caller = "idle" /\ Len(positions) < MaxReceipts + MaxCloses
    /\ \E p \in Entries(positions) :
          \/ positions' = AppendLine(positions, [id |-> p.id, status |-> "CLOSED"])
          \/ "tear" \in Faults /\ positions' = TearLine(positions)
    /\ UNCHANGED <<switchVars, cycleVars, approvals, caller, receipt, receipts,
                   chainVars, day>>

Caller ==
    \/ \E e \in held, a \in Entries(approvals) \cup {None} : BroadcastChecks(e, a)
    \/ Submits \/ Answers \/ ReceiptRecorded \/ PositionCreated
    \/ PositionClosed

-----------------------------------------------------------------------------
(* The operator's shell, the macro daemon, the chain, the clock, and crashes *)

StopFileSwitched ==
    /\ "stopFile" \in Switches
    /\ stopFile' = ~stopFile
    /\ guardianUnchanged /\ UNCHANGED <<localStop, macroHalt, approvals>>

MacroChanges ==
    /\ "macro" \in Switches
    /\ macroHalt' = ~macroHalt
    /\ guardianUnchanged /\ UNCHANGED <<stopFile, localStop, approvals>>

NewDay ==
    /\ day < MaxDay
    /\ day' = day + 1 /\ spent' = 0
    /\ UNCHANGED <<switchVars, cycleVars, approvals, callerVars, sent, landed>>

\* Signed bytes are kept in memory only.
Crash ==
    /\ "crash" \in Faults
    /\ cycle' = "idle" /\ todo' = {} /\ current' = None /\ tokenFresh' = FALSE
    /\ pending' = None /\ held' = {}
    /\ caller' = "idle" /\ receipt' = None
    /\ UNCHANGED <<switchVars, signed, wallet, approvals, receipts, positions,
                   chainVars, day>>

Clock ==
    \/ TokenExpires \/ NewDay
    \/ \E i \in DOMAIN approvals : ApprovalExpires(i)

Next ==
    \/ Coordinator \/ Guardian \/ Caller \/ Clock
    \/ StopFileSwitched \/ MacroChanges \/ Crash
    \/ \E e \in sent : Lands(e)

Spec == Init /\ [][Next]_vars

-----------------------------------------------------------------------------
(* Properties *)

TypeOK ==
    /\ stopFile \in BOOLEAN /\ localStop \in BOOLEAN /\ macroHalt \in BOOLEAN
    /\ cycle \in {"idle", "evaluate", "simulate", "sign", "ledger"}
    /\ todo \in SUBSET Candidates /\ current \in Candidates \cup {None}
    /\ tokenFresh \in BOOLEAN /\ signed \in 0..MaxSigned
    /\ pending \in Envelope \cup {None} /\ held \in SUBSET Envelope
    /\ wallet \in Seq(Envelope \cup Damaged)
    /\ approvals \in Seq(Approval \cup Damaged)
    /\ caller \in {"idle", "submit", "answer", "record", "position"}
    /\ receipt \in Receipt \cup {None}
    /\ receipts \in Seq(Receipt \cup Damaged)
    /\ positions \in Seq(Position \cup Closing \cup Damaged)
    /\ sent \in SUBSET Envelope /\ landed \in SUBSET Envelope
    /\ day \in Nat /\ spent \in Nat

\* "Submits signed transaction envelopes only after valid OperatorApprovalRecord
\* from Telegram Guardian" (broadcast_executor.py): whatever was handed to the
\* chain had been recorded in the wallet ledger and approved as recorded there,
\* whichever files were damaged and whichever ids collided meanwhile.
ApprovedEnvelopes == {a.env : a \in Written(approvals)}

SubmittedWasApproved ==
    Unapproved \/ sent \subseteq ApprovedEnvelopes \cap Written(wallet)

\* The level-2 flow implements ApprovedBroadcast: checks and submission are two
\* steps, and what passed the checks may still be sent after the switch is set.
Live == {a.env : a \in {b \in Written(approvals) : ~b.expired}}
Armed == IF caller = "submit" THEN receipt.env ELSE None

Abstract == INSTANCE ApprovedBroadcast WITH
    Transactions <- Envelope, Unattended <- Unapproved, Nothing <- None,
    live <- Live, stopped <- WalletStopped, armed <- Armed, sent <- sent

RefinesApproved == Abstract!Spec

\* max_daily_spend_usd (broadcast_envelope): whatever is cut, crashes or falls on
\* midnight, the broadcasts of one UTC day, by the day stamped on their receipts,
\* cost no more than the cap, if max_tx_usd is set too.  Counted are the accepted
\* receipts that a reader of the ledger reaches and the one on its way there; the
\* cost is the one the caller records, an envelope broadcast twice counting twice.
BroadcastOn(d) ==
    MapThenSumSet(LAMBDA i : CostOf(receipts[i].env),
                  {i \in Readable(receipts) :
                      receipts[i].status \in Accepted /\ receipts[i].day = d})

OnItsWay(d) ==
    IF caller = "record" /\ receipt.status \in Accepted /\ receipt.day = d
    THEN CostOf(receipt.env) ELSE 0

SpendWithinCap ==
    MaxDaily > 0 /\ MaxTx > 0 =>
        \A d \in 0..day : BroadcastOn(d) + OnItsWay(d) <= MaxDaily

\* The plain reading of max_daily_spend_usd: what the chain executes in a UTC day
\* stays within the cap.  HermesCapLost.cfg refutes it.
ExecutedWithinCap == MaxDaily > 0 => spent <= MaxDaily

\* "Create an OPEN position from a successful broadcast receipt"
\* (position_lifecycle.py): a position rests on an accepted receipt, of an
\* envelope that was handed to the chain and, unless unattended, approved; the
\* receipt is in the broadcast ledger, or was glued to a line cut there.
OpenedPositions == {p \in Written(positions) : p.status = "OPEN"}

PositionHasReceipt ==
    \A p \in OpenedPositions :
        /\ p.receipt.status \in Accepted
        /\ p.receipt.env \in sent
        /\ Unapproved \/ p.receipt.env \in ApprovedEnvelopes
        /\ \/ p.receipt \in Written(receipts)
           \/ \E i \in DOMAIN receipts : receipts[i] = Glued

\* "/halt - Emergency stop all operations" (telegram_guardian.py): no broadcast
\* passes its checks while the STOP it wrote stands.
HaltStopsBroadcasts ==
    [][caller = "idle" /\ caller' = "submit" => ~localStop]_vars
=============================================================================
