--------------------------- MODULE ExitLoop_proofs ---------------------------
(***************************************************************************)
(* What holds of ExitLoop for every set of positions and of readings and   *)
(* every configuration: its variables keep their types, no trailing exit   *)
(* is pending or confirmed without its evidence, the busy flags have one   *)
(* holder, nothing open on chain is recorded as closed, peaks rise by      *)
(* rechecks only, and a stop loss is chosen where every scan has a PnL.    *)
(***************************************************************************)
EXTENDS ExitLoop, TLAPS

-----------------------------------------------------------------------------
(* The record operators of ExitState: what they return is a record, they   *)
(* keep the evidence behind an exit, and none of them lowers a peak.       *)

\* A blank and a newly tracked record are records with sound evidence.
LEMMA BlankFacts ==
    /\ Blank \in Record /\ EvidenceOf(Blank)
    /\ trackPosition \in Record /\ EvidenceOf(trackPosition)
  <1>1. Blank \in Record
    BY DEF Blank, Record, Pct
  <1>2. EvidenceOf(Blank)
    BY DEF Blank, EvidenceOf
  <1>3. trackPosition \in Record
    BY <1>1 DEF trackPosition, Record
  <1>4. EvidenceOf(trackPosition)
    BY <1>1, <1>2 DEF trackPosition, Record, EvidenceOf
  <1>5. QED  BY <1>1, <1>2, <1>3, <1>4

\* Marking the range changes neither peak nor pending state.
LEMMA MarkFacts ==
    ASSUME NEW r \in Record, NEW d \in Reading
    PROVE  /\ markRange(r, d) \in Record
           /\ EvidenceOf(r) => EvidenceOf(markRange(r, d))
           /\ markRange(r, d).peak = r.peak /\ markRange(r, d).status = r.status
           /\ markRange(r, d).pendingPeak = r.pendingPeak
           /\ markRange(r, d).pendingDropCurrent = r.pendingDropCurrent
  BY DEF Record, Reading, markRange, EvidenceOf

\* Recording a close changes the status and nothing else.
LEMMA CloseFacts ==
    ASSUME NEW r \in Record
    PROVE  /\ recordClose(r) \in Record
           /\ EvidenceOf(r) => EvidenceOf(recordClose(r))
           /\ recordClose(r).peak = r.peak
  BY DEF Record, recordClose, EvidenceOf

\* A position no scan lists is closed at most.
LEMMA MissingFacts ==
    ASSUME NEW r \in Record
    PROVE  /\ syncMissing(r) \in Record
           /\ EvidenceOf(r) => EvidenceOf(syncMissing(r))
           /\ syncMissing(r).peak = r.peak
           /\ syncMissing(r).pendingPeak = r.pendingPeak
           /\ syncMissing(r).pendingDropCurrent = r.pendingDropCurrent
           /\ syncMissing(r).status = "open" => r.status = "open"
  BY DEF Record, syncMissing, EvidenceOf

\* Raising the peak keeps what rests on it.
LEMMA HigherPeak ==
    ASSUME NEW r \in Record, NEW x \in Int, x >= r.peak,
           NEW q, q = [r EXCEPT !.peak = x, !.pendingPeak = NoPnl]
    PROVE  /\ q \in Record
           /\ EvidenceOf(r) => EvidenceOf(q)
           /\ q.peak >= r.peak
           /\ q.status = r.status
  <1>1. q \in Record  BY DEF Record, Pct
  <1>2. /\ q.peak = x /\ q.pendingPeak = NoPnl /\ q.status = r.status
        /\ q.trailingActive = r.trailingActive
        /\ q.confirmedExit = r.confirmedExit
        /\ q.pendingDropPeak = r.pendingDropPeak
        /\ q.pendingDropCurrent = r.pendingDropCurrent
    BY DEF Record
  <1>3. r.peak \in Int /\ r.pendingDropPeak \in Pct  BY DEF Record
  <1>4. EvidenceOf(r) => EvidenceOf(q)
    BY <1>2, <1>3, ExitConstants DEF EvidenceOf, Pct
  <1>5. QED  BY <1>1, <1>2, <1>3, <1>4

\* A candidate above the recorded peak is a sound pending peak.
LEMMA CandidatePeak ==
    ASSUME NEW r \in Record, NEW x \in Int, x > r.peak,
           NEW q, q = [r EXCEPT !.pendingPeak = x]
    PROVE  /\ q \in Record
           /\ EvidenceOf(r) => EvidenceOf(q)
           /\ q.peak >= r.peak
           /\ q.status = r.status
  <1>1. q \in Record  BY DEF Record, Pct
  <1>2. /\ q.peak = r.peak /\ q.pendingPeak = x /\ q.status = r.status
        /\ q.trailingActive = r.trailingActive
        /\ q.confirmedExit = r.confirmedExit
        /\ q.pendingDropPeak = r.pendingDropPeak
        /\ q.pendingDropCurrent = r.pendingDropCurrent
    BY DEF Record
  <1>3. r.peak \in Int  BY DEF Record
  <1>4. EvidenceOf(r) => EvidenceOf(q)
    BY <1>2, <1>3 DEF EvidenceOf
  <1>5. QED  BY <1>1, <1>2, <1>3, <1>4

\* Queueing a peak keeps the record sound and never lowers the peak.
LEMMA QueuePeakFacts ==
    ASSUME NEW r \in Record, NEW pnl \in Pct
    PROVE  /\ queuePeakConfirmation(r, pnl) \in Record
           /\ EvidenceOf(r) => EvidenceOf(queuePeakConfirmation(r, pnl))
           /\ queuePeakConfirmation(r, pnl).peak >= r.peak
           /\ queuePeakConfirmation(r, pnl).status = r.status
  <1>1. CASE ~QueuesPeak(r, pnl)
    <2>1. queuePeakConfirmation(r, pnl) = r
      BY <1>1 DEF queuePeakConfirmation
    <2>2. QED  BY <2>1 DEF Record
  <1>2. CASE QueuesPeak(r, pnl)
    <2>1. pnl \in Int /\ pnl > r.peak /\ pnl >= r.peak
      BY <1>2 DEF QueuesPeak, Record, Pct
    <2>2. CASE Relay
      <3>1. queuePeakConfirmation(r, pnl)
              = [r EXCEPT !.peak = pnl, !.pendingPeak = NoPnl]
        BY <1>2, <2>2 DEF queuePeakConfirmation
      <3>2. QED  BY <2>1, <3>1, HigherPeak
    <2>3. CASE ~Relay
      <3>1. queuePeakConfirmation(r, pnl) = [r EXCEPT !.pendingPeak = pnl]
        BY <1>2, <2>3 DEF queuePeakConfirmation
      <3>2. QED  BY <2>1, <3>1, CandidatePeak
    <2>4. QED  BY <2>2, <2>3
  <1>3. QED  BY <1>1, <1>2

\* So does the recheck of a pending peak.
LEMMA ResolvePeakFacts ==
    ASSUME NEW r \in Record, NEW pnl \in Pct
    PROVE  /\ resolvePendingPeak(r, pnl) \in Record
           /\ EvidenceOf(r) => EvidenceOf(resolvePendingPeak(r, pnl))
           /\ resolvePendingPeak(r, pnl).peak >= r.peak
           /\ resolvePendingPeak(r, pnl).status = r.status
  <1> DEFINE q == resolvePendingPeak(r, pnl)
  <1>0. r.peak \in Int /\ r.pendingPeak \in Pct /\ r.peak >= r.peak
    BY DEF Record
  <1>1. CASE r.status # "open" \/ r.pendingPeak = NoPnl
    <2>1. q = r  BY <1>1 DEF resolvePendingPeak
    <2>2. QED  BY <1>0, <2>1
  <1>2. CASE r.status = "open" /\ r.pendingPeak # NoPnl /\ PeakHolds(r, pnl)
    <2> DEFINE x == Larger(r.peak, Larger(r.pendingPeak, pnl))
    <2>1. pnl \in Int /\ r.pendingPeak \in Int
      BY <1>0, <1>2 DEF PeakHolds, Pct
    <2>2. x \in Int /\ x >= r.peak  BY <1>0, <2>1 DEF Larger
    <2>3. q = [r EXCEPT !.peak = x, !.pendingPeak = NoPnl]
      BY <1>2 DEF resolvePendingPeak
    <2> HIDE DEF x
    <2>4. QED  BY <2>2, <2>3, HigherPeak
  <1>3. CASE r.status = "open" /\ r.pendingPeak # NoPnl /\ ~PeakHolds(r, pnl)
    <2>1. q = [r EXCEPT !.pendingPeak = NoPnl]
      BY <1>3 DEF resolvePendingPeak
    <2>2. q = [r EXCEPT !.peak = r.peak, !.pendingPeak = NoPnl]
      BY <2>1 DEF Record
    <2> HIDE DEF q
    <2>3. QED  BY <1>0, <2>2, HigherPeak, Zenon DEF q
  <1>4. QED  BY <1>1, <1>2, <1>3

\* A recheck of a drop confirms only what the trailing stop had armed.
LEMMA ResolveDropFacts ==
    ASSUME NEW r \in Record, NEW pnl \in Pct
    PROVE  /\ resolvePendingTrailingDrop(r, pnl) \in Record
           /\ EvidenceOf(r) => EvidenceOf(resolvePendingTrailingDrop(r, pnl))
           /\ resolvePendingTrailingDrop(r, pnl).peak = r.peak
           /\ resolvePendingTrailingDrop(r, pnl).status = r.status
  BY ExitConstants DEF Record, Pct, resolvePendingTrailingDrop, HasPendingDrop,
                       DropHolds, EvidenceOf

\* updatePnlAndCheckExits arms the trailing stop on a confirmed peak only.
LEMMA UpdateFacts ==
    ASSUME NEW r \in Record, NEW d \in Reading
    PROVE  /\ UpdatedRecord(r, d) \in Record
           /\ EvidenceOf(r) => EvidenceOf(UpdatedRecord(r, d))
           /\ UpdatedRecord(r, d).peak = r.peak
           /\ UpdatedRecord(r, d).status = r.status
  BY ExitConstants DEF Record, Reading, Pct, UpdatedRecord, EvidenceOf

LEMMA AfterPeakFacts ==
    ASSUME NEW r \in Record, NEW d \in Reading
    PROVE  /\ AfterPeak(r, d) \in Record
           /\ EvidenceOf(r) => EvidenceOf(AfterPeak(r, d))
           /\ AfterPeak(r, d).peak >= r.peak
           /\ AfterPeak(r, d).status = r.status
  <1>1. d.pnl \in Pct  BY DEF Reading
  <1>2. r.peak \in Int  BY DEF Record
  <1>3. QED  BY <1>1, <1>2, QueuePeakFacts DEF AfterPeak

\* An exit that needs a recheck comes from an active trailing stop.
LEMMA RecheckFacts ==
    ASSUME NEW r \in Record, NEW d \in Reading, NeedsRecheck(r, d)
    PROVE  /\ UpdatedRecord(AfterPeak(r, d), d).trailingActive
           /\ d.pnl \in Int
  <1> DEFINE q == AfterPeak(r, d)
  <1>1. q \in Record  BY AfterPeakFacts
  <1>2. CheckExits(q, d) = "TRAILING_DROP"  BY DEF NeedsRecheck, ExitOf
  <1>3. d.pnl \in Pct  BY DEF Reading
  <1> HIDE DEF q
  <1>4. Dropped(UpdatedRecord(q, d), d) /\ d.pnl # NoPnl
    BY <1>2 DEF CheckExits
  <1>5. QED  BY <1>3, <1>4 DEF Dropped, Pct, q

\* Queueing a drop records a drop of at least DropPct from the current peak.
LEMMA QueueDropFacts ==
    ASSUME NEW r \in Record, NEW pnl \in Int
    PROVE  /\ queueTrailingDropConfirmation(r, pnl) \in Record
           /\ EvidenceOf(r) /\ r.trailingActive
                => EvidenceOf(queueTrailingDropConfirmation(r, pnl))
           /\ queueTrailingDropConfirmation(r, pnl).peak = r.peak
           /\ queueTrailingDropConfirmation(r, pnl).status = r.status
  <1> DEFINE q == queueTrailingDropConfirmation(r, pnl)
  <1>1. CASE ~QueuesDrop(r, pnl)
    BY <1>1 DEF queueTrailingDropConfirmation
  <1>2. CASE QueuesDrop(r, pnl)
    <2>1. q = [r EXCEPT !.pendingDropPeak = r.peak, !.pendingDropCurrent = pnl]
      BY <1>2 DEF queueTrailingDropConfirmation
    <2>2. r.peak \in Int /\ r.peak - pnl >= DropPct
      BY <1>2 DEF QueuesDrop, Record
    <2> HIDE DEF q
    <2>3. q \in Record  BY <2>1, <2>2 DEF Record, Pct
    <2>4. /\ q.peak = r.peak /\ q.pendingPeak = r.pendingPeak
          /\ q.status = r.status
          /\ q.trailingActive = r.trailingActive
          /\ q.confirmedExit = r.confirmedExit
          /\ q.pendingDropPeak = r.peak /\ q.pendingDropCurrent = pnl
      BY <2>1 DEF Record
    <2>5. EvidenceOf(r) /\ r.trailingActive => EvidenceOf(q)
      BY <2>2, <2>4, ExitConstants DEF EvidenceOf
    <2>6. QED  BY <2>3, <2>4, <2>5 DEF q
  <1>3. QED  BY <1>1, <1>2

\* What one pass of a loop leaves of a record.
LEMMA HandledFacts ==
    ASSUME NEW r \in Record, NEW d \in Reading
    PROVE  /\ Handled(r, d) \in Record
           /\ EvidenceOf(r) => EvidenceOf(Handled(r, d))
           /\ Handled(r, d).peak >= r.peak
           /\ Handled(r, d).status = r.status
  <1> DEFINE u == UpdatedRecord(AfterPeak(r, d), d)
  <1>1. /\ u \in Record /\ u.peak >= r.peak
        /\ EvidenceOf(r) => EvidenceOf(u)
        /\ u.status = r.status
    BY AfterPeakFacts, UpdateFacts
  <1>2. CASE NeedsRecheck(r, d)
    <2>1. u.trailingActive /\ d.pnl \in Int  BY <1>2, RecheckFacts
    <2>2. Handled(r, d) = queueTrailingDropConfirmation(u, d.pnl)
      BY <1>2 DEF Handled
    <2> HIDE DEF u
    <2>3. QED  BY <1>1, <2>1, <2>2, QueueDropFacts
  <1>3. CASE ~NeedsRecheck(r, d)
    BY <1>1, <1>3 DEF Handled
  <1>4. QED  BY <1>2, <1>3

\* A pass leaves pending only what it armed or found pending, and without the
\* relay it moves no peak.
LEMMA HandledPending ==
    ASSUME NEW r \in Record, NEW d \in Reading
    PROVE  /\ Handled(r, d).pendingPeak # NoPnl
                => ArmsPeak(r, d) \/ r.pendingPeak # NoPnl
           /\ Handled(r, d).pendingDropCurrent # NoPnl
                => ArmsDrop(r, d) \/ r.pendingDropCurrent # NoPnl
           /\ ~Relay => Handled(r, d).peak = r.peak
  <1> DEFINE q == AfterPeak(r, d)
             u == UpdatedRecord(q, d)
             v == Handled(r, d)
  <1>1. /\ q \in Record
        /\ q.pendingPeak # NoPnl => ArmsPeak(r, d) \/ r.pendingPeak # NoPnl
        /\ q.pendingDropCurrent = r.pendingDropCurrent
        /\ ~Relay => q.peak = r.peak
    <2>1. q \in Record  BY AfterPeakFacts
    <2>2. CASE q = r  BY <2>1, <2>2
    <2>3. CASE ~d.suspicious /\ QueuesPeak(r, d.pnl) /\ Relay
      <3>1. q = [r EXCEPT !.peak = d.pnl, !.pendingPeak = NoPnl]
        BY <2>3 DEF AfterPeak, queuePeakConfirmation
      <3>2. q.pendingPeak = NoPnl /\ q.pendingDropCurrent = r.pendingDropCurrent
        BY <3>1 DEF Record
      <3>3. QED  BY <2>1, <2>3, <3>2
    <2>4. CASE ~d.suspicious /\ QueuesPeak(r, d.pnl) /\ ~Relay
      <3>1. q = [r EXCEPT !.pendingPeak = d.pnl]
        BY <2>4 DEF AfterPeak, queuePeakConfirmation
      <3>2. q.peak = r.peak /\ q.pendingDropCurrent = r.pendingDropCurrent
        BY <3>1 DEF Record
      <3>3. ArmsPeak(r, d)  BY <2>4 DEF ArmsPeak
      <3>4. QED  BY <2>1, <3>2, <3>3
    <2>5. QED
      BY <2>2, <2>3, <2>4, ExitConstants
      DEF AfterPeak, queuePeakConfirmation
  <1> HIDE DEF q
  <1>2. /\ u \in Record /\ u.peak = q.peak /\ u.pendingPeak = q.pendingPeak
        /\ u.pendingDropCurrent = q.pendingDropCurrent
    <2>1. u \in Record /\ u.peak = q.peak  BY <1>1, UpdateFacts
    <2>2. /\ u.pendingPeak = q.pendingPeak
          /\ u.pendingDropCurrent = q.pendingDropCurrent
      BY <1>1 DEF UpdatedRecord, Record
    <2>3. QED  BY <2>1, <2>2
  <1>3. v = IF NeedsRecheck(r, d)
            THEN queueTrailingDropConfirmation(u, d.pnl) ELSE u
    BY DEF Handled, q
  <1>4. NeedsRecheck(r, d) /\ QueuesDrop(u, d.pnl) => ArmsDrop(r, d)
    BY DEF ArmsDrop, q
  <1> HIDE DEF u, v
  <1>5. /\ v.peak = u.peak /\ v.pendingPeak = u.pendingPeak
        /\ v.pendingDropCurrent # u.pendingDropCurrent => ArmsDrop(r, d)
    <2>1. CASE v = u  BY <2>1
    <2>2. CASE NeedsRecheck(r, d) /\ QueuesDrop(u, d.pnl)
      <3>1. v = [u EXCEPT !.pendingDropPeak = u.peak,
                          !.pendingDropCurrent = d.pnl]
        BY <1>3, <2>2 DEF queueTrailingDropConfirmation
      <3>2. v.peak = u.peak /\ v.pendingPeak = u.pendingPeak
        BY <1>2, <3>1 DEF Record
      <3>3. QED  BY <1>4, <2>2, <3>2
    <2>3. QED  BY <1>3, <2>1, <2>2 DEF queueTrailingDropConfirmation
  <1>6. QED  BY <1>1, <1>2, <1>5 DEF v

\* A recheck leaves nothing pending of its own kind and does not touch the other;
\* a peak it raises is at least the pending one.
LEMMA RecheckSettles ==
    ASSUME NEW r \in Record, NEW pnl \in Pct
    PROVE  /\ resolvePendingPeak(r, pnl).pendingPeak # NoPnl
                => r.status # "open" /\ r.pendingPeak # NoPnl
           /\ resolvePendingPeak(r, pnl).pendingDropCurrent
                = r.pendingDropCurrent
           /\ resolvePendingPeak(r, pnl).peak # r.peak
                => /\ r.pendingPeak # NoPnl
                   /\ resolvePendingPeak(r, pnl).peak >= r.pendingPeak
           /\ resolvePendingTrailingDrop(r, pnl).pendingPeak = r.pendingPeak
           /\ EvidenceOf(r) =>
                (resolvePendingTrailingDrop(r, pnl).pendingDropCurrent # NoPnl
                   => r.status # "open" /\ r.pendingDropCurrent # NoPnl)
  <1> DEFINE q == resolvePendingPeak(r, pnl)
             v == resolvePendingTrailingDrop(r, pnl)
  <1>0. r.peak \in Int /\ r.pendingPeak \in Pct  BY DEF Record
  <1>1. /\ q.pendingPeak # NoPnl => r.status # "open" /\ r.pendingPeak # NoPnl
        /\ q.pendingDropCurrent = r.pendingDropCurrent
        /\ q.peak # r.peak => r.pendingPeak # NoPnl /\ q.peak >= r.pendingPeak
    <2>1. CASE r.status # "open" \/ r.pendingPeak = NoPnl
      BY <2>1 DEF resolvePendingPeak
    <2>2. CASE r.status = "open" /\ r.pendingPeak # NoPnl /\ PeakHolds(r, pnl)
      <3> DEFINE x == Larger(r.peak, Larger(r.pendingPeak, pnl))
      <3>1. pnl \in Int /\ r.pendingPeak \in Int
        BY <1>0, <2>2 DEF PeakHolds, Pct
      <3>2. x \in Int /\ x >= r.pendingPeak  BY <1>0, <3>1 DEF Larger
      <3>3. q = [r EXCEPT !.peak = x, !.pendingPeak = NoPnl]
        BY <2>2 DEF resolvePendingPeak
      <3> HIDE DEF x, q
      <3>4. /\ q.pendingPeak = NoPnl /\ q.peak = x
            /\ q.pendingDropCurrent = r.pendingDropCurrent
        BY <3>3 DEF Record
      <3>5. QED  BY <2>2, <3>2, <3>4
    <2>3. CASE r.status = "open" /\ r.pendingPeak # NoPnl /\ ~PeakHolds(r, pnl)
      <3>1. q = [r EXCEPT !.pendingPeak = NoPnl]
        BY <2>3 DEF resolvePendingPeak
      <3> HIDE DEF q
      <3>2. QED  BY <3>1 DEF Record
    <2>4. QED  BY <2>1, <2>2, <2>3
  <1>2. /\ v.pendingPeak = r.pendingPeak
        /\ EvidenceOf(r) =>
             (v.pendingDropCurrent # NoPnl
                => r.status # "open" /\ r.pendingDropCurrent # NoPnl)
    <2>1. CASE HasPendingDrop(r)
      <3>1. v = [r EXCEPT !.pendingDropPeak = NoPnl,
                          !.pendingDropCurrent = NoPnl,
                          !.confirmedExit = @ \/ DropHolds(r, pnl)]
        BY <2>1 DEF resolvePendingTrailingDrop
      <3> HIDE DEF v
      <3>2. QED  BY <3>1 DEF Record
    <2>2. CASE ~HasPendingDrop(r)
      <3>1. v = r  BY <2>2 DEF resolvePendingTrailingDrop
      <3>2. QED  BY <2>2, <3>1 DEF HasPendingDrop, EvidenceOf
    <2>3. QED  BY <2>1, <2>2
  <1>3. QED  BY <1>1, <1>2

-----------------------------------------------------------------------------
(* The loops *)

LEMMA CallerFacts ==
    /\ Mgmt \in Callers /\ Poll \in Callers
    /\ \A p \in Positions : PeakCheck(p) \in Callers /\ DropCheck(p) \in Callers
  BY DEF Callers, Mgmt, Poll, PeakCheck, DropCheck

\* A listed position has a reading.
LEMMA ListedFacts ==
    ASSUME TypeOK
    PROVE  /\ ListedNow \subseteq Positions
           /\ \A p \in ListedNow : snap[p] \in Reading
  BY DEF TypeOK, ListedNow, Listed

\* A recheck resumes with a percentage or with nothing.
LEMMA SnapFacts ==
    ASSUME TypeOK, NEW p \in Positions
    PROVE  snap[p].pnl \in Pct
  BY DEF TypeOK, Reading, Absent, Pct

\* Handling a set of listed positions keeps every record and its evidence,
\* lowers no peak, and leaves nothing pending that it did not find or arm.
LEMMA HandledRecords ==
    ASSUME TypeOK, NEW S \in SUBSET ListedNow,
           rec' = [p \in Positions |->
                     IF p \in S THEN Handled(rec[p], snap[p]) ELSE rec[p]]
    PROVE  /\ rec' \in [Positions -> Record]
           /\ ExitEvidence => ExitEvidence'
           /\ \A p \in Positions : rec'[p].peak >= rec[p].peak
           /\ \A p \in Positions : rec'[p].status = rec[p].status
  <1>1. S \subseteq Positions /\ \A p \in S : snap[p] \in Reading
    BY ListedFacts
  <1>2. \A p \in Positions : rec[p] \in Record  BY DEF TypeOK
  <1>3. \A p \in Positions :
           /\ rec'[p] \in Record
           /\ EvidenceOf(rec[p]) => EvidenceOf(rec'[p])
           /\ rec'[p].peak >= rec[p].peak
           /\ rec'[p].status = rec[p].status
    <2> TAKE p \in Positions
    <2>1. rec[p] \in Record /\ rec[p].peak >= rec[p].peak
      BY <1>2 DEF Record
    <2>2. CASE p \in S
      <3>1. rec'[p] = Handled(rec[p], snap[p])  BY <2>2
      <3>2. QED  BY <1>1, <2>1, <2>2, <3>1, HandledFacts
    <2>3. CASE p \notin S
      <3>1. rec'[p] = rec[p]  BY <2>3
      <3>2. QED  BY <2>1, <3>1
    <2>4. QED  BY <2>2, <2>3
  <1>4. rec' \in [Positions -> Record]  BY <1>3
  <1>5. ExitEvidence => ExitEvidence'  BY <1>3 DEF ExitEvidence
  <1>6. QED  BY <1>3, <1>4, <1>5

LEMMA HandleFacts ==
    ASSUME TypeOK, NEW S \in SUBSET ListedNow, HandleAll(S)
    PROVE  /\ rec' \in [Positions -> Record]
           /\ peakTimers' \in SUBSET Positions
           /\ dropTimers' \in SUBSET Positions
           /\ queuedNow' \in SUBSET ({"peak", "drop"} \X Positions)
           /\ ExitEvidence => ExitEvidence'
           /\ \A p \in Positions : rec'[p].peak >= rec[p].peak
           /\ \A p \in Positions : rec'[p].status = rec[p].status
  <1>1. S \subseteq Positions  BY ListedFacts
  <1>2. /\ peakTimers' \in SUBSET Positions
        /\ dropTimers' \in SUBSET Positions
        /\ queuedNow' \in SUBSET ({"peak", "drop"} \X Positions)
    BY <1>1 DEF TypeOK, HandleAll, PeakCheck, DropCheck
  <1>3. QED  BY <1>2, HandledRecords DEF HandleAll

\* A scan, succeeding or failing, keeps types, evidence and peaks.
LEMMA ScanFacts ==
    ASSUME TypeOK, ScanSucceeds \/ ScanFails
    PROVE  TypeOK' /\ (ExitEvidence => ExitEvidence')
  <1>1. CASE ScanSucceeds
    <2>1. PICK s \in [Positions -> Readings \cup {Absent}] :
             /\ Reports(s)
             /\ snap' = s
             /\ rec' = Synced(s)
      BY <1>1 DEF ScanSucceeds
    <2>2. Readings \subseteq Reading  BY LoopConstants
    <2>3. snap' \in [Positions -> Reading \cup {Absent}]  BY <2>1, <2>2
    <2>4. \A p \in Positions : rec[p] \in Record  BY DEF TypeOK
    <2>5. ASSUME NEW p \in Positions
          PROVE  /\ rec'[p] \in Record
                 /\ EvidenceOf(rec[p]) => EvidenceOf(rec'[p])
      <3>1. CASE Listed(s[p])
        <4>1. s[p] \in Reading  BY <2>2, <3>1 DEF Listed
        <4>2. rec'[p] = markRange(rec[p], s[p])  BY <2>1, <3>1 DEF Synced
        <4>3. QED  BY <2>4, <4>1, <4>2, MarkFacts
      <3>2. CASE ~Listed(s[p])
        <4>1. rec'[p] = syncMissing(rec[p])  BY <2>1, <3>2 DEF Synced
        <4>2. QED  BY <2>4, <4>1, MissingFacts
      <3>3. QED  BY <3>1, <3>2
    <2>6. rec' = [p \in Positions |-> rec'[p]]
      BY <2>1 DEF Synced, TypeOK
    <2>7. rec' \in [Positions -> Record]  BY <2>5, <2>6
    <2>8. ExitEvidence => ExitEvidence'  BY <2>5 DEF ExitEvidence
    <2>9. ready' \in SUBSET Callers /\ waiting' \in SUBSET Callers
      BY <1>1 DEF ScanSucceeds, TypeOK
    <2>10. QED
      BY <1>1, <2>3, <2>7, <2>8, <2>9
      DEF ScanSucceeds, TypeOK, cycleVars, flagVars, timerVars
  <1>2. CASE ScanFails
    <2>1. NoSnap \in [Positions -> Reading \cup {Absent}]  BY DEF NoSnap
    <2>2. rec' = rec  BY <1>2 DEF ScanFails
    <2>3. ExitEvidence => ExitEvidence'  BY <2>2 DEF ExitEvidence
    <2>4. QED
      BY <1>2, <2>1, <2>3
      DEF ScanFails, TypeOK, cycleVars, flagVars, timerVars
  <1>3. QED  BY <1>1, <1>2

\* What consuming a scan leaves of it.
LEMMA ConsumeFacts ==
    ASSUME TypeOK, NEW c, Consume(c)
    PROVE  /\ ready' \in SUBSET Callers
           /\ snap' \in [Positions -> Reading \cup {Absent}]
  <1>1. NoSnap \in [Positions -> Reading \cup {Absent}]  BY DEF NoSnap
  <1>2. QED  BY <1>1 DEF TypeOK, Consume

\* What the finally block and the start of a cycle leave.
LEMMA CycleFacts ==
    ASSUME TypeOK
    PROVE  /\ Finish => /\ managementBusy' \in BOOLEAN /\ phase' \in Phases
                        /\ actions' \in [Positions -> Actions]
                        /\ closing' \in Positions \cup {NoPosition}
           /\ RunManagement(waiting) =>
                 /\ managementBusy' \in BOOLEAN /\ phase' \in Phases
                 /\ actions' \in [Positions -> Actions]
                 /\ closing' \in Positions \cup {NoPosition}
                 /\ waiting' \in SUBSET Callers
           /\ RunScreening => screeningBusy' \in BOOLEAN /\ screenCooling' \in BOOLEAN
  <1>1. NoActions \in [Positions -> Actions]
    BY DEF NoActions, Actions
  <1>2. QED
    BY <1>1, CallerFacts
    DEF TypeOK, Finish, RunManagement, RunScreening, cycleVars, Phases

\* The cycle chooses an action of its list for every position.
LEMMA ChosenFacts ==
    ASSUME NEW p, ~Throws(p)
    PROVE  ChosenAction(p) \in Actions
  <1>1. ExitOf(rec[p], snap[p]) \in
           {"NONE", "TRAILING_TP", "STOP_LOSS", "TRAILING_DROP",
            "OUT_OF_RANGE", "LOW_YIELD"}
    BY DEF Throws, ExitOf, CheckExits
  <1>2. QED  BY <1>1 DEF ChosenAction, Actions, Closes, Exits

\* The management cycle's own steps keep the types.
LEMMA EvaluateType ==
    ASSUME TypeOK, ManagementEvaluate
    PROVE  TypeOK' /\ (ExitEvidence => ExitEvidence')
  <1> DEFINE acts == [p \in Positions |->
                        IF p \in ListedNow THEN ChosenAction(p) ELSE "NONE"]
  <1>1. HandleAll(ListedNow)  BY DEF ManagementEvaluate
  <1>2. actions' = acts /\ Proceed(acts)
    BY DEF ManagementEvaluate
  <1>3. acts \in [Positions -> Actions]
    BY ChosenFacts DEF ManagementEvaluate, Actions
  <1>4. Consume(Mgmt)  BY DEF ManagementEvaluate
  <1> HIDE DEF acts
  <1>5. phase' \in Phases /\ waiting' \in SUBSET Callers
    BY <1>2, CallerFacts DEF Proceed, TypeOK, Phases
  <1>6. QED
    BY <1>1, <1>2, <1>3, <1>4, <1>5, HandleFacts, ConsumeFacts
    DEF ManagementEvaluate, TypeOK, flagVars
\* The other steps of the management cycle keep the types.
LEMMA ManagementType ==
    ASSUME TypeOK, Management
    PROVE  TypeOK' /\ (ExitEvidence => ExitEvidence')
  <1>1. CASE ManagementCron
    <2>1. RunManagement(waiting) /\ rec' = rec  BY <1>1 DEF ManagementCron
    <2>2. ExitEvidence => ExitEvidence'  BY <2>1 DEF ExitEvidence
    <2>3. QED
      BY <1>1, <2>1, <2>2, CycleFacts
      DEF ManagementCron, TypeOK, flagVars, timerVars
  <1>2. CASE ManagementEmpty
    <2>1. Finish /\ Consume(Mgmt) /\ rec' = rec  BY <1>2 DEF ManagementEmpty
    <2>2. screeningBusy' \in BOOLEAN /\ screenCooling' \in BOOLEAN
      BY <1>2, CycleFacts DEF ManagementEmpty, TypeOK
    <2>3. ExitEvidence => ExitEvidence'  BY <2>1 DEF ExitEvidence
    <2>4. QED
      BY <1>2, <2>1, <2>2, <2>3, CycleFacts, ConsumeFacts
      DEF ManagementEmpty, TypeOK, timerVars
  <1>3. CASE ManagementEvaluate  BY <1>3, EvaluateType
  <1>4. CASE ManagementThrows
    <2>1. Finish /\ Consume(Mgmt)  BY <1>4 DEF ManagementThrows
    <2>2. PICK S \in SUBSET ListedNow : HandleAll(S)
      <3>1. PICK t \in ListedNow :
               \E S \in Prefixes({p \in ListedNow : Throws(p)}) :
                  HandleAll(S \cup {t})
        BY <1>4 DEF ManagementThrows
      <3>2. PICK S \in Prefixes({p \in ListedNow : Throws(p)}) :
               HandleAll(S \cup {t})
        BY <3>1
      <3>3. S \cup {t} \in SUBSET ListedNow  BY <3>2 DEF Prefixes
      <3>4. QED  BY <3>2, <3>3
    <2>3. QED
      BY <1>4, <2>1, <2>2, CycleFacts, ConsumeFacts, HandleFacts
      DEF ManagementThrows, TypeOK, flagVars
  <1>5. CASE LlmDone
    <2>1. phase' \in Phases /\ waiting' \in SUBSET Callers
      BY <1>5, CallerFacts DEF LlmDone, TypeOK, Phases
    <2>2. ExitEvidence => ExitEvidence'  BY <1>5 DEF LlmDone, ExitEvidence
    <2>3. QED
      BY <1>5, <2>1, <2>2 DEF LlmDone, TypeOK, flagVars, timerVars
  <1>6. CASE LlmFails
    <2>1. ExitEvidence => ExitEvidence'  BY <1>6 DEF LlmFails, ExitEvidence
    <2>2. QED
      BY <1>6, <2>1, CycleFacts DEF LlmFails, TypeOK, flagVars, timerVars
  <1>7. CASE ManagementAfter
    <2>1. Finish /\ Consume(Mgmt) /\ rec' = rec  BY <1>7 DEF ManagementAfter
    <2>2. screeningBusy' \in BOOLEAN /\ screenCooling' \in BOOLEAN
      BY <1>7, CycleFacts DEF ManagementAfter, TypeOK
    <2>3. ExitEvidence => ExitEvidence'  BY <2>1 DEF ExitEvidence
    <2>4. QED
      BY <1>7, <2>1, <2>2, <2>3, CycleFacts, ConsumeFacts
      DEF ManagementAfter, TypeOK, timerVars
  <1>8. CASE HealthStart \/ HealthEnd
    <2>1. ExitEvidence => ExitEvidence'
      BY <1>8 DEF HealthStart, HealthEnd, ExitEvidence
    <2>2. QED
      BY <1>8, <2>1
      DEF HealthStart, HealthEnd, TypeOK, Phases, flagVars, timerVars
  <1>9. CASE CloseRecorded
    <2>1. closing \in Positions  BY <1>9 DEF CloseRecorded, TypeOK
    <2>2. rec[closing] \in Record  BY <2>1 DEF TypeOK
    <2>3. /\ recordClose(rec[closing]) \in Record
          /\ EvidenceOf(rec[closing]) => EvidenceOf(recordClose(rec[closing]))
      BY <2>2, CloseFacts
    <2>4. rec' = [rec EXCEPT ![closing] = recordClose(rec[closing])]
      BY <1>9 DEF CloseRecorded
    <2>5. rec' \in [Positions -> Record]  BY <2>3, <2>4 DEF TypeOK
    <2>6. ExitEvidence => ExitEvidence'
      BY <2>1, <2>3, <2>4 DEF ExitEvidence, TypeOK
    <2>7. QED
      BY <1>9, <2>5, <2>6 DEF CloseRecorded, TypeOK, flagVars, timerVars
  <1>10. ASSUME NEW p \in Positions, CloseSent(p)
         PROVE  TypeOK' /\ (ExitEvidence => ExitEvidence')
    <2>1. ExitEvidence => ExitEvidence'
      BY <1>10 DEF CloseSent, ExitEvidence
    <2>2. QED
      BY <1>10, <2>1
      DEF CloseSent, TypeOK, flagVars, timerVars
  <1>11. QED
    BY <1>1, <1>2, <1>3, <1>4, <1>5, <1>6, <1>7, <1>8, <1>9,
       <1>10
    DEF Management

\* A restart keeps the records and resets the rest.
LEMMA VolatileType ==
    ASSUME TypeOK, Volatile, UNCHANGED chain,
           rec' \in [Positions -> Record]
    PROVE  TypeOK'
  <1>1. /\ NoActions \in [Positions -> Actions]
        /\ NoSnap \in [Positions -> Reading \cup {Absent}]
    BY DEF NoActions, Actions, NoSnap
  <1>2. QED  BY <1>1 DEF Volatile, TypeOK, Phases

LEMMA PollerType ==
    ASSUME TypeOK, Poller
    PROVE  TypeOK' /\ (ExitEvidence => ExitEvidence')
  <1>1. CASE PollStart
    <2>1. ExitEvidence => ExitEvidence'  BY <1>1 DEF PollStart, ExitEvidence
    <2>2. QED
      BY <1>1, <2>1, CallerFacts
      DEF PollStart, TypeOK, cycleVars, flagVars, timerVars
  <1>2. CASE PollQuietly
    <2>1. HandleAll(ListedNow) /\ Consume(Poll)  BY <1>2 DEF PollQuietly
    <2>2. QED
      BY <1>2, <2>1, HandleFacts, ConsumeFacts
      DEF PollQuietly, TypeOK, cycleVars, flagVars
  <1>3. CASE PollAlerts
    <2>1. PICK S \in SUBSET ListedNow : HandleAll(S)
      <3>1. PICK b \in PollEnds :
               \E S \in Prefixes(PollEnds) : HandleAll(S \cup {b})
        BY <1>3 DEF PollAlerts
      <3>2. PICK S \in Prefixes(PollEnds) : HandleAll(S \cup {b})  BY <3>1
      <3>3. S \cup {b} \in SUBSET ListedNow  BY <3>1, <3>2 DEF Prefixes, PollEnds
      <3>4. QED  BY <3>2, <3>3
    <2>2. /\ managementBusy' \in BOOLEAN /\ phase' \in Phases
          /\ actions' \in [Positions -> Actions]
          /\ closing' \in Positions \cup {NoPosition}
          /\ waiting' \in SUBSET Callers
      BY <1>3, CycleFacts DEF PollAlerts, TypeOK, cycleVars
    <2>3. Consume(Poll)  BY <1>3 DEF PollAlerts
    <2>4. QED
      BY <1>3, <2>1, <2>2, <2>3, HandleFacts, ConsumeFacts
      DEF PollAlerts, TypeOK
  <1>4. CASE PollThrows
    <2>1. PICK t \in ListedNow, S \in Prefixes(PollEnds) :
             rec' = [p \in Positions |->
                       IF p \in S \cup {t} THEN Handled(rec[p], snap[p])
                       ELSE rec[p]]
      BY <1>4 DEF PollThrows
    <2> DEFINE T == S \cup {t}
    <2>2. T \in SUBSET ListedNow  BY <2>1 DEF Prefixes
    <2>3. /\ rec' \in [Positions -> Record]
          /\ ExitEvidence => ExitEvidence'
      BY <2>1, <2>2, HandledRecords
    <2>4. QED  BY <1>4, <2>3, VolatileType DEF PollThrows
  <1>5. QED  BY <1>1, <1>2, <1>3, <1>4 DEF Poller

LEMMA RecheckType ==
    ASSUME TypeOK, Rechecks
    PROVE  TypeOK' /\ (ExitEvidence => ExitEvidence')
  <1>1. ASSUME NEW p \in Positions, PeakTimerFires(p) \/ DropTimerFires(p)
        PROVE  TypeOK' /\ (ExitEvidence => ExitEvidence')
    <2>1. ExitEvidence => ExitEvidence'
      BY <1>1 DEF PeakTimerFires, DropTimerFires, ExitEvidence
    <2>2. QED
      BY <1>1, <2>1, CallerFacts
      DEF PeakTimerFires, DropTimerFires, TypeOK, cycleVars, flagVars
  <1>2. ASSUME NEW p \in Positions, PeakRecheck(p)
        PROVE  TypeOK' /\ (ExitEvidence => ExitEvidence')
    <2> DEFINE q == resolvePendingPeak(rec[p], snap[p].pnl)
    <2>1. Consume(PeakCheck(p)) /\ rec' = [rec EXCEPT ![p] = q]
      BY <1>2 DEF PeakRecheck
    <2>2. q \in Record /\ (EvidenceOf(rec[p]) => EvidenceOf(q))
      BY SnapFacts, ResolvePeakFacts DEF TypeOK
    <2> HIDE DEF q
    <2>3. rec' \in [Positions -> Record]  BY <2>1, <2>2 DEF TypeOK
    <2>4. ExitEvidence => ExitEvidence'
      BY <2>1, <2>2 DEF ExitEvidence, TypeOK
    <2>5. QED
      BY <1>2, <2>1, <2>3, <2>4, ConsumeFacts
      DEF PeakRecheck, TypeOK, cycleVars, flagVars, timerVars
  <1>3. ASSUME NEW p \in Positions, DropRecheck(p)
        PROVE  TypeOK' /\ (ExitEvidence => ExitEvidence')
    <2> DEFINE q == resolvePendingTrailingDrop(rec[p], snap[p].pnl)
    <2>1. Consume(DropCheck(p)) /\ rec' = [rec EXCEPT ![p] = q]
      BY <1>3 DEF DropRecheck
    <2>2. q \in Record /\ (EvidenceOf(rec[p]) => EvidenceOf(q))
      BY SnapFacts, ResolveDropFacts DEF TypeOK
    <2> HIDE DEF q
    <2>3. rec' \in [Positions -> Record]  BY <2>1, <2>2 DEF TypeOK
    <2>4. ExitEvidence => ExitEvidence'
      BY <2>1, <2>2 DEF ExitEvidence, TypeOK
    <2>5. /\ managementBusy' \in BOOLEAN /\ phase' \in Phases
          /\ actions' \in [Positions -> Actions]
          /\ closing' \in Positions \cup {NoPosition}
          /\ waiting' \in SUBSET Callers
      BY <1>3, CycleFacts DEF DropRecheck, TypeOK, cycleVars
    <2>6. QED
      BY <1>3, <2>1, <2>3, <2>4, <2>5, ConsumeFacts
      DEF DropRecheck, TypeOK, flagVars, timerVars
  <1>4. QED  BY <1>1, <1>2, <1>3 DEF Rechecks

LEMMA EnvironmentType ==
    ASSUME TypeOK, Environment
    PROVE  TypeOK' /\ (ExitEvidence => ExitEvidence')
  <1>1. CASE ScreeningStart \/ ScreeningEnd \/ CooldownEnds
    <2>1. rec' = rec  BY <1>1 DEF ScreeningStart, ScreeningEnd, CooldownEnds
    <2>2. ExitEvidence => ExitEvidence'  BY <2>1 DEF ExitEvidence
    <2>3. QED
      BY <1>1, <2>1, <2>2
      DEF ScreeningStart, ScreeningEnd, CooldownEnds, RunScreening, TypeOK,
          cycleVars, timerVars
  <1>2. CASE Restart
    <2>1. rec' = rec  BY <1>2 DEF Restart
    <2>2. ExitEvidence => ExitEvidence'  BY <2>1 DEF ExitEvidence
    <2>3. rec' \in [Positions -> Record]  BY <2>1 DEF TypeOK
    <2>4. QED  BY <1>2, <2>2, <2>3, VolatileType DEF Restart
  <1>3. ASSUME NEW p \in Positions, ScreeningDeploys(p)
        PROVE  TypeOK' /\ (ExitEvidence => ExitEvidence')
    <2>1. rec' = [rec EXCEPT ![p] = trackPosition]
      BY <1>3 DEF ScreeningDeploys
    <2>2. rec' \in [Positions -> Record]  BY <2>1, BlankFacts DEF TypeOK
    <2>3. ExitEvidence => ExitEvidence'
      BY <2>1, BlankFacts DEF ExitEvidence, TypeOK
    <2>4. QED
      BY <1>3, <2>2, <2>3
      DEF ScreeningDeploys, TypeOK, cycleVars, flagVars, timerVars
  <1>4. ASSUME NEW p \in Positions, OpenedOutside(p) \/ ClosedOutside(p)
        PROVE  TypeOK' /\ (ExitEvidence => ExitEvidence')
    <2>1. ExitEvidence => ExitEvidence'
      BY <1>4 DEF OpenedOutside, ClosedOutside, ExitEvidence
    <2>2. QED
      BY <1>4, <2>1
      DEF OpenedOutside, ClosedOutside, TypeOK, cycleVars, flagVars, timerVars
  <1>5. ASSUME NEW p \in Positions, ConfirmedExitExpires(p) \/ GraceEnds(p)
        PROVE  TypeOK' /\ (ExitEvidence => ExitEvidence')
    <2>1. PICK q : /\ rec' = [rec EXCEPT ![p] = q]
                   /\ \/ q = [rec[p] EXCEPT !.confirmedExit = FALSE]
                      \/ q = [rec[p] EXCEPT !.fresh = FALSE]
      BY <1>5 DEF ConfirmedExitExpires, GraceEnds
    <2>2. rec[p] \in Record  BY DEF TypeOK
    <2>3. q \in Record /\ (EvidenceOf(rec[p]) => EvidenceOf(q))
      BY <2>1, <2>2 DEF Record, EvidenceOf
    <2>4. rec' \in [Positions -> Record]  BY <2>1, <2>3 DEF TypeOK
    <2>5. ExitEvidence => ExitEvidence'
      BY <2>1, <2>3 DEF ExitEvidence, TypeOK
    <2>6. QED
      BY <1>5, <2>4, <2>5
      DEF ConfirmedExitExpires, GraceEnds, TypeOK, cycleVars, flagVars,
          timerVars
  <1>6. QED  BY <1>1, <1>2, <1>3, <1>4, <1>5 DEF Environment

LEMMA InitFacts == Init => TypeOK /\ ExitEvidence
  <1>1. /\ NoActions \in [Positions -> Actions]
        /\ NoSnap \in [Positions -> Reading \cup {Absent}]
    BY DEF NoActions, Actions, NoSnap
  <1>2. QED
    BY <1>1, BlankFacts DEF Init, TypeOK, Phases, ExitEvidence

LEMMA StepFacts ==
    TypeOK /\ [Next]_vars => TypeOK' /\ (ExitEvidence => ExitEvidence')
  <1> SUFFICES ASSUME TypeOK, [Next]_vars
               PROVE  TypeOK' /\ (ExitEvidence => ExitEvidence')
    OBVIOUS
  <1>1. CASE ScanSucceeds \/ ScanFails  BY <1>1, ScanFacts
  <1>2. CASE Management  BY <1>2, ManagementType
  <1>3. CASE Poller  BY <1>3, PollerType
  <1>4. CASE Rechecks  BY <1>4, RecheckType
  <1>5. CASE Environment  BY <1>5, EnvironmentType
  <1>6. CASE UNCHANGED vars  BY <1>6 DEF vars, TypeOK, ExitEvidence
  <1>7. QED  BY <1>1, <1>2, <1>3, <1>4, <1>5, <1>6 DEF Next

\* Every variable keeps its type, whatever the readings, failures and crashes.
THEOREM TypeCorrect == Spec => []TypeOK
  <1>1. Init => TypeOK  BY InitFacts
  <1>2. TypeOK /\ [Next]_vars => TypeOK'  BY StepFacts
  <1>3. QED  BY <1>1, <1>2, PTL DEF Spec

\* A trailing exit is pending or confirmed only on a confirmed peak at or above
\* the trigger and a drop of at least DropPct from it.
THEOREM EvidenceCorrect == Spec => []ExitEvidence
  <1>1. Init => ExitEvidence  BY InitFacts
  <1>2. TypeOK /\ ExitEvidence /\ [Next]_vars => ExitEvidence'  BY StepFacts
  <1>3. QED  BY <1>1, <1>2, TypeCorrect, PTL DEF Spec

-----------------------------------------------------------------------------
(* Closed in state.json, closed on chain *)

\* What ClosedIsClosedOnChain rests on: nothing is tracked before it exists, and
\* a close is recorded only after its transactions.
ChainSafe ==
    /\ ClosedIsClosedOnChain
    /\ \A p \in Positions : rec[p].status # "untracked" => chain[p] # "none"
    /\ closing # NoPosition => chain[closing] = "closed"

\* Steps that close nothing in state.json and undo nothing on chain.
LEMMA ChainFrame ==
    ASSUME TypeOK, ChainSafe,
           \A p \in Positions : rec'[p].status = rec[p].status,
           \A p \in Positions : chain'[p] = chain[p] \/ chain'[p] = "closed",
           closing' \in {closing, NoPosition}
    PROVE  ChainSafe'
  BY LoopConstants DEF ChainSafe, ClosedIsClosedOnChain, TypeOK

LEMMA ScanChain ==
    ASSUME TypeOK, ChainSafe, ScanSucceeds
    PROVE  ChainSafe'
  <1>1. PICK s \in [Positions -> Readings \cup {Absent}] :
           /\ Reports(s)
           /\ rec' = Synced(s)
    BY DEF ScanSucceeds
  <1>2. chain' = chain /\ closing' = closing  BY DEF ScanSucceeds, cycleVars
  <1>3. ASSUME NEW p \in Positions
        PROVE  /\ rec'[p].status = "closed" => chain[p] = "closed"
               /\ rec'[p].status # "untracked" => chain[p] # "none"
    <2>1. rec[p] \in Record /\ chain[p] \in {"none", "open", "closed"}
      BY DEF TypeOK
    <2>2. CASE Listed(s[p])
      <3>1. s[p] \in Reading  BY <2>2, LoopConstants DEF Listed
      <3>2. rec'[p] = markRange(rec[p], s[p])  BY <1>1, <2>2 DEF Synced
      <3>3. rec'[p].status = rec[p].status  BY <2>1, <3>1, <3>2, MarkFacts
      <3>4. QED  BY <3>3 DEF ChainSafe, ClosedIsClosedOnChain
    <2>3. CASE ~Listed(s[p])
      <3>1. rec'[p] = syncMissing(rec[p])  BY <1>1, <2>3 DEF Synced
      <3>2. CASE rec[p].status = "open" /\ ~rec[p].fresh
        <4>1. chain[p] # "open"  BY <1>1, <2>3, <3>2 DEF Reports, CanOmit
        <4>2. QED  BY <2>1, <3>2, <4>1 DEF ChainSafe
      <3>3. CASE ~(rec[p].status = "open" /\ ~rec[p].fresh)
        <4>1. rec'[p] = rec[p]  BY <3>1, <3>3 DEF syncMissing
        <4>2. QED  BY <4>1 DEF ChainSafe, ClosedIsClosedOnChain
      <3>4. QED  BY <3>2, <3>3
    <2>4. QED  BY <2>2, <2>3
  <1>4. QED  BY <1>2, <1>3 DEF ChainSafe, ClosedIsClosedOnChain

LEMMA CloseChain ==
    ASSUME TypeOK, ChainSafe, CloseRecorded
    PROVE  ChainSafe'
  <1>1. closing \in Positions /\ chain[closing] = "closed"
    BY DEF CloseRecorded, TypeOK, ChainSafe
  <1>2. /\ rec' = [rec EXCEPT ![closing] = recordClose(rec[closing])]
        /\ chain' = chain /\ closing' = NoPosition
    BY DEF CloseRecorded
  <1>3. \A p \in Positions : p # closing => rec'[p] = rec[p]
    BY <1>2 DEF TypeOK
  <1>4. QED  BY <1>1, <1>2, <1>3 DEF ChainSafe, ClosedIsClosedOnChain

\* The loops' continuations neither close a record nor touch the chain.
LEMMA LoopFrame ==
    ASSUME TypeOK, Management \/ Poller \/ Rechecks, ~CloseRecorded
    PROVE  /\ \A p \in Positions : rec'[p].status = rec[p].status
           /\ \/ chain' = chain /\ closing' \in {closing, NoPosition}
              \/ \E p \in Positions : CloseSent(p)
  <1>1. CASE \/ ManagementCron \/ ManagementEmpty \/ LlmDone \/ LlmFails
             \/ ManagementAfter
             \/ HealthStart \/ HealthEnd \/ PollStart
             \/ \E p \in Positions : \/ CloseSent(p)
                                     \/ PeakTimerFires(p) \/ DropTimerFires(p)
    BY <1>1
    DEF ManagementCron, ManagementEmpty, LlmDone, LlmFails, ManagementAfter,
        HealthStart, HealthEnd, PollStart, CloseSent, PeakTimerFires,
        DropTimerFires, Finish, RunManagement, cycleVars
  <1>2. CASE ManagementEvaluate
    BY <1>2, HandleFacts DEF ManagementEvaluate
  <1>3. CASE ManagementThrows
    <2>1. PICK t \in ListedNow,
               S \in Prefixes({p \in ListedNow : Throws(p)}) :
             HandleAll(S \cup {t})
      BY <1>3 DEF ManagementThrows
    <2>2. S \cup {t} \in SUBSET ListedNow  BY <2>1 DEF Prefixes
    <2>3. QED  BY <1>3, <2>1, <2>2, HandleFacts DEF ManagementThrows, Finish
  <1>4. CASE PollQuietly
    BY <1>4, HandleFacts DEF PollQuietly, cycleVars
  <1>5. CASE PollAlerts
    <2>1. PICK b \in PollEnds, S \in Prefixes(PollEnds) : HandleAll(S \cup {b})
      BY <1>5 DEF PollAlerts
    <2>2. S \cup {b} \in SUBSET ListedNow  BY <2>1 DEF Prefixes, PollEnds
    <2>3. chain' = chain /\ closing' = closing
      BY <1>5 DEF PollAlerts, RunManagement, cycleVars
    <2>4. QED  BY <2>1, <2>2, <2>3, HandleFacts
  <1>6. CASE PollThrows
    <2>1. PICK t \in ListedNow, S \in Prefixes(PollEnds) :
             rec' = [p \in Positions |->
                       IF p \in S \cup {t} THEN Handled(rec[p], snap[p])
                       ELSE rec[p]]
      BY <1>6 DEF PollThrows
    <2> DEFINE T == S \cup {t}
    <2>2. T \in SUBSET ListedNow  BY <2>1 DEF Prefixes
    <2>3. \A p \in Positions : rec'[p].status = rec[p].status
      BY <2>1, <2>2, HandledRecords
    <2>4. QED  BY <1>6, <2>3 DEF PollThrows, Volatile
  <1>7. ASSUME NEW p \in Positions, PeakRecheck(p)
        PROVE  /\ \A x \in Positions : rec'[x].status = rec[x].status
               /\ chain' = chain /\ closing' = closing
    <2>1. resolvePendingPeak(rec[p], snap[p].pnl).status = rec[p].status
      BY SnapFacts, ResolvePeakFacts DEF TypeOK
    <2>2. QED  BY <1>7, <2>1 DEF PeakRecheck, TypeOK, cycleVars
  <1>8. ASSUME NEW p \in Positions, DropRecheck(p)
        PROVE  /\ \A x \in Positions : rec'[x].status = rec[x].status
               /\ chain' = chain /\ closing' = closing
    <2>1. resolvePendingTrailingDrop(rec[p], snap[p].pnl).status
            = rec[p].status
      BY SnapFacts, ResolveDropFacts DEF TypeOK
    <2>2. closing' = closing
      BY <1>8 DEF DropRecheck, RunManagement, cycleVars
    <2>3. QED  BY <1>8, <2>1, <2>2 DEF DropRecheck, TypeOK
  <1>9. QED
    BY <1>1, <1>2, <1>3, <1>4, <1>5, <1>6, <1>7, <1>8
    DEF Management, Poller, Rechecks

LEMMA EnvironmentChain ==
    ASSUME TypeOK, ChainSafe, Environment
    PROVE  ChainSafe'
  <1>1. CASE ScreeningStart \/ ScreeningEnd \/ CooldownEnds \/ Restart
    <2>1. rec' = rec /\ chain' = chain /\ closing' \in {closing, NoPosition}
      BY <1>1
      DEF ScreeningStart, ScreeningEnd, CooldownEnds, Restart, Volatile,
          cycleVars
    <2>2. QED  BY <2>1, ChainFrame
  <1>2. ASSUME NEW p \in Positions, ScreeningDeploys(p) \/ OpenedOutside(p)
        PROVE  ChainSafe'
    <2>1. /\ chain[p] = "none" /\ chain' = [chain EXCEPT ![p] = "open"]
          /\ closing' = closing
          /\ rec' \in {rec, [rec EXCEPT ![p] = trackPosition]}
      BY <1>2 DEF ScreeningDeploys, OpenedOutside, cycleVars
    <2>2. rec[p].status = "untracked" /\ closing # p
      BY <2>1, LoopConstants DEF ChainSafe, TypeOK
    <2>3. trackPosition.status = "open"  BY DEF trackPosition, Blank
    <2>4. \A x \in Positions : x # p => rec'[x] = rec[x] /\ chain'[x] = chain[x]
      BY <2>1 DEF TypeOK
    <2>5. chain'[p] = "open" /\ rec'[p].status # "closed"
      BY <2>1, <2>2, <2>3 DEF TypeOK
    <2>6. QED
      BY <2>1, <2>2, <2>4, <2>5
      DEF ChainSafe, ClosedIsClosedOnChain, TypeOK
  <1>3. ASSUME NEW p \in Positions,
               \/ ClosedOutside(p) \/ ConfirmedExitExpires(p) \/ GraceEnds(p)
        PROVE  ChainSafe'
    <2>1. \A x \in Positions : rec[x] \in Record  BY DEF TypeOK
    <2>2. \A x \in Positions : rec'[x].status = rec[x].status
      BY <1>3, <2>1
      DEF ClosedOutside, ConfirmedExitExpires, GraceEnds, TypeOK, Record
    <2>3. /\ \A x \in Positions : chain'[x] = chain[x] \/ chain'[x] = "closed"
          /\ closing' = closing
      BY <1>3
      DEF ClosedOutside, ConfirmedExitExpires, GraceEnds, TypeOK, cycleVars
    <2>4. QED  BY <2>2, <2>3, ChainFrame
  <1>4. QED  BY <1>1, <1>2, <1>3 DEF Environment

LEMMA ChainStep == TypeOK /\ ChainSafe /\ [Next]_vars => ChainSafe'
  <1> SUFFICES ASSUME TypeOK, ChainSafe, [Next]_vars  PROVE ChainSafe'
    OBVIOUS
  <1>1. CASE ScanSucceeds  BY <1>1, ScanChain
  <1>2. CASE ScanFails
    BY <1>2, ChainFrame DEF ScanFails, cycleVars
  <1>3. CASE CloseRecorded  BY <1>3, CloseChain
  <1>4. CASE (Management \/ Poller \/ Rechecks) /\ ~CloseRecorded
    <2>1. \A p \in Positions : rec'[p].status = rec[p].status
      BY <1>4, LoopFrame
    <2>2. CASE chain' = chain /\ closing' \in {closing, NoPosition}
      BY <2>1, <2>2, ChainFrame
    <2>3. ASSUME NEW p \in Positions, CloseSent(p)  PROVE ChainSafe'
      <3>1. /\ rec' = rec /\ closing' = p
            /\ chain' = [chain EXCEPT ![p] = "closed"]
        BY <2>3 DEF CloseSent
      <3>2. QED
        BY <3>1 DEF ChainSafe, ClosedIsClosedOnChain, TypeOK
    <2>4. QED  BY <1>4, <2>2, <2>3, LoopFrame
  <1>5. CASE Environment  BY <1>5, EnvironmentChain
  <1>6. CASE UNCHANGED vars
    BY <1>6 DEF vars, ChainSafe, ClosedIsClosedOnChain
  <1>7. QED  BY <1>1, <1>2, <1>3, <1>4, <1>5, <1>6 DEF Next

\* state.json never calls a position closed that is still open on chain.
THEOREM ClosedCorrect == Spec => []ClosedIsClosedOnChain
  <1>1. Init => ChainSafe
    BY DEF Init, ChainSafe, ClosedIsClosedOnChain, Blank
  <1>2. TypeOK /\ ChainSafe /\ [Next]_vars => ChainSafe'  BY ChainStep
  <1>3. ChainSafe => ClosedIsClosedOnChain  BY DEF ChainSafe
  <1>4. QED  BY <1>1, <1>2, <1>3, TypeCorrect, PTL DEF Spec

-----------------------------------------------------------------------------
(* One holder of _managementBusy *)

\* What OneHolder rests on: a caller either waits for the scan in flight or is
\* due to resume from the completed one, never both.
HolderInv == OneHolder /\ waiting \cap ready = {}

\* Mgmt, Poll and the rechecks are different callers.
LEMMA CallersDiffer ==
    /\ Mgmt # Poll
    /\ \A p \in Positions :
          /\ PeakCheck(p) # Mgmt /\ PeakCheck(p) # Poll
          /\ DropCheck(p) # Mgmt /\ DropCheck(p) # Poll
  BY DEF Mgmt, Poll, PeakCheck, DropCheck

LEMMA ManagementHolder ==
    ASSUME TypeOK, HolderInv, Management
    PROVE  HolderInv'
  <1> USE CallersDiffer DEF HolderInv, OneHolder
  <1>1. CASE ManagementCron
    BY <1>1 DEF ManagementCron, RunManagement, Quiet, cycleVars
  <1>2. CASE ManagementEmpty
    BY <1>2 DEF ManagementEmpty, Consume, Finish
  <1>3. CASE ManagementEvaluate
    <2> DEFINE acts == [p \in Positions |->
                          IF p \in ListedNow THEN ChosenAction(p) ELSE "NONE"]
    <2>1. /\ phase = "entry" /\ Consume(Mgmt)
          /\ Proceed(acts)
          /\ UNCHANGED <<managementBusy, closing, pollBusy>>
      BY <1>3 DEF ManagementEvaluate
    <2> HIDE DEF acts
    <2>2. QED  BY <2>1 DEF Consume, Proceed
  <1>4. CASE ManagementThrows
    BY <1>4 DEF ManagementThrows, Consume, Finish
  <1>5. CASE LlmDone \/ LlmFails
    BY <1>5 DEF LlmDone, LlmFails, Finish, Quiet
  <1>6. CASE ManagementAfter
    BY <1>6 DEF ManagementAfter, Consume, Finish
  <1>7. CASE HealthStart \/ HealthEnd
    BY <1>7 DEF HealthStart, HealthEnd
  <1>8. CASE CloseRecorded
    BY <1>8 DEF CloseRecorded
  <1>9. ASSUME NEW p \in Positions, CloseSent(p)
         PROVE  HolderInv'
    BY <1>9 DEF CloseSent, MayClose
  <1>10. QED
    BY <1>1, <1>2, <1>3, <1>4, <1>5, <1>6, <1>7, <1>8, <1>9
    DEF Management

LEMMA HolderStep == TypeOK /\ HolderInv /\ [Next]_vars => HolderInv'
  <1> SUFFICES ASSUME TypeOK, HolderInv, [Next]_vars  PROVE HolderInv'
    OBVIOUS
  <1> USE CallersDiffer DEF HolderInv, OneHolder
  <1>1. CASE ScanSucceeds
    <2>1. /\ ready = {} /\ waiting' \cap ready' = {}
          /\ waiting' \cup ready' = waiting
      BY <1>1 DEF ScanSucceeds, Quiet, TypeOK
    <2>2. QED  BY <1>1, <2>1 DEF ScanSucceeds, cycleVars
  <1>2. CASE ScanFails
    BY <1>2 DEF ScanFails, Quiet, cycleVars
  <1>3. CASE Management  BY <1>3, ManagementHolder
  <1>4. CASE PollStart
    BY <1>4 DEF PollStart, Quiet, cycleVars
  <1>5. CASE PollQuietly
    BY <1>5 DEF PollQuietly, Consume, cycleVars
  <1>6. CASE PollAlerts
    BY <1>6 DEF PollAlerts, Consume, RunManagement, cycleVars
  <1>7. CASE PollThrows \/ Restart
    BY <1>7 DEF PollThrows, Restart, Volatile
  <1>8. ASSUME NEW p \in Positions, PeakTimerFires(p) \/ DropTimerFires(p)
        PROVE  HolderInv'
    BY <1>8 DEF PeakTimerFires, DropTimerFires, Quiet, cycleVars
  <1>9. ASSUME NEW p \in Positions, PeakRecheck(p)
        PROVE  HolderInv'
    BY <1>9 DEF PeakRecheck, Consume, cycleVars
  <1>10. ASSUME NEW p \in Positions, DropRecheck(p)
         PROVE  HolderInv'
    BY <1>10 DEF DropRecheck, Consume, RunManagement, cycleVars
  <1>11. CASE ScreeningStart \/ ScreeningEnd \/ CooldownEnds
    BY <1>11 DEF ScreeningStart, ScreeningEnd, CooldownEnds, cycleVars
  <1>12. ASSUME NEW p \in Positions,
                \/ ScreeningDeploys(p) \/ OpenedOutside(p) \/ ClosedOutside(p)
                \/ ConfirmedExitExpires(p) \/ GraceEnds(p)
         PROVE  HolderInv'
    BY <1>12
    DEF ScreeningDeploys, OpenedOutside, ClosedOutside, ConfirmedExitExpires,
        GraceEnds, cycleVars
  <1>13. CASE UNCHANGED vars  BY <1>13 DEF vars
  <1>14. QED
    BY <1>1, <1>2, <1>3, <1>4, <1>5, <1>6, <1>7, <1>8, <1>9, <1>10, <1>11,
       <1>12, <1>13
    DEF Next, Poller, Rechecks, Environment

\* At most one management cycle or health check is ever at work, and a close it
\* started belongs to it, whatever interleaves and whenever the process dies.
THEOREM HolderCorrect == Spec => []OneHolder
  <1>1. Init => HolderInv
    BY DEF Init, HolderInv, OneHolder
  <1>2. TypeOK /\ HolderInv /\ [Next]_vars => HolderInv'  BY HolderStep
  <1>3. HolderInv => OneHolder  BY DEF HolderInv
  <1>4. QED  BY <1>1, <1>2, <1>3, TypeCorrect, PTL DEF Spec

-----------------------------------------------------------------------------
(* Every queued peak or drop has its recheck coming *)

PeakDue(p) == p \in peakTimers \/ PeakCheck(p) \in waiting \cup ready
DropDue(p) == p \in dropTimers \/ DropCheck(p) \in waiting \cup ready

\* A step keeps the promise when whatever is pending after it is due then, or
\* was pending before and stays due.
LEMMA PendingFrame ==
    ASSUME PendingHasRecheckUntilRestart, restarted => restarted',
           \A p \in Positions : rec'[p].status = "open" =>
              /\ rec'[p].pendingPeak # NoPnl =>
                    \/ PeakDue(p)'
                    \/ /\ rec[p].status = "open" /\ rec[p].pendingPeak # NoPnl
                       /\ PeakDue(p) => PeakDue(p)'
              /\ rec'[p].pendingDropCurrent # NoPnl =>
                    \/ DropDue(p)'
                    \/ /\ rec[p].status = "open"
                       /\ rec[p].pendingDropCurrent # NoPnl
                       /\ DropDue(p) => DropDue(p)'
    PROVE  PendingHasRecheckUntilRestart'
  <1>1. PendingHasRecheckUntilRestart <=>
          \/ restarted
          \/ \A p \in Positions : rec[p].status = "open" =>
                /\ rec[p].pendingPeak # NoPnl => PeakDue(p)
                /\ rec[p].pendingDropCurrent # NoPnl => DropDue(p)
    BY DEF PendingHasRecheckUntilRestart, PendingHasRecheck, RecheckDue,
           PeakDue, DropDue
  <1>2. PendingHasRecheckUntilRestart' <=>
          \/ restarted'
          \/ \A p \in Positions : rec'[p].status = "open" =>
                /\ rec'[p].pendingPeak # NoPnl => PeakDue(p)'
                /\ rec'[p].pendingDropCurrent # NoPnl => DropDue(p)'
    BY DEF PendingHasRecheckUntilRestart, PendingHasRecheck, RecheckDue,
           PeakDue, DropDue
  <1>3. QED  BY <1>1, <1>2

\* Steps that keep the records and every recheck that was due.
LEMMA SameRecords ==
    ASSUME PendingHasRecheckUntilRestart, restarted => restarted', rec' = rec,
           peakTimers \subseteq peakTimers', dropTimers \subseteq dropTimers',
           \A c \in waiting \cup ready :
              c \in waiting' \cup ready' \/ c = Mgmt \/ c = Poll
    PROVE  PendingHasRecheckUntilRestart'
  <1>1. \A p \in Positions : /\ PeakDue(p) => PeakDue(p)'
                             /\ DropDue(p) => DropDue(p)'
    BY CallersDiffer DEF PeakDue, DropDue
  <1>2. QED  BY <1>1, PendingFrame

\* So do the loops' passes over the listed positions.
LEMMA HandlePending ==
    ASSUME TypeOK, PendingHasRecheckUntilRestart, restarted' = restarted,
           NEW S \in SUBSET ListedNow, HandleAll(S),
           NEW c \in {Mgmt, Poll}, Consume(c), waiting \subseteq waiting'
    PROVE  PendingHasRecheckUntilRestart'
  <1>1. S \subseteq Positions /\ \A p \in S : snap[p] \in Reading
    BY ListedFacts
  <1>2. /\ peakTimers \subseteq peakTimers' /\ dropTimers \subseteq dropTimers'
        /\ \A p \in S : /\ ArmsPeak(rec[p], snap[p]) => p \in peakTimers'
                        /\ ArmsDrop(rec[p], snap[p]) => p \in dropTimers'
    BY DEF HandleAll
  <1>3. \A p \in Positions : /\ PeakDue(p) => PeakDue(p)'
                             /\ DropDue(p) => DropDue(p)'
    BY <1>2, CallersDiffer DEF PeakDue, DropDue, Consume
  <1>4. ASSUME NEW p \in Positions, rec'[p].status = "open"
        PROVE  /\ rec'[p].pendingPeak # NoPnl =>
                     PeakDue(p)' \/ rec[p].pendingPeak # NoPnl
               /\ rec'[p].pendingDropCurrent # NoPnl =>
                     DropDue(p)' \/ rec[p].pendingDropCurrent # NoPnl
    <2>1. CASE p \in S
      <3>1. rec'[p] = Handled(rec[p], snap[p])  BY <2>1 DEF HandleAll
      <3>2. rec[p] \in Record /\ snap[p] \in Reading  BY <1>1, <2>1 DEF TypeOK
      <3>3. /\ ArmsPeak(rec[p], snap[p]) => PeakDue(p)'
            /\ ArmsDrop(rec[p], snap[p]) => DropDue(p)'
        BY <1>2, <2>1 DEF PeakDue, DropDue
      <3>4. QED  BY <3>1, <3>2, <3>3, HandledPending
    <2>2. CASE p \notin S
      <3>1. rec'[p] = rec[p]  BY <2>2 DEF HandleAll
      <3>2. QED  BY <3>1
    <2>3. QED  BY <2>1, <2>2
  <1>5. \A p \in Positions : rec'[p].status = rec[p].status  BY HandleFacts
  <1>6. QED  BY <1>3, <1>4, <1>5, PendingFrame

LEMMA ScanPending ==
    ASSUME TypeOK, PendingHasRecheckUntilRestart, ScanSucceeds
    PROVE  PendingHasRecheckUntilRestart'
  <1>1. PICK s \in [Positions -> Readings \cup {Absent}] :
           rec' = Synced(s)
    BY DEF ScanSucceeds
  <1>2. ASSUME NEW p \in Positions
        PROVE  /\ rec'[p].status = "open" => rec[p].status = "open"
               /\ rec'[p].pendingPeak = rec[p].pendingPeak
               /\ rec'[p].pendingDropCurrent = rec[p].pendingDropCurrent
    <2>1. rec[p] \in Record  BY DEF TypeOK
    <2>2. CASE Listed(s[p])
      <3>1. s[p] \in Reading  BY <2>2, LoopConstants DEF Listed
      <3>2. rec'[p] = markRange(rec[p], s[p])  BY <1>1, <2>2 DEF Synced
      <3>3. QED  BY <2>1, <3>1, <3>2, MarkFacts
    <2>3. CASE ~Listed(s[p])
      <3>1. rec'[p] = syncMissing(rec[p])  BY <1>1, <2>3 DEF Synced
      <3>2. QED  BY <2>1, <3>1, MissingFacts
    <2>4. QED  BY <2>2, <2>3
  <1>3. /\ waiting' \cup ready' = waiting \cup ready
        /\ peakTimers' = peakTimers /\ dropTimers' = dropTimers
        /\ restarted' = restarted
    BY DEF ScanSucceeds, Quiet, timerVars
  <1>4. \A p \in Positions : PeakDue(p)' = PeakDue(p) /\ DropDue(p)' = DropDue(p)
    BY <1>3 DEF PeakDue, DropDue
  <1>5. QED  BY <1>2, <1>3, <1>4, PendingFrame

LEMMA RecheckPending ==
    ASSUME TypeOK, ExitEvidence, PendingHasRecheckUntilRestart, Rechecks
    PROVE  PendingHasRecheckUntilRestart'
  <1>0. \A p, x \in Positions : /\ PeakCheck(p) = PeakCheck(x) => p = x
                                /\ DropCheck(p) = DropCheck(x) => p = x
                                /\ PeakCheck(p) # DropCheck(x)
    BY DEF PeakCheck, DropCheck
  <1>1. ASSUME NEW p \in Positions, PeakTimerFires(p) \/ DropTimerFires(p)
        PROVE  PendingHasRecheckUntilRestart'
    <2>1. \A x \in Positions : /\ PeakDue(x) => PeakDue(x)'
                               /\ DropDue(x) => DropDue(x)'
      BY <1>1 DEF PeakTimerFires, DropTimerFires, PeakDue, DropDue
    <2>2. rec' = rec /\ restarted' = restarted
      BY <1>1 DEF PeakTimerFires, DropTimerFires
    <2>3. QED  BY <2>1, <2>2, PendingFrame
  <1>2. ASSUME NEW p \in Positions, PeakRecheck(p)
        PROVE  PendingHasRecheckUntilRestart'
    <2> DEFINE q == resolvePendingPeak(rec[p], snap[p].pnl)
    <2>1. /\ rec' = [rec EXCEPT ![p] = q] /\ restarted' = restarted
          /\ waiting' = waiting /\ ready' = ready \ {PeakCheck(p)}
          /\ peakTimers' = peakTimers /\ dropTimers' = dropTimers
      BY <1>2 DEF PeakRecheck, Consume, timerVars
    <2>2. /\ q.pendingPeak # NoPnl => q.status # "open"
          /\ q.pendingDropCurrent = rec[p].pendingDropCurrent
          /\ q.status = rec[p].status
      BY SnapFacts, RecheckSettles, ResolvePeakFacts DEF TypeOK
    <2> HIDE DEF q
    <2>3. \A x \in Positions : /\ x # p => (PeakDue(x) => PeakDue(x)')
                               /\ DropDue(x) => DropDue(x)'
      BY <1>0, <2>1 DEF PeakDue, DropDue
    <2>4. /\ rec'[p] = q
          /\ \A x \in Positions : x # p => rec'[x] = rec[x]
      BY <2>1 DEF TypeOK
    <2>5. QED  BY <2>1, <2>2, <2>3, <2>4, PendingFrame
  <1>3. ASSUME NEW p \in Positions, DropRecheck(p)
        PROVE  PendingHasRecheckUntilRestart'
    <2> DEFINE q == resolvePendingTrailingDrop(rec[p], snap[p].pnl)
    <2>1. /\ rec' = [rec EXCEPT ![p] = q] /\ restarted' = restarted
          /\ waiting \subseteq waiting' /\ ready' = ready \ {DropCheck(p)}
          /\ peakTimers' = peakTimers /\ dropTimers' = dropTimers
      BY <1>3 DEF DropRecheck, Consume, RunManagement, timerVars
    <2>2. rec[p] \in Record /\ EvidenceOf(rec[p]) /\ snap[p].pnl \in Pct
      BY SnapFacts DEF TypeOK, ExitEvidence
    <2>3. /\ q.pendingDropCurrent # NoPnl => q.status # "open"
          /\ q.pendingPeak = rec[p].pendingPeak
          /\ q.status = rec[p].status
      BY <2>2, RecheckSettles, ResolveDropFacts
    <2> HIDE DEF q
    <2>4. \A x \in Positions : /\ PeakDue(x) => PeakDue(x)'
                               /\ x # p => (DropDue(x) => DropDue(x)')
      BY <1>0, <2>1 DEF PeakDue, DropDue
    <2>5. /\ rec'[p] = q
          /\ \A x \in Positions : x # p => rec'[x] = rec[x]
      BY <2>1 DEF TypeOK
    <2>6. QED  BY <2>1, <2>3, <2>4, <2>5, PendingFrame
  <1>4. QED  BY <1>1, <1>2, <1>3 DEF Rechecks

LEMMA ManagementPending ==
    ASSUME TypeOK, PendingHasRecheckUntilRestart, Management
    PROVE  PendingHasRecheckUntilRestart'
  <1>1. CASE \/ ManagementCron \/ ManagementEmpty \/ LlmDone \/ LlmFails
             \/ ManagementAfter
             \/ HealthStart \/ HealthEnd
             \/ \E p \in Positions : CloseSent(p)
    <2>1. /\ rec' = rec /\ restarted' = restarted
          /\ peakTimers' = peakTimers /\ dropTimers' = dropTimers
      BY <1>1
      DEF ManagementCron, ManagementEmpty, LlmDone, LlmFails, ManagementAfter,
          HealthStart, HealthEnd, CloseSent, timerVars
    <2>2. /\ waiting \subseteq waiting'
          /\ ready' = ready \/ Consume(Mgmt)
      BY <1>1
      DEF ManagementCron, ManagementEmpty, LlmDone, LlmFails, ManagementAfter,
          HealthStart, HealthEnd, CloseSent, RunManagement, Proceed
    <2>3. QED  BY <2>1, <2>2, SameRecords DEF Consume
  <1>2. CASE ManagementEvaluate
    <2>1. /\ HandleAll(ListedNow) /\ Consume(Mgmt) /\ restarted' = restarted
          /\ waiting \subseteq waiting'
      BY <1>2 DEF ManagementEvaluate, Proceed
    <2>2. QED  BY <2>1, HandlePending
  <1>3. CASE ManagementThrows
    <2>1. PICK t \in ListedNow,
               S \in Prefixes({p \in ListedNow : Throws(p)}) :
             HandleAll(S \cup {t})
      BY <1>3 DEF ManagementThrows
    <2>2. S \cup {t} \in SUBSET ListedNow  BY <2>1 DEF Prefixes
    <2>3. Consume(Mgmt) /\ restarted' = restarted /\ waiting' = waiting
      BY <1>3 DEF ManagementThrows
    <2>4. QED  BY <2>1, <2>2, <2>3, HandlePending
  <1>4. CASE CloseRecorded
    <2>1. /\ rec' = [rec EXCEPT ![closing] = recordClose(rec[closing])]
          /\ restarted' = restarted /\ waiting' = waiting /\ ready' = ready
          /\ peakTimers' = peakTimers /\ dropTimers' = dropTimers
          /\ closing \in Positions
      BY <1>4 DEF CloseRecorded, timerVars, TypeOK
    <2>2. recordClose(rec[closing]).status # "open"
      BY DEF recordClose, Record, TypeOK
    <2>3. \A p \in Positions : /\ PeakDue(p)' = PeakDue(p)
                               /\ DropDue(p)' = DropDue(p)
      BY <2>1 DEF PeakDue, DropDue
    <2>4. \A p \in Positions : rec'[p].status = "open" => rec'[p] = rec[p]
      BY <2>1, <2>2 DEF TypeOK
    <2>5. QED  BY <2>1, <2>3, <2>4, PendingFrame
  <1>5. QED  BY <1>1, <1>2, <1>3, <1>4 DEF Management

LEMMA PollerPending ==
    ASSUME TypeOK, PendingHasRecheckUntilRestart, Poller
    PROVE  PendingHasRecheckUntilRestart'
  <1>1. CASE PollStart
    BY <1>1, SameRecords DEF PollStart, timerVars
  <1>2. CASE PollQuietly
    BY <1>2, HandlePending DEF PollQuietly
  <1>3. CASE PollAlerts
    <2>1. PICK b \in PollEnds, S \in Prefixes(PollEnds) : HandleAll(S \cup {b})
      BY <1>3 DEF PollAlerts
    <2>2. S \cup {b} \in SUBSET ListedNow  BY <2>1 DEF Prefixes, PollEnds
    <2>3. /\ Consume(Poll) /\ restarted' = restarted
          /\ waiting \subseteq waiting'
      BY <1>3 DEF PollAlerts, RunManagement
    <2>4. QED  BY <2>1, <2>2, <2>3, HandlePending
  <1>4. CASE PollThrows
    BY <1>4 DEF PollThrows, Volatile, PendingHasRecheckUntilRestart
  <1>5. QED  BY <1>1, <1>2, <1>3, <1>4 DEF Poller

LEMMA EnvironmentPending ==
    ASSUME TypeOK, PendingHasRecheckUntilRestart, Environment
    PROVE  PendingHasRecheckUntilRestart'
  <1>1. CASE Restart
    BY <1>1 DEF Restart, Volatile, PendingHasRecheckUntilRestart
  <1>2. CASE \/ ScreeningStart \/ ScreeningEnd \/ CooldownEnds
             \/ \E p \in Positions : OpenedOutside(p) \/ ClosedOutside(p)
    <2>1. /\ rec' = rec /\ restarted' = restarted
          /\ peakTimers' = peakTimers /\ dropTimers' = dropTimers
          /\ waiting' = waiting /\ ready' = ready
      BY <1>2
      DEF ScreeningStart, ScreeningEnd, CooldownEnds, OpenedOutside,
          ClosedOutside, timerVars
    <2>2. QED  BY <2>1, SameRecords
  <1>3. ASSUME NEW p \in Positions,
               \/ ScreeningDeploys(p) \/ ConfirmedExitExpires(p) \/ GraceEnds(p)
        PROVE  PendingHasRecheckUntilRestart'
    <2>1. PICK q : /\ rec' = [rec EXCEPT ![p] = q]
                   /\ \/ q = trackPosition
                      \/ q = [rec[p] EXCEPT !.confirmedExit = FALSE]
                      \/ q = [rec[p] EXCEPT !.fresh = FALSE]
      BY <1>3 DEF ScreeningDeploys, ConfirmedExitExpires, GraceEnds
    <2>2. rec[p] \in Record  BY DEF TypeOK
    <2>3. \/ q.pendingPeak = NoPnl /\ q.pendingDropCurrent = NoPnl
          \/ /\ q.status = rec[p].status
             /\ q.pendingPeak = rec[p].pendingPeak
             /\ q.pendingDropCurrent = rec[p].pendingDropCurrent
      BY <2>1, <2>2 DEF trackPosition, Blank, Record
    <2>4. /\ waiting' = waiting /\ ready' = ready /\ restarted' = restarted
          /\ peakTimers' = peakTimers /\ dropTimers' = dropTimers
      BY <1>3 DEF ScreeningDeploys, ConfirmedExitExpires, GraceEnds, timerVars
    <2>5. \A x \in Positions : /\ PeakDue(x)' = PeakDue(x)
                               /\ DropDue(x)' = DropDue(x)
      BY <2>4 DEF PeakDue, DropDue
    <2>6. /\ rec'[p] = q
          /\ \A x \in Positions : x # p => rec'[x] = rec[x]
      BY <2>1 DEF TypeOK
    <2>7. QED  BY <2>3, <2>4, <2>5, <2>6, PendingFrame
  <1>4. QED  BY <1>1, <1>2, <1>3 DEF Environment

LEMMA PendingStep ==
    TypeOK /\ ExitEvidence /\ PendingHasRecheckUntilRestart /\ [Next]_vars
      => PendingHasRecheckUntilRestart'
  <1> SUFFICES ASSUME TypeOK, ExitEvidence, PendingHasRecheckUntilRestart,
                      [Next]_vars
               PROVE  PendingHasRecheckUntilRestart'
    OBVIOUS
  <1>1. CASE ScanSucceeds  BY <1>1, ScanPending
  <1>2. CASE ScanFails
    <2>1. /\ rec' = rec /\ restarted' = restarted
          /\ peakTimers' = peakTimers /\ dropTimers' = dropTimers
          /\ waiting' \cup ready' = waiting \cup ready
      BY <1>2 DEF ScanFails, Quiet, timerVars
    <2>2. QED  BY <2>1, SameRecords
  <1>3. CASE Management  BY <1>3, ManagementPending
  <1>4. CASE Poller  BY <1>4, PollerPending
  <1>5. CASE Rechecks  BY <1>5, RecheckPending
  <1>6. CASE Environment  BY <1>6, EnvironmentPending
  <1>7. CASE UNCHANGED vars
    <2>1. /\ rec' = rec /\ restarted' = restarted
          /\ peakTimers' = peakTimers /\ dropTimers' = dropTimers
          /\ waiting' = waiting /\ ready' = ready
      BY <1>7 DEF vars
    <2>2. QED  BY <2>1, SameRecords
  <1>8. QED  BY <1>1, <1>2, <1>3, <1>4, <1>5, <1>6, <1>7 DEF Next

\* Within one process, every queued peak or drop of an open position has its
\* recheck coming: its timer is armed or its callback awaits a scan.
THEOREM RecheckCorrect == Spec => []PendingHasRecheckUntilRestart
  <1>1. Init => PendingHasRecheckUntilRestart
    BY DEF Init, PendingHasRecheckUntilRestart, PendingHasRecheck, Blank
  <1>2. TypeOK /\ ExitEvidence /\ PendingHasRecheckUntilRestart /\ [Next]_vars
          => PendingHasRecheckUntilRestart'
    BY PendingStep
  <1>3. QED  BY <1>1, <1>2, TypeCorrect, EvidenceCorrect, PTL DEF Spec

-----------------------------------------------------------------------------
(* Peaks *)

\* What PeakRisesByRecheck says of one step.
PeakStep ==
    \A p \in Positions :
        /\ rec[p].status = "open" => rec'[p].peak >= rec[p].peak
        /\ ~Relay /\ rec[p].status = "open" /\ rec'[p].peak # rec[p].peak =>
              /\ PeakCheck(p) \in ready
              /\ rec[p].pendingPeak # NoPnl
              /\ rec'[p].peak >= rec[p].pendingPeak

LEMMA SamePeaks ==
    ASSUME TypeOK, \A p \in Positions : rec'[p].peak = rec[p].peak
    PROVE  PeakStep
  <1>1. \A p \in Positions : rec[p].peak >= rec[p].peak
    BY DEF TypeOK, Record
  <1>2. QED  BY <1>1 DEF PeakStep

LEMMA HandledPeaks ==
    ASSUME TypeOK, NEW S \in SUBSET ListedNow,
           rec' = [p \in Positions |->
                     IF p \in S THEN Handled(rec[p], snap[p]) ELSE rec[p]]
    PROVE  PeakStep
  <1>1. \A p \in Positions : rec'[p].peak >= rec[p].peak
    BY HandledRecords
  <1>2. ASSUME NEW p \in Positions, ~Relay
        PROVE  rec'[p].peak = rec[p].peak
    <2>1. CASE p \in S
      <3>1. rec'[p] = Handled(rec[p], snap[p])  BY <2>1
      <3>2. rec[p] \in Record /\ snap[p] \in Reading
        BY <2>1, ListedFacts DEF TypeOK
      <3>3. QED  BY <1>2, <3>1, <3>2, HandledPending
    <2>2. CASE p \notin S  BY <2>2
    <2>3. QED  BY <2>1, <2>2
  <1>3. QED  BY <1>1, <1>2 DEF PeakStep

LEMMA LoopPeaks ==
    ASSUME TypeOK, Management \/ Poller
    PROVE  PeakStep
  <1>1. CASE \/ ManagementCron \/ ManagementEmpty \/ LlmDone \/ LlmFails
             \/ ManagementAfter
             \/ HealthStart \/ HealthEnd \/ PollStart
             \/ \E p \in Positions : CloseSent(p)
    <2>1. rec' = rec
      BY <1>1
      DEF ManagementCron, ManagementEmpty, LlmDone, LlmFails, ManagementAfter,
          HealthStart, HealthEnd, PollStart, CloseSent
    <2>2. QED  BY <2>1, SamePeaks
  <1>2. CASE ManagementEvaluate \/ PollQuietly
    <2>1. HandleAll(ListedNow)
      BY <1>2 DEF ManagementEvaluate, PollQuietly
    <2>2. QED  BY <2>1, HandledPeaks DEF HandleAll
  <1>3. CASE ManagementThrows
    <2>1. PICK t \in ListedNow,
               S \in Prefixes({p \in ListedNow : Throws(p)}) :
             HandleAll(S \cup {t})
      BY <1>3 DEF ManagementThrows
    <2>2. S \cup {t} \in SUBSET ListedNow  BY <2>1 DEF Prefixes
    <2>3. QED  BY <2>1, <2>2, HandledPeaks DEF HandleAll
  <1>4. CASE PollAlerts
    <2>1. PICK b \in PollEnds, S \in Prefixes(PollEnds) : HandleAll(S \cup {b})
      BY <1>4 DEF PollAlerts
    <2>2. S \cup {b} \in SUBSET ListedNow  BY <2>1 DEF Prefixes, PollEnds
    <2>3. QED  BY <2>1, <2>2, HandledPeaks DEF HandleAll
  <1>5. CASE PollThrows
    <2>1. PICK t \in ListedNow, S \in Prefixes(PollEnds) :
             rec' = [p \in Positions |->
                       IF p \in S \cup {t} THEN Handled(rec[p], snap[p])
                       ELSE rec[p]]
      BY <1>5 DEF PollThrows
    <2> DEFINE T == S \cup {t}
    <2>2. T \in SUBSET ListedNow  BY <2>1 DEF Prefixes
    <2>3. QED  BY <2>1, <2>2, HandledPeaks
  <1>6. CASE CloseRecorded
    <2>1. /\ rec' = [rec EXCEPT ![closing] = recordClose(rec[closing])]
          /\ closing \in Positions
      BY <1>6 DEF CloseRecorded, TypeOK
    <2>2. recordClose(rec[closing]).peak = rec[closing].peak
      BY <2>1, CloseFacts DEF TypeOK
    <2>3. QED  BY <2>1, <2>2, SamePeaks DEF TypeOK
  <1>7. QED
    BY <1>1, <1>2, <1>3, <1>4, <1>5, <1>6 DEF Management, Poller

LEMMA RecheckPeaks ==
    ASSUME TypeOK, Rechecks
    PROVE  PeakStep
  <1>1. ASSUME NEW p \in Positions, PeakTimerFires(p) \/ DropTimerFires(p)
        PROVE  PeakStep
    BY <1>1, SamePeaks DEF PeakTimerFires, DropTimerFires
  <1>2. ASSUME NEW p \in Positions, PeakRecheck(p)
        PROVE  PeakStep
    <2> DEFINE q == resolvePendingPeak(rec[p], snap[p].pnl)
    <2>1. rec' = [rec EXCEPT ![p] = q] /\ PeakCheck(p) \in ready
      BY <1>2 DEF PeakRecheck, Consume
    <2>2. /\ q.peak >= rec[p].peak
          /\ q.peak # rec[p].peak =>
               rec[p].pendingPeak # NoPnl /\ q.peak >= rec[p].pendingPeak
      BY SnapFacts, ResolvePeakFacts, RecheckSettles DEF TypeOK
    <2> HIDE DEF q
    <2>3. /\ rec'[p] = q
          /\ \A x \in Positions : x # p => rec'[x] = rec[x]
      BY <2>1 DEF TypeOK
    <2>4. \A x \in Positions : rec[x].peak >= rec[x].peak
      BY DEF TypeOK, Record
    <2>5. QED  BY <2>1, <2>2, <2>3, <2>4 DEF PeakStep
  <1>3. ASSUME NEW p \in Positions, DropRecheck(p)
        PROVE  PeakStep
    <2>1. resolvePendingTrailingDrop(rec[p], snap[p].pnl).peak = rec[p].peak
      BY SnapFacts, ResolveDropFacts DEF TypeOK
    <2>2. \A x \in Positions : rec'[x].peak = rec[x].peak
      BY <1>3, <2>1 DEF DropRecheck, TypeOK
    <2>3. QED  BY <2>2, SamePeaks
  <1>4. QED  BY <1>1, <1>2, <1>3 DEF Rechecks

LEMMA ScanPeaks ==
    ASSUME TypeOK, ScanSucceeds
    PROVE  PeakStep
  <1>1. PICK s \in [Positions -> Readings \cup {Absent}] :
           rec' = Synced(s)
    BY DEF ScanSucceeds
  <1>2. ASSUME NEW p \in Positions  PROVE rec'[p].peak = rec[p].peak
    <2>1. rec[p] \in Record  BY DEF TypeOK
    <2>2. CASE Listed(s[p])
      <3>1. s[p] \in Reading  BY <2>2, LoopConstants DEF Listed
      <3>2. rec'[p] = markRange(rec[p], s[p])  BY <1>1, <2>2 DEF Synced
      <3>3. QED  BY <2>1, <3>1, <3>2, MarkFacts
    <2>3. CASE ~Listed(s[p])
      <3>1. rec'[p] = syncMissing(rec[p])  BY <1>1, <2>3 DEF Synced
      <3>2. QED  BY <2>1, <3>1, MissingFacts
    <2>4. QED  BY <2>2, <2>3
  <1>3. QED  BY <1>2, SamePeaks

LEMMA EnvironmentPeaks ==
    ASSUME TypeOK, ChainSafe, Environment
    PROVE  PeakStep
  <1>1. CASE \/ ScreeningStart \/ ScreeningEnd \/ CooldownEnds \/ Restart
             \/ \E p \in Positions : OpenedOutside(p) \/ ClosedOutside(p)
    <2>1. rec' = rec
      BY <1>1
      DEF ScreeningStart, ScreeningEnd, CooldownEnds, Restart, OpenedOutside,
          ClosedOutside
    <2>2. QED  BY <2>1, SamePeaks
  <1>2. ASSUME NEW p \in Positions, ScreeningDeploys(p)  PROVE PeakStep
    <2>1. rec[p].status # "open" /\ rec' = [rec EXCEPT ![p] = trackPosition]
      BY <1>2 DEF ScreeningDeploys, ChainSafe
    <2>2. \A x \in Positions : x # p => rec'[x] = rec[x]
      BY <2>1 DEF TypeOK
    <2>3. \A x \in Positions : rec[x].peak >= rec[x].peak
      BY DEF TypeOK, Record
    <2>4. QED  BY <2>1, <2>2, <2>3 DEF PeakStep
  <1>3. ASSUME NEW p \in Positions, ConfirmedExitExpires(p) \/ GraceEnds(p)
        PROVE  PeakStep
    <2>1. \A x \in Positions : rec[x] \in Record  BY DEF TypeOK
    <2>2. \A x \in Positions : rec'[x].peak = rec[x].peak
      BY <1>3, <2>1 DEF ConfirmedExitExpires, GraceEnds, TypeOK, Record
    <2>3. QED  BY <2>2, SamePeaks
  <1>4. QED  BY <1>1, <1>2, <1>3 DEF Environment

\* A recorded peak never falls, and without the relay only a recheck raises it,
\* to at least the pending peak it confirmed.
THEOREM PeakCorrect == Spec => PeakRisesByRecheck
  <1>1. ASSUME TypeOK, ChainSafe, [Next]_vars
        PROVE  [PeakStep]_vars
    <2>1. CASE ScanSucceeds  BY <1>1, <2>1, ScanPeaks
    <2>2. CASE ScanFails
      BY <1>1, <2>2, SamePeaks DEF ScanFails
    <2>3. CASE Management \/ Poller  BY <1>1, <2>3, LoopPeaks
    <2>4. CASE Rechecks  BY <1>1, <2>4, RecheckPeaks
    <2>5. CASE Environment  BY <1>1, <2>5, EnvironmentPeaks
    <2>6. QED  BY <1>1, <2>1, <2>2, <2>3, <2>4, <2>5 DEF Next
  <1>2. Init => ChainSafe
    BY DEF Init, ChainSafe, ClosedIsClosedOnChain, Blank
  <1>3. Spec => []ChainSafe
    BY <1>2, ChainStep, TypeCorrect, PTL DEF Spec
  <1>4. Spec => [][PeakStep]_vars
    BY <1>1, <1>3, TypeCorrect, PTL DEF Spec
  <1>5. QED  BY <1>4 DEF PeakRisesByRecheck, PeakStep

-----------------------------------------------------------------------------
(* Stop losses *)

\* Only a missing PnL, at a peak high enough for a drop from it, makes the code
\* that judges a position throw.
LEMMA ThrowsAtGap ==
    ASSUME TypeOK, NEW p \in ListedNow, Throws(p)
    PROVE  HasGap(p)
  <1> DEFINE q == AfterPeak(rec[p], snap[p])
             u == UpdatedRecord(q, snap[p])
  <1>1. CheckExits(q, snap[p]) = "THROWS"  BY DEF Throws, ExitOf
  <1> HIDE DEF q
  <1>2. q.status = "open" /\ Dropped(u, snap[p]) /\ snap[p].pnl = NoPnl
    BY <1>1 DEF CheckExits
  <1>3. q = rec[p]
    BY <1>2 DEF q, AfterPeak, queuePeakConfirmation, QueuesPeak
  <1>4. rec[p] \in Record  BY DEF TypeOK, ListedNow
  <1>5. u.peak = rec[p].peak
    BY <1>3, <1>4 DEF UpdatedRecord, Record
  <1> HIDE DEF u
  <1>6. rec[p].peak >= DropPct
    BY <1>2, <1>4, <1>5, ExitConstants DEF Dropped, Record
  <1>7. QED  BY <1>2, <1>3, <1>6 DEF HasGap

\* At its stop loss an open position is chosen for a close, by that exit or by
\* the confirmed trailing exit looked at before it.
LEMMA StopLossChosen ==
    ASSUME TypeOK, NEW p \in ListedNow, rec[p].status = "open",
           AtStopLoss(snap[p])
    PROVE  ChosenAction(p) \in Closes
  <1> DEFINE q == AfterPeak(rec[p], snap[p])
  <1>1. q.status = "open"
    BY ListedFacts, AfterPeakFacts DEF TypeOK
  <1> HIDE DEF q
  <1>2. CheckExits(q, snap[p]) \in {"STOP_LOSS", "TRAILING_TP"}
    BY <1>1 DEF CheckExits
  <1>3. ExitOf(rec[p], snap[p]) \in {"STOP_LOSS", "TRAILING_TP"}
    BY <1>2 DEF ExitOf, q
  <1>4. QED  BY <1>3 DEF ChosenAction, NeedsRecheck, Closes, Exits

\* What StopLossSelected says of one step.
JudgeStep ==
    ManagementJudges =>
      \/ \A p \in AtItsStopLoss : actions'[p] \in Closes
      \/ \E q \in ListedNow : HasGap(q)

LEMMA StopLossStep == TypeOK => JudgeStep
  <1> SUFFICES ASSUME TypeOK, ManagementJudges
               PROVE  \/ \A p \in AtItsStopLoss : actions'[p] \in Closes
                      \/ \E q \in ListedNow : HasGap(q)
    BY DEF JudgeStep
  <1>1. CASE ManagementEmpty
    BY <1>1 DEF ManagementEmpty, AtItsStopLoss
  <1>2. CASE ManagementEvaluate
    <2>1. ASSUME NEW p \in AtItsStopLoss  PROVE actions'[p] \in Closes
      <3>1. p \in ListedNow /\ rec[p].status = "open" /\ AtStopLoss(snap[p])
        BY DEF AtItsStopLoss
      <3>2. actions'[p] = ChosenAction(p)
        BY <1>2, <3>1, ListedFacts DEF ManagementEvaluate
      <3>3. QED  BY <3>1, <3>2, StopLossChosen
    <2>2. QED  BY <2>1
  <1>3. CASE ManagementThrows
    <2>1. PICK t \in ListedNow : Throws(t)
      BY <1>3 DEF ManagementThrows
    <2>2. QED  BY <2>1, ThrowsAtGap
  <1>4. QED  BY <1>1, <1>2, <1>3 DEF ManagementJudges

\* A cycle of runManagementCycle chooses every open position at its stop loss for a
\* close, unless the scan also lists an open position whose PnL is missing and
\* whose peak is high enough for the trailing drop to be judged by it.
THEOREM StopLossCorrect == Spec => StopLossSelected
  <1>1. TypeOK /\ [Next]_vars => [JudgeStep]_vars
    BY StopLossStep
  <1>2. Spec => [][JudgeStep]_vars
    BY <1>1, TypeCorrect, PTL DEF Spec
  <1>3. QED  BY <1>2 DEF StopLossSelected, JudgeStep
=============================================================================
