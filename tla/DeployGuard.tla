----------------------------- MODULE DeployGuard -----------------------------
(***************************************************************************)
(* The path of a deploy_position call: agentLoop (agent.js) -> executeTool *)
(* and runSafetyChecks (tools/executor.js) -> deployPosition               *)
(* (tools/dlmm.js), with getMyPositions, whose scan in flight is shared by *)
(* every caller, and the registry of state.js it reconciles.               *)
(*                                                                         *)
(* The process is one event loop: everything between two awaits is one     *)
(* action, and anything may run during an await.  Several sessions exist   *)
(* (the screening cycle, a chat, a command); no lock covers them all.      *)
(* Live mode, closes by the local path. A deploy is one position, opened   *)
(* by one or more transactions, each of which has landed or never will     *)
(* when the call is over. The five-minute cache answers only unforced      *)
(* reads, none of which a deploy makes, and is left out.                   *)
(***************************************************************************)
EXTENDS Naturals, FiniteSets

CONSTANTS
    Pool,           \* pools
    NoPool, Gone,   \* no pool yet, and no pool any more
    Token, TokenOf, \* base tokens, and the one of each pool
    Id, NoId,       \* addresses of positions, one per keypair generated
    Session,        \* agent sessions
    MaxCalls,       \* bound: tool calls in one model message
    MaxPositions,   \* risk.maxPositions
    MaxUnderWay     \* bound: calls under way at a time, over all sessions

ASSUME GuardConstants ==
    /\ NoPool \notin Pool /\ Gone \notin Pool /\ Gone # NoPool
    /\ NoId \notin Id
    /\ TokenOf \in [Pool -> Token]
    /\ IsFiniteSet(Id)
    /\ MaxPositions \in Nat \ {0} /\ MaxCalls \in Nat

VARIABLES
    place,      \* [Id -> Pool, NoPool or Gone], where a position is open on chain
    tracked,    \* [Id -> the status in state.json]
    scan,       \* _positionsInflight, and the pool of each position it lists
    fired,      \* [Session -> BOOLEAN], firedOnce holds deploy_position
    call,       \* [Call -> the state of a deploy_position call]
    opened,     \* history: [Session -> BOOLEAN], the current run opened a position
    happened    \* history: the worst that has weakened a check so far:
                \* "nothing", then "unnamed", then "unsure"

vars == <<place, tracked, scan, fired, call, opened, happened>>

Slot == 1..MaxCalls
Call == Session \X Slot
Nothing == [i \in Id |-> NoPool]
Listed(L) == {i \in Id : L[i] # NoPool}
NoScan == [at |-> "none", list |-> Nothing]
Idle == [at |-> "idle", pool |-> NoPool, named |-> FALSE, id |-> NoId]
Called == [Idle EXCEPT !.at = "called"]
Opened(i) == place[i] # NoPool
open == {i \in Id : place[i] \in Pool}

Init ==
    /\ place = [i \in Id |-> NoPool]
    /\ tracked = [i \in Id |-> "no"]
    /\ scan = NoScan
    /\ fired = [s \in Session |-> FALSE]
    /\ call = [c \in Call |-> Idle]
    /\ opened = [s \in Session |-> FALSE]
    /\ happened = "nothing"

-----------------------------------------------------------------------------
(* agentLoop *)

\* A new run of a session: its lock is empty.
SessionStarts(s) ==
    /\ fired[s] /\ \A k \in Slot : call[<<s, k>>] = Idle
    /\ fired' = [fired EXCEPT ![s] = FALSE]
    /\ opened' = [opened EXCEPT ![s] = FALSE]
    /\ UNCHANGED <<place, tracked, scan, call, happened>>

UnderWay == {c \in Call : call[c] # Idle}

\* A model message whose n calls all deploy.  They run in parallel, and each
\* looks at firedOnce before any of them has an outcome.  The arguments of a
\* call are chosen where they are first told apart, in CheckScans.
ModelCalls(s) ==
    /\ ~fired[s] /\ \A k \in Slot : call[<<s, k>>] = Idle
    /\ \E n \in Slot :
          /\ Cardinality(UnderWay) + n <= MaxUnderWay
          /\ call' = [c \in Call |->
                        IF c[1] = s /\ c[2] <= n THEN Called ELSE call[c]]
    /\ UNCHANGED <<place, tracked, scan, opened, fired, happened>>

\* Mutant: the lock close_position has, on success only.
Locks_onSuccess(S, success) ==
    [s \in Session |-> fired[s] \/ (success /\ \E c \in S : c[1] = s)]

\* The results of the calls S are back.  close_position and swap_token lock
\* on success; deploy_position locks whatever the outcome.
Locks(S, success) == [s \in Session |-> fired[s] \/ \E c \in S : c[1] = s]

Returns(c, success) ==
    /\ call' = [call EXCEPT ![c] = Idle]
    /\ fired' = Locks({c}, success)

-----------------------------------------------------------------------------
(* runSafetyChecks *)

\* Mode gate, pool thresholds, bin step, range, amounts, balance; then, in
\* deployPosition, cooldowns and arguments.  None changes state.
Refuses(c) ==
    /\ call[c].at \in {"called", "passed"}
    /\ Returns(c, FALSE)
    /\ UNCHANGED <<place, tracked, scan, opened, happened>>

Unsettled == {c \in Call : call[c].at \in {"scanning", "passed"}}

\* A check is unsure when another deploy is between its check and its
\* transaction, or when the scan it joins was answered without a position
\* that is open now.
Unsure == \/ Unsettled # {}
          \/ scan.at = "read" /\ ~(open \subseteq Listed(scan.list))

Weakened(unsure) == IF unsure THEN "unsure" ELSE happened

\* What a check that names its token, or not, leaves of the guarantees.
Weakens(named) == IF ~Unsure /\ ~named /\ happened = "nothing" THEN "unnamed"
                  ELSE Weakened(Unsure)

\* getMyPositions({ force: true }): joins the scan in flight, or starts one.
CheckScans(c) ==
    /\ call[c].at = "called"
    /\ \E p \in Pool, named \in BOOLEAN :
          /\ call' = [call EXCEPT ![c] = [at |-> "scanning", pool |-> p,
                                          named |-> named, id |-> NoId]]
          /\ happened' = Weakens(named)
    /\ scan' = IF scan.at = "none" THEN [NoScan EXCEPT !.at = "asked"] ELSE scan
    /\ UNCHANGED <<place, tracked, opened, fired>>

\* Mutant: the limit itself is let through.
Blocked_overLimit(c, L) ==
    \/ Cardinality(Listed(L)) > MaxPositions
    \/ \E i \in Listed(L) : L[i] = call[c].pool
    \/ call[c].named /\ \E i \in Listed(L) : TokenOf[L[i]] = TokenOf[call[c].pool]

\* Mutant: only the pool is compared.
Blocked_poolOnly(c, L) ==
    \/ Cardinality(Listed(L)) >= MaxPositions
    \/ \E i \in Listed(L) : L[i] = call[c].pool

Blocked(c, L) ==
    \/ Cardinality(Listed(L)) >= MaxPositions
    \/ \E i \in Listed(L) : L[i] = call[c].pool
    \/ call[c].named /\ \E i \in Listed(L) : TokenOf[L[i]] = TokenOf[call[c].pool]

Scanning == {c \in Call : call[c].at = "scanning"}

\* What the call named is not read again.
Passed(r) == [r EXCEPT !.at = "passed", !.named = FALSE]

\* Every call that awaits the scan goes on with the list L.
Resume(L) ==
    LET refused == {c \in Scanning : Blocked(c, L)} IN
    /\ call' = [c \in Call |->
                  IF c \in refused THEN Idle
                  ELSE IF c \in Scanning THEN Passed(call[c]) ELSE call[c]]
    /\ fired' = Locks(refused, FALSE)

-----------------------------------------------------------------------------
(* getMyPositions *)

\* The poller, the management cycle, a recheck, a command.
OthersScan ==
    /\ scan.at = "none"
    /\ scan' = [NoScan EXCEPT !.at = "asked"]
    /\ UNCHANGED <<place, tracked, fired, call, opened, happened>>

\* The portfolio API answers, possibly without positions it has not indexed
\* yet; the details of each position follow.
ScanReads ==
    /\ scan.at = "asked"
    /\ \E late \in SUBSET {i \in open : tracked[i] \in {"no", "fresh"}} :
          /\ scan' = [at |-> "read",
                      list |-> [i \in Id |-> IF i \in open \ late THEN place[i]
                                             ELSE NoPool]]
          /\ happened' = Weakened(late # {} /\ Scanning # {})
    /\ UNCHANGED <<place, tracked, fired, call, opened>>

\* Mutant: no grace period.
syncOpenPositions_noGrace(L) ==
    [i \in Id |-> IF tracked[i] \in {"fresh", "open"} /\ i \notin Listed(L)
                  THEN "closed" ELSE tracked[i]]

\* A record missing from the list is closed, unless younger than 5 minutes.
syncOpenPositions(L) ==
    [i \in Id |-> IF tracked[i] = "open" /\ i \notin Listed(L)
                  THEN "closed" ELSE tracked[i]]

ScanFinishes ==
    /\ scan.at = "read"
    /\ scan' = NoScan
    /\ tracked' = syncOpenPositions(scan.list)
    /\ Resume(scan.list)
    /\ UNCHANGED <<place, opened, happened>>

\* Any failure is answered with an empty list, and nothing is reconciled.
ScanFails ==
    /\ scan.at # "none"
    /\ scan' = NoScan
    /\ Resume(Nothing)
    /\ happened' = Weakened(Scanning # {})
    /\ UNCHANGED <<place, tracked, opened>>

-----------------------------------------------------------------------------
(* deployPosition *)

\* The transaction that creates the position lands.
Lands(c) ==
    /\ call[c].at = "passed"
    /\ \E i \in Id :
          /\ ~Opened(i)
          /\ place' = [place EXCEPT ![i] = call[c].pool]
          /\ opened' = [opened EXCEPT ![c[1]] = TRUE]
          /\ call' = [call EXCEPT ![c].at = "landed", ![c].id = i]
    /\ UNCHANGED <<tracked, scan, fired, happened>>

\* All transactions are confirmed: the record is written.
DeploySucceeds(c) ==
    /\ call[c].at = "landed"
    /\ tracked' = [tracked EXCEPT ![call[c].id] = "fresh"]
    /\ Returns(c, TRUE)
    /\ UNCHANGED <<place, scan, opened, happened>>

\* A transaction fails, or its confirmation is lost.  What landed before it
\* stays on chain without a record.
DeployErrors(c) ==
    /\ call[c].at \in {"passed", "landed"}
    /\ Returns(c, FALSE)
    /\ UNCHANGED <<place, tracked, scan, opened, happened>>

-----------------------------------------------------------------------------
(* What goes on beside the deploys. *)

\* closePosition, or the owner by hand.
Closes(i) ==
    /\ i \in open
    /\ place' = [place EXCEPT ![i] = Gone]
    /\ UNCHANGED <<tracked, scan, fired, call, opened, happened>>

\* recordClose, after the transactions of a close are confirmed.
CloseRecorded(i) ==
    /\ i \notin open /\ tracked[i] \in {"fresh", "open"}
    /\ tracked' = [tracked EXCEPT ![i] = "closed"]
    /\ UNCHANGED <<place, scan, fired, call, opened, happened>>

\* Five minutes after the deploy: a scan answered without the position has
\* finished, and the next is answered with it.
GraceEnds(i) ==
    /\ tracked[i] = "fresh"
    /\ ~(scan.at = "read" /\ i \in open \ Listed(scan.list))
    /\ tracked' = [tracked EXCEPT ![i] = "open"]
    /\ UNCHANGED <<place, scan, fired, call, opened, happened>>

\* The process is killed and started again.
Crash ==
    /\ scan' = NoScan
    /\ fired' = [s \in Session |-> FALSE]
    /\ call' = [c \in Call |-> Idle]
    /\ opened' = [s \in Session |-> FALSE]
    /\ UNCHANGED <<place, tracked, happened>>

CallStep(c) == \/ Refuses(c) \/ CheckScans(c) \/ Lands(c)
               \/ DeploySucceeds(c) \/ DeployErrors(c)

Next ==
    \/ \E s \in Session : SessionStarts(s) \/ ModelCalls(s)
    \/ \E c \in Call : CallStep(c)
    \/ OthersScan \/ ScanReads \/ ScanFinishes \/ ScanFails
    \/ \E i \in Id : Closes(i) \/ CloseRecorded(i) \/ GraceEnds(i)
    \/ Crash

Spec == Init /\ [][Next]_vars

-----------------------------------------------------------------------------
(* Properties. *)

CallState == [at : {"idle", "called", "scanning", "passed", "landed"},
              pool : Pool \cup {NoPool}, named : BOOLEAN, id : Id \cup {NoId}]

\* Every variable has the shape the code gives it; a call that
\* has landed names its position.
TypeOK ==
    /\ place \in [Id -> Pool \cup {NoPool, Gone}]
    /\ tracked \in [Id -> {"no", "fresh", "open", "closed"}]
    /\ scan \in [at : {"none", "asked", "read"}, list : [Id -> Pool \cup {NoPool}]]
    /\ fired \in [Session -> BOOLEAN]
    /\ call \in [Call -> CallState]
    /\ \A c \in Call : call[c] \in {Idle, Called} \/ call[c].pool \in Pool
    /\ \A c \in Call :
          call[c].at = "landed" => call[c].id \in Id /\ Opened(call[c].id)
    /\ opened \in [Session -> BOOLEAN]
    /\ happened \in {"nothing", "unnamed", "unsure"}

\* "Max positions reached": as long as no check was answered by a failing API
\* or without a position that was open, or ran while another deploy was
\* between its check and its transaction, no more positions are open than
\* risk.maxPositions, whatever closes, fails, or is killed meanwhile.
CapHolds ==
    happened # "unsure" => Cardinality(open) <= MaxPositions

\* "One position per token only": under the same conditions, and when every
\* call names its base token, no token is held by two open positions.
OnePerToken ==
    happened = "nothing" =>
        \A i, j \in open : i # j => TokenOf[place[i]] # TokenOf[place[j]]

Begins(c) == call[c] = Idle /\ call'[c] # Idle

\* A deploy is never retried: once a session has opened a position, no call of
\* a later message begins, also when the deploy that landed was reported as
\* failed and the calls beside it in its message were refused or are pending.
OneMessageOpens == [][\A c \in Call : Begins(c) => ~opened[c[1]]]_vars

\* What the comment at agent.js:237 promises: the model cannot deploy twice.
\* Two calls of one message can, since the lock comes with the first outcome.
SessionOpensOne ==
    [][\A c \in Call : call[c].id = NoId /\ call'[c].id # NoId => ~opened[c[1]]]_vars

\* A position open on chain is never written off as closed in state.json,
\* although a scan answered without the position may be reconciled after it.
OpenIsNotWrittenOff == \A i \in open : tracked[i] # "closed"

=============================================================================
