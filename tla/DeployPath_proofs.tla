-------------------------- MODULE DeployPath_proofs --------------------------
(***************************************************************************)
(* Proofs about the two parts of the path of a deploy.  DeployGuard:       *)
(* well-formed state, the registry that writes off nothing open, the limit *)
(* on open positions, and one position per token.  AgentLoop, for any      *)
(* number of steps and of calls per message: well-formed state, the lock   *)
(* on destructive tools, the bound on requests, and what the screening     *)
(* cycle notes.                                                            *)
(***************************************************************************)
EXTENDS DeployGuard, AgentLoop, FiniteSetTheorems, TLAPS

-----------------------------------------------------------------------------
(* Types. *)

LEMMA InitTyped == Init => TypeOK
    BY DEF Init, TypeOK, CallState, Idle, NoScan, Nothing, Opened, Call

\* The outcome of a list: refused calls are idle, the others go on.
LEMMA ResumeTyped ==
    ASSUME TypeOK, NEW L, Resume(L)
    PROVE  /\ call' \in [Call -> CallState]
           /\ fired' \in [Session -> BOOLEAN]
           /\ \A c \in Call : \/ call'[c] = Idle
                              \/ call'[c] = call[c] /\ c \notin Scanning
                              \/ /\ c \in Scanning /\ ~Blocked(c, L)
                                 /\ call'[c] = Passed(call[c])
<1> DEFINE refused == {c \in Scanning : Blocked(c, L)}
<1>1. /\ call' = [c \in Call |->
                  IF c \in refused THEN Idle
                  ELSE IF c \in Scanning THEN Passed(call[c]) ELSE call[c]]
      /\ fired' = Locks(refused, FALSE)
    BY DEF Resume
<1>2. fired' \in [Session -> BOOLEAN]
    BY <1>1 DEF Locks, TypeOK
<1>3. \A c \in Call : Passed(call[c]) \in CallState
    BY DEF TypeOK, CallState, Passed
<1>4. Idle \in CallState
    BY DEF Idle, CallState
<1>5. call' \in [Call -> CallState]
    BY <1>1, <1>3, <1>4 DEF TypeOK
<1>6. refused \subseteq Scanning
    OBVIOUS
<1>7. \A c \in Scanning : c \notin refused => ~Blocked(c, L)
    OBVIOUS
<1> HIDE DEF refused
<1> QED
    BY <1>1, <1>2, <1>5, <1>6, <1>7

LEMMA StepTyped == TypeOK /\ [Next]_vars => TypeOK'
<1> SUFFICES ASSUME TypeOK, [Next]_vars PROVE TypeOK'
    OBVIOUS
<1>1. ASSUME NEW s \in Session, SessionStarts(s) PROVE TypeOK'
    BY <1>1 DEF SessionStarts, TypeOK, Opened
<1>2. ASSUME NEW s \in Session, ModelCalls(s) PROVE TypeOK'
    <2>1. /\ \A c \in Call : call'[c] = call[c] \/ call'[c] = Called
          /\ DOMAIN call' = Call /\ call' = [c \in Call |-> call'[c]]
        BY <1>2 DEF ModelCalls
    <2>2. Called \in CallState /\ Called.at = "called"
        BY DEF Called, Idle, CallState
    <2>3. call' \in [Call -> CallState]
        BY <2>1, <2>2 DEF TypeOK
    <2> QED
        BY <1>2, <2>1, <2>2, <2>3 DEF ModelCalls, TypeOK, Opened
<1>3. ASSUME NEW c \in Call, Refuses(c) PROVE TypeOK'
    BY <1>3 DEF Refuses, Returns, Locks, TypeOK, CallState, Idle, Opened
<1>4. ASSUME NEW c \in Call, CheckScans(c) PROVE TypeOK'
    <2>1. PICK p \in Pool, named \in BOOLEAN :
             /\ call' = [call EXCEPT ![c] = [at |-> "scanning", pool |-> p,
                                            named |-> named, id |-> NoId]]
             /\ happened' = Weakens(named)
        BY <1>4 DEF CheckScans
    <2>2. scan' \in [at : {"none", "asked", "read"}, list : [Id -> Pool \cup {NoPool}]]
        BY <1>4 DEF CheckScans, TypeOK, NoScan, Nothing
    <2>3. happened' \in {"nothing", "unnamed", "unsure"}
        BY <2>1 DEF TypeOK, Weakens, Weakened
    <2>4. /\ call' \in [Call -> CallState]
          /\ \A d \in Call : d # c => call'[d] = call[d]
          /\ call'[c].pool \in Pool /\ call'[c].at = "scanning"
        BY <2>1 DEF TypeOK, CallState
    <2> QED
        BY <1>4, <2>2, <2>3, <2>4 DEF CheckScans, TypeOK, Opened
<1>5. ASSUME NEW c \in Call, Lands(c) PROVE TypeOK'
    <2>1. PICK i \in Id :
             /\ ~Opened(i)
             /\ place' = [place EXCEPT ![i] = call[c].pool]
             /\ opened' = [opened EXCEPT ![c[1]] = TRUE]
             /\ call' = [call EXCEPT ![c].at = "landed", ![c].id = i]
        BY <1>5 DEF Lands
    <2>2. call[c].pool \in Pool
        BY <1>5 DEF Lands, TypeOK, Idle, Called
    <2>3. place' \in [Id -> Pool \cup {NoPool, Gone}] /\ place'[i] # NoPool
        BY <2>1, <2>2, GuardConstants DEF TypeOK
    <2>4. \A j \in Id : Opened(j) => Opened(j)'
        BY <2>1, <2>3 DEF TypeOK, Opened
    <2>5. /\ call' \in [Call -> CallState]
          /\ \A d \in Call : d # c => call'[d] = call[d]
          /\ call'[c].id = i /\ call'[c].pool = call[c].pool
        BY <2>1 DEF TypeOK, CallState
    <2>6. opened' \in [Session -> BOOLEAN]
        BY <2>1 DEF TypeOK
    <2>7. \A d \in Call :
             call'[d].at = "landed" => call'[d].id \in Id /\ place'[call'[d].id] # NoPool
        BY <2>1, <2>3, <2>4, <2>5 DEF TypeOK, Opened
    <2> QED
        BY <1>5, <2>2, <2>3, <2>5, <2>6, <2>7 DEF Lands, TypeOK, Opened
<1>6. ASSUME NEW c \in Call, DeploySucceeds(c) PROVE TypeOK'
    BY <1>6 DEF DeploySucceeds, Returns, Locks, TypeOK, CallState, Idle, Opened
<1>7. ASSUME NEW c \in Call, DeployErrors(c) PROVE TypeOK'
    BY <1>7 DEF DeployErrors, Returns, Locks, TypeOK, CallState, Idle, Opened
<1>8. CASE OthersScan \/ ScanReads
    <2>1. scan' \in [at : {"none", "asked", "read"}, list : [Id -> Pool \cup {NoPool}]]
        BY <1>8 DEF OthersScan, ScanReads, TypeOK, NoScan, Nothing, open
    <2>2. happened' \in {"nothing", "unnamed", "unsure"}
        BY <1>8 DEF OthersScan, ScanReads, TypeOK, Weakened
    <2> QED
        BY <1>8, <2>1, <2>2 DEF OthersScan, ScanReads, TypeOK, Opened
<1>9. ASSUME NEW L, Resume(L), UNCHANGED <<place, opened>>
      PROVE  /\ call' \in [Call -> CallState]
             /\ fired' \in [Session -> BOOLEAN]
             /\ \A c \in Call : call'[c] \in {Idle, Called} \/ call'[c].pool \in Pool
             /\ \A c \in Call : call'[c].at = "landed" =>
                                  call'[c].id \in Id /\ place'[call'[c].id] # NoPool
    <2>1. \A c \in Call : \/ call'[c] = Idle
                          \/ call'[c] = call[c]
                          \/ /\ c \in Scanning
                             /\ call'[c] = Passed(call[c])
        BY <1>9, ResumeTyped
    <2>2. \A c \in Scanning : call[c] \notin {Idle, Called}
        BY DEF Scanning, Idle, Called
    <2>3. Idle.at = "idle"
        BY DEF Idle
    <2>4. \A c \in Call : Passed(call[c]).at = "passed"
                          /\ Passed(call[c]).pool = call[c].pool
        BY DEF TypeOK, CallState, Passed
    <2> QED
        BY <1>9, <2>1, <2>2, <2>3, <2>4, ResumeTyped
           DEF TypeOK, Opened, Scanning
<1>10. CASE ScanFinishes
    <2>1. tracked' \in [Id -> {"no", "fresh", "open", "closed"}]
        BY <1>10 DEF ScanFinishes, syncOpenPositions, TypeOK
    <2> QED
        BY <1>9, <1>10, <2>1 DEF ScanFinishes, TypeOK, NoScan, Nothing, Opened
<1>11. CASE ScanFails
    BY <1>9, <1>11 DEF ScanFails, TypeOK, NoScan, Nothing, Opened, Weakened
<1>12. ASSUME NEW i \in Id, Closes(i) \/ CloseRecorded(i) \/ GraceEnds(i)
       PROVE  TypeOK'
    BY <1>12, GuardConstants DEF Closes, CloseRecorded, GraceEnds, TypeOK, Opened
<1>13. CASE Crash
    BY <1>13 DEF Crash, TypeOK, CallState, Idle, NoScan, Nothing, Opened
<1>14. CASE UNCHANGED vars
    BY <1>14 DEF vars, TypeOK, Opened
<1> QED
    BY <1>1, <1>2, <1>3, <1>4, <1>5, <1>6, <1>7, <1>8, <1>10, <1>11, <1>12,
       <1>13, <1>14 DEF Next, CallStep

\* Every reachable state has the shape the code gives it.
THEOREM TypeCorrect == Spec => []TypeOK
    BY InitTyped, StepTyped, PTL DEF Spec


-----------------------------------------------------------------------------
(* The registry. *)

\* A scan knows every open position whose record it may close: what landed
\* after it read is younger than the grace period.
RegistryInv ==
    /\ \A i \in Id : ~Opened(i) => tracked[i] = "no"
    /\ \A i \in open : tracked[i] # "closed"
    /\ scan.at = "read" =>
          \A i \in open : tracked[i] = "open" => i \in Listed(scan.list)

LEMMA InitRegistry == Init => RegistryInv
    BY GuardConstants DEF Init, RegistryInv, Opened, NoScan, open

LEMMA StepRegistry == TypeOK /\ RegistryInv /\ [Next]_vars => RegistryInv'
<1> SUFFICES ASSUME TypeOK, RegistryInv, [Next]_vars PROVE RegistryInv'
    OBVIOUS
<1> USE DEF RegistryInv, Opened, open, Listed
<1>1. ASSUME NEW s \in Session, SessionStarts(s) \/ ModelCalls(s)
      PROVE  RegistryInv'
    BY <1>1 DEF SessionStarts, ModelCalls
<1>2. ASSUME NEW c \in Call, Refuses(c) \/ DeployErrors(c) PROVE RegistryInv'
    BY <1>2 DEF Refuses, DeployErrors
<1>3. ASSUME NEW c \in Call, CheckScans(c) PROVE RegistryInv'
    BY <1>3 DEF CheckScans, NoScan
<1>4. ASSUME NEW c \in Call, Lands(c) PROVE RegistryInv'
    <2>1. PICK i \in Id :
             /\ ~Opened(i)
             /\ place' = [place EXCEPT ![i] = call[c].pool]
             /\ tracked' = tracked /\ scan' = scan
        BY <1>4 DEF Lands
    <2>2. tracked[i] = "no"
        BY <2>1
    <2>3. call[c].pool \in Pool
        BY <1>4 DEF Lands, TypeOK, Idle, Called
    <2>4. \A j \in Id : j # i => place'[j] = place[j]
        BY <2>1 DEF TypeOK
    <2> QED
        BY <2>1, <2>2, <2>3, <2>4, GuardConstants DEF TypeOK
<1>5. ASSUME NEW c \in Call, DeploySucceeds(c) PROVE RegistryInv'
    <2>1. call[c].id \in Id /\ Opened(call[c].id)
        BY <1>5 DEF DeploySucceeds, TypeOK
    <2>2. /\ tracked' = [tracked EXCEPT ![call[c].id] = "fresh"]
          /\ UNCHANGED <<place, scan>>
        BY <1>5 DEF DeploySucceeds
    <2> QED
        BY <2>1, <2>2 DEF TypeOK
<1>6. CASE OthersScan \/ ScanReads
    BY <1>6, GuardConstants DEF OthersScan, ScanReads, NoScan, TypeOK
<1>7. CASE ScanFinishes
    BY <1>7 DEF ScanFinishes, syncOpenPositions, NoScan, TypeOK
<1>8. CASE ScanFails
    BY <1>8 DEF ScanFails, NoScan
<1>9. ASSUME NEW i \in Id, Closes(i) PROVE RegistryInv'
    BY <1>9, GuardConstants DEF Closes, TypeOK
<1>10. ASSUME NEW i \in Id, CloseRecorded(i) PROVE RegistryInv'
    BY <1>10 DEF CloseRecorded, TypeOK
<1>11. ASSUME NEW i \in Id, GraceEnds(i) PROVE RegistryInv'
    BY <1>11 DEF GraceEnds, TypeOK
<1>12. CASE Crash
    BY <1>12 DEF Crash, NoScan
<1>13. CASE UNCHANGED vars
    BY <1>13 DEF vars
<1> QED
    BY <1>1, <1>2, <1>3, <1>4, <1>5, <1>6, <1>7, <1>8, <1>9, <1>10, <1>11,
       <1>12, <1>13 DEF Next, CallStep

\* No open position is written off, in every instance of the system.
THEOREM RegistryCorrect == Spec => []OpenIsNotWrittenOff
<1>1. RegistryInv => OpenIsNotWrittenOff
    BY DEF RegistryInv, OpenIsNotWrittenOff
<1> QED
    BY <1>1, InitTyped, StepTyped, InitRegistry, StepRegistry, PTL DEF Spec

-----------------------------------------------------------------------------
(* The limit and the tokens. *)

\* A list shows a position, if at all, in the pool it was opened in.
ListInv ==
    \A i \in Listed(scan.list) :
        Opened(i) /\ (i \in open => place[i] = scan.list[i])

\* As long as no check was unsure, one deploy at a time is between its check
\* and its transaction, its scan misses no open position, and it passes only
\* where there is room.
CapInv ==
    happened # "unsure" =>
        /\ Cardinality(open) <= MaxPositions
        /\ \A c, d \in Unsettled : c = d
        /\ \A c \in Call : call[c].at = "passed" => Cardinality(open) < MaxPositions
        /\ \A c \in Scanning : /\ scan.at # "none"
                               /\ scan.at = "read" =>
                                     open \subseteq Listed(scan.list)

\* When every call names its token, no call that passed has the token of an
\* open position.
TokenInv ==
    happened = "nothing" =>
        /\ OnePerToken
        /\ \A c \in Scanning : call[c].named
        /\ \A c \in Call : call[c].at = "passed" =>
              \A i \in open : TokenOf[place[i]] # TokenOf[call[c].pool]

GuardInv == ListInv /\ CapInv /\ TokenInv

LEMMA OpenFinite ==
    ASSUME TypeOK
    PROVE  /\ IsFiniteSet(open)
           /\ Cardinality(open) \in Nat
           /\ \A S \in SUBSET open : IsFiniteSet(S) /\ Cardinality(S) \in Nat
                                     /\ Cardinality(S) <= Cardinality(open)
<1>1. open \subseteq Id
    BY DEF open
<1>2. IsFiniteSet(open)
    BY <1>1, FS_Subset, GuardConstants
<1>3. \A S \in SUBSET open : IsFiniteSet(S) /\ Cardinality(S) <= Cardinality(open)
    BY <1>2, FS_Subset
<1> QED
    BY <1>2, <1>3, FS_CardinalityType

LEMMA InitGuard == Init => GuardInv
<1> SUFFICES ASSUME Init PROVE GuardInv
    OBVIOUS
<1>1. Cardinality(open) = 0 /\ open = {}
    BY FS_EmptySet, GuardConstants DEF Init, open
<1>2. \A c \in Call : call[c].at = "idle"
    BY DEF Init, Idle
<1>3. ListInv
    BY DEF Init, NoScan, Nothing, ListInv, Listed
<1> QED
    BY <1>1, <1>2, <1>3, GuardConstants
       DEF GuardInv, CapInv, TokenInv, OnePerToken, Unsettled, Scanning

\* No call goes on, and nothing opens: the guard keeps its word.
LEMMA GuardKept ==
    ASSUME TypeOK, GuardInv,
           \A c \in Call : \/ call'[c] = call[c]
                           \/ call'[c].at \notin {"scanning", "passed"},
           \/ scan' = scan
           \/ scan' = NoScan /\ \A c \in Call : call'[c].at # "scanning",
           \A i \in Id : \/ place'[i] = place[i]
                         \/ place[i] \in Pool /\ place'[i] = Gone,
           happened' = happened
    PROVE  GuardInv'
<1>1. /\ Unsettled' \subseteq Unsettled /\ Scanning' \subseteq Scanning
      /\ \A c \in Unsettled' : call'[c] = call[c]
    BY DEF Unsettled, Scanning
<1>2. \A c \in Call : call'[c].at = "passed" => call'[c] = call[c]
    OBVIOUS
<1>0. open' \subseteq open /\ \A i \in open' : place'[i] = place[i]
    BY GuardConstants DEF open
<1>3. /\ Cardinality(open') \in Nat /\ Cardinality(open) \in Nat
      /\ Cardinality(open') <= Cardinality(open)
    BY <1>0, OpenFinite
<1>4. scan' = scan \/ Scanning' = {}
    BY DEF Scanning
<1>5. CapInv'
    BY <1>0, <1>1, <1>2, <1>3, <1>4, GuardConstants DEF GuardInv, CapInv
<1>6. TokenInv'
    BY <1>0, <1>1, <1>2 DEF GuardInv, TokenInv, OnePerToken, Scanning
<1>7. ListInv'
    BY <1>0, GuardConstants
       DEF GuardInv, ListInv, Listed, NoScan, Nothing, Opened, open
<1> QED
    BY <1>5, <1>6, <1>7 DEF GuardInv

\* A call whose check may be relied on is alone, and its scan is complete.
LEMMA GuardCheckScans ==
    ASSUME TypeOK, GuardInv, NEW c \in Call, CheckScans(c)
    PROVE  GuardInv'
<1>0. PICK p \in Pool, named \in BOOLEAN :
         /\ call' = [call EXCEPT ![c] = [at |-> "scanning", pool |-> p,
                                        named |-> named, id |-> NoId]]
         /\ happened' = Weakens(named)
    BY DEF CheckScans
<1>1. /\ call[c].at = "called"
      /\ call'[c].at = "scanning" /\ call'[c].named = named
      /\ \A d \in Call : d # c => call'[d] = call[d]
      /\ place' = place /\ open' = open
    BY <1>0 DEF CheckScans, TypeOK, open
<1>2. scan' = IF scan.at = "none" THEN [NoScan EXCEPT !.at = "asked"] ELSE scan
    BY DEF CheckScans
<1>3. /\ happened' # "unsure" => ~Unsure /\ happened # "unsure"
      /\ happened' = "nothing" => named /\ happened = "nothing"
    BY <1>0 DEF Weakens, Weakened, TypeOK
<1>4. ASSUME happened' # "unsure"
      PROVE  /\ Unsettled = {} /\ Unsettled' = {c}
             /\ scan.at = "read" => open \subseteq Listed(scan.list)
    <2>1. ~Unsure
        BY <1>3, <1>4
    <2>2. Unsettled = {}
        BY <2>1 DEF Unsure
    <2>3. Unsettled' = {c}
        BY <1>1, <2>2 DEF Unsettled
    <2> QED
        BY <2>1, <2>2, <2>3 DEF Unsure
<1>5. scan'.at # "none" /\ (scan'.at = "read" => scan = scan')
    BY <1>2 DEF TypeOK, NoScan
<1>6. CapInv'
    <2> SUFFICES ASSUME happened' # "unsure" PROVE CapInv'
        BY DEF CapInv
    <2>1. Cardinality(open') <= MaxPositions
        BY <1>1, <1>3 DEF GuardInv, CapInv
    <2>2. \A d \in Call : call'[d].at # "passed"
        BY <1>1, <1>4 DEF Unsettled
    <2> QED
        BY <1>1, <1>4, <1>5, <2>1, <2>2 DEF CapInv, Unsettled, Scanning
<1>7. TokenInv'
    <2> SUFFICES ASSUME happened' = "nothing" PROVE TokenInv'
        BY DEF TokenInv
    <2>1. named
        BY <1>3
    <2>2. OnePerToken'
        BY <1>1, <1>3 DEF GuardInv, TokenInv, OnePerToken
    <2>3. \A d \in Call : call'[d].at # "passed"
        BY <1>1, <1>4 DEF Unsettled
    <2>4. \A d \in Scanning' : d = c
        BY <1>4 DEF Scanning, Unsettled
    <2> QED
        BY <1>1, <2>1, <2>2, <2>3, <2>4 DEF TokenInv
<1>8. ListInv'
    BY <1>1, <1>2 DEF GuardInv, ListInv, Listed, NoScan, Nothing, Opened
<1> QED
    BY <1>6, <1>7, <1>8 DEF GuardInv

LEMMA GuardLands ==
    ASSUME TypeOK, GuardInv, NEW c \in Call, Lands(c)
    PROVE  GuardInv'
<1>1. PICK i \in Id :
         /\ ~Opened(i)
         /\ place' = [place EXCEPT ![i] = call[c].pool]
         /\ call' = [call EXCEPT ![c].at = "landed", ![c].id = i]
    BY DEF Lands
<1>2. call[c].at = "passed" /\ UNCHANGED <<scan, happened>>
    BY DEF Lands
<1>3. /\ i \notin open /\ place'[i] = call[c].pool
      /\ open' = open \cup {i}
      /\ \A j \in Id : j # i => place'[j] = place[j]
    <2>1. call[c].pool \in Pool
        BY <1>2 DEF TypeOK, Idle, Called
    <2> QED
        BY <1>1, <2>1, GuardConstants DEF TypeOK, Opened, open
<1>4. /\ call'[c].at = "landed"
      /\ \A d \in Call : d # c => call'[d] = call[d]
    BY <1>1 DEF TypeOK, CallState
<1>5. /\ c \in Unsettled /\ Unsettled' = Unsettled \ {c}
      /\ Scanning' \subseteq Unsettled'
    BY <1>2, <1>4 DEF Unsettled, Scanning
<1>6. Cardinality(open') = Cardinality(open) + 1 /\ Cardinality(open) \in Nat
    BY <1>1, <1>3, OpenFinite, FS_AddElement
<1>7. ASSUME happened' # "unsure"
      PROVE  Unsettled' = {} /\ Cardinality(open') <= MaxPositions
    <2>1. Unsettled' = {}
        BY <1>2, <1>5, <1>7 DEF GuardInv, CapInv
    <2>2. Cardinality(open) < MaxPositions
        BY <1>2, <1>7 DEF GuardInv, CapInv
    <2> QED
        BY <1>6, <2>1, <2>2, GuardConstants
<1>8. \A d \in Call : call'[d].at = "passed" => d \in Unsettled'
    BY DEF Unsettled
<1>9. CapInv'
    BY <1>5, <1>7, <1>8 DEF CapInv
<1>10. TokenInv'
    <2> SUFFICES ASSUME happened' = "nothing" PROVE TokenInv'
        BY DEF TokenInv
    <2>1. /\ \A j \in open : TokenOf[place[j]] # TokenOf[call[c].pool]
          /\ \A j, k \in open : j # k => TokenOf[place[j]] # TokenOf[place[k]]
        BY <1>2 DEF GuardInv, TokenInv, OnePerToken
    <2>2. OnePerToken'
        BY <1>3, <2>1 DEF OnePerToken, open
    <2> QED
        BY <1>5, <1>7, <1>8, <2>2 DEF TokenInv
<1>11. ListInv'
    BY <1>1, <1>2, <1>3 DEF GuardInv, ListInv, Listed, Opened
<1> QED
    BY <1>9, <1>10, <1>11 DEF GuardInv

LEMMA GuardScanReads ==
    ASSUME TypeOK, GuardInv, OthersScan \/ ScanReads
    PROVE  GuardInv'
<1>1. /\ UNCHANGED <<place, call>> /\ open' = open
      /\ happened' # "unsure" => happened' = happened
    BY DEF OthersScan, ScanReads, Weakened, open
<1>2. /\ scan'.at # "none"
      /\ scan'.at = "read" =>
            happened' = "unsure" \/ Scanning = {} \/ open \subseteq Listed(scan'.list)
      /\ \A i \in Listed(scan'.list) : i \in open /\ scan'.list[i] = place[i]
    <2>1. CASE OthersScan
        BY <2>1 DEF OthersScan, NoScan, Nothing, Listed
    <2>2. CASE ScanReads
        <3>1. PICK late \in SUBSET {i \in open : tracked[i] \in {"no", "fresh"}} :
                 /\ scan' = [at |-> "read",
                             list |-> [i \in Id |-> IF i \in open \ late
                                                    THEN place[i] ELSE NoPool]]
                 /\ happened' = Weakened(late # {} /\ Scanning # {})
            BY <2>2 DEF ScanReads
        <3>2. Listed(scan'.list) = open \ late
            BY <3>1, GuardConstants DEF Listed, open
        <3> QED
            BY <3>1, <3>2 DEF Weakened, open
    <2> QED
        BY <2>1, <2>2
<1>3. CapInv'
    <2> SUFFICES ASSUME happened' # "unsure" PROVE CapInv'
        BY DEF CapInv
    <2> QED
        BY <1>1, <1>2 DEF GuardInv, CapInv, Unsettled, Scanning
<1>4. TokenInv'
    <2> SUFFICES ASSUME happened' = "nothing" PROVE TokenInv'
        BY DEF TokenInv
    <2> QED
        BY <1>1 DEF GuardInv, TokenInv, OnePerToken, Scanning
<1>5. ListInv'
    BY <1>1, <1>2, GuardConstants DEF ListInv, Opened, open
<1> QED
    BY <1>3, <1>4, <1>5 DEF GuardInv

\* The call that passes has seen every open position.
LEMMA GuardScanFinishes ==
    ASSUME TypeOK, GuardInv, ScanFinishes
    PROVE  GuardInv'
<1>1. /\ scan.at = "read" /\ Resume(scan.list)
      /\ UNCHANGED <<place, happened>> /\ open' = open
    BY DEF ScanFinishes, open
<1>2. \A d \in Call :
         \/ call'[d] = Idle
         \/ call'[d] = call[d] /\ d \notin Scanning
         \/ /\ d \in Scanning /\ ~Blocked(d, scan.list)
            /\ call'[d] = Passed(call[d])
    BY <1>1, ResumeTyped
<1>3. Idle.at = "idle"
    BY DEF Idle
<1>4. \A d \in Call :
         /\ Passed(call[d]).at = "passed"
         /\ Passed(call[d]).pool = call[d].pool
    BY DEF TypeOK, CallState, Passed
<1>5. Unsettled' \subseteq Unsettled /\ Scanning' = {}
    BY <1>2, <1>3, <1>4 DEF Unsettled, Scanning
<1>6. \A d \in Unsettled' : call'[d].pool = call[d].pool
    BY <1>2, <1>3, <1>4 DEF Unsettled
<1>7. \A d \in Call : call'[d].at = "passed" =>
         \/ call[d].at = "passed"
         \/ d \in Scanning /\ ~Blocked(d, scan.list)
    BY <1>2, <1>3, <1>4
<1>8. ASSUME happened # "unsure", NEW d \in Scanning, ~Blocked(d, scan.list)
      PROVE  /\ Cardinality(open) < MaxPositions
             /\ call[d].named => \A i \in open :
                                    TokenOf[place[i]] # TokenOf[call[d].pool]
    <2>1. /\ open \subseteq Listed(scan.list)
          /\ \A i \in open : place[i] = scan.list[i]
        BY <1>1, <1>8 DEF GuardInv, CapInv, ListInv
    <2>2. IsFiniteSet(Listed(scan.list))
        BY FS_Subset, GuardConstants DEF Listed
    <2>3. /\ Cardinality(open) \in Nat /\ Cardinality(Listed(scan.list)) \in Nat
          /\ Cardinality(open) <= Cardinality(Listed(scan.list))
        BY <2>1, <2>2, OpenFinite, FS_Subset, FS_CardinalityType
    <2>4. ~(Cardinality(Listed(scan.list)) >= MaxPositions)
        BY <1>8 DEF Blocked
    <2>5. Cardinality(open) < MaxPositions
        BY <2>3, <2>4, GuardConstants
    <2> QED
        BY <1>8, <2>1, <2>5 DEF Blocked
<1>9. CapInv'
    <2> SUFFICES ASSUME happened # "unsure" PROVE CapInv'
        BY <1>1 DEF CapInv
    <2>1. \A d \in Call : call'[d].at = "passed" => Cardinality(open) < MaxPositions
        BY <1>7, <1>8 DEF GuardInv, CapInv
    <2> QED
        BY <1>1, <1>5, <2>1 DEF GuardInv, CapInv
<1>10. TokenInv'
    <2> SUFFICES ASSUME happened = "nothing" PROVE TokenInv'
        BY <1>1 DEF TokenInv
    <2>1. \A d \in Scanning : call[d].named
        BY DEF GuardInv, TokenInv
    <2>2. \A d \in Call : call'[d].at = "passed" => d \in Unsettled'
        BY DEF Unsettled
    <2>3. \A d \in Call : call'[d].at = "passed" =>
             \A i \in open : TokenOf[place[i]] # TokenOf[call[d].pool]
        BY <1>5, <1>7, <1>8, <2>1, <2>2 DEF GuardInv, TokenInv
    <2> QED
        BY <1>1, <1>5, <1>6, <2>2, <2>3 DEF GuardInv, TokenInv, OnePerToken
<1>11. ListInv'
    BY <1>1 DEF ScanFinishes, NoScan, Nothing, ListInv, Listed
<1> QED
    BY <1>9, <1>10, <1>11 DEF GuardInv

\* A failing scan answers nobody, or is remembered.
LEMMA GuardScanFails ==
    ASSUME TypeOK, GuardInv, ScanFails
    PROVE  GuardInv'
<1>1. place' = place /\ scan' = NoScan
    BY DEF ScanFails
<1>2. CASE Scanning # {}
    <2>1. ListInv'
        BY <1>1 DEF NoScan, Nothing, ListInv, Listed
    <2> QED
        BY <1>2, <2>1 DEF ScanFails, Weakened, GuardInv, CapInv, TokenInv
<1>3. CASE Scanning = {}
    <2>1. happened' = happened
        BY <1>3 DEF ScanFails, Weakened
    <2>2. \A c \in Call : call'[c] = call[c] \/ call'[c] = Idle
        BY <1>3, ResumeTyped DEF ScanFails
    <2>3. \A c \in Call : call[c].at # "scanning"
        BY <1>3 DEF Scanning
    <2>4. Idle.at = "idle"
        BY DEF Idle
    <2> QED
        BY <1>1, <2>1, <2>2, <2>3, <2>4, GuardKept
<1> QED
    BY <1>2, <1>3

LEMMA StepGuard == TypeOK /\ GuardInv /\ [Next]_vars => GuardInv'
<1> SUFFICES ASSUME TypeOK, GuardInv, [Next]_vars PROVE GuardInv'
    OBVIOUS
<1>1. ASSUME NEW s \in Session, SessionStarts(s) PROVE GuardInv'
    BY <1>1, GuardKept DEF SessionStarts
<1>2. ASSUME NEW s \in Session, ModelCalls(s) PROVE GuardInv'
    <2>1. \A c \in Call : call'[c] = call[c] \/ call'[c].at = "called"
        BY <1>2 DEF ModelCalls, Called, Idle
    <2> QED
        BY <1>2, <2>1, GuardKept DEF ModelCalls
<1>3. ASSUME NEW c \in Call, Refuses(c) \/ DeploySucceeds(c) \/ DeployErrors(c)
      PROVE  GuardInv'
    <2>1. call' = [call EXCEPT ![c] = Idle]
        BY <1>3 DEF Refuses, DeploySucceeds, DeployErrors, Returns
    <2>2. \A d \in Call : call'[d] = call[d] \/ call'[d].at = "idle"
        BY <2>1 DEF Idle, TypeOK
    <2> QED
        BY <1>3, <2>2, GuardKept DEF Refuses, DeploySucceeds, DeployErrors
<1>4. ASSUME NEW i \in Id, Closes(i) \/ CloseRecorded(i) \/ GraceEnds(i)
      PROVE  GuardInv'
    BY <1>4, GuardKept DEF Closes, CloseRecorded, GraceEnds, TypeOK, open
<1>5. CASE Crash
    BY <1>5, GuardKept DEF Crash, Idle
<1>6. CASE UNCHANGED vars
    BY <1>6, GuardKept DEF vars
<1> QED
    BY <1>1, <1>2, <1>3, <1>4, <1>5, <1>6, GuardCheckScans, GuardLands,
       GuardScanReads, GuardScanFinishes, GuardScanFails DEF Next, CallStep

\* The limit of open positions, for every number of sessions, calls,
\* positions and pools.
THEOREM CapCorrect == Spec => []CapHolds
<1>1. TypeOK /\ GuardInv => CapHolds
    BY DEF GuardInv, CapInv, CapHolds
<1> QED
    BY <1>1, InitTyped, StepTyped, InitGuard, StepGuard, PTL DEF Spec

\* No two open positions of one token, under the same conditions.
THEOREM TokenCorrect == Spec => []OnePerToken
<1>1. GuardInv => OnePerToken
    BY DEF GuardInv, TokenInv, OnePerToken
<1> QED
    BY <1>1, InitTyped, StepTyped, InitGuard, StepGuard, PTL DEF Spec

-----------------------------------------------------------------------------
(* One message per session. *)

\* What the session has opened is locked, or its call has not come back.
SessionInv ==
    \A s \in Session : opened[s] =>
        fired[s] \/ \E k \in Slot : call[<<s, k>>].at = "landed"

\* A landed call comes back in one way only, and takes the lock.
LEMMA SessionKept ==
    ASSUME SessionInv, opened' = opened,
           \A c \in Call : call[c].at = "landed" =>
                              call'[c].at = "landed" \/ fired'[c[1]],
           \A s \in Session : fired[s] => fired'[s]
    PROVE  SessionInv'
<1>1. \A s \in Session, k \in Slot : <<s, k>> \in Call /\ <<s, k>>[1] = s
    BY DEF Call
<1> QED
    BY <1>1 DEF SessionInv

LEMMA StepSession == TypeOK /\ SessionInv /\ [Next]_vars => SessionInv'
<1> SUFFICES ASSUME TypeOK, SessionInv, [Next]_vars PROVE SessionInv'
    OBVIOUS
<1>1. Idle.at = "idle"
    BY DEF Idle
<1>2. ASSUME NEW s \in Session, SessionStarts(s) PROVE SessionInv'
    BY <1>2 DEF SessionStarts, SessionInv, TypeOK
<1>3. ASSUME NEW s \in Session, ModelCalls(s) PROVE SessionInv'
    <2>1. \A c \in Call : call[c].at = "landed" => call'[c] = call[c]
        <3>1. \A c \in Call : c[1] = s => call[c] = Idle
            BY <1>3 DEF ModelCalls, Call
        <3> QED
            BY <1>1, <1>3, <3>1 DEF ModelCalls
    <2> QED
        BY <1>3, <2>1, SessionKept DEF ModelCalls
<1>4. ASSUME NEW c \in Call, Refuses(c) \/ DeploySucceeds(c) \/ DeployErrors(c)
      PROVE  SessionInv'
    <2>1. /\ call' = [call EXCEPT ![c] = Idle] /\ opened' = opened
          /\ \E b \in BOOLEAN : fired' = Locks({c}, b)
        BY <1>4 DEF Refuses, DeploySucceeds, DeployErrors, Returns
    <2>2. \A s \in Session : fired'[s] <=> fired[s] \/ c[1] = s
        BY <2>1 DEF Locks, TypeOK
    <2>3. c[1] \in Session /\ \A d \in Call : d # c => call'[d] = call[d]
        BY <2>1 DEF Call, TypeOK
    <2> QED
        BY <2>1, <2>2, <2>3, SessionKept
<1>5. ASSUME NEW c \in Call, CheckScans(c) PROVE SessionInv'
    BY <1>5, SessionKept DEF CheckScans, TypeOK
<1>6. ASSUME NEW c \in Call, Lands(c) PROVE SessionInv'
    <2>1. /\ call'[c].at = "landed"
          /\ \A d \in Call : d # c => call'[d] = call[d]
          /\ opened' = [opened EXCEPT ![c[1]] = TRUE] /\ fired' = fired
        BY <1>6 DEF Lands, TypeOK, CallState
    <2>2. PICK s \in Session, k \in Slot : c = <<s, k>>
        BY DEF Call
    <2>3. \A r \in Session, n \in Slot : <<r, n>> \in Call
        BY DEF Call
    <2>4. \A r \in Session : opened'[r] => r = s \/ opened[r]
        BY <2>1, <2>2 DEF TypeOK
    <2> QED
        BY <2>1, <2>2, <2>3, <2>4 DEF SessionInv
<1>7. ASSUME NEW L, Resume(L), opened' = opened PROVE SessionInv'
    <2>1. \A c \in Call : call[c].at = "landed" => call'[c] = call[c]
        BY <1>7 DEF Resume, Scanning
    <2>2. \A s \in Session : fired[s] => fired'[s]
        BY <1>7 DEF Resume, Locks, TypeOK
    <2> QED
        BY <1>7, <2>1, <2>2, SessionKept
<1>8. CASE ScanFinishes \/ ScanFails
    BY <1>7, <1>8 DEF ScanFinishes, ScanFails
<1>9. CASE Crash
    BY <1>9 DEF Crash, SessionInv
<1>10. CASE UNCHANGED <<call, fired, opened>>
    BY <1>10 DEF SessionInv
<1> QED
    BY <1>2, <1>3, <1>4, <1>5, <1>6, <1>8, <1>9, <1>10
       DEF Next, CallStep, OthersScan, ScanReads, Closes, CloseRecorded,
           GraceEnds, vars

\* Whatever fails, and however many calls a message holds, no message after
\* the one that opened a position gets a deploy to run.
THEOREM SessionCorrect == Spec => OneMessageOpens
<1>1. Init => SessionInv
    BY DEF Init, SessionInv
<1>2. ASSUME TypeOK, SessionInv, [Next]_vars, NEW c \in Call, Begins(c)
      PROVE  ~opened[c[1]]
    <2>1. PICK s \in Session : ModelCalls(s) /\ c[1] = s
        <3>1. call[c] = Idle /\ call'[c] # Idle
            BY <1>2 DEF Begins
        <3>2. ASSUME NEW s \in Session, ModelCalls(s) PROVE c[1] = s
            BY <3>1, <3>2 DEF ModelCalls
        <3>3. ASSUME NEW d \in Call, CallStep(d) PROVE FALSE
            <4>1. CASE CheckScans(d) \/ Lands(d)
                <5>1. call[d].at \in {"called", "passed"}
                    BY <4>1 DEF CheckScans, Lands
                <5>2. c # d
                    BY <3>1, <5>1 DEF Idle
                <5>3. call'[c] = call[c]
                    BY <1>2, <4>1, <5>2 DEF CheckScans, Lands, TypeOK
                <5> QED
                    BY <3>1, <5>3
            <4>2. CASE Refuses(d) \/ DeploySucceeds(d) \/ DeployErrors(d)
                <5>1. call' = [call EXCEPT ![d] = Idle]
                    BY <4>2 DEF Refuses, DeploySucceeds, DeployErrors, Returns
                <5> QED
                    BY <1>2, <3>1, <5>1 DEF TypeOK
            <4> QED
                BY <3>3, <4>1, <4>2 DEF CallStep
        <3>4. ASSUME NEW L, Resume(L) PROVE FALSE
            <4>1. c \notin Scanning
                BY <3>1 DEF Scanning, Idle
            <4> QED
                BY <1>2, <3>1, <3>4, <4>1 DEF Resume
        <3>5. call' # call /\ ~Crash
            BY <1>2, <3>1 DEF Crash
        <3> QED
            BY <1>2, <3>2, <3>3, <3>4, <3>5
               DEF Next, SessionStarts, OthersScan, ScanReads, ScanFinishes,
                   ScanFails, Closes, CloseRecorded, GraceEnds, vars
    <2>2. ~fired[s] /\ \A k \in Slot : call[<<s, k>>].at # "landed"
        BY <2>1 DEF ModelCalls, Idle
    <2> QED
        BY <1>2, <2>1, <2>2 DEF SessionInv
<1>3. TypeOK /\ SessionInv /\ [Next]_vars
      => [\A c \in Call : Begins(c) => ~opened[c[1]]]_vars
    BY <1>2
<1> QED
    BY <1>1, <1>3, InitTyped, StepTyped, StepSession, PTL
       DEF Spec, OneMessageOpens

-----------------------------------------------------------------------------
(* The loop of a session. *)

LoopCall == [at : {"none", "running", "answered"}, tool : Tool]
RunRecord == [step : 0..(MaxSteps - 1), tool : ONCE_PER_SESSION, success : BOOLEAN]

\* Where the loop stands in its steps.
StepsInRange ==
    /\ pc # "done" => step < MaxSteps
    /\ mustUseRealTool /\ ~sawToolCall /\ pc # "done" => noToolRetryCount < 2
    /\ \A k \in CallSlot : calls[k].at = "running" =>
          /\ pc = "tools"
          /\ calls[k].tool = "deploy_position" => deployAttempted

\* A tool that has run, and must not again, is locked.
RunsAreLocked ==
    \A r \in ran : r.success \/ r.tool \in NO_RETRY_TOOLS => r.tool \in firedOnce

\* What has run belongs to a message already sent, and to an earlier one
\* while the next is awaited.
RunsAreOlder ==
    \A r \in ran : r.step <= step /\ (pc = "ask" => r.step < step)

\* A call was let through because its tool was not locked before its message.
RunningWasUnlocked ==
    \A k \in CallSlot : calls[k].at = "running" =>
        \A r \in ran : r.tool = calls[k].tool /\ r.step < step =>
            ~r.success /\ r.tool \notin NO_RETRY_TOOLS

\* The requests a step may still owe.
RequestsPaid ==
    requests <= 3 * step + attempt
                + (IF providerMode = "system" THEN 0 ELSE 1)
                + (IF toolChoice = "required" THEN 0 ELSE 1)
                + (IF pc = "ask" THEN 0 ELSE 1)

\* With the step counter past its end nothing is owed but what was paid.
AtTheEnd == step = MaxSteps => attempt = 0 /\ requests <= RequestBound

IInv ==
    /\ LoopTypeOK /\ StepsInRange
    /\ RunsAreLocked /\ RunsAreOlder /\ RunningWasUnlocked
    /\ RequestsPaid /\ AtTheEnd
    /\ NoRepeatAfterAnswer /\ NotedDeployIsReal

-----------------------------------------------------------------------------
(* Operators *)

\* The end of a session keeps the counters.
LEMMA EndsTyped ==
    ASSUME LoopTypeOK, NEW result, Ends(result),
           result \in {"error", "answer", "refusal"}
    PROVE  /\ pc' = "done" /\ outcome' = result
           /\ step' = step /\ attempt' = attempt
           /\ usedModel' = usedModel /\ toolChoice' = toolChoice
    BY DEF Ends

\* The next step starts over.
LEMMA NextStepTyped ==
    ASSUME LoopTypeOK, step < MaxSteps, NextStep
    PROVE  /\ step' = step + 1 /\ attempt' = 0 /\ toolChoice' = "auto"
           /\ usedModel' = "configured"
           /\ pc' \in {"ask", "done"} /\ outcome' \in {outcome, "max_steps"}
           /\ pc' = "ask" => step' < MaxSteps
           /\ step' \in 0..MaxSteps
    BY StepsAssumption DEF NextStep, LoopTypeOK

\* One request more, at most.
LEMMA AskedCounts ==
    ASSUME LoopTypeOK, Asked
    PROVE  /\ requests' \in Nat /\ requests' <= requests + 1
           /\ pc = "ask"
    BY StepsAssumption DEF Asked, LoopTypeOK, RequestBound

\* The bound follows from what each step owes.
LEMMA PaidIsBounded ==
    ASSUME LoopTypeOK, RequestsPaid, AtTheEnd
    PROVE  RequestsBounded
<1>1. CASE step = MaxSteps
    BY <1>1 DEF AtTheEnd, RequestsBounded
<1>2. CASE step # MaxSteps
    <2>1. step <= MaxSteps - 1 /\ attempt <= 2
        BY <1>2, StepsAssumption DEF LoopTypeOK
    <2>2. requests <= 3 * step + attempt + 3
        BY StepsAssumption DEF RequestsPaid, LoopTypeOK
    <2> QED
        BY <2>1, <2>2, StepsAssumption DEF RequestsBounded, RequestBound, LoopTypeOK
<1> QED
    BY <1>1, <1>2

\* A request that is out leaves its step's share of the bound.
LEMMA Owed ==
    ASSUME LoopTypeOK, RequestsPaid, StepsInRange, Asked
    PROVE  /\ requests' <= 3 * step + attempt + 1
                + (IF providerMode = "system" THEN 0 ELSE 1)
                + (IF toolChoice = "required" THEN 0 ELSE 1)
           /\ requests' <= 3 * (step + 1) + 2
           /\ step < MaxSteps
    BY AskedCounts, StepsAssumption DEF RequestsPaid, StepsInRange, LoopTypeOK, Asked

-----------------------------------------------------------------------------
(* Steps that run no tool *)

\* What a step that leaves the tools alone, and does not go back in the
\* loop, preserves.
LEMMA ToolsKept ==
    ASSUME IInv, UNCHANGED toolVars, step' \in 0..MaxSteps, step' >= step,
           pc = "ask", pc' \in {"ask", "done"}
    PROVE  /\ RunsAreLocked' /\ RunsAreOlder' /\ RunningWasUnlocked'
           /\ NoRepeatAfterAnswer' /\ NotedDeployIsReal'
           /\ \A k \in CallSlot : calls'[k].at # "running"
<1>1. /\ ran' = ran /\ calls' = calls /\ firedOnce' = firedOnce
      /\ deploySucceeded' = deploySucceeded
      /\ deployAttempted' = deployAttempted
    BY DEF toolVars
<1>2. \A k \in CallSlot : calls'[k].at # "running"
    BY <1>1 DEF IInv, StepsInRange
<1>3. RunsAreLocked' /\ NoRepeatAfterAnswer' /\ NotedDeployIsReal'
    BY <1>1 DEF IInv, RunsAreLocked, NoRepeatAfterAnswer, NotedDeployIsReal
<1>4. RunsAreOlder'
    <2>1. ASSUME NEW r \in ran
          PROVE  r.step <= step' /\ (pc' = "ask" => r.step < step')
        <3>1. r.step < step /\ r.step \in Nat /\ step \in Nat /\ step' \in Nat
            BY <2>1, StepsAssumption DEF IInv, RunsAreOlder, LoopTypeOK
        <3> QED
            BY <3>1
    <2> QED
        BY <2>1, <1>1 DEF RunsAreOlder
<1>5. RunningWasUnlocked'
    BY <1>2 DEF RunningWasUnlocked
<1> QED
    BY <1>2, <1>3, <1>4, <1>5

LEMMA RejectsSystemRoleKeeps ==
    ASSUME IInv, RejectsSystemRole PROVE IInv'
<1>1. RunsAreLocked' /\ RunsAreOlder' /\ RunningWasUnlocked'
      /\ NoRepeatAfterAnswer' /\ NotedDeployIsReal'
    BY ToolsKept DEF RejectsSystemRole, Asked, IInv, LoopTypeOK, loopVars
<1>2. LoopTypeOK' /\ StepsInRange'
    BY AskedCounts DEF RejectsSystemRole, IInv, LoopTypeOK, StepsInRange, loopVars,
                       answerVars, toolVars
<1>3. RequestsPaid' /\ AtTheEnd'
    BY Owed, StepsAssumption
    DEF RejectsSystemRole, Asked, IInv, RequestsPaid, AtTheEnd, StepsInRange,
        loopVars, LoopTypeOK
<1> QED
    BY <1>1, <1>2, <1>3 DEF IInv

LEMMA RejectsToolChoiceKeeps ==
    ASSUME IInv, RejectsToolChoice PROVE IInv'
<1>1. RunsAreLocked' /\ RunsAreOlder' /\ RunningWasUnlocked'
      /\ NoRepeatAfterAnswer' /\ NotedDeployIsReal'
    BY ToolsKept DEF RejectsToolChoice, Asked, IInv, LoopTypeOK
<1>2. LoopTypeOK' /\ StepsInRange'
    BY AskedCounts DEF RejectsToolChoice, IInv, LoopTypeOK, StepsInRange,
                       answerVars, toolVars
<1>3. RequestsPaid' /\ AtTheEnd'
    BY Owed, StepsAssumption
    DEF RejectsToolChoice, Asked, IInv, RequestsPaid, AtTheEnd, StepsInRange,
        LoopTypeOK
<1> QED
    BY <1>1, <1>2, <1>3 DEF IInv

\* A request that ends the session.
LEMMA EndingKeeps ==
    ASSUME IInv, Asked, UNCHANGED toolVars, NEW result, Ends(result),
           result \in {"error", "answer", "refusal"},
           UNCHANGED <<mustUseRealTool, sawToolCall, providerMode>>,
           noToolRetryCount' \in 0..2
    PROVE  IInv'
<1>1. RunsAreLocked' /\ RunsAreOlder' /\ RunningWasUnlocked'
      /\ NoRepeatAfterAnswer' /\ NotedDeployIsReal'
      /\ \A k \in CallSlot : calls'[k].at # "running"
    BY ToolsKept DEF Ends, Asked, IInv, LoopTypeOK
<1>2. LoopTypeOK' /\ StepsInRange'
    BY <1>1, EndsTyped, AskedCounts DEF IInv, LoopTypeOK, StepsInRange, toolVars
<1>3. RequestsPaid' /\ AtTheEnd'
    BY EndsTyped, Owed, StepsAssumption
    DEF IInv, RequestsPaid, AtTheEnd, StepsInRange, LoopTypeOK
<1> QED
    BY <1>1, <1>2, <1>3 DEF IInv

\* A request that costs its step.
LEMMA CostlyKeeps ==
    ASSUME IInv, Asked, UNCHANGED toolVars, NextStep,
           UNCHANGED <<mustUseRealTool, sawToolCall, providerMode>>,
           noToolRetryCount' \in 0..2,
           mustUseRealTool /\ ~sawToolCall => noToolRetryCount' < 2
    PROVE  IInv'
<1>1. /\ step < MaxSteps /\ requests' \in Nat
      /\ requests' <= 3 * (step + 1) + 2
      /\ requests' <= 3 * step + attempt + 1
                + (IF providerMode = "system" THEN 0 ELSE 1)
                + (IF toolChoice = "required" THEN 0 ELSE 1)
    BY Owed, AskedCounts DEF IInv
<1>2. /\ step' = step + 1 /\ attempt' = 0 /\ toolChoice' = "auto"
      /\ usedModel' = "configured"
      /\ pc' \in {"ask", "done"} /\ outcome' \in {outcome, "max_steps"}
      /\ pc' = "ask" => step' < MaxSteps
      /\ step' \in 0..MaxSteps
    BY <1>1, NextStepTyped DEF IInv
<1>3. RunsAreLocked' /\ RunsAreOlder' /\ RunningWasUnlocked'
      /\ NoRepeatAfterAnswer' /\ NotedDeployIsReal'
      /\ \A k \in CallSlot : calls'[k].at # "running"
    BY <1>2, ToolsKept, StepsAssumption DEF Asked, IInv, LoopTypeOK
<1>4. LoopTypeOK'
    BY <1>1, <1>2 DEF IInv, LoopTypeOK, toolVars
<1>5. StepsInRange'
    BY <1>2, <1>3 DEF IInv, LoopTypeOK, StepsInRange
<1>6. RequestsPaid'
    BY <1>1, <1>2, StepsAssumption DEF RequestsPaid, IInv, LoopTypeOK
<1>7. AtTheEnd'
    BY <1>1, <1>2, StepsAssumption DEF AtTheEnd, RequestBound, IInv, LoopTypeOK
<1> QED
    BY <1>3, <1>4, <1>5, <1>6, <1>7 DEF IInv

LEMMA OverloadedKeeps ==
    ASSUME IInv, Overloaded PROVE IInv'
<1>1. CASE attempt = 2
    <2>1. noToolRetryCount' \in 0..2
        BY DEF Overloaded, answerVars, IInv, LoopTypeOK
    <2> QED
        BY <1>1, <2>1, EndingKeeps DEF Overloaded, answerVars
<1>2. CASE attempt # 2
    <2>1. RunsAreLocked' /\ RunsAreOlder' /\ RunningWasUnlocked'
          /\ NoRepeatAfterAnswer' /\ NotedDeployIsReal'
        BY <1>2, ToolsKept DEF Overloaded, Asked, IInv, LoopTypeOK
    <2>2. LoopTypeOK' /\ StepsInRange'
        BY <1>2, AskedCounts DEF Overloaded, IInv, LoopTypeOK, StepsInRange,
                                 answerVars, toolVars
    <2>3. RequestsPaid' /\ AtTheEnd'
        BY <1>2, Owed, StepsAssumption
        DEF Overloaded, Asked, IInv, RequestsPaid, AtTheEnd, StepsInRange, LoopTypeOK
    <2> QED
        BY <2>1, <2>2, <2>3 DEF IInv
<1> QED
    BY <1>1, <1>2

LEMMA AnswersTextKeeps ==
    ASSUME IInv, AnswersText PROVE IInv'
<1>1. CASE mustUseRealTool /\ ~sawToolCall
    <2>1. /\ noToolRetryCount \in 0..2 /\ noToolRetryCount < 2
          /\ noToolRetryCount' = noToolRetryCount + 1
        BY <1>1 DEF AnswersText, Asked, IInv, LoopTypeOK, StepsInRange
    <2>2. noToolRetryCount' \in 0..2
        BY <2>1
    <2>3. CASE noToolRetryCount + 1 >= 2
        BY <1>1, <2>2, <2>3, EndingKeeps DEF AnswersText
    <2>4. CASE ~(noToolRetryCount + 1 >= 2)
        <3>1. noToolRetryCount' < 2
            BY <2>1, <2>4
        <3> QED
            BY <1>1, <2>2, <2>4, <3>1, CostlyKeeps DEF AnswersText
    <2> QED
        BY <2>3, <2>4
<1>2. CASE ~(mustUseRealTool /\ ~sawToolCall)
    <2>1. noToolRetryCount' \in 0..2
        BY <1>2 DEF AnswersText, IInv, LoopTypeOK
    <2> QED
        BY <1>2, <2>1, EndingKeeps DEF AnswersText
<1> QED
    BY <1>1, <1>2

-----------------------------------------------------------------------------
(* Steps that run tools *)

\* What is noted stays real while nothing new succeeded.
LEMMA NotedFalse ==
    ASSUME LoopTypeOK, NEW C
    PROVE  Noted(C, FALSE) \in BOOLEAN /\ (Noted(C, FALSE) => deploySucceeded)
    BY DEF Noted, LoopTypeOK

LEMMA CallsToolsKeeps ==
    ASSUME IInv, CallsTools PROVE IInv'
<1>0. /\ pc = "ask" /\ pc' = "tools" /\ sawToolCall' = TRUE
      /\ ran' = ran /\ firedOnce' = firedOnce /\ step' = step
      /\ attempt' = attempt /\ toolChoice' = toolChoice
      /\ outcome' = outcome /\ usedModel' = usedModel
      /\ mustUseRealTool' = mustUseRealTool
      /\ noToolRetryCount' = noToolRetryCount /\ providerMode' = providerMode
      /\ step < MaxSteps /\ requests' \in Nat
    BY AskedCounts DEF CallsTools, Asked, IInv, StepsInRange
<1>a. PICK K \in SUBSET CallSlot : \E t \in [K -> Tool], bad \in SUBSET K :
          LET blocked == {k \in K : k \in bad \/ Locked(t[k])} IN
          /\ calls' = [k \in CallSlot |->
                         IF k \notin K THEN NoCall
                         ELSE [tool |-> t[k],
                               at |-> IF k \in blocked THEN "answered"
                                      ELSE "running"]]
          /\ deployAttempted' =
                (deployAttempted \/ \E k \in K : t[k] = "deploy_position")
          /\ deploySucceeded' = Noted({calls'[k] : k \in blocked}, FALSE)
    BY DEF CallsTools
<1>1. PICK t \in [K -> Tool], bad \in SUBSET K :
          LET blocked == {k \in K : k \in bad \/ Locked(t[k])} IN
          /\ calls' = [k \in CallSlot |->
                         IF k \notin K THEN NoCall
                         ELSE [tool |-> t[k],
                               at |-> IF k \in blocked THEN "answered"
                                      ELSE "running"]]
          /\ deployAttempted' =
                (deployAttempted \/ \E k \in K : t[k] = "deploy_position")
          /\ deploySucceeded' = Noted({calls'[k] : k \in blocked}, FALSE)
    BY <1>a
<1> DEFINE blocked == {k \in K : k \in bad \/ Locked(t[k])}
<1>2. /\ calls' \in [CallSlot -> LoopCall]
      /\ \A k \in CallSlot : calls'[k].at = "running" =>
            k \in K /\ calls'[k].tool = t[k] /\ ~Locked(calls'[k].tool)
    BY <1>1 DEF LoopCall, NoCall, Tool
<1>3. /\ deploySucceeded' \in BOOLEAN /\ (deploySucceeded' => deploySucceeded)
      /\ deployAttempted' \in BOOLEAN /\ (deployAttempted => deployAttempted')
    <2>1. deploySucceeded' = Noted({calls'[k] : k \in blocked}, FALSE)
        BY <1>1
    <2>2. deployAttempted' =
              (deployAttempted \/ \E k \in K : t[k] = "deploy_position")
        BY <1>1
    <2>3. deployAttempted' \in BOOLEAN /\ (deployAttempted => deployAttempted')
        BY <2>2 DEF IInv, LoopTypeOK
    <2> QED
        BY <2>1, <2>3, NotedFalse DEF IInv
<1>4. LoopTypeOK'
    BY <1>0, <1>2, <1>3 DEF IInv, LoopTypeOK, LoopCall
<1>5. StepsInRange'
    <2>1. \A k \in CallSlot : calls'[k].at = "running" =>
              (calls'[k].tool = "deploy_position" => deployAttempted')
        BY <1>1, <1>2
    <2> QED
        BY <2>1, <1>0, <1>2 DEF IInv, StepsInRange
<1>6. RunsAreLocked' /\ NoRepeatAfterAnswer'
    BY <1>0 DEF IInv, RunsAreLocked, NoRepeatAfterAnswer
<1>7. RunsAreOlder'
    BY <1>0 DEF IInv, RunsAreOlder
<1>8. RunningWasUnlocked'
    <2>1. ASSUME NEW k \in CallSlot, calls'[k].at = "running", NEW r \in ran,
                 r.tool = calls'[k].tool
          PROVE  ~r.success /\ r.tool \notin NO_RETRY_TOOLS
        <3>1. ~Locked(r.tool) /\ r.tool \in ONCE_PER_SESSION
            BY <2>1, <1>2 DEF IInv, LoopTypeOK
        <3>2. r.tool \notin firedOnce
            BY <3>1 DEF Locked
        <3> QED
            BY <2>1, <3>2 DEF IInv, RunsAreLocked
    <2> QED
        BY <2>1, <1>0 DEF RunningWasUnlocked
<1>9. RequestsPaid' /\ AtTheEnd'
    <2>1. Asked
        BY DEF CallsTools
    <2> QED
        BY <1>0, <2>1, Owed, StepsAssumption
        DEF IInv, RequestsPaid, AtTheEnd, LoopTypeOK
<1>10. NotedDeployIsReal'
    BY <1>0, <1>3 DEF IInv, NotedDeployIsReal
<1> QED
    BY <1>4, <1>5, <1>6, <1>7, <1>8, <1>9, <1>10 DEF IInv

LEMMA ToolReturnsKeeps ==
    ASSUME IInv, NEW k \in CallSlot, ToolReturns(k) PROVE IInv'
<1> DEFINE tool == calls[k].tool
<1>0. /\ calls[k].at = "running" /\ pc = "tools" /\ step < MaxSteps
      /\ calls' = [calls EXCEPT ![k].at = "answered"]
      /\ pc' = pc /\ outcome' = outcome /\ step' = step /\ attempt' = attempt
      /\ usedModel' = usedModel /\ toolChoice' = toolChoice
      /\ mustUseRealTool' = mustUseRealTool /\ sawToolCall' = sawToolCall
      /\ noToolRetryCount' = noToolRetryCount /\ providerMode' = providerMode
      /\ requests' = requests /\ deployAttempted' = deployAttempted
      /\ calls[k] \in LoopCall /\ step \in 0..(MaxSteps - 1)
    BY StepsAssumption
    DEF ToolReturns, loopVars, answerVars, IInv, StepsInRange, LoopTypeOK, LoopCall
<1>1. PICK success \in BOOLEAN :
          /\ firedOnce' =
                IF tool \in NO_RETRY_TOOLS \/ (tool \in ONCE_PER_SESSION /\ success)
                THEN firedOnce \cup {tool} ELSE firedOnce
          /\ ran' = IF tool \in ONCE_PER_SESSION
                    THEN ran \cup {[step |-> step, tool |-> tool, success |-> success]}
                    ELSE ran
          /\ deploySucceeded' = Noted({calls[k]}, success)
    BY DEF ToolReturns
<1> DEFINE new == [step |-> step, tool |-> tool, success |-> success]
<1>2. /\ ran' \in SUBSET RunRecord /\ firedOnce' \subseteq ONCE_PER_SESSION
      /\ firedOnce \subseteq firedOnce'
      /\ \A r \in ran' : r \in ran \/ (r = new /\ tool \in ONCE_PER_SESSION)
    BY <1>0, <1>1 DEF RunRecord, IInv, LoopTypeOK, NO_RETRY_TOOLS, ONCE_PER_SESSION
<1>3. /\ calls' \in [CallSlot -> LoopCall]
      /\ \A j \in CallSlot : calls'[j].at = "running" =>
            calls[j].at = "running" /\ calls'[j].tool = calls[j].tool
    BY <1>0 DEF IInv, LoopTypeOK, LoopCall
<1>4. deploySucceeded' \in BOOLEAN
    BY <1>1 DEF Noted, IInv, LoopTypeOK
<1>5. LoopTypeOK'
    BY <1>0, <1>2, <1>3, <1>4 DEF IInv, LoopTypeOK, LoopCall, RunRecord
<1>6. StepsInRange'
    BY <1>0, <1>3 DEF IInv, StepsInRange
<1>7. RunsAreLocked'
    <2>1. ASSUME NEW r \in ran', r.success \/ r.tool \in NO_RETRY_TOOLS
          PROVE  r.tool \in firedOnce'
        <3>1. CASE r \in ran
            BY <3>1, <2>1, <1>2 DEF IInv, RunsAreLocked
        <3>2. CASE r = new /\ tool \in ONCE_PER_SESSION
            BY <3>2, <2>1, <1>1
        <3> QED
            BY <3>1, <3>2, <1>2
    <2> QED
        BY <2>1 DEF RunsAreLocked
<1>8. RunsAreOlder'
    BY <1>0, <1>2 DEF IInv, RunsAreOlder
<1>9. RunningWasUnlocked'
    <2>1. ASSUME NEW j \in CallSlot, calls'[j].at = "running", NEW r \in ran',
                 r.tool = calls'[j].tool, r.step < step
          PROVE  ~r.success /\ r.tool \notin NO_RETRY_TOOLS
        <3>1. r \in ran
            BY <2>1, <1>0, <1>2
        <3> QED
            BY <2>1, <3>1, <1>3 DEF IInv, RunningWasUnlocked
    <2> QED
        BY <2>1, <1>0 DEF RunningWasUnlocked
<1>10. NoRepeatAfterAnswer'
    <2>1. ASSUME NEW r \in ran', NEW q \in ran', r.tool = q.tool, r.step < q.step
          PROVE  ~r.success /\ r.tool \notin NO_RETRY_TOOLS
        <3>1. r \in ran
            <4>1. q.step <= step
                BY <1>0, <1>8 DEF RunsAreOlder
            <4>2. q.step \in Int /\ step \in Int /\ new.step = step
                BY <1>0, <1>2 DEF RunRecord
            <4>3. r.step # new.step
                BY <2>1, <4>1, <4>2
            <4> QED
                BY <4>3, <1>2
        <3>2. CASE q \in ran
            BY <3>1, <3>2, <2>1 DEF IInv, NoRepeatAfterAnswer
        <3>3. CASE q = new
            BY <3>1, <3>3, <2>1, <1>0 DEF IInv, RunningWasUnlocked
        <3> QED
            BY <3>2, <3>3, <1>2
    <2> QED
        BY <2>1 DEF NoRepeatAfterAnswer
<1>11. RequestsPaid' /\ AtTheEnd'
    BY <1>0 DEF IInv, RequestsPaid, AtTheEnd
<1>12. NotedDeployIsReal'
    <2>1. ran \subseteq ran'
        BY <1>1
    <2>2. CASE tool = "deploy_position"
        <3>1. deploySucceeded' = success /\ tool \in ONCE_PER_SESSION
            BY <2>2, <1>1 DEF Noted, ONCE_PER_SESSION
        <3>2. new \in ran' /\ new.tool = "deploy_position"
              /\ new.success = success
            BY <2>2, <3>1, <1>1
        <3>3. deployAttempted'
            BY <2>2, <1>0 DEF IInv, StepsInRange
        <3> QED
            BY <3>1, <3>2, <3>3 DEF NotedDeployIsReal
    <2>3. CASE tool # "deploy_position"
        <3>1. deploySucceeded' = deploySucceeded
            BY <2>3, <1>1 DEF Noted
        <3> QED
            BY <3>1, <2>1, <1>0 DEF IInv, NotedDeployIsReal
    <2> QED
        BY <2>2, <2>3
<1> QED
    BY <1>5, <1>6, <1>7, <1>8, <1>9, <1>10, <1>11, <1>12 DEF IInv

LEMMA ResultsJoinKeeps ==
    ASSUME IInv, ResultsJoin PROVE IInv'
<1>0. /\ pc = "tools" /\ step < MaxSteps /\ calls' = NoCalls
      /\ requests' = requests /\ ran' = ran /\ firedOnce' = firedOnce
      /\ deployAttempted' = deployAttempted
      /\ deploySucceeded' = deploySucceeded
      /\ mustUseRealTool' = mustUseRealTool /\ sawToolCall' = sawToolCall
      /\ noToolRetryCount' = noToolRetryCount /\ providerMode' = providerMode
    BY DEF ResultsJoin, answerVars, IInv, StepsInRange
<1>1. /\ step' = step + 1 /\ attempt' = 0 /\ toolChoice' = "auto"
      /\ usedModel' = "configured"
      /\ pc' \in {"ask", "done"} /\ outcome' \in {outcome, "max_steps"}
      /\ pc' = "ask" => step' < MaxSteps
      /\ step' \in 0..MaxSteps
    BY <1>0, NextStepTyped DEF ResultsJoin, IInv
<1>2. calls' \in [CallSlot -> LoopCall] /\ \A k \in CallSlot : calls'[k].at = "none"
    BY <1>0 DEF NoCalls, NoCall, LoopCall, Tool
<1>3. LoopTypeOK'
    <2>1. /\ calls' \in [CallSlot -> [at : {"none", "running", "answered"},
                                  tool : Tool]]
          /\ outcome' \in {"none", "disabled", "error", "answer", "refusal",
                           "max_steps"}
        BY <1>1, <1>2 DEF LoopCall, IInv, LoopTypeOK
    <2> QED
        BY <1>0, <1>1, <2>1 DEF IInv, LoopTypeOK
<1>4. StepsInRange'
    BY <1>0, <1>1, <1>2 DEF IInv, StepsInRange
<1>5. RunsAreLocked' /\ NoRepeatAfterAnswer' /\ NotedDeployIsReal'
    BY <1>0 DEF IInv, RunsAreLocked, NoRepeatAfterAnswer, NotedDeployIsReal
<1>6. RunsAreOlder'
    <2>1. ASSUME NEW r \in ran PROVE r.step <= step' /\ r.step < step'
        <3>1. r.step <= step /\ r.step \in Int /\ step \in Int
            BY <2>1 DEF IInv, RunsAreOlder, LoopTypeOK
        <3> QED
            BY <3>1, <1>1
    <2> QED
        BY <2>1, <1>0 DEF RunsAreOlder
<1>7. RunningWasUnlocked'
    BY <1>2 DEF RunningWasUnlocked
<1>8. RequestsPaid'
    BY <1>0, <1>1, StepsAssumption DEF IInv, RequestsPaid, LoopTypeOK
<1>9. AtTheEnd'
    BY <1>0, <1>1, StepsAssumption
    DEF IInv, RequestsPaid, AtTheEnd, RequestBound, LoopTypeOK
<1> QED
    BY <1>3, <1>4, <1>5, <1>6, <1>7, <1>8, <1>9 DEF IInv

-----------------------------------------------------------------------------
(* Theorems *)

LEMMA InitHolds == LoopInit => IInv
<1> SUFFICES ASSUME LoopInit PROVE IInv
    OBVIOUS
<1>1. calls \in [CallSlot -> LoopCall] /\ \A k \in CallSlot : calls[k].at = "none"
    BY DEF LoopInit, NoCalls, NoCall, LoopCall, Tool
<1>2. ran = {} /\ ~deploySucceeded /\ step = 0 /\ attempt = 0 /\ requests = 0
    BY DEF LoopInit
<1>3. LoopTypeOK
    <2>1. /\ mustUseRealTool \in BOOLEAN /\ sawToolCall \in BOOLEAN
          /\ deployAttempted \in BOOLEAN /\ deploySucceeded \in BOOLEAN
        BY DEF LoopInit
    <2>2. /\ step \in 0..MaxSteps /\ attempt \in 0..2 /\ requests \in Nat
          /\ noToolRetryCount \in 0..2
        BY StepsAssumption DEF LoopInit
    <2>3. /\ pc \in {"ask", "tools", "done"}
          /\ outcome \in {"none", "disabled", "error", "answer", "refusal",
                          "max_steps"}
          /\ usedModel \in {"configured", "fallback"}
          /\ providerMode \in {"system", "user_embedded"}
          /\ toolChoice \in {"required", "auto"}
          /\ firedOnce = {} /\ ran = {}
        BY DEF LoopInit
    <2> QED
        BY <1>1, <2>1, <2>2, <2>3 DEF LoopTypeOK, LoopCall
<1>4. StepsInRange
    BY <1>1, StepsAssumption DEF LoopInit, StepsInRange
<1>5. RunsAreLocked /\ RunsAreOlder /\ RunningWasUnlocked
      /\ NoRepeatAfterAnswer /\ NotedDeployIsReal
    BY <1>2 DEF RunsAreLocked, RunsAreOlder, RunningWasUnlocked,
                NoRepeatAfterAnswer, NotedDeployIsReal
<1>6. RequestsPaid /\ AtTheEnd
    BY <1>2, StepsAssumption DEF RequestsPaid, AtTheEnd, RequestBound
<1> QED
    BY <1>3, <1>4, <1>5, <1>6 DEF IInv

LEMMA StepHolds == IInv /\ [LoopNext]_agentVars => IInv'
<1> SUFFICES ASSUME IInv, [LoopNext]_agentVars PROVE IInv'
    OBVIOUS
<1>1. noToolRetryCount \in 0..2
      /\ (mustUseRealTool /\ ~sawToolCall /\ pc # "done" => noToolRetryCount < 2)
    BY DEF IInv, LoopTypeOK, StepsInRange
<1>2. CASE RejectsSystemRole
    BY <1>2, RejectsSystemRoleKeeps
<1>3. CASE RejectsToolChoice
    BY <1>3, RejectsToolChoiceKeeps
<1>4. CASE Overloaded
    BY <1>4, OverloadedKeeps
<1>5. CASE RateLimited
    BY <1>1, <1>5, CostlyKeeps DEF RateLimited, answerVars, Asked
<1>6. CASE RequestFails
    BY <1>1, <1>6, EndingKeeps DEF RequestFails, answerVars
<1>7. CASE AnswersEmpty
    BY <1>1, <1>7, CostlyKeeps DEF AnswersEmpty, answerVars, Asked
<1>8. CASE AnswersText
    BY <1>8, AnswersTextKeeps
<1>9. CASE CallsTools
    BY <1>9, CallsToolsKeeps
<1>10. ASSUME NEW k \in CallSlot, ToolReturns(k) PROVE IInv'
    BY <1>10, ToolReturnsKeeps
<1>11. CASE ResultsJoin
    BY <1>11, ResultsJoinKeeps
<1>12. CASE UNCHANGED agentVars
    BY <1>12
    DEF agentVars, loopVars, answerVars, toolVars, IInv, LoopTypeOK, StepsInRange,
        RunsAreLocked, RunsAreOlder, RunningWasUnlocked, RequestsPaid, AtTheEnd,
        NoRepeatAfterAnswer, NotedDeployIsReal
<1> QED
    BY <1>2, <1>3, <1>4, <1>5, <1>6, <1>7, <1>8, <1>9, <1>10, <1>11, <1>12
    DEF LoopNext, Done

LEMMA Inductive == LoopSpec => []IInv
    BY InitHolds, StepHolds, PTL DEF LoopSpec

\* The state of the loop is always well formed (agent.js:208-462).
THEOREM LoopTypeCorrect == LoopSpec => []LoopTypeOK
<1>1. IInv => LoopTypeOK
    BY DEF IInv
<1> QED
    BY <1>1, Inductive, PTL

\* No destructive tool runs again after it succeeded, and no deploy after a
\* deploy, in a later message (agent.js:237-243, 406, 434-435).
THEOREM LockHolds == LoopSpec => []NoRepeatAfterAnswer
<1>1. IInv => NoRepeatAfterAnswer
    BY DEF IInv
<1> QED
    BY <1>1, Inductive, PTL

\* However many of the retries are uncounted (agent.js:277, 283), a session
\* of n steps sends at most 3n + 2 requests.
THEOREM RequestsStayBounded == LoopSpec => []RequestsBounded
<1>1. IInv => RequestsBounded
    BY PaidIsBounded DEF IInv
<1> QED
    BY <1>1, Inductive, PTL

\* A deploy the screening cycle notes as successful has succeeded
\* (index.js:1109-1121).
THEOREM NotedIsReal == LoopSpec => []NotedDeployIsReal
<1>1. IInv => NotedDeployIsReal
    BY DEF IInv
<1> QED
    BY <1>1, Inductive, PTL
==============================================================================
