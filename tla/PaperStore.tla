----------------------------- MODULE PaperStore -----------------------------
(***************************************************************************)
(* Paper mode: positions that exist only in two JSON files, the active     *)
(* list and the archive of tools/dlmm.js, and the management cycle of      *)
(* index.js that closes them by itself.                                    *)
(*                                                                         *)
(* A deploy or a close loads a file, awaits, and saves its own copy; no    *)
(* lock guards that.  A model's answer with several tool calls starts them *)
(* together, and the cycle runs beside any chat: the last save wins.  The  *)
(* positions that two calls in each other's way, a failed write or a dead  *)
(* process may cost are remembered in `tangled'.  The rules judge numbers  *)
(* that only a hand or a script edits in the file, so the verdict on a     *)
(* listed position is free.                                                *)
(***************************************************************************)
EXTENDS Naturals, TLC

CONSTANTS
    Positions,  \* synthetic ids, each given to one deploy
    Tools,      \* tool calls that may be under way together
    Cycle,      \* the auto-close loop of the management cycle
    MaxFiled,   \* bound: times the archive may list one position
    Torn,       \* a file that does not parse
    None,       \* no list is cached
    MaxFaults   \* bound: failed writes and deaths of the process, together

ASSUME PaperConstants ==
    /\ Cycle \notin Tools
    /\ MaxFiled \in Nat \ {0}
    /\ MaxFaults \in Nat

\* What does not parse is not a list of positions.
ASSUME PaperDistinct == Torn \notin [Positions -> Nat]

Callers == Tools \cup {Cycle}
NoFile == [p \in Positions |-> 0]

VARIABLES
    active,     \* paper_active_positions.json: Torn, or how often each is there
    archive,    \* paper_archive.json, likewise
    cache,      \* _positionsCache: the positions it lists, or None
    calls,      \* per caller: the call under way and the copies it holds
    phase,      \* of the management cycle
    view,       \* positionData of the cycle
    todo,       \* listed positions the loop still has to close
    closedAny,  \* those the loop closed; the code keeps whether there are any
    faults,     \* history: failed writes and deaths so far
    deployed,   \* history: positions whose deploy was answered
    closed,     \* history: positions whose close was answered with success
    tangled     \* history: those whose call met another, or a fault

vars == <<active, archive, cache, calls, phase, view, todo, closedAny,
          faults, deployed, closed, tangled>>
files == <<active, archive>>
cycle == <<phase, view, todo, closedAny>>
history == <<faults, deployed, closed, tangled>>

\* loadPaperPositions: a file that does not parse is an empty list.
Load(file) == IF file = Torn THEN NoFile ELSE file

In(file) == {p \in Positions : Load(file)[p] > 0}

Idle == [at |-> "idle"]
UnderWay == {c \in Callers : calls[c] # Idle}
Named(C) == {calls[c].pos : c \in C}

Init ==
    /\ active = NoFile /\ archive = NoFile /\ cache = None
    /\ calls = [c \in Callers |-> Idle]
    /\ phase = "idle" /\ view = {} /\ todo = {} /\ closedAny = {}
    /\ faults = 0 /\ deployed = {} /\ closed = {} /\ tangled = {}

\* Call c for position p starts: whoever is under way, and it, may lose.
Starts(c, p, call) ==
    /\ calls[c] = Idle
    /\ calls' = [calls EXCEPT ![c] = call]
    /\ tangled' = IF UnderWay = {} THEN tangled
                  ELSE tangled \cup {p} \cup Named(UnderWay)

Ends(c) == calls' = [calls EXCEPT ![c] = Idle]

(***************************************************************************)
(* savePaperPositions: a failed write is logged and the call goes on.  It  *)
(* leaves the file as it was, or cut, since opening it to write empties    *)
(* it.  Of a cut file, whatever it held is lost.                           *)
(***************************************************************************)
Saved(old, new) ==
    IF faults < MaxFaults THEN {old, new, Torn} ELSE {new}

Blamed(old, new, file, p) ==
    IF file = new THEN UNCHANGED <<faults, tangled>>
    ELSE /\ faults' = faults + 1
         /\ tangled' = tangled \cup {p} \cup (IF file = Torn THEN In(old) ELSE {})

-----------------------------------------------------------------------------
(* deployPosition *)

DeployLoads(c, p) ==
    /\ c \in Tools
    /\ p \notin deployed \cup Named(UnderWay)
    /\ Starts(c, p, [at |-> "deploy", pos |-> p, active |-> Load(active)])
    /\ UNCHANGED <<files, cache, cycle, faults, deployed, closed>>

\* Mutant: the list is begun anew instead of the loaded one.
DeploySaves_anew(c) ==
    /\ calls[c].at = "deploy"
    /\ LET p == calls[c].pos
           new == [NoFile EXCEPT ![p] = 1]
       IN  /\ \E file \in Saved(active, new) :
                 /\ active' = file
                 /\ Blamed(active, new, file, p)
           /\ deployed' = deployed \cup {p}
    /\ Ends(c)
    /\ UNCHANGED <<archive, cache, cycle, closed>>

\* The cached list is left as it is.
DeploySaves(c) ==
    /\ calls[c].at = "deploy"
    /\ LET p == calls[c].pos
           new == [calls[c].active EXCEPT ![p] = @ + 1]
       IN  /\ \E file \in Saved(active, new) :
                 /\ active' = file
                 /\ Blamed(active, new, file, p)
           /\ deployed' = deployed \cup {p}
    /\ Ends(c)
    /\ UNCHANGED <<archive, cache, cycle, closed>>

-----------------------------------------------------------------------------
(* closePosition *)

\* The loop has heard of p's close.
Tried(c, p, success) ==
    IF c = Cycle
    THEN /\ todo' = todo \ {p}
         /\ closedAny' = IF success THEN closedAny \cup {p} ELSE closedAny
         /\ UNCHANGED <<phase, view>>
    ELSE UNCHANGED cycle

MayClose(c, p) ==
    /\ calls[c] = Idle
    /\ c = Cycle => phase = "closing" /\ p \in todo

CloseLoads(c, p) ==
    /\ MayClose(c, p) /\ p \in In(active)
    /\ Load(archive)[p] < MaxFiled
    /\ Starts(c, p, [at |-> "archive", pos |-> p,
                     active |-> [active EXCEPT ![p] = @ - 1]])
    /\ UNCHANGED <<files, cache, cycle, faults, deployed, closed>>

CloseNotFound(c, p) ==
    /\ MayClose(c, p) /\ p \in deployed \ In(active)
    /\ Tried(c, p, FALSE)
    /\ UNCHANGED <<files, cache, calls, history>>

\* Mutant: the archive is begun anew instead of loaded.
CloseLoadsArchive_anew(c) ==
    /\ calls[c].at = "archive"
    /\ calls' = [calls EXCEPT ![c] =
                   [at |-> "save", pos |-> calls[c].pos,
                    active |-> calls[c].active,
                    archive |-> [NoFile EXCEPT ![calls[c].pos] = 1]]]
    /\ UNCHANGED <<files, cache, cycle, history>>

CloseLoadsArchive(c) ==
    /\ calls[c].at = "archive"
    /\ calls' = [calls EXCEPT ![c] =
                   [at |-> "save", pos |-> calls[c].pos,
                    active |-> calls[c].active,
                    archive |-> [Load(archive) EXCEPT ![calls[c].pos] = @ + 1]]]
    /\ UNCHANGED <<files, cache, cycle, history>>

CloseSaves(c) ==
    /\ calls[c].at = "save"
    /\ \E file \in Saved(active, calls[c].active) :
          /\ active' = file
          /\ Blamed(active, calls[c].active, file, calls[c].pos)
    /\ calls' = [calls EXCEPT ![c] = [at |-> "file", pos |-> calls[c].pos,
                                      archive |-> calls[c].archive]]
    /\ UNCHANGED <<archive, cache, cycle, deployed, closed>>

\* Mutant: the cached list outlives the close.
CloseFiles_keepsCache(c) ==
    /\ calls[c].at = "file"
    /\ \E file \in Saved(archive, calls[c].archive) :
          /\ archive' = file
          /\ Blamed(archive, calls[c].archive, file, calls[c].pos)
    /\ closed' = closed \cup {calls[c].pos}
    /\ Tried(c, calls[c].pos, TRUE)
    /\ Ends(c)
    /\ UNCHANGED <<active, cache, deployed>>

CloseFiles(c) ==
    /\ calls[c].at = "file"
    /\ \E file \in Saved(archive, calls[c].archive) :
          /\ archive' = file
          /\ Blamed(archive, calls[c].archive, file, calls[c].pos)
    /\ cache' = None
    /\ closed' = closed \cup {calls[c].pos}
    /\ Tried(c, calls[c].pos, TRUE)
    /\ Ends(c)
    /\ UNCHANGED <<active, deployed>>

-----------------------------------------------------------------------------
(* getMyPositions and the management cycle *)

\* A forced read, or one that finds no list young enough.
Lists == cache' = In(active)

GetMyPositions ==
    /\ Lists
    /\ UNCHANGED <<files, calls, cycle, history>>

\* The rules choose which of the listed positions to close.
CycleJudges ==
    /\ phase = "idle" /\ Lists /\ In(active) # {}
    /\ view' = In(active)
    /\ todo' \in SUBSET In(active)
    /\ phase' = "closing"
    /\ UNCHANGED <<files, calls, closedAny, history>>

\* Only if something was closed is the list read again.
CycleRefreshes ==
    /\ phase = "closing" /\ todo = {}
    /\ IF closedAny = {} THEN UNCHANGED <<view, cache>>
       ELSE view' = In(active) /\ Lists
    /\ phase' = "asked"
    /\ UNCHANGED <<files, calls, todo, closedAny, history>>

\* The model's calls are among Tools; at the end the list is read once more.
CycleEnds ==
    /\ phase = "asked"
    /\ phase' = "idle" /\ view' = {} /\ closedAny' = {}
    /\ Lists
    /\ UNCHANGED <<files, calls, todo, history>>

-----------------------------------------------------------------------------
(* A process that dies, in a write or elsewhere, and is started again. *)

Writing(file) ==
    {c \in UnderWay : calls[c].at \in IF file = "active" THEN {"deploy", "save"}
                                      ELSE {"file"}}

Dies ==
    /\ faults < MaxFaults /\ faults' = faults + 1
    /\ \E cut \in {"", "active", "archive"} :
          /\ cut # "" => Writing(cut) # {}
          /\ active' = IF cut = "active" THEN Torn ELSE active
          /\ archive' = IF cut = "archive" THEN Torn ELSE archive
          /\ tangled' = tangled
                \cup Named({c \in UnderWay : calls[c].at = "file"})
                \cup (IF cut = "active" THEN In(active) ELSE {})
                \cup (IF cut = "archive" THEN In(archive) ELSE {})
    /\ calls' = [c \in Callers |-> Idle]
    /\ cache' = None
    /\ phase' = "idle" /\ view' = {} /\ todo' = {} /\ closedAny' = {}
    /\ UNCHANGED <<deployed, closed>>

Next ==
    \/ \E c \in Callers :
          \/ DeploySaves(c) \/ CloseLoadsArchive(c) \/ CloseSaves(c)
          \/ CloseFiles(c)
          \/ \E p \in Positions :
                DeployLoads(c, p) \/ CloseLoads(c, p) \/ CloseNotFound(c, p)
    \/ GetMyPositions \/ CycleJudges \/ CycleRefreshes \/ CycleEnds
    \/ Dies

Spec == Init /\ [][Next]_vars

\* For TLC: the positions and the tool calls are interchangeable.
Symmetry == Permutations(Positions) \cup Permutations(Tools)

-----------------------------------------------------------------------------
(* Properties *)

\* However calls interleave and whatever fails, a position whose own calls met
\* no other call and no fault is in exactly one of the two files, once: in the
\* archive if its close was answered with success (dlmm.js).  What two others
\* do to each other never reaches it.
UntangledAreKept ==
    \A p \in deployed \ (tangled \cup Named(UnderWay)) :
        /\ Load(active)[p] + Load(archive)[p] = 1
        /\ p \in closed <=> p \in In(archive)

\* A position closed with success is not shown again, by the cached list or by
\* the list the management cycle goes on with after its own closes ("so all
\* subsequent operations see the new open positions", index.js).
ClosedIsNotShown ==
    /\ cache # None => cache \cap closed \subseteq tangled
    /\ phase = "asked" => view \cap closedAny \subseteq tangled

\* What the two files say of a position, step by step, is a life of PaperLife:
\* an untangled position enters the active list once, leaves it and enters the
\* archive once, with no other moving in the same write, and never returns to
\* the list, whatever copies other calls still hold of it (dlmm.js, the saves
\* of deployPosition and closePosition).  No promise is made of a tangled one.
Stage(p) ==
    IF p \in tangled THEN "unsure"
    ELSE IF p \in In(active) THEN "open"
    ELSE IF p \in In(archive) THEN "filed"
    ELSE IF p \in deployed THEN "leaving"
    ELSE "none"

Life == INSTANCE PaperLife WITH stage <- [p \in Positions |-> Stage(p)]

LivesAsPromised == Life!Spec

\* Without faults, a position answered to be deployed is in one of the files
\* when no call is under way.  Two calls of one message refute this
\* (PaperParallel.cfg): the save of one drops what the other has just saved.
NothingIsLost ==
    faults = 0 /\ UnderWay = {} =>
        \A p \in deployed : Load(active)[p] + Load(archive)[p] = 1
=============================================================================
