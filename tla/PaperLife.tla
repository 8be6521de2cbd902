----------------------------- MODULE PaperLife -----------------------------
(***************************************************************************)
(* What paper mode promises of its positions, without files, copies and    *)
(* calls: each is opened, taken out and filed, one at a time and in that   *)
(* order, and never comes back.  Some may be given up; of those nothing is *)
(* promised, and the others do not notice.                                 *)
(***************************************************************************)
CONSTANT Positions

VARIABLE stage      \* of each position

Stages == {"none", "open", "leaving", "filed", "unsure"}

Init == stage = [p \in Positions |-> "none"]

Moves(p, from, to) ==
    /\ stage[p] = from
    /\ stage' = [stage EXCEPT ![p] = to]

Open(p) == Moves(p, "none", "open")

\* It is in the list no more, and not yet in the archive.
TakeOut(p) == Moves(p, "open", "leaving")

File(p) == Moves(p, "leaving", "filed")

GiveUp(lost) ==
    stage' = [p \in Positions |-> IF p \in lost THEN "unsure" ELSE stage[p]]

Next ==
    \/ \E p \in Positions : Open(p) \/ TakeOut(p) \/ File(p)
    \/ \E lost \in SUBSET Positions : GiveUp(lost)

Spec == Init /\ [][Next]_stage
=============================================================================
