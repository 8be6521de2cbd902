---------------------------- MODULE MCCandidates ----------------------------
(***************************************************************************)
(* A small instance of Candidates for TLC: two pools of one token.         *)
(***************************************************************************)
EXTENDS Candidates

CONSTANTS p1, p2, t1, d1

Mints == [p \in Pools |-> t1]
Deployers == [t \in Tokens |-> d1]

Twins == Permutations(Pools)
=============================================================================
