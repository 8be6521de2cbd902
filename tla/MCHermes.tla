------------------------------ MODULE MCHermes ------------------------------
(***************************************************************************)
(* Small instances of Hermes for TLC.                                      *)
(***************************************************************************)
EXTENDS Hermes

CONSTANTS c1, c2

\* The first candidate costs as much as a transaction may, the second less.
Costs == [c \in Candidates |-> IF c = c1 THEN 2 ELSE 1]
=============================================================================
