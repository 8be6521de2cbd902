----------------------------- MODULE MCPoolLife -----------------------------
(* PoolLife on a small instance: two pools of one token. *)
EXTENDS PoolLife

MCTokenOf == [p \in Pools |-> CHOOSE t \in Tokens : TRUE]
PoolSymmetry == Permutations(Pools)
Close(reason, pnl, fees, inRange, organic) ==
    [reason |-> reason, pnl |-> pnl, fees |-> fees, inRange |-> inRange,
     organic |-> organic, small |-> fees = 0 /\ reason = "oor", mixed |-> FALSE]

\* Out of range at a loss of a small position, with fees and a gain, a low yield,
\* an unexplained loss.
MCCloses == { Close("oor", -92, 0, 20, 62), Close("oor", 6, 3, 90, 80),
              Close("low yield", 1, 0, 90, 80), Close("other", -95, 0, 50, 62) }
MCManual == { [role |-> "all", pinned |-> TRUE, tag |-> "none"],
              [role |-> "SCREENER", pinned |-> FALSE, tag |-> "none"],
              [role |-> "SCREENER", pinned |-> TRUE, tag |-> "MANAGER"] }
MCCaps == [auto |-> [pinned |-> 1, role |-> 1, recent |-> 3],
           chat |-> [pinned |-> 2, role |-> 2, recent |-> 3]]
=============================================================================
