---- MODULE MCDeployGuard ----
(* DeployGuard on a small instance: two pools of one token, one of another. *)
EXTENDS DeployGuard, TLC
CONSTANTS p1, p2, p3, a, b
MCTokenOf == p1 :> a @@ p2 :> a @@ p3 :> b
MCSymmetry == Permutations(Id) \cup Permutations(Session)
              \cup Permutations({p1, p2})
====
