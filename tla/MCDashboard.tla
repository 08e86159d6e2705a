------------------------------ MODULE MCDashboard ------------------------------
(* Small instances of Dashboard for TLC. *)
EXTENDS Dashboard, TLC

Allow(navigations, kinds) ==
  [k \in BoundedKinds |-> CASE k = "navigate" -> navigations
                             [] k \in kinds -> 1 [] OTHER -> 0]

Submissions == Allow(2, {"fetch", "submit"})
Reparks     == Allow(2, {"repark"})

Symmetry == Permutations(Rows)
===============================================================================
