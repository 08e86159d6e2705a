----------------------------- MODULE MCSlackNotify -----------------------------
(* Small instances of SlackNotify for TLC. *)
EXTENDS SlackNotify, FiniteSets, TLC

Faults(kinds) == [k \in FaultKinds |-> IF k \in kinds THEN 1 ELSE 0]

NoFaults  == Faults({})
AllFaults == Faults(FaultKinds)
PostOnce  == Faults({"post"})

\* At most two kinds of fault in a behaviour, every pair, at every step.
TwoFaults == Cardinality({k \in FaultKinds : left[k] < Budget[k]}) <= 2

Symmetry == Permutations(Runs) \cup Permutations(Flows)
===============================================================================
