----------------------------- MODULE MCSearchIndex -----------------------------
(* Small instances of SearchIndex for TLC. *)
EXTENDS SearchIndex, TLC

Faults(kinds) == [k \in FaultKinds |-> IF k \in kinds THEN 1 ELSE 0]

NoFaults   == Faults({})
\* Elasticsearch may fail as often as a job has attempts, and a worker may die
\* once more than a job may stall.
AllFaults  == [Faults(FaultKinds) EXCEPT !["es"] = 2, !["crash"] = 2]
\* At most two kinds of fault in a behaviour, every pair, at every step.
TwoFaults == Cardinality({k \in FaultKinds : left[k] < Budget[k]}) <= 2

WipeOnce   == Faults({"wipe"})

Symmetry == Permutations(Emails) \cup Permutations(Procs)
===============================================================================
