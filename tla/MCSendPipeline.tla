---------------------------- MODULE MCSendPipeline ----------------------------
(* Small instances of SendPipeline for TLC. *)
EXTENDS SendPipeline, TLC

Faults(kinds) == [k \in FaultKinds |-> IF k \in kinds THEN 1 ELSE 0]

AllFaults  == Faults(FaultKinds)
ApiOnce    == Faults({"api"})
CrashOnce  == Faults({"crash"})
StoreOnce  == Faults({"store"})
WipeOnce   == Faults({"wipe"})
RestartOnce == Faults({"restart"})

\* At most two faults in a behaviour, of any two kinds but a lost lock together
\* with a lost Redis, a pair that costs as much as all the others.
TwoFaults ==
  /\ Cardinality({k \in FaultKinds : left[k] < Budget[k]}) <= 2
  /\ ~(Used({"lock"}) /\ Used({"wipe"}))

Symmetry == Permutations(Emails) \cup Permutations(Procs)
===============================================================================
