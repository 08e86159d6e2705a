------------------------------- MODULE MCSession -------------------------------
(* Small instances of Session for TLC. *)
EXTENDS Session, TLC

\* /me may fail once more often than it is tried again.
Allow(kinds) ==
  [k \in BoundedKinds |-> IF k \notin kinds THEN 0 ELSE IF k = "me" THEN Retries + 1 ELSE 1]

All   == Allow(BoundedKinds)
Quiet == Allow({"user", "poll"})

\* One kind of disturbance in a behaviour: combinations of them do not interact.
OneDisturbance == Cardinality({k \in BoundedKinds \ {"poll"} : left[k] < Budget[k]}) <= 1

Symmetry == Permutations(Tabs) \cup Permutations(Accounts)
===============================================================================
