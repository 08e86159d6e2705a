------------------------------- MODULE MCSearch -------------------------------
(* Small instances of Search for TLC: two mails of the user and one of another, *)
(* subjects and recipients as words.                                            *)
EXTENDS Search, TLC

CONSTANTS e1, e2, e3, me, other

AllRows == {e1, e2, e3}

Post(owner, seq, subject, recipient) ==
  [owner |-> owner, seq |-> seq, fields |-> {subject, <<recipient>>}]

\* One campaign of the user and one of somebody else.
Posts == e1 :> Post(me, 0, <<"hello", "world">>, "ann") @@
         e2 :> Post(me, 1, <<"hello", "world">>, "annex") @@
         e3 :> Post(other, 0, <<"hello", "you">>, "ann")

Places == e1 :> {<<"none", 1>>, <<"scheduled", 1>>, <<"scheduled", 2>>} @@
          e2 :> {<<"scheduled", 1>>, <<"scheduled", 2>>, <<"sent", 1>>} @@
          e3 :> {<<"scheduled", 1>>}

Parts == {<<"ann", "annex">>}

Hello   == {<< >>, <<"hello">>}
Ann     == {<< >>, <<"ann">>}

Allow(steps, kinds) ==
  [k \in BoundedKinds |-> CASE k = "user" -> steps [] k \in kinds -> 1 [] OTHER -> 0]

Outages == Allow(2, {"outage"})
All     == Allow(2, BoundedKinds)
\* Elasticsearch fails, or a row is re-parked, or one moves; a move leaves the
\* user one step.
OneDisturbance ==
  /\ Cardinality({k \in BoundedKinds \ {"user"} : left[k] < Budget[k]}) <= 1
  /\ left["move"] < Budget["move"] => left["user"] >= 1
===============================================================================
