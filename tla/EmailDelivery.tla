----------------------------- MODULE EmailDelivery -----------------------------
(***************************************************************************)
(* What the scheduler promises about an email, without jobs, workers or    *)
(* retries: once committed it is handed to the SMTP server at most once    *)
(* and ends as 'sent' if it was and as 'failed' if it was not.             *)
(***************************************************************************)
EXTENDS Naturals

CONSTANT Emails

VARIABLES
  state,     \* "absent", "pending", "sent" or "failed"
  delivered  \* how often the SMTP server took the email

Init ==
  /\ state = [e \in Emails |-> "absent"]
  /\ delivered = [e \in Emails |-> 0]

\* A campaign commits some rows at once.
Submit ==
  \E rows \in SUBSET Emails :
    /\ \A e \in rows : state[e] = "absent"
    /\ state' = [e \in Emails |-> IF e \in rows THEN "pending" ELSE state[e]]
    /\ UNCHANGED delivered

Deliver(e) ==
  /\ state[e] = "pending" /\ delivered[e] = 0
  /\ delivered' = [delivered EXCEPT ![e] = 1]
  /\ UNCHANGED state

RecordSent(e) ==
  /\ state[e] = "pending" /\ delivered[e] = 1
  /\ state' = [state EXCEPT ![e] = "sent"]
  /\ UNCHANGED delivered

GiveUp(e) ==
  /\ state[e] = "pending" /\ delivered[e] = 0
  /\ state' = [state EXCEPT ![e] = "failed"]
  /\ UNCHANGED delivered

Progress(e) == Deliver(e) \/ RecordSent(e) \/ GiveUp(e)

Next == Submit \/ \E e \in Emails : Progress(e)

Spec == Init /\ [][Next]_<<state, delivered>>

\* The promise's liveness: a pending email is resolved.
Fairness == \A e \in Emails : WF_<<state, delivered>>(Progress(e))
===============================================================================
