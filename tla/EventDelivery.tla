----------------------------- MODULE EventDelivery -----------------------------
(***************************************************************************)
(* What the transactional outbox of the HCI simulator promises: an event   *)
(* committed with its business state is delivered at least once, is taken  *)
(* for delivered only when it was, and is never dropped in silence.        *)
(***************************************************************************)
CONSTANT Events

VARIABLES
  state,     \* of each event: "none", "accepted", "acknowledged" or "abandoned"
  delivered  \* events the sink has received, once or more

vars == <<state, delivered>>

Init == state = [e \in Events |-> "none"] /\ delivered = {}

\* One transaction may commit several events.
Accept(S) ==
  /\ \A e \in S : state[e] = "none"
  /\ state' = [e \in Events |-> IF e \in S THEN "accepted" ELSE state[e]]
  /\ UNCHANGED delivered

\* A sender that was given up for dead may still deliver.
Deliver(e) ==
  /\ state[e] # "none"
  /\ delivered' = delivered \cup {e}
  /\ UNCHANGED state

Acknowledge(e) ==
  /\ state[e] = "accepted" /\ e \in delivered
  /\ state' = [state EXCEPT ![e] = "acknowledged"]
  /\ UNCHANGED delivered

\* Left for an operator, and visible as such.
Abandon(S) ==
  /\ \A e \in S : state[e] = "accepted"
  /\ state' = [e \in Events |-> IF e \in S THEN "abandoned" ELSE state[e]]
  /\ UNCHANGED delivered

Next ==
  \/ \E S \in SUBSET Events : Accept(S) \/ Abandon(S)
  \/ \E e \in Events : Deliver(e) \/ Acknowledge(e)

Spec == Init /\ [][Next]_vars

================================================================================
