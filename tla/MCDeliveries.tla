----------------------------- MODULE MCDeliveries -----------------------------
(* The instance of Deliveries for TLC: three deliveries of changed Records,  *)
(* and fewer with a replaced Webhook, tests and Jobs, a redrive or a crash;  *)
(* the third while nothing is being cancelled.                               *)
(* Scope cuts off steps of the Owner, of triggers and crashes only, to which *)
(* no fairness is owed.                                                      *)
EXTENDS Deliveries, TLC

CONSTANTS w1, s1, k1, k2

Others   == {d \in Existing : source[d] # "eventHook"}
Redriven == \E d \in Delivery : redrives[d] > 0

Scope == /\ revision[w1] > 1 => next <= 2 /\ Others = {}
         /\ Others # {} \/ crashes > 0 => next <= 2
         /\ Redriven => next <= 2
         /\ next > 3 => cancelling = {} /\ secrets = Secret

=============================================================================
