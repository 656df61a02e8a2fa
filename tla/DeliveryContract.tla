--------------------------- MODULE DeliveryContract ---------------------------
(***************************************************************************)
(* What a Webhook Delivery promises its observers, whatever the workers,   *)
(* the Owner and the crashes do: a life cycle with final states, a bounded *)
(* number of tries that only a run consumes, and redrives of failed        *)
(* deliveries that were tried at least once.  A refused delivery (queue    *)
(* full, no body kept) is failed without a try and stays so.               *)
(* Several deliveries may move in one step (disable, revoke, recovery).    *)
(***************************************************************************)
EXTENDS Naturals

CONSTANTS Delivery, AttemptBudget, RedriveBudget

VARIABLES state, tries, redriven

cvars == <<state, tries, redriven>>

States == {"absent", "pruned", "pending", "running", "succeeded", "failed",
           "cancelled"}

Init ==
  /\ state    = [d \in Delivery |-> "absent"]
  /\ tries    = [d \in Delivery |-> 0]
  /\ redriven = [d \in Delivery |-> 0]

Goes(d, from, to) == state[d] \in from /\ state'[d] \in to
Keeps(d)  == tries'[d] = tries[d] /\ redriven'[d] = redriven[d]

Accept(d) == Goes(d, {"absent"}, {"pending", "failed"}) /\ Keeps(d)

Run(d) == /\ Goes(d, {"pending"}, {"running"})
          /\ tries[d] < AttemptBudget /\ tries'[d] = tries[d] + 1
          /\ redriven'[d] = redriven[d]

\* The run ends, is interrupted, or the waiting delivery is given up.
Settle(d) ==
  /\ Keeps(d)
  /\ \/ Goes(d, {"running"}, {"pending", "succeeded", "failed", "cancelled"})
     \/ Goes(d, {"pending"}, {"cancelled"})
     \/ Goes(d, {"pending"}, {"failed"}) /\ tries[d] > 0

Redrive(d) == /\ Goes(d, {"failed"}, {"pending"})
              /\ 0 < tries[d] /\ tries[d] < AttemptBudget
              /\ tries'[d] = tries[d]
              /\ redriven[d] < RedriveBudget /\ redriven'[d] = redriven[d] + 1

Prune(d) == Goes(d, {"succeeded", "failed", "cancelled"}, {"pruned"}) /\ Keeps(d)

Stay(d) == state'[d] = state[d] /\ Keeps(d)

Next ==
  /\ state' \in [Delivery -> States]
  /\ tries' \in [Delivery -> Nat] /\ redriven' \in [Delivery -> Nat]
  /\ \A d \in Delivery : \/ Accept(d) \/ Run(d) \/ Settle(d)
                         \/ Redrive(d) \/ Prune(d) \/ Stay(d)

Spec == Init /\ [][Next]_cvars

=============================================================================
