--------------------------- MODULE AutomationProofs ---------------------------
(***************************************************************************)
(* Proofs about the two components of internal/automation that share its   *)
(* transactions, Deliveries and JobSchedule, for every value of their      *)
(* constants.                                                              *)
(*                                                                         *)
(* Of Deliveries the inductive invariant is IInv: the types, who owns a    *)
(* running delivery, and what a waiting or failed delivery has behind it;  *)
(* capacity and budgets are inductive together with it.                    *)
(*                                                                         *)
(* Of JobSchedule it is JobIInv, which adds what is known of the time to   *)
(* the two safety properties: the instant that the scheduler has read and  *)
(* the slots that have a Delivery lie in the past (Past), the slot that an *)
(* edit has computed lies after all of the Job that the scheduler has      *)
(* consumed, unless it overtook the edit (EditAhead), and no slot was due  *)
(* when the scheduler last left it (LeftNotDue).                           *)
(***************************************************************************)
EXTENDS Deliveries, JobSchedule, FiniteSetTheorems, WellFoundedInduction, TLAPS

USE DeliveriesAssumption

-----------------------------------------------------------------------------
(* Deliveries. *)

LEMMA BudgetTypes ==
  /\ RoundBudget \in Nat /\ RoundBudget > 0
  /\ AttemptBudget \in Nat /\ AttemptBudget > 0
  OBVIOUS

LEMMA ChosenDefaults ==
  /\ (CHOOSE src \in Source : TRUE) \in Source
  /\ (CHOOSE w \in Webhook : TRUE) \in Webhook
  /\ (CHOOSE s \in Secret : TRUE) \in Secret
  OBVIOUS

LEMMA IdleIsTyped == Idle \in WorkerState
  BY DEF Idle, WorkerState, Phase, Failure, Outcome

(* What a step outside the transactions makes of a worker stays typed. *)
LEMMA BecomesTyped ==
  ASSUME ProcessTypeOK, NEW k \in Worker, NEW to \in WorkerState, Becomes(k, to)
  PROVE  ProcessTypeOK'
  BY DEF ProcessTypeOK, Becomes

LEMMA GotoTyped ==
  ASSUME ProcessTypeOK, NEW k \in Worker, NEW p \in Phase, Goto(k, p)
  PROVE  ProcessTypeOK'
  <1>1. [worker[k] EXCEPT !.phase = p] \in WorkerState
    BY DEF ProcessTypeOK, WorkerState
  <1> QED BY <1>1, BecomesTyped DEF Goto

LEMMA ErrTyped ==
  ASSUME ProcessTypeOK, NEW k \in Worker, NEW f \in Failure, Err(k, f)
  PROVE  ProcessTypeOK'
  <1>1. [worker[k] EXCEPT !.phase = "erred", !.failure = f] \in WorkerState
    BY DEF ProcessTypeOK, WorkerState, Phase
  <1> QED BY <1>1, BecomesTyped DEF Err

LEMMA DoneTyped ==
  ASSUME ProcessTypeOK, NEW k \in Worker, NEW o \in Outcome, Done(k, o)
  PROVE  ProcessTypeOK'
  <1>1. [worker[k] EXCEPT !.phase = "done", !.outcome = o] \in WorkerState
    BY DEF ProcessTypeOK, WorkerState, Phase
  <1> QED BY <1>1, BecomesTyped DEF Done

LEMMA UnchangedTypes ==
  /\ WebhookTypeOK /\ UNCHANGED webhookVars => WebhookTypeOK'
  /\ DeliveryTypeOK /\ UNCHANGED deliveryVars => DeliveryTypeOK'
  /\ ProcessTypeOK /\ UNCHANGED processVars => ProcessTypeOK'
  <1>1. WebhookTypeOK /\ UNCHANGED webhookVars => WebhookTypeOK'
    BY DEF WebhookTypeOK, webhookVars
  <1>2. DeliveryTypeOK /\ UNCHANGED deliveryVars => DeliveryTypeOK'
    BY DEF DeliveryTypeOK, deliveryVars
  <1>3. ProcessTypeOK /\ UNCHANGED processVars => ProcessTypeOK'
    BY DEF ProcessTypeOK, processVars
  <1> QED BY <1>1, <1>2, <1>3

(* The steps of a worker between two transactions. *)
WorkerSteps(k) == \/ CheckBlock(k) \/ ReadSecret(k) \/ PostRequest(k)
                  \/ Answer(k) \/ ClassifyError(k)

(* The steps of a worker on service.active. *)
Bookkeeping(k) == RegisterActive(k) \/ UnregisterActive(k)

LEMMA WorkerStepTyped ==
  ASSUME ProcessTypeOK, NEW k \in Worker, WorkerSteps(k)
  PROVE  ProcessTypeOK' /\ UNCHANGED <<webhookVars, deliveryVars>>
  <1>2. CASE CheckBlock(k)
    BY <1>2, GotoTyped, DoneTyped DEF CheckBlock, Goto, Done, Becomes, Phase, Outcome
  <1>3. CASE ReadSecret(k)
    BY <1>3, GotoTyped, ErrTyped DEF ReadSecret, Goto, Err, Becomes, Phase, Failure
  <1>4. CASE PostRequest(k)
    BY <1>4, GotoTyped, ErrTyped DEF PostRequest, Goto, Err, Becomes, Phase, Failure
  <1>5. CASE Answer(k)
    BY <1>5, ErrTyped, DoneTyped DEF Answer, Done, Err, Becomes, Failure, Outcome
  <1>6. CASE ClassifyError(k)
    BY <1>6, DoneTyped DEF ClassifyError, Done, Becomes, Outcome
  <1> QED BY <1>2, <1>3, <1>4, <1>5, <1>6 DEF WorkerSteps

LEMMA BookkeepingStep ==
  ASSUME ProcessTypeOK, NEW k \in Worker, Bookkeeping(k)
  PROVE  /\ ProcessTypeOK'
         /\ UNCHANGED <<webhookVars, deliveryVars, up, cancelled, cancelling>>
         /\ \A j \in Worker : j # k => worker'[j] = worker[j]
         /\ \/ /\ worker[k].phase = "claimed" /\ worker'[k].phase = "registered"
               /\ worker'[k].d = worker[k].d
               /\ worker'[k].round = worker[k].round
               /\ worker'[k].attempt = worker[k].attempt
            \/ worker[k].phase = "leaving" /\ worker'[k] = Idle
  <1>0. worker[k] \in WorkerState
    BY DEF ProcessTypeOK
  <1>1. CASE RegisterActive(k)
    <2>1. [worker[k] EXCEPT !.phase = "registered"] \in WorkerState
      BY <1>0 DEF WorkerState, Phase
    <2>2. /\ worker'[k] = [worker[k] EXCEPT !.phase = "registered"]
          /\ \A j \in Worker : j # k => worker'[j] = worker[j]
          /\ worker' \in [Worker -> WorkerState]
      BY <1>1, <2>1 DEF RegisterActive, ProcessTypeOK
    <2>3. active' \subseteq Worker
      BY <1>1 DEF RegisterActive, ProcessTypeOK
    <2>4. /\ worker'[k].phase = "registered" /\ worker'[k].d = worker[k].d
          /\ worker'[k].round = worker[k].round
          /\ worker'[k].attempt = worker[k].attempt
      BY <1>0, <2>2 DEF WorkerState
    <2> QED BY <1>1, <2>2, <2>3, <2>4 DEF RegisterActive, ProcessTypeOK, At
  <1>2. CASE UnregisterActive(k)
    <2>1. /\ worker'[k] = Idle
          /\ \A j \in Worker : j # k => worker'[j] = worker[j]
          /\ worker' \in [Worker -> WorkerState]
      BY <1>2, IdleIsTyped DEF UnregisterActive, ProcessTypeOK
    <2>2. active' \subseteq Worker /\ displaced' \subseteq Worker
      BY <1>2 DEF UnregisterActive, ProcessTypeOK, Entry
    <2> QED BY <1>2, <2>1, <2>2 DEF UnregisterActive, ProcessTypeOK, At
  <1> QED BY <1>1, <1>2 DEF Bookkeeping

LEMMA InitTypeOK == Init => TypeOK
  <1> SUFFICES ASSUME Init PROVE TypeOK
    OBVIOUS
  <1>1. WebhookTypeOK
    BY DEF Init, WebhookTypeOK
  <1>2. DeliveryTypeOK
    BY ChosenDefaults DEF Init, DeliveryTypeOK, Delivery, Round, Attempt,
       Status, AttemptStatus
  <1>3. ProcessTypeOK
    BY IdleIsTyped DEF Init, ProcessTypeOK
  <1> QED BY <1>1, <1>2, <1>3 DEF TypeOK

LEMMA CancelUnstartedTyped ==
  ASSUME DeliveryTypeOK, NEW S, CancelUnstarted(S)
  PROVE  DeliveryTypeOK'
  BY DEF DeliveryTypeOK, CancelUnstarted, Status, Terminal

LEMMA OwnerStepTyped ==
  ASSUME TypeOK, Owner
  PROVE  TypeOK'
  <1>1. ASSUME NEW w \in Webhook, NEW s \in Secret, ReplaceWebhook(w, s)
        PROVE  TypeOK'
    <2>1. WebhookTypeOK'
      BY <1>1 DEF TypeOK, WebhookTypeOK, ReplaceWebhook
    <2> QED BY <2>1, <1>1, UnchangedTypes DEF TypeOK, ReplaceWebhook
  <1>2. ASSUME NEW w \in Webhook, EnableWebhook(w)
        PROVE  TypeOK'
    <2>1. WebhookTypeOK'
      BY <1>2 DEF TypeOK, WebhookTypeOK, EnableWebhook
    <2> QED BY <2>1, <1>2, UnchangedTypes DEF TypeOK, EnableWebhook
  <1>3. ASSUME NEW w \in Webhook, DisableWebhook(w)
        PROVE  TypeOK'
    <2>1. WebhookTypeOK'
      BY <1>3 DEF TypeOK, WebhookTypeOK, DisableWebhook
    <2>2. DeliveryTypeOK'
      BY <1>3, CancelUnstartedTyped DEF TypeOK, DisableWebhook
    <2>a. <<w, FALSE>> \in Webhook \X BOOLEAN
      OBVIOUS
    <2>3. ProcessTypeOK'
      BY <1>3, <2>a DEF TypeOK, ProcessTypeOK, DisableWebhook
    <2> QED BY <2>1, <2>2, <2>3 DEF TypeOK
  <1>4. ASSUME NEW s \in Secret, DeleteSecret(s)
        PROVE  TypeOK'
    <2>1. WebhookTypeOK'
      BY <1>4 DEF TypeOK, WebhookTypeOK, DeleteSecret, RevokeSecretInTransaction
    <2>2. DeliveryTypeOK'
      BY <1>4, CancelUnstartedTyped
         DEF TypeOK, DeleteSecret, RevokeSecretInTransaction
    <2>3. ProcessTypeOK'
      BY <1>4 DEF TypeOK, ProcessTypeOK, DeleteSecret
    <2> QED BY <2>1, <2>2, <2>3 DEF TypeOK
  <1>5. ASSUME NEW d \in Delivery, RetryDelivery(d)
        PROVE  TypeOK'
    <2> USE <1>5 DEF TypeOK, DeliveryTypeOK, RetryDelivery
    <2>a. [secret |-> signing[target[d]], revision |-> revision[target[d]]]
             \in [secret: Secret, revision: Nat]
      BY DEF WebhookTypeOK
    <2>b. snapshot' \in [Delivery -> [Round -> [secret: Secret, revision: Nat]]]
      BY <2>a
    <2>c. rounds' \in [Delivery -> 0 .. MaxRounds]
      OBVIOUS
    <2>d. redrives' \in [Delivery -> 0 .. RedriveBudget]
      BY DEF Redrivable
    <2>e. status' \in [Delivery -> Status] /\ due' \in [Delivery -> BOOLEAN]
      BY DEF Status, Live
    <2>1. DeliveryTypeOK'
      BY <2>b, <2>c, <2>d, <2>e
    <2> QED BY <2>1, <1>5, UnchangedTypes DEF TypeOK, RetryDelivery
  <1> QED BY <1>1, <1>2, <1>3, <1>4, <1>5 DEF Owner

LEMMA TriggerCreates ==
  ASSUME Trigger
  PROVE  \E src \in Source, w \in Webhook : CreateDelivery(src, w)
  <1>1. PICK w \in Webhook : \/ AppendIntent(w) \/ CreateJobDelivery(w)
                             \/ RunJobOnce(w) \/ CreateTestDelivery(w)
    BY DEF Trigger
  <1>2. CASE AppendIntent(w)
    BY <1>2, Zenon DEF AppendIntent
  <1>3. CASE CreateJobDelivery(w) \/ RunJobOnce(w)
    BY <1>3, Zenon DEF CreateJobDelivery, RunJobOnce
  <1>4. CASE CreateTestDelivery(w)
    BY <1>4, Zenon DEF CreateTestDelivery
  <1> QED BY <1>1, <1>2, <1>3, <1>4

LEMMA CreateDeliveryTyped ==
  ASSUME TypeOK, NEW src \in Source, NEW w \in Webhook, CreateDelivery(src, w)
  PROVE  TypeOK'
  <1> USE DEF TypeOK, DeliveryTypeOK, CreateDelivery
  <1>a. next' \in 1 .. MaxDeliveries + 1
    <2>1. next \in 1 .. MaxDeliveries /\ next' = next + 1
      BY DEF Delivery
    <2> QED BY <2>1, DeliveriesAssumption
  <1>b. [secret |-> signing[w], revision |-> revision[w]]
           \in [secret: Secret, revision: Nat]
    BY DEF WebhookTypeOK
  <1>c. snapshot' \in [Delivery -> [Round -> [secret: Secret, revision: Nat]]]
    BY <1>b
  <1>d. rounds' \in [Delivery -> 0 .. MaxRounds]
    OBVIOUS
  <1>e. status' \in [Delivery -> Status]
    BY DEF Status, Live, Terminal
  <1>f. /\ source' \in [Delivery -> Source] /\ target' \in [Delivery -> Webhook]
        /\ payload' \in [Delivery -> BOOLEAN] /\ due' \in [Delivery -> BOOLEAN]
    OBVIOUS
  <1>1. DeliveryTypeOK'
    BY <1>a, <1>c, <1>d, <1>e, <1>f
  <1> QED BY <1>1, UnchangedTypes DEF TypeOK, CreateDelivery

LEMMA CancellationStepTyped ==
  ASSUME TypeOK, Cancellation
  PROVE  TypeOK'
  <1>1. ASSUME NEW s \in Secret, SecretRevoked(s)
        PROVE  TypeOK'
    <2>a. \A v \in Webhook : <<v, TRUE>> \in Webhook \X BOOLEAN
      OBVIOUS
    <2>b. {<<v, TRUE>> : v \in {u \in Webhook : signing[u] = s}}
             \subseteq Webhook \X BOOLEAN
      BY <2>a
    <2>c. cancelling' \subseteq Webhook \X BOOLEAN
      BY <1>1, <2>b DEF TypeOK, ProcessTypeOK, SecretRevoked
    <2>1. ProcessTypeOK'
      BY <1>1, <2>c DEF TypeOK, ProcessTypeOK, SecretRevoked
    <2> QED BY <2>1, <1>1, UnchangedTypes DEF TypeOK, SecretRevoked
  <1>2. ASSUME NEW w \in Webhook, NEW tests \in BOOLEAN,
               CancelWebhook(w, tests)
        PROVE  TypeOK'
    <2>1. ProcessTypeOK'
      BY <1>2 DEF TypeOK, ProcessTypeOK, CancelWebhook
    <2> QED BY <2>1, <1>2, UnchangedTypes DEF TypeOK, CancelWebhook
  <1> QED BY <1>1, <1>2 DEF Cancellation

LEMMA ClaimedTyped ==
  ASSUME NEW d \in 0 .. MaxDeliveries, NEW r \in 0 .. MaxRounds,
         NEW a \in 0 .. AttemptBudget
  PROVE  [phase |-> "claimed", d |-> d, round |-> r, attempt |-> a,
          failure |-> "none", outcome |-> "none"] \in WorkerState
  BY DEF WorkerState, Phase, Failure, Outcome

LEMMA ClaimDeliveryTyped ==
  ASSUME TypeOK, NEW k \in Worker, NEW d \in Delivery, ClaimDelivery(k, d)
  PROVE  TypeOK'
  <1>1. CASE \E to \in {"cancelled", "failed"} : GiveUp(d, to)
    <2>1. DeliveryTypeOK'
      BY <1>1 DEF TypeOK, DeliveryTypeOK, GiveUp, Status, Terminal
    <2>2. ProcessTypeOK'
      BY <1>1 DEF TypeOK, ProcessTypeOK, GiveUp, ClaimDelivery
    <2> QED BY <2>1, <2>2, UnchangedTypes DEF TypeOK, ClaimDelivery
  <1>2. CASE StartAttempt(k, d) /\ ~BudgetSpent(d)
    <2>a. attempts' \in [Delivery -> [Attempt -> AttemptStatus]]
      BY <1>2 DEF TypeOK, DeliveryTypeOK, StartAttempt, AttemptStatus
    <2>b. started' \in [Delivery -> [Round -> 0 .. RoundBudget]]
      <3>1. CASE rounds[d] \in Round
        BY <3>1, <1>2 DEF TypeOK, DeliveryTypeOK, StartAttempt, BudgetSpent,
           CurrentRound
      <3>2. CASE rounds[d] \notin Round
        <4>1. started' = started
          BY <3>2, <1>2 DEF TypeOK, DeliveryTypeOK, StartAttempt
        <4> QED BY <4>1 DEF TypeOK, DeliveryTypeOK
      <3> QED BY <3>1, <3>2
    <2>c. attemptCount' \in [Delivery -> 0 .. AttemptBudget]
      BY <1>2 DEF TypeOK, DeliveryTypeOK, StartAttempt, BudgetSpent
    <2>d. status' \in [Delivery -> Status] /\ due' \in [Delivery -> BOOLEAN]
      BY <1>2 DEF TypeOK, DeliveryTypeOK, StartAttempt, Status, Live
    <2>1. DeliveryTypeOK'
      BY <1>2, <2>a, <2>b, <2>c, <2>d DEF TypeOK, DeliveryTypeOK, StartAttempt
    <2>2. Claimed(d) \in WorkerState
      <3>1. attemptCount[d] + 1 \in 0 .. AttemptBudget
        BY <1>2 DEF TypeOK, DeliveryTypeOK, BudgetSpent
      <3>2. rounds[d] \in 0 .. MaxRounds
        BY DEF TypeOK, DeliveryTypeOK
      <3>3. d \in 0 .. MaxDeliveries
        BY DEF Delivery
      <3> QED
        BY <3>1, <3>2, <3>3, ClaimedTyped DEF Claimed
    <2>3. ProcessTypeOK'
      BY <1>2, <2>2 DEF TypeOK, ProcessTypeOK, StartAttempt, ClaimDelivery
    <2> QED BY <2>1, <2>3, UnchangedTypes DEF TypeOK, ClaimDelivery
  <1> QED BY <1>1, <1>2 DEF ClaimDelivery

LEMMA FinishAttemptTyped ==
  ASSUME TypeOK, NEW k \in Worker, FinishAttempt(k)
  PROVE  TypeOK'
  <1>1. worker[k].outcome \in Outcome
    BY DEF TypeOK, ProcessTypeOK, WorkerState
  <1>a. attempts' \in [Delivery -> [Attempt -> AttemptStatus]]
    BY <1>1 DEF TypeOK, DeliveryTypeOK, FinishAttempt, Outcome, AttemptStatus
  <1>b. status' \in [Delivery -> Status]
    BY <1>1 DEF TypeOK, DeliveryTypeOK, FinishAttempt, Outcome, Status, Live,
       Terminal
  <1>2. DeliveryTypeOK'
    BY <1>a, <1>b DEF TypeOK, DeliveryTypeOK, FinishAttempt
  <1>c. Leaving(worker[k].d) \in WorkerState
    BY IdleIsTyped DEF Leaving, WorkerState, Phase, TypeOK, ProcessTypeOK
  <1>3. ProcessTypeOK'
    BY <1>c DEF TypeOK, ProcessTypeOK, FinishAttempt
  <1> QED BY <1>2, <1>3, UnchangedTypes DEF TypeOK, FinishAttempt

LEMMA StopStartTyped ==
  ASSUME TypeOK, Crash \/ Restart
  PROVE  TypeOK'
  <1>1. CASE Crash
    <2>a. crashes' \in 0 .. MaxCrashes
      BY <1>1 DEF TypeOK, ProcessTypeOK, Crash
    <2>b. worker' \in [Worker -> WorkerState]
      BY <1>1, IdleIsTyped DEF Crash
    <2>1. ProcessTypeOK'
      BY <1>1, <2>a, <2>b DEF TypeOK, ProcessTypeOK, Crash
    <2> QED BY <2>1, <1>1, UnchangedTypes DEF TypeOK, Crash
  <1>2. CASE Restart
    <2>1. DeliveryTypeOK'
      BY <1>2 DEF TypeOK, DeliveryTypeOK, Restart, Recovered, RecoveredRow,
         Status, Live, Terminal, AttemptStatus
    <2>2. ProcessTypeOK'
      BY <1>2 DEF TypeOK, ProcessTypeOK, Restart
    <2> QED BY <2>1, <2>2, <1>2, UnchangedTypes DEF TypeOK, Restart
  <1> QED BY <1>1, <1>2

LEMMA NextTypeOK == TypeOK /\ [Next]_vars => TypeOK'
  <1> SUFFICES ASSUME TypeOK, [Next]_vars PROVE TypeOK'
    OBVIOUS
  <1>1. CASE Owner
    BY <1>1, OwnerStepTyped
  <1>2. CASE Trigger
    BY <1>2, TriggerCreates, CreateDeliveryTyped
  <1>3. CASE Cancellation
    BY <1>3, CancellationStepTyped
  <1>4. ASSUME NEW d \in Delivery, DelayElapses(d)
        PROVE  TypeOK'
    <2>1. DeliveryTypeOK'
      BY <1>4 DEF TypeOK, DeliveryTypeOK, DelayElapses
    <2> QED BY <2>1, <1>4, UnchangedTypes DEF TypeOK, DelayElapses
  <1>5. ASSUME NEW k \in Worker, Claim(k) \/ Process(k)
        PROVE  TypeOK'
    <2>1. CASE Claim(k)
      BY <2>1, ClaimDeliveryTyped DEF Claim
    <2>2. CASE WorkerSteps(k)
      BY <2>2, WorkerStepTyped, UnchangedTypes DEF TypeOK
    <2>3. CASE FinishAttempt(k)
      BY <2>3, FinishAttemptTyped
    <2>4. CASE Bookkeeping(k)
      BY <2>4, BookkeepingStep, UnchangedTypes DEF TypeOK
    <2> QED
      BY <1>5, <2>1, <2>2, <2>3, <2>4 DEF Process, WorkerSteps, Bookkeeping
  <1>6. CASE Crash \/ Restart
    BY <1>6, StopStartTyped
  <1>7. CASE UNCHANGED vars
    BY <1>7, UnchangedTypes DEF TypeOK, vars
  <1> QED BY <1>1, <1>2, <1>3, <1>4, <1>5, <1>6, <1>7 DEF Next

(* Every reachable state is well typed; in particular no delivery exceeds  *)
(* its attempts, no round its budget, and no delivery its redrives.        *)
THEOREM TypeCorrect == Spec => []TypeOK
  BY InitTypeOK, NextTypeOK, PTL DEF Spec

-----------------------------------------------------------------------------
(* Who owns a running delivery, and what a delivery has behind it. *)

IInv == TypeOK /\ AttemptOwnership /\ Standing

ownership == <<up, worker, status, attemptCount, rounds, attempts>>
standing  == <<next, status, payload, attemptCount, rounds, started>>

LEMMA OwnershipKept ==
  AttemptOwnership /\ UNCHANGED ownership => AttemptOwnership'
  BY DEF AttemptOwnership, ownership, Busy

LEMMA StandingKept == Standing /\ UNCHANGED standing => Standing'
  BY DEF Standing, standing

LEMMA InitIInv == Init => IInv
  <1> SUFFICES ASSUME Init PROVE IInv
    OBVIOUS
  <1>1. TypeOK
    BY InitTypeOK
  <1>2. AttemptOwnership
    BY DEF Init, AttemptOwnership, Busy, Idle
  <1>3. Standing
    BY DEF Init, Standing, Live
  <1> QED BY <1>1, <1>2, <1>3 DEF IInv

(* Cancelling what waits touches no running delivery. *)
LEMMA CancelUnstartedKeeps ==
  ASSUME IInv, NEW S, CancelUnstarted(S), UNCHANGED <<up, worker>>
  PROVE  AttemptOwnership' /\ Standing'
  <1>1. \A d \in Delivery : status'[d] = "running" <=> status[d] = "running"
    BY DEF CancelUnstarted
  <1>2. \A d \in Delivery : /\ status'[d] \in Live => status[d] \in Live
                            /\ status'[d] = "failed" => status[d] = "failed"
                            /\ status[d] = "absent" => status'[d] = "absent"
    BY DEF CancelUnstarted, Live
  <1>3. AttemptOwnership'
    BY <1>1 DEF IInv, AttemptOwnership, Busy, CancelUnstarted
  <1>4. Standing'
    BY <1>1, <1>2 DEF IInv, Standing, CancelUnstarted
  <1> QED BY <1>3, <1>4

LEMMA OwnerKeeps ==
  ASSUME IInv, Owner
  PROVE  AttemptOwnership' /\ Standing'
  <1>1. CASE \E w \in Webhook :
                EnableWebhook(w) \/ \E s \in Secret : ReplaceWebhook(w, s)
    BY <1>1, OwnershipKept, StandingKept
       DEF IInv, EnableWebhook, ReplaceWebhook, ownership, standing,
           deliveryVars, processVars
  <1>2. CASE \E w \in Webhook : DisableWebhook(w)
    BY <1>2, CancelUnstartedKeeps DEF DisableWebhook
  <1>3. CASE \E s \in Secret : DeleteSecret(s)
    BY <1>3, CancelUnstartedKeeps DEF DeleteSecret, RevokeSecretInTransaction
  <1>4. ASSUME NEW d \in Delivery, RetryDelivery(d)
        PROVE  AttemptOwnership' /\ Standing'
    <2>1. status[d] = "failed" /\ payload[d] /\ attemptCount[d] > 0
      BY <1>4 DEF RetryDelivery, Redrivable, IInv, Standing
    <2>2. AttemptOwnership'
      BY <1>4, <2>1 DEF IInv, TypeOK, DeliveryTypeOK, AttemptOwnership, Busy,
         RetryDelivery, processVars
    <2>3. Standing'
      BY <1>4, <2>1 DEF IInv, TypeOK, DeliveryTypeOK, Standing, RetryDelivery, Live
    <2> QED BY <2>2, <2>3
  <1> QED BY <1>1, <1>2, <1>3, <1>4 DEF Owner

LEMMA CreateDeliveryKeeps ==
  ASSUME IInv, NEW src \in Source, NEW w \in Webhook, CreateDelivery(src, w)
  PROVE  AttemptOwnership' /\ Standing'
  <1>1. next \in Delivery /\ status[next] = "absent" /\ next' = next + 1
    BY DEF IInv, Standing, CreateDelivery, Delivery
  <1>2. \A d \in Delivery : d # next =>
          /\ status'[d] \in {status[d], "pruned"}
          /\ status'[d] = "pruned" /\ status[d] # "pruned"
               => status[d] \in Terminal
    BY DEF CreateDelivery, With, Oldest, IInv, TypeOK, DeliveryTypeOK
  <1>3. status'[next] \in {"pending", "failed"}
    BY <1>1 DEF CreateDelivery, IInv, TypeOK, DeliveryTypeOK
  <1>4. \A d \in Delivery : status'[d] = "running" <=> status[d] = "running"
    BY <1>1, <1>2, <1>3 DEF Terminal
  <1>5. AttemptOwnership'
    <2>1. \A d \in Delivery : status[d] = "running" => rounds'[d] = rounds[d]
      BY <1>1 DEF CreateDelivery, IInv, TypeOK, DeliveryTypeOK
    <2> QED BY <1>4, <2>1 DEF IInv, AttemptOwnership, Busy, CreateDelivery,
               processVars
  <1>6. Standing'
    <2> SUFFICES ASSUME NEW d \in Delivery
                 PROVE  /\ d >= next' => status'[d] = "absent"
                        /\ status'[d] \in Live => payload'[d] /\ rounds'[d] > 0
                        /\ status'[d] = "running" => attemptCount'[d] > 0
                        /\ status'[d] = "failed" /\ payload'[d]
                             => attemptCount'[d] > 0
                        /\ \A r \in Round : started'[d][r] <= attemptCount'[d]
      BY DEF Standing
    <2>0. /\ next \in Nat /\ d \in Nat /\ attemptCount' = attemptCount
          /\ started' = started
      BY DEF CreateDelivery, IInv, TypeOK, DeliveryTypeOK, Delivery
    <2>1. CASE d = next
      <3>1. /\ (payload'[d] <=> status'[d] = "pending") /\ rounds'[d] = 1
        BY <2>1, <1>1, <1>3 DEF CreateDelivery, IInv, TypeOK, DeliveryTypeOK
      <3>2. \A r \in Round : started[d][r] <= attemptCount[d]
        BY DEF IInv, Standing
      <3> QED BY <2>0, <2>1, <1>1, <1>3, <3>1, <3>2 DEF Live
    <2>2. CASE d # next
      <3>1. /\ payload'[d] => payload[d]
            /\ rounds'[d] = rounds[d]
            /\ status'[d] # "pruned" => payload'[d] = payload[d]
        BY <2>2, <1>1
           DEF CreateDelivery, With, Oldest, IInv, TypeOK, DeliveryTypeOK
      <3>2. /\ d >= next => status[d] = "absent"
            /\ status[d] \in Live => payload[d] /\ rounds[d] > 0
            /\ status[d] = "running" => attemptCount[d] > 0
            /\ status[d] = "failed" /\ payload[d] => attemptCount[d] > 0
            /\ \A r \in Round : started[d][r] <= attemptCount[d]
        BY DEF IInv, Standing
      <3> QED BY <2>0, <2>2, <1>1, <1>2, <3>1, <3>2 DEF Live, Terminal
    <2> QED BY <2>1, <2>2
  <1> QED BY <1>5, <1>6

LEMMA ClaimDeliveryKeeps ==
  ASSUME IInv, NEW k \in Worker, NEW d \in Delivery, ClaimDelivery(k, d)
  PROVE  AttemptOwnership' /\ Standing'
  <1> USE DEF IInv, TypeOK, DeliveryTypeOK, ProcessTypeOK
  <1>0. status[d] = "pending" /\ payload[d] /\ rounds[d] > 0 /\ up /\ ~Busy(k)
    BY DEF ClaimDelivery, At, Busy, Standing, Live
  <1>1. ASSUME NEW to \in {"cancelled", "failed"}, GiveUp(d, to),
               to = "failed" => BudgetSpent(d)
        PROVE  AttemptOwnership' /\ Standing'
    <2>0. rounds[d] \in 0 .. MaxRounds
      OBVIOUS
    <2>1a. rounds[d] \in Round
      BY <1>0, <2>0 DEF Round
    <2>a. rounds[d] \in Round /\ started[d][rounds[d]] <= attemptCount[d]
      BY <2>1a DEF Standing
    <2>b. started[d][rounds[d]] \in 0 .. RoundBudget
      BY <2>a
    <2>c. attemptCount[d] \in 0 .. AttemptBudget
      OBVIOUS
    <2>1. to = "failed" => attemptCount[d] > 0
      <3>1. BudgetSpent(d) => \/ attemptCount[d] >= AttemptBudget
                             \/ started[d][rounds[d]] >= RoundBudget
        BY DEF BudgetSpent, CurrentRound
      <3>2. started[d][rounds[d]] >= RoundBudget => attemptCount[d] > 0
        BY <2>a, <2>b, <2>c, BudgetTypes
      <3>3. attemptCount[d] >= AttemptBudget => attemptCount[d] > 0
        BY <2>c, BudgetTypes
      <3> QED BY <1>1, <3>1, <3>2, <3>3
    <2>2. AttemptOwnership'
      BY <1>0, <1>1 DEF AttemptOwnership, Busy, GiveUp, ClaimDelivery
    <2>3. Standing'
      BY <1>0, <1>1, <2>1 DEF Standing, GiveUp, Live
    <2> QED BY <2>2, <2>3
  <1>2. CASE StartAttempt(k, d) /\ ~BudgetSpent(d)
    <2>1. attemptCount[d] + 1 \in Attempt
      <3>1. attemptCount[d] \in 0 .. AttemptBudget
        OBVIOUS
      <3>2. ~(attemptCount[d] >= AttemptBudget)
        BY <1>2, Zenon DEF BudgetSpent
      <3> HIDE DEF IInv, TypeOK, DeliveryTypeOK, ProcessTypeOK
      <3> QED BY <3>1, <3>2, BudgetTypes DEF Attempt
    <2>2. \A j \in Worker : Busy(j) => worker[j].d # d
      BY <1>0 DEF AttemptOwnership
    <2>3. /\ worker'[k] = Claimed(d)
          /\ \A j \in Worker : j # k => worker'[j] = worker[j]
      BY <1>2 DEF StartAttempt
    <2>4. /\ status'[d] = "running" /\ attemptCount'[d] = attemptCount[d] + 1
          /\ rounds' = rounds /\ up'
          /\ \A e \in Delivery : e # d => /\ status'[e] = status[e]
                                          /\ attemptCount'[e] = attemptCount[e]
      BY <1>0, <1>2 DEF StartAttempt, ClaimDelivery
    <2>5. \A e \in Delivery, a \in Attempt :
            attempts'[e][a] = IF e = d /\ a = attemptCount[d] + 1
                              THEN "running" ELSE attempts[e][a]
      BY <1>2, <2>1 DEF StartAttempt
    <2>6. AttemptOwnership'
      <3>0. /\ Busy(k)' /\ worker'[k].d = d /\ worker'[k].round = rounds[d]
            /\ worker'[k].attempt = attemptCount[d] + 1
            /\ \A j \in Worker : j # k => (Busy(j)' <=> Busy(j))
        BY <2>3 DEF Busy, Claimed
      <3>1. \A j \in Worker : Busy(j)' =>
              /\ up' /\ worker'[j].d \in Delivery
              /\ status'[worker'[j].d] = "running"
              /\ worker'[j].attempt = attemptCount'[worker'[j].d]
              /\ worker'[j].round = rounds'[worker'[j].d]
        BY <3>0, <2>2, <2>3, <2>4 DEF AttemptOwnership
      <3>2. \A i, j \in Worker :
              Busy(i)' /\ Busy(j)' /\ worker'[i].d = worker'[j].d => i = j
        BY <3>0, <2>2, <2>3 DEF AttemptOwnership
      <3>3. \A e \in Delivery : up' /\ status'[e] = "running" =>
              \E j \in Worker : Busy(j)' /\ worker'[j].d = e
        <4> SUFFICES ASSUME NEW e \in Delivery, status'[e] = "running"
                     PROVE  \E j \in Worker : Busy(j)' /\ worker'[j].d = e
          OBVIOUS
        <4>1. CASE e = d
          BY <4>1, <3>0
        <4>2. CASE e # d
          <5>1. PICK j \in Worker : Busy(j) /\ worker[j].d = e
            BY <4>2, <2>4, <1>0 DEF AttemptOwnership
          <5> QED BY <5>1, <2>3, <3>0, <1>0
        <4> QED BY <4>1, <4>2
      <3>4. \A e \in Delivery, a \in Attempt :
              attempts'[e][a] = "running" <=>
                status'[e] = "running" /\ a = attemptCount'[e]
        <4>1. \A e \in Delivery, a \in Attempt :
                attempts[e][a] = "running" <=>
                  status[e] = "running" /\ a = attemptCount[e]
          BY DEF AttemptOwnership
        <4> SUFFICES ASSUME NEW e \in Delivery, NEW a \in Attempt
                     PROVE  attempts'[e][a] = "running" <=>
                              status'[e] = "running" /\ a = attemptCount'[e]
          OBVIOUS
        <4>2. CASE e = d
          <5>1. attempts[d][a] # "running"
            BY <1>0, <4>1
          <5> QED BY <4>2, <5>1, <2>4, <2>5
        <4>3. CASE e # d
          BY <4>3, <2>4, <2>5, <4>1
        <4> QED BY <4>2, <4>3
      <3> QED BY <3>1, <3>2, <3>3, <3>4 DEF AttemptOwnership
    <2>7. Standing'
      <3>1. \A r \in Round : started'[d][r] <= attemptCount[d] + 1
        BY <1>2 DEF StartAttempt, Standing
      <3>2. \A e \in Delivery : e # d => started'[e] = started[e]
        BY <1>2 DEF StartAttempt
      <3>3. next' = next /\ payload' = payload
        BY <1>2 DEF StartAttempt
      <3> QED BY <1>0, <2>4, <3>1, <3>2, <3>3 DEF Standing, Live
    <2> QED BY <2>6, <2>7
  <1> QED BY <1>0, <1>1, <1>2 DEF ClaimDelivery

(* Between two transactions a worker keeps its claim. *)
ClaimKept(k) ==
  /\ Busy(k)' /\ worker'[k].d = worker[k].d
  /\ worker'[k].round = worker[k].round
  /\ worker'[k].attempt = worker[k].attempt
  /\ \A j \in Worker : j # k => worker'[j] = worker[j]
  /\ UNCHANGED <<up, deliveryVars>>

LEMMA GotoKeepsClaim ==
  ASSUME ProcessTypeOK, NEW k \in Worker, NEW p \in Phase \ {"idle", "leaving"},
         Goto(k, p)
  PROVE  ClaimKept(k)
  <1>1. worker[k] \in WorkerState
    BY DEF ProcessTypeOK
  <1>2. worker'[k] = [worker[k] EXCEPT !.phase = p]
    BY DEF ProcessTypeOK, Goto, Becomes
  <1>3. /\ worker'[k].phase = p /\ worker'[k].d = worker[k].d
        /\ worker'[k].round = worker[k].round
        /\ worker'[k].attempt = worker[k].attempt
    BY <1>1, <1>2 DEF WorkerState
  <1> QED BY <1>3 DEF ClaimKept, Goto, Becomes, Busy, ProcessTypeOK

LEMMA ErrKeepsClaim ==
  ASSUME ProcessTypeOK, NEW k \in Worker, NEW f, Err(k, f)
  PROVE  ClaimKept(k)
  <1>1. worker[k] \in WorkerState
    BY DEF ProcessTypeOK
  <1>2. worker'[k] = [worker[k] EXCEPT !.phase = "erred", !.failure = f]
    BY DEF ProcessTypeOK, Err, Becomes
  <1>3. /\ worker'[k].phase = "erred" /\ worker'[k].d = worker[k].d
        /\ worker'[k].round = worker[k].round
        /\ worker'[k].attempt = worker[k].attempt
    BY <1>1, <1>2 DEF WorkerState
  <1> QED BY <1>3 DEF ClaimKept, Err, Becomes, Busy, ProcessTypeOK

LEMMA DoneKeepsClaim ==
  ASSUME ProcessTypeOK, NEW k \in Worker, NEW o, Done(k, o)
  PROVE  ClaimKept(k)
  <1>1. worker[k] \in WorkerState
    BY DEF ProcessTypeOK
  <1>2. worker'[k] = [worker[k] EXCEPT !.phase = "done", !.outcome = o]
    BY DEF ProcessTypeOK, Done, Becomes
  <1>3. /\ worker'[k].phase = "done" /\ worker'[k].d = worker[k].d
        /\ worker'[k].round = worker[k].round
        /\ worker'[k].attempt = worker[k].attempt
    BY <1>1, <1>2 DEF WorkerState
  <1> QED BY <1>3 DEF ClaimKept, Done, Becomes, Busy, ProcessTypeOK

LEMMA WorkerStepKeeps ==
  ASSUME IInv, NEW k \in Worker, WorkerSteps(k)
  PROVE  AttemptOwnership' /\ Standing'
  <1>a. Busy(k) /\ ProcessTypeOK
    BY DEF WorkerSteps, CheckBlock, ReadSecret, PostRequest,
       Answer, ClassifyError, At, Busy, IInv, TypeOK
  <1>b. ClaimKept(k)
    <2>2. CASE CheckBlock(k)
      BY <2>2, <1>a, GotoKeepsClaim, DoneKeepsClaim DEF CheckBlock, Phase
    <2>3. CASE ReadSecret(k)
      BY <2>3, <1>a, GotoKeepsClaim, ErrKeepsClaim DEF ReadSecret, Phase
    <2>4. CASE PostRequest(k)
      BY <2>4, <1>a, GotoKeepsClaim, ErrKeepsClaim DEF PostRequest, Phase
    <2>5. CASE Answer(k)
      BY <2>5, <1>a, ErrKeepsClaim, DoneKeepsClaim DEF Answer
    <2>6. CASE ClassifyError(k)
      BY <2>6, <1>a, DoneKeepsClaim DEF ClassifyError
    <2> QED BY <2>2, <2>3, <2>4, <2>5, <2>6 DEF WorkerSteps
  <1>0. /\ Busy(k) /\ Busy(k)'
        /\ worker'[k].d = worker[k].d /\ worker'[k].round = worker[k].round
        /\ worker'[k].attempt = worker[k].attempt
        /\ \A j \in Worker : j # k => worker'[j] = worker[j]
        /\ UNCHANGED <<up, deliveryVars>>
    BY <1>a, <1>b DEF ClaimKept
  <1>1. \A j \in Worker :
          /\ Busy(j)' <=> Busy(j)
          /\ worker'[j].d = worker[j].d /\ worker'[j].round = worker[j].round
          /\ worker'[j].attempt = worker[j].attempt
    BY <1>0 DEF Busy
  <1>2. AttemptOwnership'
    BY <1>0, <1>1 DEF IInv, AttemptOwnership, deliveryVars
  <1>3. Standing'
    BY <1>0, StandingKept DEF IInv, standing, deliveryVars
  <1> QED BY <1>2, <1>3

LEMMA BookkeepingKeeps ==
  ASSUME IInv, NEW k \in Worker, Bookkeeping(k)
  PROVE  AttemptOwnership' /\ Standing'
  <1>1. /\ UNCHANGED <<up, deliveryVars>>
        /\ \A j \in Worker : j # k => worker'[j] = worker[j]
        /\ \/ /\ worker[k].phase = "claimed" /\ worker'[k].phase = "registered"
              /\ worker'[k].d = worker[k].d
              /\ worker'[k].round = worker[k].round
              /\ worker'[k].attempt = worker[k].attempt
           \/ worker[k].phase = "leaving" /\ worker'[k] = Idle
    BY BookkeepingStep DEF IInv, TypeOK
  <1>2. \A j \in Worker :
          /\ Busy(j)' <=> Busy(j)
          /\ Busy(j) => /\ worker'[j].d = worker[j].d
                        /\ worker'[j].round = worker[j].round
                        /\ worker'[j].attempt = worker[j].attempt
    BY <1>1 DEF Busy, Idle
  <1>3. AttemptOwnership'
    BY <1>1, <1>2 DEF IInv, AttemptOwnership, deliveryVars
  <1>4. Standing'
    BY <1>1, StandingKept DEF IInv, standing, deliveryVars
  <1> QED BY <1>3, <1>4

LEMMA FinishAttemptKeeps ==
  ASSUME IInv, NEW k \in Worker, FinishAttempt(k)
  PROVE  AttemptOwnership' /\ Standing'
  <1> DEFINE d == worker[k].d
  <1>0. /\ Busy(k) /\ up /\ d \in Delivery /\ status[d] = "running"
        /\ worker[k].attempt = attemptCount[d]
    BY DEF FinishAttempt, At, Busy, IInv, AttemptOwnership
  <1>1. worker[k].outcome \in Outcome
    BY DEF IInv, TypeOK, ProcessTypeOK, WorkerState
  <1>2. /\ worker'[k] = Leaving(d)
        /\ \A j \in Worker : j # k => worker'[j] = worker[j]
        /\ UNCHANGED <<next, payload, attemptCount, rounds, started, up>>
    BY DEF FinishAttempt, IInv, TypeOK, ProcessTypeOK
  <1>3. /\ status'[d] \in {"pending", "succeeded", "failed", "cancelled"}
        /\ \A e \in Delivery : e # d => status'[e] = status[e]
    BY <1>0, <1>1 DEF FinishAttempt, IInv, TypeOK, DeliveryTypeOK, Outcome
  <1>4. \A e \in Delivery, a \in Attempt :
          /\ e # d \/ a # attemptCount[d] => attempts'[e][a] = attempts[e][a]
          /\ attempts'[d][attemptCount[d]] # "running" \/ attemptCount[d] \notin Attempt
    BY <1>0, <1>1 DEF FinishAttempt, IInv, TypeOK, DeliveryTypeOK, Outcome
  <1>5. /\ ~Busy(k)' /\ \A j \in Worker : j # k => (Busy(j)' <=> Busy(j))
    BY <1>2 DEF Busy, Leaving, Idle
  <1>6. \A j \in Worker : j # k /\ Busy(j) => worker[j].d # d
    BY <1>0 DEF IInv, AttemptOwnership
  <1>7. AttemptOwnership'
    <2>1. \A j \in Worker : Busy(j)' =>
            /\ up' /\ worker'[j].d \in Delivery
            /\ status'[worker'[j].d] = "running"
            /\ worker'[j].attempt = attemptCount'[worker'[j].d]
            /\ worker'[j].round = rounds'[worker'[j].d]
      BY <1>2, <1>3, <1>5, <1>6 DEF IInv, AttemptOwnership
    <2>2. \A i, j \in Worker :
            Busy(i)' /\ Busy(j)' /\ worker'[i].d = worker'[j].d => i = j
      BY <1>2, <1>5 DEF IInv, AttemptOwnership
    <2>3. \A e \in Delivery : up' /\ status'[e] = "running" =>
            \E j \in Worker : Busy(j)' /\ worker'[j].d = e
      BY <1>0, <1>2, <1>3, <1>5 DEF IInv, AttemptOwnership
    <2>4. \A e \in Delivery, a \in Attempt :
            attempts'[e][a] = "running" <=>
              status'[e] = "running" /\ a = attemptCount'[e]
      <3>1. \A e \in Delivery, a \in Attempt :
              attempts[e][a] = "running" <=>
                status[e] = "running" /\ a = attemptCount[e]
        BY DEF IInv, AttemptOwnership
      <3> SUFFICES ASSUME NEW e \in Delivery, NEW a \in Attempt
                   PROVE  attempts'[e][a] = "running" <=>
                            status'[e] = "running" /\ a = attemptCount'[e]
        OBVIOUS
      <3>2. CASE e = d /\ a = attemptCount[d]
        BY <3>2, <1>2, <1>3, <1>4
      <3>3. CASE e = d /\ a # attemptCount[d]
        BY <3>1, <3>3, <1>0, <1>2, <1>3, <1>4
      <3>4. CASE e # d
        BY <3>1, <3>4, <1>2, <1>3, <1>4
      <3> QED BY <3>2, <3>3, <3>4
    <2> QED BY <2>1, <2>2, <2>3, <2>4 DEF AttemptOwnership
  <1>8. Standing'
    <2>1. payload[d] /\ attemptCount[d] > 0 /\ rounds[d] > 0
      BY <1>0 DEF IInv, Standing, Live
    <2>2. ~(d >= next)
      BY <1>0 DEF IInv, Standing
    <2> QED BY <1>0, <1>2, <1>3, <2>1, <2>2 DEF IInv, Standing, Live
  <1> QED BY <1>7, <1>8

LEMMA StopStartKeeps ==
  ASSUME IInv, Crash \/ Restart
  PROVE  AttemptOwnership' /\ Standing'
  <1>1. CASE Crash
    <2>1. \A j \in Worker : ~Busy(j)'
      BY <1>1 DEF Crash, Busy, Idle
    <2>2. AttemptOwnership'
      BY <1>1, <2>1 DEF Crash, IInv, AttemptOwnership, deliveryVars
    <2> QED BY <1>1, <2>2, StandingKept
            DEF IInv, Crash, standing, deliveryVars
  <1>2. CASE Restart
    <2>1. \A j \in Worker : ~Busy(j)'
      BY <1>2 DEF Restart, IInv, AttemptOwnership, Busy
    <2>2. \A e \in Delivery :
            /\ status'[e] # "running"
            /\ status[e] \in {"pending", "running"} =>
                 status'[e] \in {"pending", "cancelled"}
                   \/ (status[e] = "running" /\ status'[e] = "failed")
            /\ status[e] \notin {"pending", "running"} =>
                 status'[e] = status[e]
      <3> SUFFICES ASSUME NEW e \in Delivery
                   PROVE  /\ status'[e] # "running"
                          /\ status[e] \in {"pending", "running"} =>
                               status'[e] \in {"pending", "cancelled"}
                                 \/ (status[e] = "running" /\ status'[e] = "failed")
                          /\ status[e] \notin {"pending", "running"} =>
                               status'[e] = status[e]
        OBVIOUS
      <3>1. status'[e] = IF status[e] \in Live THEN Recovered(e) ELSE status[e]
        BY <1>2 DEF Restart
      <3>2. CASE status[e] = "running"
        <4>1. Recovered(e) \in {"cancelled", "failed", "pending"}
          BY <3>2 DEF Recovered
        <4> QED BY <3>1, <3>2, <4>1 DEF Live
      <3>3. CASE status[e] = "pending"
        <4>1. Recovered(e) \in {"cancelled", "pending"}
          BY <3>3 DEF Recovered
        <4> QED BY <3>1, <3>3, <4>1 DEF Live
      <3>4. CASE status[e] \notin {"pending", "running"}
        BY <3>1, <3>4 DEF Live
      <3> QED BY <3>2, <3>3, <3>4
    <2>3. \A e \in Delivery, a \in Attempt : attempts'[e][a] # "running"
      BY <1>2 DEF Restart, RecoveredRow, IInv, AttemptOwnership
    <2>4. AttemptOwnership'
      BY <2>1, <2>2, <2>3 DEF AttemptOwnership
    <2>5. UNCHANGED <<next, payload, attemptCount, rounds, started>>
      BY <1>2 DEF Restart
    <2>6. Standing'
      BY <2>2, <2>5 DEF IInv, Standing, Live
    <2> QED BY <2>4, <2>6
  <1> QED BY <1>1, <1>2

LEMMA NextIInv == IInv /\ [Next]_vars => IInv'
  <1> SUFFICES ASSUME IInv, [Next]_vars PROVE IInv'
    OBVIOUS
  <1>0. TypeOK'
    BY NextTypeOK DEF IInv
  <1>1. CASE Owner
    BY <1>1, OwnerKeeps, <1>0 DEF IInv
  <1>2. CASE Trigger
    BY <1>2, TriggerCreates, CreateDeliveryKeeps, <1>0 DEF IInv
  <1>3. CASE Cancellation
    BY <1>3, <1>0, OwnershipKept, StandingKept
       DEF IInv, Cancellation, SecretRevoked, CancelWebhook, ownership,
           standing, deliveryVars
  <1>4. CASE \E d \in Delivery : DelayElapses(d)
    BY <1>4, <1>0, OwnershipKept, StandingKept
       DEF IInv, DelayElapses, ownership, standing, processVars
  <1>5. ASSUME NEW k \in Worker, Claim(k) \/ Process(k)
        PROVE  IInv'
    <2>1. CASE Claim(k)
      BY <2>1, <1>0, ClaimDeliveryKeeps DEF Claim, IInv
    <2>2. CASE WorkerSteps(k)
      BY <2>2, <1>0, WorkerStepKeeps DEF IInv
    <2>3. CASE FinishAttempt(k)
      BY <2>3, <1>0, FinishAttemptKeeps DEF IInv
    <2>4. CASE Bookkeeping(k)
      BY <2>4, <1>0, BookkeepingKeeps DEF IInv
    <2> QED
      BY <1>5, <2>1, <2>2, <2>3, <2>4 DEF Process, WorkerSteps, Bookkeeping
  <1>6. CASE Crash \/ Restart
    BY <1>6, <1>0, StopStartKeeps DEF IInv
  <1>7. CASE UNCHANGED vars
    BY <1>7, <1>0, OwnershipKept, StandingKept
       DEF IInv, vars, ownership, standing, deliveryVars, processVars
  <1> QED BY <1>1, <1>2, <1>3, <1>4, <1>5, <1>6, <1>7 DEF Next

THEOREM Invariance == Spec => []IInv
  BY InitIInv, NextIInv, PTL DEF Spec

(* However many workers claim, and wherever the Runtime stops: a running   *)
(* delivery has one worker, and its last attempt row is the running one.   *)
THEOREM ClaimsAreExclusive == Spec => []AttemptOwnership
  BY Invariance, PTL DEF IInv

(* A delivery in the queue has its body; one that failed with its body was *)
(* tried, so a refused delivery is never redriven.                         *)
THEOREM DeliveriesStand == Spec => []Standing
  BY Invariance, PTL DEF IInv

-----------------------------------------------------------------------------
(* Disabling: a worker that has registered is in service.active unless     *)
(* another attempt of its delivery took its entry away, and from the check *)
(* to the request it is cancelled, or about to be, when the Owner has      *)
(* disabled its webhook, with the same exception.                          *)

Registered == {"registered", "checked", "secretRead"}

Committed(k) == /\ worker[k].phase \in {"checked", "secretRead"}
                /\ source[worker[k].d] # "test"
                /\ target[worker[k].d] \in ownerDisabled

DisableReaches ==
  /\ \A w \in ownerDisabled : ~enabled[w]
  /\ \A k \in Worker : worker[k].phase \in Registered =>
       k \in active \cup displaced
  /\ \A k \in Worker : Committed(k) =>
       \/ k \in cancelled \cup displaced
       \/ <<target[worker[k].d], FALSE>> \in cancelling

LEMMA DisableReachesKept ==
  ASSUME DisableReaches,
         UNCHANGED <<source, target, enabled, ownerDisabled>>,
         \A k \in Worker : worker'[k].phase \in Registered =>
           /\ worker'[k] = worker[k]
           /\ k \in cancelled => k \in cancelled'
           /\ k \in displaced => k \in displaced'
           /\ k \in active => k \in active' \cup displaced',
         cancelling \subseteq cancelling'
  PROVE  DisableReaches'
  BY DEF DisableReaches, Committed, Registered

LEMMA OwnerDisables ==
  ASSUME IInv, DisableReaches, Owner
  PROVE  DisableReaches'
  <1> USE DEF IInv, TypeOK, WebhookTypeOK
  <1>1. ASSUME NEW w \in Webhook, NEW s \in Secret, ReplaceWebhook(w, s)
        PROVE  DisableReaches'
    BY <1>1 DEF ReplaceWebhook, DisableReaches, Committed, deliveryVars,
       processVars
  <1>2. ASSUME NEW w \in Webhook, EnableWebhook(w)
        PROVE  DisableReaches'
    BY <1>2 DEF EnableWebhook, DisableReaches, Committed, deliveryVars,
       processVars
  <1>3. ASSUME NEW w \in Webhook, DisableWebhook(w)
        PROVE  DisableReaches'
    <2>1. \A v \in ownerDisabled' : ~enabled'[v]
      BY <1>3 DEF DisableWebhook, DisableReaches
    <2>2. /\ UNCHANGED <<source, target, worker, active, displaced, cancelled>>
          /\ ownerDisabled' = ownerDisabled \cup {w}
          /\ cancelling' = cancelling \cup {<<w, FALSE>>}
      BY <1>3 DEF DisableWebhook, CancelUnstarted
    <2> QED BY <2>1, <2>2 DEF DisableReaches, Committed
  <1>4. ASSUME NEW s \in Secret, DeleteSecret(s)
        PROVE  DisableReaches'
    <2>1. \A v \in ownerDisabled' : ~enabled'[v]
      BY <1>4 DEF DeleteSecret, RevokeSecretInTransaction, DisableReaches
    <2>2. UNCHANGED <<source, target, worker, active, displaced, cancelled,
                      ownerDisabled, cancelling>>
      BY <1>4 DEF DeleteSecret, RevokeSecretInTransaction, CancelUnstarted
    <2> QED BY <2>1, <2>2 DEF DisableReaches, Committed
  <1>5. ASSUME NEW d \in Delivery, RetryDelivery(d)
        PROVE  DisableReaches'
    BY <1>5, DisableReachesKept
       DEF RetryDelivery, webhookVars, processVars
  <1> QED BY <1>1, <1>2, <1>3, <1>4, <1>5 DEF Owner

LEMMA CreationDisables ==
  ASSUME IInv, DisableReaches, NEW src \in Source, NEW w \in Webhook,
         CreateDelivery(src, w)
  PROVE  DisableReaches'
  <1>1. next \in Delivery /\ status[next] = "absent"
    BY DEF IInv, Standing, CreateDelivery, Delivery
  <1>2. \A k \in Worker : Busy(k) => worker[k].d \in Delivery \ {next}
    BY <1>1 DEF IInv, AttemptOwnership
  <1>3. \A d \in Delivery \ {next} :
          source'[d] = source[d] /\ target'[d] = target[d]
    BY <1>1 DEF CreateDelivery, IInv, TypeOK, DeliveryTypeOK
  <1>4. UNCHANGED <<enabled, ownerDisabled, worker, active, displaced,
                    cancelled, cancelling>>
    BY DEF CreateDelivery, webhookVars, processVars
  <1>5. \A k \in Worker : Committed(k)' => Busy(k) /\ Committed(k)
    BY <1>2, <1>3, <1>4 DEF Committed, Busy
  <1> QED BY <1>2, <1>3, <1>4, <1>5 DEF DisableReaches

LEMMA CancellationDisables ==
  ASSUME IInv, DisableReaches, Cancellation
  PROVE  DisableReaches'
  <1>1. ASSUME NEW s \in Secret, SecretRevoked(s)
        PROVE  DisableReaches'
    BY <1>1, DisableReachesKept
       DEF SecretRevoked, webhookVars, deliveryVars
  <1>2. ASSUME NEW w \in Webhook, NEW tests \in BOOLEAN,
               CancelWebhook(w, tests)
        PROVE  DisableReaches'
    <2>1. /\ UNCHANGED <<source, target, worker, active, displaced, enabled,
                         ownerDisabled>>
          /\ cancelling' = cancelling \ {<<w, tests>>}
      BY <1>2 DEF CancelWebhook, webhookVars, deliveryVars
    <2>2. /\ cancelled \subseteq cancelled'
          /\ \A k \in Worker : Committed(k) /\ target[worker[k].d] = w =>
               k \in cancelled' \cup displaced
      BY <1>2 DEF CancelWebhook, Committed, DisableReaches, Registered, Busy
    <2> QED BY <2>1, <2>2 DEF DisableReaches, Committed
  <1> QED BY <1>1, <1>2 DEF Cancellation

LEMMA WorkerStepDisables ==
  ASSUME IInv, DisableReaches, NEW k \in Worker, WorkerSteps(k)
  PROVE  DisableReaches'
  <1>0. ProcessTypeOK /\ worker[k] \in WorkerState
    BY DEF IInv, TypeOK, ProcessTypeOK
  <1>1. /\ UNCHANGED <<source, target, enabled, ownerDisabled, active,
                       displaced, cancelled, cancelling>>
        /\ \A j \in Worker : j # k => worker'[j] = worker[j]
    BY <1>0 DEF WorkerSteps, CheckBlock, ReadSecret, PostRequest,
       Answer, ClassifyError, Goto, Err, Done, Becomes,
       webhookVars, deliveryVars, ProcessTypeOK
  <1>2. worker'[k].d = worker[k].d
    <2>2. CASE CheckBlock(k)
      BY <2>2, <1>0, GotoKeepsClaim, DoneKeepsClaim
         DEF CheckBlock, Phase, ClaimKept
    <2>3. CASE ReadSecret(k)
      BY <2>3, <1>0, GotoKeepsClaim, ErrKeepsClaim
         DEF ReadSecret, Phase, ClaimKept
    <2>4. CASE PostRequest(k)
      BY <2>4, <1>0, GotoKeepsClaim, ErrKeepsClaim
         DEF PostRequest, Phase, ClaimKept
    <2>5. CASE Answer(k)
      BY <2>5, <1>0, ErrKeepsClaim, DoneKeepsClaim DEF Answer, ClaimKept
    <2>6. CASE ClassifyError(k)
      BY <2>6, <1>0, DoneKeepsClaim DEF ClassifyError, ClaimKept
    <2> QED BY <2>2, <2>3, <2>4, <2>5, <2>6 DEF WorkerSteps
  <1>3. /\ worker'[k].phase \in Registered => worker[k].phase \in Registered
        /\ Committed(k)' => Committed(k) \/ target[worker[k].d] \notin ownerDisabled
                                         \/ source[worker[k].d] = "test"
    <2>1. CASE At(k, "registered") /\ ~Blocked(worker[k].d)
      <3>1. Busy(k) /\ worker[k].d \in Delivery
        BY <2>1 DEF At, Busy, IInv, AttemptOwnership
      <3>2. \/ source[worker[k].d] = "test"
            \/ enabled[target[worker[k].d]]
        BY <2>1 DEF Blocked
      <3> QED BY <3>2, <2>1 DEF DisableReaches, At, Registered
    <2>2. CASE At(k, "checked")
      BY <2>2, <1>1, <1>2 DEF At, Committed, Registered
    <2>3. CASE At(k, "secretRead")
      BY <2>3, <1>1, <1>2 DEF At, Committed, Registered
    <2>4. CASE worker'[k].phase \notin Registered
      BY <2>4 DEF Committed, Registered
    <2> QED
      <3>1. ASSUME NEW p \in Phase, Goto(k, p)
            PROVE  worker'[k].phase = p
        BY <3>1, <1>0 DEF Goto, Becomes, ProcessTypeOK, WorkerState
      <3>2. ASSUME NEW f, Err(k, f)
            PROVE  worker'[k].phase = "erred"
        BY <3>2, <1>0 DEF Err, Becomes, ProcessTypeOK, WorkerState
      <3>3. ASSUME NEW f, Done(k, f)
            PROVE  worker'[k].phase = "done"
        BY <3>3, <1>0 DEF Done, Becomes, ProcessTypeOK, WorkerState
      <3> QED BY <2>1, <2>2, <2>3, <2>4, <3>1, <3>2, <3>3
              DEF WorkerSteps, CheckBlock, ReadSecret, PostRequest, Answer,
                  ClassifyError, Phase, Registered
  <1> QED BY <1>1, <1>2, <1>3 DEF DisableReaches, Committed

(* Registering writes over the entry of an attempt that is leaving, and    *)
(* unregistering displaces what it deletes besides its own entry.          *)
LEMMA BookkeepingDisables ==
  ASSUME IInv, DisableReaches, NEW k \in Worker, Bookkeeping(k)
  PROVE  DisableReaches'
  <1>0. ProcessTypeOK
    BY DEF IInv, TypeOK
  <1>1. CASE RegisterActive(k)
    <2>1. /\ UNCHANGED <<source, target, enabled, ownerDisabled, displaced,
                         cancelled, cancelling>>
          /\ active' = (active \ Entry(worker[k].d)) \cup {k}
          /\ worker[k].phase = "claimed" /\ worker'[k].phase = "registered"
          /\ \A j \in Worker : j # k => worker'[j] = worker[j]
      BY <1>0, <1>1, BookkeepingStep
         DEF Bookkeeping, RegisterActive, Leaving, Idle, At, webhookVars, deliveryVars
    <2>2. \A j \in Worker : j # k /\ worker[j].phase \in Registered =>
            j \notin Entry(worker[k].d)
      BY <2>1 DEF IInv, AttemptOwnership, Busy, Registered, Entry
    <2> QED BY <2>1, <2>2 DEF DisableReaches, Committed, Registered
  <1>2. CASE UnregisterActive(k)
    <2>1. /\ UNCHANGED <<source, target, enabled, ownerDisabled, cancelled,
                         cancelling>>
          /\ worker'[k] = Idle
          /\ \A j \in Worker : j # k => worker'[j] = worker[j]
          /\ active' = active \ Entry(worker[k].d)
          /\ displaced' = (displaced \cup Entry(worker[k].d)) \ {k}
      BY <1>0, <1>2, BookkeepingStep
         DEF Bookkeeping, UnregisterActive, webhookVars, deliveryVars, ProcessTypeOK
    <2>2. \A j \in Worker : worker'[j].phase \in Registered =>
            /\ j # k /\ worker'[j] = worker[j]
            /\ j \in displaced => j \in displaced'
            /\ j \in active => j \in active' \cup displaced'
      BY <2>1 DEF Idle, Registered
    <2> QED BY <2>1, <2>2, DisableReachesKept
  <1> QED BY <1>1, <1>2 DEF Bookkeeping

LEMMA NextDisableReaches ==
  ASSUME IInv, DisableReaches, [Next]_vars
  PROVE  DisableReaches'
  <1>1. CASE Owner
    BY <1>1, OwnerDisables
  <1>2. CASE Trigger
    BY <1>2, TriggerCreates, CreationDisables
  <1>3. CASE Cancellation
    BY <1>3, CancellationDisables
  <1>4. CASE \E d \in Delivery : DelayElapses(d)
    BY <1>4, DisableReachesKept DEF DelayElapses, webhookVars, processVars
  <1>5. ASSUME NEW k \in Worker, Claim(k) \/ Process(k)
        PROVE  DisableReaches'
    <2>1. CASE Claim(k)
      <3>1. PICK d \in Delivery : ClaimDelivery(k, d)
        BY <2>1 DEF Claim
      <3>2. \A j \in Worker : worker'[j].phase \in Registered =>
              worker'[j] = worker[j]
        BY <3>1 DEF ClaimDelivery, GiveUp, StartAttempt, Claimed, IInv,
           TypeOK, ProcessTypeOK, Registered
      <3> QED BY <3>1, <3>2, DisableReachesKept
              DEF ClaimDelivery, GiveUp, StartAttempt, webhookVars
    <2>2. CASE WorkerSteps(k)
      BY <2>2, WorkerStepDisables
    <2>3. CASE FinishAttempt(k)
      <3>1. \A j \in Worker : worker'[j].phase \in Registered =>
              worker'[j] = worker[j] /\ j # k
        BY <2>3 DEF FinishAttempt, Leaving, Idle, IInv, TypeOK, ProcessTypeOK,
           Registered
      <3> QED BY <2>3, <3>1, DisableReachesKept DEF FinishAttempt, webhookVars
    <2>4. CASE Bookkeeping(k)
      BY <2>4, BookkeepingDisables
    <2> QED
      BY <1>5, <2>1, <2>2, <2>3, <2>4 DEF Process, WorkerSteps, Bookkeeping
  <1>6. CASE Crash
    <2>1. \A j \in Worker : worker'[j].phase = "idle"
      BY <1>6 DEF Crash, Idle
    <2> QED BY <1>6, <2>1
            DEF Crash, DisableReaches, Committed, Registered, webhookVars,
                deliveryVars
  <1>7. CASE Restart
    BY <1>7, DisableReachesKept DEF Restart, webhookVars
  <1>8. CASE UNCHANGED vars
    BY <1>8, DisableReachesKept
       DEF vars, webhookVars, deliveryVars, processVars
  <1> QED BY <1>1, <1>2, <1>3, <1>4, <1>5, <1>6, <1>7, <1>8 DEF Next

LEMMA InitDisableReaches == Init => DisableReaches
  BY DEF Init, DisableReaches, Committed, Registered, Idle

THEOREM DisableStays == Spec => [](IInv /\ DisableReaches)
  <1>1. Init => IInv /\ DisableReaches
    BY InitIInv, InitDisableReaches
  <1>2. IInv /\ DisableReaches /\ [Next]_vars => (IInv /\ DisableReaches)'
    BY NextIInv, NextDisableReaches
  <1> QED BY <1>1, <1>2, PTL DEF Spec

(* Only PostRequest starts a request, from secretRead and not cancelled.   *)
LEMMA StartedBy ==
  ASSUME IInv, [Next]_vars, NEW k \in Worker, RequestStarts(k)
  PROVE  /\ At(k, "secretRead") /\ k \notin cancelled
         /\ UNCHANGED <<source, target, cancelling, ownerDisabled>>
  <1>0. worker \in [Worker -> WorkerState]
    BY DEF IInv, TypeOK, ProcessTypeOK
  <1>1. CASE Owner \/ Trigger \/ Cancellation
             \/ \E d \in Delivery : DelayElapses(d)
    <2>1. UNCHANGED worker
      BY <1>1, TriggerCreates DEF Owner, Cancellation, DelayElapses, ReplaceWebhook,
         EnableWebhook, DisableWebhook, DeleteSecret, RetryDelivery,
         CreateDelivery, SecretRevoked, CancelWebhook, processVars
    <2> QED BY <2>1 DEF RequestStarts
  <1>2. ASSUME NEW j \in Worker, Claim(j)
        PROVE  worker'[k].phase # "posting" \/ worker'[k] = worker[k]
    BY <1>0, <1>2 DEF Claim, ClaimDelivery, GiveUp, StartAttempt, Claimed
  <1>3. ASSUME NEW j \in Worker, FinishAttempt(j)
        PROVE  worker'[k].phase # "posting" \/ worker'[k] = worker[k]
    BY <1>0, <1>3 DEF FinishAttempt, Leaving, Idle
  <1>7. ASSUME NEW j \in Worker, Bookkeeping(j)
        PROVE  worker'[k].phase # "posting" \/ worker'[k] = worker[k]
    BY <1>7, BookkeepingStep DEF Idle, IInv, TypeOK
  <1>4. ASSUME NEW j \in Worker, WorkerSteps(j)
        PROVE  /\ At(k, "secretRead") /\ k \notin cancelled
               /\ UNCHANGED <<source, target, cancelling, ownerDisabled>>
    <2>1. ASSUME NEW i \in Worker, NEW to, Becomes(i, to)
          PROVE  /\ worker'[i] = to
                 /\ \A l \in Worker \ {i} : worker'[l] = worker[l]
                 /\ UNCHANGED <<source, target, cancelling, ownerDisabled>>
      BY <1>0, <2>1 DEF Becomes, webhookVars, deliveryVars
    <2>2. ASSUME NEW p \in Phase, Goto(j, p)
          PROVE  worker'[j].phase = p
      BY <1>0, <2>2 DEF Goto, Becomes, WorkerState
    <2>3. ASSUME NEW f, Err(j, f)
          PROVE  worker'[j].phase = "erred"
      BY <1>0, <2>3 DEF Err, Becomes, WorkerState
    <2>4. ASSUME NEW f, Done(j, f)
          PROVE  worker'[j].phase = "done"
      BY <1>0, <2>4 DEF Done, Becomes, WorkerState
    <2>5. /\ \A l \in Worker \ {j} : worker'[l] = worker[l]
          /\ UNCHANGED <<source, target, cancelling, ownerDisabled>>
      BY <1>4, <2>1 DEF WorkerSteps, CheckBlock, ReadSecret, PostRequest,
         Answer, ClassifyError, Goto, Err, Done
    <2>6. j = k
      BY <2>5 DEF RequestStarts
    <2>7. At(k, "secretRead") /\ k \notin cancelled
      BY <1>4, <2>2, <2>3, <2>4, <2>6
         DEF WorkerSteps, CheckBlock, ReadSecret, PostRequest, Answer,
             ClassifyError, RequestStarts, Phase
    <2> QED BY <2>5, <2>7
  <1>5. CASE Crash
    BY <1>5 DEF Crash, RequestStarts, Idle
  <1>6. CASE Restart \/ UNCHANGED vars
    BY <1>6 DEF Restart, RequestStarts, vars, processVars
  <1> QED BY <1>1, <1>2, <1>3, <1>4, <1>5, <1>6, <1>7
          DEF Next, Process, WorkerSteps, Bookkeeping, RequestStarts

(* Once DisableWebhook has returned, no request of an event hook or a job  *)
(* starts for that webhook until it is enabled again, but for an attempt   *)
(* whose entry in service.active an earlier attempt of its delivery has    *)
(* deleted: DisableReaches says that any other worker about to post is     *)
(* cancelled, and then it does not post.                                   *)
THEOREM DisableIsHeeded == Spec => NoRequestAfterDisable
  <1>1. ASSUME IInv, DisableReaches, [Next]_vars, NEW k \in Worker,
               RequestStarts(k), source[worker[k].d] # "test",
               target[worker[k].d] \in ownerDisabled, k \notin displaced
        PROVE  <<target[worker[k].d], FALSE>> \in cancelling
    BY <1>1, StartedBy DEF DisableReaches, Committed, At
  <1>2. IInv /\ DisableReaches /\ [Next]_vars =>
          [\A k \in Worker :
             LET d == worker[k].d IN
               RequestStarts(k) /\ source[d] # "test"
                 /\ target[d] \in ownerDisabled /\ k \notin displaced
                 => <<target[d], FALSE>> \in cancelling]_vars
    BY <1>1
  <1> QED BY <1>2, DisableStays, PTL DEF Spec, NoRequestAfterDisable

-----------------------------------------------------------------------------
(* An enabled webhook signs with a Secret that exists: enabling requires   *)
(* it, replacing requires it, and deleting a Secret disables its users.    *)
LEMMA NextCanSign ==
  ASSUME TypeOK, EnabledWebhookCanSign, [Next]_vars
  PROVE  EnabledWebhookCanSign'
  <1> USE DEF EnabledWebhookCanSign
  <1>1. CASE Owner
    BY <1>1 DEF Owner, ReplaceWebhook, EnableWebhook, DisableWebhook,
       DeleteSecret, RevokeSecretInTransaction, RetryDelivery, webhookVars,
       TypeOK, WebhookTypeOK
  <1>2. CASE UNCHANGED webhookVars
    BY <1>2 DEF webhookVars
  <1>3. CASE Trigger \/ Cancellation \/ \E d \in Delivery : DelayElapses(d)
    BY <1>3, <1>2, TriggerCreates DEF CreateDelivery, Cancellation, SecretRevoked,
       CancelWebhook, DelayElapses
  <1>4. ASSUME NEW k \in Worker, Claim(k) \/ Process(k)
        PROVE  UNCHANGED webhookVars
    BY <1>4 DEF Claim, ClaimDelivery, Process, RegisterActive, CheckBlock,
       ReadSecret, PostRequest, Answer, ClassifyError, FinishAttempt,
       UnregisterActive, Goto, Err, Done, Becomes
  <1>5. CASE Crash \/ Restart \/ UNCHANGED vars
    BY <1>5, <1>2 DEF Crash, Restart, vars
  <1> QED BY <1>1, <1>2, <1>3, <1>4, <1>5 DEF Next

THEOREM EnabledCanSign == Spec => []EnabledWebhookCanSign
  <1>1. Init => EnabledWebhookCanSign
    BY DEF Init, EnabledWebhookCanSign
  <1> QED BY <1>1, NextCanSign, TypeCorrect, PTL DEF Spec

-----------------------------------------------------------------------------
(* The refinement: what one step does to one delivery is a step of the     *)
(* contract's life cycle or a stutter.                                     *)

Follows(d) == \/ Contract!Accept(d) \/ Contract!Run(d) \/ Contract!Settle(d)
              \/ Contract!Redrive(d) \/ Contract!Prune(d) \/ Contract!Stay(d)

CountersKept(d) == attemptCount'[d] = attemptCount[d] /\ redrives'[d] = redrives[d]

LEMMA UnchangedFollows ==
  ASSUME NEW d, status'[d] = status[d], CountersKept(d)
  PROVE  Follows(d)
  BY DEF Follows, CountersKept, Contract!Stay, Contract!Keeps

LEMMA SettlingFollows ==
  ASSUME NEW d, CountersKept(d),
         \/ status[d] = "running"
              /\ status'[d] \in {"pending", "succeeded", "failed", "cancelled"}
         \/ status[d] = "pending" /\ status'[d] = "cancelled"
         \/ status[d] = "pending" /\ status'[d] = "failed" /\ attemptCount[d] > 0
  PROVE  Follows(d)
  BY DEF Follows, CountersKept, Contract!Settle, Contract!Keeps, Contract!Goes

LEMMA CancelUnstartedFollows ==
  ASSUME TypeOK, NEW S, CancelUnstarted(S), NEW d \in Delivery
  PROVE  Follows(d)
  <1>1. CountersKept(d)
    BY DEF CancelUnstarted, CountersKept
  <1>2. \/ status'[d] = status[d]
        \/ status[d] = "pending" /\ status'[d] = "cancelled"
    BY DEF CancelUnstarted
  <1> QED BY <1>1, <1>2, UnchangedFollows, SettlingFollows

LEMMA OwnerFollows ==
  ASSUME IInv, Owner, NEW d \in Delivery
  PROVE  Follows(d)
  <1>1. CASE \E w \in Webhook : \/ \E s \in Secret : ReplaceWebhook(w, s)
                                \/ EnableWebhook(w)
    BY <1>1, UnchangedFollows
       DEF ReplaceWebhook, EnableWebhook, deliveryVars, CountersKept
  <1>2. CASE \/ \E w \in Webhook : DisableWebhook(w)
             \/ \E s \in Secret : DeleteSecret(s)
    BY <1>2, CancelUnstartedFollows
       DEF DisableWebhook, DeleteSecret, RevokeSecretInTransaction, IInv
  <1>3. ASSUME NEW e \in Delivery, RetryDelivery(e)
        PROVE  Follows(d)
    <2> USE DEF IInv, TypeOK, DeliveryTypeOK
    <2>1. CASE d # e
      BY <2>1, <1>3, UnchangedFollows DEF RetryDelivery, CountersKept
    <2>2. CASE d = e
      <3>1. attemptCount[d] > 0 /\ attemptCount[d] < AttemptBudget
        BY <1>3, <2>2 DEF RetryDelivery, Redrivable, Standing
      <3>2. /\ status[d] = "failed" /\ status'[d] = "pending"
            /\ attemptCount'[d] = attemptCount[d]
            /\ redrives[d] < RedriveBudget /\ redrives'[d] = redrives[d] + 1
        BY <1>3, <2>2 DEF RetryDelivery, Redrivable
      <3> QED BY <3>1, <3>2 DEF Follows, Contract!Redrive, Contract!Goes
    <2> QED BY <2>1, <2>2
  <1> QED BY <1>1, <1>2, <1>3 DEF Owner

LEMMA CreateDeliveryFollows ==
  ASSUME IInv, NEW src \in Source, NEW w \in Webhook, CreateDelivery(src, w),
         NEW d \in Delivery
  PROVE  Follows(d)
  <1>1. CountersKept(d)
    BY DEF CreateDelivery, CountersKept
  <1>2. status[next] = "absent" /\ next \in Delivery
    BY DEF IInv, Standing, CreateDelivery, Delivery
  <1>3. \/ d = next /\ status'[d] \in {"failed", "pending"}
        \/ status[d] \in Terminal /\ status'[d] = "pruned"
        \/ status'[d] = status[d]
    BY DEF CreateDelivery, Oldest, With
  <1> QED BY <1>1, <1>2, <1>3, UnchangedFollows
          DEF Follows, CountersKept, Terminal, Contract!Accept,
              Contract!Prune, Contract!Goes, Contract!Keeps

LEMMA OpenRound ==
  ASSUME NEW r \in 0 .. MaxRounds, r > 0
  PROVE  r \in Round
  BY DEF Round

LEMMA ClaimDeliveryFollows ==
  ASSUME IInv, NEW k \in Worker, NEW e \in Delivery, ClaimDelivery(k, e),
         NEW d \in Delivery
  PROVE  Follows(d)
  <1> USE DEF IInv, TypeOK, DeliveryTypeOK
  <1>0. status[e] = "pending"
    BY DEF ClaimDelivery
  <1>1. CASE GiveUp(e, "cancelled")
    <2>1. CountersKept(d)
      BY <1>1 DEF GiveUp, CountersKept
    <2>2. status'[d] = IF d = e THEN "cancelled" ELSE status[d]
      BY <1>1 DEF GiveUp
    <2> QED BY <1>0, <2>1, <2>2, UnchangedFollows, SettlingFollows
  <1>2. CASE GiveUp(e, "failed") /\ (BudgetSpent(e) \/ ~payload[e])
    <2>1. CountersKept(d)
      BY <1>2 DEF GiveUp, CountersKept
    <2>2. status'[d] = IF d = e THEN "failed" ELSE status[d]
      BY <1>2 DEF GiveUp
    <2>3. attemptCount[e] > 0
      <3>1. payload[e] /\ rounds[e] > 0
        BY <1>0 DEF Standing, Live
      <3>2. rounds[e] \in Round
        BY <3>1, OpenRound
      <3>3. started[e][rounds[e]] <= attemptCount[e]
        BY <3>2 DEF Standing
      <3>4. started[e][rounds[e]] \in Nat /\ attemptCount[e] \in Nat
        BY <3>2
      <3> QED BY <1>2, <3>1, <3>3, <3>4, BudgetTypes
              DEF BudgetSpent, CurrentRound
    <2> QED BY <1>0, <2>1, <2>2, <2>3, UnchangedFollows, SettlingFollows
  <1>3. CASE StartAttempt(k, e) /\ ~BudgetSpent(e)
    <2>1. CASE d # e
      BY <2>1, <1>3, UnchangedFollows DEF StartAttempt, CountersKept
    <2>2. CASE d = e
      <3>1. attemptCount[d] < AttemptBudget
        BY <2>2, <1>3, BudgetTypes DEF BudgetSpent
      <3>2. /\ status'[d] = "running" /\ attemptCount'[d] = attemptCount[d] + 1
            /\ redrives'[d] = redrives[d]
        BY <2>2, <1>3 DEF StartAttempt
      <3> QED BY <1>0, <2>2, <3>1, <3>2 DEF Follows, Contract!Run, Contract!Goes
    <2> QED BY <2>1, <2>2
  <1> QED BY <1>1, <1>2, <1>3 DEF ClaimDelivery

LEMMA FinishAttemptFollows ==
  ASSUME IInv, NEW k \in Worker, FinishAttempt(k), NEW d \in Delivery
  PROVE  Follows(d)
  <1>1. CountersKept(d)
    BY DEF FinishAttempt, CountersKept
  <1>2. \/ status'[d] = status[d]
        \/ status[d] = "running"
             /\ status'[d] \in {"pending", "succeeded", "failed", "cancelled"}
    BY DEF FinishAttempt, IInv, TypeOK, DeliveryTypeOK
  <1> QED BY <1>1, <1>2, UnchangedFollows, SettlingFollows

LEMMA RestartFollows ==
  ASSUME IInv, Restart, NEW d \in Delivery
  PROVE  Follows(d)
  <1>1. CountersKept(d)
    BY DEF Restart, CountersKept
  <1>2. status'[d] = IF status[d] \in Live THEN Recovered(d) ELSE status[d]
    BY DEF Restart
  <1>3. CASE status[d] = "running"
    <2>1. Recovered(d) \in {"cancelled", "failed", "pending"}
      BY <1>3 DEF Recovered
    <2> QED BY <1>1, <1>2, <1>3, <2>1, SettlingFollows DEF Live
  <1>4. CASE status[d] = "pending"
    <2>1. Recovered(d) \in {"cancelled", "pending"}
      BY <1>4 DEF Recovered
    <2> QED BY <1>1, <1>2, <1>4, <2>1, SettlingFollows, UnchangedFollows DEF Live
  <1>5. CASE status[d] \notin Live
    BY <1>1, <1>2, <1>5, UnchangedFollows
  <1> QED BY <1>3, <1>4, <1>5 DEF Live

LEMMA NextFollows ==
  ASSUME IInv, [Next]_vars, NEW d \in Delivery
  PROVE  Follows(d)
  <1>1. CASE Owner
    BY <1>1, OwnerFollows
  <1>2. CASE Trigger
    BY <1>2, TriggerCreates, CreateDeliveryFollows
  <1>3. CASE Cancellation \/ (\E e \in Delivery : DelayElapses(e)) \/ Crash
             \/ UNCHANGED vars
    <2>1. UNCHANGED <<status, attemptCount, redrives>>
      BY <1>3 DEF Cancellation, SecretRevoked, CancelWebhook, DelayElapses,
         Crash, vars, deliveryVars
    <2> QED BY <2>1, UnchangedFollows DEF CountersKept
  <1>4. ASSUME NEW k \in Worker, Claim(k) \/ Process(k)
        PROVE  Follows(d)
    <2>1. CASE Claim(k)
      BY <2>1, ClaimDeliveryFollows DEF Claim
    <2>2. CASE WorkerSteps(k)
      <3>1. UNCHANGED <<status, attemptCount, redrives>>
        BY <2>2, WorkerStepTyped DEF IInv, TypeOK, deliveryVars
      <3> QED BY <3>1, UnchangedFollows DEF CountersKept
    <2>3. CASE FinishAttempt(k)
      BY <2>3, FinishAttemptFollows
    <2>4. CASE Bookkeeping(k)
      <3>1. UNCHANGED <<status, attemptCount, redrives>>
        BY <2>4, BookkeepingStep DEF IInv, TypeOK, deliveryVars
      <3> QED BY <3>1, UnchangedFollows DEF CountersKept
    <2> QED
      BY <1>4, <2>1, <2>2, <2>3, <2>4 DEF Process, WorkerSteps, Bookkeeping
  <1>5. CASE Restart
    BY <1>5, RestartFollows
  <1> QED BY <1>1, <1>2, <1>3, <1>4, <1>5 DEF Next

(* Deliveries implements the life cycle of DeliveryContract.               *)
THEOREM Refinement == Spec => ImplementsContract
  <1>1. Init => Contract!Init
    BY DEF Init, Contract!Init
  <1>2. IInv /\ IInv' /\ [Next]_vars => [Contract!Next]_Contract!cvars
    <2> SUFFICES ASSUME IInv, IInv', [Next]_vars PROVE Contract!Next
      OBVIOUS
    <2>1. /\ status' \in [Delivery -> Contract!States]
          /\ attemptCount' \in [Delivery -> Nat]
          /\ redrives' \in [Delivery -> Nat]
      <3>1. status' \in [Delivery -> Status]
        BY DEF IInv, TypeOK, DeliveryTypeOK
      <3>2. Status \subseteq Contract!States
        BY DEF Status, Live, Terminal, Contract!States
      <3>3. /\ attemptCount' \in [Delivery -> 0 .. AttemptBudget]
            /\ redrives' \in [Delivery -> 0 .. RedriveBudget]
        BY DEF IInv, TypeOK, DeliveryTypeOK
      <3> QED BY <3>1, <3>2, <3>3
    <2> QED BY <2>1, NextFollows DEF Follows, Contract!Next
  <1> QED BY <1>1, <1>2, Invariance, PTL DEF Spec, ImplementsContract, Contract!Spec

-----------------------------------------------------------------------------
(* Capacity: what the queue, the history and the payloads may hold.        *)

(* Every set of ordinals has an oldest one.                                *)
LEMMA Least ==
  ASSUME NEW T \in SUBSET Nat, T # {}
  PROVE  \E x \in T : \A y \in T : x <= y
  <1> DEFINE R == OpToRel(<, Nat)
  <1>1. IsWellFoundedOn(R, Nat)
    BY NatLessThanWellFounded
  <1>2. \A x, y \in Nat : y < x => <<y, x>> \in R
    BY DEF OpToRel
  <1> HIDE DEF R
  <1>3. PICK x \in T : \A y \in T : <<y, x>> \notin R
    BY <1>1, WFMin
  <1>4. ASSUME NEW y \in T
        PROVE  x <= y
    <2>1. x \in Nat /\ y \in Nat /\ <<y, x>> \notin R
      BY <1>3, <1>4
    <2>2. ~(y < x)
      BY <1>2, <2>1, Zenon
    <2> QED
      BY <2>1, <2>2
  <1> QED
    BY <1>3, <1>4

LEMMA FiniteDeliveries ==
  ASSUME NEW S \in SUBSET Delivery
  PROVE  IsFiniteSet(S) /\ Cardinality(S) \in Nat
  <1>1. IsFiniteSet(Delivery)
    BY FS_Interval DEF Delivery
  <1> QED
    BY <1>1, FS_Subset, FS_CardinalityType

LEMMA NoMore ==
  ASSUME NEW S \in SUBSET Delivery, NEW T \in SUBSET S
  PROVE  Cardinality(T) <= Cardinality(S)
  BY FiniteDeliveries, FS_Subset

LEMMA OneMore ==
  ASSUME NEW S \in SUBSET Delivery, NEW e \in Delivery, NEW T,
         T \subseteq S \cup {e}
  PROVE  Cardinality(T) <= Cardinality(S) + 1
  <1>1. IsFiniteSet(S) /\ Cardinality(S) \in Nat
    BY FiniteDeliveries
  <1>a. Cardinality(S \cup {e}) = IF e \in S THEN Cardinality(S)
                                             ELSE Cardinality(S) + 1
    BY <1>1, FS_AddElement, ZenonT(20)
  <1>2. Cardinality(S \cup {e}) <= Cardinality(S) + 1
    BY <1>1, <1>a
  <1>3. /\ S \cup {e} \in SUBSET Delivery /\ T \in SUBSET (S \cup {e})
        /\ T \in SUBSET Delivery
    OBVIOUS
  <1>4. Cardinality(T) <= Cardinality(S \cup {e})
    BY <1>3, NoMore
  <1> QED
    BY <1>1, <1>2, <1>3, <1>4, FiniteDeliveries

LEMMA OneForOne ==
  ASSUME NEW S \in SUBSET Delivery, NEW v \in S, NEW e \in Delivery, NEW T,
         T \subseteq (S \ {v}) \cup {e}
  PROVE  Cardinality(T) <= Cardinality(S)
  <1>1. Cardinality(S \ {v}) = Cardinality(S) - 1 /\ Cardinality(S) \in Nat
    BY FiniteDeliveries, FS_RemoveElement
  <1>2. Cardinality(T) <= Cardinality(S \ {v}) + 1
    BY OneMore
  <1> QED
    BY <1>1, <1>2

Waiting  == With(Live)
Retained == {d \in Existing : payload[d]}

LEMMA CapacityKept ==
  ASSUME CapacityHeld,
         \A d \in Delivery :
           /\ status'[d] \in Live => status[d] \in Live
           /\ status'[d] \in Live \cup Terminal => status[d] \in Live \cup Terminal
           /\ payload'[d] => payload[d]
  PROVE  CapacityHeld'
  <1>1. /\ Waiting' \in SUBSET Waiting /\ Existing' \in SUBSET Existing
        /\ Retained' \in SUBSET Retained
        /\ Waiting \in SUBSET Delivery /\ Existing \in SUBSET Delivery
        /\ Retained \in SUBSET Delivery
    BY DEF Waiting, Retained, Existing, With
  <1>2. /\ Cardinality(Waiting') <= Cardinality(Waiting)
        /\ Cardinality(Existing') <= Cardinality(Existing)
        /\ Cardinality(Retained') <= Cardinality(Retained)
    BY <1>1, NoMore
  <1>3. /\ Cardinality(Waiting) \in Nat /\ Cardinality(Waiting') \in Nat
        /\ Cardinality(Existing) \in Nat /\ Cardinality(Existing') \in Nat
        /\ Cardinality(Retained) \in Nat /\ Cardinality(Retained') \in Nat
    <2>1. /\ Waiting' \in SUBSET Delivery /\ Existing' \in SUBSET Delivery
          /\ Retained' \in SUBSET Delivery
      BY <1>1
    <2> QED
      BY <1>1, <2>1, FiniteDeliveries
  <1> QED
    BY <1>2, <1>3 DEF CapacityHeld, Waiting, Retained

LEMMA CreateDeliveryCapacity ==
  ASSUME IInv, CapacityHeld, NEW src \in Source, NEW w \in Webhook,
         CreateDelivery(src, w)
  PROVE  CapacityHeld'
  <1> DEFINE prunable == IF Cardinality(Existing) >= MaxRetained
                         THEN With(Terminal) ELSE {}
             victims  == Oldest(prunable)
             full     == \/ QueueFull
                         \/ Cardinality(Retained) + 1 > MaxPayloads
                         \/ /\ Cardinality(Existing) >= MaxRetained
                            /\ victims = {}
  <1>1. next \in Delivery /\ status[next] = "absent"
    BY DEF IInv, Standing, CreateDelivery, Delivery
  <1>2. /\ status' = [d \in Delivery |->
                        IF d = next THEN IF full THEN "failed" ELSE "pending"
                        ELSE IF d \in victims THEN "pruned" ELSE status[d]]
        /\ payload' = [d \in Delivery |-> IF d = next THEN ~full
                                          ELSE payload[d] /\ d \notin victims]
    BY DEF CreateDelivery, Retained
  <1>3. /\ Waiting \in SUBSET Delivery /\ Existing \in SUBSET Delivery
        /\ Retained \in SUBSET Delivery
        /\ Waiting' \in SUBSET Delivery /\ Existing' \in SUBSET Delivery
        /\ Retained' \in SUBSET Delivery
    BY DEF Waiting, Retained, Existing, With
  <1>4. /\ Cardinality(Waiting) \in Nat /\ Cardinality(Waiting') \in Nat
        /\ Cardinality(Existing) \in Nat /\ Cardinality(Existing') \in Nat
        /\ Cardinality(Retained) \in Nat /\ Cardinality(Retained') \in Nat
    BY <1>3, FiniteDeliveries
  <1>5. /\ Cardinality(Waiting) <= MaxPending
        /\ Cardinality(Existing) <= MaxRetained
        /\ Cardinality(Retained) <= MaxPayloads
    BY DEF CapacityHeld, Waiting, Retained
  <1>6. /\ QueueFull <=> Cardinality(Waiting) >= MaxPending
    BY DEF QueueFull, Waiting
  <1> HIDE DEF prunable, victims, full
  <1>7. Cardinality(Waiting') <= MaxPending
    <2>1. CASE full
      <3>1. Waiting' \in SUBSET Waiting
        BY <1>1, <1>2, <2>1 DEF Waiting, With, Live
      <3> QED
        BY <1>3, <1>4, <1>5, <3>1, NoMore
    <2>2. CASE ~full
      <3>1. Waiting' \subseteq Waiting \cup {next}
        BY <1>2 DEF Waiting, With, Live
      <3>2. Cardinality(Waiting') <= Cardinality(Waiting) + 1
        BY <1>1, <1>3, <3>1, OneMore
      <3>3. Cardinality(Waiting) < MaxPending
        BY <1>4, <1>6, <2>2 DEF full
      <3> QED
        BY <1>4, <3>2, <3>3
    <2> QED
      BY <2>1, <2>2
  <1>8. Cardinality(Existing') <= MaxRetained
    <2>1. CASE Cardinality(Existing) >= MaxRetained
      <3>1. With(Terminal) # {}
        <4>1. Existing # Waiting
          BY <1>4, <1>5, <2>1
        <4> QED
          BY <4>1 DEF Existing, Waiting, With, Live, Terminal
      <3>2. With(Terminal) \in SUBSET Nat
        BY DEF With, Delivery
      <3>3. PICK v \in With(Terminal) : \A e \in With(Terminal) : v <= e
        BY <3>1, <3>2, Least
      <3>4. victims = Oldest(With(Terminal))
        BY <2>1 DEF victims, prunable
      <3>5. v \in victims /\ v \in Existing
        BY <3>3, <3>4 DEF Oldest, Existing, With
      <3>6. Existing' \subseteq (Existing \ {v}) \cup {next}
        BY <1>1, <1>2, <3>5 DEF Existing, With, Live, Terminal
      <3>7. Cardinality(Existing') <= Cardinality(Existing)
        BY <1>1, <1>3, <3>5, <3>6, OneForOne
      <3> QED
        BY <1>4, <1>5, <3>7
    <2>2. CASE Cardinality(Existing) < MaxRetained
      <3>1. Existing' \subseteq Existing \cup {next}
        BY <1>2 DEF Existing, With, Live, Terminal
      <3>2. Cardinality(Existing') <= Cardinality(Existing) + 1
        BY <1>1, <1>3, <3>1, OneMore
      <3> QED
        BY <1>4, <2>2, <3>2
    <2> QED
      BY <1>4, <2>1, <2>2
  <1>9. Cardinality(Retained') <= MaxPayloads
    <2>1. CASE full
      <3>1. Retained' \in SUBSET Retained
        BY <1>1, <1>2, <2>1 DEF Retained, Existing, With, Live, Terminal
      <3> QED
        BY <1>3, <1>4, <1>5, <3>1, NoMore
    <2>2. CASE ~full
      <3>1. Retained' \subseteq Retained \cup {next}
        BY <1>2 DEF Retained, Existing, With, Live, Terminal
      <3>2. Cardinality(Retained') <= Cardinality(Retained) + 1
        BY <1>1, <1>3, <3>1, OneMore
      <3>3. Cardinality(Retained) < MaxPayloads
        BY <1>4, <2>2 DEF full
      <3> QED
        BY <1>4, <3>2, <3>3
    <2> QED
      BY <2>1, <2>2
  <1> QED
    BY <1>7, <1>8, <1>9 DEF CapacityHeld, Waiting, Retained

LEMMA RetryCapacity ==
  ASSUME IInv, CapacityHeld, NEW d \in Delivery, RetryDelivery(d)
  PROVE  CapacityHeld'
  <1>1. /\ status[d] = "failed" /\ payload' = payload /\ ~QueueFull
        /\ status' = [status EXCEPT ![d] = "pending"]
        /\ status \in [Delivery -> Status]
    BY DEF RetryDelivery, Redrivable, IInv, TypeOK, DeliveryTypeOK
  <1>2. /\ Waiting' \subseteq Waiting \cup {d} /\ Existing' = Existing
        /\ Retained' = Retained
    BY <1>1 DEF Waiting, Retained, Existing, With, Live, Terminal
  <1>3. Waiting \in SUBSET Delivery /\ Waiting' \in SUBSET Delivery
    BY DEF Waiting, With
  <1>4. Cardinality(Waiting) \in Nat /\ Cardinality(Waiting') \in Nat
    BY <1>3, FiniteDeliveries
  <1>5. Cardinality(Waiting') <= Cardinality(Waiting) + 1
    BY <1>2, <1>3, OneMore
  <1>6. Cardinality(Waiting) < MaxPending
    BY <1>1, <1>4 DEF QueueFull, Waiting
  <1>7. Cardinality(Waiting') <= MaxPending
    BY <1>4, <1>5, <1>6
  <1> QED
    BY <1>2, <1>7 DEF CapacityHeld, Waiting, Retained

LEMMA NextCapacity ==
  ASSUME IInv, CapacityHeld, [Next]_vars
  PROVE  CapacityHeld'
  <1> USE DEF IInv, TypeOK, DeliveryTypeOK
  <1>1. CASE \/ \E w \in Webhook, s \in Secret : ReplaceWebhook(w, s)
             \/ \E w \in Webhook : EnableWebhook(w)
             \/ Cancellation \/ Crash \/ UNCHANGED vars
             \/ \E d \in Delivery : DelayElapses(d)
             \/ \E k \in Worker : WorkerSteps(k) \/ Bookkeeping(k)
    <2>1. UNCHANGED <<status, payload>>
      BY <1>1, WorkerStepTyped, BookkeepingStep
         DEF ReplaceWebhook, EnableWebhook, Cancellation, SecretRevoked,
             CancelWebhook, Crash, DelayElapses, vars, deliveryVars
    <2> QED
      BY <2>1, CapacityKept
  <1>2. CASE \/ \E w \in Webhook : DisableWebhook(w)
             \/ \E s \in Secret : DeleteSecret(s)
    <2>1. PICK S : CancelUnstarted(S)
      BY <1>2 DEF DisableWebhook, DeleteSecret, RevokeSecretInTransaction
    <2>2. \A d \in Delivery :
            /\ status'[d] \in Live => status[d] \in Live
            /\ status'[d] \in Live \cup Terminal => status[d] \in Live \cup Terminal
            /\ payload'[d] => payload[d]
      BY <2>1 DEF CancelUnstarted, Live, Terminal
    <2> QED
      BY <2>2, CapacityKept
  <1>3. CASE \E d \in Delivery : RetryDelivery(d)
    BY <1>3, RetryCapacity
  <1>4. CASE Trigger
    BY <1>4, TriggerCreates, CreateDeliveryCapacity
  <1>5. ASSUME NEW k \in Worker, NEW e \in Delivery, ClaimDelivery(k, e)
        PROVE  CapacityHeld'
    <2>1. \A d \in Delivery :
            /\ status'[d] \in Live => status[d] \in Live
            /\ status'[d] \in Live \cup Terminal => status[d] \in Live \cup Terminal
            /\ payload'[d] => payload[d]
      BY <1>5 DEF ClaimDelivery, GiveUp, StartAttempt, Live, Terminal
    <2> QED
      BY <2>1, CapacityKept
  <1>6. ASSUME NEW k \in Worker, FinishAttempt(k)
        PROVE  CapacityHeld'
    <2>1. \A d \in Delivery :
            /\ status'[d] \in Live => status[d] \in Live
            /\ status'[d] \in Live \cup Terminal => status[d] \in Live \cup Terminal
            /\ payload'[d] => payload[d]
      BY <1>6 DEF FinishAttempt, Live, Terminal
    <2> QED
      BY <2>1, CapacityKept
  <1>7. CASE Restart
    <2>1. \A d \in Delivery :
            /\ status'[d] \in Live => status[d] \in Live
            /\ status'[d] \in Live \cup Terminal => status[d] \in Live \cup Terminal
            /\ payload'[d] => payload[d]
      BY <1>7 DEF Restart, Recovered, Live, Terminal
    <2> QED
      BY <2>1, CapacityKept
  <1> QED
    BY <1>1, <1>2, <1>3, <1>4, <1>5, <1>6, <1>7
       DEF Next, Owner, Claim, Process, WorkerSteps, Bookkeeping

LEMMA InitCapacity == Init => CapacityHeld
  <1> SUFFICES ASSUME Init PROVE CapacityHeld
    OBVIOUS
  <1>1. Waiting = {} /\ Existing = {} /\ Retained = {}
    BY DEF Init, Waiting, Retained, Existing, With, Live, Terminal
  <1> QED
    BY <1>1, FS_EmptySet DEF CapacityHeld, Waiting, Retained

(* The queue, the history and the retained payloads stay within their      *)
(* limits, for any limits with room for more history than queue: creation, *)
(* pruning, redrive and recovery in any order.                             *)
THEOREM CapacityIsHeld == Spec => []CapacityHeld
  BY Invariance, InitCapacity, NextCapacity, PTL DEF Spec

-----------------------------------------------------------------------------
(* Sums.  A recursive definition is a CHOOSE of the function that satisfies *)
(* its equation; that there is one, and what it sums to, is shown by        *)
(* looking at a smallest counterexample.                                   *)

Pick(s) == CHOOSE x \in s : TRUE

Folder(f, S) ==
  CHOOSE sum : sum = [s \in SUBSET S |->
                        IF s = {} THEN 0 ELSE f[Pick(s)] + sum[s \ {Pick(s)}]]

(* A step towards the whole of S, one element at a time. *)
LEMMA Smaller ==
  ASSUME NEW S, IsFiniteSet(S), NEW s \in SUBSET S, s # {}
  PROVE  /\ Pick(s) \in s /\ s \ {Pick(s)} \in SUBSET S
         /\ Cardinality(s) \in Nat \ {0}
         /\ Cardinality(s \ {Pick(s)}) = Cardinality(s) - 1
  <1>1. Pick(s) \in s
    BY DEF Pick
  <1>2. IsFiniteSet(s)
    BY FS_Subset
  <1>3. Cardinality(s) \in Nat /\ Cardinality(s) # 0
    BY <1>2, FS_CardinalityType, FS_EmptySet
  <1>4. Cardinality(s \ {Pick(s)}) = Cardinality(s) - 1
    BY <1>1, <1>2, FS_RemoveElement
  <1> QED
    BY <1>1, <1>3, <1>4

(* Induction over the subsets of a finite set.                             *)
LEMMA SubsetInduction ==
  ASSUME NEW S, IsFiniteSet(S), NEW Good, {} \in Good,
         \A s \in SUBSET S : s # {} /\ s \ {Pick(s)} \in Good => s \in Good
  PROVE  SUBSET S \subseteq Good
  <1> DEFINE Bad == (SUBSET S) \ Good
             Sizes == {Cardinality(s) : s \in Bad}
  <1>1. SUFFICES ASSUME Bad # {}
                 PROVE  FALSE
    OBVIOUS
  <1>2. Sizes \in SUBSET Nat /\ Sizes # {}
    BY <1>1, FS_Subset, FS_CardinalityType
  <1>3. PICK n \in Sizes : \A m \in Sizes : n <= m
    <2> HIDE DEF Sizes
    <2> QED
      BY <1>2, Least
  <1>4. PICK s \in Bad : n = Cardinality(s)
    BY <1>3
  <1>5. s \in SUBSET S /\ s # {} /\ s \notin Good
    BY <1>4
  <1>6. /\ s \ {Pick(s)} \in SUBSET S /\ Cardinality(s) \in Nat
        /\ Cardinality(s \ {Pick(s)}) = Cardinality(s) - 1
    BY <1>5, Smaller
  <1>7. s \ {Pick(s)} \in Bad
    BY <1>5, <1>6
  <1>8. Cardinality(s \ {Pick(s)}) \in Sizes
    BY <1>7
  <1>9. n <= Cardinality(s \ {Pick(s)})
    <2> HIDE DEF Sizes
    <2> QED
      BY <1>3, <1>8
  <1> QED
    BY <1>4, <1>6, <1>9

Sums(sum, f, D) ==
  \A s \in D : sum[s] = IF s = {} THEN 0 ELSE f[Pick(s)] + sum[s \ {Pick(s)}]
UpTo(S, n) == {s \in SUBSET S : Cardinality(s) <= n}

LEMMA SumExtends ==
  ASSUME NEW S, IsFiniteSet(S), NEW f \in [S -> Nat], NEW n \in Nat,
         NEW sum \in [UpTo(S, n) -> Nat], Sums(sum, f, UpTo(S, n))
  PROVE  \E longer \in [UpTo(S, n + 1) -> Nat] : Sums(longer, f, UpTo(S, n + 1))
  <1> DEFINE longer == [s \in UpTo(S, n + 1) |->
                          IF s = {} THEN 0 ELSE f[Pick(s)] + sum[s \ {Pick(s)}]]
  <1>1. ASSUME NEW s \in UpTo(S, n + 1), s # {}
        PROVE  /\ s \ {Pick(s)} \in UpTo(S, n) /\ Pick(s) \in S
               /\ s \ {Pick(s)} \in UpTo(S, n + 1)
    <2>1. s \in SUBSET S /\ Cardinality(s) <= n + 1
      BY DEF UpTo
    <2>2. /\ Pick(s) \in s /\ s \ {Pick(s)} \in SUBSET S
          /\ Cardinality(s) \in Nat \ {0}
          /\ Cardinality(s \ {Pick(s)}) = Cardinality(s) - 1
      BY <1>1, <2>1, Smaller
    <2> QED
      BY <2>1, <2>2 DEF UpTo
  <1>2. longer \in [UpTo(S, n + 1) -> Nat]
    BY <1>1
  <1>3. ASSUME NEW s \in UpTo(S, n)
        PROVE  s \in UpTo(S, n + 1) /\ longer[s] = sum[s]
    <2>1. s \in UpTo(S, n + 1)
      <3>1. s \in SUBSET S /\ Cardinality(s) <= n
        BY DEF UpTo
      <3>2. Cardinality(s) \in Nat
        BY <3>1, FS_Subset, FS_CardinalityType
      <3> QED
        BY <3>1, <3>2 DEF UpTo
    <2> QED
      BY <2>1 DEF Sums
  <1>4. Sums(longer, f, UpTo(S, n + 1))
    <2> SUFFICES ASSUME NEW s \in UpTo(S, n + 1)
                 PROVE  longer[s] = IF s = {} THEN 0 ELSE f[Pick(s)] + longer[s \ {Pick(s)}]
      BY DEF Sums
    <2>1. s # {} => longer[s \ {Pick(s)}] = sum[s \ {Pick(s)}]
      BY <1>1, <1>3
    <2> QED
      BY <2>1
  <1> QED
    BY <1>2, <1>4

LEMMA SumExists ==
  ASSUME NEW S, IsFiniteSet(S), NEW f \in [S -> Nat], NEW n \in Nat
  PROVE  \E sum \in [UpTo(S, n) -> Nat] : Sums(sum, f, UpTo(S, n))
  <1> DEFINE Missing == {m \in Nat :
                          ~ \E sum \in [UpTo(S, m) -> Nat] : Sums(sum, f, UpTo(S, m))}
  <1>1. SUFFICES ASSUME Missing # {}
                 PROVE  FALSE
    OBVIOUS
  <1>2. PICK m \in Missing : \A k \in Missing : m <= k
    <2> HIDE DEF Missing
    <2>1. Missing \in SUBSET Nat
      BY DEF Missing
    <2> QED
      BY <1>1, <2>1, Least
  <1>3. CASE m = 0
    <2>1. ASSUME NEW s \in UpTo(S, 0)
          PROVE  s = {}
      <3>1. s \in SUBSET S /\ Cardinality(s) <= 0
        BY DEF UpTo
      <3>2. IsFiniteSet(s) /\ Cardinality(s) \in Nat
        BY <3>1, FS_Subset, FS_CardinalityType
      <3> QED
        BY <3>1, <3>2, FS_EmptySet
    <2> DEFINE sum == [s \in UpTo(S, 0) |-> 0]
    <2>2. sum \in [UpTo(S, 0) -> Nat] /\ Sums(sum, f, UpTo(S, 0))
      BY <2>1 DEF Sums
    <2> QED
      BY <1>2, <1>3, <2>2
  <1>4. CASE m # 0
    <2>1. m - 1 \in Nat /\ m - 1 \notin Missing /\ (m - 1) + 1 = m
      <3>1. m \in Nat
        BY <1>2
      <3>2. m - 1 \in Nat /\ ~(m <= m - 1) /\ (m - 1) + 1 = m
        BY <1>4, <3>1
      <3> QED
        BY <1>2, <3>2
    <2>2. PICK sum \in [UpTo(S, m - 1) -> Nat] : Sums(sum, f, UpTo(S, m - 1))
      BY <2>1
    <2>3. \E longer \in [UpTo(S, (m - 1) + 1) -> Nat] :
            Sums(longer, f, UpTo(S, (m - 1) + 1))
      BY <2>1, <2>2, SumExtends
    <2> QED
      BY <1>2, <2>1, <2>3
  <1> QED
    BY <1>3, <1>4

LEMMA SumDefined ==
  ASSUME NEW S, IsFiniteSet(S), NEW f \in [S -> Nat]
  PROVE  Folder(f, S) \in [SUBSET S -> Nat] /\ Sums(Folder(f, S), f, SUBSET S)
  <1>1. PICK n \in Nat : n = Cardinality(S)
    BY FS_CardinalityType
  <1>2. UpTo(S, n) = SUBSET S
    BY <1>1, FS_Subset DEF UpTo
  <1>3. \E sum \in [UpTo(S, n) -> Nat] : Sums(sum, f, UpTo(S, n))
    BY SumExists
  <1>4. PICK sum \in [SUBSET S -> Nat] : Sums(sum, f, SUBSET S)
    BY <1>2, <1>3
  <1>5. sum = [s \in SUBSET S |->
                IF s = {} THEN 0 ELSE f[Pick(s)] + sum[s \ {Pick(s)}]]
    BY <1>4 DEF Sums
  <1>6. Folder(f, S) = [s \in SUBSET S |->
          IF s = {} THEN 0 ELSE f[Pick(s)] + Folder(f, S)[s \ {Pick(s)}]]
    BY <1>5, Zenon DEF Folder
  <1>7. Sums(Folder(f, S), f, SUBSET S)
    BY <1>6, Zenon DEF Sums
  <1> DEFINE F == Folder(f, S)
             Good == {s \in SUBSET S : F[s] \in Nat}
  <1>8. F = [s \in SUBSET S |-> F[s]]
    <2>1. \A s \in SUBSET S : F[s] = IF s = {} THEN 0 ELSE f[Pick(s)] + F[s \ {Pick(s)}]
      BY <1>7, Zenon DEF Sums
    <2> HIDE DEF F
    <2>2. F = [s \in SUBSET S |-> IF s = {} THEN 0 ELSE f[Pick(s)] + F[s \ {Pick(s)}]]
      BY <1>6 DEF F
    <2> QED
      BY <2>2
  <1>9. \A s \in SUBSET S : F[s] = IF s = {} THEN 0 ELSE f[Pick(s)] + F[s \ {Pick(s)}]
    BY <1>7, Zenon DEF Sums
  <1> HIDE DEF F
  <1>10. {} \in Good
    <2>1. {} \in SUBSET S
      OBVIOUS
    <2>2. F[{}] = 0
      BY <1>9, <2>1
    <2> QED
      BY <2>1, <2>2
  <1>11. ASSUME NEW s \in SUBSET S, s # {}, s \ {Pick(s)} \in Good
         PROVE  s \in Good
    <2>1. Pick(s) \in S
      BY <1>11, Smaller
    <2>2. F[s] = f[Pick(s)] + F[s \ {Pick(s)}]
      BY <1>9, <1>11
    <2> QED
      BY <2>1, <2>2, <1>11
  <1>12. SUBSET S \subseteq Good
    <2> HIDE DEF Good
    <2> QED
      BY <1>10, <1>11, SubsetInduction
  <1>13. F \in [SUBSET S -> Nat]
    BY <1>8, <1>12
  <1> QED
    BY <1>7, <1>13 DEF F

LEMMA SumOfZero ==
  ASSUME NEW S, IsFiniteSet(S), NEW f \in [S -> Nat], \A x \in S : f[x] = 0
  PROVE  Folder(f, S)[S] = 0
  <1> DEFINE F == Folder(f, S)
             Good == {s \in SUBSET S : F[s] = 0}
  <1>1. \A s \in SUBSET S : F[s] = IF s = {} THEN 0 ELSE f[Pick(s)] + F[s \ {Pick(s)}]
    BY SumDefined, Zenon DEF Sums
  <1> HIDE DEF F
  <1>2. {} \in Good
    BY <1>1
  <1>3. ASSUME NEW s \in SUBSET S, s # {}, s \ {Pick(s)} \in Good
        PROVE  s \in Good
    <2>1. Pick(s) \in S
      BY <1>3, Smaller
    <2> QED
      BY <1>1, <1>3, <2>1
  <1>4. SUBSET S \subseteq Good
    <2> HIDE DEF Good
    <2> QED
      BY <1>2, <1>3, SubsetInduction
  <1> QED
    BY <1>4 DEF F

LEMMA SumOfIncrement ==
  ASSUME NEW S, IsFiniteSet(S), NEW f \in [S -> Nat], NEW g \in [S -> Nat],
         NEW x \in S, g = [f EXCEPT ![x] = @ + 1]
  PROVE  Folder(g, S)[S] = Folder(f, S)[S] + 1
  <1> DEFINE F == Folder(f, S)
             G == Folder(g, S)
             Good == {s \in SUBSET S : G[s] = F[s] + (IF x \in s THEN 1 ELSE 0)}
  <1>1. /\ F \in [SUBSET S -> Nat]
        /\ \A s \in SUBSET S : F[s] = IF s = {} THEN 0 ELSE f[Pick(s)] + F[s \ {Pick(s)}]
    BY SumDefined, Zenon DEF Sums
  <1>2. /\ G \in [SUBSET S -> Nat]
        /\ \A s \in SUBSET S : G[s] = IF s = {} THEN 0 ELSE g[Pick(s)] + G[s \ {Pick(s)}]
    BY SumDefined, Zenon DEF Sums
  <1> HIDE DEF F, G
  <1>3. {} \in Good
    <2>1. {} \in SUBSET S /\ x \notin {}
      OBVIOUS
    <2>2. F[{}] = 0 /\ G[{}] = 0
      BY <1>1, <1>2, <2>1
    <2> QED
      BY <2>1, <2>2
  <1>4. ASSUME NEW s \in SUBSET S, s # {}, s \ {Pick(s)} \in Good
        PROVE  s \in Good
    <2>1. PICK p : p = Pick(s)
      OBVIOUS
    <2>2. p \in s /\ p \in S /\ s \ {p} \in SUBSET S
      BY <1>4, <2>1, Smaller
    <2>3. F[s] = f[p] + F[s \ {p}] /\ G[s] = g[p] + G[s \ {p}]
      BY <1>1, <1>2, <1>4, <2>1
    <2>4. G[s \ {p}] = F[s \ {p}] + (IF x \in s \ {p} THEN 1 ELSE 0)
      BY <1>4, <2>1
    <2>5. g[p] = IF p = x THEN f[p] + 1 ELSE f[p]
      BY <2>2
    <2>6. f[p] \in Nat /\ F[s \ {p}] \in Nat
      BY <1>1, <2>2
    <2>7. G[s] = F[s] + (IF x \in s THEN 1 ELSE 0)
      BY <2>2, <2>3, <2>4, <2>5, <2>6
    <2> QED
      BY <2>7
  <1>5. SUBSET S \subseteq Good
    <2> HIDE DEF Good
    <2> QED
      BY <1>3, <1>4, SubsetInduction
  <1> QED
    BY <1>5 DEF F, G

-----------------------------------------------------------------------------
(* Budgets: what was counted on the delivery, on its rounds and as rows.   *)

LEMMA SumUnfolds ==
  ASSUME NEW d
  PROVE  MapThenSumSet(LAMBDA r : started[d][r], Round) = Folder(started[d], Round)[Round]
  BY DEF MapThenSumSet, MapThenFoldSet, Folder, Pick

Account(d) ==
  /\ attemptCount[d] <= AttemptBudget
  /\ \A r \in Round : /\ started[d][r] <= RoundBudget
                      /\ r > rounds[d] => started[d][r] = 0
  /\ Folder(started[d], Round)[Round] = attemptCount[d]
  /\ \A a \in Attempt : attempts[d][a] = "none" <=> a > attemptCount[d]
  /\ status[d] # "absent" => rounds[d] = redrives[d] + 1
  /\ status[d] = "absent" => rounds[d] = 0 /\ redrives[d] = 0
  /\ redrives[d] <= RedriveBudget

(* A worker that is done knows what came of its attempt.                   *)
Decided == \A k \in Worker : At(k, "done") => worker[k].outcome # "none"

Budgets == (\A d \in Delivery : Account(d)) /\ Decided

LEMMA BudgetsImply == Budgets => BudgetsRespected
  <1> SUFFICES ASSUME Budgets, NEW d \in Delivery
               PROVE  /\ attemptCount[d] <= AttemptBudget
                      /\ \A r \in Round : /\ started[d][r] <= RoundBudget
                                          /\ r > rounds[d] => started[d][r] = 0
                      /\ MapThenSumSet(LAMBDA r : started[d][r], Round) = attemptCount[d]
                      /\ \A a \in Attempt : attempts[d][a] = "none" <=> a > attemptCount[d]
                      /\ status[d] # "absent" => rounds[d] = redrives[d] + 1
                      /\ redrives[d] <= RedriveBudget
    BY Zenon DEF BudgetsRespected
  <1>1. MapThenSumSet(LAMBDA r : started[d][r], Round) = Folder(started[d], Round)[Round]
    BY SumUnfolds
  <1>2. Account(d)
    BY DEF Budgets
  <1>3. MapThenSumSet(LAMBDA r : started[d][r], Round) = attemptCount[d]
    BY <1>1, <1>2, Zenon DEF Account
  <1> QED
    BY <1>2, <1>3, Zenon DEF Account

LEMMA AccountKept ==
  ASSUME NEW d \in Delivery, Account(d),
         attemptCount'[d] = attemptCount[d], started'[d] = started[d],
         rounds'[d] = rounds[d], redrives'[d] = redrives[d],
         \A a \in Attempt : attempts'[d][a] = "none" <=> attempts[d][a] = "none",
         status'[d] = "absent" <=> status[d] = "absent"
  PROVE  Account(d)'
  BY DEF Account

LEMMA RoundsFinite == IsFiniteSet(Round)
  BY FS_Interval DEF Round

LEMMA InitBudgets == Init => Budgets
  <1> SUFFICES ASSUME Init PROVE Budgets
    OBVIOUS
  <1>1. ASSUME NEW d \in Delivery
        PROVE  Account(d)
    <2>1. started[d] \in [Round -> Nat] /\ \A r \in Round : started[d][r] = 0
      BY DEF Init
    <2>2. Folder(started[d], Round)[Round] = 0
      BY <2>1, RoundsFinite, SumOfZero
    <2>3. /\ attemptCount[d] = 0 /\ rounds[d] = 0 /\ redrives[d] = 0
          /\ status[d] = "absent" /\ \A a \in Attempt : attempts[d][a] = "none"
      BY DEF Init
    <2> QED
      BY <2>1, <2>2, <2>3 DEF Account, Attempt
  <1>2. Decided
    BY DEF Init, Decided, At, Idle
  <1> QED
    BY <1>1, <1>2 DEF Budgets

LEMMA CreateDeliveryAccount ==
  ASSUME IInv, Budgets, NEW src \in Source, NEW w \in Webhook,
         CreateDelivery(src, w), NEW d \in Delivery
  PROVE  Account(d)'
  <1>0. Account(d)
    BY DEF Budgets
  <1>1. next \in Delivery /\ status[next] = "absent"
    BY DEF IInv, Standing, CreateDelivery, Delivery
  <1>2. /\ attemptCount' = attemptCount /\ started' = started
        /\ attempts' = attempts /\ redrives' = redrives
        /\ rounds' = [rounds EXCEPT ![next] = 1]
        /\ rounds \in [Delivery -> 0 .. MaxRounds]
    BY DEF CreateDelivery, IInv, TypeOK, DeliveryTypeOK
  <1>3. CASE d = next
    <2>1. status'[d] # "absent" /\ rounds'[d] = 1
      BY <1>1, <1>2, <1>3 DEF CreateDelivery
    <2>2. rounds[d] = 0 /\ redrives[d] = 0
      BY <1>0, <1>1, <1>3 DEF Account
    <2>3. \A r \in Round : r > 1 => r > rounds[d]
      BY <2>2 DEF Round
    <2> QED
      BY <1>0, <1>2, <2>1, <2>2, <2>3 DEF Account
  <1>4. CASE d # next
    <2>1. status'[d] = "absent" <=> status[d] = "absent"
      BY <1>4 DEF CreateDelivery, Oldest, With, Terminal
    <2> QED
      BY <1>0, <1>2, <1>4, <2>1, AccountKept
  <1> QED
    BY <1>3, <1>4

LEMMA RetryAccount ==
  ASSUME IInv, Budgets, NEW e \in Delivery, RetryDelivery(e), NEW d \in Delivery
  PROVE  Account(d)'
  <1>0. Account(d)
    BY DEF Budgets
  <1>1. /\ attemptCount' = attemptCount /\ started' = started
        /\ attempts' = attempts
        /\ redrives' = [redrives EXCEPT ![e] = @ + 1]
        /\ rounds' = [rounds EXCEPT ![e] = @ + 1]
        /\ status' = [status EXCEPT ![e] = "pending"]
        /\ redrives[e] < RedriveBudget /\ status[e] = "failed"
    BY DEF RetryDelivery, Redrivable
  <1>2. /\ rounds \in [Delivery -> 0 .. MaxRounds] /\ status \in [Delivery -> Status]
        /\ redrives \in [Delivery -> 0 .. RedriveBudget]
    BY DEF IInv, TypeOK, DeliveryTypeOK
  <1>3. CASE d = e
    <2>1. /\ rounds'[d] = rounds[d] + 1 /\ redrives'[d] = redrives[d] + 1
          /\ status'[d] = "pending" /\ status[d] # "absent"
          /\ rounds[d] \in Nat /\ redrives[d] \in Nat
          /\ redrives'[d] <= RedriveBudget
      BY <1>1, <1>2, <1>3
    <2>2. \A r \in Round : r > rounds[d] + 1 => r > rounds[d]
      BY <2>1 DEF Round
    <2> QED
      BY <1>0, <1>1, <2>1, <2>2 DEF Account
  <1>4. CASE d # e
    BY <1>0, <1>1, <1>2, <1>4, AccountKept
  <1> QED
    BY <1>3, <1>4

LEMMA StartAccount ==
  ASSUME IInv, Budgets, NEW k \in Worker, NEW e \in Delivery,
         status[e] = "pending", ~BudgetSpent(e), StartAttempt(k, e),
         NEW d \in Delivery
  PROVE  Account(d)'
  <1>0. Account(d)
    BY DEF Budgets
  <1>1. /\ attempts' = [attempts EXCEPT ![e][attemptCount[e] + 1] = "running"]
        /\ started'  = [started EXCEPT ![e][rounds[e]] = @ + 1]
        /\ status'   = [status EXCEPT ![e] = "running"]
        /\ attemptCount' = [attemptCount EXCEPT ![e] = @ + 1]
        /\ redrives' = redrives /\ rounds' = rounds
    BY DEF StartAttempt
  <1>2. /\ status \in [Delivery -> Status]
        /\ attemptCount \in [Delivery -> 0 .. AttemptBudget]
        /\ rounds \in [Delivery -> 0 .. MaxRounds]
        /\ started \in [Delivery -> [Round -> 0 .. RoundBudget]]
        /\ attempts \in [Delivery -> [Attempt -> AttemptStatus]]
    BY DEF IInv, TypeOK, DeliveryTypeOK
  <1>3. CASE d = e
    <2>1. rounds[d] \in Round
      BY <1>2, <1>3, OpenRound DEF IInv, Standing, Live
    <2>2. attemptCount[d] < AttemptBudget /\ started[d][rounds[d]] < RoundBudget
      BY <1>2, <1>3, <2>1, BudgetTypes DEF BudgetSpent, CurrentRound
    <2>3. /\ started'[d] = [started[d] EXCEPT ![rounds[d]] = @ + 1]
          /\ started[d] \in [Round -> Nat]
      BY <1>1, <1>2, <1>3
    <2>4. started'[d] \in [Round -> Nat]
      BY <2>1, <2>3
    <2>5. Folder(started'[d], Round)[Round] = Folder(started[d], Round)[Round] + 1
      BY <2>1, <2>3, <2>4, RoundsFinite, SumOfIncrement
    <2>6. /\ attemptCount'[d] = attemptCount[d] + 1 /\ attemptCount[d] \in Nat
          /\ status'[d] = "running" /\ status[d] # "absent"
          /\ rounds'[d] = rounds[d] /\ redrives'[d] = redrives[d]
      BY <1>1, <1>2, <1>3
    <2>7. attempts'[d] = [attempts[d] EXCEPT ![attemptCount[d] + 1] = "running"]
      BY <1>1, <1>2, <1>3
    <2>8. \A a \in Attempt : attempts'[d][a] = "none" <=> a > attemptCount'[d]
      <3>1. \A a \in Attempt : attempts[d][a] = "none" <=> a > attemptCount[d]
        BY <1>0 DEF Account
      <3>2. attempts[d] \in [Attempt -> AttemptStatus]
        BY <1>2
      <3> QED
        BY <2>6, <2>7, <3>1, <3>2 DEF Attempt
    <2>9. \A r \in Round : /\ started'[d][r] <= RoundBudget
                           /\ r > rounds'[d] => started'[d][r] = 0
      <3>1. \A r \in Round : /\ started[d][r] <= RoundBudget
                             /\ r > rounds[d] => started[d][r] = 0
        BY <1>0 DEF Account
      <3>2. ASSUME NEW r \in Round
            PROVE  started'[d][r] = IF r = rounds[d] THEN started[d][r] + 1
                                                    ELSE started[d][r]
        BY <2>1, <2>3
      <3>3. ASSUME NEW r \in Round
            PROVE  /\ r \in Nat /\ rounds[d] \in Nat /\ started[d][r] \in Nat
                   /\ started[d][rounds[d]] \in Nat
        <4>1. r \in Nat /\ rounds[d] \in Nat
          BY <2>1 DEF Round
        <4> QED
          BY <2>1, <2>3, <4>1
      <3> QED
        BY <2>2, <2>6, <3>1, <3>2, <3>3, BudgetTypes
    <2>10. attemptCount'[d] <= AttemptBudget
      BY <2>2, <2>6, BudgetTypes
    <2>11. /\ Folder(started[d], Round)[Round] = attemptCount[d]
           /\ rounds[d] = redrives[d] + 1 /\ redrives[d] <= RedriveBudget
      BY <1>0, <2>6 DEF Account
    <2> QED
      BY <2>5, <2>6, <2>8, <2>9, <2>10, <2>11 DEF Account
  <1>4. CASE d # e
    BY <1>0, <1>1, <1>2, <1>4, AccountKept
  <1> QED
    BY <1>3, <1>4

LEMMA FinishAccount ==
  ASSUME IInv, Budgets, NEW k \in Worker, FinishAttempt(k), NEW d \in Delivery
  PROVE  Account(d)'
  <1>0. Account(d)
    BY DEF Budgets
  <1>1. /\ attemptCount' = attemptCount /\ started' = started
        /\ rounds' = rounds /\ redrives' = redrives
    BY DEF FinishAttempt
  <1>2. status'[d] = "absent" <=> status[d] = "absent"
    BY DEF FinishAttempt, IInv, TypeOK, DeliveryTypeOK
  <1>3. \A a \in Attempt : attempts'[d][a] = "none" <=> attempts[d][a] = "none"
    <2>1. worker[k].outcome # "none"
      BY DEF Budgets, Decided, FinishAttempt
    <2>2. attempts \in [Delivery -> [Attempt -> AttemptStatus]]
      BY DEF IInv, TypeOK, DeliveryTypeOK
    <2>3. PICK row \in {"retryScheduled", "failed", worker[k].outcome} :
            attempts' = [attempts EXCEPT ![worker[k].d][worker[k].attempt] =
                           IF @ = "running" THEN row ELSE @]
      BY DEF FinishAttempt
    <2> QED
      BY <2>1, <2>2, <2>3
  <1> QED
    BY <1>0, <1>1, <1>2, <1>3, AccountKept

(* An outcome other than "none" is chosen with every step to "done".       *)
LEMMA DecidedKept ==
  ASSUME IInv, Decided, NEW k \in Worker, WorkerSteps(k)
  PROVE  Decided'
  <1>1. worker \in [Worker -> WorkerState]
    BY DEF IInv, TypeOK, ProcessTypeOK
  <1>2. \/ \E phase \in Phase \ {"done"} : Goto(k, phase)
        \/ \E failure \in Failure : Err(k, failure)
        \/ \E o \in Outcome \ {"none"} : Done(k, o)
    BY DEF WorkerSteps, CheckBlock, ReadSecret, PostRequest, Answer,
           ClassifyError, Phase, Failure, Outcome
  <1>3. ASSUME NEW phase \in Phase \ {"done"}, Goto(k, phase)
        PROVE  Decided'
    BY <1>1, <1>3 DEF Goto, Becomes, Decided, At, WorkerState
  <1>4. ASSUME NEW failure \in Failure, Err(k, failure)
        PROVE  Decided'
    BY <1>1, <1>4 DEF Err, Becomes, Decided, At, WorkerState
  <1>5. ASSUME NEW o \in Outcome \ {"none"}, Done(k, o)
        PROVE  Decided'
    BY <1>1, <1>5 DEF Done, Becomes, Decided, At, WorkerState
  <1> QED
    BY <1>2, <1>3, <1>4, <1>5

LEMMA NextBudgets ==
  ASSUME IInv, Budgets, [Next]_vars
  PROVE  Budgets'
  <1>0. Decided /\ \A d \in Delivery : Account(d)
    BY DEF Budgets
  <1>1. CASE \/ \E w \in Webhook, s \in Secret : ReplaceWebhook(w, s)
             \/ \E w \in Webhook : EnableWebhook(w)
             \/ Cancellation \/ UNCHANGED vars
             \/ \E d \in Delivery : DelayElapses(d)
    <2>1. UNCHANGED <<status, attemptCount, started, rounds, redrives, attempts, worker>>
      BY <1>1 DEF ReplaceWebhook, EnableWebhook, Cancellation, SecretRevoked,
         CancelWebhook, DelayElapses, vars, deliveryVars, processVars
    <2> QED
      BY <1>0, <2>1, AccountKept DEF Budgets, Decided, At
  <1>2. CASE \/ \E w \in Webhook : DisableWebhook(w)
             \/ \E s \in Secret : DeleteSecret(s)
    <2>1. PICK S : CancelUnstarted(S)
      BY <1>2 DEF DisableWebhook, DeleteSecret, RevokeSecretInTransaction
    <2>2. UNCHANGED <<attemptCount, started, rounds, redrives, attempts, worker>>
      BY <1>2, <2>1 DEF CancelUnstarted, DisableWebhook, DeleteSecret
    <2>3. \A d \in Delivery : status'[d] = "absent" <=> status[d] = "absent"
      BY <2>1 DEF CancelUnstarted
    <2> QED
      BY <1>0, <2>2, <2>3, AccountKept DEF Budgets, Decided, At
  <1>3. CASE Crash
    <2>1. UNCHANGED <<status, attemptCount, started, rounds, redrives, attempts>>
      BY <1>3 DEF Crash, deliveryVars
    <2>2. Decided'
      BY <1>3 DEF Crash, Decided, At, Idle
    <2> QED
      BY <1>0, <2>1, <2>2, AccountKept DEF Budgets
  <1>4. ASSUME NEW d \in Delivery, RetryDelivery(d)
        PROVE  Budgets'
    <2>1. Decided'
      BY <1>0, <1>4 DEF RetryDelivery, processVars, Decided, At
    <2> QED
      BY <1>4, <2>1, RetryAccount DEF Budgets
  <1>5. CASE Trigger
    <2>1. PICK src \in Source, w \in Webhook : CreateDelivery(src, w)
      BY <1>5, TriggerCreates
    <2>2. Decided'
      BY <1>0, <2>1 DEF CreateDelivery, processVars, Decided, At
    <2> QED
      BY <2>1, <2>2, CreateDeliveryAccount DEF Budgets
  <1>6. ASSUME NEW k \in Worker, NEW e \in Delivery, ClaimDelivery(k, e)
        PROVE  Budgets'
    <2>1. CASE GiveUp(e, "cancelled") \/ GiveUp(e, "failed")
      <3>1. UNCHANGED <<attemptCount, started, rounds, redrives, attempts, worker>>
        BY <2>1 DEF GiveUp
      <3>2. \A d \in Delivery : status'[d] = "absent" <=> status[d] = "absent"
        BY <1>6, <2>1 DEF GiveUp, ClaimDelivery, IInv, TypeOK, DeliveryTypeOK
      <3> QED
        BY <1>0, <3>1, <3>2, AccountKept DEF Budgets, Decided, At
    <2>2. CASE StartAttempt(k, e) /\ ~BudgetSpent(e)
      <3>1. status[e] = "pending"
        BY <1>6 DEF ClaimDelivery
      <3>2. Decided'
        BY <1>0, <2>2 DEF StartAttempt, Claimed, Decided, At, IInv, TypeOK, ProcessTypeOK
      <3> QED
        BY <2>2, <3>1, <3>2, StartAccount DEF Budgets
    <2> QED
      BY <1>6, <2>1, <2>2 DEF ClaimDelivery
  <1>7. ASSUME NEW k \in Worker, WorkerSteps(k)
        PROVE  Budgets'
    <2>1. UNCHANGED <<status, attemptCount, started, rounds, redrives, attempts>>
      BY <1>7, WorkerStepTyped DEF IInv, TypeOK, deliveryVars
    <2>2. Decided'
      BY <1>0, <1>7, DecidedKept
    <2> QED
      BY <1>0, <2>1, <2>2, AccountKept DEF Budgets
  <1>8. ASSUME NEW k \in Worker, FinishAttempt(k)
        PROVE  Budgets'
    <2>1. Decided'
      BY <1>0, <1>8 DEF FinishAttempt, Decided, At, Leaving, Idle, IInv, TypeOK,
         ProcessTypeOK
    <2> QED
      BY <1>8, <2>1, FinishAccount DEF Budgets
  <1>10. ASSUME NEW k \in Worker, Bookkeeping(k)
         PROVE  Budgets'
    <2>1. UNCHANGED <<status, attemptCount, started, rounds, redrives, attempts>>
      BY <1>10, BookkeepingStep DEF IInv, TypeOK, deliveryVars
    <2>2. Decided'
      BY <1>0, <1>10, BookkeepingStep DEF Decided, At, Idle, IInv, TypeOK
    <2> QED
      BY <1>0, <2>1, <2>2, AccountKept DEF Budgets
  <1>9. CASE Restart
    <2>1. UNCHANGED <<attemptCount, started, rounds, redrives, worker>>
      BY <1>9 DEF Restart
    <2>2. \A d \in Delivery : status'[d] = "absent" <=> status[d] = "absent"
      BY <1>9 DEF Restart, Recovered, Live
    <2>3. \A d \in Delivery, a \in Attempt :
            attempts'[d][a] = "none" <=> attempts[d][a] = "none"
      BY <1>9 DEF Restart, RecoveredRow
    <2> QED
      BY <1>0, <2>1, <2>2, <2>3, AccountKept DEF Budgets, Decided, At
  <1> QED
    BY <1>1, <1>2, <1>3, <1>4, <1>5, <1>6, <1>7, <1>8, <1>9, <1>10
       DEF Next, Owner, Claim, Process, WorkerSteps, Bookkeeping

(* What is counted on a delivery, on its rounds and as rows agrees and     *)
(* stays within the budgets, for any budgets, redrives and crashes.        *)
THEOREM BudgetsAreRespected == Spec => []BudgetsRespected
  BY Invariance, InitBudgets, NextBudgets, BudgetsImply, PTL DEF Spec

-----------------------------------------------------------------------------
(* JobSchedule. *)

USE JobScheduleAssumption

Past ==
  /\ \A x \in slots \cup skipped : 3 * x[2] <= clock
  /\ tick # None => tick <= clock

EditAhead ==
  edit.open /\ ~edit.overtaken =>
    \A x \in slots \cup skipped : x[1] = edit.job => x[2] < edit.slot

LeftNotDue ==
  \A j \in Job : heard[j] # None => ~TextDue(nextRun[j], heard[j])

JobIInv == /\ JobTypeOK /\ Past /\ EditAhead /\ SlotsMoveForward
           /\ SkippedStaysSkipped /\ LeftNotDue

-----------------------------------------------------------------------------
(* The calendar. *)

LEMMA CycleType == Cycle \in Nat /\ Minute \subseteq Nat /\ Instant \subseteq Nat /\ None \in Nat
  <1>1. DayMinutes \in Nat /\ MonthDays \in Nat /\ WeekDays \in Nat
    OBVIOUS
  <1>2. Cycle \in Nat
    BY <1>1 DEF Cycle
  <1> QED BY <1>2 DEF Minute, Instant, None

LEMMA MinuteOfType ==
  ASSUME NEW at \in Instant
  PROVE  MinuteOf(at) \in 0 .. Horizon /\ at < 3 * MinuteOf(at) + 3 /\ 3 * MinuteOf(at) <= at
  <1>1. at \in Nat /\ at <= 3 * Horizon + 2 /\ Horizon \in Nat
    BY DEF Instant
  <1>2. at \div 3 \in Nat /\ at < 3 * (at \div 3) + 3 /\ 3 * (at \div 3) <= at
    BY <1>1
  <1> QED BY <1>1, <1>2 DEF MinuteOf

(* The smallest element of a set of natural numbers. *)
LEMMA MinIsMember ==
  ASSUME NEW S \in SUBSET Nat, S # {}
  PROVE  Min(S) \in S
  <1> DEFINE R == OpToRel(<, Nat)
  <1>1. PICK x \in S : \A y \in S : ~(<<y, x>> \in R)
    BY NatLessThanWellFounded, WFMin
  <1>2. ASSUME NEW y \in S PROVE x <= y
    <2>1. <<y, x>> \in Nat \X Nat /\ y < x => <<y, x>> \in R
      BY DEF OpToRel
    <2>2. ~(<<y, x>> \in R)
      BY <1>1
    <2> HIDE DEF R
    <2> QED BY <2>1, <2>2
  <1> QED BY <1>2 DEF Min

LEMMA MinIsLeast ==
  ASSUME NEW S \in SUBSET Nat, S # {}, NEW y \in S
  PROVE  Min(S) <= y
  <1> DEFINE R == OpToRel(<, Nat)
  <1>1. PICK x \in S : \A z \in S : ~(<<z, x>> \in R)
    BY NatLessThanWellFounded, WFMin
  <1>2. ASSUME NEW z \in S PROVE x <= z
    <2>1. <<z, x>> \in Nat \X Nat /\ z < x => <<z, x>> \in R
      BY DEF OpToRel
    <2>2. ~(<<z, x>> \in R)
      BY <1>1
    <2> HIDE DEF R
    <2> QED BY <2>1, <2>2
  <1> QED BY <1>2 DEF Min

(* The next run of a schedule lies after the minute it is computed in. *)
LEMMA CronNextLater ==
  ASSUME NEW s \in Schedule, NEW m \in 0 .. Horizon
  PROVE  CronNext(s, m) \in Minute /\ m < CronNext(s, m)
  <1> DEFINE S == {n \in m + 1 .. m + Cycle : Matches(s, n)}
  <1>0. Horizon \in Nat /\ m \in Nat /\ Cycle \in Nat
    BY CycleType
  <1>1. S \in SUBSET Nat /\ S # {}
    <2>1. PICK n \in m + 1 .. m + Cycle : Matches(s, n)
      BY CronAssumption
    <2>2. n \in S
      BY <2>1
    <2> QED BY <1>0, <2>2
  <1>2. CronNext(s, m) \in S
    BY <1>1, MinIsMember DEF CronNext
  <1> QED BY <1>0, <1>2 DEF Minute

(* ... and no minute between them is one of the schedule.                  *)
LEMMA CronNextIsNext ==
  ASSUME NEW s \in Schedule, NEW m \in 0 .. Horizon, NEW n \in Nat,
         n < CronNext(s, m), Matches(s, n)
  PROVE  n <= m
  <1> DEFINE S == {i \in m + 1 .. m + Cycle : Matches(s, i)}
  <1>0. Horizon \in Nat /\ m \in Nat /\ Cycle \in Nat
    BY CycleType
  <1>1. S \in SUBSET Nat /\ S # {}
    <2>1. PICK i \in m + 1 .. m + Cycle : Matches(s, i)
      BY CronAssumption
    <2>2. i \in S
      BY <2>1
    <2> QED BY <1>0, <2>2
  <1>2. CronNext(s, m) = Min(S)
    BY DEF CronNext
  <1>3. Min(S) \in S
    BY <1>1, MinIsMember
  <1>4. n \notin S
    <2>1. n \in S => Min(S) <= n
      BY <1>1, MinIsLeast
    <2>2. Min(S) \in Nat
      BY <1>1, <1>3
    <2> QED BY <1>2, <2>1, <2>2
  <1>5. Min(S) <= m + Cycle /\ Min(S) \in Nat
    BY <1>0, <1>3
  <1>6. n < m + Cycle
    BY <1>0, <1>2, <1>5
  <1> QED BY <1>0, <1>4, <1>6

(* A slot is due only when its minute has begun. *)
LEMMA DueIsPast ==
  ASSUME JobTypeOK, NEW at \in Instant, NEW j \in Due(at)
  PROVE  /\ j \in Job /\ j \in jobs /\ jobEnabled[j]
         /\ nextRun[j] \in Minute /\ 3 * nextRun[j] <= at /\ nextRun[j] <= MinuteOf(at)
  <1>1. nextRun[j] \in Nat /\ 3 * nextRun[j] <= at
    BY CycleType DEF Due, TextDue, JobTypeOK
  <1> QED BY <1>1, MinuteOfType, CycleType DEF Due, JobTypeOK, Instant

(* What a transaction of the scheduler consumes. *)
LEMMA Consumed ==
  ASSUME JobTypeOK, NEW at \in Instant, ScheduleDueJobs(at)
  PROVE  /\ \A x \in (slots' \cup skipped') \ (slots \cup skipped) :
              \E j \in Due(at) : x = <<j, nextRun[j]>>
         /\ slots' \subseteq Job \X Minute /\ skipped' \subseteq Job \X Minute
         /\ nextRun' \in [Job -> Minute]
         /\ \A j \in Due(at) : MinuteOf(at) < nextRun'[j] /\ nextRun[j] < nextRun'[j]
         /\ \A j \in Job \ Due(at) : nextRun'[j] = nextRun[j]
  <1>1. \A j \in Due(at) : <<j, nextRun[j]>> \in Job \X Minute
    BY DueIsPast
  <1>2. \A j \in Due(at) : CronNext(cron[j], MinuteOf(at)) \in Minute /\ MinuteOf(at) < CronNext(cron[j], MinuteOf(at))
    BY DueIsPast, CronNextLater, MinuteOfType DEF JobTypeOK
  <1>3. nextRun' \in [Job -> Minute]
    BY <1>2 DEF ScheduleDueJobs, JobTypeOK
  <1>4. \A j \in Due(at) : MinuteOf(at) < nextRun'[j] /\ nextRun[j] < nextRun'[j]
    <2> SUFFICES ASSUME NEW j \in Due(at) PROVE MinuteOf(at) < nextRun'[j] /\ nextRun[j] < nextRun'[j]
      OBVIOUS
    <2>1. nextRun'[j] = CronNext(cron[j], MinuteOf(at)) /\ nextRun[j] \in Nat /\ nextRun[j] <= MinuteOf(at)
      BY DueIsPast, CycleType DEF ScheduleDueJobs
    <2>2. MinuteOf(at) \in Nat /\ MinuteOf(at) < nextRun'[j] /\ nextRun'[j] \in Nat
      <3>1. MinuteOf(at) \in Nat
        BY MinuteOfType
      <3>2. MinuteOf(at) < CronNext(cron[j], MinuteOf(at)) /\ CronNext(cron[j], MinuteOf(at)) \in Nat
        BY <1>2, CycleType
      <3> QED BY <2>1, <3>1, <3>2
    <2> QED BY <2>1, <2>2
  <1> DEFINE consumed == {<<j, nextRun[j]>> : j \in Due(at)}
  <1>5. /\ slots' \subseteq slots \cup consumed
        /\ skipped' \subseteq skipped \cup consumed
    BY DEF ScheduleDueJobs, SlotOf
  <1>6. \A j \in Job \ Due(at) : nextRun'[j] = nextRun[j]
    BY DEF ScheduleDueJobs
  <1>7. slots \subseteq Job \X Minute /\ skipped \subseteq Job \X Minute
    BY DEF JobTypeOK
  <1>8. consumed \subseteq Job \X Minute
    BY <1>1
  <1> QED BY <1>3, <1>4, <1>5, <1>6, <1>7, <1>8

-----------------------------------------------------------------------------
(* The inductive invariant. *)

LEMMA JobIInvInit == JobInit => JobIInv
  <1> SUFFICES ASSUME JobInit PROVE JobIInv
    OBVIOUS
  <1>1. clock \in Instant /\ clock \in Nat /\ MinuteOf(clock) + 1 \in Minute
    <2>1. clock \in Instant
      BY DEF JobInit, Instant
    <2>2. MinuteOf(clock) = 0
      BY DEF JobInit, MinuteOf
    <2>3. Cycle # 0
      BY DEF Cycle
    <2> QED BY <2>1, <2>2, <2>3, CycleType DEF Minute
  <1>2. cron \in [Job -> Schedule]
    BY DEF JobInit
  <1>3. 0 \in Minute
    BY CycleType DEF Minute
  <1>4. tick \in Instant \cup {None} /\ tick = None
    BY DEF JobInit
  <1>5. JobTypeOK
    BY <1>1, <1>2, <1>3, <1>4 DEF JobInit, JobTypeOK
  <1>6. LeftNotDue
    BY DEF JobInit, LeftNotDue
  <1> QED
    BY <1>4, <1>5, <1>6 DEF JobInit, JobIInv, Past, EditAhead, NoEdit, SlotsMoveForward, SkippedStaysSkipped

OpenEdit == [open: {TRUE}, overtaken: BOOLEAN, job: Job, cron: Schedule, slot: Minute]

LEMMA EditType ==
  ASSUME JobTypeOK
  PROVE  /\ edit = NoEdit \/ edit \in OpenEdit
         /\ edit = NoEdit => edit.open = FALSE
         /\ edit \in OpenEdit =>
              /\ edit.open = TRUE /\ edit.overtaken \in BOOLEAN
              /\ edit.job \in Job /\ edit.cron \in Schedule /\ edit.slot \in Minute
  <1>1. edit = NoEdit \/ edit \in OpenEdit
    BY DEF JobTypeOK, OpenEdit
  <1>2. edit = NoEdit => edit.open = FALSE
    BY DEF NoEdit
  <1>3. edit \in OpenEdit =>
          /\ edit.open = TRUE /\ edit.overtaken \in BOOLEAN
          /\ edit.job \in Job /\ edit.cron \in Schedule /\ edit.slot \in Minute
    BY DEF OpenEdit
  <1> QED BY <1>1, <1>2, <1>3

LEMMA OvertakeEdit ==
  ASSUME NEW e \in OpenEdit, NEW b \in BOOLEAN
  PROVE  LET f == [e EXCEPT !.overtaken = @ \/ b]
         IN /\ f \in OpenEdit /\ f.job = e.job /\ f.slot = e.slot
            /\ ~f.overtaken => ~e.overtaken /\ ~b
  BY DEF OpenEdit

LEMMA BeginEditStep ==
  ASSUME JobIInv, NEW j \in Job, NEW s \in Schedule, BeginEdit(j, s)
  PROVE  JobIInv'
  <1> USE DEF JobIInv
  <1> DEFINE slot == CronNext(s, MinuteOf(clock))
  <1>1. clock \in Instant /\ MinuteOf(clock) \in 0 .. Horizon /\ clock < 3 * MinuteOf(clock) + 3
    BY MinuteOfType DEF JobTypeOK
  <1>2. slot \in Minute /\ MinuteOf(clock) < slot
    BY <1>1, CronNextLater
  <1>3. edit' = EditOf(j, s, slot)
    BY DEF BeginEdit
  <1>4. UNCHANGED <<clock, tableVars, loopVars, skipped, raced, heard>>
    BY DEF BeginEdit
  <1> HIDE DEF slot
  <1>5. JobTypeOK'
    BY <1>2, <1>3, <1>4 DEF JobTypeOK, EditOf, tableVars, loopVars
  <1>6. ASSUME NEW x \in slots \cup skipped PROVE x[2] < slot
    <2>1. x[2] \in Nat /\ 3 * x[2] <= clock
      BY CycleType DEF JobTypeOK, Past
    <2>2. clock \in Nat /\ MinuteOf(clock) \in Nat /\ slot \in Nat
      BY <1>1, <1>2, CycleType
    <2> QED BY <1>1, <1>2, <2>1, <2>2
  <1>7. EditAhead'
    BY <1>3, <1>4, <1>6 DEF EditAhead, EditOf, tableVars
  <1> QED
    BY <1>4, <1>5, <1>7
       DEF Past, SlotsMoveForward, SkippedStaysSkipped, LeftNotDue, tableVars, loopVars

LEMMA PlanStep ==
  ASSUME JobIInv, CreateJob \/ ReplaceJob
  PROVE  JobIInv'
  <1> USE DEF JobIInv
  <1> DEFINE j == edit.job
  <1>1. /\ PlanJob(j, edit.cron, edit.slot) /\ edit.open
        /\ UNCHANGED <<clock, webhookOn, slots, running, wake, tick>>
    BY DEF CreateJob, ReplaceJob, loopVars
  <1>2. j \in Job /\ edit.cron \in Schedule /\ edit.slot \in Minute /\ edit.overtaken \in BOOLEAN
    BY <1>1, EditType
  <1>3. jobs' \subseteq Job /\ jobEnabled' \in [Job -> BOOLEAN]
    BY <1>2 DEF CreateJob, ReplaceJob, JobTypeOK
  <1>4. /\ cron' \in [Job -> Schedule] /\ nextRun' \in [Job -> Minute]
        /\ nextRun'[j] = edit.slot
        /\ \A k \in Job : k # j => nextRun'[k] = nextRun[k]
    BY <1>1, <1>2 DEF PlanJob, JobTypeOK
  <1>5. /\ raced' = IF edit.overtaken THEN raced \cup {j} ELSE raced \ {j}
        /\ skipped' = {x \in skipped : x[1] # j}
        /\ edit' = NoEdit
        /\ heard' = [heard EXCEPT ![j] = None]
    BY <1>1 DEF PlanJob
  <1>6. JobTypeOK'
    BY <1>1, <1>2, <1>3, <1>4, <1>5 DEF JobTypeOK
  <1>a. LeftNotDue'
    BY <1>2, <1>4, <1>5 DEF LeftNotDue, JobTypeOK
  <1>7. Past' /\ EditAhead'
    BY <1>1, <1>5 DEF Past, EditAhead, NoEdit
  <1>8. SlotsMoveForward'
    <2> SUFFICES ASSUME NEW x \in slots \cup skipped'
                 PROVE  x[2] < nextRun'[x[1]] \/ x[1] \in raced'
      BY <1>1 DEF SlotsMoveForward
    <2>1. x \in slots \cup skipped /\ x[1] \in Job
      BY <1>5 DEF JobTypeOK
    <2>2. CASE x[1] = j
      BY <1>1, <1>4, <1>5, <2>1, <2>2 DEF EditAhead
    <2>3. CASE x[1] # j
      BY <1>4, <1>5, <2>1, <2>3 DEF SlotsMoveForward
    <2> QED BY <2>2, <2>3
  <1>9. SkippedStaysSkipped'
    BY <1>1, <1>5 DEF SkippedStaysSkipped
  <1> QED BY <1>6, <1>7, <1>8, <1>9, <1>a

(* A transaction of the scheduler, from a clock that it has read before. *)
LEMMA ScheduleStep ==
  ASSUME JobIInv, NEW at \in Instant, at <= clock, ScheduleDueJobs(at),
         UNCHANGED <<clock, raced>>, tick' \in {tick, None}
  PROVE  /\ slots' \subseteq Job \X Minute /\ skipped' \subseteq Job \X Minute
         /\ nextRun' \in [Job -> Minute]
         /\ edit' = NoEdit \/ edit' \in OpenEdit
         /\ heard' \in [Job -> Instant \cup {None}]
         /\ Past' /\ EditAhead' /\ SlotsMoveForward' /\ SkippedStaysSkipped'
         /\ LeftNotDue'
  <1> USE DEF JobIInv
  <1>1. \/ edit' = NoEdit
        \/ /\ edit' \in OpenEdit /\ edit.open /\ edit'.job = edit.job /\ edit'.slot = edit.slot
           /\ ~edit'.overtaken => ~edit.overtaken /\ edit.job \notin Due(at)
    <2> DEFINE b == edit.open /\ edit.job \in Due(at)
    <2>1. edit' = [edit EXCEPT !.overtaken = @ \/ b]
      BY DEF ScheduleDueJobs
    <2>2. CASE edit = NoEdit
      BY <2>1, <2>2 DEF NoEdit
    <2>3. CASE edit \in OpenEdit
      <3>1. b \in BOOLEAN /\ edit.open = TRUE
        BY <2>3, EditType
      <3>2. ~b => edit.job \notin Due(at)
        BY <3>1
      <3> HIDE DEF b
      <3> QED BY <2>1, <2>3, <3>1, <3>2, OvertakeEdit
    <2> QED BY <2>2, <2>3, EditType
  <1>2. ASSUME NEW x \in (slots' \cup skipped') \ (slots \cup skipped)
        PROVE  /\ x[1] \in Due(at) /\ x[2] = nextRun[x[1]]
               /\ x[2] < nextRun'[x[1]] /\ 3 * x[2] <= at /\ x[2] \in Nat
    <2>1. PICK j \in Due(at) : x = <<j, nextRun[j]>>
      BY <1>2, Consumed
    <2> QED BY <2>1, Consumed, DueIsPast, CycleType
  <1>3. Past'
    <2>1. ASSUME NEW x \in slots' \cup skipped' PROVE 3 * x[2] <= clock
      <3>1. CASE x \in slots \cup skipped
        BY <3>1 DEF Past
      <3>2. CASE x \notin slots \cup skipped
        <4>1. 3 * x[2] <= at /\ x[2] \in Nat
          BY <1>2, <3>2
        <4> QED BY <4>1, CycleType DEF JobTypeOK
      <3> QED BY <3>1, <3>2
    <2>2. tick' # None => tick' <= clock
      BY DEF Past
    <2> QED BY <2>1, <2>2 DEF Past
  <1>4. EditAhead'
    <2> SUFFICES ASSUME edit'.open, ~edit'.overtaken,
                        NEW x \in slots' \cup skipped', x[1] = edit'.job
                 PROVE  x[2] < edit'.slot
      BY DEF EditAhead
    <2>1. /\ edit.open /\ ~edit.overtaken /\ edit.job \notin Due(at)
          /\ edit'.job = edit.job /\ edit'.slot = edit.slot
      BY <1>1 DEF NoEdit
    <2>2. x \in slots \cup skipped
      BY <1>2, <2>1
    <2> QED BY <2>1, <2>2 DEF EditAhead
  <1>5. SlotsMoveForward'
    <2> SUFFICES ASSUME NEW x \in slots' \cup skipped', x[1] \notin raced
                 PROVE  x[2] < nextRun'[x[1]]
      BY DEF SlotsMoveForward
    <2>1. CASE x \notin slots \cup skipped
      BY <1>2, <2>1
    <2>2. CASE x \in slots \cup skipped
      <3>1. x[1] \in Job /\ x[2] \in Nat /\ nextRun[x[1]] \in Nat /\ x[2] < nextRun[x[1]]
        BY <2>2, CycleType DEF JobTypeOK, SlotsMoveForward
      <3>2. nextRun'[x[1]] \in Nat
        BY <3>1, Consumed, CycleType
      <3>3. nextRun'[x[1]] = nextRun[x[1]] \/ nextRun[x[1]] < nextRun'[x[1]]
        BY <3>1, Consumed
      <3> QED BY <3>1, <3>2, <3>3
    <2> QED BY <2>1, <2>2
  <1>6. SkippedStaysSkipped'
    <2> SUFFICES ASSUME NEW x \in skipped' \cap slots'
                 PROVE  x[1] \in raced
      BY DEF SkippedStaysSkipped
    <2>1. x \in slots \cup skipped
      BY DEF ScheduleDueJobs
    <2>2. CASE x \in slots /\ x \in skipped
      BY <2>2 DEF SkippedStaysSkipped
    <2>3. CASE x \notin slots \/ x \notin skipped
      <3>1. PICK j \in Due(at) : x = <<j, nextRun[j]>>
        BY <2>1, <2>3 DEF ScheduleDueJobs, SlotOf
      <3>2. nextRun[j] \in Nat
        BY DueIsPast, CycleType
      <3>3. ~(x[2] < nextRun[x[1]])
        BY <3>1, <3>2
      <3> QED BY <2>1, <3>3 DEF SlotsMoveForward
    <2> QED BY <2>2, <2>3
  <1>7. heard' = [j \in Job |-> IF j \in Due(at) THEN None
                               ELSE IF j \in jobs /\ jobEnabled[j] THEN at
                               ELSE heard[j]]
    BY DEF ScheduleDueJobs, Hears
  <1>8. heard' \in [Job -> Instant \cup {None}]
    BY <1>7 DEF JobTypeOK
  <1>9. LeftNotDue'
    <2> SUFFICES ASSUME NEW j \in Job, heard'[j] # None
                 PROVE  ~TextDue(nextRun'[j], heard'[j])
      BY DEF LeftNotDue
    <2>1. j \notin Due(at)
      BY <1>7
    <2>2. nextRun'[j] = nextRun[j]
      BY <2>1, Consumed
    <2>3. CASE j \in jobs /\ jobEnabled[j]
      BY <1>7, <2>1, <2>2, <2>3 DEF Due
    <2>4. CASE ~(j \in jobs /\ jobEnabled[j])
      BY <1>7, <2>1, <2>2, <2>4 DEF LeftNotDue
    <2> QED BY <2>3, <2>4
  <1> QED BY <1>1, <1>3, <1>4, <1>5, <1>6, <1>8, <1>9, Consumed

LEMMA RunTickStep ==
  ASSUME JobIInv, RunTick
  PROVE  JobIInv'
  <1>1. /\ tick \in Instant /\ tick <= clock /\ tick' = None
        /\ UNCHANGED <<clock, webhookOn, jobs, cron, jobEnabled, running, raced>>
    BY DEF RunTick, JobIInv, JobTypeOK, Past
  <1>2. wake' \in Minute
    <2>1. clock \in Instant /\ MinuteOf(clock) \in 0 .. Horizon /\ Cycle \in Nat /\ Cycle # 0
      BY MinuteOfType, CycleType DEF JobIInv, JobTypeOK, Cycle
    <2> QED BY <2>1 DEF RunTick, Minute
  <1>3. CASE ScheduleDueJobs(tick)
    BY <1>1, <1>2, <1>3, ScheduleStep DEF JobIInv, JobTypeOK, OpenEdit
  <1>4. CASE UNCHANGED <<slots, skipped, nextRun, edit, heard>>
    BY <1>1, <1>2, <1>4
       DEF JobIInv, JobTypeOK, Past, EditAhead, SlotsMoveForward, SkippedStaysSkipped, LeftNotDue
  <1> QED BY <1>3, <1>4 DEF RunTick

LEMMA RestartStep ==
  ASSUME JobIInv, NewService
  PROVE  JobIInv'
  <1>1. /\ clock \in Instant /\ clock <= clock /\ tick' = tick /\ ScheduleDueJobs(clock)
        /\ UNCHANGED <<clock, webhookOn, jobs, cron, jobEnabled, raced>> /\ running' = TRUE
    BY CycleType DEF NewService, JobIInv, JobTypeOK
  <1>2. wake' \in Minute
    <2>1. MinuteOf(clock) \in 0 .. Horizon /\ Cycle \in Nat /\ Cycle # 0
      BY <1>1, MinuteOfType, CycleType DEF Cycle
    <2> QED BY <2>1 DEF NewService, Minute
  <1> QED BY <1>1, <1>2, ScheduleStep DEF JobIInv, JobTypeOK, OpenEdit

LEMMA JobIInvNext == JobIInv /\ [JobNext]_jobVars => JobIInv'
  <1> SUFFICES ASSUME JobIInv, [JobNext]_jobVars PROVE JobIInv'
    OBVIOUS
  <1> USE DEF JobIInv
  <1>1. ASSUME NEW j \in Job, NEW s \in Schedule, BeginEdit(j, s) PROVE JobIInv'
    BY <1>1, BeginEditStep
  <1>2. CASE CreateJob \/ ReplaceJob
    BY <1>2, PlanStep
  <1>3. ASSUME NEW j \in Job, NEW on \in BOOLEAN, SetJobEnabled(j, on) PROVE JobIInv'
    BY <1>3 DEF SetJobEnabled, loopVars, JobTypeOK, Past, EditAhead, SlotsMoveForward,
                SkippedStaysSkipped, LeftNotDue
  <1>4. CASE SwitchWebhook
    BY <1>4 DEF SwitchWebhook, loopVars, JobTypeOK, Past, EditAhead, SlotsMoveForward,
                SkippedStaysSkipped, LeftNotDue
  <1>5. ASSUME NEW x \in slots, PruneDelivery(x) PROVE JobIInv'
    BY <1>5 DEF PruneDelivery, loopVars, JobTypeOK, Past, EditAhead, SlotsMoveForward,
                SkippedStaysSkipped, LeftNotDue
  <1>6. CASE Tick
    <2>1. clock \in Instant /\ clock <= clock
      BY CycleType DEF JobTypeOK
    <2> QED BY <1>6, <2>1 DEF Tick, tableVars, JobTypeOK, Past, EditAhead, SlotsMoveForward,
                              SkippedStaysSkipped, LeftNotDue
  <1>7. CASE RunTick
    BY <1>7, RunTickStep
  <1>8. CASE Stop
    BY <1>8 DEF Stop, tableVars, NoEdit, JobTypeOK, Past, EditAhead, SlotsMoveForward,
                SkippedStaysSkipped, LeftNotDue
  <1>9. CASE NewService
    BY <1>9, RestartStep
  <1>10. CASE Advance
    <2>1. /\ clock \in Nat /\ clock' \in Instant /\ clock' \in Nat /\ clock < clock'
          /\ UNCHANGED <<tableVars, edit, loopVars, skipped, raced, heard>>
      BY <1>10, CycleType DEF Advance, JobTypeOK
    <2>2. \A x \in slots \cup skipped : x[2] \in Nat
      BY CycleType DEF JobTypeOK
    <2>3. tick # None => tick \in Nat
      BY CycleType DEF JobTypeOK
    <2>4. Past'
      BY <2>1, <2>2, <2>3 DEF Past, tableVars, loopVars
    <2> QED BY <2>1, <2>4 DEF tableVars, loopVars, JobTypeOK, EditAhead, SlotsMoveForward,
                              SkippedStaysSkipped, LeftNotDue
  <1>11. CASE UNCHANGED jobVars
    BY <1>11 DEF jobVars, tableVars, loopVars, JobTypeOK, Past, EditAhead, SlotsMoveForward,
                 SkippedStaysSkipped, LeftNotDue
  <1> QED
    BY <1>1, <1>2, <1>3, <1>4, <1>5, <1>6, <1>7, <1>8, <1>9, <1>10, <1>11
       DEF JobNext, JobOwner, Edit

(* The inductive invariant holds in every reachable state. *)
THEOREM JobInvariance == JobSpec => []JobIInv
  BY JobIInvInit, JobIInvNext, PTL DEF JobSpec

(* Every variable stays in its type. *)
THEOREM JobTypeCorrect == JobSpec => []JobTypeOK
  <1>1. JobIInv => JobTypeOK
    BY DEF JobIInv
  <1> QED BY <1>1, JobInvariance, PTL

(* scheduleDueJobs (jobs.go) never meets a slot that is already delivered   *)
(* or skipped, except for a Job whose edit it has overtaken.                *)
THEOREM SlotsForward == JobSpec => []SlotsMoveForward
  <1>1. JobIInv => SlotsMoveForward
    BY DEF JobIInv
  <1> QED BY <1>1, JobInvariance, PTL

(* A slot consumed while the Webhook was disabled is not delivered later.   *)
THEOREM SkippedStay == JobSpec => []SkippedStaysSkipped
  <1>1. JobIInv => SkippedStaysSkipped
    BY DEF JobIInv
  <1> QED BY <1>1, JobInvariance, PTL

(* The unique index refuses neither a tick nor the start of the Runtime     *)
(* (newService in service.go) while no edit has been overtaken.             *)
THEOREM StartsUnlessRaced == JobSpec => [](raced = {} => \A at \in Instant : ~Conflict(at))
  <1>1. JobIInv => (raced = {} => \A at \in Instant : ~Conflict(at))
    <2> SUFFICES ASSUME JobIInv, raced = {}, NEW at \in Instant, NEW j \in Due(at), SlotOf(j) \in slots
                 PROVE  FALSE
      BY DEF Conflict
    <2>1. nextRun[j] \in Nat
      BY DueIsPast, CycleType DEF JobIInv
    <2> QED BY <2>1 DEF JobIInv, SlotsMoveForward, SlotOf
  <1> QED BY <1>1, JobInvariance, PTL

-----------------------------------------------------------------------------
(* What becomes of the slots. *)

SlotAccounted ==
  \A j \in jobs : nextRun'[j] # nextRun[j] =>
    \/ edit.open /\ ~edit'.open /\ edit.job = j
    \/ /\ jobEnabled[j] /\ nextRun'[j] > nextRun[j]
       /\ IF webhookOn THEN SlotOf(j) \in slots' \ slots ELSE SlotOf(j) \in skipped'
       /\ \A n \in Passed(j) : 3 * n <= ReadAt /\ ~LeftInTime(j)

LEMMA ScheduleAccounts ==
  ASSUME JobTypeOK, LeftNotDue, NEW at \in Instant, at = ReadAt, ~Conflict(at),
         ScheduleDueJobs(at)
  PROVE  SlotAccounted
  <1> SUFFICES ASSUME NEW j \in jobs, nextRun'[j] # nextRun[j]
               PROVE  /\ jobEnabled[j] /\ nextRun'[j] > nextRun[j]
                      /\ IF webhookOn THEN SlotOf(j) \in slots' \ slots
                                      ELSE SlotOf(j) \in skipped'
                      /\ \A n \in Passed(j) : 3 * n <= at /\ ~LeftInTime(j)
    BY DEF SlotAccounted
  <1>1. j \in Due(at) /\ j \in Job
    BY Consumed DEF JobTypeOK
  <1>2. jobEnabled[j] /\ nextRun[j] < nextRun'[j]
    BY <1>1, Consumed, DueIsPast
  <1>3. nextRun[j] \in Nat /\ nextRun'[j] \in Nat
    BY Consumed, CycleType DEF JobTypeOK
  <1>4. webhookOn => SlotOf(j) \in slots' \ slots
    BY <1>1 DEF Conflict, ScheduleDueJobs
  <1>5. ~webhookOn => SlotOf(j) \in skipped'
    BY <1>1 DEF ScheduleDueJobs
  <1>6. ~LeftInTime(j)
    <2>1. heard[j] # None => ~TextDue(nextRun[j], heard[j])
      BY <1>1 DEF LeftNotDue
    <2>2. heard[j] \in Nat
      BY <1>1, CycleType DEF JobTypeOK
    <2> QED BY <1>3, <2>1, <2>2 DEF LeftInTime, TextDue
  <1>7. ASSUME NEW n \in Passed(j)
        PROVE  3 * n <= at
    <2>1. n \in Nat /\ n < nextRun'[j] /\ Matches(cron[j], n)
      BY <1>3, <1>7 DEF Passed
    <2>2. nextRun'[j] = CronNext(cron[j], MinuteOf(at))
      BY <1>1 DEF ScheduleDueJobs
    <2>3. MinuteOf(at) \in 0 .. Horizon /\ 3 * MinuteOf(at) <= at
      BY MinuteOfType
    <2>4. n <= MinuteOf(at)
      BY <1>1, <2>1, <2>2, <2>3, CronNextIsNext DEF JobTypeOK
    <2> QED BY <2>1, <2>3, <2>4, CycleType
  <1> QED BY <1>2, <1>3, <1>4, <1>5, <1>6, <1>7

LEMMA AccountedNext ==
  JobTypeOK /\ LeftNotDue /\ [JobNext]_jobVars => SlotAccounted \/ UNCHANGED jobVars
  <1> SUFFICES ASSUME JobTypeOK, LeftNotDue, JobNext PROVE SlotAccounted
    OBVIOUS
  <1>1. CASE UNCHANGED nextRun
    BY <1>1 DEF SlotAccounted
  <1>2. CASE CreateJob \/ ReplaceJob
    <2>1. edit.open /\ edit' = NoEdit /\ \A k \in Job : k # edit.job => nextRun'[k] = nextRun[k]
      BY <1>2 DEF CreateJob, ReplaceJob, PlanJob, JobTypeOK
    <2> QED BY <2>1 DEF SlotAccounted, NoEdit, JobTypeOK
  <1>3. CASE RunTick
    <2>1. CASE ~Conflict(tick) /\ ScheduleDueJobs(tick)
      <3>1. tick \in Instant /\ tick = ReadAt
        BY <1>3 DEF RunTick, ReadAt, JobTypeOK
      <3> QED BY <2>1, <3>1, ScheduleAccounts
    <2> QED BY <1>1, <1>3, <2>1 DEF RunTick
  <1>4. CASE NewService
    <2>1. clock \in Instant /\ clock = ReadAt
      BY <1>4 DEF NewService, ReadAt, JobTypeOK
    <2> QED BY <1>4, <2>1, ScheduleAccounts DEF NewService
  <1> QED
    BY <1>1, <1>2, <1>3, <1>4
       DEF JobNext, JobOwner, Edit, BeginEdit, SetJobEnabled, SwitchWebhook, PruneDelivery, Tick,
           Stop, Advance, tableVars

(* Whatever the schedules and the times at which the scheduler runs: only  *)
(* an edit, a delivery or a skip moves a Job past its next run, and the    *)
(* slots it jumps over had begun and were not in front of the scheduler    *)
(* before, but for a tick in the first second of the slot that was due,    *)
(* which compares texts.                                                   *)
THEOREM SlotsAreAccountedFor == JobSpec => SlotsAccountedFor
  <1>1. JobTypeOK /\ LeftNotDue /\ [JobNext]_jobVars => [SlotAccounted]_jobVars
    BY AccountedNext
  <1>2. JobSpec => [][SlotAccounted]_jobVars
    BY <1>1, JobInvariance, PTL DEF JobSpec, JobIInv
  <1> QED BY <1>2 DEF SlotsAccountedFor, SlotAccounted

=============================================================================
