------------------------------ MODULE Deliveries ------------------------------
(***************************************************************************)
(* Durable Webhook deliveries (src/internal/automation).                   *)
(*                                                                         *)
(* The tables modelry_automation_webhooks, _deliveries, _delivery_rounds   *)
(* and _delivery_attempts are durable; the four dispatcher goroutines,     *)
(* their contexts and the callers of DisableWebhook / DeleteSecret that    *)
(* have committed but not yet cancelled the requests in flight are not.    *)
(* Every WithTransaction of the code is one action.  What a worker does    *)
(* between two transactions is cut where another actor can intervene:      *)
(*                                                                         *)
(*   claim -> register -> check -> read secret -> post -> answer -> finish *)
(*         -> unregister                                                   *)
(*                                                                         *)
(* service.active is keyed by the delivery: two attempts of one delivery   *)
(* share an entry, the one that has committed its outcome and not yet      *)
(* unregistered and the next, which a retry or a redrive lets begin.       *)
(*                                                                         *)
(* Abstractions.  A delivery is its ordinal.  A clock is not kept: the     *)
(* retry delay of a pending delivery has elapsed or not (due).  A payload  *)
(* weighs one unit.  created_at is text whose order inside one second is   *)
(* not creation order, so a worker may claim any due delivery.             *)
(***************************************************************************)
EXTENDS Naturals, FiniteSets, FiniteSetsExt

CONSTANTS
  Webhook, Secret, Worker,
  Source,          \* the source types explored, of eventHook, job and test
  RetryDelays,     \* len(service.retryDelays), 7 in the code
  RoundBudget,     \* attempts of one round, 8
  AttemptBudget,   \* attempts of one delivery, 32
  MaxRounds,       \* rounds of one delivery, 4
  RedriveBudget,   \* manual redrives of one delivery, 3
  MaxPending,      \* maximumPendingDeliveries, 1000
  MaxRetained,     \* maximumRetainedDeliveries, 5000
  MaxPayloads,     \* maximumRetainedPayloads, in payload units
  RevokeReadFails, \* the read of SecretRevoked may fail or time out
  MaxDeliveries, MaxRevision, MaxCrashes   \* bounds of the exploration

ASSUME DeliveriesAssumption ==
  /\ {RetryDelays, RoundBudget, AttemptBudget, MaxRounds, RedriveBudget,
      MaxPending, MaxRetained, MaxPayloads, MaxDeliveries, MaxRevision,
      MaxCrashes} \subseteq Nat
  /\ RoundBudget > 0 /\ AttemptBudget > 0 /\ MaxRounds > 0
  /\ MaxPending < MaxRetained
  /\ Source \subseteq {"eventHook", "job", "test"}
  /\ RevokeReadFails \in BOOLEAN
  /\ Webhook # {} /\ Secret # {} /\ Worker # {} /\ Source # {}

Delivery == 1 .. MaxDeliveries
Round    == 1 .. MaxRounds
Attempt  == 1 .. AttemptBudget

Live     == {"pending", "running"}
Terminal == {"succeeded", "failed", "cancelled"}
Status   == {"absent", "pruned"} \cup Live \cup Terminal

AttemptStatus == {"none", "running", "succeeded", "retryScheduled", "rejected",
                  "failed", "interrupted", "cancelled"}

Phase   == {"idle", "claimed", "registered", "checked", "secretRead",
            "posting", "erred", "done", "leaving"}
Failure == {"none", "unsent", "post"}
Outcome == {"none", "succeeded", "transient", "failed", "rejected",
            "cancelled"}

VARIABLES
  enabled,       \* [Webhook -> BOOLEAN]
  signing,       \* [Webhook -> Secret]: signing_secret_id
  revision,      \* [Webhook -> Nat]
  secrets,       \* the ids present in modelry_secrets
  next,          \* the ordinal AUTOINCREMENT gives next
  status,        \* [Delivery -> Status]
  source,        \* [Delivery -> Source]
  target,        \* [Delivery -> Webhook]: webhook_id
  payload,       \* [Delivery -> BOOLEAN]: the body is retained
  attemptCount,  \* [Delivery -> Nat]
  redrives,      \* [Delivery -> Nat]: manual_redrive_count
  due,           \* [Delivery -> BOOLEAN]: next_attempt_at <= now
  rounds,        \* [Delivery -> Nat]: MAX(round)
  snapshot,      \* [Delivery -> [Round -> [secret, revision]]]
  started,       \* [Delivery -> [Round -> Nat]]: attempts_started
  attempts,      \* [Delivery -> [Attempt -> AttemptStatus]]
  up,            \* the Runtime process is running
  worker,        \* [Worker -> claim and program counter]
  active,        \* the workers whose attempts service.active holds
  cancelled,     \* the workers whose active context was cancelled
  cancelling,    \* <<webhook, includeTests>> owed a cancelWebhook call
  revoking,      \* deleted secrets whose SecretRevoked call has not run
  ownerDisabled, \* history: webhooks last switched by DisableWebhook
  displaced,     \* history: workers whose entry another attempt has deleted
  crashes        \* counts Crash steps, for the bound

webhookVars  == <<enabled, signing, revision, secrets, ownerDisabled>>
deliveryVars == <<next, status, source, target, payload, attemptCount,
                  redrives, due, rounds, snapshot, started, attempts>>
processVars  == <<up, worker, active, displaced, cancelled, cancelling,
                  revoking, crashes>>
vars == <<webhookVars, deliveryVars, processVars>>

Idle == [phase |-> "idle", d |-> 0, round |-> 0, attempt |-> 0,
         failure |-> "none", outcome |-> "none"]

Leaving(d) == [Idle EXCEPT !.phase = "leaving", !.d = d]

WorkerState == [phase: Phase, d: 0 .. MaxDeliveries, round: 0 .. MaxRounds,
                attempt: 0 .. AttemptBudget, failure: Failure,
                outcome: Outcome]

-----------------------------------------------------------------------------
(* The tables. *)

With(S)  == {d \in Delivery : status[d] \in S}
Existing == With(Live \cup Terminal)

CurrentRound(d)  == rounds[d]
RoundSecret(d)   == snapshot[d][rounds[d]].secret

\* The condition under which a claim, the re-check of a claimed delivery and
\* the startup recovery give a delivery up.
Blocked(d) == \/ RoundSecret(d) \notin secrets
              \/ source[d] # "test" /\ ~enabled[target[d]]

BudgetSpent(d) == \/ attemptCount[d] >= AttemptBudget
                  \/ started[d][CurrentRound(d)] >= RoundBudget

QueueFullLate == Cardinality(With(Live)) > MaxPending

QueueFull == Cardinality(With(Live)) >= MaxPending

Init ==
  /\ enabled  = [w \in Webhook |-> FALSE]
  /\ signing  \in [Webhook -> Secret]
  /\ revision = [w \in Webhook |-> 1]
  /\ secrets  = Secret
  /\ next     = 1
  /\ status   = [d \in Delivery |-> "absent"]
  /\ source   = [d \in Delivery |-> CHOOSE src \in Source : TRUE]
  /\ target   = [d \in Delivery |-> CHOOSE w \in Webhook : TRUE]
  /\ payload  = [d \in Delivery |-> FALSE]
  /\ attemptCount = [d \in Delivery |-> 0]
  /\ redrives = [d \in Delivery |-> 0]
  /\ due      = [d \in Delivery |-> FALSE]
  /\ rounds   = [d \in Delivery |-> 0]
  /\ snapshot = [d \in Delivery |-> [r \in Round |->
                   [secret |-> CHOOSE s \in Secret : TRUE, revision |-> 0]]]
  /\ started  = [d \in Delivery |-> [r \in Round |-> 0]]
  /\ attempts = [d \in Delivery |-> [a \in Attempt |-> "none"]]
  /\ up = TRUE
  /\ worker = [k \in Worker |-> Idle]
  /\ active = {} /\ displaced = {}
  /\ cancelled = {}
  /\ cancelling = {}
  /\ revoking = {}
  /\ ownerDisabled = {}
  /\ crashes = 0

-----------------------------------------------------------------------------
(* The Owner's configuration of webhooks and secrets. *)

ReplaceWebhook(w, s) ==
  /\ up /\ s \in secrets
  /\ revision[w] < MaxRevision
  /\ signing'  = [signing EXCEPT ![w] = s]
  /\ revision' = [revision EXCEPT ![w] = @ + 1]
  /\ UNCHANGED <<enabled, secrets, ownerDisabled, deliveryVars, processVars>>

EnableWebhookUnchecked(w) ==
  /\ up
  /\ enabled' = [enabled EXCEPT ![w] = TRUE]
  /\ ownerDisabled' = ownerDisabled \ {w}
  /\ UNCHANGED <<signing, revision, secrets, deliveryVars, processVars>>

EnableWebhook(w) ==
  /\ up /\ signing[w] \in secrets
  /\ enabled' = [enabled EXCEPT ![w] = TRUE]
  /\ ownerDisabled' = ownerDisabled \ {w}
  /\ UNCHANGED <<signing, revision, secrets, deliveryVars, processVars>>

CancelUnstartedUnguarded(S) ==
  /\ status' = [d \in Delivery |-> IF d \in S /\ status[d] # "absent"
                                   THEN "cancelled" ELSE status[d]]
  /\ UNCHANGED <<next, source, target, payload, attemptCount, redrives, due,
                 rounds, snapshot, started, attempts>>

\* Deliveries of S that wait become cancelled, in the caller's transaction.
CancelUnstarted(S) ==
  /\ status' = [d \in Delivery |->
                  IF d \in S /\ status[d] = "pending" THEN "cancelled"
                                                      ELSE status[d]]
  /\ due' = [d \in Delivery |->
               due[d] /\ ~(d \in S /\ status[d] = "pending")]
  /\ UNCHANGED <<next, source, target, payload, attemptCount, redrives,
                 rounds, snapshot, started, attempts>>

DisableWebhook(w) ==
  /\ up
  /\ enabled' = [enabled EXCEPT ![w] = FALSE]
  /\ ownerDisabled' = ownerDisabled \cup {w}
  /\ CancelUnstarted({d \in Delivery : target[d] = w /\ source[d] # "test"})
  /\ cancelling' = cancelling \cup {<<w, FALSE>>}
  /\ UNCHANGED <<signing, revision, secrets, up, worker, active, displaced,
                 cancelled, revoking, crashes>>

\* Every webhook that signs with s is disabled, and what waits for it.
RevokeSecretInTransaction(s) ==
  LET users == {w \in Webhook : signing[w] = s} IN
  /\ enabled' = [w \in Webhook |-> enabled[w] /\ w \notin users]
  /\ CancelUnstarted({d \in Delivery : target[d] \in users})

DeleteSecret(s) ==
  /\ up /\ s \in secrets
  /\ RevokeSecretInTransaction(s)
  /\ secrets'  = secrets \ {s}
  /\ revoking' = revoking \cup {s}
  /\ UNCHANGED <<signing, revision, ownerDisabled, up, worker, active,
                 displaced, cancelled, cancelling, crashes>>

\* After the commit SecretRevoked reads which webhooks sign with the secret
\* now; the read runs under a one second limit and its error is ignored.
SecretRevoked(s) ==
  /\ s \in revoking
  /\ revoking' = revoking \ {s}
  /\ \/ cancelling' = cancelling \cup
                        {<<w, TRUE>> : w \in {v \in Webhook : signing[v] = s}}
     \/ RevokeReadFails /\ UNCHANGED cancelling
  /\ UNCHANGED <<webhookVars, deliveryVars, up, worker, active, displaced,
                 cancelled, crashes>>

\* The worker has claimed an attempt and not committed its outcome.
Busy(k) == worker[k].phase \notin {"idle", "leaving"}

\* cancelWebhook under service.mu: the contexts that service.active holds.
\* That of an attempt whose outcome is committed is of no use any more.
CancelWebhook(w, tests) ==
  /\ <<w, tests>> \in cancelling
  /\ cancelling' = cancelling \ {<<w, tests>>}
  /\ cancelled' = cancelled \cup
       {k \in active : /\ Busy(k) /\ target[worker[k].d] = w
                       /\ tests \/ source[worker[k].d] # "test"}
  /\ UNCHANGED <<webhookVars, deliveryVars, up, worker, active, displaced,
                 revoking, crashes>>

-----------------------------------------------------------------------------
(* Accepting a delivery. *)

Oldest(S) == {d \in S : \A e \in S : d <= e}

\* createDeliveryInTransaction.  The payload total is read before pruning.
\* Retained deliveries never exceed the limit (RetentionBounded), so the
\* pruning loop of the code deletes at most one row.
CreateDelivery(src, w) ==
  LET prunable == IF Cardinality(Existing) >= MaxRetained THEN With(Terminal)
                                                          ELSE {}
      victims  == Oldest(prunable)
      full     == \/ QueueFull
                  \/ Cardinality({d \in Existing : payload[d]}) + 1
                       > MaxPayloads
                  \/ /\ Cardinality(Existing) >= MaxRetained
                     /\ victims = {}
  IN
  /\ up /\ next \in Delivery
  /\ src # "test" => enabled[w]
  /\ next' = next + 1
  /\ status' = [d \in Delivery |->
                  IF d = next THEN IF full THEN "failed" ELSE "pending"
                  ELSE IF d \in victims THEN "pruned" ELSE status[d]]
  /\ source'  = [source  EXCEPT ![next] = src]
  /\ target'  = [target  EXCEPT ![next] = w]
  /\ payload' = [d \in Delivery |-> IF d = next THEN ~full
                                    ELSE payload[d] /\ d \notin victims]
  /\ due'     = [due EXCEPT ![next] = ~full]
  /\ rounds'  = [rounds EXCEPT ![next] = 1]
  /\ snapshot' = [snapshot EXCEPT ![next][1] =
                    [secret |-> signing[w], revision |-> revision[w]]]
  /\ UNCHANGED <<attemptCount, redrives, started, attempts, webhookVars,
                 processVars>>

Redrivable(d) ==
  /\ status[d] = "failed" /\ payload[d]
  /\ attemptCount[d] < AttemptBudget /\ redrives[d] < RedriveBudget

\* RetryDelivery: a manual redrive opens a round on the current webhook.
RetryDelivery(d) ==
  /\ up /\ Redrivable(d)
  /\ enabled[target[d]] /\ signing[target[d]] \in secrets
  /\ ~QueueFull
  /\ rounds[d] + 1 <= MaxRounds
  /\ rounds'   = [rounds EXCEPT ![d] = @ + 1]
  /\ snapshot' = [snapshot EXCEPT ![d][rounds[d] + 1] =
                    [secret   |-> signing[target[d]],
                     revision |-> revision[target[d]]]]
  /\ status'   = [status EXCEPT ![d] = "pending"]
  /\ due'      = [due EXCEPT ![d] = TRUE]
  /\ redrives' = [redrives EXCEPT ![d] = @ + 1]
  /\ UNCHANGED <<next, source, target, payload, attemptCount, started,
                 attempts, webhookVars, processVars>>

\* The retry delay written by finishAttempt elapses.
DelayElapses(d) ==
  /\ status[d] = "pending" /\ ~due[d]
  /\ due' = [due EXCEPT ![d] = TRUE]
  /\ UNCHANGED <<next, status, source, target, payload, attemptCount,
                 redrives, rounds, snapshot, started, attempts, webhookVars,
                 processVars>>

-----------------------------------------------------------------------------
(* The dispatcher. *)

At(k, phase) == worker[k].phase = phase

\* The exits of claimDelivery that start no attempt.
GiveUp(d, to) ==
  /\ status' = [status EXCEPT ![d] = to]
  /\ due'    = [due EXCEPT ![d] = FALSE]
  /\ UNCHANGED <<next, source, target, payload, attemptCount, redrives,
                 rounds, snapshot, started, attempts, worker>>

Claimed(d) == [phase |-> "claimed", d |-> d, round |-> rounds[d],
               attempt |-> attemptCount[d] + 1, failure |-> "none",
               outcome |-> "none"]

StartAttemptUncounted(k, d) ==
  /\ attempts' = [attempts EXCEPT ![d][attemptCount[d] + 1] = "running"]
  /\ status'   = [status EXCEPT ![d] = "running"]
  /\ attemptCount' = [attemptCount EXCEPT ![d] = @ + 1]
  /\ due'      = [due EXCEPT ![d] = FALSE]
  /\ worker'   = [worker EXCEPT ![k] = Claimed(d)]
  /\ UNCHANGED <<next, source, target, payload, redrives, rounds, snapshot,
                 started>>

StartAttempt(k, d) ==
  /\ attempts' = [attempts EXCEPT ![d][attemptCount[d] + 1] = "running"]
  /\ started'  = [started EXCEPT ![d][rounds[d]] = @ + 1]
  /\ status'   = [status EXCEPT ![d] = "running"]
  /\ attemptCount' = [attemptCount EXCEPT ![d] = @ + 1]
  /\ due'      = [due EXCEPT ![d] = FALSE]
  /\ worker'   = [worker EXCEPT ![k] = Claimed(d)]
  /\ UNCHANGED <<next, source, target, payload, redrives, rounds, snapshot>>

ClaimDelivery(k, d) ==
  /\ up /\ At(k, "idle")
  /\ status[d] = "pending" /\ due[d]
  /\ \/ Blocked(d) /\ GiveUp(d, "cancelled")
     \/ ~Blocked(d) /\ (BudgetSpent(d) \/ ~payload[d]) /\ GiveUp(d, "failed")
     \/ ~Blocked(d) /\ ~BudgetSpent(d) /\ payload[d] /\ StartAttempt(k, d)
  /\ UNCHANGED <<webhookVars, up, active, displaced, cancelled, cancelling,
                 revoking, crashes>>

\* A step of worker k outside a transaction.
Becomes(k, to) ==
  /\ worker' = [worker EXCEPT ![k] = to]
  /\ UNCHANGED <<webhookVars, deliveryVars, up, active, displaced, cancelled,
                 cancelling, revoking, crashes>>

Goto(k, phase)    == Becomes(k, [worker[k] EXCEPT !.phase = phase])
Err(k, failure)   == Becomes(k, [worker[k] EXCEPT !.phase = "erred",
                                                  !.failure = failure])
Done(k, outcome)  == Becomes(k, [worker[k] EXCEPT !.phase = "done",
                                                  !.outcome = outcome])

\* The attempt that service.active holds under the id of delivery d.
Entry(d) == {k \in active : worker[k].d = d}

\* registerActive writes over what the map holds for the delivery.
RegisterActive(k) ==
  /\ At(k, "claimed")
  /\ worker' = [worker EXCEPT ![k].phase = "registered"]
  /\ active' = (active \ Entry(worker[k].d)) \cup {k}
  /\ UNCHANGED <<webhookVars, deliveryVars, up, displaced, cancelled,
                 cancelling, revoking, crashes>>

CheckBlockSkipped(k) == At(k, "registered") /\ Goto(k, "checked")

\* currentDeliveryBlock before the request.  A cancelled context or a failed
\* read also gives the delivery up, as hookFailed.
CheckBlock(k) ==
  /\ At(k, "registered")
  /\ \/ ~Blocked(worker[k].d) /\ k \notin cancelled /\ Goto(k, "checked")
     \/ Done(k, "cancelled")

\* WithSecretValue reads the secret of the round; the key may be unavailable.
ReadSecret(k) ==
  /\ At(k, "checked")
  /\ \/ /\ snapshot[worker[k].d][worker[k].round].secret \in secrets
        /\ k \notin cancelled
        /\ Goto(k, "secretRead")
     \/ Err(k, "unsent")

\* PrepareWebhook resolves and checks the target, then the request starts.
PostRequest(k) ==
  /\ At(k, "secretRead")
  /\ \/ k \notin cancelled /\ Goto(k, "posting")
     \/ Err(k, "unsent")
     \/ k \in cancelled /\ Err(k, "post")

\* The receiver's answer, or a transport error, deadline or cancellation.
Answer(k) ==
  /\ At(k, "posting")
  /\ \/ \E o \in {"succeeded", "transient", "rejected"} : Done(k, o)
     \/ Err(k, "post")

\* processAttempt after an error: the block is read again first.
ClassifyError(k) ==
  /\ At(k, "erred")
  /\ \/ Done(k, "cancelled")
     \/ /\ ~Blocked(worker[k].d)
        /\ Done(k, IF worker[k].failure = "post" THEN "transient"
                                                 ELSE "failed")

\* finishAttemptAt: the transaction; unregisterActive is deferred after it.
RetryAllowed(k) == /\ started[worker[k].d][worker[k].round] <= RetryDelays
                   /\ worker[k].attempt < AttemptBudget

FinishAttempt(k) ==
  LET d == worker[k].d
      o == worker[k].outcome
      retry == o = "transient" /\ RetryAllowed(k)
      row == IF retry THEN "retryScheduled"
             ELSE IF o = "transient" THEN "failed" ELSE o
      to  == IF retry THEN "pending"
             ELSE IF o \in {"succeeded", "cancelled"} THEN o ELSE "failed"
  IN
  /\ At(k, "done")
  /\ attempts' = [attempts EXCEPT ![d][worker[k].attempt] =
                    IF @ = "running" THEN row ELSE @]
  /\ status' = [status EXCEPT ![d] = IF @ = "running" THEN to ELSE @]
  /\ worker' = [worker EXCEPT ![k] = Leaving(d)]
  /\ cancelled' = cancelled \ {k}
  /\ UNCHANGED <<next, source, target, payload, attemptCount, redrives, due,
                 rounds, snapshot, started, webhookVars, up, active, displaced,
                 cancelling, revoking, crashes>>

\* unregisterActive deletes the entry of the delivery, whoever made it.
UnregisterActive(k) ==
  LET entry == Entry(worker[k].d) IN
  /\ At(k, "leaving")
  /\ worker' = [worker EXCEPT ![k] = Idle]
  /\ active' = active \ entry
  /\ displaced' = (displaced \cup entry) \ {k}
  /\ UNCHANGED <<webhookVars, deliveryVars, up, cancelled, cancelling,
                 revoking, crashes>>

-----------------------------------------------------------------------------
(* Stopping and starting the Runtime. *)

\* A crash, or Close: workers return without persisting their outcome.
Crash ==
  /\ up /\ crashes < MaxCrashes
  /\ up' = FALSE
  /\ crashes' = crashes + 1
  /\ worker' = [k \in Worker |-> Idle]
  /\ active' = {} /\ displaced' = {}
  /\ cancelled' = {} /\ cancelling' = {} /\ revoking' = {}
  /\ UNCHANGED <<webhookVars, deliveryVars>>

\* Mutant of Recovered: only what waits is looked at.
RecoveredWaitingOnly(d) ==
  IF status[d] = "pending" /\ Blocked(d) THEN "cancelled" ELSE status[d]

\* recoverOnStartup: interrupted deliveries first, then the waiting ones.
Recovered(d) ==
  CASE status[d] = "running" /\ Blocked(d)     -> "cancelled"
    [] status[d] = "running" /\ BudgetSpent(d) -> "failed"
    [] status[d] = "running"                   -> "pending"
    [] status[d] = "pending" /\ Blocked(d)     -> "cancelled"
    [] OTHER                                   -> status[d]

RowLeftRunning(d, a) == attempts[d][a]

RecoveredRow(d, a) == IF status[d] = "running" /\ attempts[d][a] = "running"
                      THEN "interrupted" ELSE attempts[d][a]

Restart ==
  /\ ~up
  /\ up' = TRUE
  /\ status' = [d \in Delivery |-> IF status[d] \in Live THEN Recovered(d)
                                                         ELSE status[d]]
  /\ due' = [d \in Delivery |->
               /\ status'[d] = "pending"
               /\ status[d] = "running" \/ due[d]]
  /\ attempts' = [d \in Delivery |-> [a \in Attempt |-> RecoveredRow(d, a)]]
  /\ UNCHANGED <<next, source, target, payload, attemptCount, redrives,
                 rounds, snapshot, started, webhookVars, worker, active,
                 displaced, cancelled, cancelling, revoking, crashes>>

-----------------------------------------------------------------------------
Owner ==
  \/ \E w \in Webhook : \/ \E s \in Secret : ReplaceWebhook(w, s)
                        \/ EnableWebhook(w)
                        \/ DisableWebhook(w)
  \/ \E s \in Secret : DeleteSecret(s)
  \/ \E d \in Delivery : RetryDelivery(d)

\* An enabled event hook of a Record that changes, in the Record's transaction.
AppendIntent(w) == "eventHook" \in Source /\ CreateDelivery("eventHook", w)

\* The schedule of a Job that is due.
CreateJobDelivery(w) == "job" \in Source /\ CreateDelivery("job", w)

\* A Job that its owner runs by hand, and a test: the Secret must be there.
RunJobOnce(w) ==
  "job" \in Source /\ signing[w] \in secrets /\ CreateDelivery("job", w)

CreateTestDelivery(w) ==
  "test" \in Source /\ signing[w] \in secrets /\ CreateDelivery("test", w)

Trigger == \E w \in Webhook :
  \/ AppendIntent(w)
  \/ CreateJobDelivery(w)
  \/ RunJobOnce(w)
  \/ CreateTestDelivery(w)

Cancellation ==
  \/ \E s \in Secret : SecretRevoked(s)
  \/ \E w \in Webhook, tests \in BOOLEAN : CancelWebhook(w, tests)

Claim(k) == \E d \in Delivery : ClaimDelivery(k, d)

Process(k) ==
  \/ RegisterActive(k)
  \/ CheckBlock(k)
  \/ ReadSecret(k)
  \/ PostRequest(k)
  \/ Answer(k)
  \/ ClassifyError(k)
  \/ FinishAttempt(k)
  \/ UnregisterActive(k)

Next ==
  \/ Owner
  \/ Trigger
  \/ Cancellation
  \/ \E d \in Delivery : DelayElapses(d)
  \/ \E k \in Worker : Claim(k) \/ Process(k)
  \/ Crash
  \/ Restart

Spec == Init /\ [][Next]_vars

\* The goroutines run, a request ends within its two second deadline,
\* persistAttemptOutcome retries until it succeeds, delays elapse, and a
\* stopped Runtime is started again.
Fairness ==
  /\ \A d \in Delivery : WF_vars(DelayElapses(d))
  /\ \A k \in Worker : WF_vars(Claim(k)) /\ WF_vars(Process(k))
  /\ WF_vars(Restart)

FairSpec == Spec /\ Fairness

-----------------------------------------------------------------------------
(* Properties. *)

WebhookTypeOK ==
  /\ enabled \in [Webhook -> BOOLEAN] /\ signing \in [Webhook -> Secret]
  /\ revision \in [Webhook -> Nat] /\ secrets \subseteq Secret
  /\ ownerDisabled \subseteq Webhook

DeliveryTypeOK ==
  /\ next \in 1 .. MaxDeliveries + 1
  /\ status \in [Delivery -> Status] /\ source \in [Delivery -> Source]
  /\ target \in [Delivery -> Webhook]
  /\ payload \in [Delivery -> BOOLEAN] /\ due \in [Delivery -> BOOLEAN]
  /\ attemptCount \in [Delivery -> 0 .. AttemptBudget]
  /\ redrives \in [Delivery -> 0 .. RedriveBudget]
  /\ rounds \in [Delivery -> 0 .. MaxRounds]
  /\ snapshot \in [Delivery -> [Round -> [secret: Secret, revision: Nat]]]
  /\ started \in [Delivery -> [Round -> 0 .. RoundBudget]]
  /\ attempts \in [Delivery -> [Attempt -> AttemptStatus]]

ProcessTypeOK ==
  /\ up \in BOOLEAN /\ worker \in [Worker -> WorkerState]
  /\ active \subseteq Worker /\ displaced \subseteq Worker
  /\ cancelled \subseteq Worker
  /\ cancelling \subseteq Webhook \X BOOLEAN
  /\ revoking \subseteq Secret
  /\ crashes \in 0 .. MaxCrashes

\* Every variable stays in its type.
TypeOK == WebhookTypeOK /\ DeliveryTypeOK /\ ProcessTypeOK

\* Four workers claim concurrently and a crash may leave a claim behind.  A
\* busy worker holds the last attempt of a running delivery in its current
\* round, no two workers hold one delivery, a running delivery is held while
\* the Runtime is up, and exactly the running deliveries have a running
\* attempt row, which is their last one.
AttemptOwnership ==
  /\ \A k \in Worker : Busy(k) =>
       LET d == worker[k].d IN
         /\ up /\ d \in Delivery /\ status[d] = "running"
         /\ worker[k].attempt = attemptCount[d]
         /\ worker[k].round = rounds[d]
  /\ \A j, k \in Worker :
       Busy(j) /\ Busy(k) /\ worker[j].d = worker[k].d => j = k
  /\ \A d \in Delivery : up /\ status[d] = "running" =>
       \E k \in Worker : Busy(k) /\ worker[k].d = d
  /\ \A d \in Delivery, a \in Attempt :
       attempts[d][a] = "running" <=>
         status[d] = "running" /\ a = attemptCount[d]

\* Attempts are counted on the delivery, on its round and as rows.  The
\* counts agree across crashes and redrives: a round has at most RoundBudget
\* attempts, the rounds of a delivery add up to its attempts, the rows are
\* the attempts 1 .. attemptCount, and a round is opened by acceptance or by
\* a redrive only.
BudgetsRespected ==
  \A d \in Delivery :
    /\ attemptCount[d] <= AttemptBudget
    /\ \A r \in Round : /\ started[d][r] <= RoundBudget
                        /\ r > rounds[d] => started[d][r] = 0
    /\ MapThenSumSet(LAMBDA r : started[d][r], Round) = attemptCount[d]
    /\ \A a \in Attempt : attempts[d][a] = "none" <=> a > attemptCount[d]
    /\ status[d] # "absent" => rounds[d] = redrives[d] + 1
    /\ redrives[d] <= RedriveBudget

\* The dispatcher joins the secret of the round; the configuration keeps its
\* own promise that an enabled webhook can sign.
EnabledWebhookCanSign == \A w \in Webhook : enabled[w] => signing[w] \in secrets

\* Queue, history and payload limits hold under creation, pruning, redrive
\* and recovery.
CapacityHeld ==
  /\ Cardinality(With(Live)) <= MaxPending
  /\ Cardinality(Existing) <= MaxRetained
  /\ Cardinality({d \in Existing : payload[d]}) <= MaxPayloads

\* What a delivery has behind it: one in the queue has its body and a round,
\* one that failed with its body was tried, so a refused delivery (failed
\* without a body) can never enter the queue, and no round claims more
\* attempts than the delivery had.
Standing ==
  \A d \in Delivery :
    /\ d >= next => status[d] = "absent"
    /\ status[d] \in Live => payload[d] /\ rounds[d] > 0
    /\ status[d] = "running" => attemptCount[d] > 0
    /\ status[d] = "failed" /\ payload[d] => attemptCount[d] > 0
    /\ \A r \in Round : started[d][r] <= attemptCount[d]

RequestStarts(k) == worker[k].phase # "posting" /\ worker'[k].phase = "posting"

\* DisableWebhook commits, then cancels the registered requests; a worker may
\* register, check and post anywhere around those two steps.  Once the call
\* has returned no request of an event hook or job starts for that webhook
\* until it is enabled again, with one exception: an attempt whose entry an
\* earlier attempt of the same delivery has deleted, which unregisters after
\* its outcome is committed and so perhaps after a retry or a redrive of the
\* delivery has been claimed.  cancelWebhook does not find that attempt.
NoRequestAfterDisable ==
  [][\A k \in Worker :
       LET d == worker[k].d IN
         RequestStarts(k) /\ source[d] # "test" /\ target[d] \in ownerDisabled
           /\ k \notin displaced
           => <<target[d], FALSE>> \in cancelling]_vars

\* Every delivery that was accepted, and every redrive, comes to an end,
\* whatever cancels it and also when a crash cuts its attempt off.
Settles == \A d \in Delivery : status[d] \in Live ~> status[d] \notin Live

\* The life cycle every observer of a delivery is promised.
Contract == INSTANCE DeliveryContract
              WITH state <- status, tries <- attemptCount, redriven <- redrives

ImplementsContract == Contract!Spec

=============================================================================
