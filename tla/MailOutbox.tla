------------------------------ MODULE MailOutbox ------------------------------
(***************************************************************************)
(* The outbox of the Mail Provider (src/internal/mail): intents that other *)
(* components enqueue in their own transactions, one worker that sends     *)
(* them after the commit, the test mail that a request sends itself, the   *)
(* retries, and the restart of the process.                                *)
(*                                                                         *)
(* A mail is known by its number, in the order of creation.  "due" says    *)
(* that next_attempt_at has passed.  Of the configuration only matters     *)
(* whether it is enabled; its Secrets can be unreadable at any time.       *)
(***************************************************************************)
EXTENDS Naturals, FiniteSets

CONSTANTS
  MaxAttempts,     \* MaximumAttemptsPerDelivery
  MaxPending,      \* MaximumPendingDeliveries
  MaxRetained,     \* MaximumRetainedDeliveries
  MaxMails,        \* bound: mails
  MaxRetries,      \* bound: retries that the Owner asks for
  MaxCrashes       \* bound: restarts

ASSUME MailOutboxAssumption ==
  /\ MaxAttempts \in Nat \ {0} /\ MaxPending \in Nat /\ MaxRetained \in Nat
  /\ MaxMails \in Nat /\ MaxRetries \in Nat /\ MaxCrashes \in Nat

Mail       == 1..MaxMails
Dispatcher == {"worker", "test"}
Kind       == {"recovery", "test"}
Open       == {"pending", "running"}
Final      == {"succeeded", "failed"}

VARIABLES
  mails,     \* [Mail -> row]; "none" is not created yet, "gone" is pruned
  work,      \* [Dispatcher -> what it is doing]
  provider,  \* "off" or "on"
  retries,
  crashes

mailVars == <<mails, work, provider, retries, crashes>>

\* sends and tries are histories: conversations with the provider that may have
\* delivered the mail, and fresh budgets that the mail was given.
MailRow == [kind: Kind, ref: Nat, status: Open \cup Final \cup {"none", "gone"},
            attempts: 0..MaxAttempts, due: BOOLEAN, sends: Nat, tries: Nat]
NoMail  == [kind |-> "test", ref |-> 0, status |-> "none", attempts |-> 0, due |-> FALSE,
            sends |-> 0, tries |-> 0]

Step == {"idle", "queued", "claimed", "accepted", "refused"}
Work == [step: Step, mail: 0..MaxMails, attempts: 0..MaxAttempts]
Idle == [step |-> "idle", mail |-> 0, attempts |-> 0]

InitMail ==
  /\ mails = [m \in Mail |-> NoMail] /\ work = [d \in Dispatcher |-> Idle]
  /\ provider \in {"off", "on"} /\ retries = 0 /\ crashes = 0

With(statuses) == {m \in Mail : mails[m].status \in statuses}
Newest == Cardinality({m \in Mail : mails[m].status # "none"})

(***************************************************************************)
(* Enqueue, in the transaction of the caller: the limit, the row, and the  *)
(* oldest settled mails removed.                                           *)
(***************************************************************************)
Room == Cardinality(With(Open)) < MaxPending /\ Newest < MaxMails

Pruned(rows) ==
  LET final == {m \in Mail : rows[m].status \in Final}
      old   == {m \in final : Cardinality({n \in final : n > m}) >= MaxRetained}
  IN [m \in Mail |-> IF m \in old THEN [rows[m] EXCEPT !.status = "gone"] ELSE rows[m]]

Enqueued(kind, ref) ==
  Pruned([mails EXCEPT ![Newest + 1] =
            [NoMail EXCEPT !.kind = kind, !.ref = ref, !.status = "pending", !.due = TRUE, !.tries = 1]])

(***************************************************************************)
(* The worker, and SendTest for the mail that it enqueued itself.          *)
(***************************************************************************)
\* processNext: the oldest mail that is due; created_at has a resolution of a
\* second, so that any of several can be the oldest.
Claim ==
  /\ work["worker"] = Idle
  /\ \E m \in With({"pending"}) :
       /\ mails[m].due
       /\ mails' = [mails EXCEPT ![m].status = "running", ![m].due = FALSE]
       /\ work' = [work EXCEPT !["worker"] = [step |-> "claimed", mail |-> m, attempts |-> mails[m].attempts]]
  /\ UNCHANGED <<provider, retries, crashes>>

SendTest ==
  /\ work["test"] = Idle /\ provider # "off" /\ Room
  /\ mails' = Enqueued("test", 0)
  /\ work' = [work EXCEPT !["test"] = [step |-> "queued", mail |-> Newest + 1, attempts |-> 0]]
  /\ UNCHANGED <<provider, retries, crashes>>

\* Mutant of ClaimTest: the status is not compared.
ClaimTestAnyway ==
  LET m == work["test"].mail
  IN /\ work["test"].step = "queued"
     /\ mails' = [mails EXCEPT ![m].status = "running"]
     /\ work' = [work EXCEPT !["test"].step = "claimed"]
     /\ UNCHANGED <<provider, retries, crashes>>

ClaimTest ==
  LET m == work["test"].mail
  IN /\ work["test"].step = "queued"
     /\ IF mails[m].status = "pending"
        THEN /\ mails' = [mails EXCEPT ![m].status = "running"]
             /\ work' = [work EXCEPT !["test"].step = "claimed"]
        ELSE work' = [work EXCEPT !["test"] = Idle] /\ UNCHANGED mails
     /\ UNCHANGED <<provider, retries, crashes>>

\* Mutant of Rescheduled: a failed attempt is not counted.
RescheduledForFree(row, attempts, burn) ==
  [row EXCEPT !.status = "pending", !.due = FALSE, !.attempts = attempts]

\* reschedule: only an attempt that was really made counts.
Rescheduled(row, attempts, burn) ==
  LET made == IF burn THEN attempts + 1 ELSE attempts
  IN [row EXCEPT !.attempts = made, !.due = FALSE,
                 !.status = IF burn /\ made >= MaxAttempts THEN "failed" ELSE "pending"]

Reschedule(d, burn) ==
  /\ mails' = [mails EXCEPT ![work[d].mail] = Rescheduled(@, work[d].attempts, burn)]
  /\ work' = [work EXCEPT ![d] = Idle]

\* dispatch and Send: the configuration, the Secrets and the body are read for
\* each attempt.  An attempt without configuration or Secrets is not counted; a
\* conversation that ends with an error may have delivered the mail.
Attempt(d, renders) ==
  /\ work[d].step = "claimed"
  /\ \/ Reschedule(d, FALSE)
     \/ provider = "on" /\ ~renders /\ Reschedule(d, TRUE)
     \/ /\ provider = "on" /\ renders
        /\ \E outcome \in {"accepted", "refused"}, sent \in {0, 1} :
             /\ outcome = "accepted" => sent = 1
             /\ work' = [work EXCEPT ![d].step = outcome]
             /\ mails' = [mails EXCEPT ![work[d].mail].sends = @ + sent]
  /\ UNCHANGED <<provider, retries, crashes>>

\* markSucceeded, or reschedule after a failure.
Record(d) ==
  /\ \/ work[d].step = "refused" /\ Reschedule(d, TRUE)
     \/ /\ work[d].step = "accepted"
        /\ mails' = [mails EXCEPT ![work[d].mail] =
                       [@ EXCEPT !.status = "succeeded", !.attempts = work[d].attempts + 1, !.due = FALSE]]
        /\ work' = [work EXCEPT ![d] = Idle]
  /\ UNCHANGED <<provider, retries, crashes>>

\* markSucceeded and reschedule ignore the error of their transaction: the mail
\* stays running without a sender, and counts as pending, until the next start.
Unrecorded(d) ==
  /\ work[d].step \in {"claimed", "accepted", "refused"}
  /\ work' = [work EXCEPT ![d] = Idle]
  /\ UNCHANGED <<mails, provider, retries, crashes>>

(***************************************************************************)
(* Time, the Owner, and the process.                                       *)
(***************************************************************************)
Due(m) ==
  /\ mails[m].status = "pending" /\ ~mails[m].due
  /\ mails' = [mails EXCEPT ![m].due = TRUE]
  /\ UNCHANGED <<work, provider, retries, crashes>>

RetryDelivery(m) ==
  /\ mails[m].status = "failed" /\ retries < MaxRetries
  /\ mails' = [mails EXCEPT ![m] = [@ EXCEPT !.status = "pending", !.attempts = 0, !.due = TRUE,
                                             !.tries = mails[m].tries + 1]]
  /\ retries' = retries + 1
  /\ UNCHANGED <<work, provider, crashes>>

\* The revision is compared in a snapshot and not in the transaction, so that of
\* two saves that passed the last one stays: a save stands for both.
SaveConfig(state) ==
  /\ provider # state /\ provider' = state
  /\ UNCHANGED <<mails, work, retries, crashes>>

\* NewService after the process stopped: what was running is interrupted and
\* pending again while it has attempts left.
Interrupted(row) ==
  IF row.status = "running" /\ row.attempts < MaxAttempts
  THEN [row EXCEPT !.status = "pending", !.due = TRUE] ELSE row

RestartMail ==
  /\ crashes < MaxCrashes /\ crashes' = crashes + 1
  /\ mails' = [m \in Mail |-> Interrupted(mails[m])]
  /\ work' = [d \in Dispatcher |-> Idle]
  /\ UNCHANGED <<provider, retries>>

\* What the outbox does by itself; renderable: the mails whose body can be rendered now.
MailNext(renderable) ==
  \/ Claim \/ SendTest \/ ClaimTest
  \/ \E d \in Dispatcher : Attempt(d, work[d].mail \in renderable) \/ Record(d) \/ Unrecorded(d)
  \/ \E m \in Mail : Due(m) \/ RetryDelivery(m)
  \/ \E state \in {"off", "on"} : SaveConfig(state)

(***************************************************************************)
(* Properties.                                                             *)
(***************************************************************************)
MailTypeOK ==
  /\ mails \in [Mail -> MailRow] /\ work \in [Dispatcher -> Work]
  /\ provider \in {"off", "on"}

\* No two senders work on the same mail, and whoever sends one holds its row,
\* although the request that sends a test mail competes with the worker for it
\* and either can hand it back (claim in processNext and SendTest).
OneSender ==
  \A m \in Mail : Cardinality({d \in Dispatcher : work[d].mail = m /\ work[d].step \notin {"idle", "queued"}})
               <= IF mails[m].status = "running" THEN 1 ELSE 0

\* A mail is given to the provider at most MaximumAttemptsPerDelivery times for
\* each budget it was given, and once more for each restart, since an outcome may
\* not be recorded before it; a test mail has the budget twice, since the
\* request that sends it counts from what it read before the worker tried
\* (reschedule, NewService, SendTest).
SendsBounded ==
  \A m \in Mail :
    mails[m].sends <= MaxAttempts * (mails[m].tries + IF mails[m].kind = "test" THEN 1 ELSE 0) + crashes
=============================================================================
