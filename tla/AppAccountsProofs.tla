--------------------------- MODULE AppAccountsProofs ---------------------------
(***************************************************************************)
(* Proofs about AppAccounts and the MailOutbox in it, for any number of    *)
(* App Users, clients, tokens and mails and for any limits.                *)
(*                                                                         *)
(* The inductive invariant has two halves.  MailInv says who works on      *)
(* which mail and what each mail may still cost: its conversations so far  *)
(* and the attempts that it has left never exceed its budgets (Spending).  *)
(* AccountInv says that the owner of a Session has a credential, so that   *)
(* the secrets of both can be compared, and that tokens are numbered in    *)
(* the order of issue.                                                     *)
(***************************************************************************)
EXTENDS AppAccounts, TLAPS, FiniteSetTheorems

USE MailOutboxAssumption, AppAccountsAssumption

(* The mails there are, and the tokens, are numbered from one. *)
MailsNumbered == \E k \in 0..MaxMails : \A m \in Mail : mails[m].status # "none" <=> m <= k

Sends(d)  == work[d].step \notin {"idle", "queued"}
Flying(d) == work[d].step \in {"accepted", "refused"}

(* A mail on which a dispatcher works is running, and has no other. *)
Senders ==
  /\ \A d \in Dispatcher : Sends(d) =>
       /\ work[d].mail \in Mail /\ mails[work[d].mail].status = "running"
       /\ work[d].attempts <= mails[work[d].mail].attempts
       /\ work[d].attempts < MaxAttempts
  /\ \A d, e \in Dispatcher : Sends(d) /\ Sends(e) /\ work[d].mail = work[e].mail => d = e
  /\ \A m \in Mail : mails[m].status \in Open => mails[m].attempts < MaxAttempts
  /\ work["worker"].step # "queued"
  /\ work["test"].step # "idle" =>
       /\ work["test"].mail \in Mail /\ work["test"].attempts = 0
       /\ mails[work["test"].mail].kind = "test" /\ mails[work["test"].mail].status # "none"

(* A test mail gets a second budget when the request that sends it has claimed it. *)
Waits(m)   == work["test"].step = "queued" /\ work["test"].mail = m
Budgets(m) == mails[m].tries + IF mails[m].kind = "test" /\ ~Waits(m) THEN 1 ELSE 0

(* A running mail may have had a conversation that its row does not count yet. *)
Slack(m) == IF mails[m].status = "running" THEN 1 ELSE 0

(* Conversations so far and attempts left, within the budgets and the restarts. *)
Spending ==
  /\ \A m \in Mail : mails[m].status = "none" => mails[m].sends = 0 /\ mails[m].attempts = 0
  /\ \A m \in Mail : mails[m].status # "none" =>
       mails[m].sends + (MaxAttempts - mails[m].attempts)
         <= MaxAttempts * Budgets(m) + crashes + Slack(m)
  /\ \A d \in Dispatcher, m \in Mail : Sends(d) /\ work[d].mail = m =>
       mails[m].sends + (MaxAttempts - work[d].attempts)
         <= MaxAttempts * Budgets(m) + crashes + IF Flying(d) THEN 1 ELSE 0

MailTyped == MailTypeOK /\ crashes \in Nat

MailInv == MailTyped /\ MailsNumbered /\ Senders /\ Spending

CredentialRows(n) == [email: Email \cup {None}, secret: 0..n, verified: BOOLEAN]
SessionRows(n)    == [user: User \cup {None}, secret: 0..n, ended: BOOLEAN]
CodeRows          == [user: User \cup {None}, email: Email \cup {None}, purpose: {"reset", "verify"},
                      used: BOOLEAN, age: 0..2, kept: BOOLEAN]
RequestRows(n)    == [op: {"none", "login", "revoke", "change", "reset", "verify", "register"},
                      user: User \cup {None}, email: Email \cup {None}, secret: 0..n,
                      session: Session \cup {None}]

(* TypeOK without the outbox. *)
AccountTyped ==
  /\ profile \in [User -> Email \cup {None}] /\ credential \in [User -> CredentialRows(drawn)]
  /\ sessions \in [Session -> SessionRows(drawn)] /\ codes \in [Code -> CodeRows]
  /\ config \in Configs /\ request \in [Client -> RequestRows(drawn)] /\ drawn \in 0..MaxSecrets

(* Whoever has a Session has a credential, and a credential is never taken away. *)
SessionsOwned == \A s \in Session : sessions[s] # NoSession => sessions[s].user \in Registered

CodesNumbered == \E k \in 0..MaxCodes : Issued = 1..k

SessionInv == SessionsOwned /\ SessionsOfCurrentPassword
CodeInv    == CodesNumbered /\ CodesEndTogether

(* A request of somebody names an App User. *)
RequestsOwned ==
  \A c \in Client : request[c].op \in {"login", "revoke", "change"} => request[c].user \in User

AccountInv == AccountTyped /\ RequestsOwned /\ SessionInv /\ CodeInv

IInv == MailInv /\ AccountInv

-----------------------------------------------------------------------------
(* Arithmetic of the budgets. *)

LEMMA MoreBudget ==
  ASSUME NEW a \in Nat, NEW b \in Nat
  PROVE  /\ MaxAttempts * (a + 1) = MaxAttempts * a + MaxAttempts
         /\ MaxAttempts * a \in Nat
         /\ a <= b => MaxAttempts * a <= MaxAttempts * b
  <1>1. MaxAttempts * (a + 1) = MaxAttempts * a + MaxAttempts
    OBVIOUS
  <1>2. MaxAttempts * a \in Nat
    OBVIOUS
  <1>3. ASSUME a <= b PROVE MaxAttempts * a <= MaxAttempts * b
    <2>1. PICK n \in Nat : b = a + n
      <3>1. b - a \in Nat /\ b = a + (b - a)
        BY <1>3
      <3> QED BY <3>1
    <2>2. MaxAttempts * b = MaxAttempts * a + MaxAttempts * n /\ MaxAttempts * n \in Nat
      BY <2>1
    <2> QED BY <1>2, <2>2
  <1> QED BY <1>1, <1>2, <1>3

LEMMA BudgetsType ==
  ASSUME MailTyped, NEW m \in Mail
  PROVE  Budgets(m) \in Nat
  BY DEF MailTyped, MailTypeOK, MailRow, Budgets

LEMMA RowFields ==
  ASSUME NEW row \in MailRow
  PROVE  /\ row.kind \in Kind /\ row.attempts \in Nat /\ row.attempts <= MaxAttempts
         /\ row.sends \in Nat /\ row.tries \in Nat
         /\ row.status \in Open \cup Final \cup {"none", "gone"}
  BY DEF MailRow

LEMMA RowType ==
  ASSUME MailTyped, NEW m \in Mail
  PROVE  /\ mails[m].kind \in Kind /\ mails[m].attempts \in Nat /\ mails[m].attempts <= MaxAttempts
         /\ mails[m].sends \in Nat /\ mails[m].tries \in Nat
         /\ mails[m].status \in Open \cup Final \cup {"none", "gone"}
  BY DEF MailTyped, MailTypeOK, MailRow

LEMMA WorkType ==
  ASSUME MailTyped, NEW d \in Dispatcher
  PROVE  work[d].step \in Step /\ work[d].attempts \in Nat /\ work[d].attempts <= MaxAttempts
         /\ work[d].mail \in 0..MaxMails
  BY DEF MailTyped, MailTypeOK, Work

-----------------------------------------------------------------------------
(* A mail is enqueued. *)

LEMMA PrunedRows ==
  ASSUME NEW rows \in [Mail -> MailRow]
  PROVE  /\ Pruned(rows) \in [Mail -> MailRow]
         /\ \A m \in Mail :
              \/ Pruned(rows)[m] = rows[m]
              \/ rows[m].status \in Final /\ Pruned(rows)[m] = [rows[m] EXCEPT !.status = "gone"]
  <1> DEFINE final == {m \in Mail : rows[m].status \in Final}
             old == {m \in final : Cardinality({n \in final : n > m}) >= MaxRetained}
  <1>1. Pruned(rows) = [m \in Mail |-> IF m \in old THEN [rows[m] EXCEPT !.status = "gone"] ELSE rows[m]]
    BY DEF Pruned
  <1>2. \A m \in old : m \in Mail /\ rows[m].status \in Final
    OBVIOUS
  <1>3. \A m \in Mail : [rows[m] EXCEPT !.status = "gone"] \in MailRow
    BY DEF MailRow
  <1> HIDE DEF old
  <1> QED BY <1>1, <1>2, <1>3

LEMMA NewestIsLast ==
  ASSUME MailTyped, NEW k \in 0..MaxMails, \A m \in Mail : mails[m].status # "none" <=> m <= k
  PROVE  Newest = k
  <1>1. {m \in Mail : mails[m].status # "none"} = 1..k
    BY DEF Mail
  <1>2. Cardinality(1..k) = IF 1 > k THEN 0 ELSE k - 1 + 1
    BY FS_Interval
  <1>3. k \in Int /\ Cardinality(1..k) = k
    BY <1>2
  <1> QED BY <1>1, <1>3 DEF Newest

NewMail(kind, ref) ==
  [NoMail EXCEPT !.kind = kind, !.ref = ref, !.status = "pending", !.due = TRUE, !.tries = 1]

LEMMA NewMailRow ==
  ASSUME NEW kind \in Kind, NEW ref \in Nat
  PROVE  /\ NewMail(kind, ref) \in MailRow
         /\ NewMail(kind, ref).kind = kind /\ NewMail(kind, ref).status = "pending"
         /\ NewMail(kind, ref).attempts = 0 /\ NewMail(kind, ref).sends = 0
         /\ NewMail(kind, ref).tries = 1
  <1>1. "pending" \in Open \cup Final \cup {"none", "gone"} /\ 0 \in 0..MaxAttempts
    BY DEF Open
  <1>2. NewMail(kind, ref) \in MailRow
    BY <1>1 DEF NewMail, NoMail, MailRow
  <1> QED BY <1>2 DEF NewMail, NoMail

LEMMA Enqueuing ==
  ASSUME MailInv, Room, NEW kind \in Kind, NEW ref \in Nat, mails' = Enqueued(kind, ref)
  PROVE  LET new == Newest + 1
         IN /\ new \in Mail /\ mails[new].status = "none"
            /\ mails' \in [Mail -> MailRow]
            /\ mails'[new].kind = kind /\ mails'[new].status = "pending" /\ mails'[new].attempts = 0
            /\ mails'[new].sends = 0 /\ mails'[new].tries = 1
            /\ \A m \in Mail : m # new =>
                 /\ mails'[m].kind = mails[m].kind /\ mails'[m].attempts = mails[m].attempts
                 /\ mails'[m].sends = mails[m].sends /\ mails'[m].tries = mails[m].tries
                 /\ \/ mails'[m].status = mails[m].status
                    \/ mails[m].status \in Final /\ mails'[m].status = "gone"
            /\ MailsNumbered'
  <1> DEFINE new == Newest + 1
             row == NewMail(kind, ref)
             rows == [mails EXCEPT ![new] = row]
  <1>1. PICK k \in 0..MaxMails : \A m \in Mail : mails[m].status # "none" <=> m <= k
    BY DEF MailInv, MailsNumbered
  <1>2. Newest = k /\ k < MaxMails
    BY <1>1, NewestIsLast DEF MailInv, Room
  <1>3. new \in Mail /\ mails[new].status = "none"
    BY <1>1, <1>2 DEF Mail
  <1>4. row \in MailRow /\ row.kind = kind /\ row.status = "pending" /\ row.attempts = 0
        /\ row.sends = 0 /\ row.tries = 1
    BY NewMailRow
  <1> HIDE DEF row
  <1>5. /\ rows \in [Mail -> MailRow] /\ rows[new] = row
        /\ \A m \in Mail : m # new => rows[m] = mails[m]
    BY <1>3, <1>4 DEF MailInv, MailTyped, MailTypeOK
  <1>6. mails' = Pruned(rows)
    BY DEF Enqueued, NewMail, row
  <1> HIDE DEF rows
  <1>7. mails' \in [Mail -> MailRow]
    BY <1>5, <1>6, PrunedRows
  <1>8. mails'[new] = row
    BY <1>3, <1>4, <1>5, <1>6, PrunedRows DEF Final
  <1>9. ASSUME NEW m \in Mail, m # new
        PROVE  /\ mails'[m].kind = mails[m].kind /\ mails'[m].attempts = mails[m].attempts
               /\ mails'[m].sends = mails[m].sends /\ mails'[m].tries = mails[m].tries
               /\ \/ mails'[m].status = mails[m].status
                  \/ mails[m].status \in Final /\ mails'[m].status = "gone"
    <2>1. \/ mails'[m] = mails[m]
          \/ mails[m].status \in Final /\ mails'[m] = [mails[m] EXCEPT !.status = "gone"]
      BY <1>5, <1>6, <1>9, PrunedRows
    <2>2. mails[m] \in MailRow
      BY DEF MailInv, MailTyped, MailTypeOK
    <2> QED BY <2>1, <2>2 DEF MailRow
  <1>10. MailsNumbered'
    <2>1. \A m \in Mail : mails'[m].status # "none" <=> m <= k + 1
      <3> TAKE m \in Mail
      <3>1. CASE m = new
        BY <1>2, <1>4, <1>8, <3>1
      <3>2. CASE m # new
        BY <1>1, <1>2, <1>9, <3>2 DEF Mail, Final
      <3> QED BY <3>1, <3>2
    <2>2. k + 1 \in 0..MaxMails
      BY <1>2
    <2> QED BY <2>1, <2>2 DEF MailsNumbered
  <1> HIDE DEF new
  <1>11. new = Newest + 1
    BY DEF new
  <1> QED BY <1>3, <1>4, <1>7, <1>8, <1>9, <1>10, <1>11

(* What Spending says of a mail stays true while its row only loses its place. *)
LEMMA EnqueuedSpending ==
  ASSUME MailInv, Room, NEW kind \in Kind, NEW ref \in Nat, mails' = Enqueued(kind, ref),
         NEW m \in Mail, mails'[m].status # "none", crashes' = crashes,
         Budgets(m)' \in Nat,
         m = Newest + 1 => 1 <= Budgets(m)',
         m # Newest + 1 => Budgets(m) <= Budgets(m)'
  PROVE  mails'[m].sends + (MaxAttempts - mails'[m].attempts)
           <= MaxAttempts * Budgets(m)' + crashes' + Slack(m)'
  <1>1. crashes \in Nat /\ Budgets(m) \in Nat /\ Slack(m)' \in {0, 1}
    BY BudgetsType DEF MailInv, MailTyped, Slack
  <1>2. CASE m = Newest + 1
    <2>1. mails'[m].sends = 0 /\ mails'[m].attempts = 0
      BY <1>2, Enqueuing
    <2>2. MaxAttempts * 1 <= MaxAttempts * Budgets(m)' /\ MaxAttempts * Budgets(m)' \in Nat
      BY <1>2, MoreBudget
    <2> QED BY <1>1, <2>1, <2>2
  <1>3. CASE m # Newest + 1
    <2>1. mails'[m].sends = mails[m].sends /\ mails'[m].attempts = mails[m].attempts
      BY <1>3, Enqueuing
    <2>2. mails[m].status # "none" /\ Slack(m) = Slack(m)'
      <3>1. \/ mails'[m].status = mails[m].status
            \/ mails[m].status \in Final /\ mails'[m].status = "gone"
        BY <1>3, Enqueuing
      <3> QED BY <3>1 DEF Final, Slack
    <2>3. mails[m].sends + (MaxAttempts - mails[m].attempts)
            <= MaxAttempts * Budgets(m) + crashes + Slack(m)
      BY <2>2 DEF MailInv, Spending
    <2>4. MaxAttempts * Budgets(m) <= MaxAttempts * Budgets(m)'
          /\ MaxAttempts * Budgets(m) \in Nat /\ MaxAttempts * Budgets(m)' \in Nat
      BY <1>1, <1>3, MoreBudget
    <2>5. mails[m].sends \in Nat /\ mails[m].attempts \in Nat
      BY RowType DEF MailInv
    <2> QED BY <1>1, <2>1, <2>2, <2>3, <2>4, <2>5
  <1> QED BY <1>2, <1>3

LEMMA EnqueuedNone ==
  ASSUME MailInv, Room, NEW kind \in Kind, NEW ref \in Nat, mails' = Enqueued(kind, ref),
         NEW m \in Mail, mails'[m].status = "none"
  PROVE  mails'[m].sends = 0 /\ mails'[m].attempts = 0
  <1>1. m # Newest + 1 /\ mails[m].status = "none"
    BY Enqueuing
  <1> QED BY <1>1, Enqueuing DEF MailInv, Spending

(* The test mail is queued with its sender, or the worker's mail with nobody. *)
QueuedBy(kind, new) ==
  \/ work' = work
  \/ /\ kind = "test" /\ work["test"] = Idle /\ work' \in [Dispatcher -> Work]
     /\ work'["test"] = [step |-> "queued", mail |-> new, attempts |-> 0]
     /\ work'["worker"] = work["worker"]

LEMMA EnqueueStep ==
  ASSUME MailInv, Room, NEW kind \in Kind, NEW ref \in Nat, mails' = Enqueued(kind, ref),
         QueuedBy(kind, Newest + 1), UNCHANGED <<provider, retries, crashes>>
  PROVE  MailInv'
  <1> DEFINE new == Newest + 1
  <1>1. MailTyped'
    BY Enqueuing DEF MailInv, MailTyped, MailTypeOK, QueuedBy
  <1>2. new \in Mail /\ mails[new].status = "none" /\ MailsNumbered'
    BY Enqueuing
  <1>3. /\ mails'[new].status = "pending" /\ mails'[new].attempts = 0 /\ mails'[new].kind = kind
        /\ mails'[new].tries = 1
    BY Enqueuing
  <1>4. ASSUME NEW m \in Mail, m # new
        PROVE  /\ mails'[m].kind = mails[m].kind /\ mails'[m].tries = mails[m].tries
               /\ mails'[m].attempts = mails[m].attempts /\ mails'[m].sends = mails[m].sends
               /\ mails'[m].status \in Open => mails[m].status = mails'[m].status
               /\ mails[m].status = "running" => mails'[m].status = "running"
               /\ mails[m].status # "none" => mails'[m].status # "none"
    BY <1>4, Enqueuing DEF Open, Final
  <1> HIDE DEF new
  <1>5. ASSUME NEW d \in Dispatcher
        PROVE  /\ Sends(d)' <=> Sends(d)
               /\ Sends(d) => work'[d] = work[d]
    BY DEF QueuedBy, Idle, Sends, Dispatcher
  <1>6. ASSUME NEW d \in Dispatcher, Sends(d)
        PROVE  work[d].mail \in Mail /\ work[d].mail # new /\ mails[work[d].mail].status = "running"
    BY <1>2, <1>6 DEF MailInv, Senders
  <1>7. /\ work'["worker"].step # "queued"
        /\ work'["test"].step # "idle" =>
             /\ work'["test"].mail \in Mail /\ work'["test"].attempts = 0
             /\ mails'[work'["test"].mail].kind = "test" /\ mails'[work'["test"].mail].status # "none"
        /\ \A m \in Mail : m # new => (Waits(m)' <=> Waits(m))
    <2>1. CASE work' = work
      <3>1. work["test"].step # "idle" => work["test"].mail # new /\ work["test"].mail \in Mail
        BY <1>2 DEF MailInv, Senders
      <3> QED BY <1>4, <2>1, <3>1 DEF MailInv, Senders, Waits
    <2>2. CASE work' # work
      BY <1>2, <1>3, <2>2 DEF MailInv, Senders, QueuedBy, Idle, Waits, new
    <2> QED BY <2>1, <2>2
  <1>8. Senders'
    <2>1. \A d \in Dispatcher : Sends(d)' =>
            /\ work'[d].mail \in Mail /\ mails'[work'[d].mail].status = "running"
            /\ work'[d].attempts <= mails'[work'[d].mail].attempts
            /\ work'[d].attempts < MaxAttempts
      BY <1>4, <1>5, <1>6 DEF MailInv, Senders
    <2>2. \A d, e \in Dispatcher : Sends(d)' /\ Sends(e)' /\ work'[d].mail = work'[e].mail => d = e
      BY <1>5 DEF MailInv, Senders
    <2>3. \A m \in Mail : mails'[m].status \in Open => mails'[m].attempts < MaxAttempts
      BY <1>3, <1>4 DEF MailInv, Senders
    <2> QED BY <1>7, <2>1, <2>2, <2>3 DEF Senders
  <1>9. ASSUME NEW m \in Mail
        PROVE  Budgets(m)' \in Nat /\ (m = new => 1 <= Budgets(m)') /\ (m # new => Budgets(m)' = Budgets(m))
    <2>1. mails'[m] \in MailRow
      BY <1>1 DEF MailTyped, MailTypeOK
    <2>2. mails'[m].tries \in Nat
      BY <2>1, RowFields
    <2> QED BY <1>3, <1>4, <1>7, <2>2 DEF Budgets
  <1>10. Spending'
    <2>1. ASSUME NEW m \in Mail, mails'[m].status # "none"
          PROVE  mails'[m].sends + (MaxAttempts - mails'[m].attempts)
                   <= MaxAttempts * Budgets(m)' + crashes' + Slack(m)'
      <3>1. m # Newest + 1 => Budgets(m) <= Budgets(m)'
        BY <1>9 DEF new
      <3> QED BY <1>9, <2>1, <3>1, EnqueuedSpending DEF new
    <2>2. ASSUME NEW d \in Dispatcher, NEW m \in Mail, Sends(d)', work'[d].mail = m
          PROVE  mails'[m].sends + (MaxAttempts - work'[d].attempts)
                   <= MaxAttempts * Budgets(m)' + crashes' + IF Flying(d)' THEN 1 ELSE 0
      <3>1. Sends(d) /\ work'[d] = work[d] /\ (Flying(d)' <=> Flying(d))
        BY <1>5, <2>2 DEF Flying
      <3>2. m = work[d].mail /\ m # new
        BY <1>6, <2>2, <3>1
      <3>3. mails'[m].sends = mails[m].sends /\ Budgets(m)' = Budgets(m)
        BY <1>4, <1>9, <3>2
      <3> QED BY <3>1, <3>2, <3>3 DEF MailInv, Spending
    <2>3. \A m \in Mail : mails'[m].status = "none" => mails'[m].sends = 0 /\ mails'[m].attempts = 0
      BY EnqueuedNone
    <2> QED BY <2>1, <2>2, <2>3 DEF Spending
  <1> QED BY <1>1, <1>2, <1>8, <1>10 DEF MailInv

-----------------------------------------------------------------------------
(* A dispatcher works on a mail. *)

LEMMA Numbered ==
  ASSUME MailsNumbered, \A m \in Mail : mails'[m].status = "none" <=> mails[m].status = "none"
  PROVE  MailsNumbered'
  BY DEF MailsNumbered

(* The budgets of a mail only grow. *)
LEMMA BudgetsGrow ==
  ASSUME MailTyped, MailTyped', NEW m \in Mail, mails'[m].kind = mails[m].kind,
         mails[m].tries <= mails'[m].tries, Waits(m)' => Waits(m)
  PROVE  /\ Budgets(m) \in Nat /\ Budgets(m)' \in Nat /\ Budgets(m) <= Budgets(m)'
         /\ MaxAttempts * Budgets(m) \in Nat /\ MaxAttempts * Budgets(m)' \in Nat
         /\ MaxAttempts * Budgets(m) <= MaxAttempts * Budgets(m)'
  <1>1. mails'[m].tries \in Nat /\ mails[m].tries \in Nat
    BY RowFields DEF MailTyped, MailTypeOK
  <1>2. Budgets(m) \in Nat /\ Budgets(m)' \in Nat /\ Budgets(m) <= Budgets(m)'
    BY <1>1 DEF Budgets
  <1> QED BY <1>2, MoreBudget

(* Claim and ClaimTest: a pending mail is taken up, with what it spent so far. *)
LEMMA TakeUp ==
  ASSUME MailInv, NEW d \in Dispatcher, ~Sends(d), NEW m \in Mail, NEW row \in MailRow,
         NEW a \in 0..MaxAttempts, a < MaxAttempts, a <= mails[m].attempts,
         mails[m].status = "pending", row.status = "running", row.kind = mails[m].kind,
         row.attempts = mails[m].attempts, row.sends = mails[m].sends, row.tries = mails[m].tries,
         mails' = [mails EXCEPT ![m] = row],
         work' = [work EXCEPT ![d] = [step |-> "claimed", mail |-> m, attempts |-> a]],
         \A n \in Mail : Waits(n)' => Waits(n),
         d = "test" => mails[m].kind = "test" /\ a = 0,
         UNCHANGED <<provider, retries, crashes>>,
         mails[m].sends + (MaxAttempts - a) <= MaxAttempts * Budgets(m)' + crashes
  PROVE  MailInv'
  <1>1. /\ mails'[m] = row /\ \A n \in Mail : n # m => mails'[n] = mails[n]
        /\ work'[d].step = "claimed" /\ work'[d].mail = m /\ work'[d].attempts = a
        /\ \A e \in Dispatcher : e # d => work'[e] = work[e]
    BY DEF MailInv, MailTyped, MailTypeOK
  <1>2. MailTyped'
    <2>1. [step |-> "claimed", mail |-> m, attempts |-> a] \in Work
      BY DEF Work, Step, Mail
    <2> QED BY <2>1 DEF MailInv, MailTyped, MailTypeOK
  <1>3. MailsNumbered'
    BY <1>1, Numbered DEF MailInv
  <1>4. Sends(d)' /\ ~Flying(d)' /\ \A e \in Dispatcher : e # d => (Sends(e)' <=> Sends(e)) /\ (Flying(e)' <=> Flying(e))
    BY <1>1 DEF Sends, Flying
  <1>5. \A e \in Dispatcher : Sends(e) => work[e].mail # m
    BY DEF MailInv, Senders
  <1>6. Senders'
    <2>1. \A e \in Dispatcher : Sends(e)' =>
            /\ work'[e].mail \in Mail /\ mails'[work'[e].mail].status = "running"
            /\ work'[e].attempts <= mails'[work'[e].mail].attempts
            /\ work'[e].attempts < MaxAttempts
      BY <1>1, <1>4, <1>5 DEF MailInv, Senders
    <2>2. \A e, g \in Dispatcher : Sends(e)' /\ Sends(g)' /\ work'[e].mail = work'[g].mail => e = g
      BY <1>1, <1>4, <1>5 DEF MailInv, Senders
    <2>3. \A n \in Mail : mails'[n].status \in Open => mails'[n].attempts < MaxAttempts
      BY <1>1 DEF MailInv, Senders, Open
    <2>4. /\ work'["worker"].step # "queued"
          /\ work'["test"].step # "idle" =>
               /\ work'["test"].mail \in Mail /\ work'["test"].attempts = 0
               /\ mails'[work'["test"].mail].kind = "test" /\ mails'[work'["test"].mail].status # "none"
      BY <1>1 DEF MailInv, Senders, Dispatcher
    <2> QED BY <2>1, <2>2, <2>3, <2>4 DEF Senders
  <1>7. ASSUME NEW n \in Mail
        PROVE  MaxAttempts * Budgets(n) <= MaxAttempts * Budgets(n)'
               /\ MaxAttempts * Budgets(n) \in Nat /\ MaxAttempts * Budgets(n)' \in Nat
    <2>1. mails'[n].kind = mails[n].kind /\ mails[n].tries <= mails'[n].tries
      BY <1>1, RowType DEF MailInv
    <2> QED BY <1>2, <2>1, BudgetsGrow DEF MailInv
  <1>8. Spending'
    <2>1. ASSUME NEW n \in Mail, mails'[n].status # "none"
          PROVE  mails'[n].sends + (MaxAttempts - mails'[n].attempts)
                   <= MaxAttempts * Budgets(n)' + crashes' + Slack(n)'
      <3>1. /\ mails[n].sends \in Nat /\ mails[n].attempts \in Nat /\ crashes \in Nat
            /\ Slack(n)' \in {0, 1}
        BY RowType DEF MailInv, MailTyped, Slack
      <3>2. CASE n = m
        BY <1>1, <1>7, <3>1, <3>2
      <3>3. CASE n # m
        <4>1. mails'[n] = mails[n] /\ Slack(n)' = Slack(n)
          BY <1>1, <3>3 DEF Slack
        <4>2. mails[n].sends + (MaxAttempts - mails[n].attempts)
                <= MaxAttempts * Budgets(n) + crashes + Slack(n)
          BY <2>1, <4>1 DEF MailInv, Spending
        <4> QED BY <1>7, <3>1, <4>1, <4>2
      <3> QED BY <3>2, <3>3
    <2>2. ASSUME NEW e \in Dispatcher, NEW n \in Mail, Sends(e)', work'[e].mail = n
          PROVE  mails'[n].sends + (MaxAttempts - work'[e].attempts)
                   <= MaxAttempts * Budgets(n)' + crashes' + IF Flying(e)' THEN 1 ELSE 0
      <3>1. CASE e = d
        BY <1>1, <1>4, <1>7, <2>2, <3>1 DEF MailInv, MailTyped
      <3>2. CASE e # d
        <4>1. Sends(e) /\ work'[e] = work[e] /\ n # m /\ mails'[n] = mails[n] /\ (Flying(e)' <=> Flying(e))
          BY <1>1, <1>4, <1>5, <2>2, <3>2
        <4>2. mails[n].sends + (MaxAttempts - work[e].attempts)
                <= MaxAttempts * Budgets(n) + crashes + IF Flying(e) THEN 1 ELSE 0
          BY <2>2, <4>1 DEF MailInv, Spending
        <4>3. mails[n].sends \in Nat /\ work[e].attempts \in Nat /\ crashes \in Nat
          BY RowType, WorkType DEF MailInv, MailTyped
        <4> QED BY <1>7, <4>1, <4>2, <4>3
      <3> QED BY <3>1, <3>2
    <2>3. \A n \in Mail : mails'[n].status = "none" => mails'[n].sends = 0 /\ mails'[n].attempts = 0
      BY <1>1 DEF MailInv, Spending
    <2> QED BY <2>1, <2>2, <2>3 DEF Spending
  <1> QED BY <1>2, <1>3, <1>6, <1>8 DEF MailInv

(* reschedule and markSucceeded: a mail leaves its dispatcher, the attempt that was made counted. *)
LEMMA HandBack ==
  ASSUME MailInv, NEW d \in Dispatcher, Sends(d), NEW m \in Mail, work[d].mail = m, NEW row \in MailRow,
         row.status \in {"pending"} \cup Final, row.status = "pending" => row.attempts < MaxAttempts,
         work[d].attempts + (IF Flying(d) THEN 1 ELSE 0) <= row.attempts,
         row.kind = mails[m].kind, row.sends = mails[m].sends, row.tries = mails[m].tries,
         mails' = [mails EXCEPT ![m] = row], work' = [work EXCEPT ![d] = Idle],
         UNCHANGED <<provider, retries, crashes>>
  PROVE  MailInv'
  <1>1. /\ mails'[m] = row /\ \A n \in Mail : n # m => mails'[n] = mails[n]
        /\ work'[d] = Idle /\ work'[d].step = "idle"
        /\ \A e \in Dispatcher : e # d => work'[e] = work[e]
    BY DEF MailInv, MailTyped, MailTypeOK, Idle
  <1>2. MailTyped'
    <2>1. Idle \in Work
      BY DEF Idle, Work, Step
    <2> QED BY <2>1 DEF MailInv, MailTyped, MailTypeOK
  <1>3. mails[m].status = "running" /\ row.status \notin {"none", "running"}
    BY DEF MailInv, Senders, Final
  <1>4. MailsNumbered'
    BY <1>1, <1>3, Numbered DEF MailInv
  <1>5. ~Sends(d)' /\ \A e \in Dispatcher : e # d =>
           /\ (Sends(e)' <=> Sends(e)) /\ (Flying(e)' <=> Flying(e)) /\ (Sends(e) => work[e].mail # m)
    BY <1>1 DEF Sends, Flying, MailInv, Senders
  <1>6. \A n \in Mail : Waits(n)' => Waits(n)
    BY <1>1 DEF Waits, Dispatcher
  <1>7. Senders'
    <2>1. \A e \in Dispatcher : Sends(e)' =>
            /\ work'[e].mail \in Mail /\ mails'[work'[e].mail].status = "running"
            /\ work'[e].attempts <= mails'[work'[e].mail].attempts
            /\ work'[e].attempts < MaxAttempts
      BY <1>1, <1>5 DEF MailInv, Senders
    <2>2. \A e, g \in Dispatcher : Sends(e)' /\ Sends(g)' /\ work'[e].mail = work'[g].mail => e = g
      BY <1>1, <1>5 DEF MailInv, Senders
    <2>3. \A n \in Mail : mails'[n].status \in Open => mails'[n].attempts < MaxAttempts
      BY <1>1, <1>3 DEF MailInv, Senders, Open, Final
    <2>4. /\ work'["worker"].step # "queued"
          /\ work'["test"].step # "idle" =>
               /\ work'["test"].mail \in Mail /\ work'["test"].attempts = 0
               /\ mails'[work'["test"].mail].kind = "test" /\ mails'[work'["test"].mail].status # "none"
      BY <1>1, <1>3 DEF MailInv, Senders, Dispatcher
    <2> QED BY <2>1, <2>2, <2>3, <2>4 DEF Senders
  <1>8. ASSUME NEW n \in Mail
        PROVE  MaxAttempts * Budgets(n) <= MaxAttempts * Budgets(n)'
               /\ MaxAttempts * Budgets(n) \in Nat /\ MaxAttempts * Budgets(n)' \in Nat
    <2>1. mails'[n].kind = mails[n].kind /\ mails[n].tries <= mails'[n].tries
      BY <1>1, RowType DEF MailInv
    <2> QED BY <1>2, <1>6, <2>1, BudgetsGrow DEF MailInv
  <1>9. Spending'
    <2>1. ASSUME NEW n \in Mail, mails'[n].status # "none"
          PROVE  mails'[n].sends + (MaxAttempts - mails'[n].attempts)
                   <= MaxAttempts * Budgets(n)' + crashes' + Slack(n)'
      <3>1. /\ mails[n].sends \in Nat /\ mails[n].attempts \in Nat /\ crashes \in Nat
            /\ Slack(n)' \in {0, 1}
        BY RowType DEF MailInv, MailTyped, Slack
      <3>2. CASE n # m
        <4>1. mails'[n] = mails[n] /\ Slack(n)' = Slack(n)
          BY <1>1, <3>2 DEF Slack
        <4>2. mails[n].sends + (MaxAttempts - mails[n].attempts)
                <= MaxAttempts * Budgets(n) + crashes + Slack(n)
          BY <2>1, <4>1 DEF MailInv, Spending
        <4> QED BY <1>8, <3>1, <4>1, <4>2
      <3>3. CASE n = m
        <4>1. mails[m].sends + (MaxAttempts - work[d].attempts)
                <= MaxAttempts * Budgets(m) + crashes + IF Flying(d) THEN 1 ELSE 0
          BY DEF MailInv, Spending
        <4>2. work[d].attempts \in Nat /\ row.attempts \in Nat
          BY WorkType, RowFields DEF MailInv
        <4> QED BY <1>1, <1>8, <3>1, <3>3, <4>1, <4>2
      <3> QED BY <3>2, <3>3
    <2>2. ASSUME NEW e \in Dispatcher, NEW n \in Mail, Sends(e)', work'[e].mail = n
          PROVE  mails'[n].sends + (MaxAttempts - work'[e].attempts)
                   <= MaxAttempts * Budgets(n)' + crashes' + IF Flying(e)' THEN 1 ELSE 0
      <3>1. Sends(e) /\ work'[e] = work[e] /\ n # m /\ mails'[n] = mails[n] /\ (Flying(e)' <=> Flying(e))
        BY <1>1, <1>5, <2>2
      <3>2. mails[n].sends + (MaxAttempts - work[e].attempts)
              <= MaxAttempts * Budgets(n) + crashes + IF Flying(e) THEN 1 ELSE 0
        BY <2>2, <3>1 DEF MailInv, Spending
      <3>3. mails[n].sends \in Nat /\ work[e].attempts \in Nat /\ crashes \in Nat
        BY RowType, WorkType DEF MailInv, MailTyped
      <3> QED BY <1>8, <3>1, <3>2, <3>3
    <2>3. \A n \in Mail : mails'[n].status = "none" => mails'[n].sends = 0 /\ mails'[n].attempts = 0
      BY <1>1, <1>3 DEF MailInv, Spending
    <2> QED BY <2>1, <2>2, <2>3 DEF Spending
  <1> QED BY <1>2, <1>4, <1>7, <1>9 DEF MailInv

(* Attempt: a conversation with the provider. *)
LEMMA Conversation ==
  ASSUME MailInv, NEW d \in Dispatcher, NEW m \in Mail, work[d].mail = m, work[d].step = "claimed",
         NEW outcome \in {"accepted", "refused"}, NEW sent \in {0, 1},
         work' = [work EXCEPT ![d].step = outcome],
         mails' = [mails EXCEPT ![m].sends = @ + sent],
         UNCHANGED <<provider, retries, crashes>>
  PROVE  MailInv'
  <1>0. mails[m] \in MailRow /\ work[d] \in Work /\ Sends(d) /\ ~Flying(d)
    BY DEF MailInv, MailTyped, MailTypeOK, Sends, Flying
  <1>1. /\ mails'[m].sends = mails[m].sends + sent /\ mails'[m].status = mails[m].status
        /\ mails'[m].attempts = mails[m].attempts /\ mails'[m].kind = mails[m].kind
        /\ mails'[m].tries = mails[m].tries /\ mails'[m] \in MailRow
    BY <1>0 DEF MailRow, MailInv, MailTyped, MailTypeOK
  <1>2. /\ work'[d].step = outcome /\ work'[d].mail = m /\ work'[d].attempts = work[d].attempts
        /\ work'[d] \in Work
    BY <1>0 DEF Work, Step, MailInv, MailTyped, MailTypeOK
  <1>3. /\ \A n \in Mail : n # m => mails'[n] = mails[n]
        /\ \A e \in Dispatcher : e # d => work'[e] = work[e]
    BY DEF MailInv, MailTyped, MailTypeOK
  <1>4. MailTyped'
    BY <1>1, <1>2 DEF MailInv, MailTyped, MailTypeOK
  <1>5. MailsNumbered'
    BY <1>1, <1>3, Numbered DEF MailInv
  <1>6. /\ Sends(d)' /\ Flying(d)'
        /\ \A e \in Dispatcher : e # d =>
             /\ (Sends(e)' <=> Sends(e)) /\ (Flying(e)' <=> Flying(e)) /\ (Sends(e) => work[e].mail # m)
    BY <1>0, <1>2, <1>3 DEF Sends, Flying, MailInv, Senders
  <1>7. /\ \A n \in Mail : mails'[n].status = mails[n].status /\ mails'[n].attempts = mails[n].attempts
                           /\ mails'[n].kind = mails[n].kind /\ mails'[n].tries = mails[n].tries
        /\ \A e \in Dispatcher : work'[e].mail = work[e].mail /\ work'[e].attempts = work[e].attempts
        /\ \A e \in Dispatcher : Sends(e)' <=> Sends(e)
        /\ \A n \in Mail : Waits(n)' => Waits(n)
        /\ work'["worker"].step = "queued" => work["worker"].step = "queued"
        /\ work'["test"].step # "idle" => work["test"].step # "idle"
    BY <1>0, <1>1, <1>2, <1>3, <1>6 DEF Waits, Dispatcher
  <1>8. Senders'
    BY <1>7 DEF MailInv, Senders, Dispatcher
  <1>9. ASSUME NEW n \in Mail
        PROVE  MaxAttempts * Budgets(n) <= MaxAttempts * Budgets(n)'
               /\ MaxAttempts * Budgets(n) \in Nat /\ MaxAttempts * Budgets(n)' \in Nat
    <2>1. mails'[n].kind = mails[n].kind /\ mails[n].tries <= mails'[n].tries
      BY <1>7, RowType DEF MailInv
    <2> QED BY <1>4, <1>7, <2>1, BudgetsGrow DEF MailInv
  <1>10. Spending'
    <2>1. ASSUME NEW n \in Mail, mails'[n].status # "none"
          PROVE  mails'[n].sends + (MaxAttempts - mails'[n].attempts)
                   <= MaxAttempts * Budgets(n)' + crashes' + Slack(n)'
      <3>1. mails[n].sends \in Nat /\ mails[n].attempts \in Nat /\ crashes \in Nat
        BY RowType DEF MailInv, MailTyped
      <3>2. CASE n # m
        <4>1. mails'[n] = mails[n] /\ Slack(n)' = Slack(n) /\ Slack(n) \in {0, 1}
          BY <1>3, <3>2 DEF Slack
        <4>2. mails[n].sends + (MaxAttempts - mails[n].attempts)
                <= MaxAttempts * Budgets(n) + crashes + Slack(n)
          BY <2>1, <4>1 DEF MailInv, Spending
        <4>3. crashes' = crashes /\ mails'[n].sends = mails[n].sends
              /\ mails'[n].attempts = mails[n].attempts
          BY <4>1
        <4> QED BY <1>9, <3>1, <4>1, <4>2, <4>3
      <3>3. CASE n = m
        <4>1. mails[m].status = "running" /\ work[d].attempts <= mails[m].attempts
          BY <1>0 DEF MailInv, Senders
        <4>2. Slack(m)' = 1
          BY <1>1, <4>1 DEF Slack
        <4>3. mails[m].sends + (MaxAttempts - work[d].attempts) <= MaxAttempts * Budgets(m) + crashes
          <5>1. mails[m].sends + (MaxAttempts - work[d].attempts)
                  <= MaxAttempts * Budgets(m) + crashes + 0
            BY <1>0 DEF MailInv, Spending
          <5> QED BY <1>9, <3>1, <3>3, <5>1
        <4>4. work[d].attempts \in Nat
          BY WorkType DEF MailInv
        <4> QED BY <1>1, <1>9, <3>1, <3>3, <4>1, <4>2, <4>3, <4>4
      <3> QED BY <3>2, <3>3
    <2>2. ASSUME NEW e \in Dispatcher, NEW n \in Mail, Sends(e)', work'[e].mail = n
          PROVE  mails'[n].sends + (MaxAttempts - work'[e].attempts)
                   <= MaxAttempts * Budgets(n)' + crashes' + IF Flying(e)' THEN 1 ELSE 0
      <3>1. Sends(e) /\ work[e].mail = n /\ work'[e].attempts = work[e].attempts
        BY <1>7, <2>2
      <3>2. mails[n].sends + (MaxAttempts - work[e].attempts)
              <= MaxAttempts * Budgets(n) + crashes + IF Flying(e) THEN 1 ELSE 0
        BY <3>1 DEF MailInv, Spending
      <3>3. mails[n].sends \in Nat /\ work[e].attempts \in Nat /\ crashes \in Nat
        BY RowType, WorkType DEF MailInv, MailTyped
      <3>4. CASE e = d
        BY <1>0, <1>1, <1>6, <1>9, <3>1, <3>2, <3>3, <3>4
      <3>5. CASE e # d
        BY <1>3, <1>6, <1>9, <3>1, <3>2, <3>3, <3>5
      <3> QED BY <3>4, <3>5
    <2>3. \A n \in Mail : mails'[n].status = "none" => mails'[n].sends = 0 /\ mails'[n].attempts = 0
      BY <1>0, <1>1, <1>3 DEF MailInv, Spending, Senders
    <2> QED BY <2>1, <2>2, <2>3 DEF Spending
  <1> QED BY <1>4, <1>5, <1>8, <1>10 DEF MailInv

(* Due and RetryDelivery: a mail that nobody works on is pending, maybe with a new budget. *)
LEMMA Reopened ==
  ASSUME MailInv, NEW m \in Mail, NEW row \in MailRow, mails[m].status \in {"pending", "failed"},
         row.status = "pending", row.attempts < MaxAttempts, row.kind = mails[m].kind,
         row.sends = mails[m].sends, mails[m].tries <= row.tries,
         mails' = [mails EXCEPT ![m] = row], UNCHANGED <<work, provider, crashes>>,
         mails[m].sends + (MaxAttempts - row.attempts) <= MaxAttempts * Budgets(m)' + crashes
  PROVE  MailInv'
  <1>1. mails'[m] = row /\ \A n \in Mail : n # m => mails'[n] = mails[n]
    BY DEF MailInv, MailTyped, MailTypeOK
  <1>2. MailTyped'
    BY DEF MailInv, MailTyped, MailTypeOK
  <1>3. MailsNumbered'
    BY <1>1, Numbered DEF MailInv
  <1>4. \A d \in Dispatcher : (Sends(d)' <=> Sends(d)) /\ (Flying(d)' <=> Flying(d))
    BY DEF Sends, Flying
  <1>5. \A d \in Dispatcher : Sends(d) => work[d].mail # m
    BY DEF MailInv, Senders
  <1>6. Senders'
    <2>1. \A e \in Dispatcher : Sends(e)' =>
            /\ work'[e].mail \in Mail /\ mails'[work'[e].mail].status = "running"
            /\ work'[e].attempts <= mails'[work'[e].mail].attempts
            /\ work'[e].attempts < MaxAttempts
      BY <1>1, <1>4, <1>5 DEF MailInv, Senders
    <2>2. \A n \in Mail : mails'[n].status \in Open => mails'[n].attempts < MaxAttempts
      BY <1>1 DEF MailInv, Senders
    <2>3. work'["test"].step # "idle" =>
            /\ mails'[work'["test"].mail].kind = "test" /\ mails'[work'["test"].mail].status # "none"
      BY <1>1 DEF MailInv, Senders
    <2> QED BY <1>4, <2>1, <2>2, <2>3 DEF MailInv, Senders
  <1>7. ASSUME NEW n \in Mail
        PROVE  MaxAttempts * Budgets(n) <= MaxAttempts * Budgets(n)'
               /\ MaxAttempts * Budgets(n) \in Nat /\ MaxAttempts * Budgets(n)' \in Nat
    <2>1. mails'[n].kind = mails[n].kind /\ mails[n].tries <= mails'[n].tries
      BY <1>1, RowType DEF MailInv
    <2>2. Waits(n)' => Waits(n)
      BY DEF Waits
    <2> QED BY <1>2, <2>1, <2>2, BudgetsGrow DEF MailInv
  <1>8. Spending'
    <2>1. ASSUME NEW n \in Mail, mails'[n].status # "none"
          PROVE  mails'[n].sends + (MaxAttempts - mails'[n].attempts)
                   <= MaxAttempts * Budgets(n)' + crashes' + Slack(n)'
      <3>1. /\ mails[n].sends \in Nat /\ mails[n].attempts \in Nat /\ crashes \in Nat
            /\ Slack(n)' \in {0, 1}
        BY RowType DEF MailInv, MailTyped, Slack
      <3>2. CASE n # m
        <4>1. mails'[n] = mails[n] /\ Slack(n)' = Slack(n)
          BY <1>1, <3>2 DEF Slack
        <4>2. mails[n].sends + (MaxAttempts - mails[n].attempts)
                <= MaxAttempts * Budgets(n) + crashes + Slack(n)
          BY <2>1, <4>1 DEF MailInv, Spending
        <4> QED BY <1>7, <3>1, <4>1, <4>2
      <3>3. CASE n = m
        <4>1. row.attempts \in Nat
          BY RowFields
        <4> QED BY <1>1, <1>7, <3>1, <3>3, <4>1
      <3> QED BY <3>2, <3>3
    <2>2. ASSUME NEW e \in Dispatcher, NEW n \in Mail, Sends(e)', work'[e].mail = n
          PROVE  mails'[n].sends + (MaxAttempts - work'[e].attempts)
                   <= MaxAttempts * Budgets(n)' + crashes' + IF Flying(e)' THEN 1 ELSE 0
      <3>1. Sends(e) /\ n # m /\ mails'[n] = mails[n] /\ (Flying(e)' <=> Flying(e))
        BY <1>1, <1>4, <1>5, <2>2
      <3>2. mails[n].sends + (MaxAttempts - work[e].attempts)
              <= MaxAttempts * Budgets(n) + crashes + IF Flying(e) THEN 1 ELSE 0
        BY <2>2, <3>1 DEF MailInv, Spending
      <3>3. mails[n].sends \in Nat /\ work[e].attempts \in Nat /\ crashes \in Nat
        BY RowType, WorkType DEF MailInv, MailTyped
      <3> QED BY <1>7, <3>1, <3>2, <3>3
    <2>3. \A n \in Mail : mails'[n].status = "none" => mails'[n].sends = 0 /\ mails'[n].attempts = 0
      BY <1>1 DEF MailInv, Spending
    <2> QED BY <2>1, <2>2, <2>3 DEF Spending
  <1> QED BY <1>2, <1>3, <1>6, <1>8 DEF MailInv

(* ClaimTest finds that the worker was faster, and the test mail gets its second budget *)
(* unused; or an outcome is not recorded.                                               *)
LEMMA LetGo ==
  ASSUME MailInv, NEW x \in Dispatcher, work' = [work EXCEPT ![x] = Idle],
         UNCHANGED <<mails, provider, retries, crashes>>
  PROVE  MailInv'
  <1>1. work'[x] = Idle /\ work'[x].step = "idle" /\ \A d \in Dispatcher : d # x => work'[d] = work[d]
    BY DEF MailInv, MailTyped, MailTypeOK, Idle
  <1>2. MailTyped'
    <2>1. Idle \in Work
      BY DEF Idle, Work, Step
    <2> QED BY <2>1 DEF MailInv, MailTyped, MailTypeOK
  <1>3. \A d \in Dispatcher : /\ work'[d].step # "idle" => work'[d] = work[d]
                              /\ Sends(d)' => Sends(d) /\ work'[d] = work[d]
                              /\ Flying(d)' => Flying(d) /\ work'[d] = work[d]
                              /\ Sends(d)' => (Flying(d)' <=> Flying(d))
    BY <1>1 DEF Sends, Flying
  <1>4. Senders'
    BY <1>1, <1>3 DEF MailInv, Senders, Dispatcher
  <1>5. ASSUME NEW n \in Mail
        PROVE  MaxAttempts * Budgets(n) <= MaxAttempts * Budgets(n)'
               /\ MaxAttempts * Budgets(n) \in Nat /\ MaxAttempts * Budgets(n)' \in Nat
    <2>1. mails'[n].kind = mails[n].kind /\ mails[n].tries <= mails'[n].tries
      BY RowType DEF MailInv
    <2>2. Waits(n)' => Waits(n)
      BY <1>1 DEF Waits, Dispatcher
    <2> QED BY <1>2, <2>1, <2>2, BudgetsGrow DEF MailInv
  <1>6. Spending'
    <2>1. ASSUME NEW n \in Mail, mails[n].status # "none"
          PROVE  mails[n].sends + (MaxAttempts - mails[n].attempts)
                   <= MaxAttempts * Budgets(n)' + crashes + Slack(n)
      <3>1. /\ mails[n].sends \in Nat /\ mails[n].attempts \in Nat /\ crashes \in Nat
            /\ Slack(n) \in {0, 1}
        BY RowType DEF MailInv, MailTyped, Slack
      <3> QED BY <1>5, <2>1, <3>1 DEF MailInv, Spending
    <2>2. ASSUME NEW e \in Dispatcher, NEW n \in Mail, Sends(e), work[e].mail = n
          PROVE  mails[n].sends + (MaxAttempts - work[e].attempts)
                   <= MaxAttempts * Budgets(n)' + crashes + IF Flying(e) THEN 1 ELSE 0
      <3>1. mails[n].sends \in Nat /\ work[e].attempts \in Nat /\ crashes \in Nat
        BY RowType, WorkType DEF MailInv, MailTyped
      <3>2. mails[n].sends + (MaxAttempts - work[e].attempts)
              <= MaxAttempts * Budgets(n) + crashes + IF Flying(e) THEN 1 ELSE 0
        BY <2>2 DEF MailInv, Spending
      <3> QED BY <1>5, <3>1, <3>2
    <2>3. \A n \in Mail : Slack(n)' = Slack(n)
      BY DEF Slack
    <2>4. ASSUME NEW e \in Dispatcher, NEW n \in Mail, Sends(e)', work'[e].mail = n
          PROVE  mails[n].sends + (MaxAttempts - work'[e].attempts)
                   <= MaxAttempts * Budgets(n)' + crashes + IF Flying(e)' THEN 1 ELSE 0
      BY <1>3, <2>2, <2>4
    <2> QED BY <2>1, <2>3, <2>4 DEF MailInv, Spending
  <1> QED BY <1>2, <1>4, <1>6 DEF MailInv, MailsNumbered

LEMMA RestartMailStep ==
  ASSUME MailInv, RestartMail
  PROVE  MailInv'
  <1>1. \A m \in Mail :
          /\ mails'[m] \in MailRow
          /\ mails'[m].kind = mails[m].kind /\ mails'[m].attempts = mails[m].attempts
          /\ mails'[m].sends = mails[m].sends /\ mails'[m].tries = mails[m].tries
          /\ mails'[m].status = IF mails[m].status = "running" THEN "pending" ELSE mails[m].status
    <2> TAKE m \in Mail
    <2>1. mails[m] \in MailRow /\ mails'[m] = Interrupted(mails[m])
      BY DEF RestartMail, MailInv, MailTyped, MailTypeOK
    <2>2. mails[m].status = "running" => mails[m].attempts < MaxAttempts
      BY DEF MailInv, Senders, Open
    <2> QED BY <2>1, <2>2 DEF Interrupted, MailRow, Open
  <1>2. \A d \in Dispatcher : work'[d] = Idle /\ work'[d].step = "idle"
    BY DEF RestartMail, Idle
  <1>3. MailTyped'
    <2>1. Idle \in Work
      BY DEF Idle, Work, Step
    <2>2. crashes' \in Nat
      BY DEF RestartMail, MailInv, MailTyped
    <2> QED BY <1>1, <2>1, <2>2 DEF RestartMail, MailInv, MailTyped, MailTypeOK
  <1>4. MailsNumbered'
    BY <1>1, Numbered DEF MailInv
  <1>5. \A d \in Dispatcher : ~Sends(d)'
    BY <1>2 DEF Sends
  <1>6. Senders'
    BY <1>1, <1>2, <1>5 DEF MailInv, Senders, Dispatcher, Open
  <1>7. Spending'
    <2>1. ASSUME NEW n \in Mail, mails'[n].status # "none"
          PROVE  mails'[n].sends + (MaxAttempts - mails'[n].attempts)
                   <= MaxAttempts * Budgets(n)' + crashes' + Slack(n)'
      <3>1. mails[n].sends \in Nat /\ mails[n].attempts \in Nat /\ crashes \in Nat /\ crashes' = crashes + 1
        BY RowType DEF MailInv, MailTyped, RestartMail
      <3>2. /\ MaxAttempts * Budgets(n) <= MaxAttempts * Budgets(n)'
            /\ MaxAttempts * Budgets(n) \in Nat /\ MaxAttempts * Budgets(n)' \in Nat
        <4>1. ~Waits(n)'
          BY <1>2 DEF Waits, Dispatcher
        <4>2. mails[n].tries <= mails'[n].tries
          BY <1>1, RowType DEF MailInv
        <4> QED BY <1>1, <1>3, <4>1, <4>2, BudgetsGrow DEF MailInv
      <3>3. mails[n].sends + (MaxAttempts - mails[n].attempts)
              <= MaxAttempts * Budgets(n) + crashes + Slack(n)
        BY <1>1, <2>1 DEF MailInv, Spending
      <3>4. Slack(n) \in {0, 1} /\ Slack(n)' = 0
        BY <1>1 DEF Slack
      <3> QED BY <1>1, <3>1, <3>2, <3>3, <3>4
    <2> QED BY <1>1, <1>5, <2>1 DEF MailInv, Spending
  <1> QED BY <1>3, <1>4, <1>6, <1>7 DEF MailInv

-----------------------------------------------------------------------------
(* The outbox. *)

LEMMA MailInit == InitMail => MailInv
  <1> SUFFICES ASSUME InitMail PROVE MailInv
    OBVIOUS
  <1>1. NoMail \in MailRow /\ NoMail.status = "none" /\ NoMail.sends = 0 /\ NoMail.attempts = 0
    BY DEF NoMail, MailRow, Kind
  <1>2. Idle \in Work /\ Idle.step = "idle"
    BY DEF Idle, Work, Step
  <1>3. MailTyped
    BY <1>1, <1>2 DEF InitMail, MailTyped, MailTypeOK
  <1>4. (\A m \in Mail : mails[m] = NoMail) /\ \A d \in Dispatcher : work[d] = Idle
    BY DEF InitMail
  <1>5. MailsNumbered
    <2>1. \A m \in Mail : mails[m].status # "none" <=> m <= 0
      BY <1>1, <1>4 DEF Mail
    <2> QED BY <2>1 DEF MailsNumbered
  <1>6. \A d \in Dispatcher : ~Sends(d)
    BY <1>2, <1>4 DEF Sends
  <1>7. Senders
    BY <1>1, <1>2, <1>4, <1>6 DEF Senders, Dispatcher, Open
  <1>8. Spending
    BY <1>1, <1>4, <1>6 DEF Spending
  <1> QED BY <1>3, <1>5, <1>7, <1>8 DEF MailInv

(* A mail that is not running has nothing uncounted. *)
LEMMA Settled ==
  ASSUME MailInv, NEW m \in Mail, mails[m].status \notin {"none", "running"}
  PROVE  mails[m].sends + (MaxAttempts - mails[m].attempts) <= MaxAttempts * Budgets(m) + crashes
  <1>1. Slack(m) = 0
    BY DEF Slack
  <1>2. mails[m].sends + (MaxAttempts - mails[m].attempts)
          <= MaxAttempts * Budgets(m) + crashes + 0
    BY <1>1 DEF MailInv, Spending
  <1>3. crashes \in Nat /\ MaxAttempts * Budgets(m) \in Nat
    BY BudgetsType, MoreBudget DEF MailInv, MailTyped
  <1> QED BY <1>2, <1>3

LEMMA ClaimStep ==
  ASSUME MailInv, Claim
  PROVE  MailInv'
  <1>1. PICK m \in Mail :
          /\ mails[m].status = "pending" /\ work["worker"] = Idle
          /\ mails' = [mails EXCEPT ![m].status = "running", ![m].due = FALSE]
          /\ work' = [work EXCEPT !["worker"] = [step |-> "claimed", mail |-> m, attempts |-> mails[m].attempts]]
          /\ UNCHANGED <<provider, retries, crashes>>
    BY DEF Claim, With
  <1> DEFINE row == [mails[m] EXCEPT !.status = "running", !.due = FALSE]
  <1>2. mails[m] \in MailRow /\ "worker" \in Dispatcher /\ ~Sends("worker")
    BY <1>1 DEF MailInv, MailTyped, MailTypeOK, Dispatcher, Sends, Idle
  <1>3. /\ row \in MailRow /\ row.status = "running" /\ row.kind = mails[m].kind
        /\ row.attempts = mails[m].attempts /\ row.sends = mails[m].sends /\ row.tries = mails[m].tries
    BY <1>2 DEF MailRow, Open
  <1>4. mails' = [mails EXCEPT ![m] = row]
    BY <1>1 DEF MailInv, MailTyped, MailTypeOK
  <1> HIDE DEF row
  <1>5. mails[m].attempts < MaxAttempts /\ mails[m].attempts \in 0..MaxAttempts
    BY <1>1, RowType DEF MailInv, Senders, Open
  <1>6. \A n \in Mail : Waits(n)' => Waits(n)
    BY <1>1 DEF Waits, MailInv, MailTyped, MailTypeOK
  <1>7. mails[m].sends + (MaxAttempts - mails[m].attempts) <= MaxAttempts * Budgets(m)' + crashes
    <2>1. mails'[m] = row /\ \A n \in Mail : mails'[n] \in MailRow
      BY <1>3, <1>4 DEF MailInv, MailTyped, MailTypeOK
    <2>2. mails'[m].kind = mails[m].kind /\ mails'[m].tries = mails[m].tries
      BY <1>3, <2>1
    <2>3. Waits(m)' <=> Waits(m)
      BY <1>1 DEF Waits, MailInv, MailTyped, MailTypeOK, Dispatcher
    <2>4. Budgets(m)' = Budgets(m)
      BY <2>2, <2>3 DEF Budgets
    <2> QED BY <1>1, <2>4, Settled
  <1>8. mails[m].attempts <= mails[m].attempts
    BY <1>5
  <1> QED BY <1>1, <1>2, <1>3, <1>4, <1>5, <1>6, <1>7, <1>8, TakeUp

LEMMA ClaimTestStep ==
  ASSUME MailInv, ClaimTest
  PROVE  MailInv'
  <1>1. PICK m \in Mail : /\ work["test"].mail = m /\ mails[m].kind = "test"
                          /\ work["test"].attempts = 0 /\ work["test"].step = "queued"
    BY DEF ClaimTest, MailInv, Senders
  <1>2. CASE mails[m].status # "pending"
    BY <1>1, <1>2, LetGo DEF ClaimTest, Dispatcher
  <1>3. CASE mails[m].status = "pending"
    <2> DEFINE row == [mails[m] EXCEPT !.status = "running"]
    <2>1. mails[m] \in MailRow /\ "test" \in Dispatcher /\ ~Sends("test") /\ work["test"] \in Work
      BY <1>1 DEF MailInv, MailTyped, MailTypeOK, Dispatcher, Sends
    <2>2. /\ row \in MailRow /\ row.status = "running" /\ row.kind = mails[m].kind
          /\ row.attempts = mails[m].attempts /\ row.sends = mails[m].sends /\ row.tries = mails[m].tries
      BY <2>1 DEF MailRow, Open
    <2>3. mails' = [mails EXCEPT ![m] = row] /\ UNCHANGED <<provider, retries, crashes>>
      BY <1>1, <1>3 DEF ClaimTest, MailInv, MailTyped, MailTypeOK
    <2>4. work' = [work EXCEPT !["test"] = [step |-> "claimed", mail |-> m, attempts |-> 0]]
      <3>1. [work["test"] EXCEPT !.step = "claimed"] = [step |-> "claimed", mail |-> m, attempts |-> 0]
        BY <1>1, <2>1 DEF Work
      <3> QED BY <1>3, <3>1 DEF ClaimTest, MailInv, MailTyped, MailTypeOK
    <2> HIDE DEF row
    <2>5. mails[m].attempts \in Nat /\ mails[m].sends \in Nat /\ crashes \in Nat /\ Budgets(m) \in Nat
          /\ mails[m].attempts <= MaxAttempts /\ mails[m].tries \in Nat
      BY <1>1, RowType, BudgetsType DEF MailInv, MailTyped
    <2>6. work'["test"].step = "claimed"
      BY <2>4 DEF MailInv, MailTyped, MailTypeOK, Dispatcher
    <2>7. \A n \in Mail : Waits(n)' => Waits(n)
      BY <2>6 DEF Waits
    <2>8. mails[m].sends + (MaxAttempts - 0) <= MaxAttempts * Budgets(m)' + crashes
      <3>1. mails'[m] = row
        BY <1>1, <2>3 DEF MailInv, MailTyped, MailTypeOK
      <3>2. Budgets(m) = mails[m].tries
        BY <1>1, <2>5 DEF Budgets, Waits
      <3>3. Budgets(m)' = mails[m].tries + 1
        BY <1>1, <2>2, <2>6, <3>1 DEF Budgets, Waits
      <3>4. mails[m].sends + (MaxAttempts - mails[m].attempts) <= MaxAttempts * Budgets(m) + crashes
        BY <1>1, <1>3, Settled
      <3>5. /\ MaxAttempts * Budgets(m)' = MaxAttempts * Budgets(m) + MaxAttempts
            /\ MaxAttempts * Budgets(m) \in Nat
        BY <2>5, <3>2, <3>3, MoreBudget
      <3> QED BY <2>5, <3>4, <3>5
    <2>9. 0 \in 0..MaxAttempts /\ 0 < MaxAttempts /\ 0 <= mails[m].attempts
      BY <2>5
    <2> QED BY <1>1, <1>3, <2>1, <2>2, <2>3, <2>4, <2>7, <2>8, <2>9, TakeUp
  <1> QED BY <1>2, <1>3

LEMMA AttemptStep ==
  ASSUME MailInv, NEW d \in Dispatcher, NEW renders,
         Attempt(d, renders) \/ Record(d) \/ Unrecorded(d)
  PROVE  MailInv'
  <1>1. work[d].step \in {"claimed", "accepted", "refused"} /\ Sends(d)
    BY DEF Attempt, Record, Unrecorded, Sends
  <1>2. PICK m \in Mail : work[d].mail = m
    BY <1>1 DEF MailInv, Senders
  <1>3. mails[m] \in MailRow /\ work[d].attempts \in Nat /\ work[d].attempts < MaxAttempts
        /\ UNCHANGED <<provider, retries, crashes>>
    BY <1>1, <1>2, WorkType DEF MailInv, MailTyped, MailTypeOK, Attempt, Record, Unrecorded, Senders
  <1>4. ASSUME NEW burn \in BOOLEAN, Flying(d) => burn, Reschedule(d, burn) PROVE MailInv'
    <2> DEFINE row == Rescheduled(mails[m], work[d].attempts, burn)
               made == IF burn THEN work[d].attempts + 1 ELSE work[d].attempts
    <2>1. made \in 0..MaxAttempts
      BY <1>3
    <2>2. row = [mails[m] EXCEPT !.attempts = made, !.due = FALSE,
                   !.status = IF burn /\ made >= MaxAttempts THEN "failed" ELSE "pending"]
      BY DEF Rescheduled
    <2>3. mails' = [mails EXCEPT ![m] = row] /\ work' = [work EXCEPT ![d] = Idle]
      BY <1>2, <1>4 DEF Reschedule, MailInv, MailTyped, MailTypeOK
    <2>4. work[d].attempts + (IF Flying(d) THEN 1 ELSE 0) <= made /\ (~burn => made < MaxAttempts)
      BY <1>3, <1>4
    <2> HIDE DEF row, made
    <2>5. /\ row \in MailRow /\ row.status \in {"pending", "failed"} /\ row.attempts = made
          /\ row.kind = mails[m].kind /\ row.sends = mails[m].sends /\ row.tries = mails[m].tries
          /\ row.status = "pending" => ~(burn /\ made >= MaxAttempts)
      BY <1>3, <2>1, <2>2 DEF MailRow, Open, Final
    <2>6. row.status = "pending" => row.attempts < MaxAttempts
      BY <2>1, <2>4, <2>5
    <2> QED BY <1>1, <1>2, <1>3, <2>3, <2>4, <2>5, <2>6, HandBack DEF Final
  <1>5. CASE Attempt(d, renders)
    <2>1. work[d].step = "claimed" /\ ~Flying(d)
      BY <1>5 DEF Attempt, Flying
    <2>2. CASE Reschedule(d, FALSE) \/ Reschedule(d, TRUE)
      BY <1>4, <2>1, <2>2
    <2>3. CASE ~(Reschedule(d, FALSE) \/ Reschedule(d, TRUE))
      <3>1. PICK outcome \in {"accepted", "refused"}, sent \in {0, 1} :
              /\ work' = [work EXCEPT ![d].step = outcome]
              /\ mails' = [mails EXCEPT ![work[d].mail].sends = @ + sent]
        BY <1>5, <2>3 DEF Attempt
      <3> QED BY <1>2, <1>3, <2>1, <3>1, Conversation
    <2> QED BY <2>2, <2>3
  <1>6. CASE work[d].step = "refused" /\ Reschedule(d, TRUE)
    BY <1>4, <1>6
  <1>7. CASE /\ work[d].step = "accepted" /\ work' = [work EXCEPT ![d] = Idle]
             /\ mails' = [mails EXCEPT ![work[d].mail] =
                            [@ EXCEPT !.status = "succeeded", !.attempts = work[d].attempts + 1, !.due = FALSE]]
    <2> DEFINE row == [mails[m] EXCEPT !.status = "succeeded", !.attempts = work[d].attempts + 1, !.due = FALSE]
    <2>1. mails' = [mails EXCEPT ![m] = row]
      BY <1>2, <1>7 DEF MailInv, MailTyped, MailTypeOK
    <2>2. work[d].attempts + 1 \in 0..MaxAttempts
      BY <1>3
    <2>3. /\ row \in MailRow /\ row.status = "succeeded" /\ row.attempts = work[d].attempts + 1
          /\ row.kind = mails[m].kind /\ row.sends = mails[m].sends /\ row.tries = mails[m].tries
      BY <1>3, <2>2 DEF MailRow, Final
    <2> HIDE DEF row
    <2>4. work[d].attempts + (IF Flying(d) THEN 1 ELSE 0) <= row.attempts
      BY <1>3, <2>3
    <2> QED BY <1>1, <1>2, <1>3, <1>7, <2>1, <2>3, <2>4, HandBack DEF Final
  <1>8. CASE Unrecorded(d)
    BY <1>8, LetGo DEF Unrecorded
  <1> QED BY <1>5, <1>6, <1>7, <1>8 DEF Record

LEMMA ReopenStep ==
  ASSUME MailInv, NEW m \in Mail, Due(m) \/ RetryDelivery(m)
  PROVE  MailInv'
  <1>1. mails[m] \in MailRow /\ mails[m].sends \in Nat /\ mails[m].attempts \in Nat /\ mails[m].tries \in Nat
        /\ crashes \in Nat /\ mails[m].attempts <= MaxAttempts
    BY RowType DEF MailInv, MailTyped, MailTypeOK
  <1>2. Waits(m)' <=> Waits(m)
    BY DEF Due, RetryDelivery, Waits
  <1>3. CASE Due(m)
    <2> DEFINE row == [mails[m] EXCEPT !.due = TRUE]
    <2>1. mails' = [mails EXCEPT ![m] = row] /\ mails[m].status = "pending"
          /\ UNCHANGED <<work, provider, crashes>>
      BY <1>3 DEF Due, MailInv, MailTyped, MailTypeOK
    <2>2. /\ row \in MailRow /\ row.status = "pending" /\ row.attempts = mails[m].attempts
          /\ row.kind = mails[m].kind /\ row.sends = mails[m].sends /\ row.tries = mails[m].tries
      BY <1>1, <2>1 DEF MailRow
    <2> HIDE DEF row
    <2>3. mails'[m] = row
      BY <2>1 DEF MailInv, MailTyped, MailTypeOK
    <2>4. Budgets(m)' = Budgets(m)
      BY <1>2, <2>2, <2>3 DEF Budgets
    <2>5. mails[m].attempts < MaxAttempts
      BY <2>1 DEF MailInv, Senders, Open
    <2>6. mails[m].sends + (MaxAttempts - row.attempts) <= MaxAttempts * Budgets(m)' + crashes
      BY <2>1, <2>2, <2>4, Settled
    <2>7. mails[m].tries <= row.tries
      BY <1>1, <2>2
    <2> QED BY <2>1, <2>2, <2>5, <2>6, <2>7, Reopened
  <1>4. CASE RetryDelivery(m)
    <2> DEFINE row == [mails[m] EXCEPT !.status = "pending", !.attempts = 0, !.due = TRUE,
                                       !.tries = mails[m].tries + 1]
    <2>1. mails' = [mails EXCEPT ![m] = row] /\ mails[m].status = "failed"
          /\ UNCHANGED <<work, provider, crashes>>
      BY <1>4 DEF RetryDelivery, MailInv, MailTyped, MailTypeOK
    <2>2. /\ row \in MailRow /\ row.status = "pending" /\ row.attempts = 0
          /\ row.kind = mails[m].kind /\ row.sends = mails[m].sends /\ row.tries = mails[m].tries + 1
      <3>1. "pending" \in Open \cup Final \cup {"none", "gone"} /\ 0 \in 0..MaxAttempts
            /\ mails[m].tries + 1 \in Nat
        BY <1>1 DEF Open
      <3>2. row \in MailRow
        BY <1>1, <3>1 DEF MailRow
      <3> QED BY <1>1, <3>2 DEF MailRow
    <2> HIDE DEF row
    <2>3. mails'[m] = row
      BY <2>1 DEF MailInv, MailTyped, MailTypeOK
    <2>4. Budgets(m) \in Nat /\ Budgets(m)' = Budgets(m) + 1
      BY <1>1, <1>2, <2>2, <2>3 DEF Budgets
    <2>5. /\ MaxAttempts * Budgets(m)' = MaxAttempts * Budgets(m) + MaxAttempts
          /\ MaxAttempts * Budgets(m) \in Nat
      BY <2>4, MoreBudget
    <2>6. mails[m].sends + (MaxAttempts - mails[m].attempts) <= MaxAttempts * Budgets(m) + crashes
      BY <2>1, Settled
    <2>7. mails[m].sends + (MaxAttempts - row.attempts) <= MaxAttempts * Budgets(m)' + crashes
      BY <1>1, <2>2, <2>5, <2>6
    <2>8. mails[m].tries <= row.tries /\ row.attempts < MaxAttempts
      BY <1>1, <2>2
    <2> QED BY <2>1, <2>2, <2>7, <2>8, Reopened
  <1> QED BY <1>3, <1>4

LEMMA MailNextStep ==
  ASSUME MailInv, NEW renderable, MailNext(renderable)
  PROVE  MailInv'
  <1>1. CASE SendTest
    <2>1. "test" \in Kind /\ 0 \in Nat
      BY DEF Kind
    <2>2. /\ Room /\ mails' = Enqueued("test", 0) /\ work["test"] = Idle
          /\ work' = [work EXCEPT !["test"] = [step |-> "queued", mail |-> Newest + 1, attempts |-> 0]]
          /\ UNCHANGED <<provider, retries, crashes>>
      BY <1>1 DEF SendTest
    <2>3. Newest + 1 \in Mail
      BY <2>1, <2>2, Enqueuing
    <2>4. [step |-> "queued", mail |-> Newest + 1, attempts |-> 0] \in Work
      BY <2>3 DEF Work, Step, Mail
    <2>5. QueuedBy("test", Newest + 1)
      BY <2>2, <2>4 DEF QueuedBy, MailInv, MailTyped, MailTypeOK, Dispatcher
    <2> QED BY <2>1, <2>2, <2>5, EnqueueStep
  <1>2. ASSUME NEW d \in Dispatcher, Attempt(d, work[d].mail \in renderable) \/ Record(d) \/ Unrecorded(d)
        PROVE  MailInv'
    BY <1>2, AttemptStep
  <1>3. ASSUME NEW state \in {"off", "on"}, SaveConfig(state) PROVE MailInv'
    BY <1>3 DEF SaveConfig, MailInv, MailTyped, MailTypeOK, MailsNumbered, Senders, Spending, Sends,
                Flying, Budgets, Waits, Slack
  <1> QED BY <1>1, <1>2, <1>3, ClaimStep, ClaimTestStep, ReopenStep DEF MailNext

(* A step that leaves the outbox alone. *)
LEMMA MailStutter ==
  ASSUME MailInv, UNCHANGED mailVars
  PROVE  MailInv'
  BY DEF mailVars, MailInv, MailTyped, MailTypeOK, MailsNumbered, Senders, Spending, Sends, Flying,
         Budgets, Waits, Slack

-----------------------------------------------------------------------------
(* Sessions. *)

LEMMA Drawing ==
  ASSUME AccountTyped, Draw
  PROVE  /\ drawn' = drawn + 1 /\ drawn' \in 0..MaxSecrets /\ drawn' \in 0..drawn' /\ drawn' # 0
         /\ 0..drawn \subseteq 0..drawn'
         /\ credential \in [User -> CredentialRows(drawn')] /\ sessions \in [Session -> SessionRows(drawn')]
         /\ request \in [Client -> RequestRows(drawn')]
  <1>1. /\ drawn' = drawn + 1 /\ drawn' \in 0..MaxSecrets /\ drawn' \in 0..drawn' /\ drawn' # 0
        /\ 0..drawn \subseteq 0..drawn'
    BY DEF AccountTyped, Draw
  <1>2. CredentialRows(drawn) \subseteq CredentialRows(drawn')
    BY <1>1 DEF CredentialRows
  <1>3. SessionRows(drawn) \subseteq SessionRows(drawn')
    BY <1>1 DEF SessionRows
  <1>4. RequestRows(drawn) \subseteq RequestRows(drawn')
    BY <1>1 DEF RequestRows
  <1> QED BY <1>1, <1>2, <1>3, <1>4 DEF AccountTyped

LEMMA EndedRow ==
  ASSUME NEW n \in Nat, NEW row \in SessionRows(n)
  PROVE  Ended(row) \in SessionRows(n) /\ Ended(row).user = row.user /\ Ended(row).ended = TRUE
  <1>1. 0 \in 0..n
    OBVIOUS
  <1>2. Ended(row) \in SessionRows(n)
    BY <1>1 DEF SessionRows, Ended
  <1>3. Ended(row).user = row.user /\ Ended(row).ended = TRUE
    BY DEF SessionRows, Ended
  <1> QED BY <1>2, <1>3

LEMMA Revoking ==
  ASSUME NEW n \in Nat, sessions \in [Session -> SessionRows(n)], NEW u \in User
  PROVE  /\ RevokedOf(u) \in [Session -> SessionRows(n)]
         /\ \A s \in Session : /\ sessions[s].user # u => RevokedOf(u)[s] = sessions[s]
                               /\ sessions[s].user = u => RevokedOf(u)[s].ended /\ sessions[s] # NoSession
                               /\ RevokedOf(u)[s].user = sessions[s].user
  <1>1. \A s \in Session :
          /\ sessions[s] \in SessionRows(n)
          /\ RevokedOf(u)[s] = IF sessions[s].user = u THEN Ended(sessions[s]) ELSE sessions[s]
    BY DEF RevokedOf
  <1>2. \A s \in Session : sessions[s].user = u => sessions[s] # NoSession
    <2>1. u # None /\ NoSession.user = None
      BY DEF NoSession
    <2> QED BY <2>1
  <1>3. RevokedOf(u) \in [Session -> SessionRows(n)]
    BY <1>1, EndedRow DEF RevokedOf
  <1>4. ASSUME NEW s \in Session
        PROVE  /\ sessions[s].user = u => RevokedOf(u)[s].ended = TRUE
               /\ RevokedOf(u)[s].user = sessions[s].user
    <2>1. Ended(sessions[s]).ended = TRUE /\ Ended(sessions[s]).user = sessions[s].user
      BY <1>1, EndedRow
    <2> QED BY <1>1, <2>1
  <1>5. \A s \in Session : sessions[s].user # u => RevokedOf(u)[s] = sessions[s]
    BY <1>1
  <1> QED BY <1>1, <1>2, <1>3, <1>4, <1>5

(* No Session is opened and no credential is written. *)
LEMMA SessionsEnd ==
  ASSUME AccountTyped, SessionInv, credential' = credential,
         \A s \in Session : \/ sessions'[s] = sessions[s]
                            \/ /\ sessions[s] # NoSession /\ sessions'[s].ended
                               /\ sessions'[s].user = sessions[s].user
  PROVE  SessionInv'
  BY DEF SessionInv, SessionsOwned, SessionsOfCurrentPassword, Registered

(* A credential is written and the Sessions of its App User are ended. *)
LEMMA SessionsRevoked ==
  ASSUME AccountTyped, SessionInv, NEW u \in User, NEW row, row # NoCredential,
         credential' = [credential EXCEPT ![u] = row], sessions' = RevokedOf(u)
  PROVE  SessionInv'
  <1>1. \A v \in User : v # u => credential'[v] = credential[v]
    BY DEF AccountTyped
  <1>2. credential'[u] = row
    BY DEF AccountTyped
  <1>3. drawn \in Nat
    BY DEF AccountTyped
  <1>4. \A s \in Session : /\ sessions[s].user # u => sessions'[s] = sessions[s]
                           /\ sessions[s].user = u => sessions'[s].ended /\ sessions[s] # NoSession
                           /\ sessions'[s].user = sessions[s].user
    BY <1>3, Revoking DEF AccountTyped
  <1>5. Registered \subseteq Registered'
    BY <1>1, <1>2 DEF Registered
  <1>6. SessionsOwned'
    BY <1>4, <1>5 DEF SessionInv, SessionsOwned
  <1>7. SessionsOfCurrentPassword'
    BY <1>1, <1>4 DEF SessionInv, SessionsOwned, SessionsOfCurrentPassword, Registered
  <1> QED BY <1>6, <1>7 DEF SessionInv

(* The credential of somebody without Sessions, or one whose secret stays. *)
LEMMA SessionsStay ==
  ASSUME AccountTyped, SessionInv, NEW u \in User, NEW row, row # NoCredential,
         u \notin Registered \/ row.secret = credential[u].secret,
         credential' = [credential EXCEPT ![u] = row], sessions' = sessions
  PROVE  SessionInv'
  <1>1. credential'[u] = row /\ \A v \in User : v # u => credential'[v] = credential[v]
    BY DEF AccountTyped
  <1>2. Registered \subseteq Registered'
    BY <1>1 DEF Registered
  <1>3. SessionsOwned'
    BY <1>2 DEF SessionInv, SessionsOwned
  <1>4. SessionsOfCurrentPassword'
    BY <1>1 DEF SessionInv, SessionsOwned, SessionsOfCurrentPassword, Registered
  <1> QED BY <1>3, <1>4 DEF SessionInv

LEMMA LoginOpens ==
  ASSUME AccountTyped, SessionInv, NEW c \in Client, LoginCommit(c)
  PROVE  SessionInv' /\ sessions' \in [Session -> SessionRows(drawn)]
  <1> DEFINE r == request[c]
  <1>1. credential' = credential /\ drawn \in Nat
    BY DEF LoginCommit, AccountTyped
  <1>2. CASE UNCHANGED sessions
    BY <1>1, <1>2, SessionsEnd DEF AccountTyped
  <1>3. CASE ~UNCHANGED sessions
    <2>1. SameCredential(r)
      BY <1>3 DEF LoginCommit
    <2>2. PICK s \in Session : sessions' = [sessions EXCEPT ![s] = [NoSession EXCEPT !.user = r.user, !.secret = r.secret]]
      BY <1>3 DEF LoginCommit
    <2>3. r.user \in Registered /\ r.secret = credential[r.user].secret
      BY <2>1 DEF SameCredential, Holder
    <2>4. credential[r.user] \in CredentialRows(drawn)
      BY <2>3 DEF Registered, AccountTyped
    <2>5. r.secret \in 0..drawn
      BY <2>3, <2>4 DEF CredentialRows
    <2> DEFINE row == [NoSession EXCEPT !.user = r.user, !.secret = r.secret]
    <2>6. row \in SessionRows(drawn) /\ row.user = r.user /\ row.secret = r.secret
      BY <2>3, <2>5 DEF SessionRows, NoSession, Registered
    <2> HIDE DEF row
    <2>7. sessions'[s] = row /\ \A t \in Session : t # s => sessions'[t] = sessions[t]
      BY <2>2 DEF AccountTyped, row
    <2>8. sessions' \in [Session -> SessionRows(drawn)]
      BY <2>2, <2>6 DEF AccountTyped, row
    <2> QED BY <1>1, <2>3, <2>6, <2>7, <2>8 DEF SessionInv, SessionsOwned, SessionsOfCurrentPassword, Registered
  <1> QED BY <1>2, <1>3

-----------------------------------------------------------------------------
(* Recovery tokens. *)

LEMMA CodesStay ==
  ASSUME AccountTyped, CodeInv, codes' \in [Code -> CodeRows],
         \A c \in Code : /\ codes'[c].user = codes[c].user /\ codes'[c].used = codes[c].used
                         /\ codes'[c].kept = codes[c].kept
  PROVE  CodeInv'
  <1>1. Issued' = Issued
    BY DEF Issued
  <1> QED BY <1>1 DEF CodeInv, CodesNumbered, CodesEndTogether, Issued

LEMMA CodesUsed ==
  ASSUME AccountTyped, CodeInv, NEW c \in Code, codes' = UsedWith(c)
  PROVE  CodeInv' /\ codes' \in [Code -> CodeRows]
  <1>1. \A n \in Code :
          /\ codes'[n] \in CodeRows
          /\ codes'[n].user = codes[n].user /\ codes'[n].kept = codes[n].kept
          /\ codes[n].used => codes'[n].used
          /\ codes'[n].used => codes[n].used \/ codes[n].user = codes[c].user
          /\ codes[n].user = codes[c].user => codes'[n].used
    <2> TAKE n \in Code
    <2>1. codes[n] \in CodeRows
      BY DEF AccountTyped
    <2>2. codes'[n] = IF codes[n].user = codes[c].user THEN [codes[n] EXCEPT !.used = TRUE] ELSE codes[n]
      BY DEF UsedWith
    <2> QED BY <2>1, <2>2 DEF CodeRows
  <1>2. codes' \in [Code -> CodeRows]
    BY <1>1 DEF UsedWith
  <1>3. Issued' = Issued
    BY <1>1 DEF Issued
  <1>4. CodesNumbered'
    BY <1>3 DEF CodeInv, CodesNumbered
  <1>5. CodesEndTogether'
    BY <1>1, <1>3 DEF CodeInv, CodesEndTogether, Issued
  <1> QED BY <1>2, <1>4, <1>5 DEF CodeInv

NewCode(u, e, p) == [NoCode EXCEPT !.user = u, !.email = e, !.purpose = p, !.kept = TRUE]

LEMMA NewCodeRow ==
  ASSUME NEW u \in User, NEW e \in Email \cup {None}, NEW p \in {"reset", "verify"}
  PROVE  NewCode(u, e, p) \in CodeRows
  <1>1. u \in User \cup {None} /\ 0 \in 0..2
    OBVIOUS
  <1> QED BY <1>1 DEF NewCode, NoCode, CodeRows

LEMMA Issuing ==
  ASSUME MailInv, AccountTyped, CodeInv, NEW u \in User, NEW e \in Email \cup {None},
         NEW p \in {"reset", "verify"}, Issue(u, e, p), UNCHANGED <<work, provider, retries, crashes>>
  PROVE  MailInv' /\ CodeInv' /\ codes' \in [Code -> CodeRows]
  <1>1. CASE UNCHANGED <<codes, mails>>
    <2>1. MailInv'
      BY <1>1, MailStutter DEF mailVars
    <2> QED BY <1>1, <2>1, CodesStay DEF AccountTyped
  <1>2. CASE ~UNCHANGED <<codes, mails>>
    <2> DEFINE c == Cardinality(Issued) + 1
    <2>1. /\ c \in Code /\ Room /\ mails' = Enqueued("recovery", c)
          /\ codes' = [n \in Code |->
               IF n = c THEN [NoCode EXCEPT !.user = u, !.email = e, !.purpose = p, !.kept = TRUE]
               ELSE [codes[n] EXCEPT !.kept = n \in KeptCodes]]
      BY <1>2 DEF Issue
    <2>2. MailInv'
      <3>1. "recovery" \in Kind /\ c \in Nat /\ QueuedBy("recovery", Newest + 1)
        BY <2>1 DEF Kind, Code, QueuedBy
      <3> QED BY <2>1, <3>1, EnqueueStep
    <2>3. PICK k \in 0..MaxCodes : Issued = 1..k
      BY DEF CodeInv, CodesNumbered
    <2>4. c = k + 1
      <3>1. Cardinality(1..k) = IF 1 > k THEN 0 ELSE k - 1 + 1
        BY FS_Interval
      <3>2. Cardinality(1..k) = k
        BY <3>1
      <3> QED BY <2>3, <3>2
    <2> HIDE DEF c
    <2>5. /\ codes'[c] \in CodeRows /\ codes'[c].user = u /\ codes'[c].used = FALSE
          /\ \A n \in Code : n # c =>
               /\ codes'[n] \in CodeRows /\ codes'[n].user = codes[n].user
               /\ codes'[n].used = codes[n].used /\ (codes'[n].kept => codes[n].kept)
      <3>1. codes'[c] = NewCode(u, e, p)
        BY <2>1 DEF NewCode
      <3>2. codes'[c] \in CodeRows /\ codes'[c].user = u /\ codes'[c].used = FALSE
        <4>1. codes'[c] \in CodeRows
          BY <3>1, NewCodeRow
        <4> QED BY <3>1, <4>1 DEF NewCode, NoCode
      <3>3. ASSUME NEW n \in Code, n # c
            PROVE  /\ codes'[n] \in CodeRows /\ codes'[n].user = codes[n].user
                   /\ codes'[n].used = codes[n].used /\ (codes'[n].kept => codes[n].kept)
        <4>1. codes'[n] = [codes[n] EXCEPT !.kept = n \in KeptCodes] /\ codes[n] \in CodeRows
          BY <2>1, <3>3 DEF AccountTyped
        <4>2. n \in KeptCodes => codes[n].kept
          BY DEF KeptCodes
        <4>3. (n \in KeptCodes) \in BOOLEAN
          OBVIOUS
        <4> HIDE DEF KeptCodes
        <4> QED BY <4>1, <4>2, <4>3 DEF CodeRows
      <3> QED BY <3>2, <3>3
    <2>6. codes' \in [Code -> CodeRows]
      BY <2>1, <2>5
    <2>7. Issued' = 1..(k + 1)
      BY <2>1, <2>3, <2>4, <2>5 DEF Issued, Code
    <2>8. CodesNumbered'
      BY <2>1, <2>3, <2>4, <2>7 DEF CodesNumbered, Code
    <2>9. CodesEndTogether'
      <3> SUFFICES ASSUME NEW x \in Issued', NEW y \in Issued', codes'[x].used,
                          codes'[x].user = codes'[y].user, y < x
                   PROVE  codes'[y].used \/ ~codes'[y].kept
        BY DEF CodesEndTogether
      <3>1. x \in 1..k /\ y \in 1..k /\ x # c /\ y # c /\ x \in Code /\ y \in Code
        BY <2>4, <2>5, <2>7 DEF Issued
      <3> QED BY <2>3, <2>5, <3>1 DEF CodeInv, CodesEndTogether
    <2> QED BY <2>2, <2>6, <2>8, <2>9 DEF CodeInv
  <1> QED BY <1>1, <1>2

-----------------------------------------------------------------------------
(* Requests and App Users. *)

LEMMA RequestType ==
  ASSUME AccountTyped, NEW c \in Client
  PROVE  /\ request[c] \in RequestRows(drawn)
         /\ request[c].user \in User \cup {None} /\ request[c].email \in Email \cup {None}
         /\ request[c].secret \in 0..drawn
  BY DEF AccountTyped, RequestRows

LEMMA Answering ==
  ASSUME NEW n \in Nat, request \in [Client -> RequestRows(n)], NEW c \in Client, Answered(c)
  PROVE  request' \in [Client -> RequestRows(n)] /\ (RequestsOwned => RequestsOwned')
  <1>1. NoRequest \in RequestRows(n)
    <2>1. 0 \in 0..n
      OBVIOUS
    <2> QED BY <2>1 DEF NoRequest, RequestRows
  <1>2. request' \in [Client -> RequestRows(n)]
    BY <1>1 DEF Answered
  <1>3. \A d \in Client : request'[d] = request[d] \/ request'[d].op = "none"
    BY DEF Answered, NoRequest
  <1> QED BY <1>2, <1>3 DEF RequestsOwned

(* Requests that read, and what is neither a credential, a Session nor a token. *)
LEMMA ReadStep ==
  ASSUME IInv, NEW c \in Client,
         \/ Login(c) \/ \E op \in {"revoke", "change"} : Authenticate(c, op)
         \/ \E e \in Email, p \in {"reset", "verify"} : RequestRecovery(c, e, p)
         \/ \E e \in Email : Register(c, e)
  PROVE  IInv'
  <1> USE DEF IInv, AccountInv
  <1>1. UNCHANGED <<profile, credential, sessions, codes, config, drawn, mailVars>>
    BY DEF Login, Authenticate, RequestRecovery, Register
  <1>2. drawn \in Nat /\ 0 \in 0..drawn
    BY DEF AccountTyped
  <1> DEFINE Good(r) == /\ Read(c, r) /\ r \in RequestRows(drawn)
                        /\ r.op \in {"login", "revoke", "change"} => r.user \in User
  <1>3. \E r : Good(r)
    <2>1. CASE Login(c)
      <3>1. PICK u \in Registered :
              Read(c, [NoRequest EXCEPT !.op = "login", !.user = u, !.email = credential[u].email,
                                        !.secret = credential[u].secret])
        BY <2>1 DEF Login
      <3>2. u \in User /\ credential[u].email \in Email \cup {None} /\ credential[u].secret \in 0..drawn
        BY DEF Registered, AccountTyped, CredentialRows
      <3> DEFINE r == [NoRequest EXCEPT !.op = "login", !.user = u, !.email = credential[u].email,
                                        !.secret = credential[u].secret]
      <3>3. r \in RequestRows(drawn) /\ r.user = u
        BY <3>2 DEF NoRequest, RequestRows
      <3> QED BY <3>1, <3>2, <3>3
    <2>2. ASSUME NEW op \in {"revoke", "change"}, Authenticate(c, op) PROVE \E r : Good(r)
      <3>1. PICK s \in Session :
              /\ Usable(s)
              /\ Read(c, [op |-> op, user |-> sessions[s].user, email |-> None,
                          secret |-> IF op = "change" THEN credential[sessions[s].user].secret ELSE 0,
                          session |-> s])
        BY <2>2 DEF Authenticate
      <3>2. sessions[s].user \in Registered
        BY <3>1 DEF Usable, SessionInv, SessionsOwned
      <3>3. sessions[s].user \in User /\ credential[sessions[s].user].secret \in 0..drawn
        BY <3>2 DEF Registered, AccountTyped, CredentialRows
      <3> QED BY <1>2, <3>1, <3>3 DEF RequestRows
    <2>3. ASSUME NEW e \in Email, NEW p \in {"reset", "verify", "register"},
                 Read(c, [NoRequest EXCEPT !.op = p, !.email = e])
          PROVE  \E r : Good(r)
      <3>1. [NoRequest EXCEPT !.op = p, !.email = e] \in RequestRows(drawn)
        BY <1>2 DEF NoRequest, RequestRows
      <3>2. [NoRequest EXCEPT !.op = p, !.email = e].op = p
        BY DEF NoRequest
      <3> QED BY <2>3, <3>1, <3>2
    <2> QED BY <2>1, <2>2, <2>3 DEF RequestRecovery, Register
  <1>4. PICK r : Good(r)
    BY <1>3
  <1>5. AccountTyped' /\ RequestsOwned'
    <2>1. request' = [request EXCEPT ![c] = r]
      BY <1>4 DEF Read
    <2> QED BY <1>1, <1>4, <2>1 DEF AccountTyped, RequestsOwned
  <1>6. SessionInv'
    BY <1>1, SessionsEnd
  <1>7. CodeInv'
    BY <1>1, CodesStay DEF AccountTyped
  <1> QED
    BY <1>1, <1>5, <1>6, <1>7, MailStutter

LEMMA PlainStep ==
  ASSUME IInv, \/ \E c \in Client : GiveUp(c)
               \/ \E u \in User, e \in Email \cup {None} : WriteProfile(u, e)
               \/ \E next \in Configs : ApplyConfiguration(next)
  PROVE  IInv'
  <1> USE DEF IInv, AccountInv
  <1>1. UNCHANGED <<credential, sessions, codes, drawn, mailVars>>
    BY DEF GiveUp, WriteProfile, ApplyConfiguration
  <1>2. drawn \in Nat
    BY DEF AccountTyped
  <1>3. request' \in [Client -> RequestRows(drawn)] /\ RequestsOwned'
    <2>1. ASSUME NEW c \in Client, GiveUp(c) PROVE request' \in [Client -> RequestRows(drawn)] /\ RequestsOwned'
      BY <1>2, <2>1, Answering DEF AccountTyped, GiveUp
    <2>2. CASE request' = request
      BY <2>2 DEF AccountTyped, RequestsOwned
    <2> QED BY <2>1, <2>2 DEF WriteProfile, ApplyConfiguration
  <1>4. AccountTyped'
    BY <1>1, <1>3 DEF AccountTyped, GiveUp, WriteProfile, ApplyConfiguration
  <1>5. SessionInv'
    BY <1>1, SessionsEnd
  <1>6. CodeInv'
    BY <1>1, CodesStay DEF AccountTyped
  <1> QED
    BY <1>1, <1>3, <1>4, <1>5, <1>6, MailStutter

(* Logout, RevokeOwnSession, RevokeUserSession and RevokeAllUserSessions. *)
LEMMA EndStep ==
  ASSUME IInv, \/ \E c \in Client, s \in Session : RevokeOwn(c, s)
               \/ \E s \in Session : EndSession(s)
               \/ \E u \in User : RevokeAllUserSessions(u)
  PROVE  IInv'
  <1> USE DEF IInv, AccountInv
  <1>1. UNCHANGED <<profile, credential, codes, config, drawn, mailVars>>
    BY DEF RevokeOwn, EndSession, RevokeAllUserSessions
  <1>2. drawn \in Nat
    BY DEF AccountTyped
  <1>3. request' \in [Client -> RequestRows(drawn)] /\ RequestsOwned'
    <2>1. ASSUME NEW c \in Client, Answered(c) PROVE request' \in [Client -> RequestRows(drawn)] /\ RequestsOwned'
      BY <1>2, <2>1, Answering DEF AccountTyped
    <2>2. CASE request' = request
      BY <2>2 DEF AccountTyped, RequestsOwned
    <2> QED BY <2>1, <2>2 DEF RevokeOwn, EndSession, RevokeAllUserSessions
  <1> DEFINE Ends == /\ sessions' \in [Session -> SessionRows(drawn)]
                     /\ \A s \in Session : \/ sessions'[s] = sessions[s]
                                           \/ /\ sessions[s] # NoSession /\ sessions'[s].ended
                                              /\ sessions'[s].user = sessions[s].user
  <1>4. Ends
    <2>1. ASSUME NEW u \in User, RevokeAllUserSessions(u) PROVE Ends
      BY <1>2, <2>1, Revoking DEF AccountTyped, RevokeAllUserSessions
    <2>2. ASSUME NEW s \in Session, sessions[s] # NoSession,
                 sessions' = [sessions EXCEPT ![s] = Ended(@)]
          PROVE  Ends
      <3>1. /\ Ended(sessions[s]) \in SessionRows(drawn) /\ Ended(sessions[s]).ended = TRUE
            /\ Ended(sessions[s]).user = sessions[s].user
        BY <1>2, EndedRow DEF AccountTyped
      <3> QED BY <2>2, <3>1 DEF AccountTyped
    <2>3. ASSUME NEW c \in Client, NEW s \in Session, RevokeOwn(c, s) PROVE Ends
      <3>1. request[c].user \in User /\ sessions[s].user = request[c].user
        BY <2>3 DEF RevokeOwn, RequestsOwned
      <3>2. sessions[s] # NoSession
        BY <3>1 DEF NoSession
      <3> QED BY <2>2, <2>3, <3>2 DEF RevokeOwn
    <2> QED BY <2>1, <2>2, <2>3 DEF EndSession
  <1>5. SessionInv'
    BY <1>1, <1>4, SessionsEnd
  <1>6. CodeInv'
    BY <1>1, CodesStay DEF AccountTyped
  <1> QED BY <1>1, <1>3, <1>4, <1>5, <1>6, MailStutter DEF AccountTyped

LEMMA LoginStep ==
  ASSUME IInv, NEW c \in Client, LoginCommit(c)
  PROVE  IInv'
  <1> USE DEF IInv, AccountInv
  <1>1. UNCHANGED <<profile, credential, codes, config, drawn, mailVars>> /\ Answered(c)
    BY DEF LoginCommit
  <1>2. request' \in [Client -> RequestRows(drawn)] /\ RequestsOwned'
    <2>1. drawn \in Nat
      BY DEF AccountTyped
    <2> QED BY <1>1, <2>1, Answering DEF AccountTyped
  <1>3. SessionInv' /\ sessions' \in [Session -> SessionRows(drawn)]
    BY LoginOpens
  <1>4. CodeInv'
    BY <1>1, CodesStay DEF AccountTyped
  <1> QED BY <1>1, <1>2, <1>3, <1>4, MailStutter DEF AccountTyped

(* ChangePassword, SetPassword and a reset: a new secret, and no Session is left. *)
LEMMA NewPassword ==
  ASSUME AccountTyped, SessionInv, Draw, NEW u \in User, NEW row \in CredentialRows(drawn'),
         row.secret = drawn', credential' = [credential EXCEPT ![u] = row], sessions' = RevokedOf(u)
  PROVE  SessionInv' /\ credential' \in [User -> CredentialRows(drawn')]
         /\ sessions' \in [Session -> SessionRows(drawn')]
  <1>1. drawn' \in Nat /\ drawn' # 0 /\ credential \in [User -> CredentialRows(drawn')]
        /\ sessions \in [Session -> SessionRows(drawn')]
    BY Drawing
  <1>2. row # NoCredential
    BY <1>1 DEF NoCredential
  <1>3. SessionInv'
    BY <1>2, SessionsRevoked
  <1>4. sessions' \in [Session -> SessionRows(drawn')]
    BY <1>1, Revoking
  <1> QED BY <1>1, <1>3, <1>4

LEMMA SecretRow ==
  ASSUME NEW n \in Nat, NEW row \in CredentialRows(n), NEW secret \in 0..n
  PROVE  [row EXCEPT !.secret = secret] \in CredentialRows(n)
         /\ [row EXCEPT !.secret = secret].secret = secret
  BY DEF CredentialRows

LEMMA ChangeStep ==
  ASSUME IInv, NEW c \in Client, ChangePassword(c)
  PROVE  IInv'
  <1> USE DEF IInv, AccountInv
  <1>1. UNCHANGED <<profile, codes, config, mailVars>> /\ Answered(c)
    BY DEF ChangePassword
  <1>2. CodeInv'
    BY <1>1, CodesStay DEF AccountTyped
  <1>3. PICK u \in User : request[c].user = u
    BY DEF ChangePassword, RequestsOwned
  <1>4. CASE UNCHANGED <<credential, sessions, drawn>>
    <2>1. request' \in [Client -> RequestRows(drawn)] /\ RequestsOwned'
      <3>1. drawn \in Nat
        BY DEF AccountTyped
      <3> QED BY <1>1, <3>1, Answering DEF AccountTyped
    <2>2. SessionInv'
      BY <1>4, SessionsEnd
    <2> QED BY <1>1, <1>2, <1>4, <2>1, <2>2, MailStutter DEF AccountTyped
  <1>5. CASE ~UNCHANGED <<credential, sessions, drawn>>
    <2>1. Draw /\ credential' = [credential EXCEPT ![u].secret = drawn'] /\ sessions' = RevokedOf(u)
      BY <1>3, <1>5 DEF ChangePassword
    <2>2. /\ drawn' \in 0..MaxSecrets /\ drawn' \in 0..drawn' /\ drawn' \in Nat
          /\ credential \in [User -> CredentialRows(drawn')]
          /\ request \in [Client -> RequestRows(drawn')]
      BY <2>1, Drawing
    <2>3. request' \in [Client -> RequestRows(drawn')] /\ RequestsOwned'
      BY <1>1, <2>2, Answering
    <2> DEFINE row == [credential[u] EXCEPT !.secret = drawn']
    <2>4. row \in CredentialRows(drawn') /\ row.secret = drawn'
      BY <2>2, SecretRow
    <2>5. credential' = [credential EXCEPT ![u] = row]
      BY <2>1, <2>2
    <2> HIDE DEF row
    <2>6. SessionInv' /\ credential' \in [User -> CredentialRows(drawn')]
          /\ sessions' \in [Session -> SessionRows(drawn')]
      BY <2>1, <2>4, <2>5, NewPassword
    <2> QED BY <1>1, <1>2, <2>2, <2>3, <2>6, MailStutter DEF AccountTyped
  <1> QED BY <1>4, <1>5

LEMMA SetStep ==
  ASSUME IInv, NEW u \in User, SetPassword(u)
  PROVE  IInv'
  <1> USE DEF IInv, AccountInv
  <1> DEFINE row == [email |-> profile[u], secret |-> drawn', verified |-> u \notin Registered \/ credential[u].verified]
  <1>1. /\ UNCHANGED <<profile, codes, config, request, mailVars>> /\ Draw
        /\ sessions' = RevokedOf(u)
    BY DEF SetPassword
  <1>2. credential' = [credential EXCEPT ![u] = row]
    BY DEF SetPassword, AccountTyped
  <1>3. CodeInv'
    BY <1>1, CodesStay DEF AccountTyped
  <1>4. /\ drawn' \in 0..MaxSecrets /\ drawn' \in 0..drawn' /\ drawn' \in Nat
        /\ request \in [Client -> RequestRows(drawn')]
    BY <1>1, Drawing
  <1>5. row \in CredentialRows(drawn') /\ row.secret = drawn'
    <2>1. profile[u] \in Email \cup {None} /\ credential[u].verified \in BOOLEAN
      BY DEF AccountTyped, CredentialRows
    <2>2. (u \notin Registered \/ credential[u].verified) \in BOOLEAN
      BY <2>1
    <2> QED BY <1>4, <2>1, <2>2 DEF CredentialRows
  <1> HIDE DEF row
  <1>6. SessionInv' /\ credential' \in [User -> CredentialRows(drawn')]
        /\ sessions' \in [Session -> SessionRows(drawn')]
    BY <1>1, <1>2, <1>5, NewPassword
  <1> QED BY <1>1, <1>3, <1>4, <1>6, MailStutter DEF AccountTyped, RequestsOwned

LEMMA ConfirmStep ==
  ASSUME IInv, NEW c \in Code, Confirm(c)
  PROVE  IInv'
  <1> USE DEF IInv, AccountInv
  <1>1. UNCHANGED <<profile, config, request, mailVars>> /\ codes' = UsedWith(c)
    BY DEF Confirm
  <1>2. PICK u \in Registered : codes[c].user = u
    BY DEF Confirm
  <1>3. u \in User
    BY DEF Registered
  <1>4. CodeInv' /\ codes' \in [Code -> CodeRows]
    BY <1>1, CodesUsed
  <1>5. CASE codes[c].purpose = "reset"
    <2>1. Draw /\ credential' = [credential EXCEPT ![u].secret = drawn'] /\ sessions' = RevokedOf(u)
      BY <1>2, <1>5 DEF Confirm
    <2>2. /\ drawn' \in 0..MaxSecrets /\ drawn' \in 0..drawn' /\ drawn' \in Nat
          /\ credential \in [User -> CredentialRows(drawn')]
          /\ request \in [Client -> RequestRows(drawn')]
      BY <2>1, Drawing
    <2> DEFINE row == [credential[u] EXCEPT !.secret = drawn']
    <2>3. row \in CredentialRows(drawn') /\ row.secret = drawn'
      BY <1>3, <2>2, SecretRow
    <2>4. credential' = [credential EXCEPT ![u] = row]
      BY <2>1, <2>2
    <2> HIDE DEF row
    <2>5. SessionInv' /\ credential' \in [User -> CredentialRows(drawn')]
          /\ sessions' \in [Session -> SessionRows(drawn')]
      BY <1>3, <2>1, <2>3, <2>4, NewPassword
    <2> QED BY <1>1, <1>4, <2>2, <2>5, MailStutter DEF AccountTyped, RequestsOwned
  <1>6. CASE codes[c].purpose # "reset"
    <2> DEFINE row == [credential[u] EXCEPT !.verified = TRUE]
    <2>1. credential' = [credential EXCEPT ![u] = row] /\ UNCHANGED <<sessions, drawn>>
      BY <1>2, <1>6 DEF Confirm, AccountTyped
    <2>2. row \in CredentialRows(drawn) /\ row.secret = credential[u].secret /\ row.verified = TRUE
      <3>1. credential[u] \in CredentialRows(drawn)
        BY <1>3 DEF AccountTyped
      <3>2. row \in CredentialRows(drawn)
        BY <3>1 DEF CredentialRows
      <3> QED BY <3>1, <3>2 DEF CredentialRows
    <2>3. row # NoCredential
      BY <2>2 DEF NoCredential
    <2> HIDE DEF row
    <2>4. SessionInv'
      BY <1>3, <2>1, <2>2, <2>3, SessionsStay
    <2>5. AccountTyped'
      BY <1>1, <1>4, <2>1, <2>2 DEF AccountTyped
    <2> QED BY <1>1, <1>4, <2>4, <2>5, MailStutter DEF RequestsOwned
  <1> QED BY <1>5, <1>6

(* CreateUser and RegisterCommit write the first credential of somebody. *)
LEMMA FirstCredential ==
  ASSUME AccountTyped, SessionInv, NEW u \in User, NEW e \in Email \cup {None}, NEW v \in BOOLEAN,
         Created(u, e, v), sessions' = sessions
  PROVE  /\ SessionInv' /\ drawn' \in 0..MaxSecrets /\ drawn' \in Nat
         /\ profile' \in [User -> Email \cup {None}] /\ credential' \in [User -> CredentialRows(drawn')]
         /\ sessions' \in [Session -> SessionRows(drawn')] /\ request \in [Client -> RequestRows(drawn')]
  <1> DEFINE row == [email |-> e, secret |-> drawn', verified |-> v]
  <1>1. credential' = [credential EXCEPT ![u] = row] /\ profile' = [profile EXCEPT ![u] = e]
        /\ Draw /\ u \notin Registered
    BY DEF Created
  <1>2. /\ drawn' \in 0..MaxSecrets /\ drawn' \in 0..drawn' /\ drawn' \in Nat /\ drawn' # 0
        /\ credential \in [User -> CredentialRows(drawn')] /\ sessions \in [Session -> SessionRows(drawn')]
        /\ request \in [Client -> RequestRows(drawn')]
    BY <1>1, Drawing
  <1>3. row \in CredentialRows(drawn') /\ row.secret # 0
    BY <1>2 DEF CredentialRows
  <1>4. row # NoCredential
    BY <1>3 DEF NoCredential
  <1> HIDE DEF row
  <1>5. SessionInv'
    BY <1>1, <1>4, SessionsStay
  <1> QED BY <1>1, <1>2, <1>3, <1>5 DEF AccountTyped

LEMMA CreateStep ==
  ASSUME IInv, NEW u \in User, NEW e \in Email, CreateUser(u, e)
  PROVE  IInv'
  <1> USE DEF IInv, AccountInv
  <1>1. UNCHANGED <<sessions, codes, config, request, mailVars>> /\ Created(u, e, TRUE)
    BY DEF CreateUser
  <1>2. CodeInv'
    BY <1>1, CodesStay DEF AccountTyped
  <1> QED BY <1>1, <1>2, FirstCredential, MailStutter DEF AccountTyped, RequestsOwned

LEMMA RegisterStep ==
  ASSUME IInv, NEW c \in Client, RegisterCommit(c)
  PROVE  IInv'
  <1> USE DEF IInv, AccountInv
  <1>1. UNCHANGED <<sessions, config, work, provider, retries, crashes>> /\ Answered(c)
    BY DEF RegisterCommit
  <1>2. PICK u \in User :
          /\ Created(u, request[c].email, ~Required)
          /\ IF Required THEN Issue(u, request[c].email, "verify") ELSE UNCHANGED <<codes, mails>>
    BY DEF RegisterCommit
  <1>3. request[c].email \in Email \cup {None} /\ (~Required) \in BOOLEAN
    BY RequestType
  <1>4. MailInv' /\ CodeInv' /\ codes' \in [Code -> CodeRows]
    <2>1. CASE Required
      BY <1>1, <1>2, <1>3, <2>1, Issuing
    <2>2. CASE ~Required
      BY <1>1, <1>2, <2>2, CodesStay, MailStutter DEF mailVars, AccountTyped
    <2> QED BY <2>1, <2>2
  <1>5. /\ SessionInv' /\ drawn' \in 0..MaxSecrets /\ drawn' \in Nat
        /\ profile' \in [User -> Email \cup {None}] /\ credential' \in [User -> CredentialRows(drawn')]
        /\ sessions' \in [Session -> SessionRows(drawn')] /\ request \in [Client -> RequestRows(drawn')]
    BY <1>1, <1>2, <1>3, FirstCredential
  <1>6. request' \in [Client -> RequestRows(drawn')] /\ RequestsOwned'
    BY <1>1, <1>5, Answering
  <1> QED BY <1>1, <1>4, <1>5, <1>6 DEF AccountTyped

LEMMA RecoveryStep ==
  ASSUME IInv, NEW c \in Client, RecoveryCommit(c)
  PROVE  IInv'
  <1> USE DEF IInv, AccountInv
  <1>1. /\ UNCHANGED <<profile, credential, sessions, config, drawn, work, provider, retries, crashes>>
        /\ Answered(c) /\ request[c].op \in {"reset", "verify"}
    BY DEF RecoveryCommit
  <1>2. PICK u \in User : Issue(u, request[c].email, request[c].op)
    BY DEF RecoveryCommit, Holder, Registered
  <1>3. MailInv' /\ CodeInv' /\ codes' \in [Code -> CodeRows]
    BY <1>1, <1>2, RequestType, Issuing
  <1>4. request' \in [Client -> RequestRows(drawn)] /\ RequestsOwned'
    <2>1. drawn \in Nat
      BY DEF AccountTyped
    <2> QED BY <1>1, <2>1, Answering DEF AccountTyped
  <1>5. SessionInv'
    BY <1>1, SessionsEnd
  <1> QED BY <1>1, <1>3, <1>4, <1>5 DEF AccountTyped

LEMMA TimeStep ==
  ASSUME IInv, HalfHour
  PROVE  IInv'
  <1> USE DEF IInv, AccountInv
  <1>1. UNCHANGED <<profile, credential, sessions, config, request, drawn, mailVars>>
    BY DEF HalfHour
  <1>2. \A c \in Code : /\ codes'[c] \in CodeRows
                        /\ codes'[c].user = codes[c].user /\ codes'[c].used = codes[c].used
                        /\ codes'[c].kept = codes[c].kept
    <2> TAKE c \in Code
    <2>1. codes[c] \in CodeRows
      BY DEF AccountTyped
    <2>2. CASE codes'[c] = codes[c]
      BY <2>1, <2>2
    <2>3. CASE codes[c].age < 2 /\ codes'[c] = [codes[c] EXCEPT !.age = @ + 1]
      <3>1. codes[c].age + 1 \in 0..2
        BY <2>1, <2>3 DEF CodeRows
      <3> QED BY <2>1, <2>3, <3>1 DEF CodeRows
    <2> QED BY <2>2, <2>3 DEF HalfHour
  <1>3. codes' \in [Code -> CodeRows]
    BY <1>2 DEF HalfHour
  <1>4. CodeInv'
    BY <1>2, <1>3, CodesStay
  <1>5. SessionInv'
    BY <1>1, SessionsEnd
  <1> QED BY <1>1, <1>3, <1>4, <1>5, MailStutter DEF AccountTyped, RequestsOwned

LEMMA RestartStep ==
  ASSUME IInv, Restart
  PROVE  IInv'
  <1> USE DEF IInv, AccountInv
  <1>1. UNCHANGED <<profile, credential, sessions, codes, config, drawn>> /\ RestartMail
        /\ request' = [c \in Client |-> NoRequest]
    BY DEF Restart
  <1>2. request' \in [Client -> RequestRows(drawn)] /\ RequestsOwned'
    <2>1. 0 \in 0..drawn
      BY DEF AccountTyped
    <2>2. NoRequest \in RequestRows(drawn) /\ NoRequest.op = "none"
      BY <2>1 DEF NoRequest, RequestRows
    <2> QED BY <1>1, <2>2 DEF RequestsOwned
  <1>3. SessionInv'
    BY <1>1, SessionsEnd
  <1>4. CodeInv'
    BY <1>1, CodesStay DEF AccountTyped
  <1> QED BY <1>1, <1>2, <1>3, <1>4, RestartMailStep DEF AccountTyped

(* The outbox works by itself, or nothing happens. *)
LEMMA OutboxStep ==
  ASSUME IInv, Outbox \/ UNCHANGED vars
  PROVE  IInv'
  <1> USE DEF IInv, AccountInv
  <1>1. UNCHANGED authVars /\ MailInv'
    BY MailNextStep, MailStutter DEF Outbox, vars
  <1>2. SessionInv'
    BY <1>1, SessionsEnd DEF authVars
  <1>3. CodeInv'
    BY <1>1, CodesStay DEF authVars, AccountTyped
  <1> QED BY <1>1, <1>2, <1>3 DEF authVars, AccountTyped, RequestsOwned

-----------------------------------------------------------------------------
(* The invariant. *)

LEMMA IInvInit == Init => IInv
  <1> SUFFICES ASSUME Init PROVE IInv
    OBVIOUS
  <1>1. NoCredential \in CredentialRows(0) /\ NoSession \in SessionRows(0) /\ NoCode \in CodeRows
        /\ NoRequest \in RequestRows(0)
    BY DEF NoCredential, NoSession, NoCode, NoRequest, CredentialRows, SessionRows, CodeRows, RequestRows
  <1>2. AccountTyped
    BY <1>1 DEF Init, AccountTyped
  <1>3. RequestsOwned
    BY DEF Init, RequestsOwned, NoRequest
  <1>4. SessionInv
    BY DEF Init, SessionInv, SessionsOwned, SessionsOfCurrentPassword
  <1>5. Issued = 1..0
    BY DEF Init, Issued, NoCode, Code
  <1>6. CodeInv
    BY <1>5 DEF CodeInv, CodesNumbered, CodesEndTogether
  <1> QED BY <1>2, <1>3, <1>4, <1>6, MailInit DEF Init, IInv, AccountInv

LEMMA IInvNext == IInv /\ [Next]_vars => IInv'
  <1> SUFFICES ASSUME IInv, [Next]_vars PROVE IInv'
    OBVIOUS
  <1>1. ASSUME NEW c \in Client,
               \/ Login(c) \/ LoginCommit(c) \/ Authenticate(c, "revoke") \/ Authenticate(c, "change")
               \/ ChangePassword(c) \/ RecoveryCommit(c) \/ RegisterCommit(c) \/ GiveUp(c)
               \/ \E s \in Session : RevokeOwn(c, s)
               \/ \E e \in Email : Register(c, e) \/ \E p \in {"reset", "verify"} : RequestRecovery(c, e, p)
        PROVE  IInv'
    BY <1>1, ReadStep, LoginStep, ChangeStep, RecoveryStep, RegisterStep, PlainStep, EndStep
  <1>2. ASSUME NEW c \in Code, Confirm(c) PROVE IInv'
    BY <1>2, ConfirmStep
  <1>3. ASSUME NEW u \in User,
               \/ SetPassword(u) \/ RevokeAllUserSessions(u)
               \/ \E e \in Email : CreateUser(u, e)
               \/ \E e \in Email \cup {None} : WriteProfile(u, e)
        PROVE  IInv'
    BY <1>3, SetStep, EndStep, CreateStep, PlainStep
  <1>4. ASSUME NEW s \in Session, EndSession(s) PROVE IInv'
    BY <1>4, EndStep
  <1>5. ASSUME NEW next \in Configs, ApplyConfiguration(next) PROVE IInv'
    BY <1>5, PlainStep
  <1> QED BY <1>1, <1>2, <1>3, <1>4, <1>5, TimeStep, RestartStep, OutboxStep DEF Next

(* The inductive invariant holds in every reachable state. *)
THEOREM Invariance == Spec => []IInv
  BY IInvInit, IInvNext, PTL DEF Spec

(* Every variable stays in its type, the outbox included. *)
THEOREM TypeCorrect == Spec => []TypeOK
  <1>1. IInv => TypeOK
    BY DEF IInv, AccountInv, MailInv, MailTyped, AccountTyped, TypeOK, CredentialRows, SessionRows,
           CodeRows, RequestRows
  <1> QED BY <1>1, Invariance, PTL

(* A Session that has not ended was opened with the password of now: each   *)
(* change of it (ChangePassword, SetPassword, confirmRecovery) ends the     *)
(* others, and a Login that verified an older one opens none.               *)
THEOREM SessionsCurrent == Spec => []SessionsOfCurrentPassword
  <1>1. IInv => SessionsOfCurrentPassword
    BY DEF IInv, AccountInv, SessionInv
  <1> QED BY <1>1, Invariance, PTL

(* The tokens of an App User end with the one that is used (confirmRecovery). *)
THEOREM CodesEnd == Spec => []CodesEndTogether
  <1>1. IInv => CodesEndTogether
    BY DEF IInv, AccountInv, CodeInv
  <1> QED BY <1>1, Invariance, PTL

(* One dispatcher at most works on a running mail and none on any other:     *)
(* processNext and SendTest never hold the same mail.                        *)
THEOREM SendersExclusive == Spec => []OneSender
  <1>1. IInv => OneSender
    <2> SUFFICES ASSUME IInv, NEW m \in Mail
                 PROVE  Cardinality({d \in Dispatcher : work[d].mail = m /\ work[d].step \notin {"idle", "queued"}})
                          <= IF mails[m].status = "running" THEN 1 ELSE 0
      BY DEF OneSender
    <2> DEFINE S == {d \in Dispatcher : work[d].mail = m /\ work[d].step \notin {"idle", "queued"}}
    <2>1. CASE mails[m].status = "running"
      <3>1. S = {} \/ \E d \in Dispatcher : S = {d}
        BY DEF IInv, MailInv, Senders, Sends
      <3>2. Cardinality(S) \in {0, 1}
        BY <3>1, FS_EmptySet, FS_Singleton
      <3> QED BY <2>1, <3>2
    <2>2. CASE mails[m].status # "running"
      <3>1. S = {}
        BY <2>2 DEF IInv, MailInv, Senders, Sends
      <3>2. Cardinality({}) = 0
        BY FS_EmptySet
      <3> QED BY <2>2, <3>1, <3>2
    <2> QED BY <2>1, <2>2
  <1> QED BY <1>1, Invariance, PTL

(* The provider is given a mail within its budgets: MaximumAttemptsPerDelivery *)
(* for each, and one conversation more for each stop of the process.           *)
THEOREM SendsWithinBudgets == Spec => []SendsBounded
  <1>1. IInv => SendsBounded
    <2> SUFFICES ASSUME IInv, NEW m \in Mail
                 PROVE  mails[m].sends
                          <= MaxAttempts * (mails[m].tries + IF mails[m].kind = "test" THEN 1 ELSE 0) + crashes
      BY DEF SendsBounded
    <2> DEFINE given == mails[m].tries + IF mails[m].kind = "test" THEN 1 ELSE 0
    <2>1. mails[m].sends \in Nat /\ mails[m].attempts \in Nat /\ mails[m].attempts <= MaxAttempts
          /\ mails[m].tries \in Nat /\ crashes \in Nat
      BY RowType DEF IInv, MailInv, MailTyped
    <2>2. Budgets(m) \in Nat /\ given \in Nat /\ Budgets(m) <= given
      BY <2>1 DEF Budgets
    <2>3. MaxAttempts * Budgets(m) <= MaxAttempts * given /\ MaxAttempts * Budgets(m) \in Nat
          /\ MaxAttempts * given \in Nat
      BY <2>2, MoreBudget
    <2>4. CASE mails[m].status = "none"
      BY <2>1, <2>3, <2>4 DEF IInv, MailInv, Spending
    <2>5. CASE mails[m].status = "running"
      <3>1. mails[m].attempts < MaxAttempts /\ Slack(m) = 1
        BY <2>5 DEF IInv, MailInv, Senders, Open, Slack
      <3>2. mails[m].sends + (MaxAttempts - mails[m].attempts)
              <= MaxAttempts * Budgets(m) + crashes + 1
        BY <2>5, <3>1 DEF IInv, MailInv, Spending
      <3> QED BY <2>1, <2>3, <3>1, <3>2
    <2>6. CASE mails[m].status \notin {"none", "running"}
      <3>1. mails[m].sends + (MaxAttempts - mails[m].attempts) <= MaxAttempts * Budgets(m) + crashes
        BY <2>6, Settled DEF IInv
      <3> QED BY <2>1, <2>3, <3>1
    <2> QED BY <2>4, <2>5, <2>6
  <1> QED BY <1>1, Invariance, PTL

=============================================================================
