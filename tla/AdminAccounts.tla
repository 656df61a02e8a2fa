----------------------------- MODULE AdminAccounts -----------------------------
(***************************************************************************)
(* The identities of the Control Plane: the Owner and the Administrators   *)
(* (src/internal/adminauth), who act with Sessions, and the Service        *)
(* Accounts (src/internal/serviceaccounts), which act with API Keys and    *)
(* may manage each other as far as their own Permission goes.              *)
(*                                                                         *)
(* A request of a Service Account is two steps, authentication and the     *)
(* transaction of the handler, and so are a first run and a login of an    *)
(* Administrator, which derive a key in between.  A request of the Owner   *)
(* is one step: its handler reads nothing of the Owner again.  A password  *)
(* is known by the number of its salt.  A Session that was revoked or has  *)
(* expired is no longer there: no code asks for one.                       *)
(***************************************************************************)
EXTENDS Integers, FiniteSets

CONSTANTS
  Client,                 \* bound: requests in flight
  Administrator, Account, \* bound: the ids that are drawn
  Key, Session,           \* bound: API Keys, live Sessions
  Email, Owner, None,
  Grants,                 \* the Permissions given: sets of operations
  MaxAdministrators,      \* maximumAdministrators
  MaxSecrets              \* bound: passwords of Administrators

Operation == {"serviceAccounts.manage", "apiKeys.create", "apiKeys.revoke", "records.read"}
FullAccess == Operation

ASSUME AdminAccountsAssumption ==
  /\ Grants \subseteq SUBSET Operation
  /\ None \notin Email \cup Account \cup Administrator \cup {Owner}
  /\ Owner \notin Account \cup Administrator
  /\ MaxAdministrators \in Nat /\ MaxSecrets \in Nat

VARIABLES
  owner,       \* email of the Owner, or None
  closed,      \* the first run is over
  admins,      \* [Administrator -> row]
  sessions,    \* [Session -> of whom, or NoSession]
  accounts,    \* [Account -> row]
  keys,        \* [Key -> row]
  request,     \* [Client -> what it read]
  drawn        \* salts drawn

vars == <<owner, closed, admins, sessions, accounts, keys, request, drawn>>
humans == <<owner, closed, admins, sessions, drawn>>
robots == <<accounts, keys>>

\* state: "none", "active", "disabled" or "deleted".  A deleted id is not drawn again.
NoAdmin   == [state |-> "none", email |-> None, secret |-> 0]
NoSession == [of |-> None, secret |-> 0]
NoAccount == [state |-> "none", grant |-> {}]
NoKey     == [state |-> "none", account |-> None]
NoRequest == [op |-> "none", by |-> None, secret |-> 0]

Init ==
  /\ owner = None /\ closed = FALSE
  /\ admins = [a \in Administrator |-> NoAdmin]
  /\ sessions = [s \in Session |-> NoSession]
  /\ accounts = [a \in Account |-> NoAccount] /\ keys = [k \in Key |-> NoKey]
  /\ request = [c \in Client |-> NoRequest] /\ drawn = 0

Present     == {a \in Administrator : admins[a].state \in {"active", "disabled"}}
Active      == {a \in Account : accounts[a].state = "active"}
OwnerActs   == \E s \in Session : sessions[s].of = Owner
Without(a)  == [s \in Session |-> IF sessions[s].of = a THEN NoSession ELSE sessions[s]]
Read(c, r)  == request[c] = NoRequest /\ request' = [request EXCEPT ![c] = r]
Answered(c) == request' = [request EXCEPT ![c] = NoRequest]
Draw        == drawn < MaxSecrets /\ drawn' = drawn + 1
Opened(who, secret) ==
  \E s \in Session :
    /\ sessions[s] = NoSession
    /\ sessions' = [sessions EXCEPT ![s] = [of |-> who, secret |-> secret]]

(***************************************************************************)
(* The Owner and the Sessions.                                             *)
(***************************************************************************)
Bootstrap(c) ==
  /\ ~closed /\ Read(c, [NoRequest EXCEPT !.op = "bootstrap"])
  /\ UNCHANGED <<humans, robots>>

\* Mutant of FirstRun: what the snapshot said is not asked again.
FirstRunBefore == TRUE

FirstRun == ~closed /\ owner = None

BootstrapCommit(c) ==
  /\ request[c].op = "bootstrap" /\ Answered(c)
  /\ IF FirstRun
       THEN owner' \in Email /\ closed' = TRUE /\ Opened(Owner, 0)
       ELSE UNCHANGED <<owner, closed, sessions>>
  /\ UNCHANGED <<admins, drawn, robots>>

\* Nothing of the Owner's row ever changes: reading it and opening the Session are one step.
LoginOwner ==
  /\ owner # None /\ Opened(Owner, 0)
  /\ UNCHANGED <<owner, closed, admins, drawn, request, robots>>

LoginAdministrator(c) ==
  /\ \E a \in Present :
       /\ admins[a].state = "active" /\ admins[a].email # owner
       /\ Read(c, [op |-> "login", by |-> a, secret |-> admins[a].secret])
  /\ UNCHANGED <<humans, robots>>

\* administrator_id REFERENCES modelry_administrators(id).
Referenced(a) == a \in Present

\* createAdministratorSession: neither the status nor the password is compared again.
LoginCommit(c) ==
  LET r == request[c]
  IN /\ r.op = "login" /\ Answered(c)
     /\ IF Referenced(r.by) THEN Opened(r.by, r.secret) ELSE UNCHANGED sessions
     /\ UNCHANGED <<owner, closed, admins, drawn, robots>>

\* Logout, and the end of a Session's lifetime.
EndSession(s) ==
  /\ sessions[s] # NoSession /\ sessions' = [sessions EXCEPT ![s] = NoSession]
  /\ UNCHANGED <<owner, closed, admins, drawn, request, robots>>

(***************************************************************************)
(* The Owner manages the Administrators.                                   *)
(***************************************************************************)
\* Mutant of EmailAvailable: the Owner's address is not looked at.
EmailFreeOfAdministrators(a, e) == \A b \in Present \ {a} : admins[b].email # e

EmailAvailable(a, e) == owner # e /\ \A b \in Present \ {a} : admins[b].email # e

CreateAdministrator(a, e) ==
  /\ OwnerActs /\ admins[a] = NoAdmin
  /\ Cardinality(Present) < MaxAdministrators /\ EmailAvailable(a, e) /\ Draw
  /\ admins' = [admins EXCEPT ![a] = [state |-> "active", email |-> e, secret |-> drawn']]
  /\ UNCHANGED <<owner, closed, sessions, request, robots>>

UpdateAdministrator(a, e) ==
  /\ OwnerActs /\ a \in Present /\ EmailAvailable(a, e)
  /\ admins' = [admins EXCEPT ![a].email = e]
  /\ UNCHANGED <<owner, closed, sessions, drawn, request, robots>>

SetAdministratorStatus(a, state) ==
  /\ OwnerActs /\ a \in Present
  /\ admins' = [admins EXCEPT ![a].state = state]
  /\ sessions' = IF state = "disabled" THEN Without(a) ELSE sessions
  /\ UNCHANGED <<owner, closed, drawn, request, robots>>

SetAdministratorPassword(a) ==
  /\ OwnerActs /\ a \in Present /\ Draw
  /\ admins' = [admins EXCEPT ![a].secret = drawn'] /\ sessions' = Without(a)
  /\ UNCHANGED <<owner, closed, request, robots>>

RevokeAdministratorSessions(a) ==
  /\ OwnerActs /\ a \in Present /\ sessions' = Without(a)
  /\ UNCHANGED <<owner, closed, admins, drawn, request, robots>>

DeleteAdministrator(a) ==
  /\ OwnerActs /\ a \in Present
  /\ admins' = [admins EXCEPT ![a] = [NoAdmin EXCEPT !.state = "deleted"]] /\ sessions' = Without(a)
  /\ UNCHANGED <<owner, closed, drawn, request, robots>>

(***************************************************************************)
(* Service Accounts.                                                       *)
(***************************************************************************)
\* ServiceAccountMiddleware: the key, its account and the Permission for the route.
AuthenticateAPIKey(c, k, op) ==
  /\ keys[k].state = "active" /\ keys[k].account \in Active /\ op \in accounts[keys[k].account].grant
  /\ Read(c, [op |-> op, by |-> keys[k].account, secret |-> 0])
  /\ UNCHANGED <<humans, robots>>

\* Mutant of Holds: what authentication found is taken for granted.
HeldBefore(a, op) == TRUE

\* requireOperation: the actor is read again inside the transaction.
Holds(a, op) == a # Owner => (a \in Active /\ op \in accounts[a].grant)

\* grantWithin, requireTargetWithinActor.
Within(a, grant) == a # Owner => grant \subseteq accounts[a].grant

\* The request that brought the actor here is answered.
Acts(a, op) ==
  \/ a = Owner /\ OwnerActs /\ UNCHANGED request
  \/ \E c \in Client : request[c].op = op /\ request[c].by = a /\ Answered(c)

May(a, op, grant) == Acts(a, op) /\ Holds(a, op) /\ Within(a, grant)

Create(a, t, grant, k) ==
  /\ accounts[t] = NoAccount /\ May(a, "serviceAccounts.manage", grant)
  /\ accounts' = [accounts EXCEPT ![t] = [state |-> "active", grant |-> grant]]
  /\ \/ UNCHANGED keys
     \/ /\ keys[k] = NoKey /\ Holds(a, "apiKeys.create")
        /\ keys' = [keys EXCEPT ![k] = [state |-> "active", account |-> t]]
  /\ UNCHANGED humans

Update(a, t, grant) ==
  /\ accounts[t] # NoAccount /\ May(a, "serviceAccounts.manage", grant) /\ Within(a, accounts[t].grant)
  /\ accounts' = [accounts EXCEPT ![t].grant = grant]
  /\ UNCHANGED <<humans, keys>>

SetStatus(a, t, state) ==
  /\ accounts[t] # NoAccount /\ May(a, "serviceAccounts.manage", accounts[t].grant)
  /\ accounts' = [accounts EXCEPT ![t].state = state]
  /\ UNCHANGED <<humans, keys>>

CreateAPIKey(a, t, k) ==
  /\ t \in Active /\ keys[k] = NoKey /\ May(a, "apiKeys.create", accounts[t].grant)
  /\ keys' = [keys EXCEPT ![k] = [state |-> "active", account |-> t]]
  /\ UNCHANGED <<humans, accounts>>

RevokeAPIKey(a, k) ==
  /\ keys[k] # NoKey /\ May(a, "apiKeys.revoke", accounts[keys[k].account].grant)
  /\ keys' = [keys EXCEPT ![k].state = "revoked"]
  /\ UNCHANGED <<humans, accounts>>

\* The lifetime of a key ends: no code tells that from a revocation.
ExpireAPIKey(k) ==
  /\ keys[k].state = "active" /\ keys' = [keys EXCEPT ![k].state = "revoked"]
  /\ UNCHANGED <<humans, accounts, request>>

\* A request is refused or abandoned.
GiveUp(c) ==
  /\ request[c] # NoRequest /\ Answered(c) /\ UNCHANGED <<humans, robots>>

Next ==
  \/ \E c \in Client :
       \/ Bootstrap(c) \/ BootstrapCommit(c) \/ LoginAdministrator(c) \/ LoginCommit(c) \/ GiveUp(c)
       \/ \E k \in Key, op \in Operation : AuthenticateAPIKey(c, k, op)
  \/ LoginOwner
  \/ \E s \in Session : EndSession(s)
  \/ \E a \in Administrator :
       \/ \E e \in Email : CreateAdministrator(a, e) \/ UpdateAdministrator(a, e)
       \/ \E state \in {"active", "disabled"} : SetAdministratorStatus(a, state)
       \/ SetAdministratorPassword(a) \/ RevokeAdministratorSessions(a) \/ DeleteAdministrator(a)
  \/ \E a \in Account \cup {Owner}, t \in Account :
       \/ \E grant \in Grants : Update(a, t, grant) \/ \E k \in Key : Create(a, t, grant, k)
       \/ \E state \in {"active", "disabled"} : SetStatus(a, t, state)
       \/ \E k \in Key : CreateAPIKey(a, t, k)
  \/ \E a \in Account \cup {Owner}, k \in Key : RevokeAPIKey(a, k)
  \/ \E k \in Key : ExpireAPIKey(k)

Spec == Init /\ [][Next]_vars

(***************************************************************************)
(* Properties.                                                             *)
(***************************************************************************)
\* Rows have their types, and a Session belongs to the Owner or to an Administrator that is
\* there: a login that a deletion overtakes opens none.
TypeOK ==
  /\ owner \in Email \cup {None} /\ closed \in BOOLEAN /\ drawn \in 0..MaxSecrets
  /\ admins \in [Administrator -> [state : {"none", "active", "disabled", "deleted"},
                                   email : Email \cup {None}, secret : 0..MaxSecrets]]
  /\ sessions \in [Session -> [of : Administrator \cup {Owner, None}, secret : 0..MaxSecrets]]
  /\ \A s \in Session : sessions[s].of \in Present \cup {Owner, None}
  /\ accounts \in [Account -> [state : {"none", "active", "disabled"}, grant : SUBSET Operation]]
  /\ keys \in [Key -> [state : {"none", "active", "revoked"}, account : Account \cup {None}]]
  /\ request \in [Client -> [op : Operation \cup {"none", "bootstrap", "login"},
                             by : Administrator \cup Account \cup {None}, secret : 0..MaxSecrets]]

\* A login finds one identity: no address belongs to two Administrators, or to one of them
\* and the Owner, whose row is looked up first.
OneIdentityPerEmail ==
  \A a \in Present : owner # admins[a].email /\ \A b \in Present \ {a} : admins[b].email # admins[a].email

\* Two first runs may both have read that none has happened: one Owner comes of them, and
\* the Owner is never replaced.
OwnerStands == [][owner # None => owner' = owner]_vars

\* The operations that an active Service Account has.
Held == UNION {accounts[a].grant : a \in Active}

\* The requests of Service Accounts never bring back an operation that no active account has:
\* once the Owner has taken it from all of them, neither a request that was authenticated
\* before, nor an account that was disabled, gives it to anybody.
NothingRegained == [][request' # request => Held' \subseteq Held]_vars
================================================================================
