-------------------------- MODULE AdminAccountsProofs --------------------------
(***************************************************************************)
(* Proofs about AdminAccounts for any number of identities, API Keys,      *)
(* Sessions and concurrent requests.  The inductive invariant IInv adds to *)
(* the properties that before the first run nobody is there to make an     *)
(* Administrator: without it the address of the first Owner could already  *)
(* be taken when bootstrap, which looks at no other address, writes it.    *)
(***************************************************************************)
EXTENDS AdminAccounts, TLAPS

USE AdminAccountsAssumption

AdminType   == [state : {"none", "active", "disabled", "deleted"}, email : Email \cup {None},
                secret : 0..MaxSecrets]
SessionType == [of : Administrator \cup {Owner, None}, secret : 0..MaxSecrets]
AccountType == [state : {"none", "active", "disabled"}, grant : SUBSET Operation]
RequestType == [op : Operation \cup {"none", "bootstrap", "login"},
                by : Administrator \cup Account \cup {None}, secret : 0..MaxSecrets]

(* Rows have their types: TypeOK without what it says of Sessions' owners. *)
RowsTyped ==
  /\ owner \in Email \cup {None} /\ closed \in BOOLEAN /\ drawn \in 0..MaxSecrets
  /\ admins \in [Administrator -> AdminType] /\ sessions \in [Session -> SessionType]
  /\ accounts \in [Account -> [state : {"none", "active", "disabled"}, grant : SUBSET Operation]]
  /\ keys \in [Key -> [state : {"none", "active", "revoked"}, account : Account \cup {None}]]
  /\ request \in [Client -> RequestType]

(* A Session belongs to somebody who is there. *)
SessionsOwned == \A s \in Session : sessions[s].of \in Present \cup {Owner, None}

(* Before the first run there are no Administrators and nobody acts as Owner. *)
NobodyBefore == owner = None => Present = {} /\ ~OwnerActs

IInv == RowsTyped /\ SessionsOwned /\ NobodyBefore /\ OneIdentityPerEmail

(* The operations by what they write. *)
ByClient(c) ==
  \/ Bootstrap(c) \/ LoginAdministrator(c) \/ GiveUp(c)
  \/ \E k \in Key, op \in Operation : AuthenticateAPIKey(c, k, op)

ByOwner(a) ==
  \/ \E e \in Email : CreateAdministrator(a, e) \/ UpdateAdministrator(a, e)
  \/ \E state \in {"active", "disabled"} : SetAdministratorStatus(a, state)
  \/ SetAdministratorPassword(a) \/ RevokeAdministratorSessions(a) \/ DeleteAdministrator(a)

ByActor(a) ==
  \/ \E t \in Account, grant \in Grants : Update(a, t, grant) \/ \E k \in Key : Create(a, t, grant, k)
  \/ \E t \in Account, state \in {"active", "disabled"} : SetStatus(a, t, state)
  \/ \E t \in Account, k \in Key : CreateAPIKey(a, t, k)
  \/ \E k \in Key : RevokeAPIKey(a, k)

LEMMA Steps ==
  ASSUME Next
  PROVE  \/ \E c \in Client : ByClient(c) \/ BootstrapCommit(c) \/ LoginCommit(c)
         \/ LoginOwner \/ \E s \in Session : EndSession(s)
         \/ \E a \in Administrator : ByOwner(a)
         \/ \E a \in Account \cup {Owner} : ByActor(a)
         \/ \E k \in Key : ExpireAPIKey(k)
  BY DEF Next, ByClient, ByOwner, ByActor

LEMMA TypeOfParts == TypeOK <=> RowsTyped /\ SessionsOwned
  BY DEF TypeOK, RowsTyped, SessionsOwned, AdminType, SessionType, RequestType

-----------------------------------------------------------------------------
(* Types. *)

LEMMA Opening ==
  ASSUME RowsTyped, NEW who \in Administrator \cup {Owner}, NEW secret \in 0..MaxSecrets,
         Opened(who, secret)
  PROVE  /\ sessions' \in [Session -> SessionType]
         /\ \A s \in Session : sessions'[s].of \in {sessions[s].of, who}
  BY DEF RowsTyped, Opened, SessionType

LEMMA Closing ==
  ASSUME RowsTyped, NEW a \in Administrator
  PROVE  /\ Without(a) \in [Session -> SessionType]
         /\ \A s \in Session : Without(a)[s].of \in {sessions[s].of, None} \ {a}
  <1>1. NoSession \in SessionType
    BY DEF NoSession, SessionType
  <1>2. a # None
    OBVIOUS
  <1> QED BY <1>1, <1>2 DEF RowsTyped, Without, NoSession

LEMMA NoRequestTyped ==
  NoRequest \in RequestType
  BY DEF NoRequest, RequestType

LEMMA ClientTyped ==
  ASSUME RowsTyped, NEW c \in Client, ByClient(c)
  PROVE  RowsTyped'
  <1> USE NoRequestTyped
  <1>1. CASE Bootstrap(c)
    BY <1>1 DEF RowsTyped, Bootstrap, Read, humans, robots, NoRequest, RequestType
  <1>2. CASE LoginAdministrator(c)
    BY <1>2 DEF RowsTyped, LoginAdministrator, Read, humans, robots, Present, AdminType, RequestType
  <1>3. CASE GiveUp(c)
    BY <1>3 DEF RowsTyped, GiveUp, Answered, humans, robots
  <1>4. ASSUME NEW k \in Key, NEW op \in Operation, AuthenticateAPIKey(c, k, op) PROVE RowsTyped'
    <2>1. keys[k].account \in Account
      BY <1>4 DEF AuthenticateAPIKey, Active
    <2>2. [op |-> op, by |-> keys[k].account, secret |-> 0] \in RequestType
      BY <2>1 DEF RequestType
    <2> QED BY <1>4, <2>2 DEF RowsTyped, AuthenticateAPIKey, Read, humans, robots
  <1> QED BY <1>1, <1>2, <1>3, <1>4 DEF ByClient

LEMMA LoginTyped ==
  ASSUME RowsTyped, \/ \E c \in Client : BootstrapCommit(c) \/ LoginCommit(c)
                    \/ LoginOwner \/ \E s \in Session : EndSession(s)
  PROVE  RowsTyped'
  <1> USE NoRequestTyped
  <1>1. ASSUME NEW c \in Client, BootstrapCommit(c) PROVE RowsTyped'
    <2>1. sessions' \in [Session -> SessionType]
      <3>1. CASE Opened(Owner, 0)
        BY <3>1, Opening
      <3>2. CASE UNCHANGED sessions
        BY <3>2 DEF RowsTyped
      <3> QED BY <1>1, <3>1, <3>2 DEF BootstrapCommit
    <2> QED BY <1>1, <2>1 DEF RowsTyped, BootstrapCommit, Answered, robots
  <1>2. ASSUME NEW c \in Client, LoginCommit(c) PROVE RowsTyped'
    <2>1. sessions' \in [Session -> SessionType]
      <3>1. CASE Referenced(request[c].by)
        <4>1. request[c].by \in Administrator /\ request[c].secret \in 0..MaxSecrets
          BY <3>1 DEF RowsTyped, Referenced, Present, RequestType
        <4> QED BY <1>2, <3>1, <4>1, Opening DEF LoginCommit
      <3>2. CASE ~Referenced(request[c].by)
        BY <1>2, <3>2 DEF RowsTyped, LoginCommit
      <3> QED BY <3>1, <3>2
    <2> QED BY <1>2, <2>1 DEF RowsTyped, LoginCommit, Answered, robots
  <1>3. CASE LoginOwner
    BY <1>3, Opening DEF RowsTyped, LoginOwner, robots
  <1>4. ASSUME NEW s \in Session, EndSession(s) PROVE RowsTyped'
    <2>1. NoSession \in SessionType
      BY DEF NoSession, SessionType
    <2> QED BY <1>4, <2>1 DEF RowsTyped, EndSession, robots
  <1> QED BY <1>1, <1>2, <1>3, <1>4

LEMMA AdminTyped == RowsTyped => admins \in [Administrator -> AdminType]
  BY DEF RowsTyped

LEMMA EmailTyped ==
  ASSUME NEW rows \in [Administrator -> AdminType], NEW a \in Administrator, NEW e \in Email
  PROVE  [rows EXCEPT ![a].email = e] \in [Administrator -> AdminType]
  BY DEF AdminType

LEMMA StateTyped ==
  ASSUME NEW rows \in [Administrator -> AdminType], NEW a \in Administrator,
         NEW state \in {"active", "disabled"}
  PROVE  [rows EXCEPT ![a].state = state] \in [Administrator -> AdminType]
  BY DEF AdminType

LEMMA OwnerTyped ==
  ASSUME RowsTyped, NEW a \in Administrator, ByOwner(a)
  PROVE  RowsTyped'
  <1> USE Closing
  <1>1. ASSUME NEW e \in Email, CreateAdministrator(a, e) PROVE RowsTyped'
    <2>1. [state |-> "active", email |-> e, secret |-> drawn'] \in AdminType
      BY <1>1 DEF RowsTyped, CreateAdministrator, Draw, AdminType
    <2> QED BY <1>1, <2>1 DEF RowsTyped, CreateAdministrator, Draw, robots
  <1>2. ASSUME NEW e \in Email, UpdateAdministrator(a, e) PROVE RowsTyped'
    <2>1. [admins EXCEPT ![a].email = e] \in [Administrator -> AdminType]
      BY AdminTyped, EmailTyped
    <2> QED BY <1>2, <2>1 DEF RowsTyped, UpdateAdministrator, robots
  <1>3. ASSUME NEW state \in {"active", "disabled"}, SetAdministratorStatus(a, state) PROVE RowsTyped'
    <2>1. sessions' \in {sessions, Without(a)}
      BY <1>3 DEF SetAdministratorStatus
    <2>2. admins' \in [Administrator -> AdminType]
      <3>1. [admins EXCEPT ![a].state = state] \in [Administrator -> AdminType]
        BY AdminTyped, StateTyped
      <3> QED BY <1>3, <3>1 DEF SetAdministratorStatus
    <2> QED BY <1>3, <2>1, <2>2 DEF RowsTyped, SetAdministratorStatus, robots
  <1>4. CASE SetAdministratorPassword(a)
    <2>1. drawn' \in 0..MaxSecrets
      BY <1>4 DEF RowsTyped, SetAdministratorPassword, Draw
    <2>2. admins' \in [Administrator -> AdminType]
      <3>1. [admins EXCEPT ![a].secret = drawn'] \in [Administrator -> AdminType]
        BY <2>1, AdminTyped DEF AdminType
      <3> QED BY <1>4, <3>1 DEF SetAdministratorPassword
    <2> QED BY <1>4, <2>1, <2>2 DEF RowsTyped, SetAdministratorPassword, robots
  <1>5. CASE RevokeAdministratorSessions(a)
    BY <1>5 DEF RowsTyped, RevokeAdministratorSessions, robots
  <1>6. CASE DeleteAdministrator(a)
    <2>1. [NoAdmin EXCEPT !.state = "deleted"] = [state |-> "deleted", email |-> None, secret |-> 0]
      BY DEF NoAdmin
    <2>2. [state |-> "deleted", email |-> None, secret |-> 0] \in AdminType
      BY DEF AdminType
    <2> QED BY <1>6, <2>1, <2>2 DEF RowsTyped, DeleteAdministrator, robots
  <1> QED BY <1>1, <1>2, <1>3, <1>4, <1>5, <1>6 DEF ByOwner

LEMMA RequestAnswered ==
  ASSUME RowsTyped, NEW a, NEW op, Acts(a, op)
  PROVE  request' \in [Client -> RequestType]
  BY NoRequestTyped DEF RowsTyped, Acts, Answered

LEMMA ActorTyped ==
  ASSUME RowsTyped, NEW a \in Account \cup {Owner}, ByActor(a)
  PROVE  RowsTyped'
  <1> USE RequestAnswered DEF May
  <1>1. ASSUME NEW t \in Account, NEW grant \in Grants, Update(a, t, grant) PROVE RowsTyped'
    BY <1>1 DEF RowsTyped, Update, humans
  <1>2. ASSUME NEW t \in Account, NEW grant \in Grants, NEW k \in Key, Create(a, t, grant, k)
        PROVE  RowsTyped'
    BY <1>2 DEF RowsTyped, Create, humans
  <1>3. ASSUME NEW t \in Account, NEW state \in {"active", "disabled"}, SetStatus(a, t, state)
        PROVE  RowsTyped'
    BY <1>3 DEF RowsTyped, SetStatus, humans
  <1>4. ASSUME NEW t \in Account, NEW k \in Key, CreateAPIKey(a, t, k) PROVE RowsTyped'
    BY <1>4 DEF RowsTyped, CreateAPIKey, humans
  <1>5. ASSUME NEW k \in Key, RevokeAPIKey(a, k) PROVE RowsTyped'
    BY <1>5 DEF RowsTyped, RevokeAPIKey, humans
  <1> QED BY <1>1, <1>2, <1>3, <1>4, <1>5 DEF ByActor

LEMMA NextTyped ==
  ASSUME RowsTyped, [Next]_vars
  PROVE  RowsTyped'
  <1>1. ASSUME NEW k \in Key, ExpireAPIKey(k) PROVE RowsTyped'
    BY <1>1 DEF RowsTyped, ExpireAPIKey, humans
  <1>2. CASE UNCHANGED vars
    BY <1>2 DEF RowsTyped, vars
  <1> QED BY <1>1, <1>2, Steps, ClientTyped, LoginTyped, OwnerTyped, ActorTyped

-----------------------------------------------------------------------------
(* Who is there.                                                            *)

(* What reads or changes only Service Accounts, requests and logins leaves  *)
(* every identity where it is.                                              *)
LEMMA SameHumans ==
  ASSUME IInv, UNCHANGED <<owner, admins, sessions>>
  PROVE  SessionsOwned' /\ NobodyBefore' /\ OneIdentityPerEmail'
  BY DEF IInv, SessionsOwned, NobodyBefore, OneIdentityPerEmail, Present, OwnerActs

(* Once there is an Owner, NobodyBefore says nothing. *)
LEMMA FirstRunKept ==
  ASSUME IInv, NEW c \in Client, BootstrapCommit(c)
  PROVE  SessionsOwned' /\ NobodyBefore' /\ OneIdentityPerEmail'
  <1>1. CASE FirstRun
    <2>1. /\ owner' \in Email /\ Opened(Owner, 0) /\ UNCHANGED admins
          /\ Present = {}
      BY <1>1 DEF BootstrapCommit, FirstRun, IInv, NobodyBefore
    <2>2. Present' = {}
      BY <2>1 DEF Present
    <2>3. \A s \in Session : sessions'[s].of \in {sessions[s].of, Owner}
      BY <2>1, Opening DEF IInv, RowsTyped
    <2> QED BY <2>1, <2>2, <2>3 DEF IInv, SessionsOwned, NobodyBefore, OneIdentityPerEmail
  <1>2. CASE ~FirstRun
    BY <1>2, SameHumans DEF BootstrapCommit
  <1> QED BY <1>1, <1>2

LEMMA LoginKept ==
  ASSUME IInv, \/ LoginOwner \/ \E c \in Client : LoginCommit(c)
               \/ \E s \in Session : EndSession(s)
  PROVE  SessionsOwned' /\ NobodyBefore' /\ OneIdentityPerEmail'
  <1>1. UNCHANGED <<owner, admins>>
    BY DEF LoginOwner, LoginCommit, EndSession
  <1>2. Present' = Present /\ OneIdentityPerEmail'
    BY <1>1 DEF Present, OneIdentityPerEmail, IInv
  <1>3. \A s \in Session : sessions'[s].of \in {sessions[s].of, None} \cup Present
                                                \cup (IF owner = None THEN {} ELSE {Owner})
    <2>1. CASE LoginOwner
      BY <2>1, Opening DEF LoginOwner, IInv, RowsTyped
    <2>2. ASSUME NEW c \in Client, LoginCommit(c)
          PROVE  \A s \in Session : sessions'[s].of \in {sessions[s].of} \cup Present
      <3>1. CASE Referenced(request[c].by)
        <4>1. request[c].by \in Present /\ request[c].by \in Administrator
              /\ request[c].secret \in 0..MaxSecrets /\ Opened(request[c].by, request[c].secret)
          BY <2>2, <3>1 DEF Referenced, Present, LoginCommit, IInv, RowsTyped, RequestType
        <4> QED BY <4>1, Opening DEF IInv
      <3>2. CASE ~Referenced(request[c].by)
        BY <2>2, <3>2 DEF LoginCommit
      <3> QED BY <3>1, <3>2
    <2>3. ASSUME NEW t \in Session, EndSession(t)
          PROVE  \A s \in Session : sessions'[s].of \in {sessions[s].of, None}
      BY <2>3 DEF EndSession, NoSession, IInv, RowsTyped
    <2> QED BY <2>1, <2>2, <2>3
  <1>4. SessionsOwned'
    BY <1>2, <1>3 DEF SessionsOwned, IInv
  <1>5. NobodyBefore'
    <2>1. Owner \notin Present
      BY DEF Present
    <2> QED BY <1>1, <1>2, <1>3, <2>1 DEF NobodyBefore, OwnerActs, IInv
  <1> QED BY <1>2, <1>4, <1>5

(* The Owner acts, so there is one: NobodyBefore says nothing, and an      *)
(* address is given only when it is nobody's.                               *)
LEMMA OwnerKept ==
  ASSUME IInv, NEW a \in Administrator, ByOwner(a)
  PROVE  SessionsOwned' /\ NobodyBefore' /\ OneIdentityPerEmail'
  <1>1. owner # None /\ owner' = owner
    BY DEF ByOwner, CreateAdministrator, UpdateAdministrator, SetAdministratorStatus, IInv, NobodyBefore,
           SetAdministratorPassword, RevokeAdministratorSessions, DeleteAdministrator
  <1>2. NobodyBefore'
    BY <1>1 DEF NobodyBefore
  <1>3. ASSUME NEW e \in Email, CreateAdministrator(a, e) \/ UpdateAdministrator(a, e)
        PROVE  SessionsOwned' /\ OneIdentityPerEmail'
    <2>1. /\ admins' \in [Administrator -> AdminType]
          /\ admins'[a].email = e /\ \A b \in Administrator \ {a} : admins'[b] = admins[b]
          /\ UNCHANGED sessions /\ EmailAvailable(a, e)
      <3>1. RowsTyped'
        BY <1>3, OwnerTyped DEF ByOwner, IInv
      <3>2. CASE CreateAdministrator(a, e)
        BY <3>1, <3>2, AdminTyped DEF CreateAdministrator, IInv, RowsTyped
      <3>3. CASE UpdateAdministrator(a, e)
        <4>1. DOMAIN admins[a] = {"state", "email", "secret"} /\ a \in DOMAIN admins
          BY AdminTyped DEF IInv, AdminType
        <4>2. admins'[a].email = e
          BY <3>3, <4>1 DEF UpdateAdministrator
        <4> QED BY <3>1, <3>3, <4>2, AdminTyped DEF UpdateAdministrator, IInv, RowsTyped
      <3> QED BY <1>3, <3>2, <3>3
    <2>2. Present' = Present \cup {a}
      <3>1. admins'[a].state \in {"active", "disabled"}
        BY <1>3, AdminTyped DEF CreateAdministrator, UpdateAdministrator, Present, IInv, AdminType
      <3> QED BY <2>1, <3>1 DEF Present
    <2>3. SessionsOwned'
      BY <2>1, <2>2 DEF SessionsOwned, IInv
    <2>4. OneIdentityPerEmail'
      <3> SUFFICES ASSUME NEW b \in Present', NEW d \in Present' \ {b}
                   PROVE  owner' # admins'[b].email /\ admins'[d].email # admins'[b].email
        BY <1>1, <2>1, <2>2 DEF OneIdentityPerEmail, EmailAvailable, IInv, Present
      <3> QED BY <1>1, <2>1, <2>2 DEF OneIdentityPerEmail, EmailAvailable, IInv, Present
    <2> QED BY <2>3, <2>4
  <1>4. ASSUME NEW state \in {"active", "disabled"},
               \/ SetAdministratorStatus(a, state) \/ SetAdministratorPassword(a)
               \/ RevokeAdministratorSessions(a)
        PROVE  SessionsOwned' /\ OneIdentityPerEmail'
    <2>1. \A b \in Administrator :
            /\ admins'[b].email = admins[b].email
            /\ admins'[b].state \in {"active", "disabled"} <=> admins[b].state \in {"active", "disabled"}
      <3>1. CASE SetAdministratorStatus(a, state)
        BY <3>1, AdminTyped DEF SetAdministratorStatus, Present, IInv, AdminType
      <3>2. CASE SetAdministratorPassword(a)
        BY <3>2, AdminTyped DEF SetAdministratorPassword, IInv, AdminType
      <3>3. CASE RevokeAdministratorSessions(a)
        BY <3>3 DEF RevokeAdministratorSessions
      <3> QED BY <1>4, <3>1, <3>2, <3>3
    <2>2. Present' = Present
      BY <2>1 DEF Present
    <2>3. \A s \in Session : sessions'[s].of \in {sessions[s].of, None}
      BY <1>4, Closing DEF SetAdministratorStatus, SetAdministratorPassword, RevokeAdministratorSessions, IInv
    <2> QED BY <1>1, <2>1, <2>2, <2>3 DEF SessionsOwned, OneIdentityPerEmail, IInv, Present
  <1>5. ASSUME DeleteAdministrator(a)
        PROVE  SessionsOwned' /\ OneIdentityPerEmail'
    <2>1. /\ Present' = Present \ {a}
          /\ \A b \in Present' : admins'[b] = admins[b]
      BY <1>5 DEF DeleteAdministrator, NoAdmin, Present, IInv, RowsTyped
    <2>2. \A s \in Session : sessions'[s].of \in {sessions[s].of, None} \ {a}
      BY <1>5, Closing DEF DeleteAdministrator, IInv
    <2> QED BY <1>1, <2>1, <2>2 DEF SessionsOwned, OneIdentityPerEmail, IInv
  <1> QED BY <1>2, <1>3, <1>4, <1>5 DEF ByOwner

LEMMA IInvStep ==
  ASSUME IInv, [Next]_vars
  PROVE  IInv'
  <1>1. RowsTyped'
    BY NextTyped DEF IInv
  <1>2. SessionsOwned' /\ NobodyBefore' /\ OneIdentityPerEmail'
    <2>1. ASSUME NEW c \in Client, ByClient(c) PROVE UNCHANGED <<owner, admins, sessions>>
      BY <2>1 DEF ByClient, Bootstrap, LoginAdministrator, GiveUp, AuthenticateAPIKey, humans
    <2>2. ASSUME NEW a \in Account \cup {Owner}, ByActor(a) PROVE UNCHANGED <<owner, admins, sessions>>
      BY <2>2 DEF ByActor, Update, Create, SetStatus, CreateAPIKey, RevokeAPIKey, humans
    <2>3. ASSUME NEW k \in Key, ExpireAPIKey(k) PROVE UNCHANGED <<owner, admins, sessions>>
      BY <2>3 DEF ExpireAPIKey, humans
    <2>4. CASE UNCHANGED vars
      BY <2>4, SameHumans DEF vars
    <2> QED BY <2>1, <2>2, <2>3, <2>4, Steps, SameHumans, FirstRunKept, LoginKept, OwnerKept
  <1> QED BY <1>1, <1>2 DEF IInv

LEMMA IInvInit == Init => IInv
  <1> SUFFICES ASSUME Init PROVE IInv
    OBVIOUS
  <1>1. RowsTyped
    <2>1. NoAdmin \in AdminType /\ NoSession \in SessionType
      BY DEF NoAdmin, AdminType, NoSession, SessionType
    <2>2. accounts \in [Account -> [state : {"none", "active", "disabled"}, grant : SUBSET Operation]]
      BY DEF Init, NoAccount
    <2>3. keys \in [Key -> [state : {"none", "active", "revoked"}, account : Account \cup {None}]]
      BY DEF Init, NoKey
    <2>4. drawn \in 0..MaxSecrets
      BY DEF Init
    <2>5. admins \in [Administrator -> AdminType] /\ sessions \in [Session -> SessionType]
      BY <2>1 DEF Init
    <2>6. request \in [Client -> RequestType]
      BY NoRequestTyped DEF Init
    <2> QED BY <2>2, <2>3, <2>4, <2>5, <2>6 DEF Init, RowsTyped
  <1>2. \A s \in Session : sessions[s].of = None
    BY DEF Init, NoSession
  <1>3. Present = {}
    BY DEF Init, Present, NoAdmin
  <1>4. ~OwnerActs /\ SessionsOwned
    BY <1>2 DEF OwnerActs, SessionsOwned
  <1> QED BY <1>1, <1>3, <1>4 DEF IInv, NobodyBefore, OneIdentityPerEmail

-----------------------------------------------------------------------------
(* A request that is answered in this step comes of an active Service       *)
(* Account, which gives nothing beyond its own Permission.                  *)
LEMMA Allowed ==
  ASSUME RowsTyped, request' # request, NEW a \in Account \cup {Owner},
         NEW op \in Operation, NEW grant, May(a, op, grant)
  PROVE  a \in Active /\ grant \subseteq accounts[a].grant
  <1>1. a # Owner
    BY DEF May, Acts, RowsTyped, RequestType
  <1> QED BY <1>1 DEF May, Holds, Within

LEMMA AccountTyped ==
  ASSUME NEW rows \in [Account -> AccountType], NEW t \in Account, NEW grant, NEW state
  PROVE  /\ [rows EXCEPT ![t].grant = grant][t].grant = grant
         /\ [rows EXCEPT ![t].state = state][t].grant = rows[t].grant
  BY DEF AccountType

-----------------------------------------------------------------------------
(* The theorems. *)

(* The inductive invariant holds in every reachable state (New, and every   *)
(* handler of adminauth and serviceaccounts).                               *)
THEOREM Invariance == Spec => []IInv
  BY IInvInit, IInvStep, PTL DEF Spec

(* Every variable stays in its type, and a Session belongs to the Owner or  *)
(* to an Administrator who is there, although createAdministratorSession    *)
(* compares nothing again (administratorSessionSchema).                     *)
THEOREM TypeCorrect == Spec => []TypeOK
  <1>1. IInv => TypeOK
    BY TypeOfParts DEF IInv
  <1> QED BY <1>1, Invariance, PTL

(* No address belongs to two identities, whatever first runs and requests   *)
(* of the Owner take place at the same time (bootstrap,                     *)
(* ensureAdministratorEmailAvailable).                                      *)
THEOREM IdentitiesApart == Spec => []OneIdentityPerEmail
  <1>1. IInv => OneIdentityPerEmail
    BY DEF IInv
  <1> QED BY <1>1, Invariance, PTL

(* One Owner comes of any number of concurrent first runs, and stays        *)
(* (bootstrap).                                                             *)
THEOREM OneOwner == Spec => OwnerStands
  <1>1. [Next]_vars => [owner # None => owner' = owner]_vars
    <2> SUFFICES ASSUME Next PROVE owner # None => owner' = owner
      OBVIOUS
    <2>1. ASSUME NEW c \in Client, BootstrapCommit(c) PROVE owner # None => owner' = owner
      BY <2>1 DEF BootstrapCommit, FirstRun
    <2>2. ASSUME NEW c \in Client, ByClient(c) \/ LoginCommit(c) PROVE owner' = owner
      BY <2>2 DEF ByClient, Bootstrap, LoginAdministrator, GiveUp, AuthenticateAPIKey, LoginCommit, humans
    <2>3. LoginOwner \/ (\E s \in Session : EndSession(s)) => owner' = owner
      BY DEF LoginOwner, EndSession
    <2>4. ASSUME NEW a \in Administrator, ByOwner(a) PROVE owner' = owner
      BY <2>4 DEF ByOwner, CreateAdministrator, UpdateAdministrator, SetAdministratorStatus,
                  SetAdministratorPassword, RevokeAdministratorSessions, DeleteAdministrator
    <2>5. ASSUME NEW a \in Account \cup {Owner}, ByActor(a) PROVE owner' = owner
      BY <2>5 DEF ByActor, Update, Create, SetStatus, CreateAPIKey, RevokeAPIKey, humans
    <2>6. ASSUME NEW k \in Key, ExpireAPIKey(k) PROVE owner' = owner
      BY <2>6 DEF ExpireAPIKey, humans
    <2> QED BY <2>1, <2>2, <2>3, <2>4, <2>5, <2>6, Steps
  <1> QED BY <1>1, PTL DEF Spec, OwnerStands

(* No request gives an operation to the active Service Accounts that none   *)
(* of them had (requireOperation, requireTargetWithinActor, grantWithin):   *)
(* the actor is read again in the transaction, and what is given lies       *)
(* within what that row holds.                                              *)
THEOREM OnlyWhatIsHeld == Spec => NothingRegained
  <1>1. IInv /\ [Next]_vars => [request' # request => Held' \subseteq Held]_vars
    <2>0. SUFFICES ASSUME RowsTyped, Next, request' # request PROVE Held' \subseteq Held
      BY DEF IInv
    <2>1. CASE UNCHANGED accounts
      BY <2>1 DEF Held, Active
    <2>2. CASE ~UNCHANGED accounts
      <3>1. PICK a \in Account \cup {Owner} : ByActor(a)
        BY <2>0, <2>2, Steps DEF ByClient, Bootstrap, LoginAdministrator, GiveUp, AuthenticateAPIKey,
             BootstrapCommit, LoginCommit, LoginOwner, EndSession, ByOwner, CreateAdministrator,
             UpdateAdministrator, SetAdministratorStatus, SetAdministratorPassword,
             RevokeAdministratorSessions, DeleteAdministrator, ExpireAPIKey, robots
      <3>2. PICK t \in Account :
              /\ a \in Active /\ accounts'[t].grant \subseteq accounts[a].grant
              /\ \A b \in Account \ {t} : accounts'[b] = accounts[b]
        <4>1. ASSUME NEW t \in Account, NEW grant \in Grants, NEW k \in Key, Create(a, t, grant, k)
              PROVE  /\ a \in Active /\ accounts'[t].grant \subseteq accounts[a].grant
                     /\ \A b \in Account \ {t} : accounts'[b] = accounts[b]
          <5>1. a \in Active /\ grant \subseteq accounts[a].grant
            BY <2>0, <4>1, Allowed DEF Create, Operation
          <5>2. accounts' = [accounts EXCEPT ![t] = [state |-> "active", grant |-> grant]]
            BY <4>1 DEF Create
          <5> QED BY <2>0, <5>1, <5>2 DEF RowsTyped
        <4>2. ASSUME NEW t \in Account, NEW grant \in Grants, Update(a, t, grant)
              PROVE  /\ a \in Active /\ accounts'[t].grant \subseteq accounts[a].grant
                     /\ \A b \in Account \ {t} : accounts'[b] = accounts[b]
          <5>1. a \in Active /\ grant \subseteq accounts[a].grant
            BY <2>0, <4>2, Allowed DEF Update, Operation
          <5>2. accounts' = [accounts EXCEPT ![t].grant = grant] /\ accounts \in [Account -> AccountType]
            BY <2>0, <4>2 DEF Update, RowsTyped, AccountType
          <5>3. accounts'[t].grant = grant
            BY <5>2, AccountTyped
          <5> QED BY <5>1, <5>2, <5>3
        <4>3. ASSUME NEW t \in Account, NEW state \in {"active", "disabled"}, SetStatus(a, t, state)
              PROVE  /\ a \in Active /\ accounts'[t].grant \subseteq accounts[a].grant
                     /\ \A b \in Account \ {t} : accounts'[b] = accounts[b]
          <5>1. a \in Active /\ accounts[t].grant \subseteq accounts[a].grant
            BY <2>0, <4>3, Allowed DEF SetStatus, Operation
          <5>2. accounts' = [accounts EXCEPT ![t].state = state] /\ accounts \in [Account -> AccountType]
            BY <2>0, <4>3 DEF SetStatus, RowsTyped, AccountType
          <5>3. accounts'[t].grant = accounts[t].grant
            BY <5>2, AccountTyped
          <5> QED BY <5>1, <5>2, <5>3
        <4> QED BY <2>2, <3>1, <4>1, <4>2, <4>3 DEF ByActor, CreateAPIKey, RevokeAPIKey
      <3>4. ASSUME NEW b \in Active', NEW op \in accounts'[b].grant
            PROVE  \E d \in Active : op \in accounts[d].grant
        <4>1. CASE b = t
          BY <3>2, <3>4, <4>1
        <4>2. CASE b # t
          BY <3>2, <3>4, <4>2 DEF Active
        <4> QED BY <4>1, <4>2
      <3> QED BY <3>4 DEF Held
    <2> QED BY <2>1, <2>2
  <1> QED BY <1>1, Invariance, PTL DEF Spec, NothingRegained
=============================================================================
