------------------------------ MODULE AppAccounts ------------------------------
(***************************************************************************)
(* The App Users of one Auth Collection (src/internal/appauth): profiles,  *)
(* Password Credentials, Sessions, Recovery tokens and the configuration,  *)
(* composed with the Mail outbox that carries the tokens.                  *)
(*                                                                         *)
(* A password is known by the number of its salt: each write of a password *)
(* draws a new one.  A token is known by its number, in the order of issue *)
(* and its age in half hours.  A Session that is revoked or has expired is *)
(* ended: both are checked wherever one is.  A request that reads, derives a key and     *)
(* then commits is two steps.                                              *)
(***************************************************************************)
EXTENDS MailOutbox

CONSTANTS
  User, Email, None,
  Client,          \* bound: requests in flight
  Session,         \* bound: Sessions
  MaxTokens,       \* maximumRecoveryTokens
  HourlyLimit,     \* recoveryRequestHourlyLimit
  Configs,         \* the configurations that the Owner chooses from
  MaxCodes,        \* bound: tokens issued
  MaxSecrets       \* bound: passwords

Mode == {"off", "optional", "required"}

ASSUME AppAccountsAssumption ==
  /\ None \notin User \cup Email \cup Session
  /\ Configs \subseteq [password: BOOLEAN, open: BOOLEAN, mode: Mode]
  /\ \A n \in {MaxTokens, HourlyLimit, MaxCodes, MaxSecrets} : n \in Nat \ {0}

Code == 1..MaxCodes
Secret == 1..MaxSecrets

VARIABLES
  profile,     \* [User -> email of the Record, or None]
  credential,  \* [User -> row, or NoCredential]
  sessions,    \* [Session -> row, or NoSession]
  codes,       \* [Code -> row]
  config,      \* the applied configuration
  request,     \* [Client -> what it read]
  drawn        \* salts drawn

authVars == <<profile, credential, sessions, codes, config, request, drawn>>
vars == <<authVars, mailVars>>

NoCredential == [email |-> None, secret |-> 0, verified |-> FALSE]
NoSession    == [user |-> None, secret |-> 0, ended |-> FALSE]
Ended(row)   == [row EXCEPT !.secret = 0, !.ended = TRUE]
NoCode       == [user |-> None, email |-> None, purpose |-> "reset", used |-> FALSE, age |-> 0, kept |-> FALSE]
NoRequest    == [op |-> "none", user |-> None, email |-> None, secret |-> 0, session |-> None]

Init ==
  /\ profile = [u \in User |-> None] /\ credential = [u \in User |-> NoCredential]
  /\ sessions = [s \in Session |-> NoSession] /\ codes = [c \in Code |-> NoCode]
  /\ config \in Configs
  /\ request = [c \in Client |-> NoRequest] /\ drawn = 0
  /\ InitMail

Required   == config.mode = "required"
Issued     == {c \in Code : codes[c].user # None}
Registered == {u \in User : credential[u] # NoCredential}
Holder(e)  == {u \in Registered : credential[u].email = e}

\* sessionForToken: neither revoked nor expired, and the profile still exists.
Usable(s) ==
  sessions[s] # NoSession /\ ~sessions[s].ended /\ profile[sessions[s].user] # None

RevokedOf(u) == [s \in Session |-> IF sessions[s].user = u THEN Ended(sessions[s]) ELSE sessions[s]]

Draw == drawn < MaxSecrets /\ drawn' = drawn + 1
Answered(c) == request' = [request EXCEPT ![c] = NoRequest]
Read(c, r)  == request[c] = NoRequest /\ request' = [request EXCEPT ![c] = r]

(***************************************************************************)
(* Login.                                                                  *)
(***************************************************************************)
\* The snapshot: the password is verified against it.
Login(c) ==
  /\ config.password
  /\ \E u \in Registered :
       /\ Required => credential[u].verified
       /\ Read(c, [NoRequest EXCEPT !.op = "login", !.user = u, !.email = credential[u].email,
                                    !.secret = credential[u].secret])
  /\ UNCHANGED <<profile, credential, sessions, codes, config, drawn, mailVars>>

\* Mutant of SameCredential: the credential is not compared again.
AnyCredential(r) == TRUE

SameCredential(r) == Holder(r.email) = {r.user} /\ credential[r.user].secret = r.secret

\* The transaction: configuration, credential and profile are read again.
LoginCommit(c) ==
  LET r == request[c]
  IN /\ r.op = "login" /\ Answered(c)
     /\ IF /\ config.password /\ SameCredential(r)
           /\ Required => credential[r.user].verified
           /\ profile[r.user] # None
        THEN \E s \in Session :
               /\ sessions[s] = NoSession
               /\ sessions' = [sessions EXCEPT ![s] = [NoSession EXCEPT !.user = r.user, !.secret = r.secret]]
        ELSE UNCHANGED sessions
     /\ UNCHANGED <<profile, credential, codes, config, drawn, mailVars>>

(***************************************************************************)
(* Requests with a Session.                                                *)
(***************************************************************************)
\* sessionForToken and, for a change of the password, the credential to which
\* the current password is compared.
Authenticate(c, op) ==
  /\ \E s \in Session :
       /\ Usable(s)
       /\ Read(c, [op |-> op, user |-> sessions[s].user, email |-> None,
                   secret |-> IF op = "change" THEN credential[sessions[s].user].secret ELSE 0, session |-> s])
  /\ UNCHANGED <<profile, credential, sessions, codes, config, drawn, mailVars>>

\* Logout, and RevokeOwnSession for any Session of the caller.
RevokeOwn(c, s) ==
  LET r == request[c]
  IN /\ r.op = "revoke" /\ sessions[s].user = r.user /\ Answered(c)
     /\ sessions' = [sessions EXCEPT ![s] = Ended(@)]
     /\ UNCHANGED <<profile, credential, codes, config, drawn, mailVars>>

ChangePassword(c) ==
  LET r == request[c]
  IN /\ r.op = "change" /\ Answered(c)
     /\ IF /\ ~sessions[r.session].ended
           /\ credential[r.user].secret = r.secret
        THEN /\ Draw
             /\ credential' = [credential EXCEPT ![r.user].secret = drawn']
             /\ sessions' = RevokedOf(r.user)
        ELSE UNCHANGED <<credential, sessions, drawn>>
     /\ UNCHANGED <<profile, codes, config, mailVars>>

(***************************************************************************)
(* Recovery tokens.                                                        *)
(***************************************************************************)
\* issueRecoveryToken: the tokens of the last hour for the email and purpose.
Recent(e, p) == Cardinality({c \in Issued : codes[c].kept /\ codes[c].email = e /\ codes[c].purpose = p
                                           /\ codes[c].age < 2})

\* The oldest tokens are removed before the new one is written.
KeptCodes ==
  {c \in Issued : codes[c].kept
     /\ Cardinality({n \in Issued : n > c /\ codes[n].kept}) < MaxTokens}

\* Over the limit nothing is written and the caller goes on; a full outbox fails
\* the transaction of the caller.
Issue(u, e, p) ==
  LET c == Cardinality(Issued) + 1
  IN IF Recent(e, p) >= HourlyLimit THEN UNCHANGED <<codes, mails>>
     ELSE /\ c \in Code /\ Room
          /\ codes' = [n \in Code |->
               IF n = c THEN [NoCode EXCEPT !.user = u, !.email = e, !.purpose = p, !.kept = TRUE]
               ELSE [codes[n] EXCEPT !.kept = n \in KeptCodes]]
          /\ mails' = Enqueued("recovery", c)

\* requestRecovery: whether mail is configured is asked before the transaction.
RequestRecovery(c, e, p) ==
  /\ provider # "off"
  /\ Read(c, [NoRequest EXCEPT !.op = p, !.email = e])
  /\ UNCHANGED <<profile, credential, sessions, codes, config, drawn, mailVars>>

RecoveryCommit(c) ==
  LET r == request[c]
  IN /\ r.op \in {"reset", "verify"} /\ Answered(c)
     /\ IF r.op = "verify" THEN config.mode # "off" ELSE config.password
     /\ \E u \in Holder(r.email) :
          /\ r.op = "verify" => ~credential[u].verified
          /\ Issue(u, r.email, r.op)
     /\ UNCHANGED <<profile, credential, sessions, config, drawn,
                    work, provider, retries, crashes>>

\* Mutant of UsedWith: only the token itself.
UsedAlone(c) == [codes EXCEPT ![c].used = TRUE]

\* All tokens of the App User end with the one that is used.
UsedWith(c) == [n \in Code |-> IF codes[n].user = codes[c].user THEN [codes[n] EXCEPT !.used = TRUE] ELSE codes[n]]

\* confirmRecovery, by who received the mail.
Confirm(c) ==
  LET u == codes[c].user
  IN /\ codes[c].kept /\ ~codes[c].used /\ codes[c].age = 0
     /\ \E m \in Mail : mails[m].ref = c /\ mails[m].sends > 0
     /\ u \in Registered
     /\ codes' = UsedWith(c)
     /\ IF codes[c].purpose = "reset"
        THEN /\ Draw
             /\ credential' = [credential EXCEPT ![u].secret = drawn']
             /\ sessions' = RevokedOf(u)
        ELSE /\ credential' = [credential EXCEPT ![u].verified = TRUE]
             /\ UNCHANGED <<sessions, drawn>>
     /\ UNCHANGED <<profile, config, request, mailVars>>

(***************************************************************************)
(* App Users.                                                              *)
(***************************************************************************)
EmailFree(e) == e \notin {profile[u] : u \in User} /\ Holder(e) = {}

\* RegisterWithOrigin: the configuration is read before and in the transaction.
OpenNow == config.password /\ config.open

Register(c, e) ==
  /\ OpenNow /\ Read(c, [NoRequest EXCEPT !.op = "register", !.email = e])
  /\ UNCHANGED <<profile, credential, sessions, codes, config, drawn, mailVars>>

Created(u, e, verified) ==
  /\ profile[u] = None /\ u \notin Registered /\ EmailFree(e) /\ Draw
  /\ profile' = [profile EXCEPT ![u] = e]
  /\ credential' = [credential EXCEPT ![u] = [email |-> e, secret |-> drawn', verified |-> verified]]

RegisterCommit(c) ==
  LET r == request[c]
  IN /\ r.op = "register" /\ Answered(c) /\ OpenNow
     /\ \E u \in User :
          /\ Created(u, r.email, ~Required)
          /\ IF Required THEN Issue(u, r.email, "verify") ELSE UNCHANGED <<codes, mails>>
     /\ UNCHANGED <<sessions, config, work, provider, retries, crashes>>

\* A request that commits nothing: refused, timed out, or its client is gone.
GiveUp(c) ==
  /\ request[c] # NoRequest /\ Answered(c)
  /\ UNCHANGED <<profile, credential, sessions, codes, config, drawn, mailVars>>

CreateUser(u, e) ==
  /\ Created(u, e, TRUE)
  /\ UNCHANGED <<sessions, codes, config, request, mailVars>>

\* SetPassword by an administrator writes the email of the profile too.
SetPassword(u) ==
  /\ profile[u] # None /\ Holder(profile[u]) \subseteq {u} /\ Draw
  /\ credential' = [credential EXCEPT ![u] =
        [email |-> profile[u], secret |-> drawn', verified |-> u \notin Registered \/ @.verified]]
  /\ sessions' = RevokedOf(u)
  /\ UNCHANGED <<profile, codes, config, request, mailVars>>

\* Records of the Collection written through the rules: credential, Sessions and
\* tokens of the App User are left alone.
WriteProfile(u, e) ==
  /\ e # profile[u] /\ e # None => e \notin {profile[v] : v \in User}
  /\ profile[u] = None => u \notin Registered
  /\ profile' = [profile EXCEPT ![u] = e]
  /\ UNCHANGED <<credential, sessions, codes, config, request, drawn, mailVars>>

\* RevokeUserSession, and the end of the Session's life.
EndSession(s) ==
  /\ sessions[s] # NoSession /\ ~sessions[s].ended /\ sessions' = [sessions EXCEPT ![s] = Ended(@)]
  /\ UNCHANGED <<profile, credential, codes, config, request, drawn, mailVars>>

RevokeAllUserSessions(u) ==
  /\ profile[u] # None /\ sessions' = RevokedOf(u)
  /\ UNCHANGED <<profile, credential, codes, config, request, drawn, mailVars>>

(***************************************************************************)
(* Configuration, time, and the process.                                   *)
(***************************************************************************)
\* The saved configuration becomes the applied one.  Nothing but the Owner reads
\* what is saved, and a stale expectedVersion only fails.
ApplyConfiguration(next) ==
  /\ next # config /\ config' = next
  /\ UNCHANGED <<profile, credential, sessions, codes, request, drawn, mailVars>>

HalfHour ==
  /\ \E c \in Issued : codes[c].age < 2
  /\ codes' = [c \in Code |-> IF c \in Issued /\ codes[c].age < 2 THEN [codes[c] EXCEPT !.age = @ + 1] ELSE codes[c]]
  /\ UNCHANGED <<profile, credential, sessions, config, request, drawn, mailVars>>

Restart ==
  /\ RestartMail /\ request' = [c \in Client |-> NoRequest]
  /\ UNCHANGED <<profile, credential, sessions, codes, config, drawn>>

\* RenderDeliveryPayload: the token is kept and not used; a test mail has its own body.
Renderable ==
  {m \in Mail : mails[m].kind = "recovery" => codes[mails[m].ref].kept /\ ~codes[mails[m].ref].used}

Outbox == MailNext(Renderable) /\ UNCHANGED authVars

Next ==
  \/ \E c \in Client :
       \/ Login(c) \/ LoginCommit(c) \/ Authenticate(c, "revoke") \/ Authenticate(c, "change")
       \/ ChangePassword(c) \/ RecoveryCommit(c) \/ RegisterCommit(c) \/ GiveUp(c)
       \/ \E s \in Session : RevokeOwn(c, s)
       \/ \E e \in Email : Register(c, e) \/ \E p \in {"reset", "verify"} : RequestRecovery(c, e, p)
  \/ \E c \in Code : Confirm(c)
  \/ \E u \in User :
       \/ SetPassword(u) \/ RevokeAllUserSessions(u)
       \/ \E e \in Email : CreateUser(u, e)
       \/ \E e \in Email \cup {None} : WriteProfile(u, e)
  \/ \E s \in Session : EndSession(s)
  \/ \E next \in Configs : ApplyConfiguration(next)
  \/ HalfHour \/ Restart \/ Outbox

Spec == Init /\ [][Next]_vars

(***************************************************************************)
(* Properties.                                                             *)
(***************************************************************************)
\* The type of every variable, and the outbox's.
TypeOK ==
  /\ profile \in [User -> Email \cup {None}]
  /\ credential \in [User -> [email: Email \cup {None}, secret: 0..drawn, verified: BOOLEAN]]
  /\ sessions \in [Session -> [user: User \cup {None}, secret: 0..drawn, ended: BOOLEAN]]
  /\ codes \in [Code -> [user: User \cup {None}, email: Email \cup {None}, purpose: {"reset", "verify"},
                         used: BOOLEAN, age: 0..2, kept: BOOLEAN]]
  /\ config \in Configs
  /\ request \in [Client -> [op: {"none", "login", "revoke", "change", "reset", "verify", "register"},
                             user: User \cup {None}, email: Email \cup {None}, secret: 0..drawn,
                             session: Session \cup {None}]]
  /\ drawn \in 0..MaxSecrets
  /\ MailTypeOK

\* Every Session that has not ended was opened with the password that the App
\* User has now: a Login that verified an older one, while the password is
\* changed, set or reset, opens none, and each of these ends the others
\* (LoginResult in Login, ChangePassword, SetPassword, confirmRecovery).
SessionsOfCurrentPassword ==
  \A s \in Session : sessions[s] # NoSession /\ ~sessions[s].ended =>
    sessions[s].secret = credential[sessions[s].user].secret

\* When a token was used, none that was issued to the App User before it can be
\* used any more, whatever was requested meanwhile (confirmRecovery).
CodesEndTogether ==
  \A c, d \in Issued : codes[c].used /\ codes[c].user = codes[d].user /\ d < c => codes[d].used \/ ~codes[d].kept

=============================================================================
