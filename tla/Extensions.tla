------------------------------- MODULE Extensions -------------------------------
(***************************************************************************)
(* The Extensions of a project (src/internal/extensions): Hooks bound to   *)
(* slots of Collections, with the Secrets and the origins they may use.    *)
(*                                                                         *)
(* A before Hook runs inside a Record request and has a Run but no intent. *)
(* An after-commit Hook is an intent, inserted with its Run by the         *)
(* transaction of the Record; it is invoked once the Record is committed.  *)
(* An intent and its Run change together and are one row here.  Runs of    *)
(* the model stay below the 5,000 that pruneRuns keeps.                    *)
(*                                                                         *)
(* What an administrator revokes is revoked in two steps: the transaction  *)
(* of the request, which cancels what is pending, and afterwards the       *)
(* cancellation of what is being invoked, which is owed until then.        *)
(***************************************************************************)
EXTENDS Integers, FiniteSets

CONSTANTS
  Extension, Collection, Secret, None,
  Intent,       \* bound: intents, each for one Record Event
  Writer,       \* bound: Record requests in a before Hook
  Capacity,     \* size of the semaphore (4)
  MaxEdits,     \* bound: replaced configurations
  MaxVersion,   \* bound: values of a Secret
  MaxStops      \* bound: stops and crashes

ASSUME ExtensionsAssumption ==
  /\ None \notin Secret /\ Intent \cap Writer = {}
  /\ Capacity \in Nat /\ MaxEdits \in Nat /\ MaxVersion \in Nat \ {0} /\ MaxStops \in Nat

Slot == Collection \X {"before", "afterCommit"}
Caller == Intent \cup Writer
Terminal == {"succeeded", "failed", "cancelled", "interrupted"}

VARIABLES
  config,       \* [Extension -> row with its bindings, Secret and origin]
  secrets,      \* [Secret -> version, 0 before it is created, -1 when deleted]
  standing,     \* Collections that exist
  intents,      \* [Intent -> row and what it pins]
  leftRunning,  \* the Run of some before Hook is 'running' and nobody will finish it
  calls,        \* [Caller -> the invocation]
  owed,         \* cancellations of committed requests that have not happened
  edits,        \* the last id given to bindings and grants
  phase,        \* "up", "closed" or "down"
  stops

vars == <<config, secrets, standing, intents, leftRunning, calls, owed, edits, phase, stops>>
administration == <<config, secrets, standing, owed, edits>>
process == <<phase, stops>>

\* The id of the binding of each slot and of the grant of the origin; 0 for none.
NoConfig == [state |-> "none", bindings |-> [s \in Slot |-> 0], secret |-> None, grant |-> 0]
NoPins   == [ext |-> None, slot |-> None, binding |-> 0, secret |-> None, grant |-> 0]
NoIntent == [status |-> "none", pins |-> NoPins]
NoCall   == [stage |-> "none", pins |-> NoPins, version |-> 0, cancelled |-> FALSE]

Init ==
  /\ config = [e \in Extension |-> NoConfig] /\ secrets = [s \in Secret |-> 0]
  /\ standing = Collection /\ edits = 0 /\ owed = {}
  /\ intents = [i \in Intent |-> NoIntent] /\ leftRunning = FALSE
  /\ calls = [c \in Caller |-> NoCall]
  /\ phase = "up" /\ stops = 0

Exists(s)  == secrets[s] > 0
Enabled(e) == config[e].state = "on"
Bound(e)   == {s \in Slot : config[e].bindings[s] # 0}
Busy       == {c \in Caller : calls[c].stage \in {"registered", "invoking"}}

Admitted == Cardinality(Busy) < Capacity

\* What p pins is still there in the configuration c.
Covers(c, p) ==
  /\ c.bindings[p.slot] = p.binding
  /\ p.secret # None => c.secret = p.secret
  /\ p.grant # 0 => c.grant = p.grant

\* The intents of the set become cancelled, if nothing has started them.
CancelPending(set) ==
  intents' = [i \in Intent |-> IF i \in set /\ intents[i].status = "pending"
                                 THEN [intents[i] EXCEPT !.status = "cancelled"]
                                 ELSE intents[i]]
Cancelled(set) ==
  calls' = [c \in Caller |-> IF c \in set THEN [calls[c] EXCEPT !.cancelled = TRUE] ELSE calls[c]]
Of(e)        == {i \in Intent : intents[i].pins.ext = e}
Using(s)     == {i \in Intent : intents[i].pins.secret = s}
Finished(c)  == calls' = [calls EXCEPT ![c] = NoCall]
Settle(i, s) == intents' = [intents EXCEPT ![i].status = s]

(***************************************************************************)
(* Requests of the administrators.                                         *)
(***************************************************************************)
Create(e) ==
  /\ phase = "up" /\ config[e].state = "none"
  /\ config' = [config EXCEPT ![e].state = "off"]
  /\ UNCHANGED <<secrets, standing, intents, leftRunning, calls, owed, edits, process>>

\* Mutant of SlotsFree: another Extension that is enabled may have the slot.
SlotsTaken(e, slots) == TRUE

SlotsFree(e, slots) == \A f \in Extension \ {e} : Enabled(f) => Bound(f) \cap slots = {}

\* Slots and origins that stay keep their ids.
Edited(e, slots, secret, origin) ==
  [config[e] EXCEPT
     !.bindings = [s \in Slot |-> IF s \notin slots THEN 0
                                  ELSE IF @[s] # 0 THEN @[s] ELSE edits + 1],
     !.secret = secret,
     !.grant = IF ~origin THEN 0 ELSE IF @ # 0 THEN @ ELSE edits + 1]

\* validateConfig and validateConfigInTransaction: the Collections and the Secret exist.
ValidSlots   == SUBSET {s \in Slot : s[1] \in standing}
ValidSecrets == {s \in Secret : Exists(s)} \cup {None}

Replace(e) ==
  /\ phase = "up" /\ config[e].state # "none" /\ edits < MaxEdits /\ edits' = edits + 1
  /\ \E slots \in ValidSlots, origin \in BOOLEAN, secret \in ValidSecrets :
       /\ Enabled(e) => SlotsFree(e, slots)
       /\ config' = [config EXCEPT ![e] = Edited(e, slots, secret, origin)]
  /\ CancelPending({i \in Of(e) : ~Covers(config'[e], intents[i].pins)})
  /\ owed' = owed \cup {[why |-> "replaced", of |-> e, seen |-> NoConfig]}
  /\ UNCHANGED <<secrets, standing, leftRunning, calls, process>>

Enable(e) ==
  /\ phase = "up" /\ config[e].state = "off" /\ SlotsFree(e, Bound(e))
  /\ config' = [config EXCEPT ![e].state = "on"]
  /\ UNCHANGED <<secrets, standing, intents, leftRunning, calls, owed, edits, process>>

Disable(e) ==
  /\ phase = "up" /\ config[e].state = "on"
  /\ config' = [config EXCEPT ![e].state = "off"]
  /\ CancelPending(Of(e))
  /\ owed' = owed \cup {[why |-> "disabled", of |-> e, seen |-> NoConfig]}
  /\ UNCHANGED <<secrets, standing, leftRunning, calls, edits, process>>

CreateSecret(s) ==
  /\ phase = "up" /\ secrets[s] = 0 /\ secrets' = [secrets EXCEPT ![s] = 1]
  /\ UNCHANGED <<config, standing, intents, leftRunning, calls, owed, edits, process>>

ReplaceSecretValue(s) ==
  /\ phase = "up" /\ Exists(s) /\ secrets[s] < MaxVersion
  /\ secrets' = [secrets EXCEPT ![s] = @ + 1]
  /\ CancelPending(Using(s))
  /\ owed' = owed \cup {[why |-> "secret", of |-> s, seen |-> NoConfig]}
  /\ UNCHANGED <<config, standing, leftRunning, calls, edits, process>>

\* The bindings of the Secret go with it.
DeleteSecret(s) ==
  /\ phase = "up" /\ Exists(s) /\ secrets' = [secrets EXCEPT ![s] = -1]
  /\ config' = [e \in Extension |-> IF config[e].secret = s THEN [config[e] EXCEPT !.secret = None]
                                    ELSE config[e]]
  /\ CancelPending(Using(s))
  /\ owed' = owed \cup {[why |-> "secret", of |-> s, seen |-> NoConfig]}
  /\ UNCHANGED <<standing, leftRunning, calls, edits, process>>

\* The bindings go with their Collection; the Extensions are not told.
DeleteCollection(c) ==
  /\ phase = "up" /\ c \in standing /\ standing' = standing \ {c}
  /\ config' = [e \in Extension |-> [config[e] EXCEPT
                  !.bindings = [s \in Slot |-> IF s[1] = c THEN 0 ELSE @[s]]]]
  /\ UNCHANGED <<secrets, intents, leftRunning, calls, owed, edits, process>>

\* The read of cancelIncompatibleActive.  When it fails, everything of the Extension is cancelled.
ReadConfiguration(o) ==
  /\ o \in owed /\ o.why = "replaced"
  /\ \E n \in {[why |-> "read", of |-> o.of, seen |-> config[o.of]],
               [why |-> "disabled", of |-> o.of, seen |-> NoConfig]} :
       /\ phase = "closed" => n.why = "disabled"
       /\ owed' = (owed \ {o}) \cup {n}
  /\ UNCHANGED <<config, secrets, standing, edits, intents, leftRunning, calls, process>>

\* Mutant of Incompatible: the grants of the origins are not compared.
IncompatibleBinding(p, seen) ==
  seen.bindings[p.slot] # p.binding \/ (p.secret # None /\ seen.secret # p.secret)

Incompatible(p, seen) == ~Covers(seen, p)

CancelActive(o) ==
  /\ o \in owed /\ o.why # "replaced" /\ owed' = owed \ {o}
  /\ Cancelled({c \in Busy : CASE o.why = "secret"   -> calls[c].pins.secret = o.of
                               [] o.why = "disabled" -> calls[c].pins.ext = o.of
                               [] o.why = "read"     -> /\ calls[c].pins.ext = o.of
                                                        /\ Incompatible(calls[c].pins, o.seen)})
  /\ UNCHANGED <<config, secrets, standing, edits, intents, leftRunning, process>>

(***************************************************************************)
(* Before Hooks.                                                           *)
(***************************************************************************)
\* The binding is found and the Run is inserted: what happens between them shows in CheckBinding.
Before(w) ==
  /\ phase # "down" /\ calls[w] = NoCall
  /\ \E e \in Extension, s \in Slot :
       /\ Enabled(e) /\ s \in Bound(e) /\ s[2] = "before"
       /\ calls' = [calls EXCEPT ![w] =
            [NoCall EXCEPT !.stage = "started",
               !.pins = [NoPins EXCEPT !.ext = e, !.slot = s, !.binding = config[e].bindings[s]]]]
  /\ UNCHANGED <<administration, intents, leftRunning, process>>

\* The Run gets its outcome, unless the Service has been closed.
FinishBefore(w) ==
  /\ Finished(w)
  /\ leftRunning' = (leftRunning \/ phase = "closed")

RegisterBefore(w) ==
  /\ w \in Writer /\ calls[w].stage = "started"
  /\ IF Admitted /\ phase = "up"
       THEN calls' = [calls EXCEPT ![w].stage = "registered"] /\ UNCHANGED leftRunning
       ELSE FinishBefore(w)
  /\ UNCHANGED <<administration, intents, process>>

CheckBinding(w) ==
  LET p == calls[w].pins
  IN /\ w \in Writer /\ calls[w].stage = "registered"
     /\ IF ~calls[w].cancelled /\ Enabled(p.ext) /\ config[p.ext].bindings[p.slot] = p.binding
          THEN calls' = [calls EXCEPT ![w].stage = "invoking"] /\ UNCHANGED leftRunning
          ELSE FinishBefore(w)
     /\ UNCHANGED <<administration, intents, process>>

EndBefore(w) ==
  /\ w \in Writer /\ calls[w].stage = "invoking" /\ FinishBefore(w)
  /\ UNCHANGED <<administration, intents, process>>

(***************************************************************************)
(* After-commit Hooks.                                                     *)
(***************************************************************************)
\* In the transaction of the Record, which then calls AfterCommit.
AppendIntent(i) ==
  /\ phase # "down" /\ intents[i] = NoIntent
  /\ \E e \in Extension, s \in Slot :
       /\ Enabled(e) /\ s \in Bound(e) /\ s[2] = "afterCommit"
       /\ intents' = [intents EXCEPT ![i] =
            [status |-> "pending",
             pins |-> [ext |-> e, slot |-> s, binding |-> config[e].bindings[s],
                       secret |-> config[e].secret, grant |-> config[e].grant]]]
  /\ calls' = [calls EXCEPT ![i].stage = "committed"]
  /\ UNCHANGED <<administration, leftRunning, process>>

AfterCommit(i) ==
  /\ calls[i].stage = "committed"
  /\ IF phase = "closed" \/ intents[i].status # "pending"
       THEN Finished(i) /\ UNCHANGED intents
       ELSE IF Admitted
       THEN /\ calls' = [calls EXCEPT ![i].stage = "registered", ![i].pins = intents[i].pins]
            /\ UNCHANGED intents
       ELSE Finished(i) /\ Settle(i, "failed")
  /\ UNCHANGED <<administration, leftRunning, process>>

\* Mutant of Startable: the status is not asked for again.
StartableByAuthority(i) ==
  LET p == intents[i].pins
  IN Enabled(p.ext) /\ config[p.ext].bindings[p.slot] = p.binding

Startable(i) ==
  LET p == intents[i].pins
  IN /\ intents[i].status = "pending" /\ Enabled(p.ext)
     /\ config[p.ext].bindings[p.slot] = p.binding
     /\ p.secret # None => Exists(p.secret)
     /\ p.grant # 0 => config[p.ext].grant = p.grant

\* What is refused here keeps its status: a conflict and a cancelled context are not recorded.
StartAfter(i) ==
  LET s == calls[i].pins.secret
  IN /\ i \in Intent /\ calls[i].stage = "registered"
     /\ IF ~calls[i].cancelled /\ Startable(i)
          THEN /\ Settle(i, "running")
               /\ calls' = [calls EXCEPT ![i].stage = "invoking",
                                         ![i].version = IF s = None THEN 0 ELSE secrets[s]]
          ELSE Finished(i) /\ UNCHANGED intents
     /\ UNCHANGED <<administration, leftRunning, process>>

\* The transaction of startAfter fails: nothing was started.
StartAfterFails(i) ==
  /\ i \in Intent /\ calls[i].stage = "registered" /\ Finished(i)
  /\ IF phase = "up" /\ intents[i].status = "pending" THEN Settle(i, "failed") ELSE UNCHANGED intents
  /\ UNCHANGED <<administration, leftRunning, process>>

\* A Hook that was cancelled may have ended before it noticed.
Outcomes(c) == {"succeeded", "failed"} \cup (IF calls[c].cancelled THEN {"cancelled"} ELSE {})

\* A closed Service records nothing.
FinishAfter(i) ==
  /\ i \in Intent /\ calls[i].stage = "invoking" /\ Finished(i)
  /\ \/ /\ phase = "up"
        /\ \E s \in Outcomes(i) : Settle(i, s)
     \/ phase = "closed" /\ UNCHANGED intents
  /\ UNCHANGED <<administration, leftRunning, process>>

(***************************************************************************)
(* The process.                                                            *)
(***************************************************************************)
Close ==
  /\ phase = "up" /\ phase' = "closed" /\ Cancelled(Busy)
  /\ UNCHANGED <<administration, intents, leftRunning, stops>>

\* A crash, or the end of a process that was closed and waited for as long as it could.
Stop ==
  /\ phase # "down" /\ stops < MaxStops /\ stops' = stops + 1
  /\ phase' = "down" /\ owed' = {}
  /\ leftRunning' = (leftRunning \/ \E w \in Writer : calls[w] # NoCall)
  /\ calls' = [c \in Caller |-> NoCall]
  /\ UNCHANGED <<config, secrets, standing, edits, intents>>

Interrupted(i) == intents[i].status \in {"pending", "running"}

\* interruptPending: the Run of a before Hook has no intent, and its NULL is scanned into a string.
RowsRead == ~leftRunning

Start ==
  /\ phase = "down" /\ RowsRead /\ phase' = "up"
  /\ intents' = [i \in Intent |-> IF Interrupted(i) THEN [intents[i] EXCEPT !.status = "interrupted"]
                                  ELSE intents[i]]
  /\ UNCHANGED <<administration, leftRunning, calls, stops>>

Administer ==
  \/ \E e \in Extension : Create(e) \/ Replace(e) \/ Enable(e) \/ Disable(e)
  \/ \E s \in Secret : CreateSecret(s) \/ ReplaceSecretValue(s) \/ DeleteSecret(s)
  \/ \E c \in Collection : DeleteCollection(c)
  \/ \E o \in owed : ReadConfiguration(o) \/ CancelActive(o)

Next ==
  \/ Administer
  \/ \E w \in Writer : Before(w) \/ RegisterBefore(w) \/ CheckBinding(w) \/ EndBefore(w)
  \/ \E i \in Intent : \/ AppendIntent(i) \/ AfterCommit(i) \/ StartAfter(i)
                       \/ StartAfterFails(i) \/ FinishAfter(i)
  \/ Close \/ Stop \/ Start

Spec == Init /\ [][Next]_vars

\* The supervisor starts the Runtime again, and the start completes if it can.
FairSpec == Spec /\ WF_vars(Start)

(***************************************************************************)
(* Properties.                                                             *)
(***************************************************************************)
Pins ==
  [ext : Extension \cup {None}, slot : Slot \cup {None}, binding : 0 .. MaxEdits,
   secret : Secret \cup {None}, grant : 0 .. MaxEdits]

\* Shape of the rows and of the invocations; never more of them than the semaphore has places.
TypeOK ==
  /\ config \in [Extension -> [state : {"none", "off", "on"}, bindings : [Slot -> 0 .. MaxEdits],
                               secret : Secret \cup {None}, grant : 0 .. MaxEdits]]
  /\ secrets \in [Secret -> -1 .. MaxVersion] /\ standing \subseteq Collection
  /\ intents \in [Intent -> [status : {"none", "pending", "running"} \cup Terminal, pins : Pins]]
  /\ leftRunning \in BOOLEAN /\ edits \in 0 .. MaxEdits /\ stops \in 0 .. MaxStops
  /\ calls \in [Caller -> [stage : {"none", "started", "committed", "registered", "invoking"},
                           pins : Pins, version : 0 .. MaxVersion, cancelled : BOOLEAN]]
  /\ phase \in {"up", "closed", "down"}
  /\ \A e \in Extension : config[e].secret # None => Exists(config[e].secret)
  /\ Cardinality(Busy) <= Capacity

\* A change of a Record has at most one Hook in a phase: no two Extensions that are enabled, and
\* were configured and enabled by requests that ran side by side, have the same slot.
OneHookPerSlot ==
  \A e, f \in Extension : e # f /\ Enabled(e) /\ Enabled(f) => Bound(e) \cap Bound(f) = {}

\* Its Collection was deleted while it ran, and its binding with it.  DeleteCollection cancels
\* nothing, though docs/specs/0005-extension-runtime-domain-spec.md, section 5, has it that
\* removing a pinned Binding does and "in-flight work receives cancellation".
Stranded(p) == p.slot[1] \notin standing

\* What an invocation that nobody has cancelled acts with, in the configuration of now.
Authorized(c) ==
  LET p == calls[c].pins
  IN /\ Enabled(p.ext)
     /\ Stranded(p) \/ config[p.ext].bindings[p.slot] = p.binding
     /\ p.grant # 0 => config[p.ext].grant = p.grant
     /\ p.secret # None => config[p.ext].secret = p.secret /\ secrets[p.secret] = calls[c].version

\* A Hook goes on running with a binding, a grant or the value of a Secret that was taken away only
\* until the request that took it away has cancelled it.  A binding that went with its Collection
\* is the exception, Stranded: that Hook goes on to its end.
RevokedIsCancelled ==
  \A c \in Caller : calls[c].stage = "invoking" /\ ~calls[c].cancelled =>
    Authorized(c) \/ \E o \in owed : o.of \in {calls[c].pins.ext, calls[c].pins.secret}

\* An intent is invoked once: what is settled, by its end or because it was cancelled or
\* interrupted before, stays as it is, and what runs does not become pending again.
IntentsStand ==
  [][\A i \in Intent :
       /\ intents[i].status \in Terminal => intents'[i] = intents[i]
       /\ intents[i].status = "running" => intents'[i].status \in Terminal \cup {"running"}]_vars

\* docs/specs/0005-extension-runtime-domain-spec.md, section 5: "Startup marks every leftover
\* running or pending intent interrupted".  A project that was stopped is started again.
StartsAgain == phase = "down" ~> phase = "up"
=================================================================================
