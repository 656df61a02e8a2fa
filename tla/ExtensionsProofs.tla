---------------------------- MODULE ExtensionsProofs ----------------------------
(***************************************************************************)
(* Proofs about Extensions, for any number of Extensions, Collections,     *)
(* Secrets, Record requests and intents and for any size of the semaphore. *)
(*                                                                         *)
(* A Hook that is running is examined against four things that can be      *)
(* taken away from it: that its Extension is enabled, what it pins, the    *)
(* Secret that its Extension has, and the value of that Secret.  For each  *)
(* of them the inductive invariant names the cancellations that may be     *)
(* owed while it is missing (Owing, Due).  One does not stand in for       *)
(* another: a request that replaced a configuration and finds in it what   *)
(* the Hook pins does not cancel a Hook whose Extension was disabled.      *)
(***************************************************************************)
EXTENDS Extensions, TLAPS, FiniteSetTheorems

USE ExtensionsAssumption

Config == [state : {"none", "off", "on"}, bindings : [Slot -> 0 .. MaxEdits],
           secret : Secret \cup {None}, grant : 0 .. MaxEdits]
Row    == [status : {"none", "pending", "running"} \cup Terminal, pins : Pins]
Call   == [stage : {"none", "started", "committed", "registered", "invoking"},
           pins : Pins, version : 0 .. MaxVersion, cancelled : BOOLEAN]

OwedTyped ==
  \A o \in owed : /\ o.why \in {"replaced", "read", "disabled", "secret"}
                  /\ o.why = "replaced" => o.of \in Extension

(* What each step of an invocation has behind it. *)
Placed ==
  /\ phase = "down" => \A c \in Caller : calls[c] = NoCall
  /\ \A c \in Caller : calls[c].stage \in {"started", "registered", "invoking"} =>
       calls[c].pins.ext \in Extension /\ calls[c].pins.slot \in Slot
  /\ \A w \in Writer : calls[w].pins.secret = None /\ calls[w].pins.grant = 0
  /\ \A i \in Intent : intents[i].status # "none" =>
       intents[i].pins.ext \in Extension /\ intents[i].pins.slot \in Slot
  /\ \A i \in Intent : calls[i].stage \in {"registered", "invoking"} =>
       calls[i].pins = intents[i].pins /\ intents[i].status # "none"
  /\ \A i \in Intent : calls[i].stage = "invoking" => intents[i].status = "running"

(* A pending intent would have been cancelled with the Secret of its Extension. *)
PendingStands ==
  \A i \in Intent : LET p == intents[i].pins
                    IN intents[i].status = "pending" /\ p.secret # None => config[p.ext].secret = p.secret

Running(c) == calls[c].stage = "invoking" /\ ~calls[c].cancelled

(* A cancellation that will reach an invocation that pins p. *)
Due(p) ==
  \E o \in owed : \/ o.why = "secret" /\ o.of = p.secret
                  \/ o.why \in {"replaced", "disabled"} /\ o.of = p.ext
                  \/ o.why = "read" /\ o.of = p.ext /\ ~Covers(o.seen, p)

EnabledOrDue(p) == Enabled(p.ext) \/ \E o \in owed : o.why = "disabled" /\ o.of = p.ext
CoveredOrDue(p) ==
  /\ Stranded(p) \/ config[p.ext].bindings[p.slot] = p.binding \/ Due(p)
  /\ p.grant # 0 => config[p.ext].grant = p.grant \/ Due(p)
SecretOrDue(p)  == p.secret # None => config[p.ext].secret = p.secret \/ Due(p)
VersionOrDue(p, version) ==
  p.secret # None => /\ version > 0
                     /\ \/ secrets[p.secret] = version
                        \/ \E o \in owed : o.why = "secret" /\ o.of = p.secret

OwingOf(p, version) ==
  EnabledOrDue(p) /\ CoveredOrDue(p) /\ SecretOrDue(p) /\ VersionOrDue(p, version)

Owing == \A c \in Caller : Running(c) => OwingOf(calls[c].pins, calls[c].version)

IInv == TypeOK /\ IsFiniteSet(Busy) /\ OwedTyped /\ OneHookPerSlot /\ Placed /\ PendingStands /\ Owing

-----------------------------------------------------------------------------
(* Rows and invocations. *)

LEMMA Types ==
  ASSUME TypeOK
  PROVE  /\ config \in [Extension -> Config] /\ secrets \in [Secret -> -1 .. MaxVersion]
         /\ intents \in [Intent -> Row] /\ calls \in [Caller -> Call]
         /\ edits \in 0 .. MaxEdits
         /\ \A e \in Extension : config[e].secret # None => Exists(config[e].secret)
         /\ Cardinality(Busy) <= Capacity
  BY DEF TypeOK, Config, Row, Call

LEMMA NoneTyped ==
  /\ NoPins \in Pins /\ NoPins.secret = None /\ NoPins.grant = 0
  /\ NoCall \in Call /\ NoCall.stage = "none" /\ NoCall.pins = NoPins
  /\ NoIntent \in Row /\ NoIntent.status = "none" /\ NoIntent.pins = NoPins
  /\ NoConfig \in Config /\ NoConfig.state = "none" /\ NoConfig.secret = None
  /\ \A s \in Slot : NoConfig.bindings[s] = 0
  <1>1. 0 \in 0 .. MaxEdits /\ 0 \in 0 .. MaxVersion
    OBVIOUS
  <1>2. NoPins \in Pins /\ NoPins.secret = None /\ NoPins.grant = 0
    BY <1>1 DEF NoPins, Pins
  <1>3. NoCall \in Call /\ NoCall.stage = "none" /\ NoCall.pins = NoPins
    BY <1>1, <1>2 DEF NoCall, Call
  <1>4. NoIntent \in Row /\ NoIntent.status = "none" /\ NoIntent.pins = NoPins
    BY <1>2 DEF NoIntent, Row
  <1>5. /\ NoConfig \in Config /\ NoConfig.state = "none" /\ NoConfig.secret = None
        /\ \A s \in Slot : NoConfig.bindings[s] = 0
    BY <1>1 DEF NoConfig, Config
  <1> QED
    BY <1>2, <1>3, <1>4, <1>5

(* Cancelling touches what is pending and changes nothing but its status. *)
LEMMA PendingCancelled ==
  ASSUME TypeOK, NEW set, CancelPending(set)
  PROVE  /\ intents' \in [Intent -> Row]
         /\ \A i \in Intent : intents'[i].pins = intents[i].pins
         /\ \A i \in Intent : intents'[i].status = "pending" => intents[i].status = "pending" /\ i \notin set
         /\ \A i \in Intent : intents[i].status # "pending" => intents'[i] = intents[i]
         /\ \A i \in Intent : intents[i].status = "none" <=> intents'[i].status = "none"
  <1>1. intents \in [Intent -> Row]
    BY Types
  <1>2. "cancelled" \in Terminal
    BY DEF Terminal
  <1>3. ASSUME NEW i \in Intent
        PROVE  /\ [intents[i] EXCEPT !.status = "cancelled"] \in Row
               /\ [intents[i] EXCEPT !.status = "cancelled"].pins = intents[i].pins
               /\ [intents[i] EXCEPT !.status = "cancelled"].status = "cancelled"
    BY <1>1, <1>2 DEF Row
  <1>4. \A i \in Intent : intents'[i] = IF i \in set /\ intents[i].status = "pending"
                                         THEN [intents[i] EXCEPT !.status = "cancelled"] ELSE intents[i]
    BY DEF CancelPending
  <1>5. intents' \in [Intent -> Row]
    BY <1>1, <1>3 DEF CancelPending
  <1> QED
    BY <1>3, <1>4, <1>5

LEMMA CallsCancelled ==
  ASSUME TypeOK, NEW set, Cancelled(set)
  PROVE  /\ calls' \in [Caller -> Call]
         /\ \A c \in Caller : /\ calls'[c].stage = calls[c].stage /\ calls'[c].pins = calls[c].pins
                              /\ calls'[c].version = calls[c].version
                              /\ c \in set => calls'[c].cancelled
                              /\ c \notin set => calls'[c] = calls[c]
                              /\ ~calls'[c].cancelled => ~calls[c].cancelled
                              /\ calls[c] = NoCall /\ c \notin set => calls'[c] = NoCall
  <1>1. calls \in [Caller -> Call]
    BY Types
  <1>2. ASSUME NEW c \in Caller
        PROVE  LET r == [calls[c] EXCEPT !.cancelled = TRUE]
               IN /\ r \in Call /\ r.stage = calls[c].stage /\ r.pins = calls[c].pins
                  /\ r.version = calls[c].version /\ r.cancelled = TRUE
    BY <1>1 DEF Call
  <1>3. \A c \in Caller : calls'[c] = IF c \in set THEN [calls[c] EXCEPT !.cancelled = TRUE] ELSE calls[c]
    BY DEF Cancelled
  <1>4. calls' \in [Caller -> Call]
    BY <1>1, <1>2 DEF Cancelled
  <1> QED
    BY <1>2, <1>3, <1>4

LEMMA BusyKept ==
  ASSUME \A c \in Caller : calls'[c].stage = calls[c].stage
  PROVE  Busy' = Busy
  BY DEF Busy

(* The semaphore: an invocation enters when there is a place. *)
LEMMA BusyMoves ==
  ASSUME TypeOK, IsFiniteSet(Busy), NEW c \in Caller,
         \A d \in Caller : d # c => calls'[d] = calls[d],
         Admitted \/ c \in Busy \/ calls'[c].stage \notin {"registered", "invoking"}
  PROVE  IsFiniteSet(Busy)' /\ (Cardinality(Busy) <= Capacity)'
  <1>1. Cardinality(Busy) \in Nat /\ Cardinality(Busy) <= Capacity
    BY Types, FS_CardinalityType
  <1> DEFINE B == Busy
             D == Busy'
  <1>2. D \in SUBSET (B \cup {c})
    BY DEF Busy
  <1>3. /\ IsFiniteSet(B \cup {c})
        /\ Cardinality(B \cup {c}) = IF c \in B THEN Cardinality(B) ELSE Cardinality(B) + 1
    BY FS_AddElement, ZenonT(20)
  <1>4. /\ IsFiniteSet(D) /\ Cardinality(D) <= Cardinality(B \cup {c})
        /\ D \in SUBSET B => Cardinality(D) <= Cardinality(B)
    BY <1>2, <1>3, FS_Subset
  <1>5. Cardinality(D) \in Nat /\ Cardinality(B \cup {c}) \in Nat
    BY <1>3, <1>4, FS_CardinalityType
  <1>6. CASE Admitted
    <2>1. Cardinality(B) < Capacity
      BY <1>6 DEF Admitted
    <2> HIDE DEF B, D
    <2>2. Cardinality(D) <= Capacity
      BY <1>1, <1>3, <1>4, <1>5, <2>1 DEF B
    <2> QED
      BY <1>4, <2>2 DEF D
  <1>7. CASE ~Admitted
    <2>1. D \in SUBSET B
      BY <1>7 DEF Busy
    <2> HIDE DEF B, D
    <2>2. Cardinality(D) <= Capacity
      BY <1>1, <1>4, <1>5, <2>1 DEF B
    <2> QED
      BY <1>4, <2>2 DEF D
  <1> QED
    BY <1>6, <1>7

-----------------------------------------------------------------------------
(* Requests of the administrators: nobody is invoked or ends. *)

LEMMA AdministratorStep ==
  ASSUME IInv, UNCHANGED <<calls, phase>>, TypeOK', OneHookPerSlot', OwedTyped', PendingStands',
         \A i \in Intent : intents'[i].pins = intents[i].pins,
         \A i \in Intent : intents[i].status # "pending" => intents'[i] = intents[i],
         \A i \in Intent : intents[i].status = "none" <=> intents'[i].status = "none",
         \A p \in Pins, version \in 0 .. MaxVersion :
           p.ext \in Extension /\ p.slot \in Slot /\ OwingOf(p, version) => OwingOf(p, version)'
  PROVE  IInv'
  <1>1. Busy' = Busy
    BY BusyKept
  <1>2. IsFiniteSet(Busy)'
    BY <1>1 DEF IInv
  <1>3. Placed'
    BY DEF IInv, Placed
  <1>4. calls \in [Caller -> Call]
    BY Types DEF IInv
  <1>5. ASSUME NEW c \in Caller, Running(c)'
        PROVE  OwingOf(calls[c].pins, calls[c].version)'
    <2>1. Running(c)
      BY <1>5 DEF Running
    <2>2. PICK p, version : p = calls[c].pins /\ version = calls[c].version
      OBVIOUS
    <2>3. p \in Pins /\ version \in 0 .. MaxVersion
      BY <1>4, <2>2 DEF Call
    <2>4. p.ext \in Extension /\ p.slot \in Slot
      BY <2>1, <2>2 DEF IInv, Placed, Running
    <2>5. OwingOf(p, version)
      BY <2>1, <2>2 DEF IInv, Owing
    <2>6. OwingOf(p, version)'
      BY <2>3, <2>4, <2>5
    <2> QED
      BY <2>2, <2>6
  <1> QED
    BY <1>2, <1>3, <1>5 DEF IInv, Owing

(* Requests that leave the intents alone. *)
LEMMA IntentsAlone ==
  ASSUME IInv, UNCHANGED intents
  PROVE  /\ \A i \in Intent : intents'[i].pins = intents[i].pins
         /\ \A i \in Intent : intents[i].status # "pending" => intents'[i] = intents[i]
         /\ \A i \in Intent : intents[i].status = "none" <=> intents'[i].status = "none"
  OBVIOUS

LEMMA SwitchStep ==
  ASSUME IInv, NEW e \in Extension, Create(e) \/ Enable(e)
  PROVE  IInv'
  <1>1. PICK state \in {"off", "on"} :
          /\ config' = [config EXCEPT ![e].state = state]
          /\ state = "off" => config[e].state = "none"
          /\ state = "on"  => SlotsFree(e, Bound(e))
    BY DEF Create, Enable
  <1>2. UNCHANGED <<secrets, standing, intents, leftRunning, calls, owed, edits, phase, stops>>
    BY DEF Create, Enable, process
  <1>3. /\ config \in [Extension -> Config]
        /\ \A f \in Extension : config[f].secret # None => Exists(config[f].secret)
    BY Types DEF IInv
  <1>4. /\ config' \in [Extension -> Config]
        /\ \A f \in Extension : /\ config'[f].bindings = config[f].bindings
                                /\ config'[f].secret = config[f].secret
                                /\ config'[f].grant = config[f].grant
                                /\ config'[f].state = IF f = e THEN state ELSE config[f].state
    <2>1. [config[e] EXCEPT !.state = state] \in Config
      BY <1>3 DEF Config
    <2> QED
      BY <1>1, <1>3, <2>1 DEF Config
  <1>5. TypeOK'
    <2>1. Busy' = Busy
      BY <1>2, BusyKept
    <2> QED
      BY <1>2, <1>3, <1>4, <2>1 DEF IInv, TypeOK, Config, Exists
  <1>6. OneHookPerSlot'
    BY <1>1, <1>4 DEF IInv, OneHookPerSlot, Enabled, Bound, SlotsFree
  <1>7. OwedTyped' /\ PendingStands'
    <2>1. \A i \in Intent : intents[i].status = "pending" => intents[i].pins.ext \in Extension
      BY DEF IInv, Placed
    <2> QED
      BY <1>2, <1>4, <2>1 DEF IInv, OwedTyped, PendingStands
  <1>8. ASSUME NEW p \in Pins, NEW version \in 0 .. MaxVersion, p.ext \in Extension, OwingOf(p, version)
        PROVE  OwingOf(p, version)'
    <2>1. EnabledOrDue(p)'
      BY <1>1, <1>2, <1>4, <1>8 DEF OwingOf, EnabledOrDue, Enabled
    <2>2. Due(p)' <=> Due(p)
      BY <1>2 DEF Due
    <2>3. Covers(config'[p.ext], p) <=> Covers(config[p.ext], p)
      BY <1>4, <1>8 DEF Covers
    <2> QED
      BY <1>2, <1>4, <1>8, <2>1, <2>2, <2>3 DEF OwingOf, CoveredOrDue, Stranded, SecretOrDue, VersionOrDue
  <1> QED
    BY <1>2, <1>5, <1>6, <1>7, <1>8, IntentsAlone, AdministratorStep

LEMMA DisableStep ==
  ASSUME IInv, NEW e \in Extension, Disable(e)
  PROVE  IInv'
  <1>1. /\ config' = [config EXCEPT ![e].state = "off"] /\ CancelPending(Of(e))
        /\ owed' = owed \cup {[why |-> "disabled", of |-> e, seen |-> NoConfig]}
        /\ UNCHANGED <<secrets, standing, leftRunning, calls, edits, phase, stops>>
    BY DEF Disable, process
  <1>2. /\ config \in [Extension -> Config]
        /\ \A f \in Extension : config[f].secret # None => Exists(config[f].secret)
    BY Types DEF IInv
  <1>3. /\ config' \in [Extension -> Config]
        /\ \A f \in Extension : /\ config'[f].bindings = config[f].bindings
                                /\ config'[f].secret = config[f].secret
                                /\ config'[f].grant = config[f].grant
                                /\ config'[f].state = IF f = e THEN "off" ELSE config[f].state
    <2>1. [config[e] EXCEPT !.state = "off"] \in Config
      BY <1>2 DEF Config
    <2> QED
      BY <1>1, <1>2, <2>1 DEF Config
  <1>4. PICK set : set = Of(e)
    OBVIOUS
  <1>5. /\ intents' \in [Intent -> Row]
        /\ \A i \in Intent : intents'[i].pins = intents[i].pins
        /\ \A i \in Intent : intents'[i].status = "pending" => intents[i].status = "pending"
        /\ \A i \in Intent : intents[i].status # "pending" => intents'[i] = intents[i]
        /\ \A i \in Intent : intents[i].status = "none" <=> intents'[i].status = "none"
    BY <1>1, <1>4, PendingCancelled DEF IInv
  <1>6. TypeOK'
    <2>1. Busy' = Busy
      BY <1>1, BusyKept
    <2> QED
      BY <1>1, <1>2, <1>3, <1>5, <2>1 DEF IInv, TypeOK, Config, Row, Exists
  <1>7. OneHookPerSlot'
    BY <1>3 DEF IInv, OneHookPerSlot, Enabled, Bound
  <1>8. OwedTyped' /\ PendingStands'
    <2>1. \A i \in Intent : intents[i].status = "pending" => intents[i].pins.ext \in Extension
      BY DEF IInv, Placed
    <2> QED
      BY <1>1, <1>3, <1>5, <2>1 DEF IInv, OwedTyped, PendingStands
  <1>9. ASSUME NEW p \in Pins, NEW version \in 0 .. MaxVersion, p.ext \in Extension, OwingOf(p, version)
        PROVE  OwingOf(p, version)'
    <2> DEFINE o == [why |-> "disabled", of |-> e, seen |-> NoConfig]
    <2>4. o \in owed' /\ o.why = "disabled" /\ o.of = e /\ owed \subseteq owed'
      BY <1>1
    <2> HIDE DEF o
    <2>1. EnabledOrDue(p)'
      BY <1>3, <1>9, <2>4 DEF OwingOf, EnabledOrDue, Enabled
    <2>2. Due(p) => Due(p)'
      BY <1>1 DEF Due
    <2>3. Covers(config'[p.ext], p) <=> Covers(config[p.ext], p)
      BY <1>3, <1>9 DEF Covers
    <2> QED
      BY <1>1, <1>3, <1>9, <2>1, <2>2, <2>3 DEF OwingOf, CoveredOrDue, Stranded, SecretOrDue, VersionOrDue
  <1> QED
    BY <1>1, <1>5, <1>6, <1>7, <1>8, <1>9, AdministratorStep

(* A new configuration: slots and origins that stay keep their ids. *)
LEMMA EditedConfig ==
  ASSUME TypeOK, edits < MaxEdits, NEW e \in Extension, NEW slots \in SUBSET Slot,
         NEW secret \in Secret \cup {None}, NEW origin \in BOOLEAN
  PROVE  /\ Edited(e, slots, secret, origin) \in Config
         /\ \A s \in Slot : Edited(e, slots, secret, origin).bindings[s] # 0 <=> s \in slots
  <1> PICK new : new = Edited(e, slots, secret, origin)
    OBVIOUS
  <1> DEFINE bindings == [s \in Slot |-> IF s \notin slots THEN 0
                                         ELSE IF config[e].bindings[s] # 0 THEN config[e].bindings[s]
                                              ELSE edits + 1]
             grant == IF ~origin THEN 0 ELSE IF config[e].grant # 0 THEN config[e].grant ELSE edits + 1
  <1>1. config[e] \in Config /\ edits \in 0 .. MaxEdits
    BY Types
  <1>2. edits + 1 \in 0 .. MaxEdits /\ edits + 1 # 0
    BY <1>1
  <1>3. config[e].bindings \in [Slot -> 0 .. MaxEdits] /\ config[e].grant \in 0 .. MaxEdits
    BY <1>1 DEF Config
  <1>4. bindings \in [Slot -> 0 .. MaxEdits] /\ \A s \in Slot : bindings[s] # 0 <=> s \in slots
    BY <1>2, <1>3
  <1>5. grant \in 0 .. MaxEdits
    BY <1>2, <1>3
  <1>6. new = [config[e] EXCEPT !.bindings = bindings, !.secret = secret, !.grant = grant]
    BY <1>1 DEF Edited, Config
  <1> HIDE DEF bindings, grant
  <1>7. [config[e] EXCEPT !.bindings = bindings, !.secret = secret, !.grant = grant] \in Config
    BY <1>1, <1>4, <1>5 DEF Config
  <1> QED
    BY <1>1, <1>4, <1>6, <1>7 DEF Config

LEMMA EditedFields ==
  ASSUME TypeOK, NEW e \in Extension, NEW slots, NEW secret, NEW origin
  PROVE  /\ Edited(e, slots, secret, origin).state = config[e].state
         /\ Edited(e, slots, secret, origin).secret = secret
  <1>1. config[e] \in Config
    BY Types
  <1> QED
    BY <1>1 DEF Edited, Config

LEMMA ReplaceStep ==
  ASSUME IInv, NEW e \in Extension, Replace(e)
  PROVE  IInv'
  <1>1. /\ edits < MaxEdits /\ edits' = edits + 1
        /\ CancelPending({i \in Of(e) : ~Covers(config'[e], intents[i].pins)})
        /\ owed' = owed \cup {[why |-> "replaced", of |-> e, seen |-> NoConfig]}
        /\ UNCHANGED <<secrets, standing, leftRunning, calls, phase, stops>>
    BY DEF Replace, process
  <1>2. SUFFICES ASSUME NEW slots \in SUBSET Slot, NEW origin \in BOOLEAN, NEW secret \in ValidSecrets,
                        Enabled(e) => SlotsFree(e, slots),
                        config' = [config EXCEPT ![e] = Edited(e, slots, secret, origin)]
                 PROVE  IInv'
    BY DEF Replace, ValidSlots
  <1>3. secret \in Secret \cup {None} /\ (secret # None => Exists(secret))
    BY DEF ValidSecrets
  <1>4. TypeOK
    BY DEF IInv
  <1>5. PICK new \in Config : /\ new = Edited(e, slots, secret, origin)
                              /\ new.state = config[e].state /\ new.secret = secret
                              /\ \A s \in Slot : new.bindings[s] # 0 <=> s \in slots
    <2>1. Edited(e, slots, secret, origin) \in Config
      BY <1>1, <1>3, <1>4, EditedConfig
    <2>2. Edited(e, slots, secret, origin).state = config[e].state
      BY <1>4, EditedFields
    <2>3. Edited(e, slots, secret, origin).secret = secret
      BY <1>4, EditedFields
    <2>4. \A s \in Slot : Edited(e, slots, secret, origin).bindings[s] # 0 <=> s \in slots
      BY <1>1, <1>3, <1>4, EditedConfig
    <2> QED
      BY <2>1, <2>2, <2>3, <2>4
  <1>6. /\ config \in [Extension -> Config] /\ edits \in 0 .. MaxEdits
        /\ \A f \in Extension : config[f].secret # None => Exists(config[f].secret)
    BY Types DEF IInv
  <1>7. /\ config' \in [Extension -> Config]
        /\ \A f \in Extension : config'[f] = IF f = e THEN new ELSE config[f]
    BY <1>2, <1>5, <1>6
  <1>8. PICK set : set = {i \in Of(e) : ~Covers(config'[e], intents[i].pins)}
    OBVIOUS
  <1>9. /\ intents' \in [Intent -> Row]
        /\ \A i \in Intent : intents'[i].pins = intents[i].pins
        /\ \A i \in Intent : intents'[i].status = "pending" => intents[i].status = "pending" /\ i \notin set
        /\ \A i \in Intent : intents[i].status # "pending" => intents'[i] = intents[i]
        /\ \A i \in Intent : intents[i].status = "none" <=> intents'[i].status = "none"
    BY <1>1, <1>8, PendingCancelled DEF IInv
  <1>10. TypeOK'
    <2>1. Busy' = Busy
      BY <1>1, BusyKept
    <2>2. edits' \in 0 .. MaxEdits
      BY <1>1, <1>6
    <2>3. \A f \in Extension : config'[f].secret # None => Exists(config'[f].secret)
      BY <1>3, <1>5, <1>6, <1>7
    <2> QED
      BY <1>1, <1>7, <1>9, <2>1, <2>2, <2>3 DEF IInv, TypeOK, Config, Row, Exists
  <1>11. OneHookPerSlot'
    BY <1>2, <1>5, <1>7 DEF IInv, OneHookPerSlot, Enabled, Bound, SlotsFree
  <1>12. OwedTyped'
    BY <1>1 DEF IInv, OwedTyped
  <1>13. PendingStands'
    <2> SUFFICES ASSUME NEW i \in Intent, intents'[i].status = "pending", intents[i].pins.secret # None
                 PROVE  config'[intents[i].pins.ext].secret = intents[i].pins.secret
      BY <1>9 DEF PendingStands
    <2>1. intents[i].status = "pending" /\ i \notin set /\ intents[i].pins.ext \in Extension
      BY <1>9 DEF IInv, Placed
    <2>2. CASE intents[i].pins.ext = e
      BY <1>8, <2>1, <2>2 DEF Of, Covers
    <2>3. CASE intents[i].pins.ext # e
      BY <1>7, <2>1, <2>3 DEF IInv, PendingStands
    <2> QED
      BY <2>2, <2>3
  <1>14. ASSUME NEW p \in Pins, NEW version \in 0 .. MaxVersion, p.ext \in Extension, OwingOf(p, version)
         PROVE  OwingOf(p, version)'
    <2>1. EnabledOrDue(p)'
      BY <1>1, <1>5, <1>7, <1>14 DEF OwingOf, EnabledOrDue, Enabled
    <2>2. Due(p) => Due(p)'
      BY <1>1 DEF Due
    <2>3. VersionOrDue(p, version)'
      BY <1>1, <1>14 DEF OwingOf, VersionOrDue
    <2>4. CASE p.ext = e
      <3> DEFINE o == [why |-> "replaced", of |-> e, seen |-> NoConfig]
      <3>2. o \in owed' /\ o.why = "replaced" /\ o.of = e
        BY <1>1
      <3> HIDE DEF o
      <3>1. Due(p)'
        BY <2>4, <3>2 DEF Due
      <3> QED
        BY <2>1, <2>3, <3>1 DEF OwingOf, CoveredOrDue, Stranded, SecretOrDue
    <2>5. CASE p.ext # e
      <3>1. config'[p.ext] = config[p.ext]
        BY <1>7, <1>14, <2>5
      <3> QED
        BY <1>1, <1>14, <2>1, <2>2, <2>3, <3>1 DEF OwingOf, CoveredOrDue, Stranded, SecretOrDue
    <2> QED
      BY <2>4, <2>5
  <1> QED
    BY <1>1, <1>9, <1>10, <1>11, <1>12, <1>13, <1>14, AdministratorStep

(* Requests about Secrets. *)
LEMMA CreateSecretStep ==
  ASSUME IInv, NEW s \in Secret, CreateSecret(s)
  PROVE  IInv'
  <1>1. /\ secrets[s] = 0 /\ secrets' = [secrets EXCEPT ![s] = 1]
        /\ UNCHANGED <<config, standing, intents, leftRunning, calls, owed, edits, phase, stops>>
    BY DEF CreateSecret, process
  <1>2. /\ secrets \in [Secret -> -1 .. MaxVersion] /\ config \in [Extension -> Config]
        /\ \A f \in Extension : config[f].secret # None => Exists(config[f].secret)
    BY Types DEF IInv
  <1>3. /\ secrets' \in [Secret -> -1 .. MaxVersion]
        /\ \A t \in Secret : secrets'[t] = IF t = s THEN 1 ELSE secrets[t]
    BY <1>1, <1>2
  <1>4. TypeOK'
    <2>1. Busy' = Busy
      BY <1>1, BusyKept
    <2>2. \A f \in Extension : config'[f].secret # None => Exists(config[f].secret)'
      BY <1>1, <1>2, <1>3 DEF Exists, Config
    <2> QED
      BY <1>1, <1>2, <1>3, <2>1, <2>2 DEF IInv, TypeOK, Config, Exists
  <1>5. OneHookPerSlot' /\ OwedTyped' /\ PendingStands'
    BY <1>1 DEF IInv, OneHookPerSlot, OwedTyped, PendingStands, Enabled, Bound
  <1>6. ASSUME NEW p \in Pins, NEW version \in 0 .. MaxVersion, p.ext \in Extension, OwingOf(p, version)
        PROVE  OwingOf(p, version)'
    <2>1. Due(p)' <=> Due(p)
      BY <1>1 DEF Due
    <2>2. EnabledOrDue(p)' /\ CoveredOrDue(p)' /\ SecretOrDue(p)'
      BY <1>1, <1>6, <2>1 DEF OwingOf, EnabledOrDue, CoveredOrDue, Stranded, SecretOrDue, Enabled, Covers
    <2>3. p.secret \in Secret \cup {None}
      BY DEF Pins
    <2>4. VersionOrDue(p, version)'
      BY <1>1, <1>3, <1>6, <2>3 DEF OwingOf, VersionOrDue
    <2> QED
      BY <2>2, <2>4 DEF OwingOf
  <1> QED
    BY <1>1, <1>4, <1>5, <1>6, IntentsAlone, AdministratorStep

LEMMA ReplaceSecretValueStep ==
  ASSUME IInv, NEW s \in Secret, ReplaceSecretValue(s)
  PROVE  IInv'
  <1>1. /\ secrets[s] > 0 /\ secrets[s] < MaxVersion /\ secrets' = [secrets EXCEPT ![s] = secrets[s] + 1]
        /\ CancelPending(Using(s))
        /\ owed' = owed \cup {[why |-> "secret", of |-> s, seen |-> NoConfig]}
        /\ UNCHANGED <<config, standing, leftRunning, calls, edits, phase, stops>>
    BY DEF ReplaceSecretValue, process, Exists
  <1>2. /\ secrets \in [Secret -> -1 .. MaxVersion] /\ config \in [Extension -> Config]
        /\ \A f \in Extension : config[f].secret # None => Exists(config[f].secret)
    BY Types DEF IInv
  <1>3. /\ secrets' \in [Secret -> -1 .. MaxVersion]
        /\ \A t \in Secret : secrets'[t] = IF t = s THEN secrets[s] + 1 ELSE secrets[t]
    BY <1>1, <1>2
  <1>4. PICK set : set = Using(s)
    OBVIOUS
  <1>5. /\ intents' \in [Intent -> Row]
        /\ \A i \in Intent : intents'[i].pins = intents[i].pins
        /\ \A i \in Intent : intents'[i].status = "pending" => intents[i].status = "pending" /\ i \notin set
        /\ \A i \in Intent : intents[i].status # "pending" => intents'[i] = intents[i]
        /\ \A i \in Intent : intents[i].status = "none" <=> intents'[i].status = "none"
    BY <1>1, <1>4, PendingCancelled DEF IInv
  <1>6. TypeOK'
    <2>1. Busy' = Busy
      BY <1>1, BusyKept
    <2>2. \A f \in Extension : config'[f].secret # None => Exists(config[f].secret)'
      BY <1>1, <1>2, <1>3 DEF Exists, Config
    <2> QED
      BY <1>1, <1>2, <1>3, <1>5, <2>1, <2>2 DEF IInv, TypeOK, Config, Row, Exists
  <1>7. OneHookPerSlot' /\ OwedTyped' /\ PendingStands'
    BY <1>1, <1>5 DEF IInv, OneHookPerSlot, OwedTyped, PendingStands, Enabled, Bound
  <1>8. ASSUME NEW p \in Pins, NEW version \in 0 .. MaxVersion, p.ext \in Extension, OwingOf(p, version)
        PROVE  OwingOf(p, version)'
    <2> DEFINE o == [why |-> "secret", of |-> s, seen |-> NoConfig]
    <2>1. o \in owed' /\ o.why = "secret" /\ o.of = s /\ owed \subseteq owed'
      BY <1>1
    <2> HIDE DEF o
    <2>2. Due(p) => Due(p)'
      BY <2>1 DEF Due
    <2>3. EnabledOrDue(p)' /\ CoveredOrDue(p)' /\ SecretOrDue(p)'
      BY <1>1, <1>8, <2>1, <2>2 DEF OwingOf, EnabledOrDue, CoveredOrDue, Stranded, SecretOrDue, Enabled, Covers
    <2>4. p.secret \in Secret \cup {None}
      BY DEF Pins
    <2>5. VersionOrDue(p, version)'
      BY <1>3, <1>8, <2>1, <2>4 DEF OwingOf, VersionOrDue
    <2> QED
      BY <2>3, <2>5 DEF OwingOf
  <1> QED
    BY <1>1, <1>5, <1>6, <1>7, <1>8, AdministratorStep

LEMMA DeleteSecretStep ==
  ASSUME IInv, NEW s \in Secret, DeleteSecret(s)
  PROVE  IInv'
  <1>1. /\ secrets' = [secrets EXCEPT ![s] = -1]
        /\ config' = [e \in Extension |-> IF config[e].secret = s THEN [config[e] EXCEPT !.secret = None]
                                          ELSE config[e]]
        /\ CancelPending(Using(s))
        /\ owed' = owed \cup {[why |-> "secret", of |-> s, seen |-> NoConfig]}
        /\ UNCHANGED <<standing, leftRunning, calls, edits, phase, stops>>
    BY DEF DeleteSecret, process
  <1>2. /\ secrets \in [Secret -> -1 .. MaxVersion] /\ config \in [Extension -> Config]
        /\ \A f \in Extension : config[f].secret # None => Exists(config[f].secret)
    BY Types DEF IInv
  <1>3. /\ secrets' \in [Secret -> -1 .. MaxVersion]
        /\ \A t \in Secret : t # s => secrets'[t] = secrets[t]
    <2>1. -1 \in -1 .. MaxVersion
      OBVIOUS
    <2> QED
      BY <1>1, <1>2, <2>1
  <1>4. /\ config' \in [Extension -> Config]
        /\ \A e \in Extension : /\ config'[e].state = config[e].state
                                /\ config'[e].bindings = config[e].bindings
                                /\ config'[e].grant = config[e].grant
                                /\ config'[e].secret = IF config[e].secret = s THEN None
                                                       ELSE config[e].secret
    <2>1. ASSUME NEW e \in Extension
          PROVE  /\ [config[e] EXCEPT !.secret = None] \in Config
                 /\ [config[e] EXCEPT !.secret = None].state = config[e].state
                 /\ [config[e] EXCEPT !.secret = None].bindings = config[e].bindings
                 /\ [config[e] EXCEPT !.secret = None].grant = config[e].grant
                 /\ [config[e] EXCEPT !.secret = None].secret = None
      BY <1>2 DEF Config
    <2> QED
      BY <1>1, <1>2, <2>1
  <1>5. PICK set : set = Using(s)
    OBVIOUS
  <1>6. /\ intents' \in [Intent -> Row]
        /\ \A i \in Intent : intents'[i].pins = intents[i].pins
        /\ \A i \in Intent : intents'[i].status = "pending" => intents[i].status = "pending" /\ i \notin set
        /\ \A i \in Intent : intents[i].status # "pending" => intents'[i] = intents[i]
        /\ \A i \in Intent : intents[i].status = "none" <=> intents'[i].status = "none"
    BY <1>1, <1>5, PendingCancelled DEF IInv
  <1>7. TypeOK'
    <2>1. Busy' = Busy
      BY <1>1, BusyKept
    <2>2. \A f \in Extension : config'[f].secret # None => Exists(config[f].secret)'
      BY <1>2, <1>3, <1>4 DEF Exists, Config
    <2> QED
      BY <1>1, <1>3, <1>4, <1>6, <2>1, <2>2 DEF IInv, TypeOK, Config, Row, Exists
  <1>8. OneHookPerSlot' /\ OwedTyped'
    BY <1>1, <1>4 DEF IInv, OneHookPerSlot, OwedTyped, Enabled, Bound
  <1>9. PendingStands'
    <2> SUFFICES ASSUME NEW i \in Intent, intents'[i].status = "pending", intents[i].pins.secret # None
                 PROVE  config'[intents[i].pins.ext].secret = intents[i].pins.secret
      BY <1>6 DEF PendingStands
    <2>1. intents[i].status = "pending" /\ i \notin set /\ intents[i].pins.ext \in Extension
      BY <1>6 DEF IInv, Placed
    <2>2. intents[i].pins.secret # s
      BY <1>5, <2>1 DEF Using
    <2> QED
      BY <1>4, <2>1, <2>2 DEF IInv, PendingStands
  <1>10. ASSUME NEW p \in Pins, NEW version \in 0 .. MaxVersion, p.ext \in Extension, OwingOf(p, version)
         PROVE  OwingOf(p, version)'
    <2> DEFINE o == [why |-> "secret", of |-> s, seen |-> NoConfig]
    <2>1. o \in owed' /\ o.why = "secret" /\ o.of = s /\ owed \subseteq owed'
      BY <1>1
    <2> HIDE DEF o
    <2>2. Due(p) => Due(p)'
      BY <2>1 DEF Due
    <2>3. EnabledOrDue(p)'
      BY <1>4, <1>10, <2>1 DEF OwingOf, EnabledOrDue, Enabled
    <2>4. p.secret \in Secret \cup {None}
      BY DEF Pins
    <2>5. VersionOrDue(p, version)'
      BY <1>3, <1>10, <2>1, <2>4 DEF OwingOf, VersionOrDue
    <2>6. CASE p.secret = s
      <3>1. Due(p)'
        BY <2>1, <2>6 DEF Due
      <3> QED
        BY <2>3, <2>5, <3>1 DEF OwingOf, CoveredOrDue, Stranded, SecretOrDue
    <2>7. CASE p.secret # s
      <3>1. p.secret # None /\ config[p.ext].secret = p.secret => config'[p.ext].secret = p.secret
        BY <1>4, <1>10, <2>7
      <3>2. Covers(config[p.ext], p) => Covers(config'[p.ext], p)
        BY <1>4, <1>10, <3>1 DEF Covers
      <3>3. CoveredOrDue(p)' /\ SecretOrDue(p)'
        BY <1>1, <1>10, <2>2, <3>1, <3>2 DEF OwingOf, CoveredOrDue, Stranded, SecretOrDue
      <3> QED
        BY <2>3, <2>5, <3>3 DEF OwingOf
    <2> QED
      BY <2>6, <2>7
  <1> QED
    BY <1>1, <1>6, <1>7, <1>8, <1>9, <1>10, AdministratorStep

LEMMA DeleteCollectionStep ==
  ASSUME IInv, NEW k \in Collection, DeleteCollection(k)
  PROVE  IInv'
  <1>1. /\ standing' = standing \ {k}
        /\ config' = [e \in Extension |-> [config[e] EXCEPT
                        !.bindings = [s \in Slot |-> IF s[1] = k THEN 0 ELSE config[e].bindings[s]]]]
        /\ UNCHANGED <<secrets, intents, leftRunning, calls, owed, edits, phase, stops>>
    BY DEF DeleteCollection, process
  <1>2. /\ config \in [Extension -> Config]
        /\ \A f \in Extension : config[f].secret # None => Exists(config[f].secret)
    BY Types DEF IInv
  <1> DEFINE left(e) == [s \in Slot |-> IF s[1] = k THEN 0 ELSE config[e].bindings[s]]
  <1>3. /\ config' \in [Extension -> Config]
        /\ \A e \in Extension : /\ config'[e].state = config[e].state
                                /\ config'[e].secret = config[e].secret
                                /\ config'[e].grant = config[e].grant
                                /\ \A s \in Slot : config'[e].bindings[s] =
                                     IF s[1] = k THEN 0 ELSE config[e].bindings[s]
    <2>1. ASSUME NEW e \in Extension
          PROVE  left(e) \in [Slot -> 0 .. MaxEdits]
      BY <1>2 DEF Config
    <2>2. ASSUME NEW e \in Extension, NEW b \in [Slot -> 0 .. MaxEdits]
          PROVE  /\ [config[e] EXCEPT !.bindings = b] \in Config
                 /\ [config[e] EXCEPT !.bindings = b].state = config[e].state
                 /\ [config[e] EXCEPT !.bindings = b].secret = config[e].secret
                 /\ [config[e] EXCEPT !.bindings = b].grant = config[e].grant
                 /\ [config[e] EXCEPT !.bindings = b].bindings = b
      BY <1>2 DEF Config
    <2>3. \A e \in Extension, s \in Slot :
            left(e)[s] = IF s[1] = k THEN 0 ELSE config[e].bindings[s]
      OBVIOUS
    <2>4. config' = [e \in Extension |-> [config[e] EXCEPT !.bindings = left(e)]]
      BY <1>1
    <2> HIDE DEF left
    <2>5. \A e \in Extension : config'[e] = [config[e] EXCEPT !.bindings = left(e)]
      BY <2>4
    <2>6. config' \in [Extension -> Config]
      BY <2>1, <2>2, <2>4
    <2>7. ASSUME NEW e \in Extension
          PROVE  /\ config'[e].state = config[e].state /\ config'[e].secret = config[e].secret
                 /\ config'[e].grant = config[e].grant /\ config'[e].bindings = left(e)
      <3>1. PICK b \in [Slot -> 0 .. MaxEdits] : b = left(e)
        BY <2>1
      <3>2. config'[e] = [config[e] EXCEPT !.bindings = b]
        BY <2>5, <3>1
      <3> QED
        BY <2>2, <3>1, <3>2
    <2> QED
      BY <2>3, <2>6, <2>7
  <1> HIDE DEF left
  <1>4. TypeOK'
    <2>1. Busy' = Busy
      BY <1>1, BusyKept
    <2>2. standing' \subseteq Collection
      BY <1>1 DEF IInv, TypeOK
    <2>3. \A f \in Extension : config'[f].secret # None => Exists(config'[f].secret)
      BY <1>2, <1>3
    <2> QED
      BY <1>1, <1>3, <2>1, <2>2, <2>3 DEF IInv, TypeOK, Config, Exists
  <1>5. OneHookPerSlot'
    BY <1>3 DEF IInv, OneHookPerSlot, Enabled, Bound
  <1>6. OwedTyped'
    BY <1>1 DEF IInv, OwedTyped
  <1>7. PendingStands'
    <2>1. \A i \in Intent : intents[i].status = "pending" => intents[i].pins.ext \in Extension
      BY DEF IInv, Placed
    <2> QED
      BY <1>1, <1>3, <2>1 DEF IInv, PendingStands
  <1>8. ASSUME NEW p \in Pins, NEW version \in 0 .. MaxVersion, p.ext \in Extension, p.slot \in Slot,
               OwingOf(p, version)
        PROVE  OwingOf(p, version)'
    <2>1. Due(p)' <=> Due(p)
      BY <1>1 DEF Due
    <2>2. EnabledOrDue(p)' /\ SecretOrDue(p)' /\ VersionOrDue(p, version)'
      BY <1>1, <1>3, <1>8, <2>1 DEF OwingOf, EnabledOrDue, SecretOrDue, VersionOrDue, Enabled
    <2>3. p.slot[1] \in standing' => p.slot[1] # k /\ p.slot[1] \in standing
      BY <1>1
    <2>4. p.slot[1] # k => (Covers(config'[p.ext], p) <=> Covers(config[p.ext], p))
      BY <1>3, <1>8 DEF Covers
    <2>5. CoveredOrDue(p)'
      BY <1>1, <1>8, <2>1, <2>3, <2>4 DEF OwingOf, CoveredOrDue, Stranded
    <2> QED
      BY <2>2, <2>5 DEF OwingOf
  <1> QED
    BY <1>1, <1>4, <1>5, <1>6, <1>7, <1>8, IntentsAlone, AdministratorStep

(* The configuration is read after it was committed: what it no longer covers stays due. *)
LEMMA ReadConfigurationStep ==
  ASSUME IInv, NEW o \in owed, ReadConfiguration(o)
  PROVE  IInv'
  <1>1. /\ o.why = "replaced" /\ o.of \in Extension
        /\ UNCHANGED <<config, secrets, standing, edits, intents, leftRunning, calls, phase, stops>>
    BY DEF ReadConfiguration, process, IInv, OwedTyped
  <1>2. PICK n \in {[why |-> "read", of |-> o.of, seen |-> config[o.of]],
                    [why |-> "disabled", of |-> o.of, seen |-> NoConfig]} :
          owed' = (owed \ {o}) \cup {n}
    BY DEF ReadConfiguration
  <1>3. /\ n.of = o.of
        /\ n.why = "disabled" \/ (n.why = "read" /\ n.seen = config[o.of])
    BY <1>2
  <1>4. TypeOK'
    <2>1. Busy' = Busy
      BY <1>1, BusyKept
    <2> QED
      BY <1>1, <2>1 DEF IInv, TypeOK, Exists
  <1>5. OneHookPerSlot' /\ PendingStands'
    BY <1>1 DEF IInv, OneHookPerSlot, PendingStands, Enabled, Bound
  <1>6. OwedTyped'
    BY <1>1, <1>2, <1>3 DEF IInv, OwedTyped
  <1>7. ASSUME NEW p \in Pins, NEW version \in 0 .. MaxVersion, p.ext \in Extension, OwingOf(p, version)
        PROVE  OwingOf(p, version)'
    <2>1. EnabledOrDue(p)' /\ VersionOrDue(p, version)'
      BY <1>1, <1>2, <1>7 DEF OwingOf, EnabledOrDue, VersionOrDue, Enabled
    <2>2. Due(p) => Due(p)' \/ (p.ext = o.of /\ Covers(config[p.ext], p))
      BY <1>1, <1>2, <1>3 DEF Due
    <2>3. CoveredOrDue(p)' /\ SecretOrDue(p)'
      BY <1>1, <1>7, <2>2 DEF OwingOf, CoveredOrDue, Stranded, SecretOrDue, Covers
    <2> QED
      BY <2>1, <2>3 DEF OwingOf
  <1> QED
    BY <1>1, <1>4, <1>5, <1>6, <1>7, IntentsAlone, AdministratorStep

(* What was owed is done: whoever was due to it is cancelled now. *)
LEMMA CancelActiveStep ==
  ASSUME IInv, NEW o \in owed, CancelActive(o)
  PROVE  IInv'
  <1> DEFINE set == {c \in Busy : CASE o.why = "secret"   -> calls[c].pins.secret = o.of
                                    [] o.why = "disabled" -> calls[c].pins.ext = o.of
                                    [] o.why = "read"     -> /\ calls[c].pins.ext = o.of
                                                             /\ Incompatible(calls[c].pins, o.seen)}
  <1>1. /\ o.why \in {"read", "disabled", "secret"} /\ owed' = owed \ {o} /\ Cancelled(set)
        /\ UNCHANGED <<config, secrets, standing, edits, intents, leftRunning, phase, stops>>
    BY DEF CancelActive, process, IInv, OwedTyped
  <1>2. \A c \in Busy : c \notin set => /\ o.why = "secret" => calls[c].pins.secret # o.of
                                        /\ o.why = "disabled" => calls[c].pins.ext # o.of
                                        /\ o.why = "read" /\ calls[c].pins.ext = o.of =>
                                             Covers(o.seen, calls[c].pins)
    BY <1>1 DEF Incompatible
  <1>3. \A c \in set : calls[c] # NoCall
    BY NoneTyped DEF Busy
  <1> HIDE DEF set
  <1>4. /\ calls' \in [Caller -> Call]
        /\ \A c \in Caller : /\ calls'[c].stage = calls[c].stage /\ calls'[c].pins = calls[c].pins
                             /\ calls'[c].version = calls[c].version
                             /\ c \in set => calls'[c].cancelled
                             /\ ~calls'[c].cancelled => ~calls[c].cancelled
                             /\ calls[c] = NoCall /\ c \notin set => calls'[c] = NoCall
    BY <1>1, CallsCancelled DEF IInv
  <1>5. Busy' = Busy
    BY <1>4, BusyKept
  <1>6. TypeOK' /\ IsFiniteSet(Busy)'
    BY <1>1, <1>4, <1>5 DEF IInv, TypeOK, Call, Exists
  <1>7. OwedTyped' /\ OneHookPerSlot' /\ PendingStands'
    BY <1>1 DEF IInv, OwedTyped, OneHookPerSlot, PendingStands, Enabled, Bound
  <1>8. Placed'
    BY <1>1, <1>3, <1>4 DEF IInv, Placed, Caller
  <1>9. ASSUME NEW c \in Caller, Running(c)'
        PROVE  OwingOf(calls[c].pins, calls[c].version)'
    <2>1. Running(c) /\ c \in Busy /\ c \notin set
      BY <1>4, <1>9 DEF Running, Busy
    <2>2. PICK p, version : p = calls[c].pins /\ version = calls[c].version
      OBVIOUS
    <2>3. OwingOf(p, version)
      BY <2>1, <2>2 DEF IInv, Owing
    <2>4. /\ o.why = "secret" => p.secret # o.of
          /\ o.why = "disabled" => p.ext # o.of
          /\ o.why = "read" /\ p.ext = o.of => Covers(o.seen, p)
      BY <1>2, <2>1, <2>2
    <2>5. EnabledOrDue(p)' /\ VersionOrDue(p, version)'
      BY <1>1, <2>3, <2>4 DEF OwingOf, EnabledOrDue, VersionOrDue, Enabled
    <2>6. Due(p) => Due(p)'
      BY <1>1, <2>4 DEF Due
    <2>7. OwingOf(p, version)'
      BY <1>1, <2>3, <2>5, <2>6 DEF OwingOf, CoveredOrDue, Stranded, SecretOrDue
    <2> QED
      BY <1>4, <2>2, <2>7
  <1> QED
    BY <1>6, <1>7, <1>8, <1>9 DEF IInv, Owing

-----------------------------------------------------------------------------
(* Invocations: one caller moves, and the administration stands still. *)

LEMMA CallerStep ==
  ASSUME IInv, NEW c \in Caller, UNCHANGED <<administration, phase, stops>>, phase # "down",
         leftRunning' \in BOOLEAN, calls' \in [Caller -> Call], intents' \in [Intent -> Row],
         \A d \in Caller : d # c => calls'[d] = calls[d],
         \A i \in Intent : i # c => intents'[i] = intents[i],
         Admitted \/ c \in Busy \/ calls'[c].stage \notin {"registered", "invoking"},
         calls'[c].stage \in {"started", "registered", "invoking"} =>
           calls'[c].pins.ext \in Extension /\ calls'[c].pins.slot \in Slot,
         c \in Writer => calls'[c].pins.secret = None /\ calls'[c].pins.grant = 0,
         c \in Intent =>
           /\ intents'[c].status # "none" =>
                intents'[c].pins.ext \in Extension /\ intents'[c].pins.slot \in Slot
           /\ intents'[c].status = "pending" /\ intents'[c].pins.secret # None =>
                config[intents'[c].pins.ext].secret = intents'[c].pins.secret
           /\ calls'[c].stage \in {"registered", "invoking"} =>
                calls'[c].pins = intents'[c].pins /\ intents'[c].status # "none"
           /\ calls'[c].stage = "invoking" => intents'[c].status = "running",
         \A p \in Pins, version \in 0 .. MaxVersion :
           Running(c)' /\ p = calls'[c].pins /\ version = calls'[c].version => OwingOf(p, version)
  PROVE  IInv'
  <1>1. TypeOK' /\ IsFiniteSet(Busy)'
    <2>1. TypeOK /\ IsFiniteSet(Busy)
      BY DEF IInv
    <2>2. IsFiniteSet(Busy)' /\ (Cardinality(Busy) <= Capacity)'
      BY <2>1, BusyMoves
    <2> QED
      BY <2>1, <2>2 DEF TypeOK, Call, Row, Exists, administration
  <1>2. OwedTyped' /\ OneHookPerSlot'
    BY DEF IInv, OwedTyped, OneHookPerSlot, Enabled, Bound, administration
  <1>3. Placed'
    <2>1. \A d \in Caller : calls'[d].stage \in {"started", "registered", "invoking"} =>
            calls'[d].pins.ext \in Extension /\ calls'[d].pins.slot \in Slot
      BY DEF IInv, Placed
    <2>2. \A w \in Writer : calls'[w].pins.secret = None /\ calls'[w].pins.grant = 0
      BY DEF IInv, Placed, Caller
    <2>3. \A i \in Intent : intents'[i].status # "none" =>
            intents'[i].pins.ext \in Extension /\ intents'[i].pins.slot \in Slot
      BY DEF IInv, Placed
    <2>4. \A i \in Intent : calls'[i].stage \in {"registered", "invoking"} =>
            calls'[i].pins = intents'[i].pins /\ intents'[i].status # "none"
      BY DEF IInv, Placed, Caller
    <2>5. \A i \in Intent : calls'[i].stage = "invoking" => intents'[i].status = "running"
      BY DEF IInv, Placed, Caller
    <2> QED
      BY <2>1, <2>2, <2>3, <2>4, <2>5 DEF Placed
  <1>4. PendingStands'
    BY DEF IInv, PendingStands, administration
  <1>5. ASSUME NEW d \in Caller, Running(d)'
        PROVE  OwingOf(calls[d].pins, calls[d].version)'
    <2>1. PICK p, version : p = calls'[d].pins /\ version = calls'[d].version
      OBVIOUS
    <2>2. p \in Pins /\ version \in 0 .. MaxVersion
      BY <2>1 DEF Call
    <2>3. OwingOf(p, version)
      <3>1. CASE d = c
        BY <1>5, <2>1, <2>2, <3>1 DEF Running
      <3>2. CASE d # c
        BY <1>5, <2>1, <3>2 DEF Running, IInv, Owing
      <3> QED
        BY <3>1, <3>2
    <2>4. OwingOf(p, version)'
      BY <2>3 DEF OwingOf, EnabledOrDue, CoveredOrDue, Stranded, SecretOrDue, VersionOrDue, Due, Enabled,
                  administration
    <2> QED
      BY <2>1, <2>4
  <1> QED
    BY <1>1, <1>2, <1>3, <1>4, <1>5 DEF IInv, Owing

(* Nobody is on its way while the process is down. *)
LEMMA OnItsWay ==
  ASSUME IInv, NEW c \in Caller, calls[c].stage # "none"
  PROVE  phase # "down"
  BY NoneTyped DEF IInv, Placed

LEMMA Settled ==
  ASSUME IInv, NEW i \in Intent, NEW s \in Terminal \cup {"running"}, Settle(i, s)
  PROVE  /\ intents' \in [Intent -> Row]
         /\ intents'[i].status = s /\ intents'[i].pins = intents[i].pins
         /\ \A j \in Intent : j # i => intents'[j] = intents[j]
  <1>1. intents \in [Intent -> Row]
    BY Types DEF IInv
  <1>2. [intents[i] EXCEPT !.status = s] \in Row
    BY <1>1 DEF Row
  <1>3. intents' = [intents EXCEPT ![i] = [intents[i] EXCEPT !.status = s]]
    BY DEF Settle
  <1> QED
    BY <1>1, <1>2, <1>3 DEF Row

(* An invocation that ends, with or without an outcome for its intent. *)
LEMMA FinishedStep ==
  ASSUME IInv, NEW c \in Caller, Finished(c), UNCHANGED <<administration, phase, stops>>,
         phase # "down", leftRunning' \in BOOLEAN, intents' \in [Intent -> Row],
         \A i \in Intent : i # c => intents'[i] = intents[i],
         c \in Intent => \/ intents'[c] = intents[c]
                         \/ /\ intents'[c].pins = intents[c].pins
                            /\ intents'[c].status # "pending" /\ intents[c].status # "none"
  PROVE  IInv'
  <1>1. calls \in [Caller -> Call]
    BY Types DEF IInv
  <1>2. /\ calls' \in [Caller -> Call] /\ calls'[c] = NoCall
        /\ \A d \in Caller : d # c => calls'[d] = calls[d]
    BY <1>1, NoneTyped DEF Finished
  <1>3. /\ calls'[c].stage = "none" /\ calls'[c].pins.secret = None /\ calls'[c].pins.grant = 0
    BY <1>2, NoneTyped
  <1>4. c \in Intent =>
           /\ intents'[c].status # "none" =>
                intents'[c].pins.ext \in Extension /\ intents'[c].pins.slot \in Slot
           /\ intents'[c].status = "pending" /\ intents'[c].pins.secret # None =>
                config[intents'[c].pins.ext].secret = intents'[c].pins.secret
    BY DEF IInv, Placed, PendingStands
  <1>5. calls'[c].stage \notin {"started", "registered", "invoking"}
    BY <1>3
  <1>6. c \in Intent =>
           /\ intents'[c].status # "none" =>
                intents'[c].pins.ext \in Extension /\ intents'[c].pins.slot \in Slot
           /\ intents'[c].status = "pending" /\ intents'[c].pins.secret # None =>
                config[intents'[c].pins.ext].secret = intents'[c].pins.secret
           /\ calls'[c].stage \in {"registered", "invoking"} =>
                calls'[c].pins = intents'[c].pins /\ intents'[c].status # "none"
           /\ calls'[c].stage = "invoking" => intents'[c].status = "running"
    BY <1>4, <1>5
  <1>7. \A p \in Pins, version \in 0 .. MaxVersion :
           Running(c)' /\ p = calls'[c].pins /\ version = calls'[c].version => OwingOf(p, version)
    BY <1>5 DEF Running
  <1>8. calls'[c].stage \notin {"registered", "invoking"}
    BY <1>5
  <1>9. calls'[c].stage \in {"started", "registered", "invoking"} =>
           calls'[c].pins.ext \in Extension /\ calls'[c].pins.slot \in Slot
    BY <1>5
  <1> QED
    BY <1>2, <1>3, <1>6, <1>7, <1>8, <1>9, CallerStep

(* Before Hooks: no Secret and no origin is pinned. *)
LEMMA WriterStep ==
  ASSUME IInv, NEW w \in Writer, UNCHANGED <<administration, intents, phase, stops>>, phase # "down",
         leftRunning' \in BOOLEAN, NEW call \in Call, calls' = [calls EXCEPT ![w] = call],
         Admitted \/ w \in Busy \/ call.stage = "started",
         call.pins.ext \in Extension /\ call.pins.slot \in Slot,
         call.pins.secret = None /\ call.pins.grant = 0,
         call.stage = "invoking" =>
           Enabled(call.pins.ext) /\ config[call.pins.ext].bindings[call.pins.slot] = call.pins.binding
  PROVE  IInv'
  <1>1. calls \in [Caller -> Call] /\ intents \in [Intent -> Row]
    BY Types DEF IInv
  <1>2. w \in Caller /\ w \notin Intent
    BY DEF Caller
  <1>3. /\ calls' \in [Caller -> Call] /\ calls'[w] = call
        /\ \A d \in Caller : d # w => calls'[d] = calls[d]
    BY <1>1, <1>2
  <1>4. ASSUME NEW p \in Pins, NEW version \in 0 .. MaxVersion, Running(w)', p = calls'[w].pins,
               version = calls'[w].version
        PROVE  OwingOf(p, version)
    BY <1>3, <1>4 DEF Running, OwingOf, EnabledOrDue, CoveredOrDue, Stranded, SecretOrDue, VersionOrDue, Covers
  <1>5. Admitted \/ w \in Busy \/ calls'[w].stage \notin {"registered", "invoking"}
    BY <1>3
  <1> QED
    BY <1>1, <1>2, <1>3, <1>4, <1>5, CallerStep

LEMMA BeforeStep ==
  ASSUME IInv, NEW w \in Writer, Before(w)
  PROVE  IInv'
  <1>1. PICK e \in Extension, s \in Slot :
          /\ s[2] = "before"
          /\ calls' = [calls EXCEPT ![w] =
               [NoCall EXCEPT !.stage = "started",
                  !.pins = [NoPins EXCEPT !.ext = e, !.slot = s, !.binding = config[e].bindings[s]]]]
    BY DEF Before
  <1>2. UNCHANGED <<administration, intents, leftRunning, phase, stops>> /\ phase # "down"
    BY DEF Before, process
  <1>3. config[e].bindings[s] \in 0 .. MaxEdits
    BY Types DEF IInv, Config
  <1>4. PICK pins \in Pins :
          /\ pins = [NoPins EXCEPT !.ext = e, !.slot = s, !.binding = config[e].bindings[s]]
          /\ pins.ext = e /\ pins.slot = s /\ pins.secret = None /\ pins.grant = 0
    <2>1. PICK b \in 0 .. MaxEdits : b = config[e].bindings[s]
      BY <1>3
    <2>2. LET q == [NoPins EXCEPT !.ext = e, !.slot = s, !.binding = b]
          IN  q \in Pins /\ q.ext = e /\ q.slot = s /\ q.secret = None /\ q.grant = 0
      BY NoneTyped DEF Pins
    <2> QED
      BY <2>1, <2>2
  <1>5. PICK call \in Call :
          /\ call = [NoCall EXCEPT !.stage = "started", !.pins = pins]
          /\ call.stage = "started" /\ call.pins = pins
    <2>1. [NoCall EXCEPT !.stage = "started", !.pins = pins] \in Call
      BY NoneTyped DEF Call
    <2>2. [NoCall EXCEPT !.stage = "started", !.pins = pins].stage = "started"
      BY NoneTyped DEF Call
    <2>3. [NoCall EXCEPT !.stage = "started", !.pins = pins].pins = pins
      BY NoneTyped DEF Call
    <2> QED
      BY <2>1, <2>2, <2>3
  <1>6. calls' = [calls EXCEPT ![w] = call]
    BY <1>1, <1>4, <1>5
  <1>7. leftRunning' \in BOOLEAN
    BY <1>2 DEF IInv, TypeOK
  <1>8. /\ call.pins.ext \in Extension /\ call.pins.slot \in Slot
        /\ call.pins.secret = None /\ call.pins.grant = 0
    BY <1>4, <1>5
  <1>9. call.stage # "invoking"
    BY <1>5
  <1> QED
    BY <1>2, <1>5, <1>6, <1>7, <1>8, <1>9, WriterStep

(* A before Hook that moves on from one stage to the next. *)
LEMMA WriterMoves ==
  ASSUME IInv, NEW w \in Writer, NEW stage \in {"registered", "invoking"},
         calls[w].stage \in {"started", "registered"},
         calls' = [calls EXCEPT ![w].stage = stage], UNCHANGED <<administration, intents, leftRunning, process>>,
         Admitted \/ w \in Busy,
         stage = "invoking" =>
           /\ Enabled(calls[w].pins.ext)
           /\ config[calls[w].pins.ext].bindings[calls[w].pins.slot] = calls[w].pins.binding
  PROVE  IInv'
  <1>1. calls \in [Caller -> Call] /\ w \in Caller
    BY Types DEF IInv, Caller
  <1>2. PICK call \in Call : /\ call = [calls[w] EXCEPT !.stage = stage]
                             /\ call.stage = stage /\ call.pins = calls[w].pins
    BY <1>1 DEF Call
  <1>3. calls' = [calls EXCEPT ![w] = call]
    BY <1>2
  <1>4. /\ call.pins.ext \in Extension /\ call.pins.slot \in Slot
        /\ call.pins.secret = None /\ call.pins.grant = 0
    BY <1>1, <1>2 DEF IInv, Placed
  <1>5. phase # "down" /\ UNCHANGED <<administration, intents, phase, stops>> /\ leftRunning' \in BOOLEAN
    BY <1>1, OnItsWay DEF process, IInv, TypeOK
  <1> QED
    BY <1>2, <1>3, <1>4, <1>5, WriterStep

LEMMA FinishBeforeStep ==
  ASSUME IInv, NEW w \in Writer, calls[w].stage # "none", FinishBefore(w),
         UNCHANGED <<administration, intents, process>>
  PROVE  IInv'
  <1>1. Finished(w) /\ leftRunning' \in BOOLEAN /\ UNCHANGED <<administration, phase, stops>>
    BY DEF FinishBefore, process, IInv, TypeOK
  <1>2. w \in Caller /\ w \notin Intent /\ intents' \in [Intent -> Row]
    BY Types DEF IInv, Caller
  <1>3. phase # "down"
    BY <1>2, OnItsWay
  <1> QED
    BY <1>1, <1>2, <1>3, FinishedStep

LEMMA RegisterBeforeStep ==
  ASSUME IInv, NEW w \in Writer, RegisterBefore(w)
  PROVE  IInv'
  <1>1. calls[w].stage = "started" /\ UNCHANGED <<administration, intents, process>>
    BY DEF RegisterBefore
  <1>2. CASE Admitted /\ phase = "up"
    BY <1>1, <1>2, WriterMoves DEF RegisterBefore
  <1>3. CASE ~(Admitted /\ phase = "up")
    BY <1>1, <1>3, FinishBeforeStep DEF RegisterBefore
  <1> QED
    BY <1>2, <1>3

LEMMA CheckBindingStep ==
  ASSUME IInv, NEW w \in Writer, CheckBinding(w)
  PROVE  IInv'
  <1>1. calls[w].stage = "registered" /\ UNCHANGED <<administration, intents, process>>
    BY DEF CheckBinding
  <1>2. w \in Busy
    BY <1>1 DEF Busy, Caller
  <1> DEFINE p == calls[w].pins
             allowed == ~calls[w].cancelled /\ Enabled(p.ext) /\ config[p.ext].bindings[p.slot] = p.binding
  <1>3. CASE allowed
    BY <1>1, <1>2, <1>3, WriterMoves DEF CheckBinding
  <1>4. CASE ~allowed
    BY <1>1, <1>4, FinishBeforeStep DEF CheckBinding
  <1> QED
    BY <1>3, <1>4

LEMMA EndBeforeStep ==
  ASSUME IInv, NEW w \in Writer, EndBefore(w)
  PROVE  IInv'
  BY FinishBeforeStep DEF EndBefore

(* After-commit Hooks: the invocation acts with what its intent pins. *)
LEMMA IntentStep ==
  ASSUME IInv, NEW i \in Intent, UNCHANGED <<administration, leftRunning, phase, stops>>, phase # "down",
         NEW call \in Call, calls' = [calls EXCEPT ![i] = call],
         NEW row \in Row, intents' = [intents EXCEPT ![i] = row],
         Admitted \/ i \in Busy \/ call.stage = "committed",
         row.status # "none", row.pins.ext \in Extension, row.pins.slot \in Slot,
         row.status = "pending" /\ row.pins.secret # None =>
           config[row.pins.ext].secret = row.pins.secret,
         call.stage # "committed" => call.pins = row.pins,
         call.stage \in {"committed", "registered", "invoking"},
         call.stage = "invoking" => row.status = "running",
         call.stage = "invoking" /\ ~call.cancelled => OwingOf(call.pins, call.version)
  PROVE  IInv'
  <1>1. calls \in [Caller -> Call] /\ intents \in [Intent -> Row] /\ leftRunning' \in BOOLEAN
    BY Types DEF IInv, TypeOK
  <1>2. i \in Caller /\ i \notin Writer
    BY DEF Caller
  <1>3. /\ calls' \in [Caller -> Call] /\ calls'[i] = call
        /\ \A d \in Caller : d # i => calls'[d] = calls[d]
    BY <1>1, <1>2
  <1>4. /\ intents' \in [Intent -> Row] /\ intents'[i] = row
        /\ \A j \in Intent : j # i => intents'[j] = intents[j]
    BY <1>1
  <1>5. ASSUME NEW p \in Pins, NEW version \in 0 .. MaxVersion, Running(i)', p = calls'[i].pins,
               version = calls'[i].version
        PROVE  OwingOf(p, version)
    BY <1>3, <1>5 DEF Running
  <1>6. Admitted \/ i \in Busy \/ calls'[i].stage \notin {"registered", "invoking"}
    BY <1>3
  <1>7. calls'[i].stage \in {"started", "registered", "invoking"} =>
           calls'[i].pins.ext \in Extension /\ calls'[i].pins.slot \in Slot
    BY <1>3
  <1>8. /\ intents'[i].status # "none" =>
             intents'[i].pins.ext \in Extension /\ intents'[i].pins.slot \in Slot
        /\ intents'[i].status = "pending" /\ intents'[i].pins.secret # None =>
             config[intents'[i].pins.ext].secret = intents'[i].pins.secret
        /\ calls'[i].stage \in {"registered", "invoking"} =>
             calls'[i].pins = intents'[i].pins /\ intents'[i].status # "none"
        /\ calls'[i].stage = "invoking" => intents'[i].status = "running"
    BY <1>3, <1>4
  <1> QED
    BY <1>1, <1>2, <1>3, <1>4, <1>5, <1>6, <1>7, <1>8, CallerStep

LEMMA AppendIntentStep ==
  ASSUME IInv, NEW i \in Intent, AppendIntent(i)
  PROVE  IInv'
  <1>1. PICK e \in Extension, s \in Slot :
          intents' = [intents EXCEPT ![i] =
            [status |-> "pending",
             pins |-> [ext |-> e, slot |-> s, binding |-> config[e].bindings[s],
                       secret |-> config[e].secret, grant |-> config[e].grant]]]
    BY DEF AppendIntent
  <1>2. /\ calls' = [calls EXCEPT ![i].stage = "committed"] /\ phase # "down"
        /\ UNCHANGED <<administration, leftRunning, phase, stops>>
    BY DEF AppendIntent, process
  <1>3. config[e] \in Config /\ calls[i] \in Call
    BY Types DEF IInv, Caller
  <1> DEFINE pins == [ext |-> e, slot |-> s, binding |-> config[e].bindings[s],
                      secret |-> config[e].secret, grant |-> config[e].grant]
             row == [status |-> "pending", pins |-> pins]
  <1>4. pins \in Pins /\ pins.ext = e /\ pins.slot = s /\ pins.secret = config[e].secret
    BY <1>3 DEF Pins, Config
  <1>5. intents' = [intents EXCEPT ![i] = row]
    BY <1>1
  <1> HIDE DEF pins
  <1>6. row \in Row /\ row.status = "pending" /\ row.pins = pins
    BY <1>4 DEF Row
  <1> HIDE DEF row
  <1>7. PICK call \in Call : call = [calls[i] EXCEPT !.stage = "committed"] /\ call.stage = "committed"
    <2>1. LET r == [calls[i] EXCEPT !.stage = "committed"]
          IN  r \in Call /\ r.stage = "committed"
      BY <1>3 DEF Call
    <2> QED
      BY <2>1
  <1>8. calls' = [calls EXCEPT ![i] = call]
    BY <1>2, <1>7
  <1>9. /\ row.status # "none" /\ row.pins.ext \in Extension /\ row.pins.slot \in Slot
        /\ config[row.pins.ext].secret = row.pins.secret
    BY <1>4, <1>6
  <1> QED
    BY <1>2, <1>5, <1>6, <1>7, <1>8, <1>9, IntentStep

(* The end of an invocation, which its intent may be told. *)
LEMMA IntentFinishedStep ==
  ASSUME IInv, NEW i \in Intent, calls[i].stage # "none", Finished(i),
         UNCHANGED <<administration, leftRunning, process>>,
         \/ UNCHANGED intents
         \/ intents[i].status # "none" /\ \E s \in Terminal : Settle(i, s)
  PROVE  IInv'
  <1>1. i \in Caller /\ intents \in [Intent -> Row]
    BY Types DEF IInv, Caller
  <1>2. phase # "down" /\ UNCHANGED <<administration, phase, stops>> /\ leftRunning' \in BOOLEAN
    BY <1>1, OnItsWay DEF process, IInv, TypeOK
  <1>3. CASE UNCHANGED intents
    BY <1>1, <1>2, <1>3, FinishedStep
  <1>4. ASSUME intents[i].status # "none", NEW s \in Terminal, Settle(i, s)
        PROVE  IInv'
    <2>1. /\ intents' \in [Intent -> Row]
          /\ intents'[i].status = s /\ intents'[i].pins = intents[i].pins
          /\ \A j \in Intent : j # i => intents'[j] = intents[j]
      BY <1>4, Settled
    <2>2. s # "pending"
      BY DEF Terminal
    <2> QED
      BY <1>1, <1>2, <1>4, <2>1, <2>2, FinishedStep
  <1> QED
    BY <1>3, <1>4

LEMMA AfterCommitStep ==
  ASSUME IInv, NEW i \in Intent, AfterCommit(i)
  PROVE  IInv'
  <1>1. calls[i].stage = "committed" /\ UNCHANGED <<administration, leftRunning, process>>
    BY DEF AfterCommit
  <1>2. "failed" \in Terminal
    BY DEF Terminal
  <1>3. CASE phase = "closed" \/ intents[i].status # "pending"
    <2>1. Finished(i) /\ UNCHANGED intents
      BY <1>3 DEF AfterCommit
    <2> QED
      BY <1>1, <2>1, IntentFinishedStep
  <1>4. CASE ~(phase = "closed" \/ intents[i].status # "pending") /\ ~Admitted
    <2>1. Finished(i) /\ Settle(i, "failed")
      BY <1>4 DEF AfterCommit
    <2> QED
      BY <1>1, <1>2, <1>4, <2>1, IntentFinishedStep
  <1>5. CASE ~(phase = "closed" \/ intents[i].status # "pending") /\ Admitted
    <2>1. /\ calls' = [calls EXCEPT ![i].stage = "registered", ![i].pins = intents[i].pins]
          /\ UNCHANGED intents
      BY <1>5 DEF AfterCommit
    <2>2. calls \in [Caller -> Call] /\ intents \in [Intent -> Row] /\ i \in Caller
      BY Types DEF IInv, Caller
    <2>3. PICK row \in Row : row = intents[i]
      BY <2>2
    <2>4. PICK call \in Call : /\ call = [calls[i] EXCEPT !.stage = "registered", !.pins = row.pins]
                               /\ call.stage = "registered" /\ call.pins = row.pins
      <3>1. row.pins \in Pins
        BY DEF Row
      <3>2. LET r == [calls[i] EXCEPT !.stage = "registered", !.pins = row.pins]
            IN  r \in Call /\ r.stage = "registered" /\ r.pins = row.pins
        BY <2>2, <3>1 DEF Call
      <3> QED
        BY <3>2
    <2>5. calls' = [calls EXCEPT ![i] = call] /\ intents' = [intents EXCEPT ![i] = row]
      BY <2>1, <2>2, <2>3, <2>4
    <2>6. /\ row.status = "pending" /\ row.pins.ext \in Extension /\ row.pins.slot \in Slot
          /\ row.pins.secret # None => config[row.pins.ext].secret = row.pins.secret
      BY <1>5, <2>3 DEF IInv, Placed, PendingStands
    <2>7. phase # "down" /\ UNCHANGED <<administration, leftRunning, phase, stops>>
      BY <1>1, <2>2, OnItsWay DEF process
    <2> QED
      BY <1>5, <2>4, <2>5, <2>6, <2>7, IntentStep
  <1> QED
    BY <1>3, <1>4, <1>5

LEMMA StartAfterStep ==
  ASSUME IInv, NEW i \in Intent, StartAfter(i)
  PROVE  IInv'
  <1>1. calls[i].stage = "registered" /\ UNCHANGED <<administration, leftRunning, process>>
    BY DEF StartAfter
  <1>2. CASE ~(~calls[i].cancelled /\ Startable(i))
    <2>1. Finished(i) /\ UNCHANGED intents
      BY <1>2 DEF StartAfter
    <2> QED
      BY <1>1, <2>1, IntentFinishedStep
  <1>3. CASE ~calls[i].cancelled /\ Startable(i)
    <2>1. calls \in [Caller -> Call] /\ intents \in [Intent -> Row] /\ i \in Caller
      BY Types DEF IInv, Caller
    <2>2. PICK p \in Pins : p = calls[i].pins
      BY <2>1 DEF Call
    <2>3. p = intents[i].pins /\ p.ext \in Extension /\ p.slot \in Slot /\ i \in Busy
      BY <1>1, <2>1, <2>2 DEF IInv, Placed, Busy
    <2>4. PICK version : version = IF p.secret = None THEN 0 ELSE secrets[p.secret]
      OBVIOUS
    <2>5. /\ Settle(i, "running")
          /\ calls' = [calls EXCEPT ![i].stage = "invoking", ![i].version = version]
      BY <1>3, <2>2, <2>4 DEF StartAfter
    <2>6. /\ intents[i].status = "pending" /\ Enabled(p.ext)
          /\ config[p.ext].bindings[p.slot] = p.binding
          /\ p.secret # None => Exists(p.secret)
          /\ p.grant # 0 => config[p.ext].grant = p.grant
      BY <1>3, <2>3 DEF Startable
    <2>7. p.secret # None => config[p.ext].secret = p.secret
      BY <2>3, <2>6 DEF IInv, PendingStands
    <2>8. version \in 0 .. MaxVersion /\ (p.secret # None => version > 0)
      BY <2>4, <2>6, Types DEF IInv, Exists, Pins
    <2>9. OwingOf(p, version)
      BY <2>4, <2>6, <2>7, <2>8 DEF OwingOf, EnabledOrDue, CoveredOrDue, Stranded, SecretOrDue, VersionOrDue, Covers
    <2>10. PICK call \in Call :
             /\ call = [calls[i] EXCEPT !.stage = "invoking", !.version = version]
             /\ call.stage = "invoking" /\ call.version = version /\ call.pins = p
      <3>1. [calls[i] EXCEPT !.stage = "invoking", !.version = version] \in Call
        BY <2>1, <2>8 DEF Call
      <3>2. LET r == [calls[i] EXCEPT !.stage = "invoking", !.version = version]
            IN  r.stage = "invoking" /\ r.version = version /\ r.pins = p
        BY <2>1, <2>2 DEF Call
      <3> QED
        BY <3>1, <3>2
    <2>11. PICK row \in Row : /\ row = [intents[i] EXCEPT !.status = "running"]
                              /\ row.status = "running" /\ row.pins = p
      <3>1. LET r == [intents[i] EXCEPT !.status = "running"]
            IN  r \in Row /\ r.status = "running" /\ r.pins = p
        BY <2>1, <2>3 DEF Row
      <3> QED
        BY <3>1
    <2>12. calls' = [calls EXCEPT ![i] = call] /\ intents' = [intents EXCEPT ![i] = row]
      BY <2>1, <2>5, <2>10, <2>11 DEF Settle
    <2>13. phase # "down" /\ UNCHANGED <<administration, leftRunning, phase, stops>>
      BY <1>1, <2>1, OnItsWay DEF process
    <2>14. OwingOf(call.pins, call.version)
      BY <2>9, <2>10
    <2> QED
      BY <2>3, <2>10, <2>11, <2>12, <2>13, <2>14, IntentStep
  <1> QED
    BY <1>2, <1>3

LEMMA StartAfterFailsStep ==
  ASSUME IInv, NEW i \in Intent, StartAfterFails(i)
  PROVE  IInv'
  <1>1. "failed" \in Terminal
    BY DEF Terminal
  <1> QED
    BY <1>1, IntentFinishedStep DEF StartAfterFails

LEMMA FinishAfterStep ==
  ASSUME IInv, NEW i \in Intent, FinishAfter(i)
  PROVE  IInv'
  <1>1. Outcomes(i) \subseteq Terminal
    BY DEF Outcomes, Terminal
  <1>2. calls[i].stage = "invoking" /\ intents[i].status = "running"
    BY DEF FinishAfter, IInv, Placed
  <1> QED
    BY <1>1, <1>2, IntentFinishedStep DEF FinishAfter

-----------------------------------------------------------------------------
(* The process. *)

LEMMA CloseStep ==
  ASSUME IInv, Close
  PROVE  IInv'
  <1>1. /\ phase = "up" /\ phase' = "closed" /\ Cancelled(Busy)
        /\ UNCHANGED <<administration, intents, leftRunning, stops>>
    BY DEF Close
  <1>2. PICK set : set = Busy
    OBVIOUS
  <1>3. /\ calls' \in [Caller -> Call]
        /\ \A c \in Caller : /\ calls'[c].stage = calls[c].stage /\ calls'[c].pins = calls[c].pins
                             /\ c \in set => calls'[c].cancelled
    BY <1>1, <1>2, CallsCancelled DEF IInv
  <1>4. Busy' = Busy
    BY <1>3, BusyKept
  <1>5. TypeOK' /\ IsFiniteSet(Busy)'
    BY <1>1, <1>3, <1>4 DEF IInv, TypeOK, Call, Exists, administration
  <1>6. OwedTyped' /\ OneHookPerSlot' /\ PendingStands'
    BY <1>1 DEF IInv, OwedTyped, OneHookPerSlot, PendingStands, Enabled, Bound, administration
  <1>7. Placed'
    BY <1>1, <1>3 DEF IInv, Placed, Caller
  <1>8. \A c \in Caller : ~Running(c)'
    BY <1>2, <1>3 DEF Running, Busy
  <1> QED
    BY <1>5, <1>6, <1>7, <1>8 DEF IInv, Owing

LEMMA StopStep ==
  ASSUME IInv, Stop
  PROVE  IInv'
  <1>1. /\ stops < MaxStops /\ stops' = stops + 1 /\ phase' = "down" /\ owed' = {}
        /\ leftRunning' = (leftRunning \/ \E w \in Writer : calls[w] # NoCall)
        /\ calls' = [c \in Caller |-> NoCall]
        /\ UNCHANGED <<config, secrets, standing, edits, intents>>
    BY DEF Stop
  <1>2. \A c \in Caller : calls'[c] = NoCall
    BY <1>1
  <1>3. Busy' = {}
    BY <1>2, NoneTyped DEF Busy
  <1>4. IsFiniteSet(Busy)' /\ (Cardinality(Busy) <= Capacity)'
    BY <1>3, FS_EmptySet
  <1>5. TypeOK'
    <2>1. calls' \in [Caller -> Call] /\ leftRunning' \in BOOLEAN
      BY <1>1, NoneTyped DEF IInv, TypeOK
    <2>2. stops' \in 0 .. MaxStops
      BY <1>1 DEF IInv, TypeOK
    <2> QED
      BY <1>1, <1>4, <2>1, <2>2 DEF IInv, TypeOK, Call, Exists
  <1>6. OwedTyped' /\ OneHookPerSlot' /\ PendingStands'
    BY <1>1 DEF IInv, OwedTyped, OneHookPerSlot, PendingStands, Enabled, Bound
  <1>7. Placed'
    BY <1>1, <1>2, NoneTyped DEF IInv, Placed, Caller
  <1>8. Owing'
    BY <1>2, NoneTyped DEF Owing, Running
  <1> QED
    BY <1>4, <1>5, <1>6, <1>7, <1>8 DEF IInv

LEMMA StartStep ==
  ASSUME IInv, Start
  PROVE  IInv'
  <1>1. /\ phase = "down" /\ phase' = "up"
        /\ UNCHANGED <<administration, leftRunning, calls, stops>>
    BY DEF Start
  <1>2. \A i \in Intent : intents'[i] = IF Interrupted(i) THEN [intents[i] EXCEPT !.status = "interrupted"]
                                         ELSE intents[i]
    BY DEF Start
  <1>3. intents \in [Intent -> Row] /\ "interrupted" \in Terminal
    BY Types DEF IInv, Terminal
  <1>4. ASSUME NEW i \in Intent
        PROVE  LET r == [intents[i] EXCEPT !.status = "interrupted"]
               IN  r \in Row /\ r.status = "interrupted" /\ r.pins = intents[i].pins
    BY <1>3 DEF Row
  <1>5. intents' \in [Intent -> Row]
    BY <1>3, <1>4 DEF Start
  <1>6. \A i \in Intent : /\ intents'[i].pins = intents[i].pins
                          /\ intents'[i].status # "pending"
                          /\ intents'[i].status # "none" => intents[i].status # "none"
    BY <1>2, <1>4 DEF Interrupted
  <1>7. Busy' = Busy
    BY <1>1, BusyKept
  <1>8. TypeOK' /\ IsFiniteSet(Busy)'
    BY <1>1, <1>5, <1>7 DEF IInv, TypeOK, Row, Exists, administration
  <1>9. OwedTyped' /\ OneHookPerSlot' /\ PendingStands'
    BY <1>1, <1>6 DEF IInv, OwedTyped, OneHookPerSlot, PendingStands, Enabled, Bound, administration
  <1>10. \A c \in Caller : calls[c] = NoCall
    BY <1>1 DEF IInv, Placed
  <1>11. Placed'
    BY <1>1, <1>6, <1>10, NoneTyped DEF IInv, Placed, Caller
  <1>12. Owing'
    BY <1>1, <1>10, NoneTyped DEF Owing, Running
  <1> QED
    BY <1>8, <1>9, <1>11, <1>12 DEF IInv

-----------------------------------------------------------------------------
(* The invariant holds at first and every step keeps it. *)

LEMMA IInvInit ==
  ASSUME Init
  PROVE  IInv
  <1>1. /\ \A e \in Extension : config[e] = NoConfig
        /\ \A i \in Intent : intents[i] = NoIntent
        /\ \A c \in Caller : calls[c] = NoCall
        /\ owed = {} /\ phase = "up"
    BY DEF Init
  <1>2. Busy = {}
    BY <1>1, NoneTyped DEF Busy
  <1>3. IsFiniteSet(Busy) /\ Cardinality(Busy) <= Capacity
    BY <1>2, FS_EmptySet
  <1>4. TypeOK
    <2>1. config \in [Extension -> Config] /\ intents \in [Intent -> Row] /\ calls \in [Caller -> Call]
      BY NoneTyped DEF Init
    <2>2. secrets \in [Secret -> -1 .. MaxVersion]
      BY DEF Init
    <2>3. \A e \in Extension : config[e].secret # None => Exists(config[e].secret)
      BY <1>1, NoneTyped
    <2>4. /\ standing \subseteq Collection /\ leftRunning \in BOOLEAN /\ phase \in {"up", "closed", "down"}
      BY DEF Init
    <2>5. edits \in 0 .. MaxEdits /\ stops \in 0 .. MaxStops
      <3>1. edits = 0 /\ stops = 0
        BY DEF Init
      <3> QED
        BY <3>1
    <2> QED
      BY <1>3, <2>1, <2>2, <2>3, <2>4, <2>5 DEF TypeOK, Config, Row, Call
  <1>5. OwedTyped
    BY <1>1 DEF OwedTyped
  <1>6. OneHookPerSlot
    BY <1>1, NoneTyped DEF OneHookPerSlot, Enabled
  <1>7. Placed
    BY <1>1, NoneTyped DEF Placed, Caller
  <1>8. PendingStands
    BY <1>1, NoneTyped DEF PendingStands
  <1>9. Owing
    BY <1>1, NoneTyped DEF Owing, Running
  <1> QED
    BY <1>3, <1>4, <1>5, <1>6, <1>7, <1>8, <1>9 DEF IInv

LEMMA StutterStep ==
  ASSUME IInv, UNCHANGED vars
  PROVE  IInv'
  <1>1. UNCHANGED <<config, secrets, standing, intents, leftRunning, calls, owed, edits, phase, stops>>
    BY DEF vars
  <1>2. Busy' = Busy
    BY <1>1, BusyKept
  <1>3. TypeOK' /\ IsFiniteSet(Busy)'
    BY <1>1, <1>2 DEF IInv, TypeOK, Exists
  <1>4. OwedTyped' /\ OneHookPerSlot' /\ PendingStands' /\ Placed'
    BY <1>1 DEF IInv, OwedTyped, OneHookPerSlot, PendingStands, Placed, Enabled, Bound
  <1>5. Owing'
    BY <1>1 DEF IInv, Owing, Running, OwingOf, EnabledOrDue, CoveredOrDue, Stranded, SecretOrDue, VersionOrDue,
               Due, Enabled
  <1> QED
    BY <1>3, <1>4, <1>5 DEF IInv

LEMMA IInvNext ==
  ASSUME IInv, [Next]_vars
  PROVE  IInv'
  <1>1. ASSUME Administer PROVE IInv'
    BY <1>1, SwitchStep, ReplaceStep, DisableStep, CreateSecretStep, ReplaceSecretValueStep,
       DeleteSecretStep, DeleteCollectionStep, ReadConfigurationStep, CancelActiveStep DEF Administer
  <1>2. ASSUME NEW w \in Writer, Before(w) \/ RegisterBefore(w) \/ CheckBinding(w) \/ EndBefore(w)
        PROVE  IInv'
    BY <1>2, BeforeStep, RegisterBeforeStep, CheckBindingStep, EndBeforeStep
  <1>3. ASSUME NEW i \in Intent,
               \/ AppendIntent(i) \/ AfterCommit(i) \/ StartAfter(i)
               \/ StartAfterFails(i) \/ FinishAfter(i)
        PROVE  IInv'
    BY <1>3, AppendIntentStep, AfterCommitStep, StartAfterStep, StartAfterFailsStep, FinishAfterStep
  <1>4. CASE Close \/ Stop \/ Start
    BY <1>4, CloseStep, StopStep, StartStep
  <1>5. CASE UNCHANGED vars
    BY <1>5, StutterStep
  <1> QED
    BY <1>1, <1>2, <1>3, <1>4, <1>5 DEF Next

(* The inductive invariant of the Extensions: slots, the semaphore, what is behind each step of an *)
(* invocation, and the cancellations owed to the Hooks that act with what was taken away.          *)
THEOREM Invariance == Spec => []IInv
  <1>1. Init => IInv
    BY IInvInit
  <1>2. IInv /\ [Next]_vars => IInv'
    BY IInvNext
  <1> QED
    BY <1>1, <1>2, PTL DEF Spec

(* Rows and invocations keep their shape, the Secret that an Extension names exists, and no more   *)
(* Hooks are invoked at a time than the semaphore has places.                                      *)
THEOREM TypeCorrect == Spec => []TypeOK
  <1>1. IInv => TypeOK
    BY DEF IInv
  <1> QED
    BY <1>1, Invariance, PTL

(* However the requests that configure and enable two Extensions are interleaved, the two never    *)
(* have the same slot while both are enabled.                                                      *)
THEOREM SlotsExclusive == Spec => []OneHookPerSlot
  <1>1. IInv => OneHookPerSlot
    BY DEF IInv
  <1> QED
    BY <1>1, Invariance, PTL

(* A Hook goes on with a binding, a grant or the value of a Secret that was taken away only while  *)
(* the request that took it away still owes the cancellation.                                      *)
THEOREM RevocationReaches == Spec => []RevokedIsCancelled
  <1>1. IInv => RevokedIsCancelled
    <2> SUFFICES ASSUME IInv, NEW c \in Caller, calls[c].stage = "invoking", ~calls[c].cancelled
                 PROVE  Authorized(c) \/ \E o \in owed : o.of \in {calls[c].pins.ext, calls[c].pins.secret}
      BY DEF RevokedIsCancelled
    <2>1. OwingOf(calls[c].pins, calls[c].version)
      BY DEF IInv, Owing, Running
    <2> QED
      BY <2>1 DEF OwingOf, EnabledOrDue, CoveredOrDue, Stranded, SecretOrDue, VersionOrDue, Due, Authorized
  <1> QED
    BY <1>1, Invariance, PTL

(* An intent is settled once: its outcome stays through ends that come late, cancellations, a      *)
(* closed Service and restarts, and a Hook that was started is never started again.                *)
THEOREM IntentsSettleOnce == Spec => IntentsStand
  <1> DEFINE Stands ==
        \A i \in Intent :
          /\ intents[i].status \in Terminal => intents'[i] = intents[i]
          /\ intents[i].status = "running" => intents'[i].status \in Terminal \cup {"running"}
  <1>1. ASSUME IInv, [Next]_vars
        PROVE  Stands
    <2>1. "none" \notin Terminal /\ "pending" \notin Terminal /\ "running" \notin Terminal
          /\ {"succeeded", "failed", "cancelled", "interrupted"} \subseteq Terminal
      BY DEF Terminal
    <2>2. CASE UNCHANGED intents
      BY <2>2
    <2>3. ASSUME NEW set, CancelPending(set)
          PROVE  Stands
      <3>1. \A i \in Intent : intents[i].status # "pending" => intents'[i] = intents[i]
        BY <1>1, <2>3, PendingCancelled DEF IInv
      <3> QED
        BY <2>1, <3>1
    <2>4. ASSUME NEW i \in Intent, NEW s \in Terminal \cup {"running"}, Settle(i, s),
                 intents[i].status \notin Terminal, intents[i].status = "running" => s \in Terminal
          PROVE  Stands
      BY <1>1, <2>4, Settled
    <2>5. CASE Administer
      BY <2>2, <2>3, <2>5 DEF Administer, Create, Replace, Enable, Disable, CreateSecret,
         ReplaceSecretValue, DeleteSecret, DeleteCollection, ReadConfiguration, CancelActive
    <2>6. ASSUME NEW i \in Intent, AppendIntent(i)
          PROVE  Stands
      <3>1. intents[i].status = "none" /\ \A j \in Intent : j # i => intents'[j] = intents[j]
        BY <2>6, NoneTyped DEF AppendIntent
      <3> QED
        BY <2>1, <3>1
    <2>7. ASSUME NEW i \in Intent, AfterCommit(i) \/ StartAfter(i) \/ StartAfterFails(i)
          PROVE  Stands
      BY <2>1, <2>2, <2>4, <2>7 DEF AfterCommit, StartAfter, StartAfterFails, Startable
    <2>8. ASSUME NEW i \in Intent, FinishAfter(i)
          PROVE  Stands
      <3>1. intents[i].status = "running" /\ Outcomes(i) \subseteq Terminal
        BY <1>1, <2>1, <2>8 DEF FinishAfter, IInv, Placed, Outcomes
      <3> QED
        BY <2>1, <2>2, <2>4, <2>8, <3>1 DEF FinishAfter
    <2>9. CASE Start
      <3>1. intents \in [Intent -> Row]
        BY <1>1, Types DEF IInv
      <3>2. ASSUME NEW i \in Intent, intents[i].status = "running"
            PROVE  intents'[i].status = "interrupted"
        BY <2>9, <3>1, <3>2 DEF Start, Interrupted, Row
      <3>3. ASSUME NEW i \in Intent, intents[i].status \in Terminal
            PROVE  intents'[i] = intents[i]
        BY <2>1, <2>9, <3>3 DEF Start, Interrupted
      <3> QED
        BY <2>1, <3>2, <3>3
    <2>10. ASSUME NEW w \in Writer, Before(w) \/ RegisterBefore(w) \/ CheckBinding(w) \/ EndBefore(w)
           PROVE  Stands
      BY <2>2, <2>10 DEF Before, RegisterBefore, CheckBinding, EndBefore
    <2>11. CASE Close \/ Stop \/ UNCHANGED vars
      BY <2>2, <2>11 DEF Close, Stop, vars
    <2> HIDE DEF Stands
    <2> QED
      BY <1>1, <2>5, <2>6, <2>7, <2>8, <2>9, <2>10, <2>11 DEF Next
  <1> QED
    BY <1>1, Invariance, PTL DEF Spec, IntentsStand
=============================================================================
