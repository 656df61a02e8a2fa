---------------------------- MODULE SchemaChanges ----------------------------
(***************************************************************************)
(* The schema changes of one Collection (src/internal/backendmodel:        *)
(* changes.go, apply.go, service.go) and its deletion                      *)
(* (src/internal/backendapi/deletion.go).                                  *)
(*                                                                         *)
(* Operations are saved into the one pending ChangeSet; Apply starts an    *)
(* ApplyAttempt in a first transaction, commits projection, model, history *)
(* and outcome in a second, and records a failure in a third.  Every       *)
(* transaction is an action, and between two of them anything may happen:  *)
(* Record writes, the deletion of the Collection or of a relation's        *)
(* target, a client that leaves, a crash.                                  *)
(*                                                                         *)
(* The model is what Apply judges: whether Field f is unique and whether a *)
(* Relation field r names another Collection.  A ChangeSet holds at most   *)
(* one operation on each; of several on one field the last one decides.    *)
(***************************************************************************)
EXTENDS Naturals

CONSTANTS
  Admin,          \* control plane clients
  ChangeSet, ApplyAttempt,   \* identities; their number bounds the exploration
  Record, Value,
  MaxVersion,     \* bound: edits of one ChangeSet
  None

ASSUME SchemaChangesAssumption ==
  /\ None \notin ChangeSet \cup ApplyAttempt \cup Value
  /\ MaxVersion \in Nat

FieldOperation    == {"none", "unique", "plain"}
RelationOperation == {"none", "add", "remove"}
Operations == [field: FieldOperation, relation: RelationOperation]
NoOperations == [field |-> "none", relation |-> "none"]

ActiveStatus   == {"ready", "failed"}
ChangeStatus   == {"none", "applied", "discarded"} \cup ActiveStatus
AttemptStatus  == {"none", "inProgress", "succeeded", "failed", "interrupted"}
Recovery       == {"none", "safeToRetry", "interrupted"}

VARIABLES
  exists,     \* the Collection's row, its Records table and all its rows
  target,     \* the Collection that r refers to exists
  model,      \* the Applied Model, and the indexes of the Records table
  records,    \* [Record -> Value or None]: the f of each Record
  change,     \* [ChangeSet -> a row of modelry_backend_changes]
  attempt,    \* [ApplyAttempt -> a row of modelry_backend_apply_attempts]
  history,    \* the rows of modelry_backend_applied_migrations
  call,       \* [Admin -> its running Apply request]
  up

dataVars == <<exists, target, model, records>>
vars == <<dataVars, change, attempt, history, call, up>>

NoChange  == [status |-> "none", version |-> 0, operations |-> NoOperations,
              recovery |-> "none"]
NoAttempt == [status |-> "none", change |-> None]
NoCall    == [at |-> "idle", attempt |-> None, change |-> None, version |-> 0,
              confirmed |-> FALSE, connected |-> TRUE]

Init ==
  /\ exists = TRUE
  /\ target = TRUE
  /\ model = [version |-> 1, unique |-> FALSE, related |-> FALSE]
  /\ records = [r \in Record |-> None]
  /\ change = [k \in ChangeSet |-> NoChange]
  /\ attempt = [t \in ApplyAttempt |-> NoAttempt]
  /\ history = {}
  /\ call = [a \in Admin |-> NoCall]
  /\ up = TRUE

-----------------------------------------------------------------------------
(* The pending ChangeSet. *)

Pending == {k \in ChangeSet : change[k].status \in ActiveStatus}

\* A guard kept in memory.
Requested(k) == \E a \in Admin : call[a].change = k

InProgress(k) ==
  \E t \in ApplyAttempt : attempt[t] = [status |-> "inProgress", change |-> k]

\* applyOperations refuses a relation that is there, or is not.
Applicable(operations) ==
  /\ operations.relation = "add" => ~model.related
  /\ operations.relation = "remove" => model.related

\* persistPending after an edit.
Edited(k, operations) ==
  /\ change[k].version < MaxVersion
  /\ Applicable(operations)
  /\ change' = [change EXCEPT ![k] =
       [status |-> IF operations = NoOperations THEN "discarded" ELSE "ready",
        version |-> @.version + 1, operations |-> operations,
        recovery |-> "none"]]
  /\ UNCHANGED <<dataVars, attempt, history, call, up>>

Saved(k, operations) ==
  \/ /\ operations.field = "none"
     /\ \E d \in {"unique", "plain"} :
          Edited(k, [operations EXCEPT !.field = d])
  \/ /\ operations.relation = "none"
     /\ \E d \in {"add", "remove"} :
          /\ d = "add" => target
          /\ Edited(k, [operations EXCEPT !.relation = d])

SaveOperation ==
  /\ up /\ exists
  /\ \/ \E k \in Pending : ~InProgress(k) /\ Saved(k, change[k].operations)
     \/ /\ Pending = {}
        /\ \E k \in ChangeSet : change[k] = NoChange /\ Saved(k, NoOperations)

\* A saved operation may change its definition, not its action.
UpdateOperation ==
  /\ up /\ exists
  /\ \E k \in Pending :
       /\ ~InProgress(k)
       /\ \/ \E d \in {"unique", "plain"} :
               /\ change[k].operations.field # "none"
               /\ Edited(k, [change[k].operations EXCEPT !.field = d])
          \/ /\ change[k].operations.relation = "add" /\ target
             /\ Edited(k, change[k].operations)

RemoveOperation ==
  /\ up /\ exists
  /\ \E k \in Pending :
       /\ ~InProgress(k)
       /\ \/ /\ change[k].operations.field # "none"
             /\ Edited(k, [change[k].operations EXCEPT !.field = "none"])
          \/ /\ change[k].operations.relation # "none"
             /\ Edited(k, [change[k].operations EXCEPT !.relation = "none"])

DiscardUnguarded(k) ==
  change' = [change EXCEPT ![k].status = "discarded",
                           ![k].version = @ + 1, ![k].recovery = "none"]

Discarded(k) == ~InProgress(k) /\ DiscardUnguarded(k)

Discard ==
  /\ up /\ exists
  /\ \E k \in Pending : change[k].version <= MaxVersion /\ Discarded(k)
  /\ UNCHANGED <<dataVars, attempt, history, call, up>>

-----------------------------------------------------------------------------
(* The evaluation of a ChangeSet against the model and the Records of now. *)

Outcome(operations) ==
  [version |-> model.version + 1,
   unique  |-> \/ operations.field = "unique"
               \/ operations.field = "none" /\ model.unique,
   related |-> \/ operations.relation = "add"
               \/ operations.relation = "none" /\ model.related]

Repeats(values) == \E r, s \in Record :
                     r # s /\ values[r] # None /\ values[r] = values[s]

TargetMissing(m)  == m.related /\ ~target
UniqueConflict(m) == m.unique /\ Repeats(records)

BlockedByValues(operations) == UniqueConflict(Outcome(operations))

Blocked(operations) ==
  TargetMissing(Outcome(operations)) \/ UniqueConflict(Outcome(operations))

NeedsReview(operations) ==
  \/ Outcome(operations).unique # model.unique
  \/ model.related /\ ~Outcome(operations).related

\* The unique index of a table refuses values that repeat.
NoIndex(m, values) == FALSE

IndexRefuses(m, values) == m.unique /\ Repeats(values)

-----------------------------------------------------------------------------
(* Apply. *)

Started(a, k, t, confirmed, next) ==
  /\ attempt' = [attempt EXCEPT ![t] = [status |-> "inProgress", change |-> k]]
  /\ call' = [call EXCEPT ![a] =
       [at |-> next, attempt |-> t, change |-> k, version |-> change[k].version,
        confirmed |-> confirmed, connected |-> TRUE]]
  /\ UNCHANGED <<dataVars, change, history, up>>

\* The first transaction.  A change that repeated values block gets an
\* attempt that fails; any other refusal leaves nothing behind.
BeginApply(a, confirmed) ==
  /\ up /\ exists /\ call[a] = NoCall
  /\ \E k \in Pending, t \in ApplyAttempt :
       LET operations == change[k].operations IN
       /\ ~InProgress(k)
       /\ attempt[t] = NoAttempt
       /\ \/ /\ UniqueConflict(Outcome(operations))
             /\ Started(a, k, t, confirmed, "failing")
          \/ /\ ~Blocked(operations)
             /\ NeedsReview(operations) => confirmed
             /\ Started(a, k, t, confirmed, "begun")

\* The second transaction re-reads the change and evaluates it again.
StillApplies(a) ==
  LET operations == change[call[a].change].operations IN
  /\ exists
  /\ change[call[a].change].status \in ActiveStatus
  /\ change[call[a].change].version = call[a].version
  /\ ~Blocked(operations)
  /\ NeedsReview(operations) => call[a].confirmed

AppliedChange(k) ==
  [change EXCEPT ![k].status = "applied", ![k].version = @ + 1,
                 ![k].recovery = "none"]

CommitApply(a) ==
  LET k    == call[a].change
      t    == call[a].attempt
      next == Outcome(change[k].operations)
  IN /\ up /\ call[a].at = "begun" /\ call[a].connected
     /\ StillApplies(a)
     /\ ~IndexRefuses(next, records)
     /\ model' = next
     /\ history' = history \cup
          {[change |-> k, attempt |-> t, version |-> next.version]}
     /\ attempt' = [attempt EXCEPT ![t].status =
          IF @ = "inProgress" THEN "succeeded" ELSE @]
     /\ change' = AppliedChange(k)
     /\ call' = [call EXCEPT ![a] = NoCall]
     /\ UNCHANGED <<exists, target, records, up>>

\* It may fail for any reason: a conflict, the evaluation, a busy database.
ApplyFails(a) ==
  /\ up /\ call[a].at = "begun"
  /\ call' = [call EXCEPT ![a].at = "failing"]
  /\ UNCHANGED <<dataVars, change, attempt, history, up>>

Failed(k, recovery) ==
  IF change[k].status \in ActiveStatus
  THEN [change EXCEPT ![k].status = "failed", ![k].recovery = recovery]
  ELSE change

\* The third transaction may fail in its turn, whose error only goes into the
\* answer: the database is busy; the client has gone, under whose context it
\* runs; or the Collection has, and with it the attempt.
RecordApplyFailure(a) ==
  LET k == call[a].change
      t == call[a].attempt
  IN /\ up /\ call[a].at = "failing"
     /\ \/ /\ call[a].connected /\ attempt[t].status = "inProgress"
           /\ attempt' = [attempt EXCEPT ![t].status = "failed"]
           /\ change' = Failed(k, "safeToRetry")
        \/ UNCHANGED <<attempt, change>>
     /\ call' = [call EXCEPT ![a] = NoCall]
     /\ UNCHANGED <<dataVars, history, up>>

Disconnect(a) ==
  /\ up /\ call[a] # NoCall /\ call[a].connected
  /\ call' = [call EXCEPT ![a].connected = FALSE]
  /\ UNCHANGED <<dataVars, change, attempt, history, up>>

-----------------------------------------------------------------------------
(* Records, and Collections that go. *)

\* One transaction, verified against the model it was prepared for.
WriteRecord(r, v) ==
  LET written == [records EXCEPT ![r] = v] IN
  /\ up /\ exists
  /\ ~IndexRefuses(model, written)
  /\ records' = written
  /\ UNCHANGED <<exists, target, model, change, attempt, history, call, up>>

\* The refusal looks for changes in a status nothing ever gives them.
Applying == \E k \in ChangeSet : change[k].status = "applying"

DeleteCollection ==
  /\ up /\ exists /\ ~Applying
  /\ exists'  = FALSE
  /\ records' = [r \in Record |-> None]
  /\ change'  = [k \in ChangeSet |-> NoChange]
  /\ attempt' = [t \in ApplyAttempt |-> NoAttempt]
  /\ history' = {}
  /\ UNCHANGED <<target, model, call, up>>

DeleteTarget ==
  /\ up /\ target
  /\ target' = FALSE
  /\ UNCHANGED <<exists, model, records, change, attempt, history, call, up>>

-----------------------------------------------------------------------------
(* The process. *)

Crash ==
  /\ up
  /\ up' = FALSE
  /\ call' = [a \in Admin |-> NoCall]
  /\ UNCHANGED <<dataVars, change, attempt, history>>

Interrupted(t) ==
  IF attempt[t].status = "inProgress"
  THEN [attempt[t] EXCEPT !.status = "interrupted"] ELSE attempt[t]

\* recoverInterrupted.
Restart ==
  /\ ~up
  /\ up' = TRUE
  /\ attempt' = [t \in ApplyAttempt |-> Interrupted(t)]
  /\ change' = [k \in ChangeSet |->
       IF InProgress(k) THEN Failed(k, "interrupted")[k] ELSE change[k]]
  /\ UNCHANGED <<dataVars, history, call>>

-----------------------------------------------------------------------------
Edit == SaveOperation \/ UpdateOperation \/ RemoveOperation \/ Discard

Apply(a) == \/ \E confirmed \in BOOLEAN : BeginApply(a, confirmed)
            \/ CommitApply(a)
            \/ ApplyFails(a)
            \/ RecordApplyFailure(a)
            \/ Disconnect(a)

Next ==
  \/ Edit
  \/ \E a \in Admin : Apply(a)
  \/ \E r \in Record, v \in Value \cup {None} : WriteRecord(r, v)
  \/ DeleteCollection
  \/ DeleteTarget
  \/ Crash
  \/ Restart

Spec == Init /\ [][Next]_vars

-----------------------------------------------------------------------------
(* Properties. *)

AttemptState == [status: AttemptStatus, change: ChangeSet \cup {None}]

CallType ==
  [at: {"begun", "failing"}, attempt: ApplyAttempt, change: ChangeSet,
   version: Nat, confirmed: BOOLEAN, connected: BOOLEAN] \cup {NoCall}

\* Every variable stays in its type; a ChangeSet has no status "applying".
TypeOK ==
  /\ exists \in BOOLEAN /\ target \in BOOLEAN /\ up \in BOOLEAN
  /\ model \in [version: Nat, unique: BOOLEAN, related: BOOLEAN]
  /\ records \in [Record -> Value \cup {None}]
  /\ change \in [ChangeSet -> [status: ChangeStatus, version: Nat,
                               operations: Operations, recovery: Recovery]]
  /\ attempt \in [ApplyAttempt -> AttemptState]
  /\ history \subseteq [change: ChangeSet, attempt: ApplyAttempt, version: Nat]
  /\ call \in [Admin -> CallType]

\* Nobody edits, discards or applies a ChangeSet under an Apply that evaluated
\* it: its second transaction finds the version that was confirmed.
ApplyHoldsTheChange ==
  \A a \in Admin : exists /\ call[a].at = "begun" =>
    /\ change[call[a].change].status \in ActiveStatus
    /\ change[call[a].change].version = call[a].version
    /\ attempt[call[a].attempt] = [status |-> "inProgress",
                                   change |-> call[a].change]

\* A ChangeSet has one attempt in progress at most, also when the request of
\* the first one is gone and only its row is left.
OneAttempt ==
  \A s, t \in ApplyAttempt :
    attempt[s].status = "inProgress" /\ attempt[t].status = "inProgress"
      /\ attempt[s].change = attempt[t].change => s = t

Held(t) == \E a \in Admin : call[a].attempt = t

FailedIn(t) == \E a \in Admin : call[a].attempt = t /\ call[a].at = "failing"

\* An attempt in progress blocks edits, Discard and Apply, so its request must
\* end it, and a restart those a crash left.  The code has one gap: an Apply
\* failed, and its failure could not be recorded either; its attempt stays in
\* progress until the next start or the deletion of the Collection.  While the
\* process is up, no attempt loses its request in another way.
OnlyFailuresStrand ==
  [][\A t \in ApplyAttempt :
       up' /\ attempt'[t].status = "inProgress" /\ ~Held(t)' =>
         /\ up /\ attempt[t].status = "inProgress"
         /\ Held(t) => FailedIn(t)]_vars

\* A Field that is unique in the Applied Model has no value twice, although
\* Records are written between the evaluation and the commit of an Apply.
UniqueHolds == ~UniqueConflict(model)

\* A relation enters the model only while its target exists, even when the
\* target is deleted after the Apply began.
RelationTargetChecked == [][~model.related /\ model'.related => target]_vars

Ended == {"succeeded", "failed", "interrupted"}

=============================================================================
