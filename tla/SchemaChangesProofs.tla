-------------------------- MODULE SchemaChangesProofs --------------------------
(***************************************************************************)
(* Proofs about SchemaChanges for any number of clients, ChangeSets,       *)
(* attempts, Records and values.  The inductive invariant IInv says who    *)
(* holds what: an attempt in progress belongs to one active ChangeSet, a   *)
(* ChangeSet to one such attempt, and a running Apply to its own attempt.  *)
(* The guard ensureNoInProgressAttempt then keeps everyone else away from  *)
(* the ChangeSet, and the properties follow.                               *)
(***************************************************************************)
EXTENDS SchemaChanges, TLAPS

USE SchemaChangesAssumption

ChangeType == [status: ChangeStatus, version: Nat, operations: Operations,
               recovery: Recovery]

(* What all edits have in common: a ChangeSet that is pending or new, and   *)
(* under no Apply, takes a new version without a recovery.                  *)
EditOf(k) ==
  /\ exists
  /\ change[k].status \in ActiveStatus \cup {"none"}
  /\ ~InProgress(k)
  /\ \E c \in ChangeType :
       /\ c.status \in {"ready", "discarded"}
       /\ c.recovery = "none"
       /\ change' = [change EXCEPT ![k] = c]
  /\ UNCHANGED <<dataVars, attempt, history, call, up>>

(* An attempt in progress belongs to an active ChangeSet. *)
AttemptsActive ==
  \A t \in ApplyAttempt : attempt[t].status = "inProgress" =>
    /\ attempt[t].change \in ChangeSet
    /\ change[attempt[t].change].status \in ActiveStatus

(* A running Apply has an attempt in progress, and its own. *)
CallsHold ==
  \A a \in Admin : exists /\ call[a] # NoCall =>
    attempt[call[a].attempt] = [status |-> "inProgress", change |-> call[a].change]

CallsApart ==
  \A a, b \in Admin : call[a] # NoCall /\ call[b] # NoCall
    /\ call[a].attempt = call[b].attempt => a = b

(* A Collection that is gone has no attempts. *)
Gone == ~exists => \A t \in ApplyAttempt : attempt[t] = NoAttempt

IInv ==
  /\ TypeOK
  /\ Gone
  /\ AttemptsActive
  /\ OneAttempt
  /\ CallsHold
  /\ CallsApart
  /\ ApplyHoldsTheChange

-----------------------------------------------------------------------------
(* Types. *)

LEMMA NoCallTyped == NoCall \in CallType /\ NoCall.at = "idle"
  BY DEF NoCall, CallType

LEMMA RunningCall ==
  ASSUME TypeOK, NEW a \in Admin, call[a] # NoCall
  PROVE  /\ call[a] \in [at: {"begun", "failing"}, attempt: ApplyAttempt,
                         change: ChangeSet, version: Nat, confirmed: BOOLEAN,
                         connected: BOOLEAN]
         /\ call[a].at \in {"begun", "failing"}
         /\ call[a].attempt \in ApplyAttempt /\ call[a].change \in ChangeSet
         /\ call[a].version \in Nat
  <1>1. call[a] \in CallType
    BY DEF TypeOK
  <1> QED BY <1>1 DEF CallType

LEMMA EditedTyped ==
  ASSUME TypeOK, NEW k \in ChangeSet, NEW o \in Operations, Edited(k, o),
         exists, ~InProgress(k), change[k].status \in ActiveStatus \cup {"none"}
  PROVE  EditOf(k)
  <1> DEFINE c == [status |-> IF o = NoOperations THEN "discarded" ELSE "ready",
                   version |-> change[k].version + 1, operations |-> o,
                   recovery |-> "none"]
  <1>1. change[k].version \in Nat
    BY DEF TypeOK
  <1>2. c \in ChangeType
    BY <1>1 DEF ChangeType, ChangeStatus, ActiveStatus, Recovery
  <1>3. change' = [change EXCEPT ![k] = c] /\ c.status \in {"ready", "discarded"}
        /\ c.recovery = "none"
    BY DEF Edited
  <1>4. UNCHANGED <<dataVars, attempt, history, call, up>>
    BY DEF Edited
  <1> HIDE DEF c
  <1> QED BY <1>2, <1>3, <1>4 DEF EditOf

(* An attempt in progress names an active ChangeSet, so a new one has none. *)
LEMMA NewChangeIsFree ==
  ASSUME AttemptsActive, NEW k \in ChangeSet, change[k] = NoChange
  PROVE  change[k].status = "none" /\ ~InProgress(k)
  BY DEF AttemptsActive, NoChange, InProgress, ActiveStatus

LEMMA OperationsTyped ==
  ASSUME TypeOK, NEW k \in ChangeSet
  PROVE  /\ change[k].operations \in Operations
         /\ NoOperations \in Operations
         /\ \A o \in Operations :
              /\ \A d \in FieldOperation : [o EXCEPT !.field = d] \in Operations
              /\ \A d \in RelationOperation :
                   [o EXCEPT !.relation = d] \in Operations
  BY DEF TypeOK, Operations, NoOperations, FieldOperation, RelationOperation

LEMMA SavedIsEdit ==
  ASSUME TypeOK, NEW k \in ChangeSet, NEW o \in Operations, Saved(k, o),
         exists, ~InProgress(k), change[k].status \in ActiveStatus \cup {"none"}
  PROVE  EditOf(k)
  <1>1. \E p \in Operations : Edited(k, p)
    BY OperationsTyped DEF Saved, FieldOperation, RelationOperation
  <1> QED BY <1>1, EditedTyped

(* SaveOperation, UpdateOperation, RemoveOperation and Discard. *)
LEMMA EveryEdit ==
  ASSUME TypeOK, AttemptsActive, Edit
  PROVE  \E k \in ChangeSet : EditOf(k)
  <1>1. CASE SaveOperation
    <2>1. ASSUME NEW k \in Pending, ~InProgress(k), Saved(k, change[k].operations)
          PROVE  EditOf(k)
      BY <1>1, <2>1, OperationsTyped, SavedIsEdit DEF SaveOperation, Pending
    <2>2. ASSUME NEW k \in ChangeSet, change[k] = NoChange, Saved(k, NoOperations)
          PROVE  EditOf(k)
      BY <1>1, <2>2, OperationsTyped, NewChangeIsFree, SavedIsEdit DEF SaveOperation
    <2> QED BY <1>1, <2>1, <2>2 DEF SaveOperation, Pending
  <1>2. CASE UpdateOperation
    <2>1. PICK k \in Pending : ~InProgress(k) /\ \E p \in Operations : Edited(k, p)
      BY <1>2, OperationsTyped DEF UpdateOperation, Pending, FieldOperation
    <2> QED BY <1>2, <2>1, EditedTyped DEF UpdateOperation, Pending
  <1>3. CASE RemoveOperation
    <2>1. PICK k \in Pending : ~InProgress(k) /\ \E p \in Operations : Edited(k, p)
      BY <1>3, OperationsTyped DEF RemoveOperation, Pending, FieldOperation,
         RelationOperation
    <2> QED BY <1>3, <2>1, EditedTyped DEF RemoveOperation, Pending
  <1>4. CASE Discard
    <2>1. PICK k \in Pending : Discarded(k)
      BY <1>4 DEF Discard
    <2> DEFINE c == [status |-> "discarded", version |-> change[k].version + 1,
                     operations |-> change[k].operations, recovery |-> "none"]
    <2>2. change[k] \in ChangeType
      BY <2>1 DEF TypeOK, Pending, ChangeType
    <2>3. c \in ChangeType /\ c.status = "discarded" /\ c.recovery = "none"
      BY <2>2 DEF ChangeType, ChangeStatus, Recovery
    <2>4. change' = [change EXCEPT ![k] = c]
      BY <2>1, <2>2 DEF Discarded, DiscardUnguarded, TypeOK, Pending
    <2>5. ~InProgress(k) /\ change[k].status \in ActiveStatus /\ k \in ChangeSet
      BY <2>1 DEF Discarded, Pending
    <2>6. exists /\ UNCHANGED <<dataVars, attempt, history, call, up>>
      BY <1>4 DEF Discard
    <2> HIDE DEF c
    <2> QED BY <2>3, <2>4, <2>5, <2>6 DEF EditOf
  <1> QED BY <1>1, <1>2, <1>3, <1>4 DEF Edit

-----------------------------------------------------------------------------
(* The inductive invariant, one lemma for each action. *)

LEMMA InitIInv == Init => IInv
  <1> SUFFICES ASSUME Init PROVE IInv
    OBVIOUS
  <1>1. TypeOK
    BY NoCallTyped DEF Init, TypeOK, NoChange, NoAttempt, AttemptState,
       ChangeStatus, AttemptStatus, Operations, NoOperations, FieldOperation,
       RelationOperation, Recovery
  <1>2. \A t \in ApplyAttempt : attempt[t].status = "none"
    BY DEF Init, NoAttempt
  <1>3. \A a \in Admin : call[a] = NoCall
    BY DEF Init
  <1>4. AttemptsActive /\ OneAttempt
    BY <1>2 DEF AttemptsActive, OneAttempt
  <1>5. CallsHold /\ CallsApart /\ ApplyHoldsTheChange
    BY <1>3, NoCallTyped DEF CallsHold, CallsApart, ApplyHoldsTheChange
  <1>6. Gone
    BY DEF Init, Gone
  <1> QED BY <1>1, <1>4, <1>5, <1>6 DEF IInv

(* Whoever edits a ChangeSet without an attempt in progress disturbs no Apply. *)
LEMMA EditKeeps ==
  ASSUME IInv, NEW k \in ChangeSet, EditOf(k)
  PROVE  IInv'
  <1>1. PICK c \in ChangeType :
          c.status \in {"ready", "discarded"} /\ change' = [change EXCEPT ![k] = c]
    BY DEF EditOf
  <1>2. UNCHANGED <<dataVars, attempt, history, call, up>>
    BY DEF EditOf
  <1>3. change' \in [ChangeSet -> ChangeType]
        /\ \A j \in ChangeSet : j # k => change'[j] = change[j]
    BY <1>1 DEF IInv, TypeOK, ChangeType
  <1>4. TypeOK'
    BY <1>2, <1>3 DEF IInv, TypeOK, dataVars, ChangeType
  <1>5. \A t \in ApplyAttempt :
          attempt[t].status = "inProgress" => attempt[t].change # k
    <2> SUFFICES ASSUME NEW t \in ApplyAttempt, attempt[t].status = "inProgress",
                        attempt[t].change = k
                 PROVE  FALSE
      OBVIOUS
    <2>1. attempt[t] = [status |-> "inProgress", change |-> k]
      BY DEF IInv, TypeOK, AttemptState
    <2> QED BY <2>1 DEF EditOf, InProgress
  <1>6. AttemptsActive'
    BY <1>2, <1>3, <1>5 DEF IInv, AttemptsActive
  <1>7. OneAttempt' /\ CallsHold' /\ CallsApart'
    BY <1>2 DEF IInv, OneAttempt, CallsHold, CallsApart, dataVars
  <1>8. ApplyHoldsTheChange'
    BY <1>2, <1>3, <1>5 DEF IInv, ApplyHoldsTheChange, AttemptsActive, TypeOK,
       CallType, NoCall, dataVars
  <1>9. Gone'
    BY <1>2 DEF EditOf, Gone, dataVars
  <1> QED BY <1>4, <1>6, <1>7, <1>8, <1>9 DEF IInv

LEMMA StartedKeeps ==
  ASSUME IInv, exists, NEW a \in Admin, call[a] = NoCall,
         NEW k \in Pending, NEW t \in ApplyAttempt, ~InProgress(k),
         attempt[t] = NoAttempt, NEW confirmed \in BOOLEAN,
         NEW next \in {"begun", "failing"}, Started(a, k, t, confirmed, next)
  PROVE  IInv'
  <1> DEFINE new == [at |-> next, attempt |-> t, change |-> k,
                     version |-> change[k].version, confirmed |-> confirmed,
                     connected |-> TRUE]
  <1>1. /\ k \in ChangeSet /\ change[k].status \in ActiveStatus
        /\ change[k].version \in Nat
    BY DEF Pending, IInv, TypeOK
  <1>2. /\ attempt' = [attempt EXCEPT ![t] =
                         [status |-> "inProgress", change |-> k]]
        /\ call' = [call EXCEPT ![a] = new]
        /\ UNCHANGED <<dataVars, change, history, up>>
    BY DEF Started
  <1>3. new \in CallType /\ new # NoCall
    BY <1>1 DEF CallType, NoCall
  <1>4. attempt' \in [ApplyAttempt -> AttemptState]
    BY <1>1, <1>2 DEF IInv, TypeOK, AttemptState, AttemptStatus
  <1>5. TypeOK'
    BY <1>2, <1>3, <1>4 DEF IInv, TypeOK, dataVars
  <1>6. /\ attempt'[t] = [status |-> "inProgress", change |-> k]
        /\ \A s \in ApplyAttempt : s # t => attempt'[s] = attempt[s]
        /\ call'[a] = new
        /\ \A b \in Admin : b # a => call'[b] = call[b]
    BY <1>2 DEF IInv, TypeOK
  <1>7. \A s \in ApplyAttempt :
          attempt[s].status = "inProgress" => attempt[s].change # k
    <2> SUFFICES ASSUME NEW s \in ApplyAttempt, attempt[s].status = "inProgress",
                        attempt[s].change = k
                 PROVE  FALSE
      OBVIOUS
    <2>1. attempt[s] = [status |-> "inProgress", change |-> k]
      BY DEF IInv, TypeOK, AttemptState
    <2> QED BY <2>1 DEF InProgress
  <1>8. AttemptsActive'
    BY <1>1, <1>2, <1>6 DEF IInv, AttemptsActive
  <1>9. OneAttempt'
    <2>1. attempt'[t].change = k
      BY <1>6
    <2> SUFFICES ASSUME NEW r \in ApplyAttempt, NEW s \in ApplyAttempt, r # s,
                        attempt'[r].status = "inProgress",
                        attempt'[s].status = "inProgress"
                 PROVE  attempt'[r].change # attempt'[s].change
      BY DEF OneAttempt
    <2>2. CASE r = t
      BY <2>1, <2>2, <1>6, <1>7
    <2>3. CASE s = t
      BY <2>1, <2>3, <1>6, <1>7
    <2>4. CASE r # t /\ s # t
      BY <2>4, <1>6 DEF IInv, OneAttempt
    <2> QED BY <2>2, <2>3, <2>4
  <1>10. \A b \in Admin : call[b] # NoCall => call[b].attempt # t
    <2> SUFFICES ASSUME NEW b \in Admin, call[b] # NoCall, call[b].attempt = t
                 PROVE  FALSE
      OBVIOUS
    <2>1. attempt[t] = [status |-> "inProgress", change |-> call[b].change]
      BY DEF IInv, CallsHold
    <2> QED BY <2>1 DEF NoAttempt
  <1>11. CallsHold'
    <2> SUFFICES ASSUME NEW b \in Admin, call'[b] # NoCall
                 PROVE  attempt'[call'[b].attempt]
                          = [status |-> "inProgress", change |-> call'[b].change]
      BY DEF CallsHold
    <2>1. CASE b = a
      BY <2>1, <1>6
    <2>2. CASE b # a
      <3>1. call'[b] = call[b] /\ call[b] # NoCall
        BY <2>2, <1>6
      <3>2. attempt'[call[b].attempt] = attempt[call[b].attempt]
        BY <3>1, <1>6, <1>10, RunningCall DEF IInv
      <3> QED BY <3>1, <3>2 DEF IInv, CallsHold
    <2> QED BY <2>1, <2>2
  <1>12. CallsApart'
    BY <1>6, <1>10 DEF IInv, CallsApart
  <1>13. ApplyHoldsTheChange'
    <2> SUFFICES ASSUME NEW b \in Admin, call'[b].at = "begun"
                 PROVE  /\ change[call'[b].change].status \in ActiveStatus
                        /\ change[call'[b].change].version = call'[b].version
                        /\ attempt'[call'[b].attempt]
                             = [status |-> "inProgress", change |-> call'[b].change]
      BY <1>2 DEF ApplyHoldsTheChange
    <2>1. CASE b = a
      BY <2>1, <1>1, <1>6
    <2>2. CASE b # a
      <3>1. call'[b] = call[b] /\ call[b] # NoCall
        BY <2>2, <1>6, NoCallTyped
      <3>2. attempt'[call[b].attempt] = attempt[call[b].attempt]
        BY <3>1, <1>6, <1>10, RunningCall DEF IInv
      <3> QED BY <3>1, <3>2 DEF IInv, ApplyHoldsTheChange
    <2> QED BY <2>1, <2>2
  <1>14. Gone'
    BY <1>2 DEF Gone, dataVars
  <1> HIDE DEF new
  <1> QED BY <1>5, <1>8, <1>9, <1>11, <1>12, <1>13, <1>14 DEF IInv

LEMMA BeginKeeps ==
  ASSUME IInv, NEW a \in Admin, NEW confirmed \in BOOLEAN, BeginApply(a, confirmed)
  PROVE  IInv'
  BY StartedKeeps DEF BeginApply

(* The end of a call: its attempt ends, and nobody else has it. *)
LEMMA EndKeeps ==
  ASSUME IInv, NEW a \in Admin, call[a] # NoCall,
         NEW status \in AttemptStatus \ {"inProgress"},
         exists, exists',
         attempt' = [attempt EXCEPT ![call[a].attempt].status = status],
         change' \in [ChangeSet -> ChangeType],
         \A k \in ChangeSet : k # call[a].change => change'[k] = change[k],
         call' = [call EXCEPT ![a] = NoCall],
         model' \in [version: Nat, unique: BOOLEAN, related: BOOLEAN],
         history' \subseteq [change: ChangeSet, attempt: ApplyAttempt, version: Nat],
         UNCHANGED <<target, records, up>>
  PROVE  IInv'
  <1> DEFINE t == call[a].attempt
             k == call[a].change
  <1>1. t \in ApplyAttempt /\ k \in ChangeSet
    BY RunningCall DEF IInv
  <1>2. attempt[t].status = "inProgress" /\ attempt[t].change = k
    <2>1. attempt[t] = [status |-> "inProgress", change |-> k]
      BY DEF IInv, CallsHold
    <2> QED BY <2>1
  <1>3. attempt' \in [ApplyAttempt -> AttemptState]
    BY <1>1 DEF IInv, TypeOK, AttemptState
  <1>4. /\ attempt'[t].status = status
        /\ \A s \in ApplyAttempt : s # t => attempt'[s] = attempt[s]
        /\ call'[a] = NoCall
        /\ \A b \in Admin : b # a => call'[b] = call[b]
    BY <1>1 DEF IInv, TypeOK, AttemptState
  <1>5. TypeOK'
    BY <1>3, NoCallTyped DEF IInv, TypeOK, ChangeType
  <1>6. \A s \in ApplyAttempt : s # t /\ attempt[s].status = "inProgress"
                                  => attempt[s].change # k
    BY <1>1, <1>2 DEF IInv, OneAttempt
  <1>7. \A s \in ApplyAttempt : attempt'[s].status = "inProgress"
                                  => s # t /\ attempt'[s] = attempt[s]
    BY <1>4
  <1>8. AttemptsActive' /\ OneAttempt'
    BY <1>6, <1>7 DEF IInv, AttemptsActive, OneAttempt
  <1>9. \A b \in Admin : call'[b] # NoCall =>
          /\ call'[b] = call[b] /\ call[b] # NoCall /\ call[b].attempt # t
    BY <1>4 DEF IInv, CallsApart
  <1>10. \A b \in Admin : call'[b] # NoCall =>
          /\ attempt'[call[b].attempt] = attempt[call[b].attempt]
          /\ attempt[call[b].attempt]
               = [status |-> "inProgress", change |-> call[b].change]
          /\ call[b].change # k
    <2> SUFFICES ASSUME NEW b \in Admin, call'[b] # NoCall
                 PROVE  /\ attempt'[call[b].attempt] = attempt[call[b].attempt]
                        /\ attempt[call[b].attempt]
                             = [status |-> "inProgress", change |-> call[b].change]
                        /\ call[b].change # k
      OBVIOUS
    <2>1. call[b] # NoCall /\ call[b].attempt # t
      BY <1>9
    <2>2. call[b].attempt \in ApplyAttempt
      BY <2>1, RunningCall DEF IInv
    <2>3. attempt[call[b].attempt]
            = [status |-> "inProgress", change |-> call[b].change]
      BY <2>1 DEF IInv, CallsHold
    <2>4. call[b].change # k
      BY <2>1, <2>2, <2>3, <1>6
    <2> QED BY <2>1, <2>2, <2>3, <2>4, <1>4
  <1>11. CallsHold' /\ CallsApart'
    BY <1>9, <1>10 DEF IInv, CallsHold, CallsApart
  <1>12. ApplyHoldsTheChange'
    <2> SUFFICES ASSUME NEW b \in Admin, call'[b].at = "begun"
                 PROVE  /\ change'[call'[b].change].status \in ActiveStatus
                        /\ change'[call'[b].change].version = call'[b].version
                        /\ attempt'[call'[b].attempt]
                             = [status |-> "inProgress", change |-> call'[b].change]
      BY DEF ApplyHoldsTheChange
    <2>1. call'[b] # NoCall /\ call'[b] = call[b]
      BY <1>9, NoCallTyped
    <2>2. call[b].change \in ChangeSet
      BY <2>1, RunningCall DEF IInv
    <2>3. change'[call[b].change] = change[call[b].change]
      BY <2>1, <2>2, <1>10
    <2>4. attempt'[call[b].attempt]
            = [status |-> "inProgress", change |-> call[b].change]
      BY <2>1, <1>10 DEF IInv, CallsHold
    <2>5. /\ change[call[b].change].status \in ActiveStatus
          /\ change[call[b].change].version = call[b].version
      BY <2>1 DEF IInv, ApplyHoldsTheChange
    <2> QED BY <2>1, <2>3, <2>4, <2>5
  <1>13. Gone'
    BY DEF Gone
  <1> QED BY <1>5, <1>8, <1>11, <1>12, <1>13 DEF IInv

LEMMA OutcomeTyped ==
  ASSUME TypeOK, NEW o \in Operations
  PROVE  Outcome(o) \in [version: Nat, unique: BOOLEAN, related: BOOLEAN]
  <1>1. Outcome(o).version \in Nat
    BY DEF TypeOK, Outcome
  <1> QED BY <1>1 DEF TypeOK, Outcome

LEMMA CommitKeeps ==
  ASSUME IInv, NEW a \in Admin, CommitApply(a)
  PROVE  IInv'
  <1> DEFINE k == call[a].change
             t == call[a].attempt
             next == Outcome(change[k].operations)
  <1>1. call[a] # NoCall
    BY NoCallTyped DEF CommitApply
  <1>2. k \in ChangeSet /\ t \in ApplyAttempt
    BY <1>1, RunningCall DEF IInv
  <1>3. exists /\ exists' = exists /\ UNCHANGED <<target, records, up>>
    BY DEF CommitApply, StillApplies
  <1>4. attempt' = [attempt EXCEPT ![t].status = "succeeded"]
    <2>1. attempt[t] = [status |-> "inProgress", change |-> k]
      BY <1>1, <1>3 DEF IInv, CallsHold
    <2>2. attempt' = [attempt EXCEPT ![t].status =
                        IF @ = "inProgress" THEN "succeeded" ELSE @]
      BY DEF CommitApply
    <2> QED BY <2>1, <2>2
  <1>5. model' = next /\ next \in [version: Nat, unique: BOOLEAN, related: BOOLEAN]
    BY <1>2, OperationsTyped, OutcomeTyped DEF CommitApply, IInv
  <1>6. history' \subseteq [change: ChangeSet, attempt: ApplyAttempt, version: Nat]
    BY <1>2, <1>5 DEF CommitApply, IInv, TypeOK
  <1>7. /\ change' \in [ChangeSet -> ChangeType]
        /\ \A j \in ChangeSet : j # k => change'[j] = change[j]
    BY <1>2 DEF CommitApply, AppliedChange, IInv, TypeOK, ChangeType, ChangeStatus,
       Recovery
  <1>8. call' = [call EXCEPT ![a] = NoCall]
    BY DEF CommitApply
  <1>9. "succeeded" \in AttemptStatus \ {"inProgress"} /\ exists'
    BY <1>3 DEF AttemptStatus
  <1>10. model' \in [version: Nat, unique: BOOLEAN, related: BOOLEAN]
    BY <1>5
  <1> HIDE DEF next
  <1> QED BY <1>1, <1>3, <1>4, <1>6, <1>7, <1>8, <1>9, <1>10, EndKeeps

(* Only the call changes: what remains of it holds what it held. *)
LEMMA CallsKeep ==
  ASSUME IInv, UNCHANGED <<dataVars, change, attempt, history>>,
         up' \in BOOLEAN,
         call' \in [Admin -> CallType],
         \A a \in Admin : call'[a] # NoCall =>
           /\ call[a] # NoCall
           /\ call'[a].attempt = call[a].attempt
           /\ call'[a].change = call[a].change
           /\ call'[a].at = "begun" =>
                call[a].at = "begun" /\ call'[a].version = call[a].version
  PROVE  IInv'
  <1>1. UNCHANGED <<exists, target, model, records>>
    BY DEF dataVars
  <1>2. TypeOK'
    BY <1>1 DEF IInv, TypeOK
  <1>3. AttemptsActive' /\ OneAttempt' /\ Gone'
    BY <1>1 DEF IInv, AttemptsActive, OneAttempt, Gone
  <1>4. CallsHold' /\ CallsApart'
    BY <1>1 DEF IInv, CallsHold, CallsApart
  <1>5. ApplyHoldsTheChange'
    BY <1>1, NoCallTyped DEF IInv, ApplyHoldsTheChange
  <1> QED BY <1>2, <1>3, <1>4, <1>5 DEF IInv

LEMMA FailsKeeps ==
  ASSUME IInv, NEW a \in Admin, ApplyFails(a)
  PROVE  IInv'
  <1>1. call[a] # NoCall
    BY NoCallTyped DEF ApplyFails
  <1>2. call' = [call EXCEPT ![a].at = "failing"]
        /\ UNCHANGED <<dataVars, change, attempt, history, up>>
    BY DEF ApplyFails
  <1>3. [call[a] EXCEPT !.at = "failing"] \in CallType
    BY <1>1, RunningCall DEF IInv, CallType
  <1>4. call' \in [Admin -> CallType]
    BY <1>2, <1>3 DEF IInv, TypeOK
  <1>5. /\ call'[a].attempt = call[a].attempt /\ call'[a].change = call[a].change
        /\ call'[a].at = "failing"
        /\ \A b \in Admin : b # a => call'[b] = call[b]
    BY <1>1, <1>2, RunningCall DEF IInv, TypeOK
  <1>6. up' \in BOOLEAN
    BY <1>2 DEF IInv, TypeOK
  <1> QED BY <1>1, <1>2, <1>4, <1>5, <1>6, CallsKeep

LEMMA DisconnectKeeps ==
  ASSUME IInv, NEW a \in Admin, Disconnect(a)
  PROVE  IInv'
  <1>1. call[a] # NoCall
    BY DEF Disconnect
  <1>2. call' = [call EXCEPT ![a].connected = FALSE]
        /\ UNCHANGED <<dataVars, change, attempt, history, up>>
    BY DEF Disconnect
  <1>3. [call[a] EXCEPT !.connected = FALSE] \in CallType
    BY <1>1, RunningCall DEF IInv, CallType
  <1>4. call' \in [Admin -> CallType]
    BY <1>2, <1>3 DEF IInv, TypeOK
  <1>5. /\ call'[a].attempt = call[a].attempt /\ call'[a].change = call[a].change
        /\ call'[a].at = call[a].at /\ call'[a].version = call[a].version
        /\ \A b \in Admin : b # a => call'[b] = call[b]
    BY <1>1, <1>2, RunningCall DEF IInv, TypeOK
  <1>6. up' \in BOOLEAN
    BY <1>2 DEF IInv, TypeOK
  <1> QED BY <1>1, <1>2, <1>4, <1>5, <1>6, CallsKeep

LEMMA FailedTyped ==
  ASSUME TypeOK, NEW k \in ChangeSet, NEW recovery \in Recovery
  PROVE  /\ Failed(k, recovery) \in [ChangeSet -> ChangeType]
         /\ \A j \in ChangeSet : j # k => Failed(k, recovery)[j] = change[j]
         /\ Failed(k, recovery)[k].version = change[k].version
         /\ change[k].status \in ActiveStatus =>
              Failed(k, recovery)[k].status \in ActiveStatus
  <1>1. CASE change[k].status \in ActiveStatus
    <2>1. Failed(k, recovery) =
            [change EXCEPT ![k].status = "failed", ![k].recovery = recovery]
      BY <1>1 DEF Failed
    <2> DEFINE c == [change[k] EXCEPT !.status = "failed", !.recovery = recovery]
    <2>4. change[k] \in ChangeType
      BY DEF TypeOK, ChangeType
    <2>2. c \in ChangeType /\ c.version = change[k].version /\ c.status = "failed"
      BY <2>4 DEF ChangeType, ChangeStatus, ActiveStatus
    <2>3. Failed(k, recovery) = [change EXCEPT ![k] = c]
      BY <2>1 DEF TypeOK
    <2> HIDE DEF c
    <2> QED BY <2>2, <2>3 DEF TypeOK, ChangeType, ActiveStatus
  <1>2. CASE change[k].status \notin ActiveStatus
    <2>1. Failed(k, recovery) = change
      BY <1>2 DEF Failed
    <2> QED BY <2>1, <1>2 DEF TypeOK, ChangeType
  <1> QED BY <1>1, <1>2

LEMMA RecordFailureKeeps ==
  ASSUME IInv, NEW a \in Admin, RecordApplyFailure(a)
  PROVE  IInv'
  <1> DEFINE k == call[a].change
             t == call[a].attempt
  <1>1. call[a] # NoCall
    BY NoCallTyped DEF RecordApplyFailure
  <1>2. k \in ChangeSet /\ t \in ApplyAttempt
    BY <1>1, RunningCall DEF IInv
  <1>3. call' = [call EXCEPT ![a] = NoCall] /\ UNCHANGED <<dataVars, history, up>>
    BY DEF RecordApplyFailure
  <1>4. CASE /\ attempt[t].status = "inProgress"
             /\ attempt' = [attempt EXCEPT ![t].status = "failed"]
             /\ change' = Failed(k, "safeToRetry")
    <2>1. exists
      BY <1>2, <1>4 DEF IInv, Gone, NoAttempt
    <2>2. /\ change' \in [ChangeSet -> ChangeType]
          /\ \A j \in ChangeSet : j # k => change'[j] = change[j]
      BY <1>2, <1>4, FailedTyped DEF IInv, Recovery
    <2>3. /\ model' \in [version: Nat, unique: BOOLEAN, related: BOOLEAN]
          /\ history' \subseteq [change: ChangeSet, attempt: ApplyAttempt, version: Nat]
          /\ UNCHANGED <<exists, target, records, up>>
      BY <1>3 DEF IInv, TypeOK, dataVars
    <2>4. "failed" \in AttemptStatus \ {"inProgress"}
      BY DEF AttemptStatus
    <2> QED BY <1>1, <1>3, <1>4, <2>1, <2>2, <2>3, <2>4, EndKeeps
  <1>5. CASE UNCHANGED <<attempt, change>>
    <2>1. call' \in [Admin -> CallType]
      BY <1>3, NoCallTyped DEF IInv, TypeOK
    <2>2. up' \in BOOLEAN
      BY <1>3 DEF IInv, TypeOK
    <2>3. \A b \in Admin : call'[b] # NoCall => call'[b] = call[b]
      BY <1>3 DEF IInv, TypeOK
    <2> QED BY <1>3, <1>5, <2>1, <2>2, <2>3, CallsKeep
  <1> QED BY <1>4, <1>5 DEF RecordApplyFailure

(* Records and the target of the relation are nobody's business here. *)
LEMMA DataKeeps ==
  ASSUME IInv, records' \in [Record -> Value \cup {None}], target' \in BOOLEAN,
         UNCHANGED <<exists, model, change, attempt, history, call, up>>
  PROVE  IInv'
  <1>1. TypeOK'
    BY DEF IInv, TypeOK
  <1>2. AttemptsActive' /\ OneAttempt' /\ Gone'
    BY DEF IInv, AttemptsActive, OneAttempt, Gone
  <1>3. CallsHold' /\ CallsApart' /\ ApplyHoldsTheChange'
    BY DEF IInv, CallsHold, CallsApart, ApplyHoldsTheChange
  <1> QED BY <1>1, <1>2, <1>3 DEF IInv

LEMMA WriteKeeps ==
  ASSUME IInv, NEW r \in Record, NEW v \in Value \cup {None}, WriteRecord(r, v)
  PROVE  IInv'
  <1>1. records' \in [Record -> Value \cup {None}]
    BY DEF WriteRecord, IInv, TypeOK
  <1>2. target' \in BOOLEAN
    BY DEF WriteRecord, IInv, TypeOK
  <1> QED BY <1>1, <1>2, DataKeeps DEF WriteRecord

LEMMA TargetKeeps ==
  ASSUME IInv, DeleteTarget
  PROVE  IInv'
  <1>1. records' \in [Record -> Value \cup {None}] /\ target' \in BOOLEAN
    BY DEF DeleteTarget, IInv, TypeOK
  <1> QED BY <1>1, DataKeeps DEF DeleteTarget

(* Every attempt goes with the Collection; the Applies that run lose theirs. *)
LEMMA DeleteKeeps ==
  ASSUME IInv, DeleteCollection
  PROVE  IInv'
  <1>1. NoChange \in ChangeType /\ NoAttempt \in AttemptState
    BY DEF NoChange, NoAttempt, ChangeType, AttemptState, ChangeStatus,
       AttemptStatus, Operations, NoOperations, FieldOperation,
       RelationOperation, Recovery
  <1>2. /\ change' \in [ChangeSet -> ChangeType]
        /\ attempt' \in [ApplyAttempt -> AttemptState]
        /\ \A t \in ApplyAttempt : attempt'[t] = NoAttempt
    BY <1>1 DEF DeleteCollection
  <1>3. TypeOK'
    BY <1>2 DEF DeleteCollection, IInv, TypeOK, ChangeType
  <1>4. \A t \in ApplyAttempt : attempt'[t].status = "none"
    BY <1>2 DEF NoAttempt
  <1>5. AttemptsActive' /\ OneAttempt'
    BY <1>4 DEF AttemptsActive, OneAttempt
  <1>6. CallsApart' /\ Gone'
    BY <1>2 DEF DeleteCollection, IInv, CallsApart, Gone
  <1>7. CallsHold' /\ ApplyHoldsTheChange'
    BY DEF DeleteCollection, CallsHold, ApplyHoldsTheChange
  <1> QED BY <1>3, <1>5, <1>6, <1>7 DEF IInv

LEMMA CrashKeeps ==
  ASSUME IInv, Crash
  PROVE  IInv'
  <1>1. call' \in [Admin -> CallType] /\ \A a \in Admin : call'[a] = NoCall
    BY NoCallTyped DEF Crash
  <1>2. up' \in BOOLEAN /\ UNCHANGED <<dataVars, change, attempt, history>>
    BY DEF Crash
  <1> QED BY <1>1, <1>2, CallsKeep

(* No Apply runs while the process is down. *)
NobodyCalls == ~up => \A a \in Admin : call[a] = NoCall

LEMMA RestartKeeps ==
  ASSUME IInv, NobodyCalls, Restart
  PROVE  IInv'
  <1>1. \A a \in Admin : call'[a] = NoCall
    BY DEF NobodyCalls, Restart
  <1>2. CallsHold' /\ CallsApart' /\ ApplyHoldsTheChange'
    BY <1>1, NoCallTyped DEF CallsHold, CallsApart, ApplyHoldsTheChange
  <1>3. \A t \in ApplyAttempt : /\ Interrupted(t) \in AttemptState
                                /\ Interrupted(t).status # "inProgress"
                                /\ attempt[t] = NoAttempt => Interrupted(t) = NoAttempt
    BY DEF IInv, TypeOK, Interrupted, AttemptState, AttemptStatus, NoAttempt
  <1>4. /\ attempt' \in [ApplyAttempt -> AttemptState]
        /\ \A t \in ApplyAttempt : attempt'[t] = Interrupted(t)
    BY <1>3 DEF Restart
  <1>5. AttemptsActive' /\ OneAttempt'
    BY <1>3, <1>4 DEF AttemptsActive, OneAttempt
  <1>6. \A k \in ChangeSet : Failed(k, "interrupted")[k] \in ChangeType
    BY FailedTyped DEF IInv, Recovery
  <1>7. change' \in [ChangeSet -> ChangeType]
    BY <1>6 DEF Restart, IInv, TypeOK, ChangeType
  <1>8. TypeOK'
    BY <1>4, <1>7 DEF Restart, IInv, TypeOK, ChangeType, dataVars
  <1>9. Gone'
    BY <1>3, <1>4 DEF Restart, dataVars, IInv, Gone
  <1> QED BY <1>2, <1>5, <1>8, <1>9 DEF IInv

(* What all the theorems below use: the invariant, and the step that keeps it. *)
LEMMA StepKeeps ==
  ASSUME IInv, NobodyCalls, [Next]_vars
  PROVE  IInv' /\ NobodyCalls'
  <1>1. NobodyCalls'
    <2>1. CASE up /\ up'
      BY <2>1 DEF NobodyCalls
    <2>2. CASE Crash
      BY <2>2 DEF Crash, NobodyCalls
    <2>3. CASE Restart
      BY <2>3 DEF Restart, NobodyCalls
    <2>4. CASE UNCHANGED <<call, up>>
      BY <2>4 DEF NobodyCalls
    <2>5. Edit => UNCHANGED <<call, up>>
      BY EveryEdit DEF IInv, EditOf
    <2>6. \A a \in Admin : Apply(a) => up /\ up'
      BY DEF Apply, BeginApply, Started, CommitApply, ApplyFails,
         RecordApplyFailure, Disconnect
    <2>7. DeleteCollection \/ DeleteTarget => UNCHANGED <<call, up>>
      BY DEF DeleteCollection, DeleteTarget
    <2>8. \A r \in Record, v \in Value \cup {None} :
            WriteRecord(r, v) => UNCHANGED <<call, up>>
      BY DEF WriteRecord
    <2>9. UNCHANGED vars => UNCHANGED <<call, up>>
      BY DEF vars
    <2> QED BY <2>1, <2>2, <2>3, <2>4, <2>5, <2>6, <2>7, <2>8, <2>9 DEF Next
  <1> SUFFICES IInv'
    BY <1>1
  <1>2. CASE Edit
    BY <1>2, EveryEdit, EditKeeps DEF IInv
  <1>3. ASSUME NEW a \in Admin, Apply(a)
        PROVE  IInv'
    BY <1>3, BeginKeeps, CommitKeeps, FailsKeeps, RecordFailureKeeps,
       DisconnectKeeps DEF Apply
  <1>4. ASSUME NEW r \in Record, NEW v \in Value \cup {None}, WriteRecord(r, v)
        PROVE  IInv'
    BY <1>4, WriteKeeps
  <1>5. CASE DeleteCollection \/ DeleteTarget \/ Crash \/ Restart
    <2>1. CASE DeleteCollection
      BY <2>1, DeleteKeeps
    <2>2. CASE DeleteTarget
      BY <2>2, TargetKeeps
    <2>3. CASE Crash
      BY <2>3, CrashKeeps
    <2>4. CASE Restart
      BY <2>4, RestartKeeps
    <2> QED BY <1>5, <2>1, <2>2, <2>3, <2>4
  <1>6. CASE UNCHANGED vars
    <2>1. UNCHANGED <<dataVars, change, attempt, history>> /\ UNCHANGED <<call, up>>
      BY <1>6 DEF vars
    <2>2. up' \in BOOLEAN /\ call' \in [Admin -> CallType]
      BY <2>1 DEF IInv, TypeOK
    <2>3. \A a \in Admin : call'[a] = call[a]
      BY <2>1
    <2> QED BY <2>1, <2>2, <2>3, CallsKeep
  <1> QED BY <1>1, <1>2, <1>3, <1>4, <1>5, <1>6 DEF Next

(* The inductive invariant holds in every reachable state. *)
THEOREM Invariance == Spec => [](IInv /\ NobodyCalls)
  <1>1. Init => IInv /\ NobodyCalls
    BY InitIInv DEF Init, NobodyCalls
  <1>2. IInv /\ NobodyCalls /\ [Next]_vars => (IInv /\ NobodyCalls)'
    BY StepKeeps
  <1> QED BY <1>1, <1>2, PTL DEF Spec

(* Every variable stays in its type. *)
THEOREM TypeCorrect == Spec => []TypeOK
  <1>1. IInv => TypeOK
    BY DEF IInv
  <1> QED BY <1>1, Invariance, PTL

(* The second transaction of an Apply finds the version that the first one   *)
(* evaluated: no edit, Discard or other Apply comes between them.            *)
THEOREM ChangesAreHeld == Spec => []ApplyHoldsTheChange
  <1>1. IInv => ApplyHoldsTheChange
    BY DEF IInv
  <1> QED BY <1>1, Invariance, PTL

(* A ChangeSet never has two attempts in progress. *)
THEOREM AttemptsAreExclusive == Spec => []OneAttempt
  <1>1. IInv => OneAttempt
    BY DEF IInv
  <1> QED BY <1>1, Invariance, PTL

-----------------------------------------------------------------------------
(* Only the second transaction of an Apply changes the model. *)
LEMMA ModelChanges ==
  ASSUME IInv, [Next]_vars
  PROVE  \/ \E a \in Admin : CommitApply(a)
         \/ model' = model
  <1>1. CASE Edit
    BY <1>1, EveryEdit DEF IInv, EditOf, dataVars
  <1>2. ASSUME NEW a \in Admin, Apply(a)
        PROVE  CommitApply(a) \/ model' = model
    BY <1>2 DEF Apply, BeginApply, Started, ApplyFails, RecordApplyFailure,
       Disconnect, dataVars
  <1> QED BY <1>1, <1>2 DEF Next, WriteRecord, DeleteCollection, DeleteTarget,
       Crash, Restart, vars, dataVars

(* Only Record writes and the deletion of the Collection change Records. *)
LEMMA RecordsChange ==
  ASSUME IInv, [Next]_vars
  PROVE  \/ \E r \in Record, v \in Value \cup {None} : WriteRecord(r, v)
         \/ DeleteCollection
         \/ records' = records
  <1>1. CASE Edit
    BY <1>1, EveryEdit DEF IInv, EditOf, dataVars
  <1>2. ASSUME NEW a \in Admin, Apply(a)
        PROVE  records' = records
    BY <1>2 DEF Apply, BeginApply, Started, CommitApply, ApplyFails,
       RecordApplyFailure, Disconnect, dataVars
  <1> QED BY <1>1, <1>2 DEF Next, DeleteTarget, Crash, Restart, vars, dataVars

(* A unique Field of the Applied Model never holds a value twice. *)
THEOREM UniqueStands == Spec => []UniqueHolds
  <1>1. Init => UniqueHolds
    BY DEF Init, UniqueHolds, UniqueConflict
  <1>2. ASSUME UniqueHolds, IInv, [Next]_vars
        PROVE  UniqueHolds'
    <2>1. ASSUME NEW a \in Admin, CommitApply(a)
          PROVE  UniqueHolds'
      BY <2>1 DEF CommitApply, IndexRefuses, UniqueHolds, UniqueConflict
    <2>2. ASSUME NEW r \in Record, NEW v \in Value \cup {None}, WriteRecord(r, v)
          PROVE  UniqueHolds'
      BY <2>2 DEF WriteRecord, IndexRefuses, UniqueHolds, UniqueConflict
    <2>3. CASE DeleteCollection
      BY <2>3 DEF DeleteCollection, UniqueHolds, UniqueConflict, Repeats
    <2>4. CASE UNCHANGED <<model, records>>
      BY <1>2, <2>4 DEF UniqueHolds, UniqueConflict, Repeats
    <2> QED BY <1>2, <2>1, <2>2, <2>3, <2>4, ModelChanges, RecordsChange
  <1>3. IInv /\ UniqueHolds /\ [Next]_vars => UniqueHolds'
    BY <1>2
  <1> QED BY <1>1, <1>3, Invariance, PTL DEF Spec

(* A relation enters the Applied Model only while its target exists. *)
THEOREM RelationsAreChecked == Spec => RelationTargetChecked
  <1>1. ASSUME IInv, [Next]_vars
        PROVE  ~model.related /\ model'.related => target
    <2>1. ASSUME NEW a \in Admin, CommitApply(a)
          PROVE  model'.related => target
      BY <2>1 DEF CommitApply, StillApplies, Blocked, TargetMissing
    <2> QED BY <1>1, <2>1, ModelChanges
  <1>2. IInv /\ [Next]_vars =>
          [~model.related /\ model'.related => target]_vars
    BY <1>1
  <1> QED BY <1>2, Invariance, PTL DEF Spec, RelationTargetChecked

-----------------------------------------------------------------------------
(* What Apply may not do to an attempt: leave it without a request. *)
Stranded(t) == attempt[t].status = "inProgress" /\ ~Held(t)

(* The steps of Apply, for the theorem below. *)
LEMMA ApplyHolds ==
  ASSUME IInv, NEW a \in Admin, Apply(a), NEW t \in ApplyAttempt, Stranded(t)'
  PROVE  attempt[t].status = "inProgress" /\ (Held(t) => FailedIn(t))
  <1>1. ASSUME NEW confirmed \in BOOLEAN, BeginApply(a, confirmed)
        PROVE  Stranded(t)
    <2>1. PICK k \in Pending, s \in ApplyAttempt, next \in {"begun", "failing"} :
            Started(a, k, s, confirmed, next)
      BY <1>1 DEF BeginApply
    <2>2. /\ call[a] = NoCall /\ call'[a].attempt = s
          /\ \A b \in Admin : b # a => call'[b] = call[b]
          /\ \A u \in ApplyAttempt : u # s => attempt'[u] = attempt[u]
      BY <1>1, <2>1 DEF BeginApply, Started, IInv, TypeOK
    <2>3. t # s
      BY <2>2 DEF Stranded, Held
    <2>4. Held(t) => Held(t)'
      BY <2>2, SchemaChangesAssumption DEF Held, NoCall
    <2> QED BY <2>2, <2>3, <2>4 DEF Stranded
  <1>2. CASE CommitApply(a)
    <2>1. call[a] # NoCall /\ exists
      BY <1>2, NoCallTyped DEF CommitApply, StillApplies
    <2>2. attempt[call[a].attempt] =
            [status |-> "inProgress", change |-> call[a].change]
      BY <2>1 DEF IInv, CallsHold
    <2>3. call[a].attempt \in ApplyAttempt
      BY <2>1, RunningCall DEF IInv
    <2>4. /\ attempt'[call[a].attempt].status # "inProgress"
          /\ \A s \in ApplyAttempt : s # call[a].attempt => attempt'[s] = attempt[s]
      BY <1>2, <2>2, <2>3 DEF CommitApply, IInv, TypeOK, AttemptState
    <2>5. t # call[a].attempt
      BY <2>4 DEF Stranded
    <2>6. \A b \in Admin : b # a => call'[b] = call[b]
      BY <1>2 DEF CommitApply, IInv, TypeOK
    <2>7. ~Held(t)
      BY <2>5, <2>6 DEF Stranded, Held
    <2> QED BY <2>4, <2>5, <2>7 DEF Stranded
  <1>3. CASE ApplyFails(a) \/ Disconnect(a)
    <2>1. call[a] # NoCall
      BY <1>3, NoCallTyped DEF ApplyFails, Disconnect
    <2>2. /\ call'[a].attempt = call[a].attempt
          /\ \A b \in Admin : b # a => call'[b] = call[b]
          /\ attempt' = attempt
      BY <1>3, <2>1, RunningCall DEF ApplyFails, Disconnect, IInv, TypeOK
    <2>3. Held(t) => Held(t)'
      BY <2>2 DEF Held
    <2> QED BY <2>2, <2>3 DEF Stranded
  <1>4. CASE RecordApplyFailure(a)
    <2>1. call[a].at = "failing" /\ call[a] # NoCall
      BY <1>4, NoCallTyped DEF RecordApplyFailure
    <2>2. call[a].attempt \in ApplyAttempt
      BY <2>1, RunningCall DEF IInv
    <2>3. \A b \in Admin : b # a => call'[b] = call[b]
      BY <1>4 DEF RecordApplyFailure, IInv, TypeOK
    <2>4. attempt[t].status = "inProgress"
      BY <1>4, <2>2 DEF RecordApplyFailure, IInv, TypeOK, AttemptState, Stranded
    <2>5. Held(t) => FailedIn(t)
      BY <2>1, <2>3 DEF Held, FailedIn, Stranded
    <2> QED BY <2>4, <2>5
  <1> QED BY <1>1, <1>2, <1>3, <1>4 DEF Apply, Stranded

(* While the process is up, an attempt in progress loses its request only    *)
(* where an Apply failed and its failure could not be recorded; a start      *)
(* leaves none without a request.                                            *)
THEOREM AttemptsEndWithTheirRequests == Spec => OnlyFailuresStrand
  <1>1. ASSUME IInv, NobodyCalls, Next, NEW t \in ApplyAttempt, up', Stranded(t)'
        PROVE  up /\ attempt[t].status = "inProgress" /\ (Held(t) => FailedIn(t))
    <2>1. CASE UNCHANGED <<attempt, call, up>>
      BY <1>1, <2>1 DEF Stranded, Held
    <2>2. CASE Edit
      BY <2>1, <2>2, <1>1, EveryEdit DEF IInv, EditOf
    <2>3. ASSUME NEW a \in Admin, Apply(a)
          PROVE  up /\ attempt[t].status = "inProgress" /\ (Held(t) => FailedIn(t))
      <3>1. up
        BY <2>3 DEF Apply, BeginApply, CommitApply, ApplyFails,
           RecordApplyFailure, Disconnect
      <3> QED BY <1>1, <2>3, <3>1, ApplyHolds
    <2>4. ~DeleteCollection
      <3>1. ASSUME DeleteCollection
            PROVE  attempt'[t].status = "none"
        <4>1. attempt'[t] = NoAttempt
          BY <3>1 DEF DeleteCollection
        <4> QED BY <4>1 DEF NoAttempt
      <3> QED BY <1>1, <3>1 DEF Stranded
    <2>5. ~Crash
      BY <1>1 DEF Crash
    <2>6. ~Restart
      <3>1. ASSUME Restart
            PROVE  attempt'[t].status # "inProgress"
        BY <1>1, <3>1 DEF Restart, Interrupted, IInv, TypeOK, AttemptState
      <3> QED BY <1>1, <3>1 DEF Stranded
    <2> QED BY <1>1, <2>1, <2>2, <2>3, <2>4, <2>5, <2>6
        DEF Next, WriteRecord, DeleteTarget
  <1>2. IInv /\ NobodyCalls /\ [Next]_vars =>
          [\A t \in ApplyAttempt :
             up' /\ attempt'[t].status = "inProgress" /\ ~Held(t)' =>
               /\ up /\ attempt[t].status = "inProgress"
               /\ Held(t) => FailedIn(t)]_vars
    BY <1>1 DEF Stranded
  <1> QED BY <1>2, Invariance, PTL DEF Spec, OnlyFailuresStrand

=============================================================================
