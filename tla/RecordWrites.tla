----------------------------- MODULE RecordWrites -----------------------------
(***************************************************************************)
(* Writes of Records (src/internal/records: service.go, lifecycle.go,      *)
(* relations.go, authorization.go, storage.go), the Access Rules that      *)
(* decide about those of the Application API                               *)
(* (src/internal/accesscontrol) and the live runs of visual rules          *)
(* (src/internal/visualrules).                                             *)
(*                                                                         *)
(* A write reads the model, the rules, the Record and the models on the    *)
(* other side of its relations in snapshots of their own, runs a hook, and *)
(* decides again in its transaction.  In between, other writes, schema     *)
(* changes and changes of rules take place.                                *)
(*                                                                         *)
(* There are two Collections: "posts", whose relation Field may refer to   *)
(* "authors".  Of a Record the model keeps what it refers to and how often *)
(* it was written (updatedAt); authors refer to nothing.                   *)
(***************************************************************************)
EXTENDS Naturals, Sequences, FiniteSets

CONSTANTS
  Writer, Id, None,
  Me,            \* the user behind the Application requests, an author
  Hooked,        \* whether a lifecycle is configured
  MaxSchema,     \* bound: versions of a model
  MaxRules,      \* bound: versions of the rules
  MaxWrites      \* bound: requests

ASSUME RecordWritesAssumption ==
  /\ Me \in Id /\ None \notin Id
  /\ Hooked \in BOOLEAN /\ MaxSchema \in Nat \ {0} /\ MaxRules \in Nat \ {0} /\ MaxWrites \in Nat

Collection == {"posts", "authors"}
Row  == [ref: Id \cup {None}, rev: 0..MaxWrites+1]
Mode == {"noAccess", "anyone", "recordOwner"}
Op   == {"create", "update", "delete"}
Kind == {"admin", "application", "rule"}
Absent == [ref |-> None, rev |-> 0]

VARIABLES
  schema,    \* [Collection -> version], and whether posts have the relation
  related,
  rows,      \* [Collection -> [Id -> Row]]
  used,      \* [Collection -> the ids that were given]
  rules,     \* the Access Rules of posts
  review,    \* the rules as an administrator saw them
  writer,    \* [Writer -> a request]
  runs,      \* runs of visual rules
  log,       \* what the Record events say of each Record
  gap,       \* history: an event did not continue the one before it
  blind,     \* history: authors deleted by a request that knew no relation
  writes     \* requests so far

vars == <<schema, related, rows, used, rules, review, writer, runs, log, gap, blind, writes>>
data == <<rows, used, log, gap, blind>>

Idle == [at |-> "idle", kind |-> "admin", op |-> "create", in |-> "posts", id |-> None,
         model |-> 0, target |-> 0, related |-> FALSE, previous |-> Absent, ref |-> None,
         status |-> "none"]

TypeOK ==
  /\ schema \in [Collection -> 1..MaxSchema] /\ related \in BOOLEAN
  /\ rows \in [Collection -> [Id -> Row]] /\ log \in [Collection -> [Id -> Row]]
  /\ used \in [Collection -> SUBSET Id]
  /\ \A c \in Collection, i \in Id : rows[c][i].rev > 0 => i \in used[c]
  /\ rules \in [applied: Mode, pending: Mode \cup {"none"}, version: 1..MaxRules]
  /\ rules.pending # rules.applied
  /\ review \in [pending: Mode \cup {"none"}, version: 0..MaxRules]
  /\ writer \in [Writer ->
       [at: {"idle", "authorize", "load", "references", "targets", "previous", "hook",
             "authorizeHooked", "commit", "run"},
        kind: Kind, op: Op, in: Collection, id: Id \cup {None}, model: 0..MaxSchema,
        target: 0..MaxSchema, related: BOOLEAN, previous: Row, ref: Id \cup {None},
        status: {"none", "succeeded", "failed"}]]
  /\ runs \subseteq [status: {"succeeded", "failed"}, record: Id \cup {None}]
  /\ gap \in BOOLEAN /\ blind \subseteq Id /\ writes \in 0..MaxWrites

\* InitializeCollection: posts were created with a rule that allows everything.
InitialRules == [applied |-> "anyone", pending |-> "none", version |-> 1]

Init ==
  /\ schema = [c \in Collection |-> 1] /\ related \in BOOLEAN
  /\ used \in [Collection -> SUBSET Id]
  /\ rows = [c \in Collection |-> [i \in Id |->
               IF i \in used[c] THEN [ref |-> None, rev |-> 1] ELSE Absent]]
  /\ log = rows
  /\ rules = InitialRules
  /\ review = [pending |-> "none", version |-> 0]
  /\ writer = [w \in Writer |-> Idle] /\ runs = {}
  /\ gap = FALSE /\ blind = {} /\ writes = 0

Exists(c, i) == rows[c][i].rev > 0
Refers(i) == {p \in Id : Exists("posts", p) /\ rows["posts"][p].ref = i}

(***************************************************************************)
(* Access Rules.                                                           *)
(***************************************************************************)
\* validateRule: an owner rule needs the relation Field.
Valid(mode) == mode = "recordOwner" => related

\* EvaluateInTransaction: the applied rules are checked against the model of
\* now; rules that no longer fit it deny.
Allows(row) == CASE ~Valid(rules.applied) -> FALSE
                 [] rules.applied = "anyone" -> TRUE
                 [] rules.applied = "recordOwner" -> row.ref = Me
                 [] OTHER -> FALSE

\* Get.
Review ==
  /\ review' = [pending |-> rules.pending, version |-> rules.version]
  /\ UNCHANGED <<schema, related, data, rules, writer, runs, writes>>

SaveRules(mode) ==
  /\ rules.version < MaxRules /\ Valid(mode)
  /\ rules' = [rules EXCEPT !.pending = IF mode = rules.applied THEN "none" ELSE mode,
                            !.version = @ + 1]
  /\ UNCHANGED <<schema, related, data, review, writer, runs, writes>>

ApplyRules ==
  /\ rules.pending # "none" /\ rules.version < MaxRules
  /\ review.version = rules.version /\ Valid(rules.pending)
  /\ rules' = [applied |-> rules.pending, pending |-> "none", version |-> rules.version + 1]
  /\ UNCHANGED <<schema, related, data, review, writer, runs, writes>>

DiscardRules ==
  /\ rules.pending # "none" /\ rules.version < MaxRules
  /\ review.version = rules.version
  /\ rules' = [rules EXCEPT !.pending = "none", !.version = @ + 1]
  /\ UNCHANGED <<schema, related, data, review, writer, runs, writes>>

(***************************************************************************)
(* Schema changes, as SchemaChanges applies them.  The events are read in  *)
(* the terms of the model of now: without the relation they have no ref.   *)
(***************************************************************************)
Unrelated(table) ==
  [table EXCEPT !["posts"] = [i \in Id |-> [table["posts"][i] EXCEPT !.ref = None]]]

ApplySchema(c) ==
  /\ schema[c] < MaxSchema
  /\ schema' = [schema EXCEPT ![c] = @ + 1]
  /\ IF c = "posts"
     THEN /\ related' = ~related
          /\ rows' = Unrelated(rows) /\ log' = Unrelated(log)
     ELSE UNCHANGED <<related, rows, log>>
  /\ UNCHANGED <<used, rules, review, writer, runs, gap, blind, writes>>

(***************************************************************************)
(* The stages of a request.  The hook of a deletion can only refuse: that  *)
(* is Fail.                                                                *)
(***************************************************************************)
Stages(kind, op) ==
  LET if(P, stage) == IF P THEN <<stage>> ELSE << >>
      application  == kind = "application"
  IN CASE op = "create" -> <<"load">> \o if(application, "authorize") \o if(Hooked, "hook")
                           \o if(Hooked /\ application, "authorizeHooked") \o <<"targets", "commit">>
       [] op = "update" -> if(application, "authorize") \o <<"load", "targets", "previous">>
                           \o if(Hooked, "hook") \o if(Hooked /\ application, "authorizeHooked")
                           \o <<"commit">>
       [] op = "delete" -> if(application, "authorize") \o <<"load", "references", "previous", "commit">>

Following(w) ==
  LET path == Stages(writer[w].kind, writer[w].op)
      i    == CHOOSE j \in 1..Len(path) : path[j] = writer[w].at
  IN path[i + 1]

\* A request that is over; of a live run the outcome is still to be stored.
Ended(w, status) ==
  IF writer[w].kind = "rule" THEN [writer[w] EXCEPT !.at = "run", !.status = status] ELSE Idle

Answer(w, status) == writer' = [writer EXCEPT ![w] = Ended(w, status)]
Advance(w, request) ==
  writer' = [writer EXCEPT ![w] = [request EXCEPT !.at = Following(w)]]
Check(w, condition) ==
  IF condition THEN Advance(w, writer[w]) ELSE Answer(w, "failed")

elsewhere == <<schema, related, data, rules, review, runs, writes>>

\* create, update, delete and their Application variants; executeLive of a rule
\* whose target are the authors.
Begin(w, kind, op, c, i, ref) ==
  /\ writer[w].at = "idle" /\ writes < MaxWrites
  /\ kind = "application" => c = "posts"
  /\ kind = "rule" => op = "create" /\ c = "authors"
  /\ c = "authors" => ref = None /\ op # "update"
  /\ op = "delete" => ref = None
  /\ IF op = "create" THEN i \notin used[c] /\ \A v \in Writer : writer[v].in = c => writer[v].id # i
                      ELSE Exists(c, i)
  /\ writer' = [writer EXCEPT ![w] = [Idle EXCEPT !.at = Stages(kind, op)[1], !.kind = kind,
                  !.op = op, !.in = c, !.id = i, !.ref = ref]]
  /\ writes' = writes + 1
  /\ UNCHANGED <<schema, related, data, rules, review, runs>>

\* loadModel; the values must fit the model.
Load(w) ==
  /\ writer[w].at = "load"
  /\ IF writer[w].ref # None /\ ~related THEN Answer(w, "failed")
     ELSE Advance(w, [writer[w] EXCEPT !.model = schema[writer[w].in], !.related = related])
  /\ UNCHANGED elsewhere

\* relationTargets.
Targets(w) ==
  /\ writer[w].at = "targets"
  /\ Advance(w, [writer[w] EXCEPT !.target = schema["authors"]])
  /\ UNCHANGED elsewhere

\* relationReferences: the Collections whose relations may refer to the Record.
References(w) ==
  /\ writer[w].at = "references"
  /\ Advance(w, [writer[w] EXCEPT !.related = related, !.target = schema["posts"]])
  /\ UNCHANGED elsewhere

\* The Record as it is before the write, under the model that was loaded.
Previous(w) ==
  /\ writer[w].at = "previous"
  /\ LET c == writer[w].in
         i == writer[w].id
     IN IF schema[c] = writer[w].model /\ Exists(c, i)
        THEN Advance(w, [writer[w] EXCEPT !.previous = rows[c][i]])
        ELSE Answer(w, "failed")
  /\ UNCHANGED elsewhere

\* What a rule is asked about before the transaction.
Asked(w) == IF writer[w].op = "create" \/ writer[w].at = "authorizeHooked"
            THEN [ref |-> writer[w].ref, rev |-> 1] ELSE rows[writer[w].in][writer[w].id]

Authorize(w) ==
  /\ writer[w].at \in {"authorize", "authorizeHooked"}
  /\ Check(w, Allows(Asked(w))
              /\ (writer[w].op # "create" => Exists(writer[w].in, writer[w].id)))
  /\ UNCHANGED elsewhere

\* The Before Hook changes the values or refuses; they are validated again.
Hook(w, ref) ==
  /\ writer[w].at = "hook"
  /\ writer[w].related \/ ref = None
  /\ writer[w].in = "authors" => ref = None
  /\ Advance(w, [writer[w] EXCEPT !.ref = ref])
  /\ UNCHANGED elsewhere

\* A read fails, the hook refuses, the client leaves.
Fail(w) ==
  /\ writer[w].at \notin {"idle", "run"}
  /\ Answer(w, "failed")
  /\ UNCHANGED elsewhere

(***************************************************************************)
(* The transaction.                                                        *)
(***************************************************************************)
\* verifyModel.
SameModel(w) == schema[writer[w].in] = writer[w].model

\* sameRecordState.
SameRecord(w) == /\ Exists(writer[w].in, writer[w].id)
                 /\ rows[writer[w].in][writer[w].id] = writer[w].previous

\* Mutant of Authorized: only the checks before the transaction.
AuthorizedBefore(w, row) == TRUE

\* authorizeInTransaction.
Authorized(w, row) == writer[w].kind = "application" => Allows(row)

\* validateRelations.
RelationsValid(w) ==
  writer[w].in = "posts" /\ writer[w].related /\ writer[w].ref # None
    => schema["authors"] = writer[w].target /\ Exists("authors", writer[w].ref)

\* Mutant of NoReferences: the models are compared, the Records not read.
SameReferences(w) ==
  writer[w].in = "authors" /\ writer[w].related => schema["posts"] = writer[w].target

\* ensureNoReferences.
NoReferences(w) ==
  writer[w].in = "authors" /\ writer[w].related
    => schema["posts"] = writer[w].target /\ Refers(writer[w].id) = {}

\* The row is written and its event appended: what the Record was for the
\* request, and what it is now.
Persist(w, row) ==
  LET c == writer[w].in
      i == writer[w].id
  IN /\ rows' = [rows EXCEPT ![c][i] = row]
     /\ log'  = [log EXCEPT ![c][i] = row]
     /\ gap'  = (gap \/ log[c][i] # writer[w].previous)
     /\ used' = [used EXCEPT ![c] = @ \cup {i}]
     /\ Answer(w, "succeeded")

\* Mutant of CommitUpdate: the Record is not compared with the one read before.
CommitUpdateUnseen(w) ==
  /\ writer[w].at = "commit" /\ writer[w].op = "update"
  /\ IF SameModel(w) /\ Exists("posts", writer[w].id) /\ RelationsValid(w)
        /\ Authorized(w, rows["posts"][writer[w].id])
     THEN Persist(w, [ref |-> writer[w].ref, rev |-> writer[w].previous.rev + 1]) /\ UNCHANGED blind
     ELSE Answer(w, "failed") /\ UNCHANGED data
  /\ UNCHANGED <<schema, related, rules, review, runs, writes>>

CommitCreate(w) ==
  /\ writer[w].at = "commit" /\ writer[w].op = "create"
  /\ LET row == [ref |-> writer[w].ref, rev |-> 1]
     IN IF SameModel(w) /\ Authorized(w, row) /\ RelationsValid(w)
        THEN Persist(w, row) /\ UNCHANGED blind
        ELSE Answer(w, "failed") /\ UNCHANGED data
  /\ UNCHANGED <<schema, related, rules, review, runs, writes>>

CommitUpdate(w) ==
  /\ writer[w].at = "commit" /\ writer[w].op = "update"
  /\ IF SameModel(w) /\ SameRecord(w) /\ Authorized(w, writer[w].previous) /\ RelationsValid(w)
     THEN Persist(w, [ref |-> writer[w].ref, rev |-> writer[w].previous.rev + 1]) /\ UNCHANGED blind
     ELSE Answer(w, "failed") /\ UNCHANGED data
  /\ UNCHANGED <<schema, related, rules, review, runs, writes>>

CommitDelete(w) ==
  /\ writer[w].at = "commit" /\ writer[w].op = "delete"
  /\ IF SameModel(w) /\ SameRecord(w) /\ Authorized(w, writer[w].previous) /\ NoReferences(w)
     THEN /\ Persist(w, Absent)
          /\ blind' = IF writer[w].in = "authors" /\ related /\ ~writer[w].related
                      THEN blind \cup {writer[w].id} ELSE blind
     ELSE Answer(w, "failed") /\ UNCHANGED data
  /\ UNCHANGED <<schema, related, rules, review, runs, writes>>

\* Mutant of StoreRun: a failure is stored with the Record that was prepared.
StoreRunOfPrepared(w) ==
  /\ writer[w].at = "run"
  /\ runs' = runs \cup {[status |-> "succeeded", record |-> writer[w].id]}
  /\ writer' = [writer EXCEPT ![w] = Idle]
  /\ UNCHANGED <<schema, related, data, rules, review, writes>>

\* insertRun, in a transaction of its own.
StoreRun(w) ==
  /\ writer[w].at = "run"
  /\ runs' = runs \cup {[status |-> writer[w].status,
                         record |-> IF writer[w].status = "succeeded" THEN writer[w].id ELSE None]}
  /\ writer' = [writer EXCEPT ![w] = Idle]
  /\ UNCHANGED <<schema, related, data, rules, review, writes>>

\* The client left, or the transaction fails: the run is lost.
LoseRun(w) ==
  /\ writer[w].at = "run"
  /\ writer' = [writer EXCEPT ![w] = Idle]
  /\ UNCHANGED elsewhere

Commit(w) == CommitCreate(w) \/ CommitUpdate(w) \/ CommitDelete(w)

Step(w) == \/ Load(w) \/ Targets(w) \/ References(w) \/ Previous(w) \/ Authorize(w)
           \/ Fail(w) \/ Commit(w) \/ StoreRun(w) \/ LoseRun(w)
           \/ \E ref \in Id \cup {None} : Hook(w, ref)

Next ==
  \/ \E w \in Writer : Step(w)
  \/ \E w \in Writer, kind \in Kind, op \in Op, c \in Collection, i \in Id, ref \in Id \cup {None} :
       Begin(w, kind, op, c, i, ref)
  \/ Review \/ ApplyRules \/ DiscardRules
  \/ \E mode \in Mode : SaveRules(mode)
  \/ \E c \in Collection : ApplySchema(c)

Spec == Init /\ [][Next]_vars

(***************************************************************************)
(* Properties.                                                             *)
(***************************************************************************)
\* The events of a Record, in their order, lead from each state to the next
\* and end with the Record as it is: no write is lost under another one that
\* read before it (updateWithPrincipal, appendRecordEvent).
EventsReplay == log = rows /\ ~gap

\* A relation refers to a Record that exists.  The exception is a Record that
\* was deleted by a request which listed the relations before this one was
\* applied (validateRelations, relationReferences, ensureNoReferences).
RelationsResolve ==
  \A p \in Id : LET a == rows["posts"][p].ref
                IN Exists("posts", p) /\ a # None => Exists("authors", a) \/ a \in blind

\* An Application request commits only what the rules of that moment allow,
\* whatever they were when the request was checked before its hook ran
\* (persistPreparedCreate, authorizeInTransaction).
CommittedWritesAllowed ==
  [][\A w \in Writer :
       writer[w].kind = "application" /\ rows' # rows /\ writer[w].at = "commit" /\ writer'[w].at = "idle"
         => Allows(IF writer[w].op = "create" THEN rows'["posts"][writer[w].id]
                   ELSE rows["posts"][writer[w].id])]_vars

\* A run that is stored as succeeded names a Record that was created
\* (executeLive).
RunsTellTheTruth == \A r \in runs : r.status = "succeeded" => r.record \in used["posts"] \cup used["authors"]
=============================================================================
