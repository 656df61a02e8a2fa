--------------------------- MODULE RecordWritesProofs ---------------------------
(***************************************************************************)
(* Proofs about RecordWrites, for any number of clients, Records, schema   *)
(* versions and rules, with or without a lifecycle.                        *)
(*                                                                         *)
(* The inductive invariant says of each request where it stands on the     *)
(* path of its operation and what it has learnt there (WellFormed), and of *)
(* its snapshot that it is the model of now as long as the versions agree  *)
(* (Loaded).  The ids of the Records that are being created belong to no   *)
(* Record and to one request each (Fresh).                                 *)
(***************************************************************************)
EXTENDS RecordWrites, TLAPS, FiniteSetTheorems, SequenceTheorems

USE RecordWritesAssumption

Request ==
  [at: {"idle", "authorize", "load", "references", "targets", "previous", "hook",
        "authorizeHooked", "commit", "run"},
   kind: Kind, op: Op, in: Collection, id: Id \cup {None}, model: 0..MaxSchema,
   target: 0..MaxSchema, related: BOOLEAN, previous: Row, ref: Id \cup {None},
   status: {"none", "succeeded", "failed"}]

(* The stages that the requests of an operation can pass. *)
StagesOf(op) ==
  CASE op = "create" -> {"load", "authorize", "hook", "authorizeHooked", "targets", "commit"}
    [] op = "update" -> {"authorize", "load", "targets", "previous", "hook", "authorizeHooked", "commit"}
    [] op = "delete" -> {"authorize", "load", "references", "previous", "commit"}

Placed(r) ==
  \/ r.at = "idle"
  \/ r.at = "run" /\ r.kind = "rule"
  \/ \E j \in 1..Len(Stages(r.kind, r.op)) : r.at = Stages(r.kind, r.op)[j]

WellFormed(r) ==
  /\ r \in Request
  /\ Placed(r)
  /\ r.kind = "application" => r.in = "posts"
  /\ r.kind = "rule" => r.op = "create"
  /\ r.op = "update" => r.in = "posts"
  /\ r.op = "delete" => r.ref = None
  /\ r.op = "create" => r.previous = Absent
  /\ r.at # "idle" => r.id \in Id
  /\ r.at = "run" => r.status # "none"
  /\ r.model # 0 /\ r.op # "delete" /\ r.ref # None => r.related

(* As long as the version of the model has not changed, neither has the relation. *)
Loaded(r) ==
  /\ r.model <= schema[r.in]
  /\ r.op # "delete" /\ r.in = "posts" /\ r.model = schema["posts"] => (r.related <=> related)

Creating(w) == writer[w].op = "create" /\ writer[w].at \notin {"idle", "run"}

Fresh ==
  /\ \A w \in Writer : Creating(w) => writer[w].id \notin used[writer[w].in]
  /\ \A v, w \in Writer : /\ Creating(v) /\ Creating(w) /\ v # w
                          /\ writer[v].in = writer[w].in
                          => writer[v].id # writer[w].id

Stored == \A w \in Writer :
  writer[w].at = "run" /\ writer[w].status = "succeeded" => writer[w].id \in used[writer[w].in]

(* The rows: what is not there is absent, and without the relation nothing refers. *)
Tables ==
  /\ \A c \in Collection, i \in Id : ~Exists(c, i) => rows[c][i] = Absent
  /\ ~related => \A p \in Id : rows["posts"][p].ref = None

(* A Record can be written as often as requests for it have begun. *)
Updating(i) == {w \in Writer : writer[w].at # "idle" /\ writer[w].op = "update" /\ writer[w].id = i}

Counted ==
  /\ \A i \in Id : /\ IsFiniteSet(Updating(i)) /\ Cardinality(Updating(i)) <= writes
                   /\ rows["posts"][i].rev + Cardinality(Updating(i)) <= writes + 1
  /\ \A i \in Id : rows["authors"][i].rev <= 1

IInv ==
  /\ TypeOK
  /\ \A w \in Writer : WellFormed(writer[w]) /\ Loaded(writer[w])
  /\ Fresh /\ Stored /\ Tables /\ Counted
  /\ EventsReplay /\ RelationsResolve /\ RunsTellTheTruth

-----------------------------------------------------------------------------
(* The paths. *)

LEMMA Concatenated ==
  ASSUME NEW S, NEW a \in Seq(S), NEW b \in Seq(S), Len(b) >= 1
  PROVE  /\ a \o b \in Seq(S) /\ Len(a \o b) >= 1
         /\ (a \o b)[Len(a \o b)] = b[Len(b)]
  <1>1. a \o b \in Seq(S) /\ Len(a \o b) = Len(a) + Len(b)
    BY ConcatProperties
  <1>2. Len(a) \in Nat /\ Len(b) \in Nat
    BY LenProperties
  <1>3. Len(a) + Len(b) \in 1 .. Len(a) + Len(b) /\ Len(a) + Len(b) > Len(a)
    BY <1>2
  <1>4. (a \o b)[Len(a) + Len(b)] = b[Len(a) + Len(b) - Len(a)]
    BY <1>2, <1>3, ConcatProperties
  <1> QED
    BY <1>1, <1>2, <1>4

(* The path of an operation passes only its stages and ends with the commit. *)
LEMMA PathShape ==
  ASSUME NEW kind \in Kind, NEW op \in Op
  PROVE  /\ Stages(kind, op) \in Seq(StagesOf(op)) /\ Len(Stages(kind, op)) >= 1
         /\ Stages(kind, op)[Len(Stages(kind, op))] = "commit"
  <1> DEFINE S == StagesOf(op)
             A(stage) == IF kind = "application" THEN <<stage>> ELSE << >>
             H(stage) == IF Hooked THEN <<stage>> ELSE << >>
             B(stage) == IF Hooked /\ kind = "application" THEN <<stage>> ELSE << >>
  <1>4. \A s \in S : A(s) \in Seq(S) /\ H(s) \in Seq(S) /\ B(s) \in Seq(S)
    OBVIOUS
  <1>1. CASE op = "create"
    <2>1. S = {"load", "authorize", "hook", "authorizeHooked", "targets", "commit"}
      BY <1>1 DEF StagesOf
    <2>2. /\ <<"load">> \in Seq(S) /\ "authorize" \in S /\ "hook" \in S /\ "authorizeHooked" \in S
          /\ <<"targets", "commit">> \in Seq(S) /\ Len(<<"targets", "commit">>) = 2
      BY <2>1
    <2> DEFINE first == <<"load">> \o A("authorize") \o H("hook") \o B("authorizeHooked")
    <2>3. Stages(kind, op) = first \o <<"targets", "commit">>
      BY <1>1 DEF Stages
    <2> HIDE DEF S, A, H, B
    <2>4. first \in Seq(S)
      BY <1>4, <2>2, ConcatProperties
    <2> HIDE DEF first
    <2> QED
      BY <2>2, <2>3, <2>4, Concatenated DEF S
  <1>2. CASE op = "update"
    <2>1. S = {"authorize", "load", "targets", "previous", "hook", "authorizeHooked", "commit"}
      BY <1>2 DEF StagesOf
    <2>2. /\ <<"load", "targets", "previous">> \in Seq(S)
          /\ "authorize" \in S /\ "hook" \in S /\ "authorizeHooked" \in S
          /\ <<"commit">> \in Seq(S) /\ Len(<<"commit">>) = 1
      BY <2>1
    <2> DEFINE first == A("authorize") \o <<"load", "targets", "previous">>
                          \o H("hook") \o B("authorizeHooked")
    <2>3. Stages(kind, op) = first \o <<"commit">>
      BY <1>2 DEF Stages
    <2> HIDE DEF S, A, H, B
    <2>4. first \in Seq(S)
      BY <1>4, <2>2, ConcatProperties
    <2> HIDE DEF first
    <2> QED
      BY <2>2, <2>3, <2>4, Concatenated DEF S
  <1>3. CASE op = "delete"
    <2>1. S = {"authorize", "load", "references", "previous", "commit"}
      BY <1>3 DEF StagesOf
    <2>2. /\ "authorize" \in S
          /\ <<"load", "references", "previous", "commit">> \in Seq(S)
          /\ Len(<<"load", "references", "previous", "commit">>) = 4
      BY <2>1
    <2>3. Stages(kind, op) = A("authorize") \o <<"load", "references", "previous", "commit">>
      BY <1>3 DEF Stages
    <2> HIDE DEF S, A
    <2>4. A("authorize") \in Seq(S)
      BY <1>4, <2>2
    <2> QED
      BY <2>2, <2>3, <2>4, Concatenated DEF S
  <1> QED
    BY <1>1, <1>2, <1>3 DEF Op

(* A request in a stage of its path is in one of the stages of its operation. *)
LEMMA Stage ==
  ASSUME NEW r \in Request, Placed(r), r.at \notin {"idle", "run"}
  PROVE  r.at \in StagesOf(r.op)
  <1>1. r.kind \in Kind /\ r.op \in Op
    BY DEF Request
  <1> DEFINE path == Stages(r.kind, r.op)
  <1>2. path \in Seq(StagesOf(r.op))
    BY <1>1, PathShape
  <1>3. PICK j \in 1..Len(path) : r.at = path[j]
    BY DEF Placed
  <1> HIDE DEF path
  <1> QED
    BY <1>2, <1>3, ElementOfSeq

(* Whoever is before the commit has a next stage, and it is on the path. *)
LEMMA NextStage ==
  ASSUME NEW w, writer[w] \in Request, Placed(writer[w]),
         writer[w].at \notin {"idle", "run", "commit"}
  PROVE  /\ Following(w) \in StagesOf(writer[w].op)
         /\ \E j \in 1..Len(Stages(writer[w].kind, writer[w].op)) :
              Following(w) = Stages(writer[w].kind, writer[w].op)[j]
  <1>1. writer[w].kind \in Kind /\ writer[w].op \in Op
    BY DEF Request
  <1> DEFINE path == Stages(writer[w].kind, writer[w].op)
             here == writer[w].at
  <1>2. /\ path \in Seq(StagesOf(writer[w].op)) /\ Len(path) >= 1
        /\ path[Len(path)] = "commit"
    BY <1>1, PathShape
  <1>3. \E j \in 1..Len(path) : path[j] = here
    BY DEF Placed
  <1> DEFINE i == CHOOSE j \in 1..Len(path) : path[j] = here
  <1>4. Following(w) = path[i + 1]
    BY DEF Following
  <1>5. here # "commit"
    OBVIOUS
  <1> HIDE DEF path, here
  <1>6. i \in 1..Len(path) /\ path[i] = here
    BY <1>3
  <1> HIDE DEF i
  <1>7. Len(path) \in Nat
    BY <1>2, LenProperties
  <1>8. i # Len(path)
    BY <1>2, <1>5, <1>6
  <1>9. i + 1 \in 1..Len(path)
    BY <1>6, <1>7, <1>8
  <1>10. path[i + 1] \in StagesOf(writer[w].op)
    BY <1>2, <1>9, ElementOfSeq
  <1> QED
    BY <1>4, <1>9, <1>10 DEF path

LEMMA StageFacts ==
  ASSUME NEW r, WellFormed(r)
  PROVE  /\ r.at = "previous" => r.op # "create"
         /\ r.at = "hook" => r.op # "delete"
         /\ r.at = "references" => r.op = "delete"
         /\ r.op \in Op /\ r.kind \in Kind /\ r.in \in Collection
  <1>1. r.at \in {"previous", "hook", "references"} => r.at \in StagesOf(r.op)
    BY Stage DEF WellFormed
  <1>2. r.op \in Op /\ r.kind \in Kind /\ r.in \in Collection
    BY DEF WellFormed, Request
  <1> QED
    BY <1>1, <1>2 DEF Op, StagesOf

-----------------------------------------------------------------------------
(* What becomes of a request. *)

LEMMA IdleWell == WellFormed(Idle) /\ Idle.at = "idle" /\ Idle.model = 0
  <1>1. Idle \in Request
    BY DEF Idle, Request, Kind, Op, Collection, Absent, Row
  <1> QED
    BY <1>1 DEF Idle, WellFormed, Placed

LEMMA EndedWell ==
  ASSUME NEW w, WellFormed(writer[w]), writer[w].at # "idle", NEW status \in {"succeeded", "failed"}
  PROVE  /\ WellFormed(Ended(w, status))
         /\ Ended(w, status).at = IF writer[w].kind = "rule" THEN "run" ELSE "idle"
         /\ writer[w].kind # "rule" => Ended(w, status) = Idle
         /\ writer[w].kind = "rule" =>
              /\ Ended(w, status).op = writer[w].op /\ Ended(w, status).id = writer[w].id
              /\ Ended(w, status).in = writer[w].in /\ Ended(w, status).status = status
              /\ Ended(w, status).model = writer[w].model
              /\ Ended(w, status).related = writer[w].related
  <1>1. CASE writer[w].kind # "rule"
    BY <1>1, IdleWell DEF Ended
  <1>2. CASE writer[w].kind = "rule"
    <2> DEFINE r == [writer[w] EXCEPT !.at = "run", !.status = status]
    <2>1. Ended(w, status) = r
      BY <1>2 DEF Ended
    <2>2. writer[w] \in Request
      BY DEF WellFormed
    <2>3. r \in Request
      BY <2>2 DEF Request
    <2>4. /\ r.at = "run" /\ r.status = status /\ r.kind = writer[w].kind /\ r.op = writer[w].op
          /\ r.in = writer[w].in /\ r.id = writer[w].id /\ r.model = writer[w].model
          /\ r.related = writer[w].related /\ r.previous = writer[w].previous
          /\ r.ref = writer[w].ref
      BY <2>2 DEF Request
    <2> HIDE DEF r
    <2>5. WellFormed(r)
      BY <1>2, <2>3, <2>4 DEF WellFormed, Placed
    <2> QED
      BY <1>2, <2>1, <2>4, <2>5
  <1> QED
    BY <1>1, <1>2

LEMMA AdvancedWell ==
  ASSUME NEW w, WellFormed(writer[w]), writer[w].at \notin {"idle", "run", "commit"},
         NEW x, WellFormed(x), x.at = writer[w].at, x.kind = writer[w].kind, x.op = writer[w].op
  PROVE  /\ WellFormed([x EXCEPT !.at = Following(w)])
         /\ [x EXCEPT !.at = Following(w)].at \notin {"idle", "run"}
         /\ [x EXCEPT !.at = Following(w)].op = x.op /\ [x EXCEPT !.at = Following(w)].id = x.id
         /\ [x EXCEPT !.at = Following(w)].in = x.in
         /\ [x EXCEPT !.at = Following(w)].model = x.model
         /\ [x EXCEPT !.at = Following(w)].related = x.related
  <1> DEFINE r == [x EXCEPT !.at = Following(w)]
  <1>1. /\ Following(w) \in StagesOf(writer[w].op)
        /\ \E j \in 1..Len(Stages(x.kind, x.op)) : Following(w) = Stages(x.kind, x.op)[j]
    BY NextStage DEF WellFormed
  <1>2. writer[w].op \in Op /\ x \in Request
    BY DEF WellFormed, Request
  <1>3. /\ Following(w) \in {"authorize", "load", "references", "targets", "previous", "hook",
                             "authorizeHooked", "commit"}
    BY <1>1, <1>2 DEF StagesOf, Op
  <1>4. r \in Request
    BY <1>2, <1>3 DEF Request
  <1>5. /\ r.at = Following(w) /\ r.status = x.status /\ r.kind = x.kind /\ r.op = x.op
        /\ r.in = x.in /\ r.id = x.id /\ r.model = x.model
        /\ r.related = x.related /\ r.previous = x.previous /\ r.ref = x.ref
    BY <1>2 DEF Request
  <1>6. x.id \in Id
    BY DEF WellFormed
  <1> HIDE DEF r
  <1>7. WellFormed(r)
    BY <1>1, <1>3, <1>4, <1>5, <1>6 DEF WellFormed, Placed
  <1> QED
    BY <1>3, <1>5, <1>7 DEF r

-----------------------------------------------------------------------------
(* One request moves: what the others were promised stands. *)

Moves(w, r) ==
  /\ writer' = [writer EXCEPT ![w] = r]
  /\ WellFormed(r)
  /\ \/ r = Idle
     \/ /\ r.op = writer[w].op /\ r.id = writer[w].id /\ r.in = writer[w].in
        /\ writer[w].at \notin {"idle", "run"}
        /\ r.at = "run" => r.status = "failed" \/ r.id \in used'[r.in]

(* A request that ends may have taken its id. *)
Takes(w, r) ==
  /\ r.at \in {"idle", "run"}
  /\ used' = [used EXCEPT ![writer[w].in] = used[writer[w].in] \cup {writer[w].id}]
  /\ Creating(w) \/ writer[w].id \in used[writer[w].in]

LEMMA WriterType ==
  ASSUME TypeOK
  PROVE  /\ writer \in [Writer -> Request] /\ used \in [Collection -> SUBSET Id]
         /\ writes \in Nat
  BY DEF TypeOK, Request

LEMMA MovedWriters ==
  ASSUME IInv, NEW w \in Writer, NEW r, Moves(w, r), Loaded(r), UNCHANGED <<schema, related>>
  PROVE  /\ \A v \in Writer : (WellFormed(writer[v]) /\ Loaded(writer[v]))'
         /\ writer' \in [Writer -> Request]
  <1>1. writer \in [Writer -> Request]
    BY WriterType DEF IInv
  <1>2. \A v \in Writer : writer'[v] = IF v = w THEN r ELSE writer[v]
    BY <1>1 DEF Moves
  <1>3. r \in Request /\ WellFormed(r)
    BY DEF Moves, WellFormed
  <1>4. \A v \in Writer : WellFormed(writer[v]) /\ Loaded(writer[v])
    BY DEF IInv
  <1>5. \A v \in Writer : WellFormed(writer'[v])
    BY <1>2, <1>3, <1>4
  <1>6. \A v \in Writer : Loaded(writer'[v])
    BY <1>2, <1>4
  <1>7. \A v \in Writer : Loaded(writer[v])'
    BY <1>6 DEF Loaded
  <1>8. writer' \in [Writer -> Request]
    BY <1>1, <1>3 DEF Moves
  <1> QED
    BY <1>5, <1>7, <1>8 DEF WellFormed, Placed

LEMMA MovedIds ==
  ASSUME IInv, NEW w \in Writer, NEW r, Moves(w, r), UNCHANGED used \/ Takes(w, r)
  PROVE  Fresh' /\ Stored'
  <1>1. writer \in [Writer -> Request] /\ used \in [Collection -> SUBSET Id]
    BY WriterType DEF IInv
  <1>2. \A v \in Writer : writer'[v] = IF v = w THEN r ELSE writer[v]
    BY <1>1 DEF Moves
  <1>3. \A v \in Writer : writer[v].in \in Collection
    BY <1>1 DEF Request
  <1>4. Idle.at = "idle"
    BY IdleWell
  <1>5. \A v \in Writer : Creating(v)' => /\ Creating(v) /\ writer'[v].id = writer[v].id
                                          /\ writer'[v].in = writer[v].in
                                          /\ Takes(w, r) => v # w
    BY <1>2, <1>4 DEF Moves, Creating, Takes
  <1>6. \A c \in Collection : used[c] \subseteq used'[c]
    BY <1>1, <1>3 DEF Takes
  <1>7. ASSUME NEW v \in Writer, Creating(v)'
        PROVE  writer'[v].id \notin used'[writer'[v].in]
    <2>1. writer[v].id \notin used[writer[v].in]
      BY <1>5, <1>7 DEF IInv, Fresh
    <2>2. CASE UNCHANGED used
      BY <1>5, <1>7, <2>1, <2>2
    <2>3. CASE Takes(w, r)
      <3>1. Creating(v) /\ v # w /\ writer'[v].id = writer[v].id /\ writer'[v].in = writer[v].in
        BY <1>5, <1>7, <2>3
      <3>2. writer[v].in = writer[w].in => writer[v].id # writer[w].id
        BY <2>1, <2>3, <3>1 DEF IInv, Fresh, Takes
      <3> QED
        BY <1>1, <1>3, <2>1, <2>3, <3>1, <3>2 DEF Takes
    <2> QED
      BY <2>2, <2>3
  <1>8. Fresh'
    BY <1>5, <1>7 DEF IInv, Fresh
  <1>9. ASSUME NEW v \in Writer, writer'[v].at = "run", writer'[v].status = "succeeded"
        PROVE  writer'[v].id \in used'[writer'[v].in]
    BY <1>2, <1>3, <1>4, <1>6, <1>9 DEF IInv, Stored, Moves
  <1> QED
    BY <1>8, <1>9 DEF Stored

LEMMA MovedUpdates ==
  ASSUME IInv, NEW w \in Writer, NEW r, Moves(w, r), NEW i \in Id
  PROVE  /\ IsFiniteSet(Updating(i))' /\ Cardinality(Updating(i))' <= Cardinality(Updating(i))
         /\ Cardinality(Updating(i)) \in Nat /\ Cardinality(Updating(i))' \in Nat
         /\ r = Idle /\ w \in Updating(i) =>
              Cardinality(Updating(i))' = Cardinality(Updating(i)) - 1
  <1>1. writer \in [Writer -> Request]
    BY WriterType DEF IInv
  <1>2. \A v \in Writer : writer'[v] = IF v = w THEN r ELSE writer[v]
    BY <1>1 DEF Moves
  <1>3. Idle.at = "idle"
    BY IdleWell
  <1>4. Updating(i)' \in SUBSET Updating(i)
    BY <1>2, <1>3 DEF Updating, Moves
  <1>5. IsFiniteSet(Updating(i))
    BY DEF IInv, Counted
  <1>6. r = Idle /\ w \in Updating(i) => Updating(i)' = Updating(i) \ {w}
    BY <1>2, <1>3 DEF Updating
  <1> DEFINE U == Updating(i)
             V == Updating(i)'
  <1>7. IsFiniteSet(V) /\ Cardinality(V) <= Cardinality(U)
    BY <1>4, <1>5, FS_Subset
  <1>8. Cardinality(U) \in Nat /\ Cardinality(V) \in Nat
    BY <1>5, <1>7, FS_CardinalityType
  <1>9. w \in U => Cardinality(U \ {w}) = Cardinality(U) - 1
    BY <1>5, FS_RemoveElement
  <1> QED
    BY <1>6, <1>7, <1>8, <1>9

-----------------------------------------------------------------------------
(* The stages before the commit write nothing. *)

LEMMA Quiet ==
  ASSUME IInv, NEW w \in Writer, NEW r, Moves(w, r), Loaded(r),
         UNCHANGED <<schema, related, data, rules, review, writes>>,
         runs' \subseteq [status: {"succeeded", "failed"}, record: Id \cup {None}],
         RunsTellTheTruth'
  PROVE  IInv'
  <1>1. UNCHANGED <<schema, related, rows, used, log, gap, blind, rules, review, writes>>
    BY DEF data
  <1>2. /\ \A v \in Writer : (WellFormed(writer[v]) /\ Loaded(writer[v]))'
        /\ writer' \in [Writer -> Request]
    BY <1>1, MovedWriters
  <1>3. TypeOK'
    BY <1>1, <1>2 DEF IInv, TypeOK, Request
  <1>4. Fresh' /\ Stored'
    BY <1>1, MovedIds
  <1>5. Tables' /\ EventsReplay' /\ RelationsResolve'
    BY <1>1 DEF IInv, Tables, EventsReplay, RelationsResolve, Exists
  <1>6. ASSUME NEW i \in Id
        PROVE  /\ IsFiniteSet(Updating(i))' /\ Cardinality(Updating(i))' <= writes'
               /\ rows'["posts"][i].rev + Cardinality(Updating(i))' <= writes' + 1
    <2>1. /\ IsFiniteSet(Updating(i))' /\ Cardinality(Updating(i))' <= Cardinality(Updating(i))
          /\ Cardinality(Updating(i)) \in Nat /\ Cardinality(Updating(i))' \in Nat
      BY MovedUpdates
    <2>2. rows["posts"][i].rev \in Nat /\ writes \in Nat
      BY DEF IInv, TypeOK, Collection, Row
    <2>3. /\ Cardinality(Updating(i)) <= writes
          /\ rows["posts"][i].rev + Cardinality(Updating(i)) <= writes + 1
      BY DEF IInv, Counted
    <2> HIDE DEF Updating
    <2> QED
      BY <1>1, <2>1, <2>2, <2>3
  <1>7. Counted'
    BY <1>1, <1>6 DEF IInv, Counted
  <1> QED
    BY <1>2, <1>3, <1>4, <1>5, <1>7 DEF IInv

LEMMA RunsKept ==
  ASSUME IInv, UNCHANGED <<runs, used>>
  PROVE  /\ runs' \subseteq [status: {"succeeded", "failed"}, record: Id \cup {None}]
         /\ RunsTellTheTruth'
  BY DEF IInv, TypeOK, RunsTellTheTruth

LEMMA IdleLoaded == ASSUME TypeOK PROVE Loaded(Idle)
  <1>1. schema["posts"] \in 1..MaxSchema
    BY DEF TypeOK, Collection
  <1> QED
    BY <1>1 DEF Idle, Loaded

LEMMA EndedLoaded ==
  ASSUME IInv, NEW w \in Writer, writer[w].at # "idle", NEW status \in {"succeeded", "failed"}
  PROVE  Loaded(Ended(w, status))
  <1>1. WellFormed(writer[w]) /\ Loaded(writer[w])
    BY DEF IInv
  <1>2. CASE writer[w].kind # "rule"
    BY <1>1, <1>2, EndedWell, IdleLoaded DEF IInv
  <1>3. CASE writer[w].kind = "rule"
    BY <1>1, <1>3, EndedWell DEF Loaded
  <1> QED
    BY <1>2, <1>3

LEMMA Refused ==
  ASSUME IInv, NEW w \in Writer, writer[w].at \notin {"idle", "run"}, Answer(w, "failed"),
         UNCHANGED elsewhere
  PROVE  IInv'
  <1>1. WellFormed(writer[w])
    BY DEF IInv
  <1>2. PICK r : r = Ended(w, "failed")
    OBVIOUS
  <1>3. Loaded(r)
    BY <1>2, EndedLoaded
  <1>4. Moves(w, r)
    BY <1>1, <1>2, EndedWell DEF Answer, Moves
  <1>5. UNCHANGED <<schema, related, data, rules, review, writes>> /\ UNCHANGED <<runs, used>>
    BY DEF elsewhere, data
  <1> QED
    BY <1>3, <1>4, <1>5, Quiet, RunsKept

LEMMA Advanced ==
  ASSUME IInv, NEW w \in Writer, writer[w].at \notin {"idle", "run", "commit"},
         NEW x, WellFormed(x), Loaded(x), x.at = writer[w].at, x.kind = writer[w].kind,
         x.op = writer[w].op, x.id = writer[w].id, x.in = writer[w].in,
         Advance(w, x), UNCHANGED elsewhere
  PROVE  IInv'
  <1>1. WellFormed(writer[w])
    BY DEF IInv
  <1>2. PICK r : r = [x EXCEPT !.at = Following(w)]
    OBVIOUS
  <1>3. /\ WellFormed(r) /\ r.at \notin {"idle", "run"} /\ r.op = x.op /\ r.id = x.id
        /\ r.in = x.in /\ r.model = x.model /\ r.related = x.related
    BY <1>1, <1>2, AdvancedWell
  <1>4. Loaded(r)
    BY <1>3 DEF Loaded
  <1>5. Moves(w, r)
    BY <1>2, <1>3 DEF Advance, Moves
  <1>6. UNCHANGED <<schema, related, data, rules, review, writes>> /\ UNCHANGED <<runs, used>>
    BY DEF elsewhere, data
  <1> QED
    BY <1>4, <1>5, <1>6, Quiet, RunsKept

LEMMA LoadStep ==
  ASSUME IInv, NEW w \in Writer, Load(w)
  PROVE  IInv'
  <1>1. WellFormed(writer[w]) /\ writer[w] \in Request
    BY DEF IInv, WellFormed
  <1>2. CASE writer[w].ref # None /\ ~related
    BY <1>2, Refused DEF Load
  <1>3. CASE ~(writer[w].ref # None /\ ~related)
    <2> DEFINE x == [writer[w] EXCEPT !.model = schema[writer[w].in], !.related = related]
    <2>1. /\ schema[writer[w].in] \in 1..MaxSchema /\ related \in BOOLEAN
          /\ schema[writer[w].in] \in 0..MaxSchema
      BY <1>1 DEF IInv, TypeOK, Request
    <2>2. x \in Request
      BY <1>1, <2>1 DEF Request
    <2>3. /\ x.at = writer[w].at /\ x.status = writer[w].status /\ x.kind = writer[w].kind
          /\ x.op = writer[w].op /\ x.in = writer[w].in /\ x.id = writer[w].id
          /\ x.model = schema[writer[w].in] /\ x.related = related
          /\ x.previous = writer[w].previous /\ x.ref = writer[w].ref
      BY <1>1 DEF Request
    <2>4. Advance(w, x) /\ UNCHANGED elsewhere /\ writer[w].at = "load"
      BY <1>3 DEF Load
    <2> HIDE DEF x
    <2>5. Placed(x)
      BY <1>1, <2>3 DEF WellFormed, Placed
    <2>6. WellFormed(x)
      BY <1>1, <1>3, <2>2, <2>3, <2>5 DEF WellFormed
    <2>7. Loaded(x)
      BY <2>1, <2>3 DEF Loaded
    <2> QED
      BY <2>3, <2>4, <2>6, <2>7, Advanced
  <1> QED
    BY <1>2, <1>3

(* The other stages that read what they need set the version of the other side alone. *)
LEMMA TargetsStep ==
  ASSUME IInv, NEW w \in Writer, Targets(w)
  PROVE  IInv'
  <1>1. WellFormed(writer[w]) /\ Loaded(writer[w]) /\ writer[w] \in Request
    BY DEF IInv, WellFormed
  <1> DEFINE x == [writer[w] EXCEPT !.target = schema["authors"]]
  <1>2. schema["authors"] \in 0..MaxSchema
    BY DEF IInv, TypeOK, Collection
  <1>3. x \in Request
    BY <1>1, <1>2 DEF Request
  <1>4. /\ x.at = writer[w].at /\ x.kind = writer[w].kind
        /\ x.op = writer[w].op /\ x.in = writer[w].in /\ x.id = writer[w].id
        /\ x.model = writer[w].model /\ x.related = writer[w].related
        /\ x.previous = writer[w].previous /\ x.ref = writer[w].ref
    BY <1>1 DEF Request
  <1>5. Advance(w, x) /\ UNCHANGED elsewhere /\ writer[w].at = "targets"
    BY DEF Targets
  <1> HIDE DEF x
  <1>6. WellFormed(x) /\ Loaded(x)
    BY <1>1, <1>3, <1>4, <1>5 DEF WellFormed, Placed, Loaded
  <1> QED
    BY <1>4, <1>5, <1>6, Advanced

LEMMA ReferencesStep ==
  ASSUME IInv, NEW w \in Writer, References(w)
  PROVE  IInv'
  <1>1. WellFormed(writer[w]) /\ Loaded(writer[w]) /\ writer[w] \in Request
    BY DEF IInv, WellFormed
  <1>2. writer[w].at = "references" /\ writer[w].op = "delete"
    BY <1>1, StageFacts DEF References
  <1> DEFINE x == [writer[w] EXCEPT !.related = related, !.target = schema["posts"]]
  <1>3. schema["posts"] \in 0..MaxSchema /\ related \in BOOLEAN
    BY DEF IInv, TypeOK, Collection
  <1>4. x \in Request
    BY <1>1, <1>3 DEF Request
  <1>5. /\ x.at = writer[w].at /\ x.kind = writer[w].kind
        /\ x.op = writer[w].op /\ x.in = writer[w].in /\ x.id = writer[w].id
        /\ x.model = writer[w].model
        /\ x.previous = writer[w].previous /\ x.ref = writer[w].ref
    BY <1>1 DEF Request
  <1>6. Advance(w, x) /\ UNCHANGED elsewhere
    BY DEF References
  <1> HIDE DEF x
  <1>7. WellFormed(x) /\ Loaded(x)
    BY <1>1, <1>2, <1>4, <1>5 DEF WellFormed, Placed, Loaded
  <1> QED
    BY <1>2, <1>5, <1>6, <1>7, Advanced

LEMMA PreviousStep ==
  ASSUME IInv, NEW w \in Writer, Previous(w)
  PROVE  IInv'
  <1>1. WellFormed(writer[w]) /\ Loaded(writer[w]) /\ writer[w] \in Request
    BY DEF IInv, WellFormed
  <1>2. /\ writer[w].at = "previous" /\ writer[w].op # "create" /\ writer[w].in \in Collection
        /\ writer[w].id \in Id
    BY <1>1, StageFacts DEF Previous, WellFormed
  <1> DEFINE x == [writer[w] EXCEPT !.previous = rows[writer[w].in][writer[w].id]]
  <1>3. rows[writer[w].in][writer[w].id] \in Row
    BY <1>2 DEF IInv, TypeOK
  <1>4. x \in Request
    BY <1>1, <1>3 DEF Request
  <1>5. /\ x.at = writer[w].at /\ x.kind = writer[w].kind
        /\ x.op = writer[w].op /\ x.in = writer[w].in /\ x.id = writer[w].id
        /\ x.model = writer[w].model /\ x.related = writer[w].related
        /\ x.ref = writer[w].ref
    BY <1>1 DEF Request
  <1>6. Advance(w, x) \/ Answer(w, "failed")
    BY DEF Previous
  <1> HIDE DEF x
  <1>7. WellFormed(x) /\ Loaded(x)
    BY <1>1, <1>2, <1>4, <1>5 DEF WellFormed, Placed, Loaded
  <1>8. UNCHANGED elsewhere
    BY DEF Previous
  <1> QED
    BY <1>2, <1>5, <1>6, <1>7, <1>8, Advanced, Refused

LEMMA AuthorizeStep ==
  ASSUME IInv, NEW w \in Writer, Authorize(w)
  PROVE  IInv'
  <1>1. WellFormed(writer[w]) /\ Loaded(writer[w])
    BY DEF IInv
  <1>2. Advance(w, writer[w]) \/ Answer(w, "failed")
    BY DEF Authorize, Check
  <1>3. writer[w].at \in {"authorize", "authorizeHooked"} /\ UNCHANGED elsewhere
    BY DEF Authorize
  <1> QED
    BY <1>1, <1>2, <1>3, Advanced, Refused

LEMMA HookStep ==
  ASSUME IInv, NEW w \in Writer, NEW ref \in Id \cup {None}, Hook(w, ref)
  PROVE  IInv'
  <1>1. WellFormed(writer[w]) /\ Loaded(writer[w]) /\ writer[w] \in Request
    BY DEF IInv, WellFormed
  <1>2. /\ writer[w].at = "hook" /\ writer[w].op # "delete"
        /\ writer[w].related \/ ref = None
    BY <1>1, StageFacts DEF Hook
  <1> DEFINE x == [writer[w] EXCEPT !.ref = ref]
  <1>3. x \in Request
    BY <1>1 DEF Request
  <1>4. /\ x.at = writer[w].at /\ x.kind = writer[w].kind
        /\ x.op = writer[w].op /\ x.in = writer[w].in /\ x.id = writer[w].id
        /\ x.model = writer[w].model /\ x.related = writer[w].related
        /\ x.previous = writer[w].previous /\ x.ref = ref
    BY <1>1 DEF Request
  <1>5. Advance(w, x) /\ UNCHANGED elsewhere
    BY DEF Hook
  <1> HIDE DEF x
  <1>6. WellFormed(x) /\ Loaded(x)
    BY <1>1, <1>2, <1>3, <1>4 DEF WellFormed, Placed, Loaded
  <1> QED
    BY <1>2, <1>4, <1>5, <1>6, Advanced

LEMMA FailStep ==
  ASSUME IInv, NEW w \in Writer, Fail(w)
  PROVE  IInv'
  BY Refused DEF Fail

(* A run is stored as what its request came to, or lost. *)
LEMMA RunStep ==
  ASSUME IInv, NEW w \in Writer, StoreRun(w) \/ LoseRun(w)
  PROVE  IInv'
  <1>1. /\ writer[w].at = "run" /\ WellFormed(writer[w]) /\ writer[w] \in Request
    BY DEF IInv, WellFormed, StoreRun, LoseRun
  <1>2. /\ UNCHANGED <<schema, related, data, rules, review, writes>>
        /\ writer' = [writer EXCEPT ![w] = Idle] /\ UNCHANGED used
    BY DEF StoreRun, LoseRun, elsewhere, data
  <1> DEFINE run == [status |-> writer[w].status,
                     record |-> IF writer[w].status = "succeeded" THEN writer[w].id ELSE None]
  <1>3. runs' \subseteq runs \cup {run}
    BY DEF StoreRun, LoseRun, elsewhere
  <1>4. writer[w].status = "succeeded" => writer[w].id \in used[writer[w].in]
    BY <1>1 DEF IInv, Stored
  <1>5. used[writer[w].in] \subseteq used["posts"] \cup used["authors"]
    BY <1>1 DEF Request, Collection
  <1>6. writer[w].status \in {"succeeded", "failed"} /\ writer[w].id \in Id
    BY <1>1 DEF WellFormed, Request
  <1> DEFINE record == IF writer[w].status = "succeeded" THEN writer[w].id ELSE None
  <1>7. record \in Id \cup {None}
    BY <1>6
  <1>8. run.status = writer[w].status /\ run.record = record
    OBVIOUS
  <1>9. run \in [status: {"succeeded", "failed"}, record: Id \cup {None}]
    BY <1>6, <1>7
  <1>10. run.status = "succeeded" => run.record \in used["posts"] \cup used["authors"]
    BY <1>4, <1>5
  <1> HIDE DEF run, record
  <1>11. /\ runs' \subseteq [status: {"succeeded", "failed"}, record: Id \cup {None}]
         /\ RunsTellTheTruth'
    BY <1>2, <1>3, <1>9, <1>10 DEF IInv, TypeOK, RunsTellTheTruth
  <1>12. PICK r : r = Idle
    OBVIOUS
  <1>13. Moves(w, r) /\ Loaded(r)
    BY <1>2, <1>12, IdleWell, IdleLoaded DEF Moves, IInv
  <1> QED
    BY <1>2, <1>11, <1>13, Quiet

LEMMA BeginStep ==
  ASSUME IInv, NEW w \in Writer, NEW kind \in Kind, NEW op \in Op, NEW c \in Collection,
         NEW i \in Id, NEW ref \in Id \cup {None}, Begin(w, kind, op, c, i, ref)
  PROVE  IInv'
  <1> DEFINE start == Stages(kind, op)[1]
             r == [Idle EXCEPT !.at = start, !.kind = kind, !.op = op, !.in = c, !.id = i, !.ref = ref]
  <1>1. /\ writer[w].at = "idle" /\ writes < MaxWrites /\ writes' = writes + 1
        /\ kind = "application" => c = "posts"
        /\ kind = "rule" => op = "create" /\ c = "authors"
        /\ c = "authors" => ref = None /\ op # "update"
        /\ op = "delete" => ref = None
        /\ IF op = "create" THEN i \notin used[c] /\ \A v \in Writer : writer[v].in = c => writer[v].id # i
                            ELSE Exists(c, i)
        /\ writer' = [writer EXCEPT ![w] = r]
        /\ UNCHANGED <<schema, related, data, rules, review, runs>>
    BY DEF Begin
  <1>2. /\ Stages(kind, op) \in Seq(StagesOf(op)) /\ Len(Stages(kind, op)) >= 1
        /\ 1 \in 1..Len(Stages(kind, op))
    BY PathShape, LenProperties
  <1>3. start \in StagesOf(op)
    BY <1>2, ElementOfSeq
  <1>4. /\ start \in {"authorize", "load", "references", "targets", "previous", "hook",
                      "authorizeHooked", "commit"}
    BY <1>3 DEF StagesOf, Op
  <1>5. \E j \in 1..Len(Stages(kind, op)) : start = Stages(kind, op)[j]
    BY <1>2
  <1> HIDE DEF start
  <1>6. Idle \in Request
    BY IdleWell DEF WellFormed
  <1>7. r \in Request
    BY <1>4, <1>6 DEF Request
  <1>8. /\ r.at = start /\ r.kind = kind /\ r.op = op /\ r.in = c /\ r.id = i /\ r.ref = ref
        /\ r.model = 0 /\ r.previous = Absent
    BY <1>6 DEF Request, Idle
  <1> HIDE DEF r
  <1>9. WellFormed(r)
    BY <1>1, <1>4, <1>5, <1>7, <1>8 DEF WellFormed, Placed, Collection
  <1>10. Loaded(r)
    <2>1. schema[c] \in 1..MaxSchema
      BY DEF IInv, TypeOK
    <2> QED
      BY <1>8, <2>1 DEF Loaded
  <1>11. writer \in [Writer -> Request] /\ used \in [Collection -> SUBSET Id] /\ writes \in Nat
    BY WriterType DEF IInv
  <1>12. \A v \in Writer : writer'[v] = IF v = w THEN r ELSE writer[v]
    BY <1>1, <1>11
  <1>13. UNCHANGED <<schema, related, rows, used, log, gap, blind, rules, review, runs>>
    BY <1>1 DEF data
  <1>14. \A v \in Writer : WellFormed(writer'[v]) /\ Loaded(writer'[v])
    BY <1>9, <1>10, <1>12 DEF IInv
  <1>15. \A v \in Writer : Loaded(writer[v])'
    BY <1>13, <1>14 DEF Loaded
  <1>16. writer' \in [Writer -> Request] /\ writes' \in 0..MaxWrites
    BY <1>1, <1>7, <1>11
  <1>17. TypeOK'
    BY <1>13, <1>16 DEF IInv, TypeOK, Request
  <1>18. Fresh'
    <2>1. op = "create" => /\ i \notin used[c]
                           /\ \A v \in Writer : writer[v].in = c => writer[v].id # i
      BY <1>1
    <2>2. \A v \in Writer : v # w => (Creating(v)' <=> Creating(v)) /\ writer'[v] = writer[v]
      BY <1>12 DEF Creating
    <2>3. Creating(w)' => op = "create"
      BY <1>8, <1>12 DEF Creating
    <2> QED
      BY <1>8, <1>12, <1>13, <2>1, <2>2, <2>3 DEF IInv, Fresh
  <1>19. Stored'
    BY <1>4, <1>8, <1>12, <1>13 DEF IInv, Stored
  <1>20. Tables' /\ EventsReplay' /\ RelationsResolve' /\ RunsTellTheTruth'
    BY <1>13 DEF IInv, Tables, EventsReplay, RelationsResolve, RunsTellTheTruth, Exists
  <1>21. ASSUME NEW p \in Id
         PROVE  /\ IsFiniteSet(Updating(p))' /\ Cardinality(Updating(p))' <= writes'
                /\ rows'["posts"][p].rev + Cardinality(Updating(p))' <= writes' + 1
    <2>1. Updating(p)' \in SUBSET (Updating(p) \cup {w})
      BY <1>12 DEF Updating
    <2>2. IsFiniteSet(Updating(p))
      BY DEF IInv, Counted
    <2> DEFINE U == Updating(p)
               V == Updating(p)'
    <2>3. IsFiniteSet(U \cup {w}) /\ Cardinality(U \cup {w}) <= Cardinality(U) + 1
      <3>1. Cardinality(U) \in Nat
        BY <2>2, FS_CardinalityType
      <3>2. /\ IsFiniteSet(U \cup {w})
            /\ Cardinality(U \cup {w}) = IF w \in U THEN Cardinality(U) ELSE Cardinality(U) + 1
        BY <2>2, FS_AddElement, ZenonT(20)
      <3> HIDE DEF U
      <3> QED
        BY <3>1, <3>2
    <2>4. IsFiniteSet(V) /\ Cardinality(V) <= Cardinality(U \cup {w})
      BY <2>1, <2>3, FS_Subset
    <2>5. /\ Cardinality(U) \in Nat /\ Cardinality(V) \in Nat /\ Cardinality(U \cup {w}) \in Nat
      BY <2>2, <2>3, <2>4, FS_CardinalityType
    <2>6. Cardinality(U) <= writes /\ rows["posts"][p].rev + Cardinality(U) <= writes + 1
      BY DEF IInv, Counted
    <2>7. rows["posts"][p].rev \in Nat
      BY DEF IInv, TypeOK, Collection, Row
    <2> HIDE DEF U, V
    <2>8. Cardinality(V) <= writes' /\ rows["posts"][p].rev + Cardinality(V) <= writes' + 1
      BY <1>1, <1>11, <2>3, <2>4, <2>5, <2>6, <2>7
    <2> QED
      BY <1>13, <2>4, <2>8 DEF V
  <1>22. Counted'
    BY <1>13, <1>21 DEF IInv, Counted
  <1> QED
    BY <1>14, <1>15, <1>17, <1>18, <1>19, <1>20, <1>22 DEF IInv, WellFormed, Placed

-----------------------------------------------------------------------------
(* The transaction. *)

(* What a commit does to everything but the relations. *)
LEMMA Written ==
  ASSUME IInv, NEW w \in Writer, writer[w].at = "commit", NEW row \in Row, Persist(w, row),
         UNCHANGED <<schema, related, rules, review, runs, writes>>,
         rows[writer[w].in][writer[w].id] = writer[w].previous,
         Creating(w) \/ writer[w].id \in used[writer[w].in],
         row.rev = 0 => row = Absent,
         writer[w].op = "update" => row.rev = writer[w].previous.rev + 1,
         writer[w].op # "update" => row.rev <= 1,
         writer[w].in = "posts" /\ row.ref # None => related,
         blind' \subseteq Id, RelationsResolve'
  PROVE  IInv'
  <1> DEFINE c == writer[w].in
             i == writer[w].id
  <1>1. WellFormed(writer[w]) /\ Loaded(writer[w]) /\ writer[w] \in Request
    BY DEF IInv, WellFormed
  <1>2. c \in Collection /\ i \in Id
    BY <1>1 DEF WellFormed, Request
  <1>3. /\ rows \in [Collection -> [Id -> Row]] /\ log = rows /\ ~gap
        /\ used \in [Collection -> SUBSET Id]
    BY DEF IInv, TypeOK, EventsReplay
  <1>4. /\ rows' = [rows EXCEPT ![c][i] = row] /\ log' = [log EXCEPT ![c][i] = row]
        /\ gap' = (gap \/ log[c][i] # writer[w].previous)
        /\ used' = [used EXCEPT ![c] = used[c] \cup {i}]
        /\ Answer(w, "succeeded")
    BY DEF Persist
  <1>5. log' = rows' /\ ~gap' /\ gap' \in BOOLEAN
    BY <1>3, <1>4
  <1>6. /\ rows' \in [Collection -> [Id -> Row]]
        /\ \A d \in Collection, j \in Id :
             rows'[d][j] = IF d = c /\ j = i THEN row ELSE rows[d][j]
    BY <1>2, <1>3, <1>4
  <1>7. used' \in [Collection -> SUBSET Id] /\ i \in used'[c]
    BY <1>2, <1>3, <1>4
  <1>8. \A d \in Collection : used[d] \subseteq used'[d]
    BY <1>3, <1>4
  <1>9. PICK r : r = Ended(w, "succeeded")
    OBVIOUS
  <1>10. /\ WellFormed(r) /\ r.at \in {"idle", "run"}
         /\ writer[w].op = "update" => r = Idle
         /\ \/ r = Idle
            \/ r.op = writer[w].op /\ r.id = i /\ r.in = c
    BY <1>1, <1>9, EndedWell DEF WellFormed
  <1>11. Moves(w, r)
    BY <1>4, <1>7, <1>9, <1>10 DEF Answer, Moves
  <1>12. Takes(w, r)
    BY <1>4, <1>10 DEF Takes
  <1>13. Loaded(r)
    BY <1>9, EndedLoaded
  <1> HIDE DEF c, i
  <1>14. /\ \A v \in Writer : (WellFormed(writer[v]) /\ Loaded(writer[v]))'
         /\ writer' \in [Writer -> Request]
    BY <1>11, <1>13, MovedWriters
  <1>15. Fresh' /\ Stored'
    BY <1>11, <1>12, MovedIds
  <1>16. \A d \in Collection, j \in Id : rows'[d][j].rev > 0 => j \in used'[d]
    <2>1. \A d \in Collection, j \in Id : rows[d][j].rev > 0 => j \in used[d]
      BY DEF IInv, TypeOK
    <2> SUFFICES ASSUME NEW d \in Collection, NEW j \in Id, rows'[d][j].rev > 0
                 PROVE  j \in used'[d]
      OBVIOUS
    <2>2. CASE d = c /\ j = i
      BY <1>7, <2>2
    <2>3. CASE ~(d = c /\ j = i)
      <3>1. rows'[d][j] = rows[d][j]
        BY <1>6, <2>3
      <3> QED
        BY <1>8, <2>1, <3>1
    <2> QED
      BY <2>2, <2>3
  <1>17. TypeOK'
    BY <1>5, <1>6, <1>7, <1>14, <1>16 DEF IInv, TypeOK, Request
  <1>18. Tables'
    <2>1. ASSUME NEW d \in Collection, NEW j \in Id, ~(rows'[d][j].rev > 0)
          PROVE  rows'[d][j] = Absent
      <3>1. row.rev \in Nat
        BY DEF Row
      <3> QED
        BY <1>6, <2>1, <3>1 DEF IInv, Tables, Exists
    <2>2. ASSUME ~related', NEW p \in Id
          PROVE  rows'["posts"][p].ref = None
      BY <1>6, <2>2 DEF IInv, Tables, Collection, c
    <2> QED
      BY <2>1, <2>2 DEF Tables, Exists
  <1>19. ASSUME NEW p \in Id
         PROVE  /\ IsFiniteSet(Updating(p))' /\ Cardinality(Updating(p))' <= writes'
                /\ rows'["posts"][p].rev + Cardinality(Updating(p))' <= writes' + 1
    <2>1. /\ IsFiniteSet(Updating(p))' /\ Cardinality(Updating(p))' <= Cardinality(Updating(p))
          /\ Cardinality(Updating(p)) \in Nat /\ Cardinality(Updating(p))' \in Nat
          /\ r = Idle /\ w \in Updating(p) =>
               Cardinality(Updating(p))' = Cardinality(Updating(p)) - 1
      BY <1>11, MovedUpdates
    <2>2. rows["posts"][p].rev \in Nat /\ writes \in Nat /\ row.rev \in Nat
      BY DEF IInv, TypeOK, Collection, Row
    <2>3. /\ Cardinality(Updating(p)) <= writes
          /\ rows["posts"][p].rev + Cardinality(Updating(p)) <= writes + 1
      BY DEF IInv, Counted
    <2>4. rows'["posts"][p] = IF c = "posts" /\ p = i THEN row ELSE rows["posts"][p]
      BY <1>6 DEF Collection
    <2>5. CASE ~(c = "posts" /\ p = i)
      <3> HIDE DEF Updating
      <3> QED
        BY <2>1, <2>2, <2>3, <2>4, <2>5
    <2>6. CASE c = "posts" /\ p = i /\ writer[w].op # "update"
      <3> HIDE DEF Updating
      <3> QED
        BY <2>1, <2>2, <2>3, <2>4, <2>6
    <2>7. CASE c = "posts" /\ p = i /\ writer[w].op = "update"
      <3>1. r = Idle /\ w \in Updating(p)
        BY <1>10, <2>7 DEF Updating, i
      <3>2. row.rev = rows["posts"][p].rev + 1
        BY <2>7 DEF c, i
      <3> HIDE DEF Updating
      <3> QED
        BY <2>1, <2>2, <2>3, <2>4, <2>7, <3>1, <3>2
    <2> QED
      BY <2>5, <2>6, <2>7
  <1>20. ASSUME NEW p \in Id
         PROVE  rows'["authors"][p].rev <= 1
    <2>1. c = "authors" => writer[w].op # "update"
      BY <1>1 DEF WellFormed, c
    <2> QED
      BY <1>6, <2>1 DEF IInv, Counted, Collection
  <1>21. Counted'
    BY <1>19, <1>20 DEF Counted
  <1>22. EventsReplay' /\ RunsTellTheTruth'
    BY <1>5, <1>8 DEF IInv, EventsReplay, RunsTellTheTruth, Collection
  <1> QED
    BY <1>14, <1>15, <1>17, <1>18, <1>21, <1>22 DEF IInv

(* A request that fails in its transaction leaves everything as it is. *)
LEMMA RolledBack ==
  ASSUME IInv, NEW w \in Writer, writer[w].at = "commit", Answer(w, "failed"), UNCHANGED data,
         UNCHANGED <<schema, related, rules, review, runs, writes>>
  PROVE  IInv'
  <1>1. UNCHANGED elsewhere
    BY DEF elsewhere
  <1> QED
    BY <1>1, Refused

(* The relation of a Post that is written refers to an Author who is there in the same transaction. *)
LEMMA RefersToWhatIs ==
  ASSUME IInv, NEW w \in Writer, writer[w].in = "posts", writer[w].op # "delete",
         SameModel(w), RelationsValid(w), writer[w].ref # None
  PROVE  related /\ Exists("authors", writer[w].ref)
  <1>1. WellFormed(writer[w]) /\ Loaded(writer[w])
    BY DEF IInv
  <1>2. schema["posts"] \in 1..MaxSchema
    BY DEF IInv, TypeOK, Collection
  <1>3. writer[w].model # 0 /\ writer[w].model = schema["posts"]
    BY <1>2 DEF SameModel
  <1>4. writer[w].related
    BY <1>1, <1>3 DEF WellFormed
  <1>5. related
    BY <1>1, <1>3, <1>4 DEF Loaded
  <1> QED
    BY <1>4, <1>5 DEF RelationsValid

LEMMA CommitCreateStep ==
  ASSUME IInv, NEW w \in Writer, CommitCreate(w)
  PROVE  IInv'
  <1> DEFINE row == [ref |-> writer[w].ref, rev |-> 1]
             c == writer[w].in
             i == writer[w].id
  <1>1. /\ writer[w].at = "commit" /\ writer[w].op = "create"
        /\ UNCHANGED <<schema, related, rules, review, runs, writes>>
    BY DEF CommitCreate
  <1>2. WellFormed(writer[w]) /\ writer[w] \in Request /\ c \in Collection /\ i \in Id
    BY <1>1 DEF IInv, WellFormed, Request
  <1>3. CASE SameModel(w) /\ RelationsValid(w) /\ Persist(w, row) /\ UNCHANGED blind
    <2>1. Creating(w) /\ i \notin used[c]
      BY <1>1 DEF IInv, Fresh, Creating
    <2>2. rows[c][i] = Absent /\ writer[w].previous = Absent
      <3>1. ~(rows[c][i].rev > 0)
        BY <1>2, <2>1 DEF IInv, TypeOK
      <3> QED
        BY <1>1, <1>2, <3>1 DEF IInv, Tables, Exists, WellFormed
    <2>3. row \in Row
      BY <1>2 DEF Row, Request
    <2>4. row.rev = 1 /\ row.ref = writer[w].ref
      OBVIOUS
    <2>5. c = "posts" /\ row.ref # None => related /\ Exists("authors", row.ref)
      BY <1>1, <1>3, <2>4, RefersToWhatIs
    <2>6. /\ rows \in [Collection -> [Id -> Row]]
          /\ rows' = [rows EXCEPT ![c][i] = row]
      BY <1>3 DEF IInv, TypeOK, Persist
    <2> HIDE DEF row, c, i
    <2>7. \A d \in Collection, j \in Id :
            rows'[d][j] = IF d = c /\ j = i THEN row ELSE rows[d][j]
      BY <1>2, <2>6
    <2>8. ASSUME NEW p \in Id, Exists("posts", p)', rows'["posts"][p].ref # None
          PROVE  rows'["authors"][rows'["posts"][p].ref].rev > 0 \/ rows'["posts"][p].ref \in blind'
      <3>1. rows'["posts"][p].ref \in Id
        BY <2>3, <2>6, <2>8 DEF Collection, Row
      <3>2. CASE c = "posts" /\ p = i
        BY <2>5, <2>7, <2>8, <3>1, <3>2 DEF Collection, Exists
      <3>3. CASE ~(c = "posts" /\ p = i)
        <4>1. rows'["posts"][p] = rows["posts"][p]
          BY <2>7, <3>3 DEF Collection
        <4>2. rows["authors"][rows["posts"][p].ref].rev > 0 \/ rows["posts"][p].ref \in blind
          BY <2>8, <4>1 DEF IInv, RelationsResolve, Exists
        <4> QED
          BY <1>3, <2>4, <2>7, <3>1, <4>1, <4>2 DEF Collection
      <3> QED
        BY <3>2, <3>3
    <2>9. RelationsResolve'
      BY <2>8 DEF RelationsResolve, Exists
    <2>10. blind' \subseteq Id
      BY <1>3 DEF IInv, TypeOK
    <2> QED
      BY <1>1, <1>3, <2>1, <2>2, <2>3, <2>4, <2>5, <2>9, <2>10, Written DEF c, i
  <1>4. CASE Answer(w, "failed") /\ UNCHANGED data
    BY <1>1, <1>4, RolledBack
  <1> QED
    BY <1>3, <1>4 DEF CommitCreate

LEMMA CommitUpdateStep ==
  ASSUME IInv, NEW w \in Writer, CommitUpdate(w)
  PROVE  IInv'
  <1> DEFINE row == [ref |-> writer[w].ref, rev |-> writer[w].previous.rev + 1]
             i == writer[w].id
  <1>1. /\ writer[w].at = "commit" /\ writer[w].op = "update"
        /\ UNCHANGED <<schema, related, rules, review, runs, writes>>
    BY DEF CommitUpdate
  <1>2. /\ WellFormed(writer[w]) /\ writer[w] \in Request /\ writer[w].in = "posts" /\ i \in Id
        /\ "posts" \in Collection /\ writes \in 0..MaxWrites
    BY <1>1 DEF IInv, WellFormed, Collection, TypeOK
  <1>3. CASE SameModel(w) /\ SameRecord(w) /\ RelationsValid(w) /\ Persist(w, row) /\ UNCHANGED blind
    <2>1. rows["posts"][i].rev > 0 /\ rows["posts"][i] = writer[w].previous
      BY <1>2, <1>3 DEF SameRecord, Exists
    <2>2. i \in used["posts"]
      BY <1>2, <2>1 DEF IInv, TypeOK
    <2>3. rows["posts"][i] \in Row
      BY <1>2 DEF IInv, TypeOK
    <2>4. row \in Row
      <3>1. w \in Updating(i)
        BY <1>1 DEF Updating
      <3>2. IsFiniteSet(Updating(i)) /\ rows["posts"][i].rev + Cardinality(Updating(i)) <= writes + 1
        BY <1>2 DEF IInv, Counted
      <3>3. Cardinality(Updating(i)) \in Nat /\ Cardinality(Updating(i)) # 0
        BY <3>1, <3>2, FS_CardinalityType, FS_EmptySet
      <3>4. rows["posts"][i].rev \in Nat
        BY <2>3 DEF Row
      <3>5. rows["posts"][i].rev + 1 \in 0..MaxWrites+1
        BY <1>2, <3>2, <3>3, <3>4
      <3>6. writer[w].ref \in Id \cup {None}
        BY <1>2 DEF Request
      <3> QED
        BY <2>1, <3>5, <3>6 DEF Row
    <2>5. row.rev = writer[w].previous.rev + 1 /\ row.ref = writer[w].ref /\ row.rev # 0
      BY <2>1, <2>3 DEF Row
    <2>6. row.ref # None => related /\ Exists("authors", row.ref)
      BY <1>1, <1>2, <1>3, <2>5, RefersToWhatIs
    <2>7. /\ rows \in [Collection -> [Id -> Row]]
          /\ rows' = [rows EXCEPT !["posts"][i] = row]
      BY <1>2, <1>3 DEF IInv, TypeOK, Persist
    <2> HIDE DEF row, i
    <2>8. \A d \in Collection, j \in Id :
            rows'[d][j] = IF d = "posts" /\ j = i THEN row ELSE rows[d][j]
      BY <1>2, <2>7
    <2>9. ASSUME NEW p \in Id, Exists("posts", p)', rows'["posts"][p].ref # None
          PROVE  rows'["authors"][rows'["posts"][p].ref].rev > 0 \/ rows'["posts"][p].ref \in blind'
      <3>1. rows'["posts"][p].ref \in Id
        BY <2>4, <2>7, <2>9 DEF Collection, Row
      <3>2. CASE p = i
        BY <2>6, <2>8, <2>9, <3>1, <3>2 DEF Collection, Exists
      <3>3. CASE p # i
        <4>1. rows'["posts"][p] = rows["posts"][p]
          BY <2>8, <3>3 DEF Collection
        <4>2. rows["authors"][rows["posts"][p].ref].rev > 0 \/ rows["posts"][p].ref \in blind
          BY <2>9, <4>1 DEF IInv, RelationsResolve, Exists
        <4> QED
          BY <1>3, <2>8, <3>1, <4>1, <4>2 DEF Collection
      <3> QED
        BY <3>2, <3>3
    <2>10. RelationsResolve'
      BY <2>9 DEF RelationsResolve, Exists
    <2>11. blind' \subseteq Id
      BY <1>3 DEF IInv, TypeOK
    <2> QED
      BY <1>1, <1>2, <1>3, <2>1, <2>2, <2>4, <2>5, <2>6, <2>10, <2>11, Written DEF i
  <1>4. CASE Answer(w, "failed") /\ UNCHANGED data
    BY <1>1, <1>4, RolledBack
  <1> QED
    BY <1>3, <1>4 DEF CommitUpdate

LEMMA CommitDeleteStep ==
  ASSUME IInv, NEW w \in Writer, CommitDelete(w)
  PROVE  IInv'
  <1> DEFINE c == writer[w].in
             i == writer[w].id
  <1>1. /\ writer[w].at = "commit" /\ writer[w].op = "delete"
        /\ UNCHANGED <<schema, related, rules, review, runs, writes>>
    BY DEF CommitDelete
  <1>2. /\ WellFormed(writer[w]) /\ writer[w] \in Request /\ c \in Collection /\ i \in Id
        /\ blind \subseteq Id
    BY <1>1 DEF IInv, WellFormed, Request, TypeOK
  <1>3. CASE /\ SameModel(w) /\ SameRecord(w) /\ NoReferences(w) /\ Persist(w, Absent)
             /\ blind' = IF c = "authors" /\ related /\ ~writer[w].related
                         THEN blind \cup {i} ELSE blind
    <2>1. rows[c][i].rev > 0 /\ rows[c][i] = writer[w].previous
      BY <1>3 DEF SameRecord, Exists
    <2>2. i \in used[c]
      BY <1>2, <2>1 DEF IInv, TypeOK
    <2>3. Absent \in Row /\ Absent.rev = 0 /\ Absent.ref = None
      BY DEF Absent, Row
    <2>4. /\ rows \in [Collection -> [Id -> Row]]
          /\ rows' = [rows EXCEPT ![c][i] = Absent]
      BY <1>3 DEF IInv, TypeOK, Persist
    <2>5. blind' \subseteq Id /\ blind \subseteq blind'
      BY <1>2, <1>3
    <2> HIDE DEF c, i
    <2>6. \A d \in Collection, j \in Id :
            rows'[d][j] = IF d = c /\ j = i THEN Absent ELSE rows[d][j]
      BY <1>2, <2>4
    <2>7. ASSUME NEW p \in Id, Exists("posts", p)', rows'["posts"][p].ref # None
          PROVE  rows'["authors"][rows'["posts"][p].ref].rev > 0 \/ rows'["posts"][p].ref \in blind'
      <3>1. ~(c = "posts" /\ p = i)
        BY <2>3, <2>6, <2>7 DEF Collection, Exists
      <3>2. rows'["posts"][p] = rows["posts"][p] /\ rows["posts"][p].rev > 0
        BY <2>6, <2>7, <3>1 DEF Collection, Exists
      <3> DEFINE a == rows["posts"][p].ref
      <3>3. a \in Id /\ (rows["authors"][a].rev > 0 \/ a \in blind)
        BY <2>4, <2>7, <3>2 DEF Collection, Row, IInv, RelationsResolve, Exists
      <3>4. CASE ~(c = "authors" /\ a = i)
        BY <2>5, <2>6, <3>2, <3>3, <3>4 DEF Collection
      <3>5. CASE c = "authors" /\ a = i
        <4>1. p \in Refers(i)
          BY <3>2, <3>5 DEF Refers, Exists
        <4>2. ~writer[w].related
          BY <1>3, <3>5, <4>1 DEF NoReferences, c, i
        <4>3. related
          BY <2>7, <3>2 DEF IInv, Tables
        <4> QED
          BY <1>3, <3>2, <3>5, <4>2, <4>3
      <3> QED
        BY <3>4, <3>5
    <2>8. RelationsResolve'
      BY <2>7 DEF RelationsResolve, Exists
    <2> QED
      BY <1>1, <1>3, <2>1, <2>2, <2>3, <2>5, <2>8, Written DEF c, i
  <1>4. CASE Answer(w, "failed") /\ UNCHANGED data
    BY <1>1, <1>4, RolledBack
  <1> QED
    BY <1>3, <1>4 DEF CommitDelete

-----------------------------------------------------------------------------
(* The administrators, and every step. *)

LEMMA RulesStep ==
  ASSUME IInv, Review \/ ApplyRules \/ DiscardRules \/ \E mode \in Mode : SaveRules(mode)
  PROVE  IInv'
  <1>1. UNCHANGED <<schema, related, rows, used, log, gap, blind, writer, runs, writes>>
    BY DEF Review, ApplyRules, DiscardRules, SaveRules, data
  <1>2. /\ rules \in [applied: Mode, pending: Mode \cup {"none"}, version: 1..MaxRules]
        /\ rules.pending # rules.applied
        /\ review \in [pending: Mode \cup {"none"}, version: 0..MaxRules]
    BY DEF IInv, TypeOK
  <1>3. /\ rules' \in [applied: Mode, pending: Mode \cup {"none"}, version: 1..MaxRules]
        /\ rules'.pending # rules'.applied
        /\ review' \in [pending: Mode \cup {"none"}, version: 0..MaxRules]
    <2>1. rules.version \in 0..MaxRules /\ (rules.version < MaxRules => rules.version + 1 \in 1..MaxRules)
      BY <1>2
    <2>2. CASE Review
      BY <1>2, <2>1, <2>2 DEF Review
    <2>3. CASE ApplyRules
      BY <1>2, <2>1, <2>3 DEF ApplyRules, Mode
    <2>4. CASE DiscardRules
      BY <1>2, <2>1, <2>4 DEF DiscardRules, Mode
    <2>5. ASSUME NEW mode \in Mode, SaveRules(mode)
          PROVE  /\ rules' \in [applied: Mode, pending: Mode \cup {"none"}, version: 1..MaxRules]
                 /\ rules'.pending # rules'.applied /\ review' = review
      BY <1>2, <2>1, <2>5 DEF SaveRules, Mode
    <2> QED
      BY <1>2, <2>2, <2>3, <2>4, <2>5
  <1>4. TypeOK'
    BY <1>1, <1>3 DEF IInv, TypeOK
  <1>5. \A v \in Writer : (WellFormed(writer[v]) /\ Loaded(writer[v]))'
    BY <1>1 DEF IInv, WellFormed, Placed, Loaded
  <1>6. Fresh' /\ Stored' /\ Tables' /\ EventsReplay' /\ RelationsResolve' /\ RunsTellTheTruth'
    BY <1>1 DEF IInv, Fresh, Creating, Stored, Tables, EventsReplay, RelationsResolve,
                RunsTellTheTruth, Exists
  <1>7. Counted'
    <2>1. \A i \in Id : Updating(i)' = Updating(i)
      BY <1>1 DEF Updating
    <2> QED
      BY <1>1, <2>1 DEF IInv, Counted
  <1> QED
    BY <1>4, <1>5, <1>6, <1>7 DEF IInv

(* The rows without their relations. *)
LEMMA WithoutRelations ==
  ASSUME NEW table \in [Collection -> [Id -> Row]]
  PROVE  /\ Unrelated(table) \in [Collection -> [Id -> Row]]
         /\ \A i \in Id : /\ Unrelated(table)["authors"][i] = table["authors"][i]
                          /\ Unrelated(table)["posts"][i].rev = table["posts"][i].rev
                          /\ Unrelated(table)["posts"][i].ref = None
  <1> DEFINE posts == [i \in Id |-> [table["posts"][i] EXCEPT !.ref = None]]
  <1>1. /\ table["posts"] \in [Id -> Row] /\ "posts" \in Collection /\ "authors" \in Collection
    BY DEF Collection
  <1>2. \A i \in Id : /\ posts[i] \in Row /\ posts[i].rev = table["posts"][i].rev
                      /\ posts[i].ref = None
    BY <1>1 DEF Row
  <1>3. posts \in [Id -> Row]
    BY <1>2
  <1>4. Unrelated(table) = [table EXCEPT !["posts"] = posts]
    BY DEF Unrelated
  <1> HIDE DEF posts
  <1>5. Unrelated(table)["posts"] = posts /\ Unrelated(table)["authors"] = table["authors"]
    BY <1>1, <1>4
  <1> QED
    BY <1>1, <1>2, <1>3, <1>4, <1>5

LEMMA SchemaStep ==
  ASSUME IInv, NEW c \in Collection, ApplySchema(c)
  PROVE  IInv'
  <1>1. /\ schema[c] < MaxSchema /\ schema' = [schema EXCEPT ![c] = schema[c] + 1]
        /\ UNCHANGED <<used, rules, review, writer, runs, gap, blind, writes>>
    BY DEF ApplySchema
  <1>2. /\ schema \in [Collection -> 1..MaxSchema] /\ related \in BOOLEAN
        /\ rows \in [Collection -> [Id -> Row]] /\ log = rows
        /\ "posts" \in Collection /\ "authors" \in Collection
    BY DEF IInv, TypeOK, EventsReplay, Collection
  <1>3. schema' \in [Collection -> 1..MaxSchema]
    BY <1>1, <1>2
  <1>4. /\ \A d \in Collection : schema'[d] = IF d = c THEN schema[d] + 1 ELSE schema[d]
        /\ \A d \in Collection : schema[d] \in Nat
    BY <1>1, <1>2
  <1>5. /\ c = "posts"  => related' = ~related /\ rows' = Unrelated(rows) /\ log' = Unrelated(log)
        /\ c = "authors" => related' = related /\ rows' = rows /\ log' = log
    BY DEF ApplySchema
  <1>6. /\ rows' \in [Collection -> [Id -> Row]] /\ log' = rows' /\ related' \in BOOLEAN
        /\ \A i \in Id : /\ rows'["authors"][i] = rows["authors"][i]
                         /\ rows'["posts"][i].rev = rows["posts"][i].rev
                         /\ rows'["posts"][i].ref \in {None, rows["posts"][i].ref}
                         /\ c = "posts" => rows'["posts"][i].ref = None
    <2>1. CASE c = "posts"
      BY <1>2, <1>5, <2>1, WithoutRelations
    <2>2. CASE c = "authors"
      BY <1>2, <1>5, <2>2
    <2> QED
      BY <2>1, <2>2 DEF Collection
  <1>7. \A d \in Collection, i \in Id : rows'[d][i].rev = rows[d][i].rev
    BY <1>6 DEF Collection
  <1>8. TypeOK'
    <2>1. \A d \in Collection, i \in Id : rows'[d][i].rev > 0 => i \in used'[d]
      <3>1. \A d \in Collection, i \in Id : rows[d][i].rev > 0 => i \in used[d]
        BY DEF IInv, TypeOK
      <3> QED
        BY <1>1, <1>7, <3>1
    <2> QED
      BY <1>1, <1>3, <1>6, <2>1 DEF IInv, TypeOK
  <1>9. \A v \in Writer : (WellFormed(writer[v]) /\ Loaded(writer[v]))'
    <2> SUFFICES ASSUME NEW v \in Writer
                 PROVE  (WellFormed(writer[v]) /\ Loaded(writer[v]))'
      OBVIOUS
    <2>1. WellFormed(writer[v]) /\ Loaded(writer[v]) /\ writer[v] \in Request
      BY DEF IInv, WellFormed
    <2>2. WellFormed(writer[v])'
      BY <1>1, <2>1 DEF WellFormed, Placed
    <2>3. writer[v].model \in Nat /\ writer[v].in \in Collection
      BY <2>1 DEF Request
    <2>4. writer[v].model <= schema'[writer[v].in]
      BY <1>4, <2>1, <2>3 DEF Loaded
    <2>5. ASSUME writer[v].op # "delete", writer[v].in = "posts", writer[v].model = schema'["posts"]
          PROVE  writer[v].related <=> related'
      <3>1. c # "posts"
        BY <1>2, <1>4, <2>1, <2>3, <2>5 DEF Loaded
      <3> QED
        BY <1>2, <1>4, <1>5, <2>1, <2>5, <3>1 DEF Loaded, Collection
    <2> QED
      BY <1>1, <2>2, <2>4, <2>5 DEF Loaded
  <1>10. Fresh' /\ Stored' /\ RunsTellTheTruth'
    BY <1>1 DEF IInv, Fresh, Creating, Stored, RunsTellTheTruth
  <1>11. Tables'
    <2>1. ASSUME NEW i \in Id, ~(rows'["posts"][i].rev > 0)
          PROVE  rows'["posts"][i] = Absent
      <3>1. rows["posts"][i] = Absent
        BY <1>2, <1>6, <2>1 DEF IInv, Tables, Exists
      <3>2. rows'["posts"][i].ref = None /\ rows'["posts"][i].rev = 0 /\ rows'["posts"][i] \in Row
        BY <1>2, <1>6, <3>1 DEF Absent
      <3> QED
        BY <3>2 DEF Absent, Row
    <2>2. ASSUME NEW i \in Id, ~(rows'["authors"][i].rev > 0)
          PROVE  rows'["authors"][i] = Absent
      BY <1>2, <1>6, <2>2 DEF IInv, Tables, Exists
    <2>3. ASSUME ~related', NEW p \in Id
          PROVE  rows'["posts"][p].ref = None
      BY <1>5, <1>6, <2>3 DEF IInv, Tables, Collection
    <2> QED
      BY <2>1, <2>2, <2>3 DEF Tables, Exists, Collection
  <1>12. Counted'
    <2>1. \A i \in Id : Updating(i)' = Updating(i)
      BY <1>1 DEF Updating
    <2> QED
      BY <1>1, <1>6, <2>1 DEF IInv, Counted
  <1>13. EventsReplay'
    BY <1>1, <1>6 DEF IInv, EventsReplay
  <1>14. RelationsResolve'
    <2> SUFFICES ASSUME NEW p \in Id, rows'["posts"][p].rev > 0, rows'["posts"][p].ref # None
                 PROVE  \/ rows'["authors"][rows'["posts"][p].ref].rev > 0
                        \/ rows'["posts"][p].ref \in blind
      BY <1>1 DEF RelationsResolve, Exists
    <2>1. /\ rows["posts"][p].rev > 0 /\ rows["posts"][p].ref # None
          /\ rows'["posts"][p].ref = rows["posts"][p].ref
      BY <1>6
    <2>2. rows["posts"][p].ref \in Id
      BY <1>2, <2>1 DEF Row
    <2>3. \/ rows["authors"][rows["posts"][p].ref].rev > 0
          \/ rows["posts"][p].ref \in blind
      BY <2>1 DEF IInv, RelationsResolve, Exists
    <2> QED
      BY <1>6, <2>1, <2>2, <2>3
  <1> QED
    BY <1>8, <1>9, <1>10, <1>11, <1>12, <1>13, <1>14 DEF IInv

LEMMA IInvInit == ASSUME Init PROVE IInv
  <1>1. /\ Idle \in Request /\ WellFormed(Idle)
    BY IdleWell DEF WellFormed
  <1>2. /\ schema = [c \in Collection |-> 1] /\ related \in BOOLEAN /\ used \in [Collection -> SUBSET Id]
        /\ rows = [c \in Collection |-> [i \in Id |->
                     IF i \in used[c] THEN [ref |-> None, rev |-> 1] ELSE Absent]]
        /\ log = rows /\ rules = InitialRules /\ review = [pending |-> "none", version |-> 0]
        /\ writer = [w \in Writer |-> Idle] /\ runs = {}
        /\ gap = FALSE /\ blind = {} /\ writes = 0
    BY DEF Init
  <1>3. [ref |-> None, rev |-> 1] \in Row /\ Absent \in Row
    BY DEF Row, Absent
  <1>4. rows \in [Collection -> [Id -> Row]]
    BY <1>2, <1>3
  <1>5. \A c \in Collection, i \in Id :
          /\ rows[c][i].ref = None /\ rows[c][i].rev \in {0, 1}
          /\ rows[c][i].rev = 1 <=> i \in used[c]
          /\ rows[c][i].rev = 0 => rows[c][i] = Absent
    BY <1>2 DEF Absent
  <1>6. schema \in [Collection -> 1..MaxSchema]
    BY <1>2
  <1>7. rules \in [applied: Mode, pending: Mode \cup {"none"}, version: 1..MaxRules]
    BY <1>2 DEF InitialRules, Mode
  <1>8. /\ review \in [pending: Mode \cup {"none"}, version: 0..MaxRules]
        /\ rules.pending # rules.applied
    BY <1>2 DEF InitialRules
  <1>9. writer \in [Writer -> Request] /\ writes \in 0..MaxWrites
    BY <1>1, <1>2
  <1>10. TypeOK
    <2>1. \A c \in Collection, i \in Id : rows[c][i].rev > 0 => i \in used[c]
      BY <1>5
    <2> QED
      BY <1>2, <1>4, <1>6, <1>7, <1>8, <1>9, <2>1 DEF TypeOK, Request
  <1>11. \A w \in Writer : WellFormed(writer[w]) /\ Loaded(writer[w])
    BY <1>1, <1>2, <1>10, IdleLoaded
  <1>12. \A w \in Writer : writer[w].at = "idle"
    BY <1>2, IdleWell
  <1>13. Fresh /\ Stored /\ RunsTellTheTruth
    BY <1>2, <1>12 DEF Fresh, Creating, Stored, RunsTellTheTruth
  <1>14. Tables /\ EventsReplay /\ RelationsResolve
    BY <1>2, <1>5 DEF Tables, EventsReplay, RelationsResolve, Exists, Collection
  <1>15. Counted
    <2>1. \A i \in Id : Updating(i) = {}
      BY <1>12 DEF Updating
    <2>2. IsFiniteSet({}) /\ Cardinality({}) = 0
      BY FS_EmptySet
    <2> QED
      BY <1>2, <1>5, <2>1, <2>2 DEF Counted, Collection
  <1> QED
    BY <1>10, <1>11, <1>13, <1>14, <1>15 DEF IInv

LEMMA IInvStutter ==
  ASSUME IInv, UNCHANGED vars
  PROVE  IInv'
  <1>1. UNCHANGED <<schema, related, rows, used, rules, review, writer, runs, log, gap, blind, writes>>
    BY DEF vars
  <1>2. \A i \in Id : Updating(i)' = Updating(i)
    BY <1>1 DEF Updating
  <1>3. \A v \in Writer : (WellFormed(writer[v]) /\ Loaded(writer[v]))'
    BY <1>1 DEF IInv, WellFormed, Placed, Loaded
  <1>4. TypeOK' /\ Fresh' /\ Stored' /\ Tables'
    BY <1>1 DEF IInv, TypeOK, Fresh, Creating, Stored, Tables, Exists
  <1>5. Counted' /\ EventsReplay' /\ RelationsResolve' /\ RunsTellTheTruth'
    BY <1>1, <1>2 DEF IInv, Counted, EventsReplay, RelationsResolve, RunsTellTheTruth, Exists
  <1> QED
    BY <1>3, <1>4, <1>5 DEF IInv

LEMMA IInvNext == ASSUME IInv, [Next]_vars PROVE IInv'
  <1>1. ASSUME NEW w \in Writer, Step(w) PROVE IInv'
    BY <1>1, LoadStep, TargetsStep, ReferencesStep, PreviousStep, AuthorizeStep, HookStep, FailStep,
       RunStep, CommitCreateStep, CommitUpdateStep, CommitDeleteStep DEF Step, Commit
  <1> QED
    BY <1>1, BeginStep, RulesStep, SchemaStep, IInvStutter DEF Next

-----------------------------------------------------------------------------
(* The inductive invariant: where every request stands and what it has     *)
(* learnt, whose ids are taken, and how the rows agree with the events     *)
(* (createWithPrincipal, updateWithPrincipal, deleteWithPrincipal).        *)
THEOREM Invariance == Spec => []IInv
  BY IInvInit, IInvNext, PTL DEF Spec

(* Every variable stays in its type; of a Record there are never more      *)
(* versions than requests have begun, and no id is used twice.             *)
THEOREM TypeCorrect == Spec => []TypeOK
  <1>1. IInv => TypeOK
    BY DEF IInv
  <1> QED
    BY <1>1, Invariance, PTL

(* The events of every Record lead from each of its states to the next and *)
(* end with the Record as it is: no update is lost under another           *)
(* (verifyModel, sameRecordState, appendRecordEvent).                      *)
THEOREM NoWriteIsLost == Spec => []EventsReplay
  <1>1. IInv => EventsReplay
    BY DEF IInv
  <1> QED
    BY <1>1, Invariance, PTL

(* A relation refers to a Record that exists, unless it was deleted by a   *)
(* request which listed the relations before this one was applied          *)
(* (validateRelations, relationReferences, ensureNoReferences).            *)
THEOREM RelationsStand == Spec => []RelationsResolve
  <1>1. IInv => RelationsResolve
    BY DEF IInv
  <1> QED
    BY <1>1, Invariance, PTL

(* A live run that is stored as succeeded names a Record that was created  *)
(* (executeLive, insertRun).                                               *)
THEOREM RunsAreTrue == Spec => []RunsTellTheTruth
  <1>1. IInv => RunsTellTheTruth
    BY DEF IInv
  <1> QED
    BY <1>1, Invariance, PTL

(* The property of one step that CommittedWritesAllowed states of all. *)
Allowed ==
  \A w \in Writer :
    writer[w].kind = "application" /\ rows' # rows /\ writer[w].at = "commit" /\ writer'[w].at = "idle"
      => Allows(IF writer[w].op = "create" THEN rows'["posts"][writer[w].id]
                ELSE rows["posts"][writer[w].id])

(* Only the step of a request itself moves it. *)
LEMMA OwnStep ==
  ASSUME IInv, Next, NEW w \in Writer, writer[w].at = "commit", writer'[w].at = "idle"
  PROVE  Commit(w) \/ UNCHANGED rows
  <1>1. writer \in [Writer -> Request]
    BY WriterType DEF IInv
  <1>2. ASSUME NEW v \in Writer, Step(v)
        PROVE  Commit(w) \/ UNCHANGED rows
    <2>1. CASE v = w
      BY <1>2, <2>1 DEF Step, Load, Targets, References, Previous, Authorize, Fail, StoreRun, LoseRun,
                        Hook, elsewhere, data
    <2>2. CASE v # w
      <3>1. \E r : writer' = [writer EXCEPT ![v] = r]
        BY <1>2 DEF Step, Commit, Load, Targets, References, Previous, Authorize, Fail, StoreRun,
                    LoseRun, Hook, CommitCreate, CommitUpdate, CommitDelete, Persist, Answer, Advance,
                    Check
      <3>2. writer'[w] = writer[w]
        BY <1>1, <2>2, <3>1
      <3> QED
        BY <3>2
    <2> QED
      BY <2>1, <2>2
  <1>3. ASSUME NEW v \in Writer, NEW kind \in Kind, NEW op \in Op, NEW c \in Collection, NEW i \in Id,
               NEW ref \in Id \cup {None}, Begin(v, kind, op, c, i, ref)
        PROVE  UNCHANGED rows
    BY <1>3 DEF Begin, data
  <1>4. ASSUME NEW c \in Collection, ApplySchema(c)
        PROVE  FALSE
    BY <1>4 DEF ApplySchema
  <1>5. ASSUME Review \/ ApplyRules \/ DiscardRules \/ \E mode \in Mode : SaveRules(mode)
        PROVE  FALSE
    BY <1>5 DEF Review, ApplyRules, DiscardRules, SaveRules
  <1> QED
    BY <1>2, <1>3, <1>4, <1>5 DEF Next

LEMMA AllowedNext == ASSUME IInv, [Next]_vars PROVE [Allowed]_vars
  <1> SUFFICES ASSUME Next, NEW w \in Writer, writer[w].kind = "application", rows' # rows,
                      writer[w].at = "commit", writer'[w].at = "idle"
               PROVE  Allows(IF writer[w].op = "create" THEN rows'["posts"][writer[w].id]
                             ELSE rows["posts"][writer[w].id])
    BY DEF Allowed
  <1>1. Commit(w)
    BY OwnStep
  <1>2. WellFormed(writer[w])
    BY DEF IInv
  <1>3. writer[w].in = "posts" /\ writer[w].id \in Id
    BY <1>2 DEF WellFormed
  <1>4. CASE CommitCreate(w)
    <2> DEFINE row == [ref |-> writer[w].ref, rev |-> 1]
    <2>1. Authorized(w, row) /\ Persist(w, row) /\ writer[w].op = "create"
      BY <1>4 DEF CommitCreate, data
    <2> HIDE DEF row
    <2>2. rows'["posts"][writer[w].id] = row
      BY <1>3, <2>1 DEF Persist, IInv, TypeOK, Collection
    <2> QED
      BY <2>1, <2>2 DEF Authorized
  <1>5. CASE CommitUpdate(w) \/ CommitDelete(w)
    <2>1. SameRecord(w) /\ Authorized(w, writer[w].previous) /\ writer[w].op # "create"
      BY <1>5 DEF CommitUpdate, CommitDelete, data
    <2> QED
      BY <1>3, <2>1 DEF SameRecord, Authorized
  <1> QED
    BY <1>1, <1>4, <1>5 DEF Commit

(* What an Application request commits, the rules of that moment allow     *)
(* (authorizeInTransaction, EvaluateInTransaction).                        *)
THEOREM WritesAreAllowed == Spec => CommittedWritesAllowed
  <1>1. IInv /\ [Next]_vars => [Allowed]_vars
    BY AllowedNext
  <1>2. Spec => [][Allowed]_vars
    BY <1>1, Invariance, PTL DEF Spec
  <1> QED
    BY <1>2 DEF CommittedWritesAllowed, Allowed
=============================================================================
