------------------------------ MODULE FilesProofs ------------------------------
(***************************************************************************)
(* Proofs about what the project keeps in files: FileStore, for any number *)
(* of Records, objects, uploads, writes and migrations that interleave,    *)
(* and Restore, for any sidecars and objects and any number of restores,   *)
(* failing steps, kills and power losses.                                  *)
(*                                                                         *)
(* FileStore: the argument is about writes and maintenance that do not see *)
(* each other.  While no maintenance is armed, the Provider in memory is   *)
(* the stored one and stays so, and no object disappears: a write that is  *)
(* alone all along refers to an object that both have (Undisturbed).       *)
(* Maintenance that arms itself later reads what that write committed, so  *)
(* that it keeps or copies the object, or refuses the move (Known).        *)
(*                                                                         *)
(* Restore: the invariant speaks of everything a power loss may leave of a *)
(* directory, not of what processes see.  Until the commit point every     *)
(* such state of every file can be undone by what the journal says         *)
(* (Before); from it on every one is the new project (After).  A step may  *)
(* break that in the one file whose directory it is about to sync.         *)
(***************************************************************************)
EXTENDS FileStore, Restore, TLAPS, FiniteSetTheorems

(***************************************************************************)
(* FileStore.                                                              *)
(***************************************************************************)
USE FileStoreAssumption

WriterRow == [at: {"idle", "pick", "claim", "promote", "stat", "commit"},
              record: Record \cup {None}, value: Key \cup Upload \cup {None},
              provider: Provider, stale: BOOLEAN, overlap: BOOLEAN]
GcRow == [at: {"idle", "refs", "list", "delete"}, provider: Provider,
          keep: SUBSET Key, doomed: SUBSET Key]
SetterRow == [at: {"idle", "refs", "write", "reload"}, next: Config]
MigrationRow == [at: {"idle", "insert", "launch", "start", "build", "keys", "copy", "reload"},
                 source: Provider, target: Provider, revision: 1..MaxRevision,
                 keys: SUBSET Key, left: SUBSET Key, cancelled: BOOLEAN]
CancellerRow == [at: {"idle", "stop", "write"}, id: Migration \cup {None}]
Waiting == {"young", "old"}

Typed ==
  /\ refs \in [Record -> Key \cup {None}] /\ exposed \in [Record -> BOOLEAN]
  /\ objects \in [Provider -> [Key -> Age]] /\ from \in [Key -> Upload \cup {None}]
  /\ tmp \in [Upload -> {"new", "young", "old", "gone"}]
  /\ uploads \subseteq Upload /\ \A u \in uploads : tmp[u] \in Waiting
  /\ Cardinality(uploads) <= MaxUploads
  /\ config \in Config /\ loaded \in Config
  /\ writer \in [Writer -> WriterRow] /\ gc \in GcRow /\ setter \in SetterRow
  /\ row \in [Migration -> Status] /\ mig \in [Migration -> MigrationRow]
  /\ active \in Migration \cup {None} /\ canceller \in CancellerRow
  /\ acked \subseteq Migration /\ crashes \in 0..MaxCrashes

(* What a write holds at each of its stages. *)
Fits(x) ==
  /\ x.at # "idle" => x.record \in Record
  /\ x.at = "pick" => x.value \in Key \cup Upload
  /\ x.at \in {"claim", "promote"} => x.value \in Upload
  /\ x.at = "stat" => x.value \in Key
  /\ x.at = "commit" => x.value \in Key \cup {None}

Staging == \A w \in Writer : Fits(writer[w])

(* An upload that was claimed is in the hands of one write until it is an object. *)
Claimed(w) == writer[w].at = "promote"

Bound ==
  /\ \A k \in Key : from[k] # None => tmp[from[k]] = "gone"
  /\ \A j, k \in Key : from[j] # None /\ from[j] = from[k] => j = k
  /\ \A w \in Writer : Claimed(w) => tmp[writer[w].value] \in Waiting /\ writer[w].value \notin uploads
  /\ \A v, w \in Writer : Claimed(v) /\ Claimed(w) /\ writer[v].value = writer[w].value => v = w

(* A migration runs once, and its row says so. *)
RowsOfMigrations ==
  /\ \A m \in Migration : row[m] = "running" => mig[m].at \in {"build", "keys", "copy"}
  /\ \A m \in acked : /\ row[m] \in {"cancelled", "failed"}
                      /\ mig[m].at \notin {"insert", "launch", "start"}
                      /\ mig[m].at # "idle" => row[m] = "cancelled"
  /\ canceller.at # "idle" => canceller.id \in Migration

(* A write that has not overlapped maintenance finds the Provider that it has picked. *)
Alone(x) == x.at # "idle" /\ ~x.overlap

Finds(x) ==
  /\ x.at \in {"claim", "promote", "stat"} => x.provider = loaded.provider
  /\ x.at = "commit" /\ x.value # None => Stored(loaded.provider, x.value)

Reloading == setter.at = "reload" \/ \E m \in Migration : mig[m].at = "reload"

Undisturbed ==
  /\ Armed => \A w \in Writer : ~Alone(writer[w])
  /\ loaded = config \/ Reloading
  /\ \A w \in Writer : Alone(writer[w]) => Finds(writer[w])

(* Maintenance knows the file value of every Record that was not written over it. *)
Safe(r) == refs[r] # None /\ ~exposed[r]

KnownTo(x) == \A r \in Record : Safe(r) =>
                refs[r] \in x.keys /\ (refs[r] \in x.left \/ Stored(x.target, refs[r]))

KnownToGc ==
  /\ gc.at \in {"list", "delete"} => \A r \in Record : Safe(r) => refs[r] \in gc.keep
  /\ gc.at = "delete" => gc.doomed \cap gc.keep = {}
KnownToSetter ==
  setter.at = "write" => \A r \in Record : Safe(r) => Stored(setter.next.provider, refs[r])
KnownToMigrations == \A m \in Migration : mig[m].at = "copy" => KnownTo(mig[m])

Known == KnownToGc /\ KnownToSetter /\ KnownToMigrations

IInv ==
  /\ TypeOK /\ IsFiniteSet(uploads)
  /\ Staging /\ Bound /\ RowsOfMigrations /\ Undisturbed /\ Known /\ LostOnlyByOverlap

-----------------------------------------------------------------------------
(* Types. *)

LEMMA Types == TypeOK <=> Typed
  BY DEF TypeOK, Typed, WriterRow, GcRow, SetterRow, MigrationRow, CancellerRow, Waiting

LEMMA TypesNext == TypeOK' <=> Typed'
  BY DEF TypeOK, Typed, WriterRow, GcRow, SetterRow, MigrationRow, CancellerRow, Waiting

LEMMA Idle ==
  /\ IdleWrite \in WriterRow /\ IdleWrite.at = "idle"
  /\ IdleGc \in GcRow /\ IdleGc.at = "idle"
  /\ IdleSetter \in SetterRow /\ IdleSetter.at = "idle"
  /\ IdleMigration \in MigrationRow /\ IdleMigration.at = "idle"
  <1>1. 1 \in 1..MaxRevision
    OBVIOUS
  <1>2. IdleWrite \in WriterRow /\ IdleWrite.at = "idle"
    BY DEF IdleWrite, WriterRow, Provider
  <1>3. IdleGc \in GcRow /\ IdleGc.at = "idle"
    BY DEF IdleGc, GcRow, Provider
  <1>4. IdleSetter \in SetterRow /\ IdleSetter.at = "idle"
    BY <1>1 DEF IdleSetter, SetterRow, Config, Provider
  <1>5. IdleMigration \in MigrationRow /\ IdleMigration.at = "idle"
    BY <1>1 DEF IdleMigration, MigrationRow, Provider
  <1> QED
    BY <1>2, <1>3, <1>4, <1>5

LEMMA Initially ==
  ASSUME Init
  PROVE  IInv
  <1>1. IsFiniteSet(uploads) /\ Cardinality(uploads) = 0
    BY FS_EmptySet DEF Init
  <1>2. crashes \in 0..MaxCrashes
    <2>1. crashes = 0
      BY DEF Init
    <2> QED
      BY <2>1
  <1>3. config \in Config /\ loaded = config
    <2>1. 1 \in 1..MaxRevision
      OBVIOUS
    <2> QED
      BY <2>1 DEF Init, Config, Provider
  <1>4. Typed
    BY <1>1, <1>2, <1>3, Idle DEF Init, Typed, Provider, Age, CancellerRow, Status
  <1>5. /\ \A w \in Writer : writer[w] = IdleWrite
        /\ \A m \in Migration : mig[m] = IdleMigration /\ row[m] = "none"
        /\ gc = IdleGc /\ setter = IdleSetter /\ acked = {} /\ canceller.at = "idle"
        /\ \A r \in Record : refs[r] = None
        /\ \A k \in Key : from[k] = None
    BY DEF Init
  <1>6. Staging /\ Bound /\ RowsOfMigrations
    BY <1>5, Idle DEF Staging, Fits, Bound, Claimed, RowsOfMigrations
  <1>7. Undisturbed /\ Known /\ LostOnlyByOverlap
    BY <1>3, <1>5, Idle DEF Undisturbed, Armed, Alone, Known, KnownToGc, KnownToSetter,
      KnownToMigrations, Safe, LostOnlyByOverlap
  <1> QED
    BY <1>1, <1>4, <1>6, <1>7, Types DEF IInv

-----------------------------------------------------------------------------
(* What can happen to one part of the state while the others stand still. *)


(* One write goes on, and refers to no more than it finds. *)
LEMMA WriterMoves ==
  ASSUME IInv, NEW w \in Writer,
         writer' \in [Writer -> WriterRow],
         \A v \in Writer : v # w => writer'[v] = writer[v],
         Fits(writer'[w]), writer'[w].at # "promote",
         Alone(writer'[w]) => ~Armed /\ Finds(writer'[w]),
         UNCHANGED <<records, objects, from, staged, gc, settings, migration, crashes>>
  PROVE  IInv'
  <1>1. Typed'
    BY Types DEF IInv, Typed, records, staged, settings, migration
  <1>2. Staging' /\ Bound'
    <2>1. /\ UNCHANGED <<from, tmp, uploads>>
          /\ \A v \in Writer : v # w => writer'[v] = writer[v]
          /\ Staging /\ Bound
      BY DEF IInv, staged
    <2>2. \A v \in Writer : Claimed(v)' => Claimed(v) /\ writer'[v] = writer[v]
      BY <2>1 DEF Claimed
    <2>3. Staging'
      BY <2>1 DEF Staging, Fits
    <2>4. Bound'
      BY <2>1, <2>2 DEF Bound
    <2> QED
      BY <2>3, <2>4
  <1>3. Undisturbed'
    <2>1. /\ UNCHANGED <<objects, gc, setter, mig, config, loaded>>
          /\ Undisturbed
      BY DEF IInv, settings, migration
    <2>2. Armed' <=> Armed
      BY <2>1 DEF Armed
    <2>3. ASSUME NEW v \in Writer
          PROVE  Alone(writer'[v]) => ~Armed' /\ Finds(writer[v])'
      <3>1. CASE v = w
        BY <2>1, <2>2, <3>1 DEF Finds, Stored
      <3>2. CASE v # w
        BY <2>1, <2>2, <3>2 DEF Undisturbed, Finds, Stored
      <3> QED
        BY <3>1, <3>2
    <2> QED
      BY <2>1, <2>3 DEF Undisturbed, Alone, Reloading
  <1>4. Known' /\ LostOnlyByOverlap' /\ RowsOfMigrations' /\ IsFiniteSet(uploads)'
    BY DEF IInv, Known, KnownToGc, KnownToSetter, KnownToMigrations, KnownTo, Safe, Stored,
      LostOnlyByOverlap, OpenFile, RowsOfMigrations, records, staged, settings, migration
  <1> QED
    BY <1>1, <1>2, <1>3, <1>4, TypesNext DEF IInv

(* Maintenance that arms itself marks every write that is under way. *)
LEMMA Marked ==
  ASSUME IInv, Overlap, UNCHANGED <<from, staged>>
  PROVE  /\ writer' \in [Writer -> WriterRow]
         /\ Staging' /\ Bound'
         /\ \A w \in Writer : ~Alone(writer'[w])
  <1>1. writer \in [Writer -> WriterRow]
    BY Types DEF IInv, Typed
  <1>2. ASSUME NEW w \in Writer
        PROVE  LET x == [writer[w] EXCEPT !.overlap = writer[w].at # "idle"]
               IN /\ x \in WriterRow /\ x.at = writer[w].at /\ x.value = writer[w].value
                  /\ x.record = writer[w].record
                  /\ x.overlap = (writer[w].at # "idle")
    BY <1>1 DEF WriterRow
  <1>3. /\ writer' \in [Writer -> WriterRow]
        /\ \A w \in Writer : /\ writer'[w].at = writer[w].at /\ writer'[w].value = writer[w].value
                             /\ writer'[w].record = writer[w].record
                             /\ writer'[w].overlap = (writer[w].at # "idle")
    BY <1>2 DEF Overlap
  <1>4. Staging'
    BY <1>3 DEF IInv, Staging, Fits
  <1>5. Bound'
    <2>1. \A w \in Writer : /\ Claimed(w)' <=> Claimed(w)
                            /\ writer'[w].value = writer[w].value
      BY <1>3 DEF Claimed
    <2>2. Bound /\ UNCHANGED <<from, tmp, uploads>>
      BY DEF IInv, staged
    <2> QED
      BY <2>1, <2>2 DEF Bound
  <1>6. \A w \in Writer : ~Alone(writer'[w])
    BY <1>3 DEF Alone
  <1> QED
    BY <1>3, <1>4, <1>5, <1>6

(* A reconciliation that arms itself no further than it was. *)
LEMMA GcMoves ==
  ASSUME IInv, gc' \in GcRow,
         gc'.at \in {"list", "delete"} => gc.at \in {"list", "delete"} /\ gc'.keep = gc.keep,
         gc'.at = "delete" => gc'.doomed \cap gc'.keep = {},
         UNCHANGED <<records, objects, from, staged, writer, settings, migration, crashes>>
  PROVE  IInv'
  <1>1. Typed'
    BY Types DEF IInv, Typed, records, staged, settings, migration
  <1>2. KnownToGc'
    BY DEF IInv, Known, KnownToGc, Safe, records
  <1>3. Undisturbed'
    BY DEF IInv, Undisturbed, Armed, Reloading, Finds, Stored, settings, migration
  <1>4. /\ Staging' /\ Bound' /\ RowsOfMigrations' /\ LostOnlyByOverlap' /\ IsFiniteSet(uploads)'
        /\ KnownToSetter' /\ KnownToMigrations'
    BY DEF IInv, Staging, Fits, Bound, Claimed, RowsOfMigrations, LostOnlyByOverlap, OpenFile,
      Known, KnownToSetter, KnownToMigrations, KnownTo, Safe, Stored, records, staged, settings,
      migration
  <1> QED
    BY <1>1, <1>2, <1>3, <1>4, TypesNext DEF IInv, Known

(* A Configure request that neither arms itself nor ends its reload. *)
LEMMA SetterMoves ==
  ASSUME IInv, setter' \in SetterRow, setter'.at \notin {"write", "reload"}, setter.at # "reload",
         UNCHANGED <<records, objects, from, staged, config, loaded, writer, gc, migration, crashes>>
  PROVE  IInv'
  <1>1. Typed'
    BY Types DEF IInv, Typed, records, staged, migration
  <1>2. Undisturbed'
    BY DEF IInv, Undisturbed, Armed, Reloading, Finds, Stored, migration
  <1>3. KnownToSetter'
    BY DEF KnownToSetter
  <1>4. /\ Staging' /\ Bound' /\ RowsOfMigrations' /\ LostOnlyByOverlap' /\ IsFiniteSet(uploads)'
        /\ KnownToGc' /\ KnownToMigrations'
    BY DEF IInv, Staging, Fits, Bound, Claimed, RowsOfMigrations, LostOnlyByOverlap, OpenFile,
      Known, KnownToGc, KnownToMigrations, KnownTo, Safe, Stored, records, staged, migration
  <1> QED
    BY <1>1, <1>2, <1>3, <1>4, TypesNext DEF IInv, Known

(* Migrations that neither arm themselves nor end a reload. *)
LEMMA MigrationsMove ==
  ASSUME IInv, row' \in [Migration -> Status], mig' \in [Migration -> MigrationRow],
         active' \in Migration \cup {None}, canceller' \in CancellerRow, acked' \subseteq Migration,
         \A m \in Migration : mig'[m].at = "copy" =>
           /\ mig[m].at = "copy" /\ mig'[m].keys = mig[m].keys /\ mig'[m].left = mig[m].left
           /\ mig'[m].target = mig[m].target,
         \A m \in Migration : mig'[m].at = "reload" <=> mig[m].at = "reload",
         RowsOfMigrations',
         UNCHANGED <<migrationOnly, config, loaded>>
  PROVE  IInv'
  <1>1. Typed'
    BY Types DEF IInv, Typed, migrationOnly, records, staged
  <1>2. Undisturbed'
    BY DEF IInv, Undisturbed, Armed, Reloading, Finds, Stored, migrationOnly
  <1>3. KnownToMigrations'
    <2>1. KnownToMigrations /\ UNCHANGED <<refs, exposed, objects>>
      BY DEF IInv, Known, migrationOnly, records
    <2> QED
      BY <2>1 DEF KnownToMigrations, KnownTo, Safe, Stored
  <1>4. /\ Staging' /\ Bound' /\ LostOnlyByOverlap' /\ IsFiniteSet(uploads)'
        /\ KnownToGc' /\ KnownToSetter'
    BY DEF IInv, Staging, Fits, Bound, Claimed, LostOnlyByOverlap, OpenFile,
      Known, KnownToGc, KnownToSetter, Safe, Stored, records, staged, migrationOnly
  <1> QED
    BY <1>1, <1>2, <1>3, <1>4, TypesNext DEF IInv, Known

-----------------------------------------------------------------------------
(* Uploads and Record writes. *)

LEMMA UploadFileStep ==
  ASSUME IInv, NEW u \in Upload, UploadFile(u)
  PROVE  IInv'
  <1>1. Typed /\ Bound /\ IsFiniteSet(uploads)
    BY Types DEF IInv
  <1>2. IsFiniteSet(uploads') /\ Cardinality(uploads') <= MaxUploads
    <2>1. /\ u \notin uploads /\ uploads' = uploads \cup {u} /\ Cardinality(uploads) < MaxUploads
      BY <1>1 DEF UploadFile, Typed, Waiting
    <2>2. /\ IsFiniteSet(uploads \cup {u}) /\ Cardinality(uploads \cup {u}) = Cardinality(uploads) + 1
          /\ Cardinality(uploads) \in Nat
      BY <1>1, <2>1, FS_AddElement, FS_CardinalityType
    <2> QED
      BY <2>1, <2>2
  <1>3. tmp[u] = "new" /\ tmp' = [tmp EXCEPT ![u] = "young"] /\ uploads' = uploads \cup {u}
    BY DEF UploadFile
  <1>4. Typed'
    BY <1>1, <1>2, <1>3 DEF UploadFile, Typed, Waiting, records, settings, migration
  <1>5. Bound'
    <2>1. UNCHANGED <<from, writer>>
      BY DEF UploadFile
    <2>2. \A w \in Writer : Claimed(w) => writer[w].value # u /\ writer[w].value \in Upload
      BY <1>1, <1>3 DEF Bound, Waiting, IInv, Staging, Fits, Claimed
    <2>3. \A k \in Key : from[k] # None => from[k] # u /\ from[k] \in Upload
      BY <1>1, <1>3 DEF Bound, Typed
    <2>4. \A x \in Upload : x # u => tmp'[x] = tmp[x]
      BY <1>1, <1>3 DEF Typed
    <2> QED
      BY <1>1, <1>3, <2>1, <2>2, <2>3, <2>4 DEF Bound, Claimed
  <1>6. Staging' /\ RowsOfMigrations' /\ Undisturbed' /\ Known' /\ LostOnlyByOverlap'
    BY DEF UploadFile, IInv, Staging, Fits, RowsOfMigrations, Undisturbed, Armed, Reloading,
      Finds, Stored, Known, KnownToGc, KnownToSetter, KnownToMigrations, KnownTo, Safe,
      LostOnlyByOverlap, OpenFile, records, settings, migration
  <1> QED
    BY <1>2, <1>4, <1>5, <1>6, TypesNext DEF IInv

(* Objects that grow old stay where they are, and so do objects when others  *)
(* are added.                                                                *)
LEMMA NothingLost ==
  ASSUME IInv, \A p \in Provider, k \in Key : Stored(p, k) => Stored(p, k)',
         UNCHANGED <<records, writer, gc, settings, migration>>
  PROVE  Staging' /\ RowsOfMigrations' /\ Undisturbed' /\ Known' /\ LostOnlyByOverlap'
  <1>1. Typed
    BY Types DEF IInv
  <1>2. \A r \in Record : refs[r] # None => refs[r] \in Key
    BY <1>1 DEF Typed
  <1>3. /\ loaded.provider \in Provider /\ config.provider \in Provider
        /\ setter.next.provider \in Provider
        /\ \A m \in Migration : mig[m].target \in Provider
    BY <1>1 DEF Typed, Config, SetterRow, MigrationRow
  <1>4. Staging' /\ RowsOfMigrations'
    BY DEF IInv, Staging, Fits, RowsOfMigrations, settings, migration
  <1>5. LostOnlyByOverlap'
    <2>1. LostOnlyByOverlap /\ UNCHANGED <<refs, exposed, config, loaded>>
      BY DEF IInv, records, settings
    <2> QED
      BY <1>2, <1>3, <2>1 DEF LostOnlyByOverlap, OpenFile
  <1>6. Undisturbed'
    <2>1. \A w \in Writer : Alone(writer[w]) => Finds(writer[w])
      BY DEF IInv, Undisturbed
    <2>2. \A w \in Writer : Fits(writer[w])
      BY DEF IInv, Staging
    <2>3. UNCHANGED <<writer, loaded, config, gc, setter, mig>>
      BY DEF settings, migration
    <2>4. \A w \in Writer : Alone(writer[w]) => Finds(writer[w])'
      BY <1>3, <2>1, <2>2, <2>3 DEF Finds, Fits
    <2> QED
      BY <2>3, <2>4 DEF IInv, Undisturbed, Armed, Reloading
  <1>7. Known'
    <2>1. Known /\ UNCHANGED <<refs, exposed, gc, setter, mig>>
      BY DEF IInv, records, settings, migration
    <2>2. KnownToGc' /\ KnownToSetter'
      BY <1>2, <1>3, <2>1 DEF Known, KnownToGc, KnownToSetter, Safe
    <2>3. KnownToMigrations'
      BY <1>2, <1>3, <2>1 DEF Known, KnownToMigrations, KnownTo, Safe
    <2> QED
      BY <2>2, <2>3 DEF Known
  <1> QED
    BY <1>4, <1>5, <1>6, <1>7

LEMMA GrowOldStep ==
  ASSUME IInv, GrowOld
  PROVE  IInv'
  <1>1. Typed /\ Bound
    BY Types DEF IInv
  <1>2. /\ \A p \in Provider, k \in Key : objects'[p][k] =
             IF objects[p][k] = "young" THEN "old" ELSE objects[p][k]
        /\ objects' \in [Provider -> [Key -> Age]]
    BY <1>1 DEF GrowOld, Typed, Age
  <1>3. \A p \in Provider, k \in Key : Stored(p, k) => Stored(p, k)'
    BY <1>2 DEF Stored
  <1>4. \A u \in Upload : tmp'[u] = IF tmp[u] = "young" THEN "old" ELSE tmp[u]
    BY DEF GrowOld
  <1>5. Typed'
    BY <1>1, <1>2 DEF GrowOld, Typed, Waiting, records, settings, migration
  <1>6. Bound'
    <2>1. UNCHANGED <<from, writer, uploads>>
      BY DEF GrowOld
    <2>2. \A k \in Key : from[k] # None => from[k] \in Upload
      BY <1>1 DEF Typed
    <2>3. \A w \in Writer : Claimed(w) => writer[w].value \in Upload
      BY DEF IInv, Staging, Fits, Claimed
    <2> QED
      BY <1>1, <1>4, <2>1, <2>2, <2>3 DEF Bound, Claimed, Waiting
  <1>7. UNCHANGED <<records, writer, gc, settings, migration>>
    BY DEF GrowOld
  <1>8. Staging' /\ RowsOfMigrations' /\ Undisturbed' /\ Known' /\ LostOnlyByOverlap'
    BY <1>3, <1>7, NothingLost
  <1> QED
    BY <1>5, <1>6, <1>8, TypesNext DEF IInv, GrowOld

LEMMA BeginWriteStep ==
  ASSUME IInv, NEW w \in Writer, NEW r \in Record, NEW v \in Key \cup Upload \cup {None},
         BeginWrite(w, r, v)
  PROVE  IInv'
  <1> DEFINE x == [IdleWrite EXCEPT !.record = r, !.value = v,
                     !.at = IF v = None THEN "commit" ELSE "pick", !.overlap = Armed]
  <1>1. writer \in [Writer -> WriterRow]
    BY Types DEF IInv, Typed
  <1>2. x.at = (IF v = None THEN "commit" ELSE "pick") /\ x.record = r /\ x.value = v /\ x.overlap = Armed
    BY DEF IdleWrite
  <1>3. Armed \in BOOLEAN
    BY DEF Armed
  <1>4. x \in WriterRow
    BY <1>3 DEF IdleWrite, WriterRow, Provider
  <1>5. writer' = [writer EXCEPT ![w] = x]
    BY DEF BeginWrite
  <1>6. Fits(x) /\ x.at # "promote" /\ (Alone(x) => ~Armed /\ Finds(x))
    BY <1>2 DEF Fits, Alone, Finds
  <1> HIDE DEF x
  <1>7. /\ writer' \in [Writer -> WriterRow] /\ writer'[w] = x
        /\ \A y \in Writer : y # w => writer'[y] = writer[y]
    BY <1>1, <1>4, <1>5
  <1>8. UNCHANGED <<records, objects, from, staged, gc, settings, migration, crashes>>
    BY DEF BeginWrite
  <1> QED
    BY <1>6, <1>7, <1>8, WriterMoves

(* A write that gives up. *)
LEMMA GivesUp ==
  ASSUME IInv, NEW w \in Writer, writer' = [writer EXCEPT ![w] = IdleWrite],
         UNCHANGED <<records, objects, from, staged, gc, settings, migration, crashes>>
  PROVE  IInv'
  <1>1. writer \in [Writer -> WriterRow]
    BY Types DEF IInv, Typed
  <1>2. /\ writer' \in [Writer -> WriterRow] /\ writer'[w] = IdleWrite
        /\ \A y \in Writer : y # w => writer'[y] = writer[y]
    BY <1>1, Idle
  <1>3. /\ Fits(writer'[w]) /\ writer'[w].at # "promote"
        /\ Alone(writer'[w]) => ~Armed /\ Finds(writer'[w])
    BY <1>2, Idle DEF Fits, Alone
  <1> QED
    BY <1>2, <1>3, WriterMoves

LEMMA PickProviderStep ==
  ASSUME IInv, NEW w \in Writer, PickProvider(w)
  PROVE  IInv'
  <1> DEFINE at == IF writer[w].value \in Upload THEN "claim" ELSE "stat"
  <1>1. writer \in [Writer -> WriterRow] /\ loaded.provider \in Provider
    BY Types DEF IInv, Typed, Config
  <1>2. writer' = [writer EXCEPT ![w].provider = loaded.provider, ![w].at = at]
    BY DEF PickProvider
  <1>3. at \in {"claim", "stat"}
    OBVIOUS
  <1>4. /\ writer' \in [Writer -> WriterRow]
        /\ \A y \in Writer : y # w => writer'[y] = writer[y]
        /\ writer'[w].at = at /\ writer'[w].provider = loaded.provider
        /\ writer'[w].value = writer[w].value /\ writer'[w].record = writer[w].record
        /\ writer'[w].overlap = writer[w].overlap
    <2> HIDE DEF at
    <2> QED
      BY <1>1, <1>2, <1>3 DEF WriterRow
  <1>5. Fits(writer[w]) /\ writer[w].at = "pick" /\ (Alone(writer[w]) => ~Armed)
    BY DEF IInv, Staging, Undisturbed, PickProvider
  <1>6. /\ Fits(writer'[w]) /\ writer'[w].at # "promote"
        /\ Alone(writer'[w]) => ~Armed /\ Finds(writer'[w])
    BY <1>4, <1>5 DEF Fits, Alone, Finds
  <1>7. UNCHANGED <<records, objects, from, staged, gc, settings, migration, crashes>>
    BY DEF PickProvider
  <1> QED
    BY <1>4, <1>6, <1>7, WriterMoves

LEMMA StatObjectStep ==
  ASSUME IInv, NEW w \in Writer, StatObject(w)
  PROVE  IInv'
  <1>1. writer \in [Writer -> WriterRow]
    BY Types DEF IInv, Typed
  <1>2. UNCHANGED <<records, objects, from, staged, gc, settings, migration, crashes>>
    BY DEF StatObject
  <1>3. CASE ~Stored(writer[w].provider, writer[w].value)
    <2>1. writer' = [writer EXCEPT ![w] = IdleWrite]
      BY <1>3 DEF StatObject
    <2> QED
      BY <1>2, <2>1, GivesUp
  <1>4. CASE Stored(writer[w].provider, writer[w].value)
    <2>1. writer' = [writer EXCEPT ![w] = [writer[w] EXCEPT !.at = "commit"]]
      BY <1>4 DEF StatObject
    <2>2. /\ writer' \in [Writer -> WriterRow]
          /\ \A y \in Writer : y # w => writer'[y] = writer[y]
          /\ writer'[w].at = "commit" /\ writer'[w].provider = writer[w].provider
          /\ writer'[w].value = writer[w].value /\ writer'[w].record = writer[w].record
          /\ writer'[w].overlap = writer[w].overlap
      BY <1>1, <2>1 DEF WriterRow
    <2>3. /\ Fits(writer[w]) /\ writer[w].at = "stat"
          /\ Alone(writer[w]) => ~Armed /\ Finds(writer[w])
      BY DEF IInv, Staging, Undisturbed, StatObject
    <2>4. /\ Fits(writer'[w]) /\ writer'[w].at # "promote"
          /\ Alone(writer'[w]) => ~Armed /\ Finds(writer'[w])
      BY <1>4, <2>2, <2>3 DEF Fits, Alone, Finds
    <2> QED
      BY <1>2, <2>2, <2>4, WriterMoves
  <1> QED
    BY <1>3, <1>4

LEMMA FailWriteStep ==
  ASSUME IInv, NEW w \in Writer, FailWrite(w)
  PROVE  IInv'
  BY GivesUp DEF FailWrite

LEMMA ClaimUploadStep ==
  ASSUME IInv, NEW w \in Writer, ClaimUpload(w)
  PROVE  IInv'
  <1>1. Typed /\ IsFiniteSet(uploads)
    BY Types DEF IInv
  <1>2. CASE writer[w].value \notin uploads
    <2>1. writer' = [writer EXCEPT ![w] = IdleWrite] /\ UNCHANGED uploads
      BY <1>2 DEF ClaimUpload
    <2> QED
      BY <2>1, GivesUp DEF ClaimUpload, staged
  <1>3. CASE writer[w].value \in uploads
    <2>1. /\ writer' = [writer EXCEPT ![w].at = "promote"] /\ uploads' = uploads \ {writer[w].value}
          /\ UNCHANGED <<records, objects, from, tmp, gc, settings, migration, crashes>>
          /\ writer[w].at = "claim"
      BY <1>3 DEF ClaimUpload
    <2>2. /\ writer' \in [Writer -> WriterRow]
          /\ \A y \in Writer : y # w => writer'[y] = writer[y]
          /\ writer'[w].at = "promote" /\ writer'[w].provider = writer[w].provider
          /\ writer'[w].value = writer[w].value /\ writer'[w].record = writer[w].record
          /\ writer'[w].overlap = writer[w].overlap
      <3>1. writer \in [Writer -> WriterRow] /\ writer' = [writer EXCEPT ![w].at = "promote"]
        BY <1>1, <2>1 DEF Typed
      <3> QED
        BY <3>1 DEF WriterRow
    <2>3. /\ Staging /\ Bound
          /\ Fits(writer[w])
          /\ Alone(writer[w]) => Finds(writer[w])
      BY DEF IInv, Staging, Undisturbed
    <2>4. IsFiniteSet(uploads') /\ Cardinality(uploads') <= MaxUploads
      <3>1. /\ IsFiniteSet(uploads \ {writer[w].value})
            /\ Cardinality(uploads \ {writer[w].value}) = Cardinality(uploads) - 1
            /\ Cardinality(uploads) \in Nat
        BY <1>1, <1>3, FS_RemoveElement, FS_CardinalityType
      <3> QED
        BY <1>1, <2>1, <3>1 DEF Typed
    <2>5. Typed'
      BY <1>1, <2>1, <2>2, <2>4 DEF Typed, records, settings, migration
    <2>6. Staging'
      BY <2>1, <2>2, <2>3 DEF Staging, Fits
    <2>7. Bound'
      <3>1. tmp[writer[w].value] \in Waiting
        BY <1>1, <1>3 DEF Typed
      <3>2. ASSUME NEW v \in Writer, v # w, Claimed(v)
            PROVE  writer[v].value # writer[w].value
        BY <1>3, <2>3, <3>2 DEF Bound
      <3>3. \A v \in Writer : v # w => (Claimed(v)' <=> Claimed(v)) /\ writer'[v].value = writer[v].value
        BY <2>2 DEF Claimed
      <3> QED
        BY <2>1, <2>2, <2>3, <3>1, <3>2, <3>3 DEF Bound
    <2>8. Undisturbed'
      <3>1. Undisturbed /\ UNCHANGED <<objects, gc, setter, mig, config, loaded>>
        BY <2>1 DEF IInv, settings, migration
      <3>2. Armed' <=> Armed
        BY <3>1 DEF Armed
      <3>3. ASSUME NEW v \in Writer, Alone(writer'[v])
            PROVE  Alone(writer[v]) /\ Finds(writer[v])'
        <4>1. CASE v = w
          BY <2>1, <2>2, <2>3, <3>1, <3>3, <4>1 DEF Finds, Alone
        <4>2. CASE v # w
          BY <2>2, <3>1, <3>3, <4>2 DEF Undisturbed, Finds, Stored
        <4> QED
          BY <4>1, <4>2
      <3> QED
        BY <3>1, <3>2, <3>3 DEF Undisturbed, Alone, Reloading
    <2>9. Known' /\ LostOnlyByOverlap' /\ RowsOfMigrations'
      BY <2>1 DEF IInv, Known, KnownToGc, KnownToSetter, KnownToMigrations, KnownTo, Safe, Stored,
        LostOnlyByOverlap, OpenFile, RowsOfMigrations, records, settings, migration
    <2> QED
      BY <2>4, <2>5, <2>6, <2>7, <2>8, <2>9, TypesNext DEF IInv
  <1> QED
    BY <1>2, <1>3

LEMMA PromoteStep ==
  ASSUME IInv, NEW w \in Writer, NEW k \in Key, Promote(w, k)
  PROVE  IInv'
  <1> DEFINE u == writer[w].value
             p == writer[w].provider
  <1>1. /\ Typed /\ Staging /\ Bound /\ Undisturbed /\ IsFiniteSet(uploads)
        /\ Fits(writer[w])
    BY Types DEF IInv, Staging
  <1>2. /\ writer[w].at = "promote" /\ from[k] = None
        /\ objects' = [objects EXCEPT ![p][k] = PromotedAge(p, tmp[u])]
        /\ from' = [from EXCEPT ![k] = u] /\ tmp' = [tmp EXCEPT ![u] = "gone"]
        /\ writer' = [writer EXCEPT ![w].at = "commit", ![w].value = k]
        /\ UNCHANGED <<records, uploads, gc, settings, migration, crashes>>
    BY DEF Promote
  <1>3. /\ u \in Upload /\ p \in Provider /\ tmp[u] \in Waiting /\ u \notin uploads /\ u # None
    BY <1>1, <1>2 DEF Typed, WriterRow, Fits, Bound, Claimed
  <1>4. PromotedAge(p, tmp[u]) \in Age /\ PromotedAge(p, tmp[u]) # "none"
    BY <1>3 DEF PromotedAge, Waiting, Age
  <1>5. /\ writer' \in [Writer -> WriterRow]
        /\ \A y \in Writer : y # w => writer'[y] = writer[y]
        /\ writer'[w].at = "commit" /\ writer'[w].provider = p
        /\ writer'[w].value = k /\ writer'[w].record = writer[w].record
        /\ writer'[w].overlap = writer[w].overlap
    <2> HIDE DEF u, p
    <2>1. /\ writer \in [Writer -> WriterRow] /\ writer[w].provider = p
          /\ writer' = [writer EXCEPT ![w].at = "commit", ![w].value = k]
      BY <1>1, <1>2 DEF Typed, p
    <2> QED
      BY <2>1 DEF WriterRow
  <1> HIDE DEF u, p
  <1>6. /\ objects' \in [Provider -> [Key -> Age]] /\ objects'[p][k] # "none"
        /\ \A q \in Provider, j \in Key : objects[q][j] # "none" => objects'[q][j] # "none"
    <2>1. /\ objects \in [Provider -> [Key -> Age]]
          /\ objects' = [objects EXCEPT ![p][k] = PromotedAge(p, tmp[u])]
      BY <1>1, <1>2 DEF Typed, p, u
    <2> QED
      BY <1>3, <1>4, <2>1
  <1>7. /\ from' \in [Key -> Upload \cup {None}] /\ from'[k] = u
        /\ \A j \in Key : j # k => from'[j] = from[j]
        /\ tmp' \in [Upload -> {"new", "young", "old", "gone"}] /\ tmp'[u] = "gone"
        /\ \A x \in Upload : x # u => tmp'[x] = tmp[x]
    BY <1>1, <1>2, <1>3 DEF Typed
  <1>8. Typed'
    BY <1>1, <1>2, <1>3, <1>5, <1>6, <1>7 DEF Typed, records, settings, migration
  <1>9. Staging'
    <2>1. Fits(writer'[w])
      BY <1>1, <1>2, <1>5 DEF Fits
    <2>2. \A v \in Writer : Fits(writer'[v])
      BY <1>1, <1>5, <2>1 DEF Staging
    <2> QED
      BY <2>2 DEF Staging, Fits
  <1>10. Bound'
    <2>1. \A j \in Key : from[j] # u
      BY <1>1, <1>3 DEF Bound, Waiting
    <2>2. \A j \in Key : from[j] # None => from[j] \in Upload
      BY <1>1 DEF Typed
    <2>3. \A v \in Writer : Claimed(v)' => v # w /\ Claimed(v) /\ writer'[v].value = writer[v].value
      BY <1>5 DEF Claimed
    <2>4. \A v \in Writer : v # w /\ Claimed(v) => writer[v].value # u /\ writer[v].value \in Upload
      BY <1>1, <1>2 DEF Bound, Claimed, Staging, Fits, u
    <2>5. \A j \in Key : from'[j] # None => tmp'[from'[j]] = "gone"
      BY <1>1, <1>7, <2>1, <2>2 DEF Bound
    <2>6. \A i, j \in Key : from'[i] # None /\ from'[i] = from'[j] => i = j
      BY <1>1, <1>7, <2>1 DEF Bound
    <2>7. ASSUME NEW v \in Writer, Claimed(v)'
          PROVE  tmp'[writer'[v].value] \in Waiting /\ writer'[v].value \notin uploads'
      <3>1. v # w /\ Claimed(v) /\ writer'[v].value = writer[v].value
        BY <2>3, <2>7
      <3>2. writer[v].value # u /\ writer[v].value \in Upload
        BY <2>4, <3>1
      <3>3. tmp[writer[v].value] \in Waiting /\ writer[v].value \notin uploads
        BY <1>1, <3>1 DEF Bound
      <3>4. tmp'[writer[v].value] = tmp[writer[v].value]
        BY <1>7, <3>2
      <3> QED
        BY <1>2, <3>1, <3>3, <3>4
    <2>8. \A v, x \in Writer : Claimed(v)' /\ Claimed(x)' /\ writer'[v].value = writer'[x].value => v = x
      BY <1>1, <2>3 DEF Bound
    <2> QED
      BY <2>5, <2>6, <2>7, <2>8 DEF Bound
  <1>11. /\ loaded.provider \in Provider /\ config.provider \in Provider
         /\ setter.next.provider \in Provider
         /\ \A m \in Migration : mig[m].target \in Provider
         /\ \A r \in Record : refs[r] # None => refs[r] \in Key
    BY <1>1 DEF Typed, Config, SetterRow, MigrationRow
  <1>12. UNCHANGED <<refs, exposed, gc, setter, mig, config, loaded, row, acked, canceller>>
    BY <1>2 DEF records, settings, migration
  <1>13. Undisturbed'
    <2>1. Armed' <=> Armed
      BY <1>12 DEF Armed
    <2>2. ASSUME NEW v \in Writer, Alone(writer'[v])
          PROVE  Alone(writer[v]) /\ Finds(writer[v])'
      <3>1. CASE v = w
        <4>1. Alone(writer[w]) /\ p = loaded.provider
          BY <1>1, <1>2, <1>5, <2>2, <3>1 DEF Alone, Undisturbed, Finds, p
        <4> QED
          BY <1>5, <1>6, <1>12, <3>1, <4>1 DEF Finds, Stored
      <3>2. CASE v # w
        <4>1. writer'[v] = writer[v] /\ Finds(writer[v]) /\ Fits(writer[v])
          BY <1>1, <1>5, <2>2, <3>2 DEF Undisturbed, Staging
        <4>2. writer[v].at = "commit" /\ writer[v].value # None
                => objects'[loaded.provider][writer[v].value] # "none"
          BY <1>6, <1>11, <4>1 DEF Finds, Fits, Stored
        <4> QED
          BY <1>12, <2>2, <4>1, <4>2 DEF Finds, Stored
      <3> QED
        BY <3>1, <3>2
    <2> QED
      BY <1>1, <1>12, <2>1, <2>2 DEF Undisturbed, Reloading, Alone
  <1>14. Known'
    <2>1. Known
      BY DEF IInv
    <2>2. KnownToGc' /\ KnownToSetter'
      BY <1>6, <1>11, <1>12, <2>1 DEF Known, KnownToGc, KnownToSetter, Safe, Stored
    <2>3. KnownToMigrations'
      BY <1>6, <1>11, <1>12, <2>1 DEF Known, KnownToMigrations, KnownTo, Safe, Stored
    <2> QED
      BY <2>2, <2>3 DEF Known
  <1>15. LostOnlyByOverlap'
    <2>1. LostOnlyByOverlap
      BY DEF IInv
    <2> QED
      BY <1>6, <1>11, <1>12, <2>1 DEF LostOnlyByOverlap, OpenFile, Stored
  <1>16. RowsOfMigrations' /\ IsFiniteSet(uploads)'
    BY <1>2, <1>12 DEF IInv, RowsOfMigrations
  <1> QED
    BY <1>8, <1>9, <1>10, <1>13, <1>14, <1>15, <1>16, TypesNext DEF IInv

LEMMA CommitWriteStep ==
  ASSUME IInv, NEW w \in Writer, CommitWrite(w)
  PROVE  IInv'
  <1>1. /\ Typed /\ Staging /\ Bound /\ Undisturbed /\ Known /\ LostOnlyByOverlap
        /\ Fits(writer[w])
    BY Types DEF IInv, Staging
  <1> PICK r \in Record : r = writer[w].record
    BY <1>1 DEF CommitWrite, Fits
  <1>2. /\ writer[w].at = "commit"
        /\ refs' = [refs EXCEPT ![r] = writer[w].value]
        /\ exposed' = [exposed EXCEPT ![r] = writer[w].overlap]
        /\ writer' = [x \in Writer |-> IF x = w THEN IdleWrite
             ELSE [writer[x] EXCEPT !.stale = @ \/ writer[x].record = r]]
        /\ UNCHANGED <<objects, from, tmp, uploads, gc, config, loaded, setter, row, mig, active,
                       canceller, acked, crashes>>
    BY DEF CommitWrite, staged, settings, migration
  <1>3. writer[w].value \in Key \cup {None} /\ writer[w].overlap \in BOOLEAN
    BY <1>1, <1>2 DEF Fits, Typed, WriterRow
  <1>4. /\ writer' \in [Writer -> WriterRow] /\ writer'[w] = IdleWrite
        /\ \A v \in Writer : v # w => /\ writer'[v].at = writer[v].at
                                      /\ writer'[v].value = writer[v].value
                                      /\ writer'[v].record = writer[v].record
                                      /\ writer'[v].provider = writer[v].provider
                                      /\ writer'[v].overlap = writer[v].overlap
    <2>1. writer \in [Writer -> WriterRow]
      BY <1>1 DEF Typed
    <2>2. ASSUME NEW v \in Writer, NEW b \in BOOLEAN
          PROVE  LET x == [writer[v] EXCEPT !.stale = b]
                 IN /\ x \in WriterRow /\ x.at = writer[v].at /\ x.value = writer[v].value
                    /\ x.record = writer[v].record /\ x.provider = writer[v].provider
                    /\ x.overlap = writer[v].overlap
      BY <2>1 DEF WriterRow
    <2>3. \A v \in Writer : (writer[v].stale \/ writer[v].record = r) \in BOOLEAN
      OBVIOUS
    <2> QED
      BY <1>2, <2>1, <2>2, <2>3, Idle
  <1>5. /\ refs' \in [Record -> Key \cup {None}] /\ exposed' \in [Record -> BOOLEAN]
        /\ refs'[r] = writer[w].value /\ exposed'[r] = writer[w].overlap
        /\ \A s \in Record : s # r => refs'[s] = refs[s] /\ exposed'[s] = exposed[s]
    BY <1>1, <1>2, <1>3 DEF Typed
  <1>6. Typed'
    BY <1>1, <1>2, <1>4, <1>5 DEF Typed
  <1>7. Staging'
    BY <1>1, <1>4, Idle DEF Staging, Fits
  <1>8. Bound'
    <2>1. \A v \in Writer : Claimed(v)' => Claimed(v) /\ writer'[v].value = writer[v].value
      BY <1>4, Idle DEF Claimed
    <2> QED
      BY <1>1, <1>2, <2>1 DEF Bound
  <1>9. Armed' <=> Armed
    BY <1>2 DEF Armed
  <1>10. Undisturbed'
    <2>1. ASSUME NEW v \in Writer, Alone(writer'[v])
          PROVE  Alone(writer[v]) /\ Finds(writer[v])'
      <3>1. v # w
        BY <1>4, <2>1, Idle DEF Alone
      <3>2. Alone(writer[v]) /\ Finds(writer[v])
        BY <1>1, <1>4, <2>1, <3>1 DEF Alone, Undisturbed
      <3> QED
        BY <1>2, <1>4, <3>1, <3>2 DEF Finds, Stored
    <2> QED
      BY <1>1, <1>2, <1>9, <2>1 DEF Undisturbed, Alone, Reloading
  <1>11. \A s \in Record : s # r => (Safe(s)' <=> Safe(s)) /\ refs'[s] = refs[s]
    BY <1>5 DEF Safe
  <1>12. Safe(r)' => /\ ~Armed /\ Alone(writer[w])
                     /\ objects[loaded.provider][refs'[r]] # "none" /\ loaded = config
    <2> SUFFICES ASSUME Safe(r)'
                 PROVE  /\ ~Armed /\ Alone(writer[w])
                        /\ objects[loaded.provider][refs'[r]] # "none" /\ loaded = config
      OBVIOUS
    <2>1. Alone(writer[w]) /\ writer[w].value # None
      <3>1. refs'[r] # None /\ ~exposed'[r]
        BY DEF Safe
      <3> QED
        BY <1>2, <1>5, <3>1 DEF Alone
    <2>2. ~Armed /\ objects[loaded.provider][writer[w].value] # "none"
      BY <1>1, <1>2, <2>1 DEF Undisturbed, Finds, Stored
    <2>3. loaded = config
      BY <1>1, <2>2 DEF Undisturbed, Armed, Reloading
    <2> QED
      BY <1>5, <2>1, <2>2, <2>3
  <1>13. Known'
    <2>1. ASSUME Armed, NEW s \in Record, Safe(s)'
          PROVE  Safe(s) /\ refs'[s] = refs[s]
      <3>1. s # r
        BY <1>12, <2>1
      <3> QED
        BY <1>11, <2>1, <3>1
    <2>2. KnownToGc'
      BY <1>1, <1>2, <2>1 DEF Known, KnownToGc, Armed
    <2>3. KnownToSetter'
      <3>1. ASSUME setter.at = "write", NEW s \in Record, Safe(s)'
            PROVE  objects[setter.next.provider][refs'[s]] # "none"
        BY <1>1, <2>1, <3>1 DEF Known, KnownToSetter, Armed, Stored
      <3> QED
        BY <1>2, <3>1 DEF KnownToSetter, Stored
    <2>4. KnownToMigrations'
      <3>1. ASSUME NEW m \in Migration, mig[m].at = "copy", NEW s \in Record, Safe(s)'
            PROVE  refs'[s] \in mig[m].keys
                   /\ (refs'[s] \in mig[m].left \/ objects[mig[m].target][refs'[s]] # "none")
        <4>1. Safe(s) /\ refs'[s] = refs[s]
          BY <2>1, <3>1 DEF Armed
        <4> QED
          BY <1>1, <3>1, <4>1 DEF Known, KnownToMigrations, KnownTo, Stored
      <3> QED
        BY <1>2, <3>1 DEF KnownToMigrations, KnownTo, Stored
    <2> QED
      BY <2>2, <2>3, <2>4 DEF Known
  <1>14. LostOnlyByOverlap'
    <2>1. ASSUME NEW s \in Record, Safe(s)'
          PROVE  /\ objects[loaded.provider][refs'[s]] # "none"
                 /\ objects[config.provider][refs'[s]] # "none"
      <3>1. CASE s = r
        BY <1>12, <2>1, <3>1
      <3>2. CASE s # r
        <4>1. Safe(s) /\ refs'[s] = refs[s]
          BY <1>11, <2>1, <3>2
        <4> QED
          BY <1>1, <4>1 DEF LostOnlyByOverlap, OpenFile, Safe, Stored
      <3> QED
        BY <3>1, <3>2
    <2> QED
      BY <1>2, <2>1 DEF LostOnlyByOverlap, OpenFile, Safe, Stored
  <1>15. RowsOfMigrations' /\ IsFiniteSet(uploads)'
    BY <1>2 DEF IInv, RowsOfMigrations
  <1> QED
    BY <1>6, <1>7, <1>8, <1>10, <1>13, <1>14, <1>15, TypesNext DEF IInv

-----------------------------------------------------------------------------
(* Reconciliation. *)

LEMMA BeginReconcileStep ==
  ASSUME IInv, BeginReconcile
  PROVE  IInv'
  <1>1. loaded.provider \in Provider
    BY Types DEF IInv, Typed, Config
  <1>2. gc' = [IdleGc EXCEPT !.at = "refs", !.provider = loaded.provider]
    BY DEF BeginReconcile
  <1>3. gc' \in GcRow /\ gc'.at = "refs"
    BY <1>1, <1>2 DEF GcRow, IdleGc
  <1>4. UNCHANGED <<records, objects, from, staged, writer, settings, migration, crashes>>
    BY DEF BeginReconcile
  <1>5. /\ gc'.at \in {"list", "delete"} => gc.at \in {"list", "delete"} /\ gc'.keep = gc.keep
        /\ gc'.at = "delete" => gc'.doomed \cap gc'.keep = {}
    BY <1>3
  <1> QED
    BY <1>3, <1>4, <1>5, GcMoves

LEMMA ListObjectsStep ==
  ASSUME IInv, ListObjects
  PROVE  IInv'
  <1>1. gc \in GcRow
    BY Types DEF IInv, Typed
  <1>2. PICK page \in FirstPages(gc.provider) :
          gc' = [gc EXCEPT !.at = "delete",
                   !.doomed = {k \in page \ gc.keep : objects[gc.provider][k] = "old"}]
    BY DEF ListObjects
  <1> DEFINE doomed == {k \in page \ gc.keep : objects[gc.provider][k] = "old"}
  <1>3. page \subseteq Key
    BY <1>2 DEF FirstPages
  <1>4. doomed \subseteq Key /\ doomed \cap gc.keep = {}
    BY <1>3
  <1>5. gc' = [gc EXCEPT !.at = "delete", !.doomed = doomed]
    BY <1>2
  <1> HIDE DEF doomed
  <1>6. gc' \in GcRow /\ gc'.at = "delete" /\ gc'.keep = gc.keep /\ gc'.doomed = doomed
    BY <1>1, <1>4, <1>5 DEF GcRow
  <1>7. gc.at = "list"
        /\ UNCHANGED <<records, objects, from, staged, writer, settings, migration, crashes>>
    BY DEF ListObjects
  <1>8. /\ gc'.at \in {"list", "delete"} => gc.at \in {"list", "delete"} /\ gc'.keep = gc.keep
        /\ gc'.at = "delete" => gc'.doomed \cap gc'.keep = {}
    BY <1>4, <1>6, <1>7
  <1> QED
    BY <1>6, <1>7, <1>8, GcMoves

LEMMA EndReconcileStep ==
  ASSUME IInv, EndReconcile
  PROVE  IInv'
  <1>1. /\ gc' = IdleGc
        /\ UNCHANGED <<records, objects, from, staged, writer, settings, migration, crashes>>
    BY DEF EndReconcile
  <1>2. /\ gc' \in GcRow
        /\ gc'.at \in {"list", "delete"} => gc.at \in {"list", "delete"} /\ gc'.keep = gc.keep
        /\ gc'.at = "delete" => gc'.doomed \cap gc'.keep = {}
    BY <1>1, Idle
  <1> QED
    BY <1>1, <1>2, GcMoves

(* What the Records refer to is known to who has just read it. *)
LEMMA ReferencesKnown ==
  ASSUME Typed
  PROVE  /\ ReferencedFileKeys \subseteq Key
         /\ \A r \in Record : Safe(r) => refs[r] \in ReferencedFileKeys
  BY DEF Typed, ReferencedFileKeys, Safe

LEMMA ReadReferencesStep ==
  ASSUME IInv, ReadReferences
  PROVE  IInv'
  <1>1. Typed
    BY Types DEF IInv
  <1>2. /\ gc' = [gc EXCEPT !.at = "list", !.keep = ReferencedFileKeys]
        /\ Overlap
        /\ UNCHANGED <<records, objects, from, staged, settings, migration, crashes>>
    BY DEF ReadReferences
  <1>3. gc' \in GcRow /\ gc'.at = "list" /\ gc'.keep = ReferencedFileKeys
    <2>1. gc \in GcRow /\ ReferencedFileKeys \subseteq Key
      BY <1>1, ReferencesKnown DEF Typed
    <2> HIDE DEF ReferencedFileKeys
    <2> QED
      BY <1>2, <2>1 DEF GcRow
  <1>4. /\ writer' \in [Writer -> WriterRow] /\ Staging' /\ Bound'
        /\ \A w \in Writer : ~Alone(writer'[w])
    BY <1>2, Marked
  <1>5. Typed'
    BY <1>1, <1>2, <1>3, <1>4 DEF Typed, records, staged, settings, migration
  <1>6. Undisturbed'
    BY <1>2, <1>4 DEF IInv, Undisturbed, Alone, Reloading, settings, migration
  <1>7. KnownToGc'
    <2>1. \A r \in Record : Safe(r) => refs[r] \in gc'.keep
      BY <1>1, <1>3, ReferencesKnown
    <2> QED
      BY <1>2, <1>3, <2>1 DEF KnownToGc, Safe, records
  <1>8. /\ RowsOfMigrations' /\ LostOnlyByOverlap' /\ IsFiniteSet(uploads)'
        /\ KnownToSetter' /\ KnownToMigrations'
    BY <1>2 DEF IInv, RowsOfMigrations, LostOnlyByOverlap, OpenFile, Known, KnownToSetter,
      KnownToMigrations, KnownTo, Safe, Stored, records, staged, settings, migration
  <1> QED
    BY <1>4, <1>5, <1>6, <1>7, <1>8, TypesNext DEF IInv, Known

(* An object that is doomed belongs to no Record that was left alone. *)
LEMMA DeleteObjectStep ==
  ASSUME IInv, NEW k \in Key, DeleteObject(k)
  PROVE  IInv'
  <1>1. Typed /\ Undisturbed /\ Known /\ LostOnlyByOverlap
    BY Types DEF IInv
  <1>2. /\ gc.at = "delete" /\ k \in gc.doomed
        /\ objects' = [objects EXCEPT ![gc.provider][k] = "none"]
        /\ gc' = [gc EXCEPT !.doomed = gc.doomed \ {k}]
        /\ UNCHANGED <<records, from, staged, writer, settings, migration, crashes>>
    BY DEF DeleteObject, Deleted
  <1>3. /\ gc' \in GcRow /\ gc'.at = "delete" /\ gc'.keep = gc.keep
        /\ gc'.doomed = gc.doomed \ {k}
    <2>1. gc \in GcRow /\ gc' = [gc EXCEPT !.doomed = gc.doomed \ {k}]
      BY <1>1, <1>2 DEF Typed
    <2> QED
      BY <1>2, <2>1 DEF GcRow
  <1>4. /\ objects' \in [Provider -> [Key -> Age]]
        /\ \A p \in Provider, j \in Key : j # k => objects'[p][j] = objects[p][j]
    <2>1. /\ objects \in [Provider -> [Key -> Age]] /\ gc.provider \in Provider
          /\ objects' = [objects EXCEPT ![gc.provider][k] = "none"]
      BY <1>1, <1>2 DEF Typed, GcRow
    <2> QED
      BY <2>1 DEF Age
  <1>5. Typed'
    BY <1>1, <1>2, <1>3, <1>4 DEF Typed, records, staged, settings, migration
  <1>6. \A r \in Record : Safe(r) => refs[r] \in Key /\ refs[r] # k
    BY <1>1, <1>2 DEF Typed, Known, KnownToGc, Safe
  <1>7. /\ UNCHANGED <<refs, exposed, writer, setter, mig, loaded, config>>
        /\ loaded.provider \in Provider /\ config.provider \in Provider
        /\ setter.next.provider \in Provider
        /\ \A m \in Migration : mig[m].target \in Provider
    BY <1>1, <1>2 DEF Typed, Config, SetterRow, MigrationRow, records, settings, migration
  <1>8. \A w \in Writer : ~Alone(writer[w])
    BY <1>1, <1>2 DEF Undisturbed, Armed
  <1>9. Undisturbed'
    BY <1>1, <1>7, <1>8 DEF Undisturbed, Alone, Reloading
  <1>10. KnownToGc' /\ KnownToSetter'
    BY <1>1, <1>2, <1>3, <1>4, <1>6, <1>7 DEF Known, KnownToGc, KnownToSetter, Safe, Stored
  <1>11. KnownToMigrations'
    BY <1>1, <1>4, <1>6, <1>7 DEF Known, KnownToMigrations, KnownTo, Safe, Stored
  <1>12. LostOnlyByOverlap'
    BY <1>1, <1>4, <1>6, <1>7 DEF LostOnlyByOverlap, OpenFile, Safe, Stored
  <1>13. Staging' /\ Bound' /\ RowsOfMigrations' /\ IsFiniteSet(uploads)'
    BY <1>2 DEF IInv, Staging, Fits, Bound, Claimed, RowsOfMigrations, staged, migration
  <1> QED
    BY <1>5, <1>9, <1>10, <1>11, <1>12, <1>13, TypesNext DEF IInv, Known

-----------------------------------------------------------------------------
(* Configure. *)

LEMMA BeginConfigureStep ==
  ASSUME IInv, NEW p \in Provider, BeginConfigure(p)
  PROVE  IInv'
  <1>1. loaded.revision \in 1..MaxRevision /\ loaded.revision < MaxRevision
    BY Types DEF IInv, Typed, Config, BeginConfigure
  <1>2. loaded.revision + 1 \in 1..MaxRevision
    BY <1>1
  <1>3. setter' = [at |-> "refs", next |-> [provider |-> p, revision |-> loaded.revision + 1]]
    BY DEF BeginConfigure
  <1>4. setter' \in SetterRow /\ setter'.at = "refs"
    BY <1>2, <1>3 DEF SetterRow, Config
  <1>5. /\ setter'.at \notin {"write", "reload"} /\ setter.at # "reload"
        /\ UNCHANGED <<records, objects, from, staged, config, loaded, writer, gc, migration, crashes>>
    BY <1>4 DEF BeginConfigure
  <1> QED
    BY <1>4, <1>5, SetterMoves

LEMMA FailConfigureStep ==
  ASSUME IInv, FailConfigure
  PROVE  IInv'
  <1>1. /\ setter' \in SetterRow /\ setter'.at \notin {"write", "reload"} /\ setter.at # "reload"
        /\ UNCHANGED <<records, objects, from, staged, config, loaded, writer, gc, migration, crashes>>
    BY Idle DEF FailConfigure
  <1> QED
    BY <1>1, SetterMoves

LEMMA RequireMigrationForMoveStep ==
  ASSUME IInv, RequireMigrationForMove
  PROVE  IInv'
  <1>1. Typed
    BY Types DEF IInv
  <1>2. CASE ReferencedFileKeys # {} /\ setter.next.provider # loaded.provider
    <2>1. /\ setter' \in SetterRow /\ setter'.at \notin {"write", "reload"} /\ setter.at # "reload"
          /\ UNCHANGED <<records, objects, from, staged, config, loaded, writer, gc, migration, crashes>>
      BY <1>2, Idle DEF RequireMigrationForMove
    <2> QED
      BY <2>1, SetterMoves
  <1>3. CASE ~(ReferencedFileKeys # {} /\ setter.next.provider # loaded.provider)
    <2>1. /\ setter.at = "refs" /\ setter' = [setter EXCEPT !.at = "write"]
          /\ Overlap
          /\ UNCHANGED <<records, objects, from, staged, config, loaded, gc, migration, crashes>>
      BY <1>3 DEF RequireMigrationForMove
    <2>2. setter' \in SetterRow /\ setter'.at = "write" /\ setter'.next = setter.next
      BY <1>1, <2>1 DEF Typed, SetterRow
    <2>3. /\ writer' \in [Writer -> WriterRow] /\ Staging' /\ Bound'
          /\ \A w \in Writer : ~Alone(writer'[w])
      BY <2>1, Marked
    <2>4. Typed'
      BY <1>1, <2>1, <2>2, <2>3 DEF Typed, records, staged, migration
    <2>5. Undisturbed'
      BY <2>1, <2>3 DEF IInv, Undisturbed, Alone, Reloading, migration
    <2>6. KnownToSetter'
      <3>1. ASSUME NEW r \in Record, Safe(r)
            PROVE  Stored(setter.next.provider, refs[r])
        <4>1. setter.next.provider = loaded.provider
          BY <1>1, <1>3, <3>1, ReferencesKnown
        <4> QED
          BY <3>1, <4>1 DEF IInv, LostOnlyByOverlap, OpenFile, Safe
      <3> QED
        BY <2>1, <2>2, <3>1 DEF KnownToSetter, Safe, Stored, records
    <2>7. /\ RowsOfMigrations' /\ LostOnlyByOverlap' /\ IsFiniteSet(uploads)'
          /\ KnownToGc' /\ KnownToMigrations'
      BY <2>1 DEF IInv, RowsOfMigrations, LostOnlyByOverlap, OpenFile, Known, KnownToGc,
        KnownToMigrations, KnownTo, Safe, Stored, records, staged, migration
    <2> QED
      BY <2>3, <2>4, <2>5, <2>6, <2>7, TypesNext DEF IInv, Known
  <1> QED
    BY <1>2, <1>3

LEMMA WriteConfigStep ==
  ASSUME IInv, WriteConfig
  PROVE  IInv'
  <1>1. Typed /\ Undisturbed /\ Known /\ LostOnlyByOverlap
    BY Types DEF IInv
  <1>2. /\ setter.at = "write" /\ config' = setter.next /\ setter' = [setter EXCEPT !.at = "reload"]
        /\ UNCHANGED <<records, objects, from, staged, loaded, writer, gc, migration, crashes>>
    BY DEF WriteConfig
  <1>3. setter' \in SetterRow /\ setter'.at = "reload" /\ config' \in Config
    BY <1>1, <1>2 DEF Typed, SetterRow
  <1>4. Typed'
    BY <1>1, <1>2, <1>3 DEF Typed, records, staged, migration
  <1>5. Undisturbed'
    <2>1. \A w \in Writer : ~Alone(writer[w])
      BY <1>1, <1>2 DEF Undisturbed, Armed
    <2> QED
      BY <1>2, <1>3, <2>1 DEF Undisturbed, Alone, Reloading
  <1>6. LostOnlyByOverlap'
    BY <1>1, <1>2 DEF LostOnlyByOverlap, OpenFile, Stored, Known, KnownToSetter, Safe, records
  <1>7. KnownToSetter'
    BY <1>3 DEF KnownToSetter
  <1>8. /\ Staging' /\ Bound' /\ RowsOfMigrations' /\ IsFiniteSet(uploads)'
        /\ KnownToGc' /\ KnownToMigrations'
    BY <1>2 DEF IInv, Staging, Fits, Bound, Claimed, RowsOfMigrations, Known, KnownToGc,
      KnownToMigrations, KnownTo, Safe, Stored, records, staged, migration
  <1> QED
    BY <1>4, <1>5, <1>6, <1>7, <1>8, TypesNext DEF IInv, Known

LEMMA ReloadConfigStep ==
  ASSUME IInv, ReloadConfig
  PROVE  IInv'
  <1>1. Typed /\ Undisturbed /\ Known /\ LostOnlyByOverlap
    BY Types DEF IInv
  <1>2. /\ setter.at = "reload" /\ loaded' = config /\ setter' = IdleSetter
        /\ UNCHANGED <<records, objects, from, staged, config, writer, gc, migration, crashes>>
    BY DEF ReloadConfig
  <1>3. setter' \in SetterRow /\ setter'.at = "idle"
    BY <1>2, Idle
  <1>4. Typed'
    BY <1>1, <1>2, <1>3 DEF Typed, records, staged, migration
  <1>5. Undisturbed'
    <2>1. \A w \in Writer : ~Alone(writer[w])
      BY <1>1, <1>2 DEF Undisturbed, Armed
    <2> QED
      BY <1>2, <2>1 DEF Undisturbed, Alone
  <1>6. LostOnlyByOverlap'
    BY <1>1, <1>2 DEF LostOnlyByOverlap, OpenFile, Stored, records
  <1>7. KnownToSetter'
    BY <1>3 DEF KnownToSetter
  <1>8. /\ Staging' /\ Bound' /\ RowsOfMigrations' /\ IsFiniteSet(uploads)'
        /\ KnownToGc' /\ KnownToMigrations'
    BY <1>2 DEF IInv, Staging, Fits, Bound, Claimed, RowsOfMigrations, Known, KnownToGc,
      KnownToMigrations, KnownTo, Safe, Stored, records, staged, migration
  <1> QED
    BY <1>4, <1>5, <1>6, <1>7, <1>8, TypesNext DEF IInv, Known

-----------------------------------------------------------------------------
(* Migrations. *)

(* One migration goes to a stage at which it is not armed. *)
LEMMA MigrationMoves ==
  ASSUME IInv, NEW m \in Migration,
         mig' \in [Migration -> MigrationRow],
         \A n \in Migration : n # m => mig'[n] = mig[n],
         mig'[m].at \notin {"copy", "reload"}, mig[m].at # "reload",
         row' \in [Migration -> Status], \A n \in Migration : n # m => row'[n] = row[n],
         active' \in Migration \cup {None},
         row'[m] = "running" => mig'[m].at \in {"build", "keys", "copy"},
         m \in acked => /\ row'[m] \in {"cancelled", "failed"}
                        /\ mig'[m].at \notin {"insert", "launch", "start"}
                        /\ mig'[m].at # "idle" => row'[m] = "cancelled",
         UNCHANGED <<migrationOnly, config, loaded, canceller, acked>>
  PROVE  IInv'
  <1>1. /\ canceller' \in CancellerRow /\ acked' \subseteq Migration
    BY Types DEF IInv, Typed
  <1>2. /\ \A n \in Migration : mig'[n].at = "copy" =>
             /\ mig[n].at = "copy" /\ mig'[n].keys = mig[n].keys /\ mig'[n].left = mig[n].left
             /\ mig'[n].target = mig[n].target
        /\ \A n \in Migration : mig'[n].at = "reload" <=> mig[n].at = "reload"
    OBVIOUS
  <1>3. RowsOfMigrations'
    <2>1. RowsOfMigrations /\ UNCHANGED <<canceller, acked>>
      BY DEF IInv
    <2>2. acked \subseteq Migration
      BY Types DEF IInv, Typed
    <2> QED
      BY <2>1, <2>2 DEF RowsOfMigrations
  <1> QED
    BY <1>1, <1>2, <1>3, MigrationsMove

LEMMA StartMigrationStep ==
  ASSUME IInv, NEW m \in Migration, StartMigration(m)
  PROVE  IInv'
  <1>1. Typed /\ RowsOfMigrations
    BY Types DEF IInv
  <1> DEFINE x == [IdleMigration EXCEPT !.at = "insert", !.target = Other(loaded.provider)]
  <1>2. x \in MigrationRow /\ x.at = "insert"
    <2>1. Other(loaded.provider) \in Provider
      BY DEF Other, Provider
    <2>2. IdleMigration \in MigrationRow
      BY Idle
    <2> QED
      BY <2>1, <2>2 DEF MigrationRow
  <1>3. mig' = [mig EXCEPT ![m] = x]
    BY DEF StartMigration
  <1> HIDE DEF x
  <1>4. /\ mig' \in [Migration -> MigrationRow] /\ mig'[m].at = "insert"
        /\ \A n \in Migration : n # m => mig'[n] = mig[n]
    BY <1>1, <1>2, <1>3 DEF Typed
  <1>5. /\ row[m] = "none" /\ mig[m].at # "reload" /\ UNCHANGED <<row, active>>
        /\ UNCHANGED <<migrationOnly, config, loaded, canceller, acked>>
    BY DEF StartMigration
  <1>6. m \notin acked
    BY <1>1, <1>5 DEF RowsOfMigrations
  <1>7. /\ row' \in [Migration -> Status] /\ active' \in Migration \cup {None}
        /\ \A n \in Migration : n # m => row'[n] = row[n]
    BY <1>1, <1>5 DEF Typed
  <1> QED
    BY <1>4, <1>5, <1>6, <1>7, MigrationMoves

LEMMA InsertMigrationStep ==
  ASSUME IInv, NEW m \in Migration, InsertMigration(m)
  PROVE  IInv'
  <1>1. /\ mig \in [Migration -> MigrationRow] /\ row \in [Migration -> Status]
        /\ active \in Migration \cup {None} /\ RowsOfMigrations
    BY Types DEF IInv, Typed
  <1>2. /\ mig[m].at = "insert" /\ row' = [row EXCEPT ![m] = "pending"]
        /\ mig' = [mig EXCEPT ![m].at = "launch"] /\ UNCHANGED active
        /\ UNCHANGED <<migrationOnly, config, loaded, canceller, acked>>
    BY DEF InsertMigration
  <1>3. /\ mig' \in [Migration -> MigrationRow] /\ mig'[m].at = "launch"
        /\ \A n \in Migration : n # m => mig'[n] = mig[n]
    BY <1>1, <1>2 DEF MigrationRow
  <1>4. m \notin acked
    BY <1>1, <1>2 DEF RowsOfMigrations
  <1>5. /\ row' \in [Migration -> Status] /\ row'[m] = "pending"
        /\ \A n \in Migration : n # m => row'[n] = row[n]
    BY <1>1, <1>2 DEF Status
  <1>6. active' \in Migration \cup {None} /\ mig[m].at # "reload"
    BY <1>1, <1>2
  <1> QED
    BY <1>2, <1>3, <1>4, <1>5, <1>6, MigrationMoves

LEMMA LaunchMigrationStep ==
  ASSUME IInv, NEW m \in Migration, LaunchMigration(m)
  PROVE  IInv'
  <1>1. /\ mig \in [Migration -> MigrationRow] /\ row \in [Migration -> Status]
        /\ RowsOfMigrations
    BY Types DEF IInv, Typed
  <1>2. /\ mig[m].at = "launch" /\ active' = m
        /\ mig' = [mig EXCEPT ![m].at = "start"] /\ UNCHANGED row
        /\ UNCHANGED <<migrationOnly, config, loaded, canceller, acked>>
    BY DEF LaunchMigration
  <1>3. /\ mig' \in [Migration -> MigrationRow] /\ mig'[m].at = "start"
        /\ \A n \in Migration : n # m => mig'[n] = mig[n]
    BY <1>1, <1>2 DEF MigrationRow
  <1>4. m \notin acked /\ row[m] # "running"
    BY <1>1, <1>2 DEF RowsOfMigrations
  <1>5. /\ row' \in [Migration -> Status] /\ row'[m] # "running"
        /\ \A n \in Migration : n # m => row'[n] = row[n]
    BY <1>1, <1>2, <1>4
  <1>6. active' \in Migration \cup {None} /\ mig[m].at # "reload"
    BY <1>2
  <1> QED
    BY <1>2, <1>3, <1>4, <1>5, <1>6, MigrationMoves

LEMMA MarkRunningStep ==
  ASSUME IInv, NEW m \in Migration, MarkRunning(m)
  PROVE  IInv'
  <1>1. /\ mig \in [Migration -> MigrationRow] /\ row \in [Migration -> Status]
        /\ active \in Migration \cup {None} /\ RowsOfMigrations
    BY Types DEF IInv, Typed
  <1>2. /\ mig[m].at = "start" /\ row' = [row EXCEPT ![m] = "running"]
        /\ mig' = [mig EXCEPT ![m].at = "build"] /\ UNCHANGED active
        /\ UNCHANGED <<migrationOnly, config, loaded, canceller, acked>>
    BY DEF MarkRunning
  <1>3. /\ mig' \in [Migration -> MigrationRow] /\ mig'[m].at = "build"
        /\ \A n \in Migration : n # m => mig'[n] = mig[n]
    BY <1>1, <1>2 DEF MigrationRow
  <1>4. m \notin acked
    BY <1>1, <1>2 DEF RowsOfMigrations
  <1>5. /\ row' \in [Migration -> Status]
        /\ \A n \in Migration : n # m => row'[n] = row[n]
    BY <1>1, <1>2 DEF Status
  <1>6. active' \in Migration \cup {None} /\ mig[m].at # "reload"
    BY <1>1, <1>2
  <1> QED
    BY <1>2, <1>3, <1>4, <1>5, <1>6, MigrationMoves

LEMMA BuildProvidersStep ==
  ASSUME IInv, NEW m \in Migration, BuildProviders(m)
  PROVE  IInv'
  <1>1. /\ mig \in [Migration -> MigrationRow] /\ row \in [Migration -> Status]
        /\ active \in Migration \cup {None} /\ RowsOfMigrations /\ loaded \in Config
    BY Types DEF IInv, Typed
  <1>2. /\ mig[m].at = "build" /\ UNCHANGED <<row, active>>
        /\ UNCHANGED <<migrationOnly, config, loaded, canceller, acked>>
    BY DEF BuildProviders
  <1>3. /\ mig' \in [Migration -> MigrationRow] /\ mig'[m].at = "keys"
        /\ \A n \in Migration : n # m => mig'[n] = mig[n]
    <2>1. PICK p \in Provider, v \in 1..MaxRevision :
            mig' = [mig EXCEPT ![m].at = "keys", ![m].source = p, ![m].revision = v]
      <3>1. /\ loaded.provider \in Provider /\ loaded.revision \in 1..MaxRevision
            /\ loaded.revision < MaxRevision
        BY <1>1 DEF Config, BuildProviders
      <3>2. loaded.revision + 1 \in 1..MaxRevision
        BY <3>1
      <3> QED
        BY <3>1, <3>2 DEF BuildProviders
    <2>2. /\ mig'[m].at = "keys"
          /\ \A n \in Migration : n # m => mig'[n] = mig[n]
      BY <1>1, <2>1 DEF MigrationRow
    <2> DEFINE x == [mig[m] EXCEPT !.at = "keys"]
               y == [x EXCEPT !.source = p]
               z == [y EXCEPT !.revision = v]
    <2>3. x \in MigrationRow
      BY <1>1 DEF MigrationRow
    <2>4. y \in MigrationRow
      <3> HIDE DEF x
      <3> QED
        BY <2>3 DEF MigrationRow
    <2>5. z \in MigrationRow
      <3> HIDE DEF y
      <3> QED
        BY <2>4 DEF MigrationRow
    <2>6. mig' = [mig EXCEPT ![m] = z]
      BY <1>1, <2>1
    <2> HIDE DEF z
    <2> QED
      BY <1>1, <2>2, <2>5, <2>6
  <1>4. /\ row' \in [Migration -> Status] /\ active' \in Migration \cup {None}
        /\ \A n \in Migration : n # m => row'[n] = row[n]
        /\ mig[m].at # "reload" /\ mig'[m].at \notin {"copy", "reload"}
    BY <1>1, <1>2, <1>3
  <1>5. m \in acked => /\ row'[m] \in {"cancelled", "failed"}
                       /\ mig'[m].at \notin {"insert", "launch", "start"}
                       /\ mig'[m].at # "idle" => row'[m] = "cancelled"
    BY <1>1, <1>2, <1>3 DEF RowsOfMigrations
  <1>6. row'[m] = "running" => mig'[m].at \in {"build", "keys", "copy"}
    BY <1>3
  <1> QED
    BY <1>2, <1>3, <1>4, <1>5, <1>6, MigrationMoves

LEMMA FinishMigrationStep ==
  ASSUME IInv, NEW m \in Migration, NEW status \in {"failed", "cancelled"},
         FinishMigration(m, status)
  PROVE  IInv'
  <1>1. /\ mig \in [Migration -> MigrationRow] /\ row \in [Migration -> Status]
        /\ active \in Migration \cup {None} /\ RowsOfMigrations
    BY Types DEF IInv, Typed
  <1>2. /\ mig[m].at \in {"build", "keys", "copy"} /\ row' = [row EXCEPT ![m] = status]
        /\ mig' = [mig EXCEPT ![m] = IdleMigration]
        /\ active' = IF active = m THEN None ELSE active
        /\ UNCHANGED <<migrationOnly, config, loaded, canceller, acked>>
    BY DEF FinishMigration
  <1>3. /\ mig' \in [Migration -> MigrationRow] /\ mig'[m].at = "idle"
        /\ \A n \in Migration : n # m => mig'[n] = mig[n]
    BY <1>1, <1>2, Idle
  <1>4. /\ row' \in [Migration -> Status] /\ row'[m] = status
        /\ \A n \in Migration : n # m => row'[n] = row[n]
    BY <1>1, <1>2 DEF Status
  <1>5. active' \in Migration \cup {None} /\ mig[m].at # "reload"
    BY <1>1, <1>2
  <1>6. /\ mig'[m].at \notin {"copy", "reload"}
        /\ row'[m] = "running" => mig'[m].at \in {"build", "keys", "copy"}
    BY <1>3, <1>4
  <1>7. m \in acked => /\ row'[m] \in {"cancelled", "failed"}
                       /\ mig'[m].at \notin {"insert", "launch", "start"}
                       /\ mig'[m].at # "idle" => row'[m] = "cancelled"
    BY <1>3, <1>4
  <1> QED
    BY <1>2, <1>3, <1>4, <1>5, <1>6, <1>7, MigrationMoves

LEMMA ListKeysStep ==
  ASSUME IInv, NEW m \in Migration, ListKeys(m)
  PROVE  IInv'
  <1>1. Typed
    BY Types DEF IInv
  <1>2. /\ mig[m].at = "keys"
        /\ mig' = [mig EXCEPT ![m].at = "copy", ![m].keys = ReferencedFileKeys,
                              ![m].left = ReferencedFileKeys]
        /\ Overlap
        /\ UNCHANGED <<records, objects, from, staged, config, loaded, gc, setter, crashes,
                       row, active, canceller, acked>>
    BY DEF ListKeys
  <1>3. /\ mig' \in [Migration -> MigrationRow] /\ mig'[m].at = "copy"
        /\ mig'[m].keys = ReferencedFileKeys /\ mig'[m].left = ReferencedFileKeys
        /\ \A n \in Migration : n # m => mig'[n] = mig[n]
    <2>1. PICK keys \in SUBSET Key : keys = ReferencedFileKeys
      BY <1>1, ReferencesKnown
    <2>2. /\ mig \in [Migration -> MigrationRow]
          /\ mig' = [mig EXCEPT ![m].at = "copy", ![m].keys = keys, ![m].left = keys]
      BY <1>1, <1>2, <2>1 DEF Typed
    <2>3. /\ mig' \in [Migration -> MigrationRow] /\ mig'[m].at = "copy"
          /\ mig'[m].keys = keys /\ mig'[m].left = keys
          /\ \A n \in Migration : n # m => mig'[n] = mig[n]
      <3>1. /\ mig'[m].at = "copy" /\ mig'[m].keys = keys /\ mig'[m].left = keys
            /\ \A n \in Migration : n # m => mig'[n] = mig[n]
        BY <2>2 DEF MigrationRow
      <3> DEFINE x == [mig[m] EXCEPT !.at = "copy"]
                 y == [x EXCEPT !.keys = keys]
                 z == [y EXCEPT !.left = keys]
      <3>2. x \in MigrationRow
        BY <2>2 DEF MigrationRow
      <3>3. y \in MigrationRow
        <4> HIDE DEF x
        <4> QED
          BY <3>2 DEF MigrationRow
      <3>4. z \in MigrationRow
        <4> HIDE DEF y
        <4> QED
          BY <3>3 DEF MigrationRow
      <3>5. mig' = [mig EXCEPT ![m] = z]
        BY <2>2
      <3> HIDE DEF z
      <3> QED
        BY <2>2, <3>1, <3>4, <3>5
    <2> QED
      BY <2>1, <2>3
  <1>4. /\ writer' \in [Writer -> WriterRow] /\ Staging' /\ Bound'
        /\ \A w \in Writer : ~Alone(writer'[w])
    BY <1>2, Marked
  <1>5. Typed'
    BY <1>1, <1>2, <1>3, <1>4 DEF Typed, records, staged
  <1>6. Undisturbed'
    <2>1. loaded = config \/ Reloading
      BY DEF IInv, Undisturbed
    <2>2. (loaded = config \/ Reloading)'
      BY <1>2, <1>3, <2>1 DEF Reloading
    <2> QED
      BY <1>4, <2>2 DEF Undisturbed, Alone
  <1>7. KnownToMigrations'
    <2>1. ASSUME NEW r \in Record, Safe(r)
          PROVE  refs[r] \in mig'[m].keys /\ refs[r] \in mig'[m].left
      BY <1>1, <1>3, <2>1, ReferencesKnown
    <2>2. KnownToMigrations
      BY DEF IInv, Known
    <2> QED
      BY <1>2, <1>3, <2>1, <2>2 DEF KnownToMigrations, KnownTo, Safe, Stored, records
  <1>8. RowsOfMigrations'
    BY <1>1, <1>2, <1>3 DEF IInv, RowsOfMigrations, Typed
  <1>9. LostOnlyByOverlap' /\ IsFiniteSet(uploads)' /\ KnownToGc' /\ KnownToSetter'
    BY <1>2 DEF IInv, LostOnlyByOverlap, OpenFile, Known, KnownToGc, KnownToSetter, Safe, Stored,
      records, staged
  <1> QED
    BY <1>4, <1>5, <1>6, <1>7, <1>8, <1>9, TypesNext DEF IInv, Known

LEMMA CopyObjectStep ==
  ASSUME IInv, NEW m \in Migration, NEW k \in Key, CopyObject(m, k)
  PROVE  IInv'
  <1>1. Typed /\ Undisturbed /\ Known /\ LostOnlyByOverlap /\ RowsOfMigrations
    BY Types DEF IInv
  <1>2. /\ mig[m].at = "copy"
        /\ objects' = [objects EXCEPT ![mig[m].target][k] = IF @ = "none" THEN "young" ELSE @]
        /\ mig' = [mig EXCEPT ![m].left = mig[m].left \ {k}]
        /\ UNCHANGED <<records, from, staged, writer, gc, settings, crashes,
                       row, active, canceller, acked>>
    BY DEF CopyObject
  <1>3. /\ mig' \in [Migration -> MigrationRow] /\ mig'[m].at = "copy"
        /\ mig'[m].keys = mig[m].keys /\ mig'[m].left = mig[m].left \ {k}
        /\ mig'[m].target = mig[m].target
        /\ \A n \in Migration : n # m => mig'[n] = mig[n]
    <2>1. /\ mig \in [Migration -> MigrationRow]
          /\ mig' = [mig EXCEPT ![m].left = mig[m].left \ {k}]
      BY <1>1, <1>2 DEF Typed
    <2> QED
      BY <1>2, <2>1 DEF MigrationRow
  <1>4. /\ objects' \in [Provider -> [Key -> Age]] /\ objects'[mig[m].target][k] # "none"
        /\ \A p \in Provider, j \in Key : objects[p][j] # "none" => objects'[p][j] # "none"
    <2>1. PICK p \in Provider : p = mig[m].target
      BY <1>1 DEF Typed, MigrationRow
    <2>2. /\ objects \in [Provider -> [Key -> Age]]
          /\ objects' = [objects EXCEPT ![p][k] = IF objects[p][k] = "none" THEN "young"
                                                  ELSE objects[p][k]]
      BY <1>1, <1>2, <2>1 DEF Typed
    <2>3. /\ objects' \in [Provider -> [Key -> Age]] /\ objects'[p][k] # "none"
          /\ \A q \in Provider, j \in Key : objects[q][j] # "none" => objects'[q][j] # "none"
      BY <2>2 DEF Age
    <2> QED
      BY <2>1, <2>3
  <1>5. Typed'
    BY <1>1, <1>2, <1>3, <1>4 DEF Typed, records, staged, settings
  <1>6. /\ UNCHANGED <<refs, exposed, writer, setter, gc, loaded, config>>
        /\ loaded.provider \in Provider /\ config.provider \in Provider
        /\ setter.next.provider \in Provider
        /\ \A n \in Migration : mig[n].target \in Provider
        /\ \A r \in Record : refs[r] # None => refs[r] \in Key
    BY <1>1, <1>2 DEF Typed, Config, SetterRow, MigrationRow, records, settings
  <1>7. Undisturbed'
    <2>1. \A w \in Writer : ~Alone(writer[w])
      BY <1>1, <1>2 DEF Undisturbed, Armed
    <2>2. (loaded = config \/ Reloading)'
      BY <1>1, <1>2, <1>3, <1>6 DEF Undisturbed, Reloading
    <2> QED
      BY <1>6, <2>1, <2>2 DEF Undisturbed, Alone
  <1>8. KnownToGc' /\ KnownToSetter'
    BY <1>1, <1>4, <1>6 DEF Known, KnownToGc, KnownToSetter, Safe, Stored
  <1>9. KnownToMigrations'
    <2>1. ASSUME NEW n \in Migration, mig'[n].at = "copy", NEW r \in Record, Safe(r)
          PROVE  refs[r] \in mig'[n].keys
                 /\ (refs[r] \in mig'[n].left \/ objects'[mig'[n].target][refs[r]] # "none")
      <3>1. mig[n].at = "copy" /\ mig'[n].keys = mig[n].keys /\ mig'[n].target = mig[n].target
        BY <1>2, <1>3, <2>1
      <3>2. /\ refs[r] \in mig[n].keys /\ refs[r] \in Key
            /\ refs[r] \in mig[n].left \/ objects[mig[n].target][refs[r]] # "none"
        BY <1>1, <1>6, <2>1, <3>1 DEF Known, KnownToMigrations, KnownTo, Stored, Safe
      <3> QED
        BY <1>3, <1>4, <1>6, <3>1, <3>2
    <2> QED
      BY <1>6, <2>1 DEF KnownToMigrations, KnownTo, Safe, Stored
  <1>10. LostOnlyByOverlap'
    BY <1>1, <1>4, <1>6 DEF LostOnlyByOverlap, OpenFile, Stored
  <1>11. RowsOfMigrations'
    BY <1>1, <1>2, <1>3 DEF RowsOfMigrations, Typed
  <1>12. Staging' /\ Bound' /\ IsFiniteSet(uploads)'
    BY <1>2 DEF IInv, Staging, Fits, Bound, Claimed, staged
  <1> QED
    BY <1>5, <1>7, <1>8, <1>9, <1>10, <1>11, <1>12, TypesNext DEF IInv, Known

LEMMA SwitchProviderStep ==
  ASSUME IInv, NEW m \in Migration, SwitchProvider(m)
  PROVE  IInv'
  <1>1. Typed /\ Undisturbed /\ Known /\ LostOnlyByOverlap /\ RowsOfMigrations
    BY Types DEF IInv
  <1>2. /\ mig[m].at = "copy" /\ mig[m].left = {}
        /\ mig' = [mig EXCEPT ![m].at = "reload"]
        /\ UNCHANGED <<migrationOnly, loaded, active, canceller, acked>>
    BY DEF SwitchProvider
  <1>3. \/ row[m] = "cancelled" /\ UNCHANGED <<config, row>>
        \/ /\ row[m] # "cancelled"
           /\ config' = [provider |-> mig[m].target, revision |-> mig[m].revision]
           /\ row' = [row EXCEPT ![m] = "completed"]
    BY DEF SwitchProvider
  <1>4. /\ mig' \in [Migration -> MigrationRow] /\ mig'[m].at = "reload"
        /\ \A n \in Migration : n # m => mig'[n] = mig[n]
    <2>1. mig \in [Migration -> MigrationRow] /\ mig' = [mig EXCEPT ![m].at = "reload"]
      BY <1>1, <1>2 DEF Typed
    <2> QED
      BY <2>1 DEF MigrationRow
  <1>5. /\ config' \in Config
        /\ config' = config \/ config'.provider = mig[m].target
    BY <1>1, <1>3 DEF Typed, Config, MigrationRow
  <1>6. row' \in [Migration -> Status] /\ row'[m] # "running"
        /\ \A n \in Migration : n # m => row'[n] = row[n]
    <2>1. row[m] # "cancelled" => row' = [row EXCEPT ![m] = "completed"]
      BY <1>3
    <2>2. row[m] = "cancelled" => row' = row
      BY <1>3
    <2> QED
      BY <1>1, <2>1, <2>2 DEF Typed, Status
  <1>7. Typed'
    BY <1>1, <1>2, <1>4, <1>5, <1>6 DEF Typed, migrationOnly, records, staged
  <1>8. Undisturbed'
    <2>1. \A w \in Writer : ~Alone(writer[w])
      BY <1>1, <1>2 DEF Undisturbed, Armed
    <2> QED
      BY <1>2, <1>4, <2>1 DEF Undisturbed, Alone, Reloading, migrationOnly
  <1>9. \A r \in Record : Safe(r) => Stored(mig[m].target, refs[r])
    BY <1>1, <1>2 DEF Known, KnownToMigrations, KnownTo
  <1>10. LostOnlyByOverlap'
    BY <1>1, <1>2, <1>5, <1>9 DEF LostOnlyByOverlap, OpenFile, Safe, Stored, migrationOnly, records
  <1>11. KnownToMigrations'
    <2>1. KnownToMigrations /\ UNCHANGED <<refs, exposed, objects>>
      BY <1>1, <1>2 DEF Known, migrationOnly, records
    <2> QED
      BY <1>4, <2>1 DEF KnownToMigrations, KnownTo, Safe, Stored
  <1>12. RowsOfMigrations'
    <2>1. m \in acked => row'[m] = "cancelled"
      BY <1>1, <1>2, <1>3 DEF RowsOfMigrations
    <2>2. acked' = acked /\ acked \subseteq Migration /\ canceller' = canceller
      BY <1>1, <1>2 DEF Typed
    <2> QED
      BY <1>1, <1>4, <1>6, <2>1, <2>2 DEF RowsOfMigrations
  <1>13. Staging' /\ Bound' /\ IsFiniteSet(uploads)' /\ KnownToGc' /\ KnownToSetter'
    BY <1>2 DEF IInv, Staging, Fits, Bound, Claimed, Known, KnownToGc, KnownToSetter, Safe, Stored,
      migrationOnly, records, staged
  <1> QED
    BY <1>7, <1>8, <1>10, <1>11, <1>12, <1>13, TypesNext DEF IInv, Known

LEMMA ReloadSwitchedStep ==
  ASSUME IInv, NEW m \in Migration, ReloadSwitched(m)
  PROVE  IInv'
  <1>1. Typed /\ Undisturbed /\ Known /\ LostOnlyByOverlap /\ RowsOfMigrations
    BY Types DEF IInv
  <1>2. /\ mig[m].at = "reload" /\ loaded' = config
        /\ mig' = [mig EXCEPT ![m] = IdleMigration]
        /\ active' = IF active = m THEN None ELSE active
        /\ UNCHANGED <<migrationOnly, config, row, canceller, acked>>
    BY DEF ReloadSwitched
  <1>3. /\ mig' \in [Migration -> MigrationRow] /\ mig'[m].at = "idle"
        /\ \A n \in Migration : n # m => mig'[n] = mig[n]
    BY <1>1, <1>2, Idle DEF Typed
  <1>4. Typed'
    BY <1>1, <1>2, <1>3 DEF Typed, migrationOnly, records, staged
  <1>5. Undisturbed'
    <2>1. \A w \in Writer : ~Alone(writer[w])
      BY <1>1, <1>2 DEF Undisturbed, Armed
    <2> QED
      BY <1>2, <2>1 DEF Undisturbed, Alone, migrationOnly
  <1>6. LostOnlyByOverlap'
    BY <1>1, <1>2 DEF LostOnlyByOverlap, OpenFile, Stored, migrationOnly, records
  <1>7. KnownToMigrations'
    <2>1. KnownToMigrations /\ UNCHANGED <<refs, exposed, objects>>
      BY <1>1, <1>2 DEF Known, migrationOnly, records
    <2> QED
      BY <1>3, <2>1 DEF KnownToMigrations, KnownTo, Safe, Stored
  <1>8. RowsOfMigrations'
    <2>1. row[m] # "running"
      BY <1>1, <1>2 DEF RowsOfMigrations
    <2>2. acked' = acked /\ acked \subseteq Migration /\ canceller' = canceller /\ row' = row
      BY <1>1, <1>2 DEF Typed
    <2> QED
      BY <1>1, <1>3, <2>1, <2>2 DEF RowsOfMigrations
  <1>9. Staging' /\ Bound' /\ IsFiniteSet(uploads)' /\ KnownToGc' /\ KnownToSetter'
    BY <1>2 DEF IInv, Staging, Fits, Bound, Claimed, Known, KnownToGc, KnownToSetter, Safe, Stored,
      migrationOnly, records, staged
  <1> QED
    BY <1>4, <1>5, <1>6, <1>7, <1>8, <1>9, TypesNext DEF IInv, Known

LEMMA BeginCancelStep ==
  ASSUME IInv, NEW m \in Migration, BeginCancel(m)
  PROVE  IInv'
  <1>1. Typed /\ RowsOfMigrations
    BY Types DEF IInv
  <1>2. /\ canceller' = [at |-> "stop", id |-> m] /\ UNCHANGED <<row, mig, active, acked>>
        /\ UNCHANGED <<migrationOnly, config, loaded>>
    BY DEF BeginCancel
  <1>3. /\ row' \in [Migration -> Status] /\ mig' \in [Migration -> MigrationRow]
        /\ active' \in Migration \cup {None} /\ acked' \subseteq Migration
        /\ canceller' \in CancellerRow
    BY <1>1, <1>2 DEF Typed, CancellerRow
  <1>4. RowsOfMigrations'
    BY <1>1, <1>2 DEF RowsOfMigrations
  <1>5. /\ \A n \in Migration : mig'[n].at = "copy" =>
             /\ mig[n].at = "copy" /\ mig'[n].keys = mig[n].keys /\ mig'[n].left = mig[n].left
             /\ mig'[n].target = mig[n].target
        /\ \A n \in Migration : mig'[n].at = "reload" <=> mig[n].at = "reload"
    BY <1>2
  <1> QED
    BY <1>2, <1>3, <1>4, <1>5, MigrationsMove

LEMMA StopGoroutineStep ==
  ASSUME IInv, StopGoroutine
  PROVE  IInv'
  <1>1. Typed /\ RowsOfMigrations
    BY Types DEF IInv
  <1>2. /\ mig' = [m \in Migration |-> IF m = active /\ m = canceller.id
                                       THEN [mig[m] EXCEPT !.cancelled = TRUE] ELSE mig[m]]
        /\ canceller.at = "stop" /\ canceller' = [canceller EXCEPT !.at = "write"]
        /\ UNCHANGED <<row, active, acked>>
        /\ UNCHANGED <<migrationOnly, config, loaded>>
    BY DEF StopGoroutine
  <1>3. /\ mig' \in [Migration -> MigrationRow]
        /\ \A n \in Migration : /\ mig'[n].at = mig[n].at /\ mig'[n].keys = mig[n].keys
                                /\ mig'[n].left = mig[n].left /\ mig'[n].target = mig[n].target
    <2>1. mig \in [Migration -> MigrationRow]
      BY <1>1 DEF Typed
    <2>2. ASSUME NEW n \in Migration
          PROVE  LET x == [mig[n] EXCEPT !.cancelled = TRUE]
                 IN /\ x \in MigrationRow /\ x.at = mig[n].at /\ x.keys = mig[n].keys
                    /\ x.left = mig[n].left /\ x.target = mig[n].target
      BY <2>1 DEF MigrationRow
    <2> QED
      BY <1>2, <2>1, <2>2
  <1>4. canceller' \in CancellerRow /\ canceller'.id = canceller.id
    BY <1>1, <1>2 DEF Typed, CancellerRow
  <1>5. /\ row' \in [Migration -> Status] /\ active' \in Migration \cup {None}
        /\ acked' \subseteq Migration
    BY <1>1, <1>2 DEF Typed
  <1>6. RowsOfMigrations'
    BY <1>1, <1>2, <1>3, <1>4 DEF RowsOfMigrations, Typed
  <1>7. /\ \A n \in Migration : mig'[n].at = "copy" =>
             /\ mig[n].at = "copy" /\ mig'[n].keys = mig[n].keys /\ mig'[n].left = mig[n].left
             /\ mig'[n].target = mig[n].target
        /\ \A n \in Migration : mig'[n].at = "reload" <=> mig[n].at = "reload"
    BY <1>3
  <1> QED
    BY <1>2, <1>3, <1>4, <1>5, <1>6, <1>7, MigrationsMove

LEMMA WriteCancelledStep ==
  ASSUME IInv, WriteCancelled
  PROVE  IInv'
  <1>1. Typed /\ RowsOfMigrations
    BY Types DEF IInv
  <1>2. PICK m \in Migration : m = canceller.id
    BY <1>1 DEF WriteCancelled, RowsOfMigrations
  <1>3. /\ row' = IF m \in Running THEN [row EXCEPT ![m] = "cancelled"] ELSE row
        /\ acked' = IF row[m] = "running" THEN acked \cup {m} ELSE acked
        /\ canceller' = [at |-> "idle", id |-> None] /\ UNCHANGED <<mig, active>>
        /\ UNCHANGED <<migrationOnly, config, loaded>>
    BY <1>2 DEF WriteCancelled
  <1>4. canceller' \in CancellerRow /\ canceller'.at = "idle"
    BY <1>3 DEF CancellerRow
  <1>5. /\ row' \in [Migration -> Status]
        /\ \A n \in Migration : n # m => row'[n] = row[n]
        /\ row[m] \in {"pending", "running"} => row'[m] = "cancelled"
        /\ row[m] \notin {"pending", "running"} => row'[m] = row[m]
    BY <1>1, <1>3 DEF Typed, Running, Status
  <1>6. /\ mig' \in [Migration -> MigrationRow] /\ active' \in Migration \cup {None}
        /\ acked' \subseteq Migration
    BY <1>1, <1>3 DEF Typed
  <1>7. RowsOfMigrations'
    <2>1. \A n \in Migration : row'[n] = "running" => mig'[n].at \in {"build", "keys", "copy"}
      BY <1>1, <1>3, <1>5 DEF RowsOfMigrations
    <2>2. ASSUME NEW n \in acked'
          PROVE  /\ row'[n] \in {"cancelled", "failed"}
                 /\ mig'[n].at \notin {"insert", "launch", "start"}
                 /\ mig'[n].at # "idle" => row'[n] = "cancelled"
      <3>1. CASE n \in acked
        BY <1>1, <1>3, <1>5, <3>1 DEF RowsOfMigrations, Typed
      <3>2. CASE n \notin acked
        <4>1. n = m /\ row[m] = "running"
          BY <1>3, <3>2
        <4> QED
          BY <1>1, <1>3, <1>5, <4>1 DEF RowsOfMigrations
      <3> QED
        BY <3>1, <3>2
    <2> QED
      BY <1>4, <2>1, <2>2 DEF RowsOfMigrations
  <1>8. /\ \A n \in Migration : mig'[n].at = "copy" =>
             /\ mig[n].at = "copy" /\ mig'[n].keys = mig[n].keys /\ mig'[n].left = mig[n].left
             /\ mig'[n].target = mig[n].target
        /\ \A n \in Migration : mig'[n].at = "reload" <=> mig[n].at = "reload"
    BY <1>3
  <1> QED
    BY <1>3, <1>4, <1>5, <1>6, <1>7, <1>8, MigrationsMove

-----------------------------------------------------------------------------
(* A restart: nothing is under way, and the stored configuration is loaded.  *)

LEMMA RestartStep ==
  ASSUME IInv, Restart
  PROVE  IInv'
  <1>1. Typed /\ Bound /\ LostOnlyByOverlap /\ RowsOfMigrations
    BY Types DEF IInv
  <1>2. /\ uploads' = {} /\ tmp' = Cleaned /\ active' = None /\ loaded' = config
        /\ row' = [m \in Migration |-> IF m \in Running THEN "interrupted" ELSE row[m]]
        /\ mig' = [m \in Migration |-> IdleMigration]
        /\ canceller' = [at |-> "idle", id |-> None]
        /\ writer' = [w \in Writer |-> IdleWrite] /\ gc' = IdleGc /\ setter' = IdleSetter
        /\ crashes < MaxCrashes /\ crashes' = crashes + 1
        /\ UNCHANGED <<refs, exposed, objects, from, config, acked>>
    BY DEF Restart, records
  <1>3. IsFiniteSet(uploads') /\ Cardinality(uploads') = 0
    BY <1>2, FS_EmptySet
  <1>4. /\ tmp' \in [Upload -> {"new", "young", "old", "gone"}]
        /\ \A u \in Upload : tmp[u] = "gone" => tmp'[u] = "gone"
    BY <1>1, <1>2 DEF Typed, Cleaned
  <1>5. row' \in [Migration -> Status]
        /\ \A m \in Migration : /\ row'[m] # "running"
                                /\ row[m] \in {"cancelled", "failed"} => row'[m] = row[m]
    BY <1>1, <1>2 DEF Typed, Status, Running
  <1>6. crashes' \in 0..MaxCrashes
    <2>1. crashes \in 0..MaxCrashes
      BY <1>1 DEF Typed
    <2> QED
      BY <1>2, <2>1
  <1>7. /\ \A w \in Writer : writer'[w].at = "idle"
        /\ \A m \in Migration : mig'[m].at = "idle"
        /\ gc'.at = "idle" /\ setter'.at = "idle" /\ canceller'.at = "idle"
    BY <1>2, Idle
  <1>8. Typed'
    BY <1>1, <1>2, <1>3, <1>4, <1>5, <1>6, Idle DEF Typed, CancellerRow
  <1>9. Staging'
    BY <1>7 DEF Staging, Fits
  <1>10. Bound'
    <2>1. \A k \in Key : from[k] # None => from[k] \in Upload
      BY <1>1 DEF Typed
    <2> QED
      BY <1>1, <1>2, <1>4, <1>7, <2>1 DEF Bound, Claimed
  <1>11. RowsOfMigrations'
    BY <1>1, <1>2, <1>5, <1>7 DEF RowsOfMigrations, Typed
  <1>12. Undisturbed'
    BY <1>2, <1>7 DEF Undisturbed, Alone
  <1>13. Known'
    BY <1>7 DEF Known, KnownToGc, KnownToSetter, KnownToMigrations
  <1>14. LostOnlyByOverlap'
    BY <1>1, <1>2 DEF LostOnlyByOverlap, OpenFile, Stored
  <1> QED
    BY <1>3, <1>8, <1>9, <1>10, <1>11, <1>12, <1>13, <1>14, TypesNext DEF IInv

-----------------------------------------------------------------------------
(* Every step, and what follows from the invariant. *)

LEMMA WriteStep ==
  ASSUME IInv, NEW w \in Writer, Write(w)
  PROVE  IInv'
  BY PickProviderStep, ClaimUploadStep, StatObjectStep, CommitWriteStep, FailWriteStep, PromoteStep
     DEF Write

LEMMA ReconcileStep ==
  ASSUME IInv, Reconcile
  PROVE  IInv'
  BY BeginReconcileStep, ReadReferencesStep, ListObjectsStep, EndReconcileStep, DeleteObjectStep
     DEF Reconcile

LEMMA ConfigureStep ==
  ASSUME IInv, Configure
  PROVE  IInv'
  BY RequireMigrationForMoveStep, WriteConfigStep, ReloadConfigStep, FailConfigureStep DEF Configure

LEMMA MigrateStep ==
  ASSUME IInv, NEW m \in Migration, StartMigration(m) \/ Migrate(m) \/ BeginCancel(m)
  PROVE  IInv'
  BY StartMigrationStep, InsertMigrationStep, LaunchMigrationStep, MarkRunningStep,
     BuildProvidersStep, ListKeysStep, SwitchProviderStep, ReloadSwitchedStep, CopyObjectStep,
     FinishMigrationStep, BeginCancelStep DEF Migrate

LEMMA StutteringStep ==
  ASSUME IInv, UNCHANGED vars
  PROVE  IInv'
  <1>1. Typed'
    BY Types DEF IInv, Typed, vars
  <1>2. UNCHANGED <<records, writer, gc, settings, migration, objects, from, tmp, uploads>>
    BY DEF vars, records, settings, migration
  <1>3. Staging' /\ Bound' /\ RowsOfMigrations' /\ IsFiniteSet(uploads)'
    BY <1>2 DEF IInv, Staging, Bound, Claimed, RowsOfMigrations, migration
  <1>4. Undisturbed'
    BY <1>2 DEF IInv, Undisturbed, Armed, Reloading, Finds, Stored, settings, migration
  <1>5. Known' /\ LostOnlyByOverlap'
    BY <1>2 DEF IInv, Known, KnownToGc, KnownToSetter, KnownToMigrations, KnownTo, Safe, Stored,
      LostOnlyByOverlap, OpenFile, records, settings, migration
  <1> QED
    BY <1>1, <1>3, <1>4, <1>5, TypesNext DEF IInv

(* The invariant holds in every state that FileStore reaches: what writes,   *)
(* reconciliations, Configure and migrations know of each other              *)
(* (src/internal/filestore/service.go, src/internal/records/files.go).       *)
THEOREM Invariance == Spec => []IInv
  <1>1. Init => IInv
    BY Initially
  <1>2. IInv /\ [Next]_vars => IInv'
    <2> SUFFICES ASSUME IInv, [Next]_vars
                 PROVE  IInv'
      OBVIOUS
    <2>1. ASSUME NEW u \in Upload, UploadFile(u) PROVE IInv'
      BY <2>1, UploadFileStep
    <2>2. CASE GrowOld
      BY <2>2, GrowOldStep
    <2>3. ASSUME NEW w \in Writer, Write(w) PROVE IInv'
      BY <2>3, WriteStep
    <2>4. ASSUME NEW w \in Writer, NEW r \in Record, NEW v \in Key \cup Upload \cup {None},
                 BeginWrite(w, r, v)
          PROVE  IInv'
      BY <2>4, BeginWriteStep
    <2>5. CASE Reconcile
      BY <2>5, ReconcileStep
    <2>6. ASSUME NEW p \in Provider, BeginConfigure(p) PROVE IInv'
      BY <2>6, BeginConfigureStep
    <2>7. CASE Configure
      BY <2>7, ConfigureStep
    <2>8. ASSUME NEW m \in Migration, StartMigration(m) \/ Migrate(m) \/ BeginCancel(m)
          PROVE  IInv'
      BY <2>8, MigrateStep
    <2>9. CASE StopGoroutine \/ WriteCancelled \/ Restart
      BY <2>9, StopGoroutineStep, WriteCancelledStep, RestartStep
    <2>10. CASE UNCHANGED vars
      BY <2>10, StutteringStep
    <2> QED
      BY <2>1, <2>2, <2>3, <2>4, <2>5, <2>6, <2>7, <2>8, <2>9, <2>10 DEF Next
  <1> QED
    BY <1>1, <1>2, PTL DEF Spec

(* Every variable keeps its type; the staged uploads stay within their limit *)
(* (maximumStagedUploads) and each of them has its file.                     *)
THEOREM TypeCorrect == Spec => []TypeOK
  <1>1. IInv => TypeOK
    BY DEF IInv
  <1> QED
    BY <1>1, Invariance, PTL

(* A Record whose last write did not overlap maintenance keeps its object,   *)
(* through every reconciliation, change of Provider, migration and restart   *)
(* (reconcileTracked, Configure, runMigration).                              *)
THEOREM ObjectsKept == Spec => []LostOnlyByOverlap
  <1>1. IInv => LostOnlyByOverlap
    BY DEF IInv
  <1> QED
    BY <1>1, Invariance, PTL

(* An upload becomes one object at most, and is no longer on offer then      *)
(* (consumeStagedUpload).                                                    *)
THEOREM UploadsConsumedOnce == Spec => []UploadBoundOnce
  <1>1. IInv => UploadBoundOnce
    <2> SUFFICES ASSUME IInv, NEW u \in Upload
                 PROVE  LET made == {k \in Key : from[k] = u}
                        IN Cardinality(made) <= 1 /\ (made # {} => u \notin uploads)
      BY DEF UploadBoundOnce
    <2> DEFINE made == {k \in Key : from[k] = u}
    <2>1. Typed /\ Bound
      BY Types DEF IInv
    <2>2. CASE made = {}
      BY <2>2, FS_EmptySet
    <2>3. CASE made # {}
      <3>1. PICK k \in Key : from[k] = u
        BY <2>3
      <3>2. made = {k} /\ u \notin uploads
        BY <2>1, <3>1 DEF Typed, Bound, Waiting
      <3>3. Cardinality({k}) = 1
        BY FS_Singleton
      <3> QED
        BY <3>2, <3>3
    <2> QED
      BY <2>2, <2>3
  <1> QED
    BY <1>1, Invariance, PTL

(* A migration whose cancellation was confirmed while it ran does not become *)
(* the active Provider (CancelMigration, and the second look at the row in   *)
(* the switch of runMigration).                                              *)
THEOREM CancelHolds == Spec => []ConfirmedCancelHolds
  <1>1. IInv => ConfirmedCancelHolds
    BY DEF IInv, RowsOfMigrations, ConfirmedCancelHolds
  <1> QED
    BY <1>1, Invariance, PTL


HIDE FileStoreAssumption

(***************************************************************************)
(* Restore: names, types, and what each operation on files leaves.         *)
(***************************************************************************)

(* What the names of files say. *)
LEMMA NamesAreDistinct ==
  /\ \A d, e \in Dest : (Live(d) = Live(e) \/ Backup(d) = Backup(e) \/ Staged(d) = Staged(e)) => d = e
  /\ \A d, e \in Dest : Live(d) # Backup(e) /\ Live(d) # Staged(e) /\ Backup(d) # Staged(e)
  /\ \A d \in Dest : {Live(d), Backup(d), Staged(d)} \cap Meta = {}
  /\ Journal # Marker /\ Journal # MarkerTemporary /\ Marker # MarkerTemporary
BY RestoreAssumption DEF Live, Backup, Staged, Dest, Meta, Journal, Marker, MarkerTemporary

LEMMA NamesHaveADirectory ==
  /\ \A d \in Dest : /\ Home(d) \in Directory
                     /\ {Live(d), Backup(d), Staged(d)} \subseteq NamesOf(Home(d))
                     /\ {Live(d), Backup(d), Staged(d)} \subseteq Name
  /\ {Journal, Marker, MarkerTemporary} \subseteq NamesOf("managed")
  /\ Meta = {Journal, Marker, MarkerTemporary} /\ Meta \subseteq Name
  /\ \A dir \in Directory : NamesOf(dir) \subseteq Name
  /\ \A n \in Name : IF n \in NamesOf("objects") THEN n \notin NamesOf("managed") ELSE n \in NamesOf("managed")
  /\ "managed" \in Directory /\ "objects" \in Directory
<1>1. \A d \in Dest : {Live(d), Backup(d), Staged(d)} \subseteq Name
  BY DEF Name, Live, Backup, Staged
<1>2. \A d \in Dest : {Live(d), Backup(d), Staged(d)} \subseteq NamesOf(Home(d))
  <2> SUFFICES ASSUME NEW d \in Dest PROVE {Live(d), Backup(d), Staged(d)} \subseteq NamesOf(Home(d))
    OBVIOUS
  <2>1. CASE d \in Object
    BY <2>1 DEF NamesOf, Home, Live, Backup, Staged
  <2>2. CASE d \notin Object
    BY <2>2, <1>1 DEF NamesOf, Home, Live, Backup, Staged
  <2> QED BY <2>1, <2>2
<1>3. Meta \cap (Object \X {"live", "backup", "staged"}) = {}
  BY RestoreAssumption DEF Meta
<1>4. Object \X {"live", "backup", "staged"} \subseteq Name
  BY DEF Name, Dest
<1>5. Meta = {Journal, Marker, MarkerTemporary} /\ Meta \subseteq Name
  BY DEF Meta, Name, Journal, Marker, MarkerTemporary
<1> QED BY <1>1, <1>2, <1>3, <1>4, <1>5 DEF NamesOf, Directory, Home

FilesTyped ==
  /\ seen \in [Name -> Content]
  /\ \A dir \in Directory : /\ Part(seen, dir) \in disk[dir]
                            /\ disk[dir] \subseteq [NamesOf(dir) -> Content]

JournalType == [id: 1..(MaxActivations + 1), log: SUBSET Intent,
                target: UNION {[S -> Content] : S \in SUBSET Dest}]

HistoryTyped ==
  /\ old \in [Dest -> Content] /\ new \in [Dest -> Content]
  /\ committed \in BOOLEAN
  /\ result \in {"none", "restored", "failed", "broken", "refused"}
  /\ failures \in 0..MaxFailures

(* What ended processes have left unsynced.                                *)
StaleTyped ==
  /\ \A dir \in Directory : stale[dir] \subseteq [NamesOf(dir) -> Content]
  /\ lost \in BOOLEAN

(* The types of everything else.                                           *)
SwapTyped == FilesTyped /\ journal \in JournalType /\ proc \in Process /\ HistoryTyped

LEMMA TypeParts ==
  RestoreTypeOK <=> /\ FilesTyped /\ journal \in JournalType /\ proc \in Process /\ HistoryTyped
                    /\ SwapTyped /\ StaleTyped
BY DEF RestoreTypeOK, FilesTyped, JournalType, HistoryTyped, SwapTyped, StaleTyped

LEMMA TypePartsPrime ==
  SwapTyped' <=> FilesTyped' /\ (journal \in JournalType)' /\ (proc \in Process)' /\ HistoryTyped'
BY DEF SwapTyped

LEMMA PartIsTyped ==
  ASSUME NEW f \in [Name -> Content], NEW dir \in Directory
  PROVE  Part(f, dir) \in [NamesOf(dir) -> Content]
BY NamesHaveADirectory DEF Part

(* The directories after an operation. *)
LEMMA PutParts ==
  ASSUME NEW f \in [Name -> Content], Put(f), FilesTyped
  PROVE  /\ FilesTyped' /\ seen' = f
         /\ \A dir \in Directory :
              /\ disk[dir] \subseteq disk'[dir] /\ Part(f, dir) \in disk'[dir]
              /\ \A g \in disk'[dir] : g \in disk[dir] \/ (\A n \in NamesOf(dir) : g[n] = f[n])
<1>1. seen' = f /\ \A dir \in Directory : disk'[dir] = disk[dir] \cup {Part(f, dir)}
  BY DEF Put
<1>2. \A dir \in Directory : Part(f, dir) \in [NamesOf(dir) -> Content]
  BY PartIsTyped
<1>3. FilesTyped'
  BY <1>1, <1>2 DEF FilesTyped
<1>4. \A dir \in Directory : \A n \in NamesOf(dir) : Part(f, dir)[n] = f[n]
  BY DEF Part
<1> QED BY <1>1, <1>3, <1>4

LEMMA SeenIsOnDisk ==
  ASSUME FilesTyped, NEW dir \in Directory
  PROVE  /\ Part(seen, dir) \in disk[dir]
         /\ \A n \in NamesOf(dir) : Part(seen, dir)[n] = seen[n]
BY DEF FilesTyped, Part

LEMMA SyncedParts ==
  ASSUME FilesTyped, NEW S \in SUBSET Directory, disk' = Synced(seen, S), seen' = seen
  PROVE  /\ FilesTyped'
         /\ \A dir \in Directory :
              /\ disk'[dir] \subseteq disk[dir]
              /\ dir \in S => \A g \in disk'[dir] : \A n \in NamesOf(dir) : g[n] = seen[n]
              /\ dir \notin S => disk'[dir] = disk[dir]
<1>1. \A dir \in Directory : disk'[dir] = IF dir \in S THEN {Part(seen, dir)} ELSE disk[dir]
  BY DEF Synced
<1>2. FilesTyped'
  BY <1>1 DEF FilesTyped
<1>3. \A dir \in Directory : disk'[dir] \subseteq disk[dir]
  BY <1>1 DEF FilesTyped
<1>4. \A dir \in Directory : \A n \in NamesOf(dir) : Part(seen, dir)[n] = seen[n]
  BY DEF Part
<1> QED BY <1>1, <1>2, <1>3, <1>4

LEMMA LossParts ==
  ASSUME NEW d, \A dir \in Directory : d[dir] \subseteq [NamesOf(dir) -> Content],
         seen' \in OutcomesOf(d), PowerGone
  PROVE  /\ FilesTyped'
         /\ \A dir \in Directory :
              /\ disk'[dir] \subseteq d[dir]
              /\ \A g \in disk'[dir] : \A n \in NamesOf(dir) : g[n] = seen'[n]
<1>1. PICK o \in d["objects"], m \in d["managed"] :
         seen' = [n \in Name |-> IF n \in NamesOf("objects") THEN o[n] ELSE m[n]]
  BY DEF OutcomesOf
<1>2. o \in [NamesOf("objects") -> Content] /\ m \in [NamesOf("managed") -> Content]
  BY NamesHaveADirectory
<1>3. seen' \in [Name -> Content]
  BY <1>1, <1>2, NamesHaveADirectory
<1>4. Part(seen', "objects") = o /\ Part(seen', "managed") = m
  <2>1. \A n \in NamesOf("objects") : seen'[n] = o[n]
    BY <1>1, NamesHaveADirectory
  <2>2. \A n \in NamesOf("managed") : seen'[n] = m[n]
    BY <1>1, NamesHaveADirectory
  <2> QED BY <2>1, <2>2, <1>2 DEF Part
<1>5. \A dir \in Directory : disk'[dir] = {Part(seen', dir)} /\ Part(seen', dir) \in d[dir]
  BY <1>4 DEF PowerGone, Directory
<1>6. \A dir \in Directory : \A n \in NamesOf(dir) : Part(seen', dir)[n] = seen'[n]
  BY DEF Part
<1>7. FilesTyped'
  BY <1>3, <1>5, PartIsTyped DEF FilesTyped
<1> QED BY <1>5, <1>6, <1>7

LEMMA FirstIsIn ==
  ASSUME NEW S \in SUBSET Dest, S # {}
  PROVE  First(S) \in S
<1>1. \E d \in S : \/ d = "database"
                   \/ "database" \notin S /\ d \in Sidecar
                   \/ S \cap ({"database"} \cup Sidecar) = {} /\ d = "key"
                   \/ S \subseteq Object
  BY DEF Dest
<1> QED BY <1>1 DEF First

LEMMA GotoFields ==
  ASSUME proc \in Process, NEW at \in Point, NEW left \in SUBSET Dest, Goto(at, left)
  PROVE  /\ proc' \in Process
         /\ proc'.at = at /\ proc'.left = left /\ proc'.sync = proc.sync
         /\ proc'.force = proc.force /\ proc'.bad = proc.bad /\ proc'.then = proc.then
BY DEF Goto, Process

LEMMA GotoSyncedFields ==
  ASSUME proc \in Process, NEW at \in Point, NEW left \in SUBSET Dest,
         NEW dir \in Directory, GotoSynced(at, left, dir)
  PROVE  /\ proc' \in Process
         /\ proc'.at = at /\ proc'.left = left /\ proc'.sync = dir
         /\ proc'.force = proc.force /\ proc'.bad = proc.bad /\ proc'.then = proc.then
BY DEF GotoSynced, Process

LEMMA NoProcessFields ==
  /\ NoProcess \in Process
  /\ NoProcess.at = "idle" /\ NoProcess.left = {} /\ NoProcess.sync = "none"
  /\ NoProcess.then = "failed"
BY DEF NoProcess, Process, Point

LEMMA IntentFields ==
  ASSUME journal \in JournalType, NEW op \in {"stage", "backup", "absent", "activate"},
         NEW d \in Dest, WriteIntent(op, d)
  PROVE  /\ journal' \in JournalType
         /\ journal'.id = journal.id /\ journal'.target = journal.target
         /\ Plan' = Plan /\ Replaced' = Replaced
         /\ Written(op)' = Written(op) \cup {d}
         /\ \A o \in {"stage", "backup", "absent", "activate"} \ {op} : Written(o)' = Written(o)
<1>1. /\ journal' \in JournalType
      /\ journal'.id = journal.id /\ journal'.target = journal.target
      /\ journal'.log = journal.log \cup {[op |-> op, dest |-> d]}
  BY DEF WriteIntent, JournalType, Intent
<1>2. \A o, e : [op |-> o, dest |-> e] = [op |-> op, dest |-> d] <=> o = op /\ e = d
  OBVIOUS
<1> QED BY <1>1, <1>2 DEF Written, Plan, Replaced

LEMMA WrittenTypes ==
  /\ \A op : Written(op) \in SUBSET Dest
  /\ Mentioned \in SUBSET Dest
  /\ journal \in JournalType => /\ Plan \in SUBSET Dest /\ Replaced \in SUBSET Plan
                                /\ journal.target \in [Plan -> Content]
                                /\ journal.id \in Content /\ journal.id # 0
BY RestoreAssumption DEF Written, Mentioned, JournalType, Plan, Replaced, Content

LEMMA UnlinkIs ==
  ASSUME FilesTyped, NEW n \in Name, Unlink(n)
  PROVE  /\ Put([seen EXCEPT ![n] = 0])
         /\ [seen EXCEPT ![n] = 0] \in [Name -> Content]
         /\ seen' = [seen EXCEPT ![n] = 0] /\ FilesTyped'
<1>1. 0 \in Content
  BY RestoreAssumption DEF Content
<1>2. Put([seen EXCEPT ![n] = 0]) /\ [seen EXCEPT ![n] = 0] \in [Name -> Content]
  BY <1>1 DEF Unlink, FilesTyped
<1> QED BY <1>2, PutParts

LEMMA RenameIs ==
  ASSUME FilesTyped, NEW a \in Name, NEW b \in Name, Rename(a, b)
  PROVE  /\ Put([seen EXCEPT ![b] = seen[a], ![a] = 0])
         /\ [seen EXCEPT ![b] = seen[a], ![a] = 0] \in [Name -> Content]
         /\ seen' = [seen EXCEPT ![b] = seen[a], ![a] = 0] /\ FilesTyped'
<1>1. 0 \in Content
  BY RestoreAssumption DEF Content
<1>2. /\ Put([seen EXCEPT ![b] = seen[a], ![a] = 0])
      /\ [seen EXCEPT ![b] = seen[a], ![a] = 0] \in [Name -> Content]
  BY <1>1 DEF Rename, FilesTyped
<1> QED BY <1>2, PutParts

LEMMA FilesUnchanged ==
  ASSUME FilesTyped, UNCHANGED <<seen, disk>>
  PROVE  FilesTyped'
BY DEF FilesTyped, Part

LEMMA AbandonIs ==
  ASSUME FilesTyped, seen' = seen, Abandon
  PROVE  /\ FilesTyped'
         /\ \A dir \in Directory :
              /\ disk'[dir] \subseteq disk[dir]
              /\ \A g \in disk'[dir] : \A n \in NamesOf(dir) : g[n] = seen[n]
<1>1. disk' = Synced(seen, Directory)
  BY DEF Abandon
<1> QED BY <1>1, SyncedParts

(***************************************************************************)
(* The types of Restore.                                                   *)
(***************************************************************************)

LEMMA TypeInit == RestoreInit => RestoreTypeOK
<1> SUFFICES ASSUME RestoreInit PROVE RestoreTypeOK
  OBVIOUS
<1>1. 0 \in Content /\ 1 \in Content
  BY RestoreAssumption DEF Content
<1>2. seen \in [Name -> Content]
  BY <1>1 DEF RestoreInit
<1>3. FilesTyped
  BY <1>2, PartIsTyped DEF RestoreInit, FilesTyped
<1>4. journal \in JournalType
  <2>1. NoTargets \in [{} -> Content]
    BY DEF NoTargets
  <2>2. 1 \in 1..(MaxActivations + 1)
    BY RestoreAssumption
  <2> QED BY <2>1, <2>2 DEF RestoreInit, NoJournal, JournalType
<1>5. Project \in [Dest -> Content]
  BY <1>2, NamesHaveADirectory DEF Project, ProjectIn
<1>7. StaleTyped
  BY DEF RestoreInit, StaleTyped
<1>6. HistoryTyped
  <2>1. /\ old = Project /\ new = Project /\ committed = FALSE /\ result = "none" /\ failures = 0
    BY DEF RestoreInit
  <2>2. 0 \in 0..MaxFailures
    BY RestoreAssumption
  <2> QED BY <1>5, <2>1, <2>2 DEF HistoryTyped
<1> QED BY <1>3, <1>4, <1>6, <1>7, NoProcessFields, TypeParts DEF RestoreInit, SwapTyped

(* Where the steps find the destination they work on. *)
Aimed ==
  /\ proc.at \in {"copyFile", "preserveMove", "activateMove", "undoMove", "undoStaged"}
       => proc.left # {}
  /\ proc.at \in {"copy", "copyFile"} => proc.left \subseteq Replaced

(* Actions that leave the files and the journal alone. *)
LEMMA ProcessTypes ==
  ASSUME RestoreTypeOK, Aimed, UNCHANGED <<seen, disk, journal>>,
         StartRuntime \/ Stop \/ Inspect \/ End \/ Check \/ Commit \/ \E force \in BOOLEAN : StartApply(force)
  PROVE  SwapTyped' /\ Aimed'
<1> USE TypeParts, TypePartsPrime
<1> DEFINE apart == proc'.at \notin {"copy", "copyFile", "preserveMove", "activateMove", "undoMove",
                                    "undoStaged"}
<1>1. FilesTyped' /\ (journal \in JournalType)'
  BY FilesUnchanged
<1>2. (proc \in Process)' /\ apart
  <2>1. proc \in Process /\ NoProcess \in Process /\ NoProcess.at = "idle"
    BY NoProcessFields
  <2>2. CASE StartRuntime
    BY <2>1, <2>2 DEF StartRuntime, Process, Point
  <2>3. CASE \E force \in BOOLEAN : StartApply(force)
    BY <2>1, <2>3 DEF StartApply, Process, Point
  <2>4. CASE Stop \/ End
    <3>1. \A at \in {"check", "open"} : at \in Point
      BY DEF Point
    <3> QED BY <2>1, <2>4, <3>1, GotoFields DEF Stop, End
  <2>5. CASE Inspect
    <3>1. \A at \in {"orphan", "finish", "undo"} : at \in Point
      BY DEF Point
    <3> QED BY <2>1, <2>5, <3>1, GotoFields, WrittenTypes DEF Inspect
  <2>6. CASE Check
    <3>1. "begin" \in Point
      BY DEF Point
    <3> QED BY <2>1, <2>6, <3>1, GotoFields DEF Check, RefuseBundle
  <2>7. CASE Commit
    BY <2>1, <2>7, WrittenTypes DEF Commit, Process, Point
  <2> QED BY <2>2, <2>3, <2>4, <2>5, <2>6, <2>7
<1>3. HistoryTyped'
  <2>1. HistoryTyped /\ proc.then \in {"check", "failed", "restored", "open"}
    BY DEF Process
  <2>2. CASE End
    BY <2>1, <2>2 DEF End, Outcome, HistoryTyped, historyVars
  <2>3. CASE Check
    BY <2>1, <2>3 DEF Check, RefuseBundle, HistoryTyped, historyVars
  <2>4. CASE StartRuntime \/ Stop \/ Inspect \/ Commit \/ \E force \in BOOLEAN : StartApply(force)
    BY <2>1, <2>4 DEF StartRuntime, Stop, Inspect, Commit, StartApply, HistoryTyped, historyVars
  <2> QED BY <2>2, <2>3, <2>4
<1>4. Aimed'
  BY <1>2 DEF Aimed
<1> QED BY <1>1, <1>2, <1>3, <1>4

LEMMA SyncTypes == ASSUME RestoreTypeOK, Aimed, SyncDirectory PROVE SwapTyped' /\ Aimed'
<1> USE TypeParts, TypePartsPrime
<1>1. proc \in Process /\ proc.sync \in Directory
  BY DEF SyncDirectory, Process
<1>2. FilesTyped'
  BY <1>1, SyncedParts DEF SyncDirectory
<1>3. (proc \in Process)' /\ proc'.at = proc.at /\ proc'.left = proc.left
  BY <1>1 DEF SyncDirectory, Process
<1>4. HistoryTyped' /\ (journal \in JournalType)'
  BY DEF SyncDirectory, HistoryTyped
<1>5. Replaced' = Replaced
  BY DEF SyncDirectory, Replaced, Plan
<1>6. Aimed'
  BY <1>3, <1>5 DEF Aimed
<1> QED BY <1>2, <1>3, <1>4, <1>6

LEMMA NextVersion ==
  ASSUME MaxActivations \in Nat, NEW n \in 1..(MaxActivations + 1), n <= MaxActivations
  PROVE  n + 1 \in 1..(MaxActivations + 1) /\ n + 1 \in Content /\ 0 \in Content
BY DEF Content

LEMMA BeginTypes == ASSUME RestoreTypeOK, Begin PROVE SwapTyped' /\ Aimed'
<1> USE TypeParts, TypePartsPrime
<1> DEFINE target(bundle) == Targets(bundle.objects, bundle.keyed, journal.id + 1)
<1>0. PICK bundle \in Bundle :
         /\ journal' = [id |-> journal.id + 1, target |-> target(bundle), log |-> {}]
         /\ Put([seen EXCEPT ![Journal] = journal.id + 1])
         /\ old' = Project
         /\ new' = [d \in Dest |-> IF d \in DOMAIN target(bundle) THEN target(bundle)[d] ELSE Project[d]]
  BY DEF Begin
<1>1. journal'.target = Targets(bundle.objects, bundle.keyed, journal.id + 1)
  BY <1>0
<1> HIDE DEF target
<1>2. journal.id + 1 \in 1..(MaxActivations + 1) /\ journal.id + 1 \in Content /\ 0 \in Content
  <2>1. journal.id \in 1..(MaxActivations + 1)
    BY DEF JournalType
  <2>2. journal.id <= MaxActivations
    BY DEF Begin
  <2>3. MaxActivations \in Nat
    BY RestoreAssumption
  <2> QED BY <2>1, <2>2, <2>3, NextVersion
<1>3. journal'.target \in [DOMAIN journal'.target -> Content] /\ DOMAIN journal'.target \in SUBSET Dest
  <2>1. bundle.objects \in SUBSET Object
    BY DEF Bundle
  <2> QED BY <1>1, <1>2, <2>1 DEF Targets, Dest
<1>4. (journal \in JournalType)'
  BY <1>0, <1>1, <1>2, <1>3 DEF JournalType
<1>5. FilesTyped'
  <2>1. [seen EXCEPT ![Journal] = journal.id + 1] \in [Name -> Content]
    BY <1>2 DEF FilesTyped
  <2> QED BY <1>0, <2>1, PutParts
<1>6. Project \in [Dest -> Content]
  BY NamesHaveADirectory DEF Project, ProjectIn, FilesTyped
<1>7. old' \in [Dest -> Content] /\ new' \in [Dest -> Content]
  BY <1>0, <1>1, <1>3, <1>6 DEF target
<1>8. HistoryTyped'
  BY <1>7 DEF HistoryTyped, Begin
<1>9. (proc \in Process)' /\ proc'.at = "copy" /\ proc'.left = Replaced'
  <2>1. {d \in DOMAIN journal'.target : journal'.target[d] # 0} \in SUBSET Dest
    BY <1>3
  <2>2. "copy" \in Point /\ "managed" \in Directory
    BY DEF Point, Directory
  <2> QED BY <2>1, <2>2, GotoSyncedFields DEF Begin, Replaced, Plan
<1>10. Aimed'
  BY <1>9 DEF Aimed
<1> QED BY <1>4, <1>5, <1>8, <1>9, <1>10

(* The steps of the activation. *)
LEMMA ActivationTypes ==
  ASSUME RestoreTypeOK, Aimed,
         Copy \/ CopyFile \/ Preserve \/ PreserveMove \/ Activate \/ ActivateMove \/ Seal \/ SealRename
  PROVE  SwapTyped' /\ Aimed'
<1> USE TypeParts, TypePartsPrime
<1> DEFINE d == First(proc.left)
<1>1. proc \in Process /\ proc.left \in SUBSET Dest /\ journal \in JournalType /\ FilesTyped
  BY DEF Process
<1>2. proc.left # {} => d \in Dest /\ d \in proc.left
  BY <1>1, FirstIsIn
<1>3. /\ proc.left \ {d} \in SUBSET Dest /\ proc.left \in SUBSET Dest /\ Plan \in SUBSET Dest
      /\ Replaced \in SUBSET Dest /\ Replaced \in SUBSET Plan /\ {} \in SUBSET Dest
  BY <1>1, WrittenTypes
<1>4. proc.left # {} => /\ Home(d) \in Directory
                        /\ {Live(d), Backup(d), Staged(d)} \subseteq Name
  BY <1>2, NamesHaveADirectory
<1>5. {"copy", "copyFile", "preserve", "preserveMove", "activate", "activateMove", "seal", "sealRename",
       "commit"} \subseteq Point
  BY DEF Point
<1>6. HistoryTyped'
  BY DEF Copy, CopyFile, Preserve, PreserveMove, Activate, ActivateMove, Seal, SealRename,
         HistoryTyped, historyVars
<1>7. journal' = journal => Replaced' = Replaced
  BY DEF Replaced, Plan
<1> HIDE DEF d
<1>8. CASE Copy
  <2>1. FilesTyped'
    BY <1>8, FilesUnchanged DEF Copy
  <2>2. CASE proc.left = {}
    <3>1. Goto("preserve", Plan) /\ journal' = journal
      BY <1>8, <2>2 DEF Copy
    <3>2. (proc \in Process)' /\ proc'.at = "preserve"
      BY <3>1, <1>1, <1>3, <1>5, GotoFields
    <3> QED BY <1>1, <1>6, <2>1, <3>1, <3>2 DEF Aimed
  <2>3. CASE proc.left # {}
    <3>1. Goto("copyFile", proc.left) /\ WriteIntent("stage", d)
      BY <1>8, <2>3 DEF Copy, d
    <3>2. (proc \in Process)' /\ proc'.at = "copyFile" /\ proc'.left = proc.left
      BY <3>1, <1>1, <1>3, <1>5, GotoFields
    <3>3. (journal \in JournalType)' /\ Replaced' = Replaced
      BY <3>1, <1>1, <1>2, <2>3, IntentFields
    <3>4. proc.left \subseteq Replaced
      BY <1>8 DEF Copy, Step, Aimed
    <3> QED BY <1>6, <2>1, <2>3, <3>2, <3>3, <3>4 DEF Aimed
  <2> QED BY <2>2, <2>3
<1>9. CASE Preserve
  <2>1. FilesTyped'
    BY <1>9, FilesUnchanged DEF Preserve
  <2>2. CASE proc.left = {}
    <3>1. Goto("activate", Replaced) /\ journal' = journal
      BY <1>9, <2>2 DEF Preserve
    <3>2. (proc \in Process)' /\ proc'.at = "activate"
      BY <3>1, <1>1, <1>3, <1>5, GotoFields
    <3> QED BY <1>1, <1>6, <2>1, <3>1, <3>2 DEF Aimed
  <2>3. CASE proc.left # {}
    <3>1. \/ WriteIntent("absent", d) /\ Goto("preserve", proc.left \ {d})
          \/ WriteIntent("backup", d) /\ Goto("preserveMove", proc.left)
      BY <1>9, <2>3 DEF Preserve, d
    <3>2. (proc \in Process)' /\ \/ proc'.at = "preserve"
                                 \/ proc'.at = "preserveMove" /\ proc'.left = proc.left
      BY <3>1, <1>1, <1>3, <1>5, GotoFields
    <3>3. (journal \in JournalType)'
      BY <3>1, <1>1, <1>2, <2>3, IntentFields
    <3> QED BY <1>6, <2>1, <2>3, <3>2, <3>3 DEF Aimed
  <2> QED BY <2>2, <2>3
<1>10. CASE Activate
  <2>1. FilesTyped'
    BY <1>10, FilesUnchanged DEF Activate
  <2>2. CASE proc.left = {}
    <3>1. Goto("seal", {}) /\ journal' = journal
      BY <1>10, <2>2 DEF Activate
    <3>2. (proc \in Process)' /\ proc'.at = "seal"
      BY <3>1, <1>1, <1>3, <1>5, GotoFields
    <3> QED BY <1>1, <1>6, <2>1, <3>1, <3>2 DEF Aimed
  <2>3. CASE proc.left # {}
    <3>1. Goto("activateMove", proc.left) /\ WriteIntent("activate", d)
      BY <1>10, <2>3 DEF Activate, d
    <3>2. (proc \in Process)' /\ proc'.at = "activateMove" /\ proc'.left = proc.left
      BY <3>1, <1>1, <1>3, <1>5, GotoFields
    <3>3. (journal \in JournalType)'
      BY <3>1, <1>1, <1>2, <2>3, IntentFields
    <3> QED BY <1>6, <2>1, <2>3, <3>2, <3>3 DEF Aimed
  <2> QED BY <2>2, <2>3
<1>11. CASE CopyFile
  <2>1. proc.left # {} /\ proc.left \subseteq Replaced /\ d \in Plan
    BY <1>11, <1>2, <1>3 DEF CopyFile, Step, Aimed
  <2>2. journal.target[d] \in Content
    BY <1>1, <2>1, WrittenTypes
  <2>3. Put([seen EXCEPT ![Staged(d)] = journal.target[d]]) /\ journal' = journal
    BY <1>11 DEF CopyFile, d
  <2>4. FilesTyped'
    <3>1. [seen EXCEPT ![Staged(d)] = journal.target[d]] \in [Name -> Content]
      BY <1>1, <2>2 DEF FilesTyped
    <3> QED BY <1>1, <2>3, <3>1, PutParts
  <2>5. Goto("copy", proc.left \ {d}) \/ GotoSynced("copy", proc.left \ {d}, Home(d))
    BY <1>11 DEF CopyFile, d
  <2>6. (proc \in Process)' /\ proc'.at = "copy" /\ proc'.left = proc.left \ {d}
    <3>1. "copy" \in Point /\ proc.left \ {d} \in SUBSET Dest /\ Home(d) \in Directory
      BY <1>3, <1>4, <1>5, <2>1
    <3> QED BY <2>5, <1>1, <3>1, GotoFields, GotoSyncedFields
  <2> QED BY <1>1, <1>6, <1>7, <2>1, <2>3, <2>4, <2>6 DEF Aimed
<1>12. CASE PreserveMove
  <2>1. proc.left # {} /\ journal' = journal
    BY <1>12 DEF PreserveMove, Step, Aimed
  <2>2. Rename(Live(d), Backup(d)) /\ GotoSynced("preserve", proc.left \ {d}, Home(d))
    BY <1>12 DEF PreserveMove, d
  <2>3. FilesTyped'
    BY <2>1, <2>2, <1>1, <1>4, RenameIs
  <2>4. (proc \in Process)' /\ proc'.at = "preserve"
    BY <2>1, <2>2, <1>1, <1>3, <1>4, <1>5, GotoSyncedFields
  <2> QED BY <1>1, <1>6, <2>1, <2>3, <2>4 DEF Aimed
<1>13. CASE ActivateMove
  <2>1. proc.left # {} /\ journal' = journal
    BY <1>13 DEF ActivateMove, Step, Aimed
  <2>2. Rename(Staged(d), Live(d)) /\ GotoSynced("activate", proc.left \ {d}, Home(d))
    BY <1>13 DEF ActivateMove, d
  <2>3. FilesTyped'
    BY <2>1, <2>2, <1>1, <1>4, RenameIs
  <2>4. (proc \in Process)' /\ proc'.at = "activate"
    BY <2>1, <2>2, <1>1, <1>3, <1>4, <1>5, GotoSyncedFields
  <2> QED BY <1>1, <1>6, <2>1, <2>3, <2>4 DEF Aimed
<1>14. CASE Seal
  <2>1. [seen EXCEPT ![MarkerTemporary] = journal.id] \in [Name -> Content]
    BY <1>1, WrittenTypes DEF FilesTyped
  <2>2. FilesTyped' /\ journal' = journal
    BY <1>14, <1>1, <2>1, PutParts DEF Seal
  <2>3. (proc \in Process)' /\ proc'.at = "sealRename"
    BY <1>14, <1>1, <1>3, <1>5, GotoFields DEF Seal
  <2> QED BY <1>1, <1>6, <2>2, <2>3 DEF Aimed
<1>15. CASE SealRename
  <2>1. FilesTyped' /\ journal' = journal
    BY <1>15, <1>1, NamesHaveADirectory, RenameIs DEF SealRename
  <2>2. (proc \in Process)' /\ proc'.at = "commit"
    BY <1>15, <1>1, <1>3, <1>5, NamesHaveADirectory, GotoSyncedFields DEF SealRename
  <2> QED BY <1>1, <1>6, <2>1, <2>2 DEF Aimed
<1> QED BY <1>8, <1>9, <1>10, <1>11, <1>12, <1>13, <1>14, <1>15

(* The steps that only remove files. *)
LEMMA RemoveTypes ==
  ASSUME RestoreTypeOK, NEW n \in Name, NEW at \in {"finish", "finishStaged"}, proc.left # {},
         Remove(n, at)
  PROVE  FilesTyped' /\ (proc \in Process)' /\ proc'.at = at
<1> USE TypeParts
<1>1. proc \in Process /\ proc.left \in SUBSET Dest
  BY DEF Process
<1>2. First(proc.left) \in Dest
  BY <1>1, FirstIsIn
<1>3. at \in Point /\ proc.left \ {First(proc.left)} \in SUBSET Dest /\ Home(First(proc.left)) \in Directory
  BY <1>1, <1>2, NamesHaveADirectory DEF Point
<1>4. CASE seen[n] = 0
  BY <1>1, <1>3, <1>4, FilesUnchanged, GotoFields DEF Remove
<1>5. CASE seen[n] # 0
  BY <1>1, <1>3, <1>5, UnlinkIs, GotoSyncedFields DEF Remove
<1> QED BY <1>4, <1>5

LEMMA CleanUpTypes ==
  ASSUME RestoreTypeOK, Aimed,
         Finish \/ FinishStaged \/ FinishJournal \/ Orphan \/ OrphanMarker
         \/ Discard \/ DiscardMarker \/ DiscardJournal
  PROVE  SwapTyped' /\ Aimed'
<1> USE TypeParts, TypePartsPrime
<1> DEFINE apart == proc'.at \notin {"copy", "copyFile", "preserveMove", "activateMove", "undoMove",
                                    "undoStaged"}
<1>1. proc \in Process /\ proc.left \in SUBSET Dest /\ journal \in JournalType /\ FilesTyped
  BY DEF Process
<1>2. HistoryTyped' /\ (journal \in JournalType)'
  BY DEF Finish, FinishStaged, FinishJournal, Orphan, OrphanMarker, Discard, DiscardMarker,
         DiscardJournal, HistoryTyped, historyVars
<1>3. {"finish", "finishStaged", "finishJournal", "orphan", "orphanMarker", "end", "discardMarker",
       "discardJournal"} \subseteq Point
  BY DEF Point
<1>4. {} \in SUBSET Dest /\ Written("stage") \in SUBSET Dest
  BY WrittenTypes
<1>5. proc.left # {} => {Backup(First(proc.left)), Staged(First(proc.left))} \subseteq Name
  BY <1>1, FirstIsIn, NamesHaveADirectory
<1>6. {Journal, Marker, MarkerTemporary} \subseteq Name /\ "managed" \in Directory
  BY NamesHaveADirectory
<1>7. FilesTyped' /\ (proc \in Process)' /\ apart
  <2>1. CASE Finish
    BY <2>1, <1>1, <1>3, <1>4, <1>5, RemoveTypes, FilesUnchanged, GotoFields DEF Finish
  <2>2. CASE FinishStaged
    BY <2>2, <1>1, <1>3, <1>4, <1>5, RemoveTypes, FilesUnchanged, GotoFields DEF FinishStaged
  <2>3. CASE FinishJournal
    BY <2>3, <1>1, <1>3, <1>4, <1>6, UnlinkIs, GotoSyncedFields DEF FinishJournal
  <2>4. CASE Orphan
    <3>1. FilesTyped'
      BY <2>4, <1>1, <1>6, UnlinkIs DEF Orphan
    <3> QED BY <2>4, <1>1, <1>3, <3>1 DEF Orphan, Process
  <2>5. CASE OrphanMarker
    <3>1. FilesTyped'
      BY <2>5, <1>1, <1>6, UnlinkIs DEF OrphanMarker
    <3> QED BY <2>5, <1>1, <1>3, <1>6, <3>1 DEF OrphanMarker, Process
  <2>6. CASE Discard
    BY <2>6, <1>1, <1>3, <1>4, <1>6, UnlinkIs, GotoFields DEF Discard
  <2>7. CASE DiscardMarker
    BY <2>7, <1>1, <1>3, <1>4, <1>6, UnlinkIs, GotoSyncedFields DEF DiscardMarker
  <2>8. CASE DiscardJournal
    BY <2>8, <1>1, <1>3, <1>4, <1>6, UnlinkIs, GotoSyncedFields DEF DiscardJournal
  <2> QED BY <2>1, <2>2, <2>3, <2>4, <2>5, <2>6, <2>7, <2>8
<1>8. Aimed'
  BY <1>7 DEF Aimed
<1> QED BY <1>2, <1>7, <1>8

(* The steps of a rollback. *)
LEMMA NextUndoIsIn ==
  ASSUME proc \in Process, proc.left # {}
  PROVE  /\ NextUndo \in proc.left /\ NextUndo \in Dest /\ Home(NextUndo) \in Directory
         /\ {Live(NextUndo), Backup(NextUndo), Staged(NextUndo)} \subseteq Name
<1>1. proc.left \in SUBSET Dest
  BY DEF Process
<1>2. NextUndo \in proc.left
  BY <1>1, FirstIsIn DEF NextUndo
<1> QED BY <1>1, <1>2, NamesHaveADirectory

LEMMA UndoTypes ==
  ASSUME RestoreTypeOK, Aimed, Undo \/ UndoMove \/ UndoStaged \/ UndoDone
  PROVE  SwapTyped' /\ Aimed'
<1> USE TypeParts, TypePartsPrime
<1> DEFINE d == NextUndo
<1>1. proc \in Process /\ proc.left \in SUBSET Dest /\ journal \in JournalType /\ FilesTyped
  BY DEF Process
<1>2. {"undo", "undoMove", "undoStaged", "discard"} \subseteq Point
  BY DEF Point
<1>3. proc.left # {} => /\ d \in Dest /\ Home(d) \in Directory
                        /\ {Live(d), Backup(d), Staged(d)} \subseteq Name
  BY <1>1, NextUndoIsIn
<1>4. (journal \in JournalType)'
  BY DEF Undo, UndoMove, UndoStaged, UndoDone
<1>5. HistoryTyped'
  BY DEF Undo, UndoMove, UndoStaged, UndoDone, HistoryTyped, historyVars
<1>6. proc.left \ {d} \in SUBSET Dest /\ {} \in SUBSET Dest
  BY <1>1
<1> HIDE DEF d
<1>7. CASE Undo
  <2>1. proc.left # {}
    BY <1>7 DEF Undo
  <2>2. PICK next \in {"undoMove", "undoStaged"} :
           \/ Unlink(Live(d)) /\ GotoSynced(next, proc.left, Home(d))
           \/ UNCHANGED <<seen, disk>> /\ Goto(next, proc.left)
    BY <1>7 DEF Undo, d
  <2>3. FilesTyped'
    BY <1>1, <1>3, <2>1, <2>2, UnlinkIs, FilesUnchanged
  <2>4. next \in Point
    BY <1>2
  <2>5. (proc \in Process)' /\ proc'.left # {} /\ proc'.at \in {"undoMove", "undoStaged"}
    BY <1>1, <1>3, <2>1, <2>2, <2>4, GotoFields, GotoSyncedFields
  <2>6. Aimed'
    BY <2>5 DEF Aimed
  <2> QED BY <1>4, <1>5, <2>3, <2>5, <2>6
<1>8. CASE UndoMove
  <2>1. proc.left # {} /\ Rename(Backup(d), Live(d)) /\ GotoSynced("undoStaged", proc.left, Home(d))
    BY <1>8 DEF UndoMove, Step, Aimed, d
  <2>2. FilesTyped'
    BY <1>1, <1>3, <2>1, RenameIs
  <2>3. (proc \in Process)' /\ proc'.left # {} /\ proc'.at = "undoStaged"
    BY <1>1, <1>2, <1>3, <2>1, GotoSyncedFields
  <2>4. Aimed'
    BY <2>3 DEF Aimed
  <2> QED BY <1>4, <1>5, <2>2, <2>3, <2>4
<1>9. CASE UndoStaged
  <2>1. /\ proc.left # {}
        /\ \/ Unlink(Staged(d)) /\ GotoSynced("undo", proc.left \ {d}, Home(d))
           \/ UNCHANGED <<seen, disk>> /\ Goto("undo", proc.left \ {d})
    BY <1>9 DEF UndoStaged, Step, Aimed, d
  <2>2. FilesTyped'
    BY <1>1, <1>3, <2>1, UnlinkIs, FilesUnchanged
  <2>3. (proc \in Process)' /\ proc'.at = "undo"
    BY <1>1, <1>2, <1>3, <1>6, <2>1, GotoFields, GotoSyncedFields
  <2>4. Aimed'
    BY <2>3 DEF Aimed
  <2> QED BY <1>4, <1>5, <2>2, <2>3, <2>4
<1>10. CASE UndoDone
  <2>1. FilesTyped'
    BY <1>1, <1>10, FilesUnchanged, AbandonIs DEF UndoDone
  <2>2. (proc \in Process)' /\ proc'.at \in {"idle", "discard"}
    BY <1>1, <1>2, <1>6, <1>10, GotoFields, NoProcessFields DEF UndoDone
  <2>3. Aimed'
    BY <2>2 DEF Aimed
  <2> QED BY <1>4, <1>5, <2>1, <2>2, <2>3
<1> QED BY <1>7, <1>8, <1>9, <1>10

LEMMA FailureTypes ==
  ASSUME RestoreTypeOK, Aimed,
         ActivationFails \/ RecoveryFails \/ UndoFails \/ Kill \/ PowerLoss \/ StalePowerLoss
  PROVE  SwapTyped' /\ Aimed'
<1> USE TypeParts, TypePartsPrime
<1>1. proc \in Process /\ proc.left \in SUBSET Dest /\ journal \in JournalType /\ FilesTyped
  BY DEF Process
<1>2. NoProcess \in Process /\ NoProcess.at = "idle"
  BY NoProcessFields
<1>3. (journal \in JournalType)'
  BY DEF ActivationFails, RecoveryFails, UndoFails, Kill, PowerLoss, StalePowerLoss, PowerGone
<1>4. FilesTyped'
  <2>1. CASE PowerLoss
    BY <1>1, <2>1, LossParts DEF PowerLoss, Outcomes, FilesTyped
  <2>2. CASE StalePowerLoss
    <3> DEFINE d == [dir \in Directory |-> disk[dir] \cup stale[dir]]
    <3>1. \A dir \in Directory : d[dir] \subseteq [NamesOf(dir) -> Content]
      BY <1>1 DEF FilesTyped, StaleTyped
    <3>2. seen' \in OutcomesOf(d) /\ PowerGone
      BY <2>2 DEF StalePowerLoss, StaleOutcomes
    <3> HIDE DEF d
    <3> QED BY <3>1, <3>2, LossParts
  <2> QED BY <1>1, <2>1, <2>2, FilesUnchanged, AbandonIs
          DEF ActivationFails, RecoveryFails, UndoFails, Kill
<1>5. HistoryTyped'
  <2>1. failures' \in 0..MaxFailures
    <3>1. failures \in 0..MaxFailures /\ MaxFailures \in Nat
      BY RestoreAssumption DEF HistoryTyped
    <3>2. failures < MaxFailures /\ failures' = failures + 1
      BY DEF ActivationFails, RecoveryFails, UndoFails, Kill, PowerLoss, StalePowerLoss, PowerGone, Fails
    <3> HIDE DEF HistoryTyped
    <3> QED BY ONLY <3>1, <3>2
  <2>2. old' = old /\ new' = new /\ committed' = committed
    BY DEF ActivationFails, RecoveryFails, UndoFails, Kill, PowerLoss, StalePowerLoss, PowerGone, historyVars
  <2>3. result' \in {"none", "restored", "failed", "broken", "refused"}
    <3>1. Outcome \in {"none", "restored", "failed", "broken", "refused"}
      BY <1>1 DEF Outcome, Process, HistoryTyped
    <3> QED BY <3>1 DEF HistoryTyped, ActivationFails, RecoveryFails, UndoFails, Kill, PowerLoss, StalePowerLoss, PowerGone
  <2> QED BY <2>1, <2>2, <2>3 DEF HistoryTyped
<1>6. (proc \in Process)' /\ Aimed'
  <2>1. CASE RecoveryFails \/ Kill \/ PowerLoss \/ StalePowerLoss
    BY <2>1, <1>2 DEF RecoveryFails, Kill, PowerLoss, StalePowerLoss, PowerGone, Aimed
  <2>2. CASE ActivationFails
    <3>1. (proc \in Process)' /\ proc'.at = "undo"
      BY <2>2, <1>1, WrittenTypes DEF ActivationFails, Process, Point
    <3> QED BY <3>1 DEF Aimed
  <2>3. CASE UndoFails
    <3>1. \/ proc' = [proc EXCEPT !.sync = "none", !.bad = TRUE]
          \/ proc.left # {} /\ \E at \in {"undoMove", "undoStaged"} :
               proc' = [proc EXCEPT !.at = at, !.bad = TRUE]
          \/ proc' = [proc EXCEPT !.at = "undo", !.left = @ \ {NextUndo}, !.bad = TRUE]
      BY <2>3 DEF UndoFails, Step, Aimed
    <3>2. (proc \in Process)'
      BY <3>1, <1>1 DEF Process, Point
    <3>3. \/ proc'.at = proc.at /\ proc'.left = proc.left
          \/ proc'.left # {} /\ proc'.at \in {"undoMove", "undoStaged"}
          \/ proc'.at = "undo"
      BY <3>1, <1>1 DEF Process
    <3>4. Replaced' = Replaced
      BY <2>3 DEF UndoFails, Replaced, Plan
    <3> QED BY <3>2, <3>3, <3>4 DEF Aimed
  <2> QED BY <2>1, <2>2, <2>3
<1> QED BY <1>3, <1>4, <1>5, <1>6

(* What a directory held is left stale when a process ends, and nothing is   *)
(* when the directory is synced or the power has gone.                       *)
LEMMA StaleTypes ==
  ASSUME RestoreTypeOK, [RestoreNext]_restoreVars
  PROVE  StaleTyped'
<1>1. StaleTyped /\ FilesTyped
  BY TypeParts
<1>2. CASE UNCHANGED <<stale, lost>>
  BY <1>1, <1>2 DEF StaleTyped
<1>3. CASE Abandon /\ lost' = lost
  BY <1>1, <1>3 DEF Abandon, StaleTyped, FilesTyped
<1>4. CASE PowerGone /\ lost' \in BOOLEAN
  BY <1>4 DEF PowerGone, StaleTyped
<1>5. CASE SyncDirectory
  BY <1>1, <1>5 DEF SyncDirectory, StaleTyped, Directory
<1>6. CASE UndoDone \/ RecoveryFails \/ Kill
  BY <1>2, <1>3, <1>6 DEF UndoDone, RecoveryFails, Kill
<1>7. CASE PowerLoss \/ StalePowerLoss
  BY <1>1, <1>4, <1>7 DEF PowerLoss, StalePowerLoss, StaleTyped
<1>8. CASE UNCHANGED restoreVars
  BY <1>2, <1>8 DEF restoreVars
<1>9. CASE \/ \E force \in BOOLEAN : StartApply(force)
           \/ StartRuntime \/ Stop \/ Inspect \/ End \/ Check \/ Commit \/ Begin
  BY <1>2, <1>9
     DEF StartApply, StartRuntime, Stop, Inspect, End, Check, Commit, Begin, historyVars
<1>10. CASE \/ Copy \/ CopyFile \/ Preserve \/ PreserveMove \/ Activate \/ ActivateMove
            \/ Seal \/ SealRename
  BY <1>2, <1>10 DEF Copy, CopyFile, Preserve, PreserveMove, Activate, ActivateMove, Seal,
                     SealRename, historyVars
<1>11. CASE \/ Finish \/ FinishStaged \/ FinishJournal \/ Orphan \/ OrphanMarker
            \/ Undo \/ UndoMove \/ UndoStaged \/ Discard \/ DiscardMarker \/ DiscardJournal
            \/ ActivationFails \/ UndoFails
  BY <1>2, <1>11 DEF Finish, FinishStaged, FinishJournal, Orphan, OrphanMarker, Undo, UndoMove,
                     UndoStaged, Discard, DiscardMarker, DiscardJournal, ActivationFails,
                     UndoFails, historyVars
<1> QED BY <1>5, <1>6, <1>7, <1>8, <1>9, <1>10, <1>11 DEF RestoreNext, Work

LEMMA RestoreTypes ==
  ASSUME RestoreTypeOK, Aimed, [RestoreNext]_restoreVars
  PROVE  RestoreTypeOK' /\ Aimed'
<1> USE TypeParts
<1>0. StaleTyped'
  BY StaleTypes
<1>1. ASSUME UNCHANGED restoreVars
      PROVE  SwapTyped' /\ Aimed'
  <2>1. FilesTyped' /\ (journal \in JournalType)' /\ (proc \in Process)' /\ HistoryTyped'
    BY <1>1 DEF restoreVars, FilesTyped, HistoryTyped, Part
  <2>2. Aimed'
    BY <1>1 DEF restoreVars, Aimed, Replaced, Plan
  <2> QED BY <2>1, <2>2 DEF SwapTyped
<1>2. ASSUME \/ \E force \in BOOLEAN : StartApply(force)
             \/ StartRuntime \/ Stop \/ Inspect \/ End \/ Check \/ Commit
      PROVE  SwapTyped' /\ Aimed'
  <2>1. UNCHANGED <<seen, disk, journal>>
    BY <1>2 DEF StartApply, StartRuntime, Stop, Inspect, End, Check, Commit
  <2> QED BY <1>2, <2>1, ProcessTypes
<1>3. SwapTyped' /\ Aimed'
  BY <1>1, <1>2, SyncTypes, BeginTypes, ActivationTypes, CleanUpTypes, UndoTypes, FailureTypes
     DEF RestoreNext, Work
<1>4. SwapTyped' /\ StaleTyped' => RestoreTypeOK'
  BY DEF RestoreTypeOK, SwapTyped, StaleTyped, FilesTyped, HistoryTyped, JournalType
<1> QED BY <1>0, <1>3, <1>4

(* Every variable keeps its type, whatever a power loss leaves (Apply,       *)
(* CheckInterruptedRestore).                                                 *)
THEOREM RestoreTypeCorrect == RestoreSpec => []RestoreTypeOK
<1>1. RestoreInit => RestoreTypeOK /\ Aimed
  BY TypeInit, NoProcessFields DEF RestoreInit, Aimed
<1>2. RestoreTypeOK /\ Aimed /\ [RestoreNext]_restoreVars => (RestoreTypeOK /\ Aimed)'
  BY RestoreTypes
<1> QED BY <1>1, <1>2, PTL DEF RestoreSpec

(***************************************************************************)
(* The invariant of Restore.                                               *)
(***************************************************************************)

Backed    == Written("backup")
Absent    == Written("absent")
Activated == Written("activate")

(* What a directory may hold of a destination while a rollback is possible,  *)
(* and that a rollback, or a restore, is complete.                           *)
Undoable(d, live, backup) ==
  IF d \in Backed THEN old[d] # 0 /\ (backup = old[d] \/ (backup = 0 /\ live = old[d]))
  ELSE IF d \in Activated THEN old[d] = 0 /\ backup = 0
  ELSE live = old[d] /\ backup = 0

AllOld == \A d \in Dest : \A g \in disk[Home(d)] : g[Live(d)] = old[d] /\ g[Backup(d)] = 0
Unjournaled == \E g \in disk["managed"] : g[Journal] = 0

Before ==
  /\ \A d \in Dest : \A g \in disk[Home(d)] : Undoable(d, g[Live(d)], g[Backup(d)])
  /\ Unjournaled => AllOld
After ==
  /\ \A d \in Dest : \A g \in disk[Home(d)] :
       g[Live(d)] = new[d] /\ (d \notin Backed \/ Unjournaled => g[Backup(d)] = 0)
  /\ \A g \in disk["managed"] : g[Journal] # 0 => g[Marker] = journal.id

(* What the journal says of the transaction, against the two projects. *)
Transaction ==
  /\ Mentioned \subseteq Plan /\ Activated \subseteq Backed \cup Absent
  /\ \A d \in Absent : old[d] = 0
  /\ \A d \in Dest : new[d] = IF d \in Plan THEN journal.target[d] ELSE old[d]

(* What a power loss may bring back of what processes see. *)
Kept == {Live(d) : d \in Dest} \cup {Backup(d) : d \in Dest} \cup {Journal, Marker}
Alike(dir) == \A g \in disk[dir] : \A n \in NamesOf(dir) \cap Kept : g[n] = seen[n]
InSync == \A dir \in Directory : proc.sync = dir \/ Alike(dir)
Agree(d) == \A g \in disk[Home(d)] : g[Live(d)] = seen[Live(d)] /\ g[Backup(d)] = seen[Backup(d)]
Dirty(d) == seen[Backup(d)] # 0 \/ (d \in Activated \ Backed /\ seen[Live(d)] # 0)

Undoing == {"undo", "undoMove", "undoStaged"}
Discarding == {"discard", "discardMarker", "discardJournal"}
Finishing == {"finish", "finishStaged", "finishJournal"}
Clean == {"orphan", "orphanMarker", "end", "check", "begin", "open"}

Open ==
  /\ Before /\ ~committed /\ seen[Journal] # 0
  /\ \A d \in Dest : Agree(d) \/ (proc.sync = Home(d) /\ Dirty(d))
  /\ ~Unjournaled \/ (proc.at = "copy" /\ proc.sync = "managed" /\ AllOld)

AllStaged(S) == \A d \in S : seen[Staged(d)] = journal.target[d]
Installed(S) == \A d \in S : seen[Live(d)] = journal.target[d]
Preserved(S) == \A d \in S : d \in Backed \cup Absent /\ (d \in Backed => seen[Backup(d)] # 0)

Copying == /\ Backed \cup Absent \cup Activated = {}
           /\ proc.left \subseteq Replaced /\ AllStaged(Replaced \ proc.left)
Preserving ==
  /\ Activated = {} /\ proc.left \subseteq Plan /\ AllStaged(Replaced)
  /\ Preserved(Plan \ proc.left) /\ \A d \in Plan \ proc.left : seen[Live(d)] = 0
  /\ Backed \cap proc.left = (IF proc.at = "preserve" THEN {} ELSE {First(proc.left)})
  /\ \A d \in proc.left : seen[Backup(d)] = 0
Activation ==
  /\ Preserved(Plan) /\ proc.left \subseteq Replaced
  /\ AllStaged(proc.left) /\ Installed(Plan \ proc.left)
  /\ Activated \cap proc.left = IF proc.at = "activate" THEN {} ELSE {First(proc.left)}
Sealing == Preserved(Plan) /\ Installed(Plan)

Rollback ==
  /\ Before /\ ~committed /\ proc.left \subseteq Mentioned
  /\ ~proc.bad => /\ \A d \in Dest \ proc.left : ~Dirty(d)
                  /\ \A d \in Dest : Agree(d) \/ proc.sync = Home(d) \/ Dirty(d)

(* The stages of an Apply, of a rollback and of a clean-up. *)
Stages ==
  /\ proc.at = "idle" => proc = NoProcess
  /\ proc.at \in {"idle", "inspect"} \cup Clean \cup Finishing => InSync
  /\ proc.at \in Clean => seen[Journal] = 0
  /\ proc.at \in Finishing => After
  /\ proc.at = "finish" => /\ proc.left \subseteq Backed
                           /\ \A d \in Backed \ proc.left : seen[Backup(d)] = 0
  /\ proc.at \in {"finishStaged", "finishJournal"} => \A d \in Dest : seen[Backup(d)] = 0
  /\ proc.at \in Activating => Open
  /\ proc.at \in {"copy", "copyFile"} => Copying
  /\ proc.at \in {"preserve", "preserveMove"} => Preserving
  /\ proc.at \in {"activate", "activateMove"} => Activation
  /\ proc.at \in {"seal", "sealRename", "commit"} => Sealing
  /\ proc.at = "sealRename" => seen[MarkerTemporary] = journal.id
  /\ proc.at = "commit" => /\ seen[Marker] = journal.id /\ seen[Journal] # 0
                           /\ IF proc.sync = "none" THEN InSync /\ committed
                              ELSE Open /\ proc.sync = "managed"
  /\ proc.at \in Undoing => Rollback
  /\ proc.at = "undoMove" => NextUndo \in Backed /\ seen[Backup(NextUndo)] # 0
  /\ proc.at = "undoStaged" /\ ~proc.bad => ~Dirty(NextUndo)
  /\ proc.at \in Discarding => Before /\ AllOld /\ ~committed

(* What the process goes on with, and what it reported. *)
Courses ==
  /\ proc.at \in Activating \cup {"commit", "check", "begin"} => proc.then = "check"
  /\ proc.at \in Undoing \cup Discarding => proc.then \in {"check", "failed"}
  /\ proc.at \in Finishing \cup {"inspect", "orphan", "orphanMarker"} => proc.then # "failed"
  /\ proc.at = "inspect" => proc.then # "restored"
  /\ proc.at = "open" => proc.then = "open"
  /\ proc.then = "restored" => committed
  /\ proc.at = "end" /\ proc.then = "failed" => AllOld /\ ~committed
Reports ==
  /\ proc.at # "idle" /\ result # "none" => proc.then = "open"
  /\ result = "failed" => AllOld /\ ~committed
  /\ result = "restored" => committed

RestoreInv ==
  /\ Transaction /\ (Before \/ After) /\ (committed => After)
  /\ Stages /\ Courses /\ Reports

(***************************************************************************)
(* What the steps leave of it: files that are written, synced or forgotten. *)
(***************************************************************************)

(* What the predicates read. *)
LEMMA SameJournal ==
  ASSUME UNCHANGED journal
  PROVE  /\ Backed' = Backed /\ Absent' = Absent /\ Activated' = Activated
         /\ Written("stage")' = Written("stage")
         /\ Mentioned' = Mentioned /\ Plan' = Plan /\ Replaced' = Replaced
BY DEF Backed, Absent, Activated, Mentioned, Written, Plan, Replaced

LEMMA SameTransaction ==
  ASSUME UNCHANGED <<journal, old, new>>, Transaction
  PROVE  Transaction'
BY SameJournal DEF Transaction

LEMMA SameFiles ==
  ASSUME UNCHANGED <<seen, disk, journal, old, new>>
  PROVE  /\ Before' <=> Before
         /\ After' <=> After
         /\ AllOld' <=> AllOld
         /\ Unjournaled' <=> Unjournaled
         /\ Transaction' <=> Transaction
         /\ \A dir \in Directory : Alike(dir)' <=> Alike(dir)
         /\ \A d \in Dest : (Agree(d)' <=> Agree(d)) /\ (Dirty(d)' <=> Dirty(d))
<1> USE SameJournal
<1>1. /\ AllOld' <=> AllOld
      /\ Unjournaled' <=> Unjournaled
  BY DEF AllOld, Unjournaled
<1>2. Before' <=> Before
  BY <1>1 DEF Before, Undoable
<1>3. After' <=> After
  BY <1>1 DEF After
<1>4. Transaction' <=> Transaction
  BY DEF Transaction
<1>5. /\ \A dir \in Directory : Alike(dir)' <=> Alike(dir)
      /\ \A d \in Dest : (Agree(d)' <=> Agree(d)) /\ (Dirty(d)' <=> Dirty(d))
  BY DEF Alike, Agree, Dirty
<1> QED BY <1>1, <1>2, <1>3, <1>4, <1>5

(* A sync, a crash or a power loss leaves some of what there was. *)
LEMMA FewerFiles ==
  ASSUME UNCHANGED <<journal, old, new>>,
         \A dir \in Directory : disk'[dir] \subseteq disk[dir]
  PROVE  /\ Before => Before'
         /\ After => After'
         /\ AllOld => AllOld'
         /\ Unjournaled' => Unjournaled
<1> USE SameJournal
<1>1. \A d \in Dest : disk'[Home(d)] \subseteq disk[Home(d)]
  BY NamesHaveADirectory
<1>2. disk'["managed"] \subseteq disk["managed"]
  BY NamesHaveADirectory
<1>3. /\ AllOld => AllOld'
      /\ Unjournaled' => Unjournaled
  BY <1>1, <1>2 DEF AllOld, Unjournaled
<1>4. Before => Before'
  BY <1>1, <1>2, <1>3 DEF Before, Undoable
<1>5. After => After'
  BY <1>1, <1>2, <1>3 DEF After
<1> QED BY <1>3, <1>4, <1>5

LEMMA AlikeWhenSynced ==
  ASSUME NEW dir \in Directory, \A g \in disk[dir] : \A n \in NamesOf(dir) : g[n] = seen[n]
  PROVE  Alike(dir)
BY DEF Alike

LEMMA AgreeWhenAlike ==
  ASSUME NEW d \in Dest, Alike(Home(d))
  PROVE  Agree(d)
<1>1. {Live(d), Backup(d)} \subseteq NamesOf(Home(d)) \cap Kept
  BY NamesHaveADirectory DEF Kept
<1> QED BY <1>1 DEF Alike, Agree

LEMMA AlikeWhenAgree ==
  ASSUME \A d \in Object : Agree(d)
  PROVE  Alike("objects")
<1>1. \A n \in NamesOf("objects") \cap Kept : \E d \in Object : n = Live(d) \/ n = Backup(d)
  <2> SUFFICES ASSUME NEW n \in NamesOf("objects"), n \in Kept
               PROVE  \E d \in Object : n = Live(d) \/ n = Backup(d)
    OBVIOUS
  <2>1. n \notin {Journal, Marker}
    BY NamesHaveADirectory DEF Directory
  <2>2. PICK d \in Dest : n = Live(d) \/ n = Backup(d)
    BY <2>1 DEF Kept
  <2>3. d \in Object
    BY <2>2 DEF NamesOf, Live, Backup
  <2> QED BY <2>2, <2>3
<1>2. \A d \in Object : d \in Dest /\ Home(d) = "objects"
  BY DEF Dest, Home
<1> QED BY <1>1, <1>2 DEF Agree, Alike

(* What is seen is on the disk. *)
LEMMA SeenParts ==
  ASSUME FilesTyped
  PROVE  /\ \A d \in Dest : \E g \in disk[Home(d)] : /\ g[Live(d)] = seen[Live(d)]
                                                      /\ g[Backup(d)] = seen[Backup(d)]
         /\ \E g \in disk["managed"] : g[Journal] = seen[Journal] /\ g[Marker] = seen[Marker]
<1>1. \A d \in Dest : /\ Home(d) \in Directory
                      /\ Live(d) \in NamesOf(Home(d)) /\ Backup(d) \in NamesOf(Home(d))
  BY NamesHaveADirectory
<1>2. "managed" \in Directory /\ Journal \in NamesOf("managed") /\ Marker \in NamesOf("managed")
  BY NamesHaveADirectory
<1> QED BY <1>1, <1>2, SeenIsOnDisk

LEMMA SeenFacts ==
  ASSUME FilesTyped
  PROVE  /\ Before => \A d \in Dest : Undoable(d, seen[Live(d)], seen[Backup(d)])
         /\ After => \A d \in Dest : seen[Live(d)] = new[d]
         /\ After /\ seen[Journal] # 0 => seen[Marker] = journal.id
         /\ AllOld => \A d \in Dest : seen[Live(d)] = old[d] /\ seen[Backup(d)] = 0
         /\ seen[Journal] = 0 => Unjournaled
<1>1. Before => \A d \in Dest : Undoable(d, seen[Live(d)], seen[Backup(d)])
  BY SeenParts DEF Before
<1>2. After => \A d \in Dest : seen[Live(d)] = new[d]
  BY SeenParts DEF After
<1>3. After /\ seen[Journal] # 0 => seen[Marker] = journal.id
  BY SeenParts DEF After
<1>4. AllOld => \A d \in Dest : seen[Live(d)] = old[d] /\ seen[Backup(d)] = 0
  BY SeenParts DEF AllOld
<1>5. seen[Journal] = 0 => Unjournaled
  BY SeenParts DEF Unjournaled
<1> QED BY <1>1, <1>2, <1>3, <1>4, <1>5

LEMMA ResolvedFiles ==
  ASSUME FilesTyped, seen[Journal] = 0, Before \/ After
  PROVE  \/ AllOld
         \/ \A d \in Dest : \A g \in disk[Home(d)] : g[Live(d)] = new[d] /\ g[Backup(d)] = 0
BY SeenFacts DEF Before, After

(* Writing: the files that an operation changes. *)
LEMMA Written3 ==
  ASSUME NEW f \in [Name -> Content], Put(f), FilesTyped
  PROVE  /\ \A d \in Dest : \A g \in disk'[Home(d)] :
              g \in disk[Home(d)] \/ (g[Live(d)] = f[Live(d)] /\ g[Backup(d)] = f[Backup(d)])
         /\ \A g \in disk'["managed"] :
              g \in disk["managed"] \/ (g[Journal] = f[Journal] /\ g[Marker] = f[Marker])
         /\ \E g \in disk'["managed"] : g[Journal] = f[Journal] /\ g[Marker] = f[Marker]
         /\ disk["managed"] \subseteq disk'["managed"]
         /\ \A d \in Dest : disk[Home(d)] \subseteq disk'[Home(d)]
<1>1. \A d \in Dest : /\ Home(d) \in Directory
                      /\ Live(d) \in NamesOf(Home(d)) /\ Backup(d) \in NamesOf(Home(d))
  BY NamesHaveADirectory
<1>2. "managed" \in Directory /\ Journal \in NamesOf("managed") /\ Marker \in NamesOf("managed")
  BY NamesHaveADirectory
<1>3. FilesTyped' /\ seen' = f
  BY PutParts
<1>4. \E g \in disk'["managed"] : g[Journal] = f[Journal] /\ g[Marker] = f[Marker]
  <2>1. Part(f, "managed") \in disk'["managed"]
    BY <1>2, PutParts
  <2>2. Part(f, "managed")[Journal] = f[Journal] /\ Part(f, "managed")[Marker] = f[Marker]
    BY <1>2 DEF Part
  <2> QED BY <2>1, <2>2
<1>5. \A d \in Dest : \A g \in disk'[Home(d)] :
        g \in disk[Home(d)] \/ (g[Live(d)] = f[Live(d)] /\ g[Backup(d)] = f[Backup(d)])
  BY <1>1, PutParts
<1>6. \A g \in disk'["managed"] :
        g \in disk["managed"] \/ (g[Journal] = f[Journal] /\ g[Marker] = f[Marker])
  BY <1>2, PutParts
<1>7. \A dir \in Directory : disk[dir] \subseteq disk'[dir]
  BY PutParts
<1> QED BY <1>1, <1>2, <1>4, <1>5, <1>6, <1>7

LEMMA PutBefore ==
  ASSUME NEW f \in [Name -> Content], Put(f), FilesTyped, UNCHANGED <<journal, old, new>>,
         f[Journal] # 0 \/ Unjournaled \/ AllOld,
         Before, \A d \in Dest : Undoable(d, f[Live(d)], f[Backup(d)]),
         (Unjournaled \/ f[Journal] = 0) => \A d \in Dest : f[Live(d)] = old[d] /\ f[Backup(d)] = 0
  PROVE  /\ Before'
         /\ Unjournaled' <=> Unjournaled \/ f[Journal] = 0
<1> USE SameJournal, Written3
<1>1. Unjournaled' <=> Unjournaled \/ f[Journal] = 0
  BY DEF Unjournaled
<1>2. \A d \in Dest : \A g \in disk'[Home(d)] : Undoable(d, g[Live(d)], g[Backup(d)])
  BY DEF Before
<1>3. \A d \in Dest : \A g \in disk'[Home(d)] : Undoable(d, g[Live(d)], g[Backup(d)])'
  BY <1>2 DEF Undoable
<1>4. Unjournaled' => AllOld
  BY <1>1 DEF Before
<1>5. Unjournaled' => AllOld'
  BY <1>1, <1>4 DEF AllOld
<1> QED BY <1>1, <1>3, <1>5 DEF Before

LEMMA PutAfter ==
  ASSUME NEW f \in [Name -> Content], Put(f), FilesTyped, UNCHANGED <<journal, old, new>>,
         After, \A d \in Dest : f[Live(d)] = new[d] /\ (d \notin Backed \/ Unjournaled => f[Backup(d)] = 0),
         f[Journal] # 0 => f[Marker] = journal.id,
         f[Journal] = 0 => \A d \in Dest : f[Backup(d)] = 0 /\ \A g \in disk[Home(d)] : g[Backup(d)] = 0
  PROVE  After'
<1> USE SameJournal, Written3
<1>1. Unjournaled' <=> Unjournaled \/ f[Journal] = 0
  BY DEF Unjournaled
<1>2. \A g \in disk'["managed"] : g[Journal] # 0 => g[Marker] = journal.id
  BY DEF After
<1>3. \A d \in Dest : \A g \in disk'[Home(d)] : g[Live(d)] = new[d]
  BY DEF After
<1>4. \A d \in Dest : \A g \in disk'[Home(d)] : d \notin Backed \/ Unjournaled' => g[Backup(d)] = 0
  BY <1>1 DEF After
<1> QED BY <1>1, <1>2, <1>3, <1>4 DEF After

LEMMA PutAllOld ==
  ASSUME NEW f \in [Name -> Content], Put(f), FilesTyped, UNCHANGED <<old>>,
         AllOld, \A d \in Dest : f[Live(d)] = old[d] /\ f[Backup(d)] = 0
  PROVE  AllOld'
BY Written3 DEF AllOld

(* A step that touches neither the project, nor its backups, nor the journal. *)
LEMMA QuietPut ==
  ASSUME NEW f \in [Name -> Content], Put(f), FilesTyped, UNCHANGED <<journal, old, new>>,
         \A d \in Dest : f[Live(d)] = seen[Live(d)] /\ f[Backup(d)] = seen[Backup(d)],
         f[Journal] = seen[Journal]
  PROVE  /\ Before => Before'
         /\ AllOld => AllOld'
         /\ Unjournaled' <=> Unjournaled
         /\ \A d \in Dest : (Agree(d)' <=> Agree(d)) /\ (Dirty(d)' <=> Dirty(d))
<1> USE SameJournal, Written3
<1>1. seen' = f
  BY PutParts
<1>2. Unjournaled' <=> Unjournaled
  BY SeenParts DEF Unjournaled
<1>3. AllOld => AllOld'
  BY SeenFacts, PutAllOld
<1>4. Before => Before'
  BY <1>1, SeenFacts, PutBefore DEF Before
<1>5. \A d \in Dest : (Agree(d)' <=> Agree(d)) /\ (Dirty(d)' <=> Dirty(d))
  BY <1>1 DEF Agree, Dirty
<1> QED BY <1>2, <1>3, <1>4, <1>5

LEMMA QuietPutAfter ==
  ASSUME NEW f \in [Name -> Content], Put(f), FilesTyped, UNCHANGED <<journal, old, new>>,
         \A d \in Dest : f[Live(d)] = seen[Live(d)] /\ f[Backup(d)] = seen[Backup(d)],
         f[Journal] = seen[Journal], f[Journal] = 0 \/ f[Marker] = seen[Marker]
  PROVE  After => After'
<1> SUFFICES ASSUME After PROVE After'
  OBVIOUS
<1>1. \A d \in Dest : f[Live(d)] = new[d] /\ (d \notin Backed \/ Unjournaled => f[Backup(d)] = 0)
  BY SeenParts DEF After
<1>2. f[Journal] # 0 => f[Marker] = journal.id
  BY SeenFacts
<1>3. f[Journal] = 0 => \A d \in Dest : f[Backup(d)] = 0 /\ \A g \in disk[Home(d)] : g[Backup(d)] = 0
  BY SeenFacts, SeenParts DEF After
<1> QED BY <1>1, <1>2, <1>3, PutAfter

(* Files that were alike stay so, but for the directory that is written. *)
LEMMA PutAlike ==
  ASSUME NEW f \in [Name -> Content], Put(f), FilesTyped, NEW dir \in Directory,
         Alike(dir), \A n \in NamesOf(dir) \cap Kept : f[n] = seen[n]
  PROVE  Alike(dir)'
<1>1. seen' = f /\ \A g \in disk'[dir] : g \in disk[dir] \/ (\A n \in NamesOf(dir) : g[n] = f[n])
  BY PutParts
<1> QED BY <1>1 DEF Alike

(***************************************************************************)
(* The steps that change nothing but the process.                          *)
(***************************************************************************)

LEMMA Undirty ==
  ASSUME FilesTyped, Transaction, Before, NEW d \in Dest \ Mentioned
  PROVE  ~Dirty(d)
<1>1. d \notin Backed /\ d \notin Activated
  BY DEF Transaction, Mentioned, Backed, Absent
<1>2. Undoable(d, seen[Live(d)], seen[Backup(d)])
  BY SeenFacts
<1> QED BY <1>1, <1>2 DEF Undoable, Dirty

LEMMA UndirtyIsOld ==
  ASSUME FilesTyped, Before, NEW d \in Dest, ~Dirty(d)
  PROVE  seen[Live(d)] = old[d] /\ seen[Backup(d)] = 0
<1>1. Undoable(d, seen[Live(d)], seen[Backup(d)])
  BY SeenFacts
<1> QED BY <1>1 DEF Undoable, Dirty

LEMMA CommittedIsAfter ==
  ASSUME FilesTyped, Transaction, Before \/ After, \A dir \in Directory : Alike(dir),
         seen[Journal] # 0, CommittedIn(seen)
  PROVE  After
<1> SUFFICES ASSUME Before PROVE After
  OBVIOUS
<1>1. \A d \in Dest : Agree(d)
  BY AgreeWhenAlike, NamesHaveADirectory
<1>2. \A d \in Dest : seen[Live(d)] = new[d] /\ (d \notin Backed => seen[Backup(d)] = 0)
  <2> SUFFICES ASSUME NEW d \in Dest
               PROVE  seen[Live(d)] = new[d] /\ (d \notin Backed => seen[Backup(d)] = 0)
    OBVIOUS
  <2>1. Undoable(d, seen[Live(d)], seen[Backup(d)])
    BY SeenFacts
  <2>2. d \notin Plan => d \notin Backed /\ d \notin Activated
    BY DEF Transaction, Mentioned, Backed, Absent
  <2>3. d \in Plan => seen[Live(d)] = journal.target[d]
    BY DEF CommittedIn, Plan
  <2> QED BY <2>1, <2>2, <2>3 DEF Undoable, Transaction
<1>3. \A g \in disk["managed"] : g[Journal] = seen[Journal] /\ g[Marker] = seen[Marker]
  BY NamesHaveADirectory DEF Alike, Kept
<1>4. ~Unjournaled
  BY <1>3 DEF Unjournaled
<1> QED BY <1>1, <1>2, <1>3, <1>4 DEF After, Agree, CommittedIn

LEMMA AfterIsCommitted ==
  ASSUME FilesTyped, journal \in JournalType, Transaction, After, seen[Journal] # 0
  PROVE  CommittedIn(seen)
<1>1. \A d \in Plan : d \in Dest /\ seen[Live(d)] = journal.target[d]
  BY SeenFacts, WrittenTypes DEF Transaction
<1> QED BY <1>1, SeenFacts, WrittenTypes DEF CommittedIn, Plan

(* The steps that change nothing but the process. *)
LEMMA IdleKeeps ==
  ASSUME RestoreInv, UNCHANGED <<seen, disk, journal, old, new, committed>>,
         proc' = NoProcess, InSync, proc.sync = "none",
         \/ result' = "none" \/ result' = result \/ result' = "broken" \/ result' = "refused"
         \/ (result' = "failed" /\ AllOld /\ ~committed) \/ (result' = "restored" /\ committed)
  PROVE  RestoreInv'
<1> USE SameFiles DEF RestoreInv
<1>1. proc'.at = "idle" /\ proc'.sync = "none" /\ proc'.then = "failed"
  BY NoProcessFields
<1>2. InSync'
  BY <1>1, NamesHaveADirectory DEF InSync, Directory
<1>3. Stages'
  BY <1>1, <1>2 DEF Stages, Clean, Finishing, Activating, Undoing, Discarding
<1>4. Courses'
  BY <1>1 DEF Courses, Clean, Finishing, Activating, Undoing, Discarding
<1>5. Reports'
  BY <1>1 DEF Reports
<1> QED BY <1>3, <1>4, <1>5

LEMMA StartKeeps ==
  ASSUME RestoreTypeOK, RestoreInv, StartRuntime \/ \E force \in BOOLEAN : StartApply(force)
  PROVE  RestoreInv'
<1> USE SameFiles DEF RestoreInv
<1>1. UNCHANGED <<seen, disk, journal, old, new, committed>> /\ InSync
  BY DEF StartRuntime, StartApply, historyVars, Stages
<1>2. /\ proc'.at = "inspect" /\ proc'.sync = "none"
      /\ \/ proc'.then = "check" /\ result' = "none"
         \/ proc'.then = "open" /\ result' = result
  BY NoProcessFields DEF StartRuntime, StartApply, NoProcess
<1>3. InSync'
  <2>1. proc.sync = "none"
    BY NoProcessFields DEF StartRuntime, StartApply, Stages
  <2> QED BY <1>1, <1>2, <2>1, NamesHaveADirectory DEF InSync, Directory
<1>4. Stages'
  BY <1>2, <1>3 DEF Stages, Clean, Finishing, Activating, Undoing, Discarding
<1>5. Courses'
  BY <1>2 DEF Courses, Clean, Finishing, Activating, Undoing, Discarding
<1>6. Reports'
  BY <1>1, <1>2 DEF Reports
<1> QED BY <1>1, <1>4, <1>5, <1>6

LEMMA InspectKeeps ==
  ASSUME RestoreTypeOK, RestoreInv, Inspect
  PROVE  RestoreInv'
<1> USE TypeParts, SameFiles DEF RestoreInv
<1>1. UNCHANGED <<seen, disk, journal, old, new, committed, result>> /\ proc.at = "inspect"
  BY DEF Inspect, historyVars, Step
<1>2. proc.sync = "none" /\ InSync /\ \A dir \in Directory : Alike(dir)
  BY DEF Inspect, Step, Stages, InSync, Directory
<1>3. proc \in Process /\ proc.then \in {"check", "open"}
  BY <1>1 DEF Process, Courses, Finishing
<1>4. {} \in SUBSET Dest /\ Written("backup") \in SUBSET Dest /\ Mentioned \in SUBSET Dest
  BY WrittenTypes
<1>5. result # "none" => proc.then = "open"
  BY <1>1 DEF Reports
<1>6. CASE seen[Journal] = 0 /\ Goto("orphan", {})
  <2>1. "orphan" \in Point
    BY DEF Point
  <2>2. proc'.at = "orphan" /\ proc'.sync = "none" /\ proc'.then = proc.then
    BY <1>2, <1>3, <1>4, <1>6, <2>1, GotoFields
  <2>3. InSync'
    BY <1>1, <1>2 DEF InSync
  <2>4. Stages'
    BY <1>1, <1>6, <2>2, <2>3 DEF Stages, Clean, Finishing, Activating, Undoing, Discarding
  <2>5. Courses' /\ Reports'
    BY <1>1, <1>3, <1>5, <2>2 DEF Courses, Reports, Clean, Finishing, Activating, Undoing, Discarding
  <2> QED BY <1>1, <2>4, <2>5
<1>7. CASE seen[Journal] # 0 /\ CommittedIn(seen) /\ Goto("finish", Written("backup"))
  <2>1. "finish" \in Point
    BY DEF Point
  <2>2. /\ proc'.at = "finish" /\ proc'.sync = "none" /\ proc'.then = proc.then
        /\ proc'.left = Written("backup")
    BY <1>2, <1>3, <1>4, <1>7, <2>1, GotoFields
  <2>3. InSync'
    BY <1>1, <1>2 DEF InSync
  <2>4. After'
    BY <1>1, <1>2, <1>7, CommittedIsAfter
  <2>5. proc'.left = Backed'
    BY <1>1, <2>2, SameJournal DEF Backed
  <2>6. Stages'
    BY <2>2, <2>3, <2>4, <2>5 DEF Stages, Clean, Finishing, Activating, Undoing, Discarding
  <2>7. Courses' /\ Reports'
    BY <1>1, <1>3, <1>5, <2>2 DEF Courses, Reports, Clean, Finishing, Activating, Undoing, Discarding
  <2> QED BY <1>1, <2>4, <2>6, <2>7
<1>8. CASE seen[Journal] # 0 /\ ~CommittedIn(seen) /\ proc.then = "check" /\ Goto("undo", Mentioned)
  <2>1. "undo" \in Point
    BY DEF Point
  <2>2. /\ proc'.at = "undo" /\ proc'.sync = "none" /\ proc'.then = proc.then
        /\ proc'.left = Mentioned
    BY <1>2, <1>3, <1>4, <1>8, <2>1, GotoFields
  <2>3. ~After
    BY <1>8, AfterIsCommitted
  <2>4. Before /\ ~committed
    BY <2>3
  <2>5. Rollback'
    <3>1. \A d \in Dest \ Mentioned : ~Dirty(d)
      BY <2>4, Undirty
    <3>2. \A d \in Dest : Agree(d)
      BY <1>2, AgreeWhenAlike, NamesHaveADirectory
    <3>3. Mentioned' = Mentioned
      BY <1>1, SameJournal
    <3> QED BY <1>1, <2>2, <2>4, <3>1, <3>2, <3>3 DEF Rollback
  <2>6. Stages'
    BY <2>2, <2>5 DEF Stages, Clean, Finishing, Activating, Undoing, Discarding
  <2>7. Courses' /\ Reports'
    BY <1>1, <1>3, <1>5, <1>8, <2>2 DEF Courses, Reports, Clean, Finishing, Activating, Undoing, Discarding
  <2> QED BY <1>1, <2>4, <2>6, <2>7
<1>9. CASE proc' = NoProcess
  BY <1>1, <1>2, <1>9, IdleKeeps
<1> QED BY <1>6, <1>7, <1>8, <1>9 DEF Inspect

LEMMA PlainKeeps ==
  ASSUME RestoreTypeOK, RestoreInv, End \/ Stop \/ Check
  PROVE  RestoreInv'
<1> USE TypeParts, SameFiles DEF RestoreInv
<1>1. /\ UNCHANGED <<seen, disk, journal, old, new, committed>>
      /\ proc.at \in {"end", "open", "check"} /\ proc.sync = "none"
  BY DEF End, Stop, Check, historyVars, Step
<1>2. InSync /\ seen[Journal] = 0 /\ \A dir \in Directory : Alike(dir)
  BY <1>1 DEF Stages, InSync, Directory, Clean
<1>3. proc \in Process /\ {} \in SUBSET Dest
  BY DEF Process
<1>4. {"check", "open", "begin"} \subseteq Point
  BY DEF Point
<1>5. ASSUME NEW at \in {"check", "open", "begin"}, Goto(at, {}), result' = result,
             proc.then = IF at = "open" THEN "open" ELSE "check"
      PROVE  RestoreInv'
  <2>1. proc'.at = at /\ proc'.sync = "none" /\ proc'.then = proc.then
    BY <1>1, <1>3, <1>4, <1>5, GotoFields
  <2>2. InSync'
    BY <1>1, <1>2 DEF InSync
  <2>3. Stages'
    BY <1>1, <1>2, <2>1, <2>2 DEF Stages, Clean, Finishing, Activating, Undoing, Discarding
  <2>4. Courses'
    BY <1>5, <2>1 DEF Courses, Clean, Finishing, Activating, Undoing, Discarding
  <2>5. Reports'
    BY <1>1, <1>5, <2>1 DEF Reports
  <2> QED BY <1>1, <2>3, <2>4, <2>5
<1>6. CASE Stop
  BY <1>1, <1>2, <1>6, IdleKeeps DEF Stop
<1>7. CASE Check
  <2>1. proc.then = "check"
    BY <1>7 DEF Check, Step, Courses
  <2> QED BY <1>1, <1>2, <1>5, <1>7, <2>1, IdleKeeps DEF Check, RefuseBundle
<1>8. CASE End
  <2>1. CASE proc.then = "failed" /\ proc' = NoProcess /\ result' = Outcome
    BY <1>1, <1>2, <1>8, <2>1, IdleKeeps DEF Outcome, Courses, End, Step
  <2>2. CASE proc.then = "restored" /\ proc' = NoProcess /\ result' = Outcome
    BY <1>1, <1>2, <2>2, IdleKeeps DEF Outcome, Courses
  <2> QED BY <1>5, <1>8, <2>1, <2>2 DEF End
<1> QED BY <1>6, <1>7, <1>8

LEMMA CommitKeeps ==
  ASSUME RestoreTypeOK, RestoreInv, Commit
  PROVE  RestoreInv'
<1> USE TypeParts, SameFiles DEF RestoreInv
<1>1. /\ UNCHANGED <<seen, disk, journal, old, new, committed, result>>
      /\ proc.at = "commit" /\ proc.sync = "none"
  BY DEF Commit, historyVars, Step
<1>2. InSync /\ committed /\ After
  BY <1>1 DEF Stages
<1>3. /\ proc'.at = "finish" /\ proc'.sync = "none" /\ proc'.then = "restored"
      /\ proc'.left = Backed
  BY <1>1 DEF Commit, Process, Backed
<1>4. InSync'
  BY <1>1, <1>2, <1>3 DEF InSync
<1>5. Stages'
  BY <1>1, <1>2, <1>3, <1>4, SameJournal DEF Stages, Clean, Finishing, Activating, Undoing, Discarding
<1>6. Courses'
  BY <1>1, <1>2, <1>3 DEF Courses, Clean, Finishing, Activating, Undoing, Discarding
<1>7. Reports'
  BY <1>1, <1>3 DEF Reports, Courses
<1> QED BY <1>1, <1>2, <1>5, <1>6, <1>7

(***************************************************************************)
(* The sync of a directory, which is the commit point after the marker.    *)
(***************************************************************************)

AllAlike == \A dir \in Directory : Alike(dir)

LEMMA CommitPointIsAfter ==
  FilesTyped /\ Transaction /\ (Before \/ After) /\ AllAlike /\ seen[Journal] # 0 /\ CommittedIn(seen)
    => After
BY CommittedIsAfter DEF AllAlike

LEMMA CommitPointIsAfterNext ==
  (FilesTyped /\ Transaction /\ (Before \/ After) /\ AllAlike /\ seen[Journal] # 0 /\ CommittedIn(seen))'
    => After'
BY CommitPointIsAfter, PTL

LEMMA SealedIsCommitted ==
  ASSUME journal \in JournalType, Sealing, seen[Marker] = journal.id
  PROVE  CommittedIn(seen)
BY WrittenTypes DEF Sealing, Installed, CommittedIn, Plan

LEMMA SyncKeeps ==
  ASSUME RestoreTypeOK, Aimed, RestoreInv, SyncDirectory
  PROVE  RestoreInv'
<1> USE TypeParts DEF RestoreInv
<1>1. /\ UNCHANGED <<seen, journal, old, new, result>>
      /\ proc \in Process /\ proc.sync \in Directory
      /\ committed' = (committed \/ proc.at = "commit")
  BY DEF SyncDirectory, Process
<1>0. /\ proc.at # "commit" => committed' = committed
      /\ committed \in BOOLEAN
  <2>1. committed \in BOOLEAN
    BY DEF HistoryTyped
  <2> QED BY <1>1, <2>1
<1>2. /\ proc'.at = proc.at /\ proc'.left = proc.left /\ proc'.sync = "none"
      /\ proc'.then = proc.then /\ proc'.bad = proc.bad
  BY <1>1 DEF SyncDirectory, Process
<1>3. \A dir \in Directory :
        /\ disk'[dir] \subseteq disk[dir]
        /\ dir = proc.sync => \A g \in disk'[dir] : \A n \in NamesOf(dir) : g[n] = seen[n]
        /\ dir # proc.sync => disk'[dir] = disk[dir]
  <2>1. disk' = Synced(seen, {proc.sync}) /\ {proc.sync} \in SUBSET Directory
    BY <1>1 DEF SyncDirectory
  <2> QED BY <1>1, <2>1, SyncedParts
<1>4. FilesTyped' /\ (journal \in JournalType)'
  BY SyncTypes, TypePartsPrime
<1>5. /\ Before => Before'
      /\ After => After'
      /\ AllOld => AllOld'
      /\ Unjournaled' => Unjournaled
  BY <1>1, <1>3, FewerFiles
<1>6. Transaction'
  BY <1>1, SameTransaction
<1>7. \A dir \in Directory : Alike(dir) \/ dir = proc.sync => Alike(dir)'
  BY <1>1, <1>3 DEF Alike
<1>8. \A d \in Dest : /\ Agree(d) \/ Home(d) = proc.sync => Agree(d)'
                      /\ Dirty(d)' <=> Dirty(d)
  <2>1. \A d \in Dest : Home(d) \in Directory /\ {Live(d), Backup(d)} \subseteq NamesOf(Home(d))
    BY NamesHaveADirectory
  <2>2. \A d \in Dest : \A g \in disk'[Home(d)] :
           g \in disk[Home(d)] \/ (g[Live(d)] = seen[Live(d)] /\ g[Backup(d)] = seen[Backup(d)])
    BY <1>3, <2>1
  <2>3. \A d \in Dest : Home(d) = proc.sync =>
           \A g \in disk'[Home(d)] : g[Live(d)] = seen[Live(d)] /\ g[Backup(d)] = seen[Backup(d)]
    BY <1>3, <2>1
  <2> QED BY <1>1, <2>2, <2>3, SameJournal DEF Agree, Dirty
<1>9. /\ Backed' = Backed /\ Absent' = Absent /\ Activated' = Activated
      /\ Plan' = Plan /\ Replaced' = Replaced /\ Mentioned' = Mentioned /\ NextUndo' = NextUndo
  BY <1>1, <1>2, SameJournal DEF NextUndo
<1>10. InSync => InSync'
  BY <1>2, <1>7 DEF InSync
<1>11. Open => (\A d \in Dest : Agree(d)') /\ ~Unjournaled'
  <2> SUFFICES ASSUME Open PROVE (\A d \in Dest : Agree(d)') /\ ~Unjournaled'
    OBVIOUS
  <2>1. \A d \in Dest : Agree(d)'
    BY <1>8 DEF Open
  <2>2. ~Unjournaled'
    <3>1. CASE proc.sync = "managed"
      BY <1>3, <3>1, NamesHaveADirectory DEF Unjournaled, Open
    <3>2. CASE proc.sync # "managed"
      BY <1>5, <3>2 DEF Open
    <3> QED BY <3>1, <3>2
  <2> QED BY <2>1, <2>2
<1>12. Open /\ proc.at # "commit" => Open'
  BY <1>0, <1>1, <1>5, <1>11 DEF Open
<1>13. /\ Copying => Copying' 
       /\ Preserving => Preserving'
       /\ Activation => Activation'
       /\ Sealing => Sealing'
  BY <1>1, <1>2, <1>9 DEF Copying, Preserving, Activation, Sealing, AllStaged, Installed, Preserved
<1>14. proc.at # "commit" /\ Rollback => Rollback'
  BY <1>0, <1>1, <1>2, <1>5, <1>8, <1>9 DEF Rollback
<1>15. CASE proc.at # "commit"
  <2>4. Stages'
    <3>1. proc'.at \in {"idle", "inspect"} \cup Clean \cup Finishing => InSync'
      BY <1>2, <1>10 DEF Stages
    <3>2. proc'.at = "idle" => proc' = NoProcess
      BY <1>1, <1>2, NoProcessFields DEF Stages, Directory
    <3>3. /\ proc'.at \in Clean => seen'[Journal] = 0
          /\ proc'.at \in Finishing => After'
      BY <1>1, <1>2, <1>5 DEF Stages
    <3>4. /\ proc'.at = "finish" => /\ proc'.left \subseteq Backed'
                                    /\ \A d \in Backed' \ proc'.left : seen'[Backup(d)] = 0
          /\ proc'.at \in {"finishStaged", "finishJournal"} => \A d \in Dest : seen'[Backup(d)] = 0
      BY <1>1, <1>2, <1>9 DEF Stages
    <3>5. /\ proc'.at \in Activating => Open'
          /\ proc'.at \in {"copy", "copyFile"} => Copying'
          /\ proc'.at \in {"preserve", "preserveMove"} => Preserving'
          /\ proc'.at \in {"activate", "activateMove"} => Activation'
          /\ proc'.at \in {"seal", "sealRename", "commit"} => Sealing'
      BY <1>2, <1>12, <1>13, <1>15 DEF Stages
    <3>6. /\ proc'.at = "sealRename" => seen'[MarkerTemporary] = journal'.id
          /\ proc'.at \in Undoing => Rollback'
          /\ proc'.at = "undoMove" => NextUndo' \in Backed' /\ seen'[Backup(NextUndo')] # 0
          /\ proc'.at \in Discarding => Before' /\ AllOld' /\ ~committed'
      BY <1>0, <1>1, <1>2, <1>5, <1>9, <1>14, <1>15 DEF Stages
    <3>7. proc'.at = "undoStaged" /\ ~proc'.bad => ~Dirty(NextUndo)'
      <4> SUFFICES ASSUME proc.at = "undoStaged", ~proc.bad PROVE ~Dirty(NextUndo)'
        BY <1>2
      <4>1. ~Dirty(NextUndo)
        BY DEF Stages
      <4> QED BY <1>1, <1>9, <4>1 DEF Dirty
    <3> QED BY <3>1, <3>2, <3>3, <3>4, <3>5, <3>6, <3>7, <1>2, <1>15 DEF Stages
  <2>5. Courses' /\ Reports'
    BY <1>0, <1>1, <1>2, <1>5, <1>15 DEF Courses, Reports
  <2> QED BY <1>0, <1>5, <1>6, <1>15, <2>4, <2>5
<1>16. CASE proc.at = "commit"
  <2>1. Open /\ Sealing /\ seen[Marker] = journal.id /\ seen[Journal] # 0
    BY <1>1, <1>16 DEF Stages, Directory
  <2>2. InSync' /\ AllAlike'
    <3>1. \A d \in Dest : Agree(d)'
      BY <1>11, <2>1
    <3>2. proc.sync = "managed"
      BY <1>1, <1>16 DEF Stages, Directory
    <3>3. \A d \in Object : Agree(d)
      <4>1. \A d \in Object : d \in Dest /\ Home(d) # "managed"
        BY DEF Dest, Home
      <4> QED BY <2>1, <3>2, <4>1 DEF Open
    <3>4. Alike("objects")
      BY <3>3, AlikeWhenAgree
    <3>5. \A dir \in Directory : Alike(dir)'
      BY <1>7, <3>2, <3>4 DEF Directory
    <3> QED BY <3>5 DEF InSync, AllAlike
  <2>3. Sealing' /\ seen'[Marker] = journal'.id /\ seen'[Journal] # 0
    BY <1>1, <1>13, <2>1
  <2>4. CommittedIn(seen)'
    <3>1. CommittedIn(seen)
      BY <2>1, SealedIsCommitted
    <3> QED BY <1>1, <3>1 DEF CommittedIn
  <2>5. Before'
    BY <1>5, <2>1 DEF Open
  <2>6. After'
    BY <1>4, <1>6, <2>2, <2>3, <2>4, <2>5, CommitPointIsAfterNext
  <2>7. Stages'
    BY <1>1, <1>2, <1>16, <2>2, <2>3 DEF Stages, Clean, Finishing, Activating, Undoing, Discarding
  <2>8. Courses' /\ Reports'
    BY <1>1, <1>2, <1>16 DEF Courses, Reports, Clean, Finishing, Activating, Undoing, Discarding
  <2> QED BY <1>6, <2>6, <2>7, <2>8
<1> QED BY <1>15, <1>16

(***************************************************************************)
(* The activation.                                                         *)
(***************************************************************************)

LEMMA StillOpen ==
  ASSUME RestoreInv, proc.at \in Activating \cup {"begin"}, proc'.at \in Activating,
         proc'.then = proc.then, result' = result, Transaction', Open',
         proc'.at \in {"copy", "copyFile"} => Copying',
         proc'.at \in {"preserve", "preserveMove"} => Preserving',
         proc'.at \in {"activate", "activateMove"} => Activation',
         proc'.at \in {"seal", "sealRename"} => Sealing',
         proc'.at = "sealRename" => seen'[MarkerTemporary] = journal'.id
  PROVE  RestoreInv'
<1>1. proc.then = "check" /\ result = "none"
  BY DEF RestoreInv, Courses, Reports, Activating
<1>2. Before' /\ ~committed'
  BY DEF Open
<1>3. Stages'
  BY DEF Stages, Activating, Clean, Finishing, Undoing, Discarding
<1>4. Courses' /\ Reports'
  BY <1>1 DEF Courses, Reports, Activating, Clean, Finishing, Undoing, Discarding
<1> QED BY <1>2, <1>3, <1>4 DEF RestoreInv

(* An intent that is written changes no file. *)
LEMMA IntentKeeps ==
  ASSUME UNCHANGED <<seen, disk, old, new>>, Backed' = Backed, Activated' = Activated
  PROVE  /\ Before' <=> Before
         /\ AllOld' <=> AllOld
         /\ Unjournaled' <=> Unjournaled
         /\ \A d \in Dest : (Agree(d)' <=> Agree(d)) /\ (Dirty(d)' <=> Dirty(d))
<1>1. /\ AllOld' <=> AllOld
      /\ Unjournaled' <=> Unjournaled
  BY DEF AllOld, Unjournaled
<1>2. Before' <=> Before
  BY <1>1 DEF Before, Undoable
<1> QED BY <1>1, <1>2 DEF Agree, Dirty

LEMMA OpenAndSynced ==
  ASSUME RestoreInv, proc.at \in Activating, proc.sync = "none"
  PROVE  /\ Open /\ Before /\ ~committed /\ seen[Journal] # 0 /\ ~Unjournaled
         /\ \A d \in Dest : Agree(d)
<1>1. Open
  BY DEF RestoreInv, Stages
<1>2. \A d \in Dest : Home(d) # "none"
  BY DEF Home
<1> QED BY <1>1, <1>2 DEF Open

LEMMA BeginKeeps ==
  ASSUME RestoreTypeOK, RestoreInv, Begin
  PROVE  RestoreInv'
<1> USE TypeParts
<1>1. /\ proc.at = "begin" /\ proc.sync = "none" /\ seen[Journal] = 0
      /\ committed' = FALSE /\ result' = result
      /\ journal'.log = {} /\ journal.id <= MaxActivations
      /\ Put([seen EXCEPT ![Journal] = journal'.id]) /\ journal'.id = journal.id + 1
      /\ old' = Project
      /\ new' = [d \in Dest |-> IF d \in DOMAIN journal'.target THEN journal'.target[d] ELSE Project[d]]
  BY DEF Begin, Step
<1>2. /\ FilesTyped' /\ (journal \in JournalType)' /\ (proc \in Process)'
  BY BeginTypes, TypePartsPrime
<1>3. proc'.at = "copy" /\ proc'.left = Replaced' /\ proc'.sync = "managed" /\ proc'.then = proc.then
  BY DEF Begin, GotoSynced, Process, Replaced, Plan
<1> DEFINE f == [seen EXCEPT ![Journal] = journal'.id]
<1>4. f \in [Name -> Content] /\ journal'.id # 0
  <2>1. journal'.id \in Content /\ journal'.id # 0
    <3>1. journal.id \in 1..(MaxActivations + 1) /\ MaxActivations \in Nat
      BY RestoreAssumption DEF JournalType
    <3> HIDE DEF JournalType, f
    <3>2. journal.id + 1 \in Content /\ journal.id + 1 # 0
      BY ONLY <3>1, <1>1 DEF Content
    <3> QED BY <1>1, <3>2
  <2> QED BY <2>1 DEF FilesTyped
<1>5. /\ f[Journal] = journal'.id
      /\ \A d \in Dest : f[Live(d)] = seen[Live(d)] /\ f[Backup(d)] = seen[Backup(d)]
  <2>1. \A d \in Dest : /\ Live(d) \in Name /\ Live(d) # Journal
                        /\ Backup(d) \in Name /\ Backup(d) # Journal
    BY NamesHaveADirectory, NamesAreDistinct
  <2>2. Journal \in Name /\ seen \in [Name -> Content]
    BY NamesHaveADirectory DEF FilesTyped
  <2> QED BY <2>1, <2>2
<1> HIDE DEF f
<1>6. Put(f)
  BY <1>1 DEF f
<1>7. \A d \in Dest : \A g \in disk[Home(d)] : g[Live(d)] = Project[d] /\ g[Backup(d)] = 0
  <2>1. \A d \in Dest : Agree(d)
    BY <1>1, AgreeWhenAlike, NamesHaveADirectory
       DEF RestoreInv, Stages, Clean, InSync, Directory
  <2>2. \A d \in Dest : \A g \in disk[Home(d)] : g[Live(d)] = seen[Live(d)] /\ g[Backup(d)] = 0
    BY <1>1, <2>1, ResolvedFiles DEF RestoreInv, Agree, AllOld
  <2> QED BY <2>2 DEF Project, ProjectIn
<1>8. \A d \in Dest : seen[Live(d)] = Project[d] /\ seen[Backup(d)] = 0
  BY <1>7, SeenParts
<1>9. \A d \in Dest : \A g \in disk'[Home(d)] : g[Live(d)] = Project[d] /\ g[Backup(d)] = 0
  BY <1>4, <1>5, <1>6, <1>7, <1>8, Written3
<1>10. \A op : Written(op)' = {}
  BY <1>1 DEF Written
<1>11. AllOld'
  BY <1>1, <1>9 DEF AllOld
<1>12. Before'
  BY <1>1, <1>9, <1>10, <1>11 DEF Before, Undoable, Backed, Activated
<1>13. seen' = f
  BY <1>4, <1>6, PutParts
<1>14. Open'
  <2>1. \A d \in Dest : Agree(d)'
    BY <1>5, <1>8, <1>9, <1>13 DEF Agree
  <2> QED BY <1>1, <1>3, <1>4, <1>5, <1>11, <1>12, <1>13, <2>1 DEF Open
<1>15. Transaction'
  BY <1>1, <1>10 DEF Transaction, Mentioned, Backed, Absent, Activated, Plan
<1>16. Copying'
  BY <1>3, <1>10 DEF Copying, Backed, Absent, Activated, AllStaged
<1> QED BY <1>1, <1>3, <1>14, <1>15, <1>16, StillOpen DEF Activating

LEMMA PutAgree ==
  ASSUME NEW f \in [Name -> Content], Put(f), FilesTyped, NEW d \in Dest,
         \A e \in Dest \ {d} : f[Live(e)] = seen[Live(e)] /\ f[Backup(e)] = seen[Backup(e)]
  PROVE  \A e \in Dest \ {d} : Agree(e) => Agree(e)'
BY PutParts, Written3 DEF Agree

LEMMA CopyKeeps ==
  ASSUME RestoreTypeOK, Aimed, RestoreInv, Copy
  PROVE  RestoreInv'
<1> USE TypeParts DEF RestoreInv
<1> DEFINE d == First(proc.left)
<1>1. /\ UNCHANGED <<seen, disk, old, new, committed, result>>
      /\ proc.at = "copy" /\ proc.sync = "none"
  BY DEF Copy, historyVars, Step
<1>2. /\ proc \in Process /\ proc.left \in SUBSET Dest /\ Plan \in SUBSET Dest
      /\ {"copyFile", "preserve"} \subseteq Point
  BY WrittenTypes DEF Process, Point
<1>3. proc.left # {} => d \in Dest /\ d \in proc.left
  BY <1>2, FirstIsIn
<1>4. Open /\ Copying
  BY <1>1, OpenAndSynced DEF Stages, Activating
<1>5. /\ Before /\ ~committed /\ seen[Journal] # 0 /\ ~Unjournaled
      /\ \A e \in Dest : Agree(e)
  BY <1>1, OpenAndSynced DEF Activating
<1> HIDE DEF d
<1>6. CASE proc.left = {} /\ Goto("preserve", Plan) /\ journal' = journal
  <2>1. /\ proc'.at = "preserve" /\ proc'.left = Plan /\ proc'.sync = "none" /\ proc'.then = proc.then
    BY <1>1, <1>2, <1>6, GotoFields
  <2>2. Open'
    BY <1>1, <1>5, <1>6, <2>1, SameFiles DEF Open
  <2>3. \A e \in Plan : seen[Backup(e)] = 0
    <3>1. \A e \in Dest : e \notin Backed \cup Activated
      BY <1>4 DEF Copying
    <3>2. \A e \in Dest : seen[Backup(e)] = 0
      BY <1>5, <3>1, SeenFacts DEF Undoable
    <3> QED BY <1>2, <3>2
  <2>4. Preserving'
    BY <1>1, <1>4, <1>6, <2>1, <2>3, SameJournal DEF Preserving, Copying, AllStaged, Preserved
  <2>5. Transaction'
    BY <1>1, <1>6, SameTransaction
  <2> QED BY <1>1, <2>1, <2>2, <2>4, <2>5, StillOpen DEF Activating
<1>7. CASE proc.left # {} /\ WriteIntent("stage", d) /\ Goto("copyFile", proc.left)
  <2>1. proc'.at = "copyFile" /\ proc'.left = proc.left /\ proc'.sync = "none" /\ proc'.then = proc.then
    BY <1>1, <1>2, <1>7, GotoFields
  <2>2. /\ Backed' = Backed /\ Activated' = Activated /\ Absent' = Absent
        /\ Written("stage")' = Written("stage") \cup {d}
        /\ Plan' = Plan /\ Replaced' = Replaced /\ journal'.target = journal.target
    BY <1>3, <1>7, IntentFields DEF Backed, Activated, Absent
  <2>3. Open'
    BY <1>1, <1>5, <2>1, <2>2, IntentKeeps DEF Open
  <2>4. Copying'
    BY <1>1, <1>4, <2>1, <2>2 DEF Copying, AllStaged
  <2>5. d \in Plan
    BY <1>3, <1>4, <1>7, WrittenTypes DEF Copying
  <2>6. Transaction'
    BY <1>1, <2>2, <2>5 DEF Transaction, Mentioned, Backed, Absent
  <2> QED BY <1>1, <2>1, <2>3, <2>4, <2>6, StillOpen DEF Activating
<1> QED BY <1>6, <1>7 DEF Copy, d

LEMMA CopyFileKeeps ==
  ASSUME RestoreTypeOK, Aimed, RestoreInv, CopyFile
  PROVE  RestoreInv'
<1> USE TypeParts DEF RestoreInv
<1> DEFINE d == First(proc.left)
           f == [seen EXCEPT ![Staged(d)] = journal.target[d]]
<1>1. /\ UNCHANGED <<journal, old, new, committed, result>> /\ Put(f)
      /\ proc.at = "copyFile" /\ proc.sync = "none"
  BY DEF CopyFile, historyVars, Step
<1>2. /\ proc \in Process /\ proc.left \in SUBSET Dest /\ "copy" \in Point
  BY DEF Process, Point
<1>3. d \in Dest /\ d \in proc.left /\ Home(d) \in Directory /\ Staged(d) \in Name
  BY <1>1, <1>2, FirstIsIn, NamesHaveADirectory DEF Aimed
<1>4. Open /\ Copying
  BY <1>1, OpenAndSynced DEF Stages, Activating
<1>5. /\ Before /\ ~committed /\ seen[Journal] # 0 /\ ~Unjournaled
      /\ \A e \in Dest : Agree(e)
  BY <1>1, OpenAndSynced DEF Activating
<1>6. f \in [Name -> Content]
  <2>1. journal.target[d] \in Content
    BY <1>3, <1>4, WrittenTypes DEF Copying
  <2> QED BY <2>1 DEF FilesTyped
<1>7. /\ \A e \in Dest : f[Live(e)] = seen[Live(e)] /\ f[Backup(e)] = seen[Backup(e)]
      /\ f[Journal] = seen[Journal]
      /\ f[Staged(d)] = journal.target[d]
      /\ \A e \in Dest \ {d} : f[Staged(e)] = seen[Staged(e)]
  BY <1>3, NamesAreDistinct, NamesHaveADirectory DEF FilesTyped
<1>8. proc'.at = "copy" /\ proc'.left = proc.left \ {d} /\ proc'.then = proc.then
  <2>1. Goto("copy", proc.left \ {d}) \/ GotoSynced("copy", proc.left \ {d}, Home(d))
    BY DEF CopyFile
  <2>2. proc.left \ {d} \in SUBSET Dest
    BY <1>2
  <2> HIDE DEF d
  <2> QED BY <1>2, <1>3, <2>1, <2>2, GotoFields, GotoSyncedFields
<1> HIDE DEF d, f
<1>9. seen' = f
  BY <1>1, <1>6, PutParts
<1>10. /\ Before' /\ ~Unjournaled' /\ \A e \in Dest : Agree(e)'
  BY <1>1, <1>5, <1>6, <1>7, QuietPut
<1>11. Open'
  BY <1>1, <1>5, <1>7, <1>9, <1>10 DEF Open
<1>12. Copying'
  BY <1>1, <1>3, <1>4, <1>7, <1>8, <1>9, SameJournal, WrittenTypes DEF Copying, AllStaged
<1>13. Transaction'
  BY <1>1, SameTransaction
<1> QED BY <1>1, <1>8, <1>11, <1>12, <1>13, StillOpen DEF Activating

LEMMA PreserveKeeps ==
  ASSUME RestoreTypeOK, Aimed, RestoreInv, Preserve
  PROVE  RestoreInv'
<1> USE TypeParts DEF RestoreInv
<1> DEFINE d == First(proc.left)
<1>1. /\ UNCHANGED <<seen, disk, old, new, committed, result>>
      /\ proc.at = "preserve" /\ proc.sync = "none"
  BY DEF Preserve, historyVars, Step
<1>2. /\ proc \in Process /\ proc.left \in SUBSET Dest
      /\ Plan \in SUBSET Dest /\ Replaced \in SUBSET Plan /\ Replaced \in SUBSET Dest
      /\ {"activate", "preserve", "preserveMove"} \subseteq Point
  BY WrittenTypes DEF Process, Point
<1>3. proc.left # {} => d \in Dest /\ d \in proc.left
  BY <1>2, FirstIsIn
<1>4. Open /\ Preserving
  BY <1>1, OpenAndSynced DEF Stages, Activating
<1>5. /\ Before /\ ~committed /\ seen[Journal] # 0 /\ ~Unjournaled
      /\ \A e \in Dest : Agree(e)
  BY <1>1, OpenAndSynced DEF Activating
<1> HIDE DEF d
<1>6. CASE proc.left = {} /\ Goto("activate", Replaced) /\ journal' = journal
  <2>1. /\ proc'.at = "activate" /\ proc'.left = Replaced /\ proc'.sync = "none" /\ proc'.then = proc.then
    BY <1>1, <1>2, <1>6, GotoFields
  <2>2. Open'
    BY <1>1, <1>5, <1>6, <2>1, SameFiles DEF Open
  <2>3. Activation'
    <3>1. Preserved(Plan) /\ AllStaged(Replaced) /\ \A e \in Plan : seen[Live(e)] = 0
      BY <1>4, <1>6 DEF Preserving
    <3>2. Installed(Plan \ Replaced)
      BY <3>1 DEF Installed, Replaced
    <3> QED BY <1>1, <1>4, <1>6, <2>1, <3>1, <3>2, SameJournal
            DEF Activation, Preserving, AllStaged, Preserved, Installed
  <2>4. Transaction'
    BY <1>1, <1>6, SameTransaction
  <2> QED BY <1>1, <2>1, <2>2, <2>3, <2>4, StillOpen DEF Activating
<1>7. proc.left # {} => /\ d \notin Backed /\ d \notin Activated /\ seen[Backup(d)] = 0
                        /\ d \in Plan /\ seen[Live(d)] = old[d]
  <2> SUFFICES ASSUME proc.left # {}
               PROVE  /\ d \notin Backed /\ d \notin Activated /\ seen[Backup(d)] = 0
                      /\ d \in Plan /\ seen[Live(d)] = old[d]
    OBVIOUS
  <2>1. d \notin Backed /\ d \notin Activated /\ seen[Backup(d)] = 0 /\ d \in Plan
    BY <1>1, <1>3, <1>4 DEF Preserving
  <2> QED BY <1>3, <1>5, <2>1, SeenFacts DEF Undoable
<1>8. CASE proc.left # {} /\ seen[Live(d)] = 0 /\ WriteIntent("absent", d) /\ Goto("preserve", proc.left \ {d})
  <2>1. /\ proc'.at = "preserve" /\ proc'.left = proc.left \ {d} /\ proc'.sync = "none"
        /\ proc'.then = proc.then
    <3>1. proc.left \ {d} \in SUBSET Dest
      BY <1>2
    <3> QED BY <1>1, <1>2, <1>8, <3>1, GotoFields
  <2>2. /\ Backed' = Backed /\ Activated' = Activated /\ Absent' = Absent \cup {d}
        /\ Written("stage")' = Written("stage")
        /\ Plan' = Plan /\ Replaced' = Replaced /\ journal'.target = journal.target
    BY <1>3, <1>8, IntentFields DEF Backed, Activated, Absent
  <2>3. Open'
    BY <1>1, <1>5, <2>1, <2>2, IntentKeeps DEF Open
  <2>4. Preserving'
    <3>1. /\ Activated' = {} /\ proc'.left \subseteq Plan' /\ AllStaged(Replaced)'
          /\ Backed' \cap proc'.left = {} /\ \A e \in proc'.left : seen'[Backup(e)] = 0
      BY <1>1, <1>4, <2>1, <2>2 DEF Preserving, AllStaged
    <3>2. \A e \in Plan' \ proc'.left : e = d \/ e \in Plan \ proc.left
      BY <2>1, <2>2
    <3>3. Preserved(Plan \ proc.left)' /\ \A e \in Plan' \ proc'.left : seen'[Live(e)] = 0
      BY <1>1, <1>4, <1>7, <1>8, <2>2, <3>2 DEF Preserving, Preserved
    <3> QED BY <2>1, <3>1, <3>3 DEF Preserving, Preserved
  <2>5. Transaction'
    BY <1>1, <1>7, <1>8, <2>2 DEF Transaction, Mentioned, Backed, Absent
  <2> QED BY <1>1, <2>1, <2>3, <2>4, <2>5, StillOpen DEF Activating
<1>9. CASE proc.left # {} /\ seen[Live(d)] # 0 /\ WriteIntent("backup", d) /\ Goto("preserveMove", proc.left)
  <2>1. /\ proc'.at = "preserveMove" /\ proc'.left = proc.left /\ proc'.sync = "none"
        /\ proc'.then = proc.then
    BY <1>1, <1>2, <1>9, GotoFields
  <2>2. /\ Backed' = Backed \cup {d} /\ Activated' = Activated /\ Absent' = Absent
        /\ Written("stage")' = Written("stage")
        /\ Plan' = Plan /\ Replaced' = Replaced /\ journal'.target = journal.target
    BY <1>3, <1>9, IntentFields DEF Backed, Activated, Absent
  <2>3. Before' /\ ~Unjournaled' /\ \A e \in Dest : Agree(e)'
    <3>1. \A e \in Dest : Agree(e)'
      BY <1>1, <1>5 DEF Agree
    <3>2. ~Unjournaled'
      BY <1>1, <1>5 DEF Unjournaled
    <3>3. \A e \in Dest : \A g \in disk[Home(e)] : Undoable(e, g[Live(e)], g[Backup(e)])
      BY <1>5 DEF Before
    <3>4. \A e \in Dest : \A g \in disk[Home(e)] : Undoable(e, g[Live(e)], g[Backup(e)])'
      BY <1>1, <1>7, <1>9, <2>2, <3>3 DEF Undoable
    <3> QED BY <1>1, <3>1, <3>2, <3>4 DEF Before
  <2>4. Open'
    BY <1>1, <1>5, <2>3 DEF Open
  <2>5. Preserving'
    <3>1. /\ Activated' = {} /\ proc'.left \subseteq Plan' /\ AllStaged(Replaced)'
          /\ \A e \in proc'.left : seen'[Backup(e)] = 0
      BY <1>1, <1>4, <2>1, <2>2 DEF Preserving, AllStaged
    <3>2. Backed' \cap proc'.left = {First(proc'.left)}
      BY <1>1, <1>3, <1>4, <1>9, <2>1, <2>2 DEF Preserving, d
    <3>3. Preserved(Plan \ proc.left)' /\ \A e \in Plan' \ proc'.left : seen'[Live(e)] = 0
      <4>1. \A e \in Plan' \ proc'.left : e # d /\ e \in Plan \ proc.left
        BY <1>3, <1>9, <2>1, <2>2
      <4>2. \A e \in Plan \ proc.left : /\ e \in Backed \cup Absent /\ seen[Live(e)] = 0
                                        /\ e \in Backed => seen[Backup(e)] # 0
        BY <1>4 DEF Preserving, Preserved
      <4> QED BY <1>1, <2>2, <4>1, <4>2 DEF Preserved
    <3> QED BY <2>1, <3>1, <3>2, <3>3 DEF Preserving, Preserved
  <2>6. Transaction'
    BY <1>1, <1>7, <1>9, <2>2 DEF Transaction, Mentioned, Backed, Absent
  <2> QED BY <1>1, <2>1, <2>4, <2>5, <2>6, StillOpen DEF Activating
<1> QED BY <1>6, <1>8, <1>9 DEF Preserve, d

LEMMA RenamedFields ==
  ASSUME FilesTyped, NEW d \in Dest, NEW f,
         \/ f = [seen EXCEPT ![Backup(d)] = seen[Live(d)], ![Live(d)] = 0]
         \/ f = [seen EXCEPT ![Live(d)] = seen[Backup(d)], ![Backup(d)] = 0]
         \/ f = [seen EXCEPT ![Live(d)] = seen[Staged(d)], ![Staged(d)] = 0]
  PROVE  /\ \A e \in Dest \ {d} : /\ f[Live(e)] = seen[Live(e)] /\ f[Backup(e)] = seen[Backup(e)]
                                  /\ f[Staged(e)] = seen[Staged(e)]
         /\ f[Journal] = seen[Journal] /\ f[Marker] = seen[Marker]
<1> USE DEF FilesTyped
<1>1. /\ \A e \in Dest : /\ Live(e) \in Name /\ Backup(e) \in Name /\ Staged(e) \in Name
                       /\ Live(e) # Backup(e) /\ Live(e) # Staged(e) /\ Backup(e) # Staged(e)
                       /\ {Live(e), Backup(e), Staged(e)} \cap {Journal, Marker} = {}
      /\ Journal \in Name /\ Marker \in Name
  BY NamesAreDistinct, NamesHaveADirectory
<1>2. \A e \in Dest \ {d} : {Live(e), Backup(e), Staged(e)} \cap {Live(d), Backup(d), Staged(d)} = {}
  BY NamesAreDistinct
<1>3. \A n \in Name : n \notin {Live(d), Backup(d), Staged(d)} => f[n] = seen[n]
  <2> HIDE DEF Name, Live, Backup, Staged
  <2> QED OBVIOUS
<1> QED BY <1>1, <1>2, <1>3

(* A file of one destination was renamed and its directory is to be synced. *)
LEMMA RenamedOpen ==
  ASSUME NEW d \in Dest, Before', ~committed', seen'[Journal] # 0, ~Unjournaled',
         proc'.sync = Home(d), \A e \in Dest \ {d} : Agree(e)',
         seen'[Backup(d)] # 0 \/ (d \in Activated' \ Backed' /\ seen'[Live(d)] # 0)
  PROVE  Open'
BY DEF Open, Dirty

LEMMA PreserveMoveKeeps ==
  ASSUME RestoreTypeOK, Aimed, RestoreInv, PreserveMove
  PROVE  RestoreInv'
<1> USE TypeParts DEF RestoreInv
<1> DEFINE d == First(proc.left)
           f == [seen EXCEPT ![Backup(d)] = seen[Live(d)], ![Live(d)] = 0]
<1>1. /\ UNCHANGED <<journal, old, new, committed, result>> /\ Rename(Live(d), Backup(d))
      /\ proc.at = "preserveMove" /\ proc.sync = "none"
      /\ GotoSynced("preserve", proc.left \ {d}, Home(d))
  BY DEF PreserveMove, historyVars, Step
<1>2. /\ proc \in Process /\ proc.left \in SUBSET Dest /\ "preserve" \in Point
  BY DEF Process, Point
<1>3. /\ d \in Dest /\ d \in proc.left /\ Home(d) \in Directory
      /\ Live(d) \in Name /\ Backup(d) \in Name
  BY <1>1, <1>2, FirstIsIn, NamesHaveADirectory DEF Aimed
<1>4. Open /\ Preserving
  BY <1>1, OpenAndSynced DEF Stages, Activating
<1>5. /\ Before /\ ~committed /\ seen[Journal] # 0 /\ ~Unjournaled
      /\ \A e \in Dest : Agree(e)
  BY <1>1, OpenAndSynced DEF Activating
<1>6. /\ Put(f) /\ f \in [Name -> Content] /\ seen' = f
  BY <1>1, <1>3, RenameIs
<1>7. /\ \A e \in Dest \ {d} : /\ f[Live(e)] = seen[Live(e)] /\ f[Backup(e)] = seen[Backup(e)]
                               /\ f[Staged(e)] = seen[Staged(e)]
      /\ f[Journal] = seen[Journal]
  BY <1>3, RenamedFields
<1>8. f[Backup(d)] = seen[Live(d)] /\ f[Live(d)] = 0 /\ f[Staged(d)] = seen[Staged(d)]
  BY <1>3, NamesAreDistinct, NamesHaveADirectory DEF FilesTyped
<1>9. /\ proc'.at = "preserve" /\ proc'.left = proc.left \ {d} /\ proc'.sync = Home(d)
      /\ proc'.then = proc.then
  <2>1. proc.left \ {d} \in SUBSET Dest
    BY <1>2
  <2> QED BY <1>1, <1>2, <1>3, <2>1, GotoSyncedFields
<1> HIDE DEF f
<1>10. d \in Backed /\ seen[Backup(d)] = 0 /\ Backed \cap proc.left = {d}
  BY <1>1, <1>3, <1>4 DEF Preserving
<1>11. seen[Live(d)] = old[d] /\ old[d] # 0
  BY <1>3, <1>5, <1>10, SeenFacts DEF Undoable
<1> HIDE DEF d
<1>12. \A e \in Dest : Undoable(e, f[Live(e)], f[Backup(e)])
  <2>1. \A e \in Dest \ {d} : Undoable(e, f[Live(e)], f[Backup(e)])
    BY <1>5, <1>7, SeenFacts
  <2>2. Undoable(d, f[Live(d)], f[Backup(d)])
    BY <1>8, <1>10, <1>11 DEF Undoable
  <2> QED BY <2>1, <2>2
<1>13. Before' /\ ~Unjournaled'
  BY <1>1, <1>5, <1>6, <1>7, <1>12, PutBefore
<1>14. Open'
  <2>1. \A e \in Dest \ {d} : Agree(e)'
    BY <1>3, <1>5, <1>6, <1>7, PutAgree
  <2>2. seen'[Backup(d)] # 0
    BY <1>6, <1>8, <1>11
  <2> QED BY <1>1, <1>3, <1>5, <1>6, <1>7, <1>9, <1>13, <2>1, <2>2, RenamedOpen
<1>15. Preserving'
  <2>1. /\ Activated' = Activated /\ Backed' = Backed /\ Absent' = Absent
        /\ Plan' = Plan /\ Replaced' = Replaced /\ Replaced \subseteq Dest /\ Plan \subseteq Dest
    BY <1>1, SameJournal, WrittenTypes
  <2>2. /\ Activated' = {} /\ proc'.left \subseteq Plan' /\ AllStaged(Replaced)'
        /\ Backed' \cap proc'.left = {} /\ \A e \in proc'.left : seen'[Backup(e)] = 0
    BY <1>1, <1>2, <1>4, <1>6, <1>7, <1>8, <1>9, <1>10, <2>1 DEF Preserving, AllStaged
  <2>3. \A e \in Plan' \ proc'.left : e = d \/ (e # d /\ e \in Plan \ proc.left)
    BY <1>9, <2>1
  <2>4. \A e \in Plan \ proc.left : /\ e \in Backed \cup Absent /\ seen[Live(e)] = 0
                                    /\ e \in Backed => seen[Backup(e)] # 0
    BY <1>4 DEF Preserving, Preserved
  <2>5. Preserved(Plan \ proc.left)' /\ \A e \in Plan' \ proc'.left : seen'[Live(e)] = 0
    BY <1>6, <1>7, <1>8, <1>10, <1>11, <2>1, <2>3, <2>4 DEF Preserved
  <2> QED BY <1>9, <2>2, <2>5 DEF Preserving
<1>16. Transaction'
  BY <1>1, SameTransaction
<1> QED BY <1>1, <1>9, <1>14, <1>15, <1>16, StillOpen DEF Activating

LEMMA ActivateKeeps ==
  ASSUME RestoreTypeOK, Aimed, RestoreInv, Activate
  PROVE  RestoreInv'
<1> USE TypeParts DEF RestoreInv
<1> DEFINE d == First(proc.left)
<1>1. /\ UNCHANGED <<seen, disk, old, new, committed, result>>
      /\ proc.at = "activate" /\ proc.sync = "none"
  BY DEF Activate, historyVars, Step
<1>2. /\ proc \in Process /\ proc.left \in SUBSET Dest /\ {} \in SUBSET Dest
      /\ Plan \in SUBSET Dest /\ Replaced \in SUBSET Plan
      /\ {"activateMove", "seal"} \subseteq Point
  BY WrittenTypes DEF Process, Point
<1>3. proc.left # {} => d \in Dest /\ d \in proc.left
  BY <1>2, FirstIsIn
<1>4. Open /\ Activation
  BY <1>1, OpenAndSynced DEF Stages, Activating
<1>5. /\ Before /\ ~committed /\ seen[Journal] # 0 /\ ~Unjournaled
      /\ \A e \in Dest : Agree(e)
  BY <1>1, OpenAndSynced DEF Activating
<1> HIDE DEF d
<1>6. CASE proc.left = {} /\ Goto("seal", {}) /\ journal' = journal
  <2>1. proc'.at = "seal" /\ proc'.sync = "none" /\ proc'.then = proc.then
    BY <1>1, <1>2, <1>6, GotoFields
  <2>2. Open'
    BY <1>1, <1>5, <1>6, <2>1, SameFiles DEF Open
  <2>3. Sealing'
    BY <1>1, <1>4, <1>6, SameJournal DEF Activation, Sealing, Preserved, Installed
  <2>4. Transaction'
    BY <1>1, <1>6, SameTransaction
  <2> QED BY <1>1, <2>1, <2>2, <2>3, <2>4, StillOpen DEF Activating
<1>7. CASE proc.left # {} /\ WriteIntent("activate", d) /\ Goto("activateMove", proc.left)
  <2>1. /\ proc'.at = "activateMove" /\ proc'.left = proc.left /\ proc'.sync = "none"
        /\ proc'.then = proc.then
    BY <1>1, <1>2, <1>7, GotoFields
  <2>2. /\ Backed' = Backed /\ Activated' = Activated \cup {d} /\ Absent' = Absent
        /\ Written("stage")' = Written("stage")
        /\ Plan' = Plan /\ Replaced' = Replaced /\ journal'.target = journal.target
    BY <1>3, <1>7, IntentFields DEF Backed, Activated, Absent
  <2>3. d \in Backed \cup Absent /\ d \notin Activated
    BY <1>1, <1>2, <1>3, <1>4, <1>7 DEF Activation, Preserved
  <2>4. Before' /\ ~Unjournaled' /\ \A e \in Dest : Agree(e)'
    <3>1. \A e \in Dest : Agree(e)'
      BY <1>1, <1>5 DEF Agree
    <3>2. ~Unjournaled'
      BY <1>1, <1>5 DEF Unjournaled
    <3>3. \A e \in Dest : \A g \in disk[Home(e)] : Undoable(e, g[Live(e)], g[Backup(e)])
      BY <1>5 DEF Before
    <3>4. d \in Absent => old[d] = 0
      BY DEF Transaction
    <3>5. \A e \in Dest : \A g \in disk[Home(e)] : Undoable(e, g[Live(e)], g[Backup(e)])'
      BY <1>1, <2>2, <2>3, <3>3, <3>4 DEF Undoable
    <3> QED BY <1>1, <3>1, <3>2, <3>5 DEF Before
  <2>5. Open'
    BY <1>1, <1>5, <2>4 DEF Open
  <2>6. Activation'
    <3>1. Activated' \cap proc'.left = {First(proc'.left)}
      BY <1>1, <1>3, <1>4, <1>7, <2>1, <2>2 DEF Activation, d
    <3> QED BY <1>1, <1>4, <2>1, <2>2, <3>1 DEF Activation, AllStaged, Preserved, Installed
  <2>7. Transaction'
    BY <1>1, <2>2, <2>3 DEF Transaction, Mentioned, Backed, Absent
  <2> QED BY <1>1, <2>1, <2>5, <2>6, <2>7, StillOpen DEF Activating
<1> QED BY <1>6, <1>7 DEF Activate, d

LEMMA ActivateMoveKeeps ==
  ASSUME RestoreTypeOK, Aimed, RestoreInv, ActivateMove
  PROVE  RestoreInv'
<1> USE TypeParts DEF RestoreInv
<1> DEFINE d == First(proc.left)
           f == [seen EXCEPT ![Live(d)] = seen[Staged(d)], ![Staged(d)] = 0]
<1>1. /\ UNCHANGED <<journal, old, new, committed, result>> /\ Rename(Staged(d), Live(d))
      /\ proc.at = "activateMove" /\ proc.sync = "none"
      /\ GotoSynced("activate", proc.left \ {d}, Home(d))
  BY DEF ActivateMove, historyVars, Step
<1>2. /\ proc \in Process /\ proc.left \in SUBSET Dest /\ "activate" \in Point
  BY DEF Process, Point
<1>3. /\ d \in Dest /\ d \in proc.left /\ Home(d) \in Directory
      /\ Live(d) \in Name /\ Staged(d) \in Name
  BY <1>1, <1>2, FirstIsIn, NamesHaveADirectory DEF Aimed
<1>4. Open /\ Activation
  BY <1>1, OpenAndSynced DEF Stages, Activating
<1>5. /\ Before /\ ~committed /\ seen[Journal] # 0 /\ ~Unjournaled
      /\ \A e \in Dest : Agree(e)
  BY <1>1, OpenAndSynced DEF Activating
<1>6. /\ Put(f) /\ f \in [Name -> Content] /\ seen' = f
  BY <1>1, <1>3, RenameIs
<1>7. /\ \A e \in Dest \ {d} : /\ f[Live(e)] = seen[Live(e)] /\ f[Backup(e)] = seen[Backup(e)]
                               /\ f[Staged(e)] = seen[Staged(e)]
      /\ f[Journal] = seen[Journal]
  BY <1>3, RenamedFields
<1>8. f[Live(d)] = seen[Staged(d)] /\ f[Backup(d)] = seen[Backup(d)]
  BY <1>3, NamesAreDistinct, NamesHaveADirectory DEF FilesTyped
<1>9. /\ proc'.at = "activate" /\ proc'.left = proc.left \ {d} /\ proc'.sync = Home(d)
      /\ proc'.then = proc.then
  <2>1. proc.left \ {d} \in SUBSET Dest
    BY <1>2
  <2> QED BY <1>1, <1>2, <1>3, <2>1, GotoSyncedFields
<1> HIDE DEF f
<1>10. /\ d \in Activated /\ Activated \cap proc.left = {d}
       /\ d \in Plan /\ journal.target[d] # 0 /\ seen[Staged(d)] = journal.target[d]
       /\ d \in Backed => seen[Backup(d)] # 0
  BY <1>1, <1>3, <1>4 DEF Activation, AllStaged, Preserved, Replaced
<1> HIDE DEF d
<1>11. \A e \in Dest : Undoable(e, f[Live(e)], f[Backup(e)])
  <2>1. \A e \in Dest \ {d} : Undoable(e, f[Live(e)], f[Backup(e)])
    BY <1>5, <1>7, SeenFacts
  <2>2. Undoable(d, seen[Live(d)], seen[Backup(d)])
    BY <1>3, <1>5, SeenFacts
  <2>3. Undoable(d, f[Live(d)], f[Backup(d)])
    BY <1>8, <1>10, <2>2 DEF Undoable
  <2> QED BY <2>1, <2>3
<1>12. Before' /\ ~Unjournaled'
  BY <1>1, <1>5, <1>6, <1>7, <1>11, PutBefore
<1>13. /\ Activated' = Activated /\ Backed' = Backed /\ Absent' = Absent
       /\ Plan' = Plan /\ Replaced' = Replaced /\ Replaced \subseteq Dest /\ Plan \subseteq Dest
  BY <1>1, SameJournal, WrittenTypes
<1>14. Open'
  <2>1. \A e \in Dest \ {d} : Agree(e)'
    BY <1>3, <1>5, <1>6, <1>7, PutAgree
  <2>2. seen'[Backup(d)] # 0 \/ (d \in Activated' \ Backed' /\ seen'[Live(d)] # 0)
    <3>1. journal.target[d] # 0
      BY <1>10
    <3> QED BY <1>6, <1>8, <1>10, <1>13, <3>1
  <2> QED BY <1>1, <1>3, <1>5, <1>6, <1>7, <1>9, <1>12, <2>1, <2>2, RenamedOpen
<1>15. Activation'
  <2>1. proc'.left \subseteq Replaced' /\ Activated' \cap proc'.left = {}
    BY <1>4, <1>9, <1>10, <1>13 DEF Activation
  <2>2. AllStaged(proc.left)'
    BY <1>1, <1>2, <1>4, <1>6, <1>7, <1>9 DEF Activation, AllStaged
  <2>3. Installed(Plan \ proc.left)'
    <3>1. \A e \in Plan' \ proc'.left : e = d \/ (e # d /\ e \in Plan \ proc.left)
      BY <1>9, <1>13
    <3> QED BY <1>1, <1>4, <1>6, <1>7, <1>8, <1>10, <1>13, <3>1 DEF Activation, Installed
  <2>4. Preserved(Plan)'
    BY <1>4, <1>6, <1>7, <1>8, <1>13 DEF Activation, Preserved
  <2> QED BY <1>9, <2>1, <2>2, <2>3, <2>4 DEF Activation
<1>16. Transaction'
  BY <1>1, SameTransaction
<1> QED BY <1>1, <1>9, <1>14, <1>15, <1>16, StillOpen DEF Activating

LEMMA SealKeeps ==
  ASSUME RestoreTypeOK, Aimed, RestoreInv, Seal
  PROVE  RestoreInv'
<1> USE TypeParts DEF RestoreInv
<1> DEFINE f == [seen EXCEPT ![MarkerTemporary] = journal.id]
<1>1. /\ UNCHANGED <<journal, old, new, committed, result>> /\ Put(f)
      /\ proc.at = "seal" /\ proc.sync = "none" /\ Goto("sealRename", {})
  BY DEF Seal, historyVars, Step
<1>2. proc \in Process /\ {} \in SUBSET Dest /\ "sealRename" \in Point /\ Plan \in SUBSET Dest
  BY WrittenTypes DEF Process, Point
<1>3. Open /\ Sealing
  BY <1>1, OpenAndSynced DEF Stages, Activating
<1>4. /\ Before /\ ~committed /\ seen[Journal] # 0 /\ ~Unjournaled
      /\ \A e \in Dest : Agree(e)
  BY <1>1, OpenAndSynced DEF Activating
<1>5. f \in [Name -> Content]
  BY WrittenTypes DEF FilesTyped
<1>6. /\ \A e \in Dest : f[Live(e)] = seen[Live(e)] /\ f[Backup(e)] = seen[Backup(e)]
      /\ f[Journal] = seen[Journal] /\ f[MarkerTemporary] = journal.id
  BY NamesAreDistinct, NamesHaveADirectory DEF FilesTyped
<1>7. /\ proc'.at = "sealRename" /\ proc'.sync = "none" /\ proc'.then = proc.then
  BY <1>1, <1>2, GotoFields
<1> HIDE DEF f
<1>8. seen' = f
  BY <1>1, <1>5, PutParts
<1>9. /\ Before' /\ ~Unjournaled' /\ \A e \in Dest : Agree(e)'
  BY <1>1, <1>4, <1>5, <1>6, QuietPut
<1>10. Open'
  BY <1>1, <1>4, <1>6, <1>8, <1>9 DEF Open
<1>11. Sealing'
  BY <1>1, <1>2, <1>3, <1>6, <1>8, SameJournal DEF Sealing, Preserved, Installed
<1>12. Transaction'
  BY <1>1, SameTransaction
<1> QED BY <1>1, <1>6, <1>7, <1>8, <1>10, <1>11, <1>12, StillOpen DEF Activating

LEMMA SealRenameKeeps ==
  ASSUME RestoreTypeOK, Aimed, RestoreInv, SealRename
  PROVE  RestoreInv'
<1> USE TypeParts DEF RestoreInv
<1> DEFINE f == [seen EXCEPT ![Marker] = seen[MarkerTemporary], ![MarkerTemporary] = 0]
<1>1. /\ UNCHANGED <<journal, old, new, committed, result>> /\ Rename(MarkerTemporary, Marker)
      /\ proc.at = "sealRename" /\ proc.sync = "none" /\ GotoSynced("commit", {}, "managed")
  BY DEF SealRename, historyVars, Step
<1>2. proc \in Process /\ {} \in SUBSET Dest /\ "commit" \in Point /\ Plan \in SUBSET Dest
  BY WrittenTypes DEF Process, Point
<1>3. Open /\ Sealing /\ seen[MarkerTemporary] = journal.id
  BY <1>1, OpenAndSynced DEF Stages, Activating
<1>4. /\ Before /\ ~committed /\ seen[Journal] # 0 /\ ~Unjournaled
      /\ \A e \in Dest : Agree(e)
  BY <1>1, OpenAndSynced DEF Activating
<1>5. Put(f) /\ f \in [Name -> Content] /\ seen' = f
  BY <1>1, NamesHaveADirectory, RenameIs
<1>6. /\ \A e \in Dest : f[Live(e)] = seen[Live(e)] /\ f[Backup(e)] = seen[Backup(e)]
      /\ f[Journal] = seen[Journal] /\ f[Marker] = journal.id
  BY <1>3, NamesAreDistinct, NamesHaveADirectory DEF FilesTyped
<1>7. /\ proc'.at = "commit" /\ proc'.sync = "managed" /\ proc'.then = proc.then
  BY <1>1, <1>2, NamesHaveADirectory, GotoSyncedFields
<1> HIDE DEF f
<1>9. /\ Before' /\ ~Unjournaled' /\ \A e \in Dest : Agree(e)'
  BY <1>1, <1>4, <1>5, <1>6, QuietPut
<1>10. Open'
  BY <1>1, <1>4, <1>5, <1>6, <1>9 DEF Open
<1>11. Sealing'
  BY <1>1, <1>2, <1>3, <1>5, <1>6, SameJournal DEF Sealing, Preserved, Installed
<1>12. Transaction'
  BY <1>1, SameTransaction
<1>13. Stages'
  BY <1>1, <1>4, <1>5, <1>6, <1>7, <1>10, <1>11 DEF Stages, Activating, Clean, Finishing, Undoing, Discarding
<1>14. proc.then = "check" /\ result = "none"
  BY <1>1 DEF Courses, Reports, Activating
<1>15. Courses' /\ Reports'
  BY <1>1, <1>7, <1>14 DEF Courses, Reports, Activating, Clean, Finishing, Undoing, Discarding
<1> QED BY <1>1, <1>4, <1>9, <1>12, <1>13, <1>15

(***************************************************************************)
(* The clean-up.                                                           *)
(***************************************************************************)

(* Unlinking one file leaves the others. *)
LEMMA UnlinkedFields ==
  ASSUME FilesTyped, NEW n \in Name, NEW f, f = [seen EXCEPT ![n] = 0]
  PROVE  f[n] = 0 /\ \A m \in Name : m # n => f[m] = seen[m]
<1> HIDE DEF Name
<1> QED BY DEF FilesTyped

LEMMA UnlinkAlike ==
  ASSUME FilesTyped, NEW n \in Name, Unlink(n), NEW dir \in Directory, Alike(dir),
         n \in NamesOf(dir) \cap Kept => seen[n] = 0
  PROVE  Alike(dir)'
<1> DEFINE f == [seen EXCEPT ![n] = 0]
<1>1. Put(f) /\ f \in [Name -> Content]
  BY UnlinkIs
<1>2. f[n] = 0 /\ \A m \in Name : m # n => f[m] = seen[m]
  BY UnlinkedFields
<1> HIDE DEF f
<1>3. \A m \in NamesOf(dir) \cap Kept : f[m] = seen[m]
  BY <1>2, NamesHaveADirectory
<1> QED BY <1>1, <1>3, PutAlike

LEMMA KeptNames ==
  /\ \A d \in Dest : Staged(d) \notin Kept
  /\ MarkerTemporary \notin Kept
  /\ \A d \in Dest : \A dir \in Directory : dir # Home(d) =>
       {Live(d), Backup(d), Staged(d)} \cap NamesOf(dir) = {}
  /\ {Journal, Marker, MarkerTemporary} \cap NamesOf("objects") = {}
<1>1. \A d \in Dest : Staged(d) \notin Kept
  BY NamesAreDistinct, NamesHaveADirectory DEF Kept
<1>2. MarkerTemporary \notin Kept
  BY NamesAreDistinct, NamesHaveADirectory DEF Kept
<1>3. \A n \in Name : ~(n \in NamesOf("objects") /\ n \in NamesOf("managed"))
  BY NamesHaveADirectory
<1>4. {Journal, Marker, MarkerTemporary} \cap NamesOf("objects") = {}
  BY <1>3, NamesHaveADirectory
<1>5. \A d \in Dest : \A dir \in Directory : dir # Home(d) =>
        {Live(d), Backup(d), Staged(d)} \cap NamesOf(dir) = {}
  BY <1>3, NamesHaveADirectory DEF Directory
<1> QED BY <1>1, <1>2, <1>4, <1>5

(* Removing what no recovery needs. *)
LEMMA QuietUnlink ==
  ASSUME FilesTyped, UNCHANGED <<journal, old, new>>, NEW n \in Name, Unlink(n),
         n = MarkerTemporary \/ (\E d \in Dest : n = Staged(d)) \/ n = Marker
  PROVE  /\ Before => Before'
         /\ AllOld => AllOld'
         /\ seen'[Journal] = seen[Journal]
         /\ \A d \in Dest : seen'[Backup(d)] = seen[Backup(d)]
         /\ n # Marker \/ seen[Journal] = 0 => (After => After')
         /\ \A d \in Dest : (Agree(d)' <=> Agree(d)) /\ (Dirty(d)' <=> Dirty(d))
<1> DEFINE f == [seen EXCEPT ![n] = 0]
<1>1. Put(f) /\ f \in [Name -> Content] /\ seen' = f
  BY UnlinkIs
<1>2. \A m \in Name : m # n => f[m] = seen[m]
  BY UnlinkedFields
<1> HIDE DEF f
<1>3. /\ \A d \in Dest : f[Live(d)] = seen[Live(d)] /\ f[Backup(d)] = seen[Backup(d)]
      /\ f[Journal] = seen[Journal] /\ (n # Marker => f[Marker] = seen[Marker])
  BY <1>2, NamesAreDistinct, NamesHaveADirectory
<1>4. n # Marker \/ seen[Journal] = 0 => (After => After')
  BY <1>1, <1>3, QuietPutAfter
<1> QED BY <1>1, <1>3, <1>4, QuietPut

LEMMA StillCleaning ==
  ASSUME RestoreInv, proc.at \in Finishing \cup {"orphan", "orphanMarker"},
         proc'.at \in Finishing \cup {"orphan", "orphanMarker", "end"},
         proc'.then = proc.then, UNCHANGED <<committed, result>>,
         Transaction', Before' \/ After', After => After', AllOld => AllOld', InSync',
         proc'.at \in Clean => seen'[Journal] = 0,
         proc'.at \in Finishing => After',
         proc'.at = "finish" => /\ proc'.left \subseteq Backed'
                                /\ \A d \in Backed' \ proc'.left : seen'[Backup(d)] = 0,
         proc'.at \in {"finishStaged", "finishJournal"} => \A d \in Dest : seen'[Backup(d)] = 0
  PROVE  RestoreInv'
<1>1. Stages'
  BY DEF Stages, Clean, Finishing, Activating, Undoing, Discarding
<1>2. Courses'
  BY DEF RestoreInv, Courses, Clean, Finishing, Activating, Undoing, Discarding
<1>3. Reports'
  BY DEF RestoreInv, Reports, Finishing
<1> QED BY <1>1, <1>2, <1>3 DEF RestoreInv

LEMMA FinishKeeps ==
  ASSUME RestoreTypeOK, RestoreInv, Finish
  PROVE  RestoreInv'
<1> USE TypeParts
<1> DEFINE d == First(proc.left)
<1>1. /\ UNCHANGED <<journal, old, new, committed, result>>
      /\ proc.at = "finish" /\ proc.sync = "none"
  BY DEF Finish, historyVars, Step
<1>2. /\ proc \in Process /\ proc.left \in SUBSET Dest /\ Written("stage") \in SUBSET Dest
      /\ {"finish", "finishStaged"} \subseteq Point
  BY WrittenTypes DEF Process, Point
<1>3. /\ InSync /\ After /\ proc.left \subseteq Backed
      /\ \A e \in Backed \ proc.left : seen[Backup(e)] = 0
      /\ \A dir \in Directory : Alike(dir)
  BY <1>1 DEF RestoreInv, Stages, Finishing, InSync, Directory
<1>4. Transaction' /\ Backed' = Backed
  BY <1>1, SameTransaction, SameJournal DEF RestoreInv
<1>5. CASE proc.left = {} /\ UNCHANGED <<seen, disk>> /\ Goto("finishStaged", Written("stage"))
  <2>1. proc'.at = "finishStaged" /\ proc'.sync = "none" /\ proc'.then = proc.then
    BY <1>1, <1>2, <1>5, GotoFields
  <2>2. /\ Before' <=> Before
        /\ After' <=> After
        /\ AllOld' <=> AllOld
        /\ \A dir \in Directory : Alike(dir)'
    BY <1>1, <1>3, <1>5, SameFiles
  <2>3. \A e \in Dest : seen[Backup(e)] = 0
    BY <1>3, <1>5, SeenParts DEF After
  <2> QED BY <1>1, <1>3, <1>4, <1>5, <2>1, <2>2, <2>3, StillCleaning DEF Finishing, Clean, InSync
<1>6. CASE proc.left # {} /\ Remove(Backup(d), "finish")
  <2>1. /\ d \in Dest /\ d \in proc.left /\ Backup(d) \in Name /\ Home(d) \in Directory
        /\ proc.left \ {d} \in SUBSET Dest
    BY <1>2, <1>6, FirstIsIn, NamesHaveADirectory
  <2>2. CASE seen[Backup(d)] = 0
    <3>1. UNCHANGED <<seen, disk>> /\ Goto("finish", proc.left \ {d})
      BY <1>6, <2>2 DEF Remove
    <3>2. /\ proc'.at = "finish" /\ proc'.sync = "none" /\ proc'.then = proc.then
          /\ proc'.left = proc.left \ {d}
      BY <1>1, <1>2, <2>1, <3>1, GotoFields
    <3>3. /\ Before' <=> Before
          /\ After' <=> After
          /\ AllOld' <=> AllOld
          /\ \A dir \in Directory : Alike(dir)'
      BY <1>1, <1>3, <3>1, SameFiles
    <3> HIDE DEF d
    <3>4. \A e \in Backed' \ proc'.left : seen'[Backup(e)] = 0
      BY <1>3, <1>4, <2>2, <3>1, <3>2
    <3> QED BY <1>1, <1>3, <1>4, <3>2, <3>3, <3>4, StillCleaning DEF Finishing, Clean, InSync
  <2>3. CASE seen[Backup(d)] # 0
    <3> DEFINE f == [seen EXCEPT ![Backup(d)] = 0]
    <3>1. Unlink(Backup(d)) /\ GotoSynced("finish", proc.left \ {d}, Home(d))
      BY <1>6, <2>3 DEF Remove
    <3>2. /\ proc'.at = "finish" /\ proc'.sync = Home(d) /\ proc'.then = proc.then
          /\ proc'.left = proc.left \ {d}
      BY <1>1, <1>2, <2>1, <3>1, GotoSyncedFields
    <3>3. Put(f) /\ f \in [Name -> Content] /\ seen' = f
      BY <2>1, <3>1, UnlinkIs
    <3>4. f[Backup(d)] = 0 /\ \A m \in Name : m # Backup(d) => f[m] = seen[m]
      BY <2>1, UnlinkedFields
    <3> HIDE DEF d, f
    <3>5. /\ \A e \in Dest : /\ f[Live(e)] = seen[Live(e)]
                             /\ f[Backup(e)] = IF e = d THEN 0 ELSE seen[Backup(e)]
          /\ f[Journal] = seen[Journal] /\ f[Marker] = seen[Marker]
      BY <2>1, <3>4, NamesAreDistinct, NamesHaveADirectory
    <3>6. After'
      <4>1. \A e \in Dest : f[Live(e)] = new[e] /\ (e \notin Backed \/ Unjournaled => f[Backup(e)] = 0)
        BY <1>3, <3>5, SeenParts DEF After
      <4>2. f[Journal] # 0 => f[Marker] = journal.id
        BY <1>3, <3>5, SeenFacts
      <4>3. f[Journal] = 0 => \A e \in Dest : f[Backup(e)] = 0 /\ \A g \in disk[Home(e)] : g[Backup(e)] = 0
        BY <1>3, <3>5, <4>1, SeenFacts DEF After
      <4> QED BY <1>1, <1>3, <3>3, <4>1, <4>2, <4>3, PutAfter
    <3>8. AllOld => AllOld'
      BY <3>3, <3>5, <1>1, SeenFacts, PutAllOld
    <3>9. InSync'
      BY <1>3, <2>1, <3>1, <3>2, UnlinkAlike, KeptNames DEF InSync
    <3>10. \A e \in Backed' \ proc'.left : seen'[Backup(e)] = 0
      BY <1>3, <1>4, <3>2, <3>3, <3>5, WrittenTypes DEF Backed
    <3> QED BY <1>1, <1>3, <1>4, <3>2, <3>6, <3>8, <3>9, <3>10, StillCleaning DEF Finishing, Clean
  <2> QED BY <2>2, <2>3
<1> QED BY <1>5, <1>6 DEF Finish

LEMMA FinishStagedKeeps ==
  ASSUME RestoreTypeOK, RestoreInv, FinishStaged
  PROVE  RestoreInv'
<1> USE TypeParts
<1> DEFINE d == First(proc.left)
<1>1. /\ UNCHANGED <<journal, old, new, committed, result>>
      /\ proc.at = "finishStaged" /\ proc.sync = "none"
  BY DEF FinishStaged, historyVars, Step
<1>2. /\ proc \in Process /\ proc.left \in SUBSET Dest /\ {} \in SUBSET Dest
      /\ {"finishJournal", "finishStaged"} \subseteq Point
  BY DEF Process, Point
<1>3. /\ InSync /\ After /\ \A e \in Dest : seen[Backup(e)] = 0
      /\ \A dir \in Directory : Alike(dir)
  BY <1>1 DEF RestoreInv, Stages, Finishing, InSync, Directory
<1>4. Transaction' /\ Backed' = Backed
  BY <1>1, SameTransaction, SameJournal DEF RestoreInv
<1>5. ASSUME UNCHANGED <<seen, disk>>, NEW at \in {"finishJournal", "finishStaged"},
             NEW left \in SUBSET Dest, Goto(at, left)
      PROVE  RestoreInv'
  <2>1. proc'.at = at /\ proc'.sync = "none" /\ proc'.then = proc.then
    BY <1>1, <1>2, <1>5, GotoFields
  <2>2. /\ Before' <=> Before
        /\ After' <=> After
        /\ AllOld' <=> AllOld
        /\ \A dir \in Directory : Alike(dir)'
    BY <1>1, <1>3, <1>5, SameFiles
  <2> QED BY <1>1, <1>3, <1>4, <1>5, <2>1, <2>2, StillCleaning DEF Finishing, Clean, InSync
<1>6. CASE proc.left # {} /\ Remove(Staged(d), "finishStaged")
  <2>1. /\ d \in Dest /\ d \in proc.left /\ Staged(d) \in Name /\ Home(d) \in Directory
        /\ proc.left \ {d} \in SUBSET Dest
    BY <1>2, <1>6, FirstIsIn, NamesHaveADirectory
  <2>2. CASE seen[Staged(d)] = 0
    BY <1>5, <1>6, <2>1, <2>2 DEF Remove
  <2>3. CASE seen[Staged(d)] # 0
    <3>1. Unlink(Staged(d)) /\ GotoSynced("finishStaged", proc.left \ {d}, Home(d))
      BY <1>6, <2>3 DEF Remove
    <3>2. proc'.at = "finishStaged" /\ proc'.sync = Home(d) /\ proc'.then = proc.then
      BY <1>1, <1>2, <2>1, <3>1, GotoSyncedFields
    <3>3. Staged(d) # Marker
      BY <2>1, NamesAreDistinct DEF Meta, Marker
    <3> HIDE DEF d
    <3>4. /\ After' /\ (AllOld => AllOld')
          /\ \A e \in Dest : seen'[Backup(e)] = 0
      BY <1>1, <1>3, <2>1, <3>1, <3>3, QuietUnlink
    <3>5. InSync'
      BY <1>3, <2>1, <3>1, UnlinkAlike, KeptNames DEF InSync
    <3> QED BY <1>1, <1>3, <1>4, <3>2, <3>4, <3>5, StillCleaning DEF Finishing, Clean
  <2> QED BY <2>2, <2>3
<1> QED BY <1>2, <1>5, <1>6 DEF FinishStaged

LEMMA FinishJournalKeeps ==
  ASSUME RestoreTypeOK, RestoreInv, FinishJournal
  PROVE  RestoreInv'
<1> USE TypeParts
<1> DEFINE f == [seen EXCEPT ![Journal] = 0]
<1>1. /\ UNCHANGED <<journal, old, new, committed, result>>
      /\ proc.at = "finishJournal" /\ proc.sync = "none"
      /\ Unlink(Journal) /\ GotoSynced("orphan", {}, "managed")
  BY DEF FinishJournal, historyVars, Step
<1>2. /\ proc \in Process /\ {} \in SUBSET Dest /\ "orphan" \in Point
      /\ "managed" \in Directory /\ Journal \in Name
  BY NamesHaveADirectory DEF Point
<1>3. /\ InSync /\ After /\ \A e \in Dest : seen[Backup(e)] = 0
      /\ \A dir \in Directory : Alike(dir)
  BY <1>1 DEF RestoreInv, Stages, Finishing, InSync, Directory
<1>4. Transaction' /\ Backed' = Backed
  BY <1>1, SameTransaction, SameJournal DEF RestoreInv
<1>5. proc'.at = "orphan" /\ proc'.sync = "managed" /\ proc'.then = proc.then
  BY <1>1, <1>2, GotoSyncedFields
<1>6. Put(f) /\ f \in [Name -> Content] /\ seen' = f
  BY <1>1, <1>2, UnlinkIs
<1>7. f[Journal] = 0 /\ \A m \in Name : m # Journal => f[m] = seen[m]
  BY <1>2, UnlinkedFields
<1> HIDE DEF f
<1>8. \A e \in Dest : f[Live(e)] = seen[Live(e)] /\ f[Backup(e)] = seen[Backup(e)]
  BY <1>7, NamesAreDistinct, NamesHaveADirectory DEF Meta, Journal
<1>9. After'
  <2>1. \A e \in Dest : \A g \in disk[Home(e)] : g[Backup(e)] = 0
    BY <1>3, AgreeWhenAlike, NamesHaveADirectory DEF Agree
  <2>2. \A e \in Dest : f[Live(e)] = new[e] /\ f[Backup(e)] = 0
    BY <1>3, <1>8, SeenFacts
  <2> QED BY <1>1, <1>3, <1>6, <1>7, <2>1, <2>2, PutAfter
<1>10. AllOld => AllOld'
  BY <1>1, <1>6, <1>8, SeenFacts, PutAllOld
<1>11. InSync'
  BY <1>1, <1>2, <1>3, <1>5, UnlinkAlike, KeptNames DEF InSync, Directory
<1> QED BY <1>1, <1>4, <1>5, <1>6, <1>7, <1>9, <1>10, <1>11, StillCleaning DEF Finishing, Clean

LEMMA OrphanKeeps ==
  ASSUME RestoreTypeOK, RestoreInv, Orphan \/ OrphanMarker
  PROVE  RestoreInv'
<1> USE TypeParts
<1>1. /\ UNCHANGED <<journal, old, new, committed, result>>
      /\ proc.at \in {"orphan", "orphanMarker"} /\ proc.sync = "none"
      /\ proc \in Process
  BY DEF Orphan, OrphanMarker, historyVars, Step
<1>2. /\ InSync /\ seen[Journal] = 0 /\ \A dir \in Directory : Alike(dir)
  BY <1>1 DEF RestoreInv, Stages, Clean, InSync, Directory
<1>3. Transaction' /\ (Before \/ After)
  BY <1>1, SameTransaction DEF RestoreInv
<1>4. ASSUME NEW n \in {MarkerTemporary, Marker}, Unlink(n), InSync',
             proc'.then = proc.then, proc'.at \in {"orphanMarker", "end"}
      PROVE  RestoreInv'
  <2>1. n \in Name
    BY NamesHaveADirectory
  <2>2. /\ Before => Before'
        /\ AllOld => AllOld'
        /\ After => After'
        /\ seen'[Journal] = 0
    BY <1>1, <1>2, <1>4, <2>1, QuietUnlink
  <2> QED BY <1>1, <1>3, <1>4, <2>2, StillCleaning DEF Finishing, Clean
<1>5. CASE Orphan
  <2>1. /\ Unlink(MarkerTemporary)
        /\ proc'.at = "orphanMarker" /\ proc'.then = proc.then /\ proc'.sync = "none"
    BY <1>1, <1>5 DEF Orphan, Process
  <2>2. InSync'
    BY <1>2, <2>1, UnlinkAlike, KeptNames, NamesHaveADirectory DEF InSync
  <2> QED BY <1>4, <2>1, <2>2
<1>6. CASE OrphanMarker
  <2>1. /\ Unlink(Marker) /\ proc'.at = "end" /\ proc'.then = proc.then
        /\ proc'.sync = "managed" \/ seen[Marker] = 0
    BY <1>1, <1>6 DEF OrphanMarker, Process
  <2>2. InSync'
    BY <1>2, <2>1, UnlinkAlike, KeptNames, NamesHaveADirectory DEF InSync, Directory
  <2> QED BY <1>4, <2>1, <2>2
<1> QED BY <1>5, <1>6

LEMMA DiscardKeeps ==
  ASSUME RestoreTypeOK, RestoreInv, Discard \/ DiscardMarker \/ DiscardJournal
  PROVE  RestoreInv'
<1> USE TypeParts
<1>1. /\ UNCHANGED <<journal, old, new, committed, result>>
      /\ proc.at \in Discarding /\ proc.sync = "none" /\ proc \in Process
  BY DEF Discard, DiscardMarker, DiscardJournal, historyVars, Step, Discarding
<1>2. Before /\ AllOld /\ ~committed /\ proc.then \in {"check", "failed"} /\ result = "none"
  BY <1>1 DEF RestoreInv, Stages, Courses, Reports, Discarding
<1>3. Transaction' /\ {} \in SUBSET Dest
  BY <1>1, SameTransaction DEF RestoreInv
<1>4. ASSUME Before', AllOld', proc'.then = proc.then,
             \/ proc'.at \in Discarding
             \/ proc'.at = "end" /\ InSync' /\ seen'[Journal] = 0
      PROVE  RestoreInv'
  <2>1. Stages'
    BY <1>1, <1>2, <1>4 DEF Stages, Clean, Finishing, Activating, Undoing, Discarding
  <2>2. Courses' /\ Reports'
    BY <1>1, <1>2, <1>4 DEF Courses, Reports, Clean, Finishing, Activating, Undoing, Discarding
  <2> QED BY <1>1, <1>2, <1>3, <1>4, <2>1, <2>2 DEF RestoreInv
<1>5. CASE Discard
  <2>1. Unlink(MarkerTemporary) /\ Goto("discardMarker", {}) /\ "discardMarker" \in Point
    BY <1>5 DEF Discard, Point
  <2>2. proc'.at = "discardMarker" /\ proc'.then = proc.then
    BY <1>1, <1>3, <2>1, GotoFields
  <2>3. Before' /\ AllOld'
    BY <1>1, <1>2, <2>1, NamesHaveADirectory, QuietUnlink
  <2> QED BY <1>4, <2>2, <2>3 DEF Discarding
<1>6. CASE DiscardMarker
  <2>1. /\ Unlink(Marker) /\ GotoSynced("discardJournal", {}, "managed")
        /\ "discardJournal" \in Point /\ "managed" \in Directory
    BY <1>6 DEF DiscardMarker, Point, Directory
  <2>2. proc'.at = "discardJournal" /\ proc'.then = proc.then
    BY <1>1, <1>3, <2>1, GotoSyncedFields
  <2>3. Before' /\ AllOld'
    BY <1>1, <1>2, <2>1, NamesHaveADirectory, QuietUnlink
  <2> QED BY <1>4, <2>2, <2>3 DEF Discarding
<1>7. CASE DiscardJournal
  <2> DEFINE f == [seen EXCEPT ![Journal] = 0]
  <2>1. /\ Unlink(Journal) /\ GotoSynced("end", {}, "managed")
        /\ "end" \in Point /\ "managed" \in Directory /\ "objects" \in Directory /\ Journal \in Name
    BY <1>7, NamesHaveADirectory DEF DiscardJournal, Point
  <2>2. proc'.at = "end" /\ proc'.then = proc.then /\ proc'.sync = "managed"
    BY <1>1, <1>3, <2>1, GotoSyncedFields
  <2>3. Put(f) /\ f \in [Name -> Content] /\ seen' = f
    BY <2>1, UnlinkIs
  <2>4. f[Journal] = 0 /\ \A m \in Name : m # Journal => f[m] = seen[m]
    BY <2>1, UnlinkedFields
  <2> HIDE DEF f
  <2>5. \A e \in Dest : f[Live(e)] = seen[Live(e)] /\ f[Backup(e)] = seen[Backup(e)]
    BY <2>4, NamesAreDistinct, NamesHaveADirectory DEF Meta, Journal
  <2>6. \A e \in Dest : f[Live(e)] = old[e] /\ f[Backup(e)] = 0
    BY <1>2, <2>5, SeenFacts
  <2>7. AllOld'
    BY <1>1, <1>2, <2>3, <2>6, PutAllOld
  <2>8. \A e \in Dest : Undoable(e, f[Live(e)], f[Backup(e)])
    BY <1>2, <2>5, SeenFacts
  <2>9. Before'
    BY <1>1, <1>2, <2>3, <2>6, <2>8, PutBefore
  <2>10. InSync'
    <3>1. \A e \in Object : Agree(e)
      <4>1. \A e \in Object : e \in Dest
        BY DEF Dest
      <4> QED BY <1>2, <4>1, SeenFacts DEF AllOld, Agree
    <3>2. Alike("objects")
      BY <3>1, AlikeWhenAgree
    <3> QED BY <2>1, <2>2, <3>2, UnlinkAlike, KeptNames DEF InSync, Directory
  <2> QED BY <1>4, <2>2, <2>3, <2>4, <2>7, <2>9, <2>10
<1> QED BY <1>5, <1>6, <1>7

(***************************************************************************)
(* The rollback, and failing steps, kills and power losses.                *)
(***************************************************************************)

LEMMA StillUndoing ==
  ASSUME RestoreInv, proc.at \in Activating \cup Undoing \cup {"commit"},
         proc.then \in {"check", "failed"}, result = "none",
         proc'.at \in Undoing, proc'.then \in {"check", "failed"}, result' = result,
         Transaction', Rollback',
         proc'.at = "undoMove" => (NextUndo \in Backed /\ seen[Backup(NextUndo)] # 0)',
         proc'.at = "undoStaged" /\ ~proc'.bad => ~Dirty(NextUndo)'
  PROVE  RestoreInv'
<1>1. Before' /\ ~committed'
  BY DEF Rollback
<1>2. Stages'
  BY DEF Stages, Clean, Finishing, Activating, Undoing, Discarding
<1>3. Courses' /\ Reports'
  BY DEF Courses, Reports, Clean, Finishing, Activating, Undoing, Discarding
<1> QED BY <1>1, <1>2, <1>3 DEF RestoreInv

(* What a rollback starts its next step with. *)
LEMMA UndoFacts ==
  ASSUME RestoreTypeOK, RestoreInv, proc.at \in Undoing
  PROVE  /\ proc \in Process /\ proc.left \in SUBSET Dest
         /\ Before /\ ~committed /\ proc.left \subseteq Mentioned
         /\ proc.then \in {"check", "failed"} /\ result = "none"
         /\ {"undo", "undoMove", "undoStaged", "discard"} \subseteq Point
         /\ Transaction /\ FilesTyped
BY TypeParts DEF RestoreInv, Stages, Rollback, Courses, Reports, Undoing, Process, Point

(* The rollback of one destination leaves those of the others. *)
LEMMA RollbackOfOne ==
  ASSUME FilesTyped, UNCHANGED <<journal, old, new, committed>>, Rollback, proc.sync = "none",
         NEW d \in proc.left, proc.left \in SUBSET Dest,
         NEW f \in [Name -> Content], Put(f),
         \A e \in Dest \ {d} : f[Live(e)] = seen[Live(e)] /\ f[Backup(e)] = seen[Backup(e)],
         f[Journal] = seen[Journal], Undoable(d, f[Live(d)], f[Backup(d)]),
         Unjournaled => f[Live(d)] = old[d] /\ f[Backup(d)] = 0,
         proc'.left = proc.left, proc'.sync = Home(d), proc'.bad = proc.bad
  PROVE  Rollback'
<1>1. seen' = f /\ Before
  BY PutParts DEF Rollback
<1>2. Before'
  <2>1. Unjournaled => \A e \in Dest : seen[Live(e)] = old[e] /\ seen[Backup(e)] = 0
    BY <1>1, SeenFacts DEF Before
  <2>2. f[Journal] # 0 \/ Unjournaled
    BY SeenFacts
  <2>3. (Unjournaled \/ f[Journal] = 0) => \A e \in Dest : f[Live(e)] = old[e] /\ f[Backup(e)] = 0
    BY <2>1, <2>2
  <2>4. \A e \in Dest : Undoable(e, f[Live(e)], f[Backup(e)])
    BY <1>1, SeenFacts
  <2> QED BY <1>1, <2>2, <2>3, <2>4, PutBefore
<1>3. \A e \in Dest \ {d} : (Agree(e) => Agree(e)') /\ (Dirty(e)' <=> Dirty(e))
  BY <1>1, PutAgree, SameJournal DEF Dirty
<1>4. Mentioned' = Mentioned /\ \A e \in Dest : Home(e) # "none"
  BY SameJournal DEF Home
<1> QED BY <1>1, <1>2, <1>3, <1>4 DEF Rollback

LEMMA UndoKeeps ==
  ASSUME RestoreTypeOK, RestoreInv, Undo
  PROVE  RestoreInv'
<1> DEFINE d == NextUndo
           preserved == d \in Backed /\ seen[Backup(d)] # 0
           created   == d \notin Backed /\ d \in Activated
           next      == IF preserved THEN "undoMove" ELSE "undoStaged"
           f == [seen EXCEPT ![Live(d)] = 0]
<1>1. /\ UNCHANGED <<journal, old, new, committed, result>>
      /\ proc.at = "undo" /\ proc.sync = "none" /\ proc.left # {}
  BY DEF Undo, historyVars, Step
<1>2. /\ proc \in Process /\ proc.left \in SUBSET Dest
      /\ Before /\ ~committed /\ proc.left \subseteq Mentioned
      /\ proc.then \in {"check", "failed"} /\ result = "none"
      /\ {"undo", "undoMove", "undoStaged"} \subseteq Point
      /\ Transaction /\ FilesTyped
  BY <1>1, UndoFacts DEF Undoing
<1>3. Rollback
  BY <1>1 DEF RestoreInv, Stages, Undoing
<1>4. d \in proc.left /\ d \in Dest /\ Home(d) \in Directory /\ Live(d) \in Name
  BY <1>1, <1>2, NextUndoIsIn
<1>5. /\ Backed' = Backed /\ Activated' = Activated /\ Mentioned' = Mentioned
      /\ Written("stage")' = Written("stage")
      /\ Transaction'
  BY <1>1, <1>2, SameJournal, SameTransaction
<1>6. Undoable(d, seen[Live(d)], seen[Backup(d)])
  BY <1>2, <1>4, SeenFacts
<1>7. IF (preserved \/ created) /\ seen[Live(d)] # 0
      THEN Unlink(Live(d)) /\ GotoSynced(next, proc.left, Home(d))
      ELSE UNCHANGED <<seen, disk>> /\ Goto(next, proc.left)
  BY DEF Undo, Backed, Activated
<1>8. next \in Point /\ next \in Undoing
  BY <1>2 DEF Undoing
<1>9. proc'.left = proc.left => NextUndo' = d
  BY <1>5 DEF NextUndo
<1>10. CASE (preserved \/ created) /\ seen[Live(d)] # 0
  <2>1. Unlink(Live(d)) /\ GotoSynced(next, proc.left, Home(d))
    BY <1>7, <1>10
  <2>2. /\ proc'.at = next /\ proc'.left = proc.left /\ proc'.sync = Home(d)
        /\ proc'.bad = proc.bad /\ proc'.then = proc.then
    <3> HIDE DEF d, next
    <3> QED BY <1>2, <1>4, <1>8, <2>1, GotoSyncedFields
  <2>3. Put(f) /\ f \in [Name -> Content] /\ seen' = f
    BY <1>2, <1>4, <2>1, UnlinkIs
  <2>4. f[Live(d)] = 0 /\ \A m \in Name : m # Live(d) => f[m] = seen[m]
    BY <1>2, <1>4, UnlinkedFields
  <2> HIDE DEF f
  <2>5. /\ \A e \in Dest \ {d} : f[Live(e)] = seen[Live(e)] /\ f[Backup(e)] = seen[Backup(e)]
        /\ f[Backup(d)] = seen[Backup(d)] /\ f[Journal] = seen[Journal]
    BY <1>4, <2>4, NamesAreDistinct, NamesHaveADirectory
  <2>6. Undoable(d, f[Live(d)], f[Backup(d)])
    BY <1>6, <1>10, <2>4, <2>5 DEF Undoable
  <2>7. Unjournaled => f[Live(d)] = old[d] /\ f[Backup(d)] = 0
    <3> SUFFICES ASSUME Unjournaled PROVE f[Live(d)] = old[d] /\ f[Backup(d)] = 0
      OBVIOUS
    <3>1. seen[Backup(d)] = 0
      BY <1>2, <1>4, SeenFacts DEF Before
    <3> QED BY <1>6, <1>10, <2>4, <2>5, <3>1 DEF Undoable
  <2>8. Rollback'
    BY <1>1, <1>2, <1>3, <1>4, <2>2, <2>3, <2>5, <2>6, <2>7, RollbackOfOne
  <2>9. next = "undoMove" => (NextUndo \in Backed /\ seen[Backup(NextUndo)] # 0)'
    <3>1. next = "undoMove" => d \in Backed /\ seen'[Backup(d)] # 0
      BY <2>3, <2>5
    <3> HIDE DEF d
    <3> QED BY <1>5, <1>9, <2>2, <3>1
  <2>10. next = "undoStaged" => ~Dirty(NextUndo)'
    <3>1. next = "undoStaged" => seen'[Backup(d)] = 0 /\ seen'[Live(d)] = 0
      BY <1>6, <1>10, <2>3, <2>4, <2>5 DEF Undoable
    <3> HIDE DEF d
    <3> QED BY <1>9, <2>2, <3>1 DEF Dirty
  <2> HIDE DEF next, d
  <2> QED BY <1>1, <1>2, <1>5, <1>8, <1>9, <2>2, <2>8, <2>9, <2>10, StillUndoing DEF Undoing
<1>11. CASE ~((preserved \/ created) /\ seen[Live(d)] # 0)
  <2>1. UNCHANGED <<seen, disk>> /\ Goto(next, proc.left)
    BY <1>7, <1>11
  <2>2. /\ proc'.at = next /\ proc'.left = proc.left /\ proc'.sync = "none"
        /\ proc'.bad = proc.bad /\ proc'.then = proc.then
    <3> HIDE DEF d, next
    <3> QED BY <1>1, <1>2, <1>4, <1>8, <2>1, GotoFields
  <2>3. Rollback'
    BY <1>1, <1>3, <1>5, <2>1, <2>2, SameFiles DEF Rollback
  <2>4. next = "undoMove" => (NextUndo \in Backed /\ seen[Backup(NextUndo)] # 0)'
    <3>1. next = "undoMove" => d \in Backed /\ seen'[Backup(d)] # 0
      BY <2>1
    <3> HIDE DEF d
    <3> QED BY <1>5, <1>9, <2>2, <3>1
  <2>5. next = "undoStaged" => ~Dirty(NextUndo)'
    <3>1. next = "undoStaged" => seen[Backup(d)] = 0 /\ ~(d \in Activated \ Backed /\ seen[Live(d)] # 0)
      BY <1>6, <1>11 DEF Undoable
    <3> HIDE DEF d
    <3> QED BY <1>5, <1>9, <2>1, <2>2, <3>1 DEF Dirty
  <2> HIDE DEF next, d
  <2> QED BY <1>1, <1>2, <1>5, <1>8, <1>9, <2>1, <2>2, <2>3, <2>4, <2>5, StillUndoing DEF Undoing
<1> QED BY <1>10, <1>11

LEMMA UndoMoveKeeps ==
  ASSUME RestoreTypeOK, Aimed, RestoreInv, UndoMove
  PROVE  RestoreInv'
<1> DEFINE d == NextUndo
           f == [seen EXCEPT ![Live(d)] = seen[Backup(d)], ![Backup(d)] = 0]
<1>1. /\ UNCHANGED <<journal, old, new, committed, result>>
      /\ proc.at = "undoMove" /\ proc.sync = "none" /\ proc.left # {}
      /\ Rename(Backup(d), Live(d)) /\ GotoSynced("undoStaged", proc.left, Home(d))
  BY DEF UndoMove, historyVars, Step, Aimed
<1>2. /\ proc \in Process /\ proc.left \in SUBSET Dest
      /\ Before /\ ~committed /\ proc.left \subseteq Mentioned
      /\ proc.then \in {"check", "failed"} /\ result = "none"
      /\ {"undo", "undoMove", "undoStaged"} \subseteq Point
      /\ Transaction /\ FilesTyped
  BY <1>1, UndoFacts DEF Undoing
<1>3. Rollback /\ d \in Backed /\ seen[Backup(d)] # 0
  BY <1>1 DEF RestoreInv, Stages, Undoing
<1>4. /\ d \in proc.left /\ d \in Dest /\ Home(d) \in Directory
      /\ Live(d) \in Name /\ Backup(d) \in Name
  BY <1>1, <1>2, NextUndoIsIn
<1>5. /\ Backed' = Backed /\ Activated' = Activated /\ Mentioned' = Mentioned
      /\ Written("stage")' = Written("stage")
      /\ Transaction'
  BY <1>1, <1>2, SameJournal, SameTransaction
<1>6. Undoable(d, seen[Live(d)], seen[Backup(d)])
  BY <1>2, <1>4, SeenFacts
<1>7. Put(f) /\ f \in [Name -> Content] /\ seen' = f
  BY <1>1, <1>2, <1>4, RenameIs
<1>8. /\ \A e \in Dest \ {d} : f[Live(e)] = seen[Live(e)] /\ f[Backup(e)] = seen[Backup(e)]
      /\ f[Journal] = seen[Journal]
  BY <1>2, <1>4, RenamedFields
<1>9. f[Live(d)] = seen[Backup(d)] /\ f[Backup(d)] = 0
  BY <1>2, <1>4, NamesAreDistinct DEF FilesTyped
<1>10. /\ proc'.at = "undoStaged" /\ proc'.left = proc.left /\ proc'.sync = Home(d)
       /\ proc'.bad = proc.bad /\ proc'.then = proc.then
  <2> HIDE DEF d
  <2> QED BY <1>1, <1>2, <1>4, GotoSyncedFields
<1> HIDE DEF f, d
<1>11. Undoable(d, f[Live(d)], f[Backup(d)])
  BY <1>3, <1>6, <1>9 DEF Undoable
<1>12. ~Unjournaled
  BY <1>2, <1>3, <1>4, SeenFacts DEF Before
<1>13. Rollback'
  BY <1>1, <1>2, <1>3, <1>4, <1>7, <1>8, <1>10, <1>11, <1>12, RollbackOfOne
<1>14. NextUndo' = d
  BY <1>5, <1>10 DEF NextUndo, d
<1>15. ~Dirty(NextUndo)'
  BY <1>3, <1>5, <1>7, <1>9, <1>14 DEF Dirty
<1> QED BY <1>1, <1>2, <1>5, <1>10, <1>13, <1>15, StillUndoing DEF Undoing

LEMMA UndoStagedKeeps ==
  ASSUME RestoreTypeOK, Aimed, RestoreInv, UndoStaged
  PROVE  RestoreInv'
<1> DEFINE d == NextUndo
<1>1. /\ UNCHANGED <<journal, old, new, committed, result>>
      /\ proc.at = "undoStaged" /\ proc.sync = "none" /\ proc.left # {}
      /\ IF seen[Staged(d)] # 0
         THEN Unlink(Staged(d)) /\ GotoSynced("undo", proc.left \ {d}, Home(d))
         ELSE UNCHANGED <<seen, disk>> /\ Goto("undo", proc.left \ {d})
  BY DEF UndoStaged, historyVars, Step, Aimed
<1>2. /\ proc \in Process /\ proc.left \in SUBSET Dest
      /\ Before /\ ~committed /\ proc.left \subseteq Mentioned
      /\ proc.then \in {"check", "failed"} /\ result = "none"
      /\ {"undo", "undoMove", "undoStaged"} \subseteq Point
      /\ Transaction /\ FilesTyped
  BY <1>1, UndoFacts DEF Undoing
<1>3. Rollback /\ (proc.bad \/ ~Dirty(d))
  BY <1>1 DEF RestoreInv, Stages, Undoing
<1>4. /\ d \in proc.left /\ d \in Dest /\ Home(d) \in Directory
      /\ Staged(d) \in Name /\ proc.left \ {d} \in SUBSET Dest
  BY <1>1, <1>2, NextUndoIsIn
<1>5. Mentioned' = Mentioned /\ Transaction'
  BY <1>1, <1>2, SameJournal, SameTransaction
<1> HIDE DEF d
<1>6. /\ proc'.at = "undo" /\ proc'.left = proc.left \ {d}
      /\ proc'.bad = proc.bad /\ proc'.then = proc.then
  BY <1>1, <1>2, <1>4, GotoFields, GotoSyncedFields
<1>7. /\ Before'
      /\ \A e \in Dest : (Agree(e)' <=> Agree(e)) /\ (Dirty(e)' <=> Dirty(e))
  <2>1. CASE seen[Staged(d)] # 0
    BY <1>1, <1>2, <1>4, <2>1, QuietUnlink
  <2>2. CASE seen[Staged(d)] = 0
    BY <1>1, <1>2, <2>2, SameFiles
  <2> QED BY <2>1, <2>2
<1>8. Rollback'
  <2>1. \A e \in Dest : Home(e) # "none"
    BY DEF Home
  <2> QED BY <1>1, <1>2, <1>3, <1>4, <1>5, <1>6, <1>7, <2>1 DEF Rollback
<1> QED BY <1>1, <1>2, <1>5, <1>6, <1>8, StillUndoing DEF Undoing

(* A process ended, and what it did is on the disk. *)
LEMMA EndedKeeps ==
  ASSUME RestoreInv, UNCHANGED <<journal, old, new, committed>>, proc' = NoProcess,
         \A dir \in Directory : /\ disk'[dir] \subseteq disk[dir]
                                /\ \A g \in disk'[dir] : \A n \in NamesOf(dir) : g[n] = seen'[n],
         \/ result' = result \/ result' = "broken" \/ result' = "refused"
         \/ (result' = "failed" /\ AllOld /\ ~committed) \/ (result' = "restored" /\ committed)
  PROVE  RestoreInv'
<1> USE DEF RestoreInv
<1>1. proc'.at = "idle" /\ proc'.sync = "none" /\ proc'.then = "failed"
  BY NoProcessFields
<1>2. /\ Before => Before'
      /\ After => After'
      /\ AllOld => AllOld'
  BY FewerFiles
<1>3. InSync'
  BY DEF InSync, Alike
<1>4. Stages'
  BY <1>1, <1>3 DEF Stages, Clean, Finishing, Activating, Undoing, Discarding
<1>5. Courses'
  BY <1>1 DEF Courses, Clean, Finishing, Activating, Undoing, Discarding
<1>6. Reports'
  BY <1>1, <1>2 DEF Reports
<1>7. Transaction'
  BY SameTransaction
<1> QED BY <1>2, <1>4, <1>5, <1>6, <1>7

LEMMA UndoDoneKeeps ==
  ASSUME RestoreTypeOK, RestoreInv, UndoDone
  PROVE  RestoreInv'
<1>1. /\ UNCHANGED <<seen, journal, old, new, committed>>
      /\ proc.at = "undo" /\ proc.sync = "none" /\ proc.left = {}
      /\ \/ ~proc.bad /\ Goto("discard", {}) /\ result' = result
         \/ proc.bad /\ proc' = NoProcess /\ result' = "broken"
      /\ IF proc.bad THEN Abandon ELSE disk' = disk
  BY DEF UndoDone, historyVars, Step
<1>2. /\ proc \in Process /\ {} \in SUBSET Dest
      /\ Before /\ ~committed
      /\ proc.then \in {"check", "failed"} /\ result = "none"
      /\ "discard" \in Point
      /\ Transaction /\ FilesTyped
  BY <1>1, UndoFacts DEF Undoing
<1>3. Rollback
  BY <1>1 DEF RestoreInv, Stages, Undoing
<1>4. CASE ~proc.bad
  <2>1. /\ disk' = disk /\ result' = result
        /\ proc'.at = "discard" /\ proc'.then = proc.then
    BY <1>1, <1>2, <1>4, GotoFields
  <2>2. AllOld
    <3>1. \A d \in Dest : ~Dirty(d) /\ Agree(d)
      BY <1>1, <1>3, <1>4 DEF Rollback, Home
    <3> QED BY <1>2, <3>1, UndirtyIsOld DEF AllOld, Agree
  <2>3. Before' /\ AllOld' /\ Transaction'
    BY <1>1, <1>2, <2>1, <2>2, SameFiles
  <2>4. Stages'
    BY <1>1, <1>2, <2>1, <2>3 DEF Stages, Clean, Finishing, Activating, Undoing, Discarding
  <2>5. Courses' /\ Reports'
    BY <1>1, <1>2, <2>1 DEF Courses, Reports, Clean, Finishing, Activating, Undoing, Discarding
  <2> QED BY <1>1, <1>2, <2>3, <2>4, <2>5 DEF RestoreInv
<1>5. CASE proc.bad
  <2>1. \A dir \in Directory : /\ disk'[dir] \subseteq disk[dir]
                               /\ \A g \in disk'[dir] : \A n \in NamesOf(dir) : g[n] = seen'[n]
    BY <1>1, <1>2, <1>5, AbandonIs
  <2> QED BY <1>1, <1>5, <2>1, EndedKeeps
<1> QED BY <1>4, <1>5

LEMMA ActivationFailsKeeps ==
  ASSUME RestoreTypeOK, RestoreInv, ActivationFails
  PROVE  RestoreInv'
<1> USE TypeParts
<1>1. /\ UNCHANGED <<seen, disk, journal, old, new, committed, result>>
      /\ proc.at \in Activating \/ (proc.at = "commit" /\ proc.sync # "none")
      /\ proc \in Process
  BY DEF ActivationFails, historyVars
<1>2. Open /\ proc.then = "check" /\ result = "none"
  BY <1>1 DEF RestoreInv, Stages, Courses, Reports, Activating
<1>3. proc'.at = "undo" /\ proc'.left = Mentioned /\ proc'.sync = "none" /\ proc'.then = "failed"
  BY <1>1 DEF ActivationFails, Process
<1>4. Rollback'
  <2>1. Before' /\ ~committed' /\ Mentioned' = Mentioned
    BY <1>1, <1>2, SameFiles, SameJournal DEF Open
  <2>2. \A d \in Dest \ Mentioned : ~Dirty(d)
    BY <1>2, Undirty DEF Open, RestoreInv
  <2>3. \A d \in Dest : Agree(d) \/ Dirty(d)
    BY <1>2 DEF Open
  <2>4. \A d \in Dest : (Agree(d)' <=> Agree(d)) /\ (Dirty(d)' <=> Dirty(d))
    BY <1>1, SameFiles
  <2> QED BY <1>3, <2>1, <2>2, <2>3, <2>4 DEF Rollback
<1>5. Transaction'
  BY <1>1, SameTransaction DEF RestoreInv
<1> QED BY <1>1, <1>2, <1>3, <1>4, <1>5, StillUndoing DEF Undoing

LEMMA UndoFailsKeeps ==
  ASSUME RestoreTypeOK, RestoreInv, UndoFails
  PROVE  RestoreInv'
<1>1. /\ UNCHANGED <<seen, disk, journal, old, new, committed, result>>
      /\ proc.at \in Undoing
  BY DEF UndoFails, historyVars, Undoing
<1>2. /\ proc \in Process /\ proc.left \in SUBSET Dest
      /\ Before /\ ~committed /\ proc.left \subseteq Mentioned
      /\ proc.then \in {"check", "failed"} /\ result = "none"
      /\ Transaction
  BY <1>1, UndoFacts
<1>3. /\ proc'.at \in Undoing /\ proc'.then = proc.then /\ proc'.bad = TRUE
      /\ proc'.left \subseteq proc.left
  BY <1>2 DEF UndoFails, Process, Undoing, Step
<1>4. /\ Before' /\ Transaction' /\ Mentioned' = Mentioned /\ Backed' = Backed
      /\ Written("stage")' = Written("stage")
  BY <1>1, <1>2, SameFiles, SameJournal
<1>5. Rollback'
  BY <1>1, <1>2, <1>3, <1>4 DEF Rollback
<1>6. proc'.at = "undoMove" => (NextUndo \in Backed /\ seen[Backup(NextUndo)] # 0)'
  <2> SUFFICES ASSUME proc'.at = "undoMove"
               PROVE  (NextUndo \in Backed /\ seen[Backup(NextUndo)] # 0)'
    OBVIOUS
  <2>1. proc'.left = proc.left
    BY <1>2 DEF UndoFails, Process, Step
  <2>2. NextUndo' = NextUndo
    BY <1>4, <2>1 DEF NextUndo
  <2>3. NextUndo \in Backed /\ seen[Backup(NextUndo)] # 0
    <3>1. CASE proc.at = "undoMove"
      BY <3>1 DEF RestoreInv, Stages
    <3>2. CASE proc.at # "undoMove"
      BY <1>2, <3>2 DEF UndoFails, Process, Step, Backed
    <3> QED BY <3>1, <3>2
  <2> QED BY <1>1, <1>4, <2>2, <2>3
<1> QED BY <1>1, <1>2, <1>3, <1>4, <1>5, <1>6, StillUndoing

LEMMA EndingFailuresKeep ==
  ASSUME RestoreTypeOK, RestoreInv, RecoveryFails \/ Kill \/ PowerLoss
  PROVE  RestoreInv'
<1> USE TypeParts
<1>1. UNCHANGED <<journal, old, new, committed>> /\ proc' = NoProcess
  BY DEF RecoveryFails, Kill, PowerLoss, PowerGone
<1>2. \A dir \in Directory : /\ disk'[dir] \subseteq disk[dir]
                             /\ \A g \in disk'[dir] : \A n \in NamesOf(dir) : g[n] = seen'[n]
  <2>1. CASE PowerLoss
    BY <2>1, LossParts DEF PowerLoss, Outcomes, FilesTyped
  <2>2. CASE Kill \/ RecoveryFails
    BY <2>2, AbandonIs DEF Kill, RecoveryFails
  <2> QED BY <2>1, <2>2
<1>3. CASE Kill \/ PowerLoss
  BY <1>1, <1>2, <1>3, EndedKeeps DEF Kill, PowerLoss, PowerGone
<1>4. CASE RecoveryFails
  <2>1. proc.at \in Recovering /\ result' = Outcome /\ proc \in Process
    BY <1>4 DEF RecoveryFails
  <2>2. proc.then \in {"check", "failed", "restored", "open"}
    BY <2>1 DEF Process
  <2>3. proc.then = "failed" => AllOld /\ ~committed
    BY <2>1 DEF Recovering, RestoreInv, Courses, Stages, Finishing, Discarding
  <2>4. proc.then = "restored" => committed
    BY DEF RestoreInv, Courses
  <2> QED BY <1>1, <1>2, <2>1, <2>2, <2>3, <2>4, EndedKeeps DEF Outcome
<1> QED BY <1>3, <1>4

(***************************************************************************)
(* The theorems.                                                           *)
(***************************************************************************)

LEMMA InitInv == RestoreInit => RestoreTypeOK /\ Aimed /\ RestoreInv
<1> SUFFICES ASSUME RestoreInit PROVE RestoreTypeOK /\ Aimed /\ RestoreInv
  OBVIOUS
<1>1. /\ journal = NoJournal /\ proc = NoProcess /\ old = Project /\ new = Project
      /\ committed = FALSE /\ result = "none"
      /\ disk = [dir \in Directory |-> {Part(seen, dir)}]
  BY DEF RestoreInit
<1>2. RestoreTypeOK
  BY TypeInit
<1>3. /\ proc.at = "idle" /\ proc.left = {} /\ proc.sync = "none" /\ proc.then = "failed"
  BY <1>1, NoProcessFields
<1>4. \A op : Written(op) = {}
  BY <1>1 DEF Written, NoJournal
<1>5. Plan = {}
  BY <1>1 DEF Plan, NoJournal, NoTargets
<1>6. /\ \A d \in Dest : seen[Backup(d)] = 0
      /\ seen[Journal] = 0
  <2>1. \A n \in Name : n[2] # "live" => seen[n] = 0
    BY DEF RestoreInit
  <2>2. /\ \A d \in Dest : Backup(d) \in Name /\ Backup(d)[2] = "backup"
        /\ Journal \in Name /\ Journal[2] = "journal"
    BY NamesHaveADirectory DEF Backup, Journal
  <2> HIDE DEF Name, Dest, Backup, Journal
  <2> QED BY <2>1, <2>2
<1>7. \A dir \in Directory : \A g \in disk[dir] : \A n \in NamesOf(dir) : g[n] = seen[n]
  BY <1>1 DEF Part
<1>8. InSync
  BY <1>7 DEF InSync, Alike
<1>9. AllOld /\ Before
  <2>1. \A d \in Dest : \A g \in disk[Home(d)] : g[Live(d)] = seen[Live(d)] /\ g[Backup(d)] = 0
    BY <1>6, <1>7, NamesHaveADirectory
  <2>2. \A d \in Dest : old[d] = seen[Live(d)]
    BY <1>1 DEF Project, ProjectIn
  <2>3. AllOld
    BY <2>1, <2>2 DEF AllOld
  <2> QED BY <1>4, <2>1, <2>2, <2>3 DEF Before, Undoable, Backed, Activated
<1>10. Transaction
  BY <1>1, <1>4, <1>5 DEF Transaction, Mentioned, Activated, Backed, Absent
<1>11. Stages
  BY <1>1, <1>3, <1>8 DEF Stages, Clean, Finishing, Activating, Undoing, Discarding
<1>12. Courses /\ Reports
  BY <1>1, <1>3 DEF Courses, Reports, Clean, Finishing, Activating, Undoing, Discarding
<1>13. Aimed
  BY <1>3 DEF Aimed
<1> QED BY <1>1, <1>2, <1>9, <1>10, <1>11, <1>12, <1>13 DEF RestoreInv

LEMMA InvKept ==
  ASSUME RestoreTypeOK, Aimed, RestoreInv, [RestoreNext]_restoreVars, ~lost'
  PROVE  RestoreInv'
<1>1. CASE UNCHANGED restoreVars
  <2>1. /\ Before' <=> Before
        /\ After' <=> After
        /\ AllOld' <=> AllOld
        /\ Transaction' <=> Transaction
    BY <1>1, SameFiles DEF restoreVars
  <2>2. UNCHANGED <<seen, disk, journal, proc, old, new, committed, result>>
    BY <1>1 DEF restoreVars
  <2>3. Stages' /\ Courses' /\ Reports'
    <3>1. UNCHANGED <<Backed, Absent, Activated, Mentioned, Plan, Replaced, NextUndo>>
      BY <2>2, SameJournal DEF NextUndo
    <3>2. \A dir \in Directory : Alike(dir)' <=> Alike(dir)
      BY <2>2, SameFiles
    <3>3. InSync' <=> InSync
      BY <2>2, <3>2 DEF InSync
    <3>4. \A d \in Dest : (Agree(d)' <=> Agree(d)) /\ (Dirty(d)' <=> Dirty(d))
      BY <2>2, SameFiles
    <3>5. Open' <=> Open
      BY <2>1, <2>2, <3>4, SameFiles DEF Open
    <3>6. Rollback' <=> Rollback
      BY <2>1, <2>2, <3>1, <3>4 DEF Rollback
    <3>7. /\ Copying' <=> Copying
          /\ Preserving' <=> Preserving
          /\ Activation' <=> Activation
          /\ Sealing' <=> Sealing
      BY <2>2, <3>1 DEF Copying, Preserving, Activation, Sealing, AllStaged, Installed, Preserved
    <3>8. Dirty(NextUndo)' <=> Dirty(NextUndo)
      BY <2>2, <3>1 DEF Dirty
    <3>9. Stages'
      BY <2>1, <2>2, <3>1, <3>3, <3>5, <3>6, <3>7, <3>8 DEF RestoreInv, Stages
    <3> QED BY <2>1, <2>2, <3>9 DEF RestoreInv, Courses, Reports
  <2> QED BY <2>1, <2>2, <2>3 DEF RestoreInv
<1>2. CASE (\E force \in BOOLEAN : StartApply(force)) \/ StartRuntime
  BY <1>2, StartKeeps
<1>3. CASE Inspect \/ End \/ Stop \/ Check \/ Commit
  BY <1>3, InspectKeeps, PlainKeeps, CommitKeeps
<1>4. CASE SyncDirectory \/ Begin
  BY <1>4, SyncKeeps, BeginKeeps
<1>5. CASE Copy \/ CopyFile \/ Preserve \/ PreserveMove
  BY <1>5, CopyKeeps, CopyFileKeeps, PreserveKeeps, PreserveMoveKeeps
<1>6. CASE Activate \/ ActivateMove \/ Seal \/ SealRename
  BY <1>6, ActivateKeeps, ActivateMoveKeeps, SealKeeps, SealRenameKeeps
<1>7. CASE Finish \/ FinishStaged \/ FinishJournal \/ Orphan \/ OrphanMarker
  BY <1>7, FinishKeeps, FinishStagedKeeps, FinishJournalKeeps, OrphanKeeps
<1>8. CASE Undo \/ UndoMove \/ UndoStaged \/ UndoDone
  BY <1>8, UndoKeeps, UndoMoveKeeps, UndoStagedKeeps, UndoDoneKeeps
<1>9. CASE Discard \/ DiscardMarker \/ DiscardJournal
  BY <1>9, DiscardKeeps
<1>10. CASE ActivationFails \/ RecoveryFails \/ UndoFails \/ Kill \/ PowerLoss
  BY <1>10, ActivationFailsKeeps, UndoFailsKeeps, EndingFailuresKeep
<1>11. ~StalePowerLoss
  BY DEF StalePowerLoss
<1> QED BY <1>1, <1>2, <1>3, <1>4, <1>5, <1>6, <1>7, <1>8, <1>9, <1>10, <1>11 DEF RestoreNext, Work

(* What was lost stays lost.                                                 *)
LEMMA LostStays ==
  ASSUME [RestoreNext]_restoreVars, lost = TRUE
  PROVE  lost' = TRUE
<1>1. CASE UNCHANGED restoreVars
  BY <1>1 DEF restoreVars
<1>2. CASE \/ SyncDirectory \/ Begin \/ UndoDone \/ RecoveryFails \/ Kill \/ PowerLoss
           \/ StalePowerLoss
  BY <1>2 DEF SyncDirectory, Begin, UndoDone, RecoveryFails, Kill, PowerLoss, StalePowerLoss
<1>3. CASE \/ \E force \in BOOLEAN : StartApply(force)
           \/ StartRuntime \/ Stop \/ Inspect \/ End \/ Check \/ Commit
           \/ Copy \/ CopyFile \/ Preserve \/ PreserveMove \/ Activate \/ ActivateMove
           \/ Seal \/ SealRename
  BY <1>3 DEF StartApply, StartRuntime, Stop, Inspect, End, Check, Commit, Copy, CopyFile,
              Preserve, PreserveMove, Activate, ActivateMove, Seal, SealRename, historyVars
<1>4. CASE \/ Finish \/ FinishStaged \/ FinishJournal \/ Orphan \/ OrphanMarker
           \/ Undo \/ UndoMove \/ UndoStaged \/ Discard \/ DiscardMarker \/ DiscardJournal
           \/ ActivationFails \/ UndoFails
  BY <1>4 DEF Finish, FinishStaged, FinishJournal, Orphan, OrphanMarker, Undo, UndoMove,
              UndoStaged, Discard, DiscardMarker, DiscardJournal, ActivationFails, UndoFails,
              historyVars
<1> QED BY <1>1, <1>2, <1>3, <1>4 DEF RestoreNext, Work

(* What a process or a power loss shows of a destination is on the disk. *)
LEMMA OutcomeParts ==
  ASSUME FilesTyped, NEW f \in {seen} \cup Outcomes
  PROVE  /\ \A d \in Dest : \E g \in disk[Home(d)] : /\ f[Live(d)] = g[Live(d)]
                                                     /\ f[Backup(d)] = g[Backup(d)]
         /\ \E g \in disk["managed"] : f[Journal] = g[Journal] /\ f[Marker] = g[Marker]
<1>1. CASE f = seen
  BY <1>1, SeenParts
<1>2. CASE f \in Outcomes
  <2>1. PICK o \in disk["objects"], m \in disk["managed"] :
          f = [n \in Name |-> IF n \in NamesOf("objects") THEN o[n] ELSE m[n]]
    BY <1>2 DEF Outcomes, OutcomesOf
  <2>2. \A n \in Name : f[n] = IF n \in NamesOf("objects") THEN o[n] ELSE m[n]
    BY <2>1
  <2>3. f[Journal] = m[Journal] /\ f[Marker] = m[Marker]
    BY <2>2, KeptNames, NamesHaveADirectory
  <2>4. \A d \in Dest : Home(d) = "objects" => f[Live(d)] = o[Live(d)] /\ f[Backup(d)] = o[Backup(d)]
    BY <2>2, NamesHaveADirectory
  <2>5. \A d \in Dest : Home(d) = "managed" => f[Live(d)] = m[Live(d)] /\ f[Backup(d)] = m[Backup(d)]
    BY <2>2, KeptNames, NamesHaveADirectory
  <2>6. \A d \in Dest : Home(d) \in {"objects", "managed"}
    BY DEF Home
  <2> QED BY <2>3, <2>4, <2>5, <2>6
<1> QED BY <1>1, <1>2

LEMMA RecoveryOfOld ==
  ASSUME FilesTyped, HistoryTyped, Transaction, Before, NEW f \in {seen} \cup Outcomes
  PROVE  /\ RecoveredIn(f) \in {old, new}
         /\ AllOld => RecoveredIn(f) = old
<1>1. \A d \in Dest : Undoable(d, f[Live(d)], f[Backup(d)])
  BY OutcomeParts DEF Before
<1>2. AllOld => ProjectIn(f) = old
  <2> SUFFICES ASSUME AllOld PROVE ProjectIn(f) = old
    OBVIOUS
  <2>1. \A d \in Dest : f[Live(d)] = old[d]
    BY OutcomeParts DEF AllOld
  <2> QED BY <2>1 DEF ProjectIn, HistoryTyped
<1>3. f[Journal] = 0 => AllOld
  BY OutcomeParts DEF Before, Unjournaled
<1>4. CommittedIn(f) => ProjectIn(f) = new
  <2> SUFFICES ASSUME CommittedIn(f) PROVE ProjectIn(f) = new
    OBVIOUS
  <2>1. \A d \in Dest : d \notin Plan => d \notin Backed /\ d \notin Activated
    BY DEF Transaction, Mentioned, Backed, Absent
  <2>2. \A d \in Dest : f[Live(d)] = new[d]
    BY <1>1, <2>1 DEF Transaction, Undoable, CommittedIn, Plan
  <2> QED BY <2>2 DEF ProjectIn, HistoryTyped
<1>5. ~(f[Journal] = 0 \/ CommittedIn(f)) => RecoveredIn(f) = old
  <2> SUFFICES ASSUME ~(f[Journal] = 0 \/ CommittedIn(f)) PROVE RecoveredIn(f) = old
    OBVIOUS
  <2> DEFINE r == [d \in Dest |->
                     IF d \in Backed
                     THEN IF f[Backup(d)] # 0 THEN f[Backup(d)] ELSE f[Live(d)]
                     ELSE IF d \in Activated THEN 0 ELSE f[Live(d)]]
  <2>1. RecoveredIn(f) = r
    BY DEF RecoveredIn, Backed, Activated
  <2>2. \A d \in Dest : r[d] = old[d]
    BY <1>1 DEF Undoable
  <2> QED BY <2>1, <2>2 DEF HistoryTyped
<1>6. (f[Journal] = 0 \/ CommittedIn(f)) => RecoveredIn(f) = ProjectIn(f)
  BY DEF RecoveredIn
<1> QED BY <1>2, <1>3, <1>4, <1>5, <1>6

LEMMA RecoveryOfNew ==
  ASSUME FilesTyped, journal \in JournalType, HistoryTyped, Transaction, After,
         NEW f \in {seen} \cup Outcomes
  PROVE  /\ RecoveredIn(f) = new
         /\ AllOld => RecoveredIn(f) = old
<1>1. \A d \in Dest : f[Live(d)] = new[d]
  BY OutcomeParts DEF After
<1>2. f[Journal] # 0 => f[Marker] = journal.id
  BY OutcomeParts DEF After
<1>3. f[Journal] # 0 => CommittedIn(f)
  <2>1. \A d \in Plan : d \in Dest /\ f[Live(d)] = journal.target[d]
    BY <1>1, WrittenTypes DEF Transaction
  <2> QED BY <1>2, <2>1, WrittenTypes DEF CommittedIn, Plan
<1>4. RecoveredIn(f) = ProjectIn(f)
  BY <1>3 DEF RecoveredIn
<1>5. ProjectIn(f) = new
  BY <1>1 DEF ProjectIn, HistoryTyped
<1>6. AllOld => old = new
  <2> SUFFICES ASSUME AllOld PROVE old = new
    OBVIOUS
  <2>1. \A d \in Dest : old[d] = new[d]
    BY <1>1, OutcomeParts DEF AllOld
  <2> QED BY <2>1 DEF HistoryTyped
<1> QED BY <1>4, <1>5, <1>6

LEMMA InvIsEnough ==
  ASSUME RestoreTypeOK, RestoreInv
  PROVE  OldOrNew /\ CommitPoint
<1> USE TypeParts
<1>1. \A f \in {seen} \cup Outcomes : RecoveredIn(f) \in {old, new}
  BY RecoveryOfOld, RecoveryOfNew DEF RestoreInv
<1>2. proc.at \in {"open", "check"} => Project \in {old, new}
  <2> SUFFICES ASSUME proc.at \in {"open", "check"} PROVE Project \in {old, new}
    OBVIOUS
  <2>1. seen[Journal] = 0
    BY DEF RestoreInv, Stages, Clean
  <2>2. RecoveredIn(seen) = Project
    BY <2>1 DEF RecoveredIn, Project
  <2> QED BY <1>1, <2>2
<1>3. \A f \in {seen} \cup Outcomes : committed \/ result = "restored" => RecoveredIn(f) = new
  BY RecoveryOfNew DEF RestoreInv, Reports
<1>4. \A f \in {seen} \cup Outcomes : result = "failed" => RecoveredIn(f) = old
  BY RecoveryOfOld, RecoveryOfNew DEF RestoreInv, Reports
<1> QED BY <1>1, <1>2, <1>3, <1>4 DEF OldOrNew, CommitPoint

(* The inductive invariant: every file can be undone until the commit point *)
(* and is new after it, at every step and in everything a power loss may     *)
(* leave, until one leaves what an ended process had not synced (run,        *)
(* rollbackJournal, cleanupCommittedRestore).                                *)
THEOREM RestoreInvariant == RestoreSpec => [](lost \/ RestoreInv)
<1>1. RestoreInit => RestoreTypeOK /\ Aimed /\ (lost \/ RestoreInv)
  BY InitInv
<1>2. RestoreTypeOK /\ Aimed /\ (lost \/ RestoreInv) /\ [RestoreNext]_restoreVars
        => (RestoreTypeOK /\ Aimed /\ (lost \/ RestoreInv))'
  <2> SUFFICES ASSUME RestoreTypeOK, Aimed, lost \/ RestoreInv, [RestoreNext]_restoreVars
               PROVE  (RestoreTypeOK /\ Aimed /\ (lost \/ RestoreInv))'
    OBVIOUS
  <2>1. RestoreTypeOK' /\ Aimed'
    BY RestoreTypes
  <2>2. lost \in BOOLEAN
    BY DEF RestoreTypeOK
  <2>3. CASE lost
    BY <2>1, <2>2, <2>3, LostStays
  <2>4. CASE RestoreInv
    BY <2>1, <2>4, InvKept
  <2> QED BY <2>3, <2>4
<1> QED BY <1>1, <1>2, PTL DEF RestoreSpec

(* Whatever happens to a restore, the project that a recovery leaves is the  *)
(* one before it or the one after it, to the last file, now and after a      *)
(* power loss, unless one has undone what an ended process had not synced    *)
(* (rollbackJournal, journalCommitted).                                      *)
THEOREM RestoreOldOrNew == RestoreSpec => []OldOrNew
<1>1. RestoreTypeOK /\ RestoreInv => OldOrNew
  BY InvIsEnough
<1>2. lost => OldOrNew
  BY DEF OldOrNew
<1> QED BY <1>1, <1>2, RestoreTypeCorrect, RestoreInvariant, PTL

(* Past the commit point only the new project can be recovered, after a      *)
(* failure that was reported only the old one, with the same exception       *)
(* (installCommitMarker, fail, cleanupUncommittedRestore).                   *)
THEOREM RestoreCommitPoint == RestoreSpec => []CommitPoint
<1>1. RestoreTypeOK /\ RestoreInv => CommitPoint
  BY InvIsEnough
<1>2. lost => CommitPoint
  BY DEF CommitPoint
<1> QED BY <1>1, <1>2, RestoreTypeCorrect, RestoreInvariant, PTL

=============================================================================
