------------------------------ MODULE FileStore ------------------------------
(***************************************************************************)
(* Files of Records: staged uploads and file values of Records             *)
(* (src/internal/records/files.go), and the service that owns the active   *)
(* Storage Provider, removes orphaned objects and moves the objects to     *)
(* another Provider (src/internal/filestore/service.go, local.go, s3.go).  *)
(*                                                                         *)
(* Objects are written outside the transaction that refers to them, so a   *)
(* Record write, a reconciliation, a migration and a change of Provider    *)
(* interleave at every step that leaves the process or the database.  Of a *)
(* Record only its one file value is kept; an object is its key, and "old" *)
(* when it outlived the grace period of a reconciliation.                  *)
(***************************************************************************)
EXTENDS Naturals, FiniteSets

CONSTANTS
  Record, Key, Upload, Writer, Migration,
  None,
  MaxUploads,    \* maximumStagedUploads
  MaxPage,       \* MaxListPage: objects that one reconciliation looks at
  MaxBusy,       \* bound: operations at the same time
  MaxRevision,   \* bound: revisions of the configuration
  MaxCrashes     \* bound: restarts

ASSUME FileStoreAssumption ==
  /\ MaxUploads \in Nat /\ MaxPage \in Nat /\ MaxBusy \in Nat /\ MaxCrashes \in Nat
  /\ MaxRevision \in Nat \ {0}   \* revision 1 is the configuration of a new project
  /\ None \notin Record \cup Key \cup Upload \cup Migration
  /\ Key \cap Upload = {}

Provider == {"local", "s3"}
Age == {"none", "young", "old"}

VARIABLES
  refs,      \* [Record -> Key or None]: the committed file values
  objects,   \* [Provider -> [Key -> Age]]
  from,      \* [Key -> Upload or None]: what an object was made of
  tmp,       \* [Upload -> "new" | "young" | "old" | "gone"]: files in the staging directory
  uploads,   \* the uploads that the process knows
  config,    \* the stored configuration
  loaded,    \* the configuration in memory
  writer,    \* [Writer -> a Record write]
  gc,        \* the reconciliation
  setter,    \* a Configure request
  row,       \* [Migration -> stored status]
  mig,       \* [Migration -> the request and goroutine that run it]
  active,    \* migrationID in memory
  canceller, \* a CancelMigration request
  exposed,   \* history: Records whose last write overlapped maintenance
  acked,     \* history: migrations whose cancellation was confirmed while they ran
  crashes

records == <<refs, exposed>>
staged  == <<tmp, uploads>>
settings == <<config, loaded, setter>>
migration == <<row, mig, active, canceller, acked>>
vars == <<refs, objects, from, tmp, uploads, config, loaded, writer, gc, setter, row, mig,
          active, canceller, exposed, acked, crashes>>

Status == {"none", "pending", "running", "completed", "failed", "cancelled", "interrupted"}
Config == [provider: Provider, revision: 1..MaxRevision]

IdleWrite == [at |-> "idle", record |-> None, value |-> None, provider |-> "local",
              stale |-> FALSE, overlap |-> FALSE]
IdleGc == [at |-> "idle", provider |-> "local", keep |-> {}, doomed |-> {}]
IdleSetter == [at |-> "idle", next |-> [provider |-> "local", revision |-> 1]]
IdleMigration == [at |-> "idle", source |-> "local", target |-> "s3", revision |-> 1,
                  keys |-> {}, left |-> {}, cancelled |-> FALSE]

TypeOK ==
  /\ refs \in [Record -> Key \cup {None}] /\ exposed \in [Record -> BOOLEAN]
  /\ objects \in [Provider -> [Key -> Age]] /\ from \in [Key -> Upload \cup {None}]
  /\ tmp \in [Upload -> {"new", "young", "old", "gone"}]
  /\ uploads \subseteq {u \in Upload : tmp[u] \in {"young", "old"}}
  /\ Cardinality(uploads) <= MaxUploads
  /\ config \in Config /\ loaded \in Config
  /\ writer \in [Writer -> [at: {"idle", "pick", "claim", "promote", "stat", "commit"},
                            record: Record \cup {None}, value: Key \cup Upload \cup {None},
                            provider: Provider, stale: BOOLEAN, overlap: BOOLEAN]]
  /\ gc \in [at: {"idle", "refs", "list", "delete"}, provider: Provider,
             keep: SUBSET Key, doomed: SUBSET Key]
  /\ setter \in [at: {"idle", "refs", "write", "reload"}, next: Config]
  /\ row \in [Migration -> Status]
  /\ mig \in [Migration -> [at: {"idle", "insert", "launch", "start", "build", "keys",
                                 "copy", "reload"},
                            source: Provider, target: Provider, revision: 1..MaxRevision,
                            keys: SUBSET Key, left: SUBSET Key, cancelled: BOOLEAN]]
  /\ active \in Migration \cup {None}
  /\ canceller \in [at: {"idle", "stop", "write"}, id: Migration \cup {None}]
  /\ acked \subseteq Migration
  /\ crashes \in 0..MaxCrashes

Init ==
  /\ refs = [r \in Record |-> None] /\ exposed = [r \in Record |-> FALSE]
  /\ objects = [p \in Provider |-> [k \in Key |-> "none"]]
  /\ from = [k \in Key |-> None]
  /\ tmp = [u \in Upload |-> "new"] /\ uploads = {}
  /\ config = [provider |-> "local", revision |-> 1] /\ loaded = config
  /\ writer = [w \in Writer |-> IdleWrite]
  /\ gc = IdleGc /\ setter = IdleSetter
  /\ row = [m \in Migration |-> "none"] /\ mig = [m \in Migration |-> IdleMigration]
  /\ active = None /\ canceller = [at |-> "idle", id |-> None]
  /\ acked = {} /\ crashes = 0

\* ReferencedFileKeys: what the committed Records refer to.
ReferencedFileKeys == {refs[r] : r \in Record} \ {None}

(***************************************************************************)
(* The two Storage Providers.                                              *)
(***************************************************************************)
\* Stat.
Stored(p, k) == objects[p][k] # "none"

\* Promote of the Local Provider renames the staged file, which keeps its age;
\* that of the S3 Provider uploads it.
PromotedAge(p, age) == IF p = "local" THEN age ELSE "young"

Deleted(p, k) == [objects EXCEPT ![p][k] = "none"]

\* List: the first page of the keys, which are random.
FirstPages(p) ==
  LET all == {k \in Key : Stored(p, k)}
  IN {page \in SUBSET all : Cardinality(page) <= MaxPage /\ (page = all \/ Cardinality(page) = MaxPage)}

\* OpenFile: of the Provider in memory.
OpenFile(r) == refs[r] # None /\ Stored(loaded.provider, refs[r])

(***************************************************************************)
(* History: maintenance is armed from the moment it has read what Records  *)
(* refer to, or which Provider is active, until it is done with that.  A   *)
(* write overlaps it when it is armed at some time during the write.       *)
(***************************************************************************)
Armed == \/ gc.at \in {"list", "delete"}
         \/ setter.at \in {"write", "reload"}
         \/ \E m \in Migration : mig[m].at \in {"copy", "reload"}

Busy == Cardinality({w \in Writer : writer[w].at # "idle"})
        + Cardinality({x \in {"gc", "setter", "canceller"} :
            (CASE x = "gc" -> gc.at [] x = "setter" -> setter.at [] OTHER -> canceller.at) # "idle"})
        + Cardinality({m \in Migration : mig[m].at # "idle"})

Overlap == writer' = [w \in Writer |-> [writer[w] EXCEPT !.overlap = writer[w].at # "idle"]]

(***************************************************************************)
(* Uploads (UploadFile).                                                   *)
(***************************************************************************)
UploadFile(u) ==
  /\ tmp[u] = "new"
  /\ Cardinality(uploads) < MaxUploads
  /\ tmp' = [tmp EXCEPT ![u] = "young"]
  /\ uploads' = uploads \cup {u}
  /\ UNCHANGED <<records, objects, from, writer, gc, settings, migration, crashes>>

\* An hour passes.
GrowOld ==
  /\ tmp' = [u \in Upload |-> IF tmp[u] = "young" THEN "old" ELSE tmp[u]]
  /\ objects' = [p \in Provider |-> [k \in Key |->
                   IF objects[p][k] = "young" THEN "old" ELSE objects[p][k]]]
  /\ UNCHANGED <<records, from, uploads, writer, gc, settings, migration, crashes>>

(***************************************************************************)
(* A Record write that sets, replaces or clears the file value.            *)
(***************************************************************************)
\* The write reads the Record; its value is an upload, the key of an object,
\* or nothing.
BeginWrite(w, r, value) ==
  /\ writer[w].at = "idle"
  /\ Busy < MaxBusy
  /\ value \in Key => from[value] # None
  /\ writer' = [writer EXCEPT ![w] = [IdleWrite EXCEPT !.record = r, !.value = value,
                  !.at = IF value = None THEN "commit" ELSE "pick", !.overlap = Armed]]
  /\ UNCHANGED <<records, objects, from, staged, gc, settings, migration, crashes>>

\* ActiveProvider: of the configuration in memory.
PickProvider(w) ==
  /\ writer[w].at = "pick"
  /\ writer' = [writer EXCEPT ![w].provider = loaded.provider,
                              ![w].at = IF writer[w].value \in Upload THEN "claim" ELSE "stat"]
  /\ UNCHANGED <<records, objects, from, staged, gc, settings, migration, crashes>>

\* Mutant of ClaimUpload: the upload stays on offer.
ClaimWithoutRemoving(w) ==
  /\ writer[w].at = "claim"
  /\ writer' = [writer EXCEPT ![w] = IF @.value \in uploads THEN [@ EXCEPT !.at = "promote"]
                                     ELSE IdleWrite]
  /\ UNCHANGED <<records, objects, from, staged, gc, settings, migration, crashes>>

\* consumeStagedUpload: only one write gets the upload.
ClaimUpload(w) ==
  /\ writer[w].at = "claim"
  /\ IF writer[w].value \in uploads
     THEN /\ uploads' = uploads \ {writer[w].value}
          /\ writer' = [writer EXCEPT ![w].at = "promote"]
     ELSE UNCHANGED uploads /\ writer' = [writer EXCEPT ![w] = IdleWrite]
  /\ UNCHANGED <<records, objects, from, tmp, gc, settings, migration, crashes>>

\* The staged file becomes an object with a new random key.
Promote(w, k) ==
  /\ writer[w].at = "promote"
  /\ from[k] = None
  /\ LET u == writer[w].value
         p == writer[w].provider
     IN /\ objects' = [objects EXCEPT ![p][k] = PromotedAge(p, tmp[u])]
        /\ from' = [from EXCEPT ![k] = u]
        /\ tmp' = [tmp EXCEPT ![u] = "gone"]
        /\ writer' = [writer EXCEPT ![w].at = "commit", ![w].value = k]
  /\ UNCHANGED <<records, uploads, gc, settings, migration, crashes>>

\* The value was an object already: it must be there.
StatObject(w) ==
  /\ writer[w].at = "stat"
  /\ writer' = [writer EXCEPT ![w] =
       IF Stored(writer[w].provider, writer[w].value) THEN [@ EXCEPT !.at = "commit"] ELSE IdleWrite]
  /\ UNCHANGED <<records, objects, from, staged, gc, settings, migration, crashes>>

\* The transaction refuses a Record that changed since it was read.
CommitWrite(w) ==
  /\ writer[w].at = "commit" /\ ~writer[w].stale
  /\ LET r == writer[w].record
     IN /\ refs' = [refs EXCEPT ![r] = writer[w].value]
        /\ exposed' = [exposed EXCEPT ![r] = writer[w].overlap]
        /\ writer' = [x \in Writer |-> IF x = w THEN IdleWrite
             ELSE [writer[x] EXCEPT !.stale = @ \/ writer[x].record = r]]
  /\ UNCHANGED <<objects, from, staged, gc, settings, migration, crashes>>

\* Any step may fail; an upload that was claimed stays behind as a file.
FailWrite(w) ==
  /\ writer[w].at # "idle"
  /\ writer' = [writer EXCEPT ![w] = IdleWrite]
  /\ UNCHANGED <<records, objects, from, staged, gc, settings, migration, crashes>>

(***************************************************************************)
(* Reconciliation (reconcileTracked): Provider, references, first page,    *)
(* then one object after the other.                                        *)
(***************************************************************************)
BeginReconcile ==
  /\ gc.at = "idle"
  /\ Busy < MaxBusy
  /\ gc' = [IdleGc EXCEPT !.at = "refs", !.provider = loaded.provider]
  /\ UNCHANGED <<records, objects, from, staged, writer, settings, migration, crashes>>

ReadReferences ==
  /\ gc.at = "refs"
  /\ gc' = [gc EXCEPT !.at = "list", !.keep = ReferencedFileKeys]
  /\ Overlap
  /\ UNCHANGED <<records, objects, from, staged, settings, migration, crashes>>

ListObjects ==
  /\ gc.at = "list"
  /\ \E page \in FirstPages(gc.provider) :
       gc' = [gc EXCEPT !.at = "delete",
                !.doomed = {k \in page \ gc.keep : objects[gc.provider][k] = "old"}]
  /\ UNCHANGED <<records, objects, from, staged, writer, settings, migration, crashes>>

DeleteObject(k) ==
  /\ gc.at = "delete" /\ k \in gc.doomed
  /\ objects' = Deleted(gc.provider, k)
  /\ gc' = [gc EXCEPT !.doomed = @ \ {k}]
  /\ UNCHANGED <<records, from, staged, writer, settings, migration, crashes>>

\* The objects are gone, or the Provider failed; the check of the references
\* that follows changes nothing.
EndReconcile ==
  /\ gc.at # "idle"
  /\ gc' = IdleGc
  /\ UNCHANGED <<records, objects, from, staged, writer, settings, migration, crashes>>

(***************************************************************************)
(* Configure: revision and references are checked first, the row is        *)
(* written without looking again.                                          *)
(***************************************************************************)
BeginConfigure(p) ==
  /\ setter.at = "idle"
  /\ Busy < MaxBusy
  /\ loaded.revision < MaxRevision
  /\ setter' = [at |-> "refs", next |-> [provider |-> p, revision |-> loaded.revision + 1]]
  /\ UNCHANGED <<records, objects, from, staged, config, loaded, writer, gc, migration, crashes>>

\* requireMigrationForMove.
RequireMigrationForMove ==
  /\ setter.at = "refs"
  /\ IF ReferencedFileKeys # {} /\ setter.next.provider # loaded.provider
     THEN setter' = IdleSetter /\ UNCHANGED writer
     ELSE setter' = [setter EXCEPT !.at = "write"] /\ Overlap
  /\ UNCHANGED <<records, objects, from, staged, config, loaded, gc, migration, crashes>>

WriteConfig ==
  /\ setter.at = "write"
  /\ config' = setter.next
  /\ setter' = [setter EXCEPT !.at = "reload"]
  /\ UNCHANGED <<records, objects, from, staged, loaded, writer, gc, migration, crashes>>

ReloadConfig ==
  /\ setter.at = "reload"
  /\ loaded' = config
  /\ setter' = IdleSetter
  /\ UNCHANGED <<records, objects, from, staged, config, writer, gc, migration, crashes>>

\* The settings are invalid, or the Provider does not answer.
FailConfigure ==
  /\ setter.at \in {"refs", "write"}
  /\ setter' = IdleSetter
  /\ UNCHANGED <<records, objects, from, staged, config, loaded, writer, gc, migration, crashes>>

(***************************************************************************)
(* Migrations.                                                             *)
(***************************************************************************)
Other(p) == IF p = "local" THEN "s3" ELSE "local"
Running  == {m \in Migration : row[m] \in {"pending", "running"}}

migrationOnly == <<records, objects, from, staged, writer, gc, setter, crashes>>

\* StartMigration: no other may be active, neither in memory nor stored.
StartMigration(m) ==
  /\ row[m] = "none" /\ mig[m].at = "idle"
  /\ Busy < MaxBusy
  /\ active = None /\ Running = {}
  /\ mig' = [mig EXCEPT ![m] = [IdleMigration EXCEPT !.at = "insert",
                                                     !.target = Other(loaded.provider)]]
  /\ UNCHANGED <<migrationOnly, config, loaded, row, active, canceller, acked>>

InsertMigration(m) ==
  /\ mig[m].at = "insert"
  /\ row' = [row EXCEPT ![m] = "pending"]
  /\ mig' = [mig EXCEPT ![m].at = "launch"]
  /\ UNCHANGED <<migrationOnly, config, loaded, active, canceller, acked>>

LaunchMigration(m) ==
  /\ mig[m].at = "launch"
  /\ active' = m
  /\ mig' = [mig EXCEPT ![m].at = "start"]
  /\ UNCHANGED <<migrationOnly, config, loaded, row, canceller, acked>>

\* The goroutine marks its row as running, whatever the row says.
MarkRunning(m) ==
  /\ mig[m].at = "start"
  /\ row' = [row EXCEPT ![m] = "running"]
  /\ mig' = [mig EXCEPT ![m].at = "build"]
  /\ UNCHANGED <<migrationOnly, config, loaded, active, canceller, acked>>

\* The Providers are built from the configuration of this moment; one of them
\* needs credentials, which a cancelled context cannot read.
BuildProviders(m) ==
  /\ mig[m].at = "build" /\ ~mig[m].cancelled
  /\ loaded.revision < MaxRevision
  /\ mig' = [mig EXCEPT ![m].at = "keys", ![m].source = loaded.provider,
                        ![m].revision = loaded.revision + 1]
  /\ UNCHANGED <<migrationOnly, config, loaded, row, active, canceller, acked>>

ListKeys(m) ==
  /\ mig[m].at = "keys" /\ ~mig[m].cancelled
  /\ mig' = [mig EXCEPT ![m].at = "copy", ![m].keys = ReferencedFileKeys,
                        ![m].left = ReferencedFileKeys]
  /\ Overlap
  /\ UNCHANGED <<records, objects, from, staged, config, loaded, gc, setter, crashes,
                 row, active, canceller, acked>>

\* Mutant of CopyObject: an object is counted, not copied.
CopyReportsOnly(m, k) ==
  /\ mig[m].at = "copy" /\ ~mig[m].cancelled /\ k \in mig[m].left
  /\ mig' = [mig EXCEPT ![m].left = @ \ {k}]
  /\ UNCHANGED <<records, objects, from, staged, writer, gc, settings, crashes,
                 row, active, canceller, acked>>

\* copyObject: an object that is at the target already is not copied again.
CopyObject(m, k) ==
  /\ mig[m].at = "copy" /\ ~mig[m].cancelled
  /\ k \in mig[m].left
  /\ Stored(mig[m].source, k)
  /\ objects' = [objects EXCEPT ![mig[m].target][k] = IF @ = "none" THEN "young" ELSE @]
  /\ mig' = [mig EXCEPT ![m].left = @ \ {k}]
  /\ UNCHANGED <<records, from, staged, writer, gc, settings, crashes,
                 row, active, canceller, acked>>

\* Mutant of SwitchProvider: the row is not read again.
SwitchWhateverTheRow(m) ==
  /\ mig[m].at = "copy" /\ mig[m].left = {}
  /\ config' = [provider |-> mig[m].target, revision |-> mig[m].revision]
  /\ row' = [row EXCEPT ![m] = "completed"]
  /\ mig' = [mig EXCEPT ![m].at = "reload"]
  /\ UNCHANGED <<migrationOnly, loaded, active, canceller, acked>>

\* The switch, in one transaction; a cancelled row is left alone.
SwitchProvider(m) ==
  /\ mig[m].at = "copy" /\ mig[m].left = {}
  /\ IF row[m] = "cancelled" THEN UNCHANGED <<config, row>>
     ELSE /\ config' = [provider |-> mig[m].target, revision |-> mig[m].revision]
          /\ row' = [row EXCEPT ![m] = "completed"]
  /\ mig' = [mig EXCEPT ![m].at = "reload"]
  /\ UNCHANGED <<migrationOnly, loaded, active, canceller, acked>>

ReloadSwitched(m) ==
  /\ mig[m].at = "reload"
  /\ loaded' = config
  /\ mig' = [mig EXCEPT ![m] = IdleMigration]
  /\ active' = IF active = m THEN None ELSE active
  /\ UNCHANGED <<migrationOnly, config, row, canceller, acked>>

\* finishMigration: cancelled between two objects, or failed anywhere; the row
\* is overwritten, whatever it says.
FinishMigration(m, status) ==
  /\ mig[m].at \in {"build", "keys", "copy"}
  /\ status = "cancelled" => mig[m].cancelled /\ mig[m].at = "copy" /\ mig[m].left # {}
  /\ row' = [row EXCEPT ![m] = status]
  /\ mig' = [mig EXCEPT ![m] = IdleMigration]
  /\ active' = IF active = m THEN None ELSE active
  /\ UNCHANGED <<migrationOnly, config, loaded, canceller, acked>>

\* CancelMigration: read the row, stop the goroutine, then write the row if it
\* is still pending or running.
BeginCancel(m) ==
  /\ canceller.at = "idle"
  /\ Busy < MaxBusy
  /\ m \in Running
  /\ canceller' = [at |-> "stop", id |-> m]
  /\ UNCHANGED <<migrationOnly, config, loaded, row, mig, active, acked>>

StopGoroutine ==
  /\ canceller.at = "stop"
  /\ mig' = [m \in Migration |-> IF m = active /\ m = canceller.id
                                 THEN [mig[m] EXCEPT !.cancelled = TRUE] ELSE mig[m]]
  /\ canceller' = [canceller EXCEPT !.at = "write"]
  /\ UNCHANGED <<migrationOnly, config, loaded, row, active, acked>>

WriteCancelled ==
  /\ canceller.at = "write"
  /\ LET m == canceller.id
     IN /\ row' = IF m \in Running THEN [row EXCEPT ![m] = "cancelled"] ELSE row
        /\ acked' = IF row[m] = "running" THEN acked \cup {m} ELSE acked
  /\ canceller' = [at |-> "idle", id |-> None]
  /\ UNCHANGED <<migrationOnly, config, loaded, mig, active>>

(***************************************************************************)
(* Restart (Close or a crash, then NewService and ReconcileStaging): the   *)
(* memory is empty, unfinished migrations are interrupted, staged files    *)
(* that are old are removed.                                               *)
(***************************************************************************)
\* cleanStagedUploads.
Cleaned == [u \in Upload |-> IF tmp[u] = "old" THEN "gone" ELSE tmp[u]]

Restart ==
  /\ crashes < MaxCrashes /\ crashes' = crashes + 1
  /\ uploads' = {}
  /\ tmp' = Cleaned
  /\ row' = [m \in Migration |-> IF m \in Running THEN "interrupted" ELSE row[m]]
  /\ mig' = [m \in Migration |-> IdleMigration] /\ active' = None
  /\ canceller' = [at |-> "idle", id |-> None]
  /\ loaded' = config
  /\ writer' = [w \in Writer |-> IdleWrite] /\ gc' = IdleGc /\ setter' = IdleSetter
  /\ UNCHANGED <<records, objects, from, config, acked>>

Write(w) == PickProvider(w) \/ ClaimUpload(w) \/ StatObject(w) \/ CommitWrite(w) \/ FailWrite(w)
            \/ \E k \in Key : Promote(w, k)

Reconcile == \/ BeginReconcile \/ ReadReferences \/ ListObjects \/ EndReconcile
             \/ \E k \in Key : DeleteObject(k)

Configure == RequireMigrationForMove \/ WriteConfig \/ ReloadConfig \/ FailConfigure

Migrate(m) == \/ InsertMigration(m) \/ LaunchMigration(m) \/ MarkRunning(m)
              \/ BuildProviders(m) \/ ListKeys(m) \/ SwitchProvider(m) \/ ReloadSwitched(m)
              \/ \E k \in Key : CopyObject(m, k)
              \/ \E status \in {"failed", "cancelled"} : FinishMigration(m, status)

Next ==
  \/ \E u \in Upload : UploadFile(u)
  \/ GrowOld
  \/ \E w \in Writer : Write(w)
  \/ \E w \in Writer, r \in Record, v \in Key \cup Upload \cup {None} : BeginWrite(w, r, v)
  \/ Reconcile
  \/ \E p \in Provider : BeginConfigure(p)
  \/ Configure
  \/ \E m \in Migration : StartMigration(m) \/ Migrate(m) \/ BeginCancel(m)
  \/ StopGoroutine \/ WriteCancelled
  \/ Restart

Spec == Init /\ [][Next]_vars

(***************************************************************************)
(* Properties.                                                             *)
(***************************************************************************)

\* A Record whose last write did not overlap a reconciliation, a migration or
\* a change of Provider keeps its object: the Provider in memory and the stored one
\* have it, through all later maintenance and restarts (reconcileTracked, runMigration).
LostOnlyByOverlap ==
  \A r \in Record : refs[r] # None /\ ~exposed[r] => OpenFile(r) /\ Stored(config.provider, refs[r])

\* Two writes that name the same upload do not both get it, and no object is
\* made of an upload that is still offered (consumeStagedUpload).
UploadBoundOnce ==
  \A u \in Upload : LET made == {k \in Key : from[k] = u}
                    IN Cardinality(made) <= 1 /\ (made # {} => u \notin uploads)

\* A cancellation that was confirmed while the migration ran is kept: that
\* migration does not become the active Provider (CancelMigration).
ConfirmedCancelHolds == \A m \in acked : row[m] # "completed"

=============================================================================
