------------------------------- MODULE Restore -------------------------------
(***************************************************************************)
(* Restore of a project from a backup bundle                               *)
(* (src/internal/portability/restore.go).                                  *)
(*                                                                         *)
(* Apply replaces the files of a stopped project under a write-ahead       *)
(* journal: copy the new files beside the old ones, move the old ones      *)
(* aside, move the new ones in, install a commit marker, clean up.  The    *)
(* process may be killed between any two steps, every step may fail, and a *)
(* power loss forgets changes of a directory that was not synced since.    *)
(*                                                                         *)
(* A file's content is a number: 0 no file, 1 the project there was at     *)
(* first, n + 1 what the n-th activation brings.  Names are grouped by the *)
(* directory that holds them, "managed" (database, sidecars, key, journal, *)
(* marker) or "objects"; file contents are synced before names change, so  *)
(* only names can be lost.  Directories that the restore creates, the      *)
(* journals of versions that had no commit marker, and a power loss that   *)
(* brings back the journal of an earlier restore are left out.             *)
(***************************************************************************)
EXTENDS Naturals, FiniteSets

CONSTANTS
  Sidecar, Object,  \* the SQLite sidecar files and the file objects
  MaxActivations,   \* bound: restores that reach the activation
  MaxFailures       \* bound: kills, power losses and failing steps

ASSUME RestoreAssumption ==
  /\ MaxActivations \in Nat /\ MaxFailures \in Nat
  /\ IsFiniteSet(Sidecar) /\ IsFiniteSet(Object)
  /\ {"database", "key", "meta"} \cap (Sidecar \cup Object) = {}
  /\ Sidecar \cap Object = {}

Dest    == {"database", "key"} \cup Sidecar \cup Object
Meta    == {<<"meta", "journal">>, <<"meta", "marker">>, <<"meta", "temporary">>}
Journal == <<"meta", "journal">>
Marker  == <<"meta", "marker">>
MarkerTemporary == <<"meta", "temporary">>
Live(d)   == <<d, "live">>
Backup(d) == <<d, "backup">>
Staged(d) == <<d, "staged">>
Name == (Dest \X {"live", "backup", "staged"}) \cup Meta

Directory == {"managed", "objects"}
NamesOf(dir) == IF dir = "objects" THEN Object \X {"live", "backup", "staged"}
                ELSE Name \ (Object \X {"live", "backup", "staged"})
Home(d) == IF d \in Object THEN "objects" ELSE "managed"

VARIABLES
  seen,     \* [Name -> content]: the directories as processes see them
  disk,     \* [Directory -> what a power loss may leave of it]
  stale,    \* [Directory -> what else it may, while the disk has not got what
            \* a process did that ended without syncing it]
  journal,  \* what the journal file says: transaction, targets, intents
  proc,     \* the process that restores or opens the project
  old, new, \* history: the project before the last activation, and after it
  committed,\* history: its commit point was passed
  lost,     \* history: a power loss has left what was stale
  result,   \* how the last Apply ended
  failures

restoreVars == <<seen, disk, stale, journal, proc, old, new, committed, lost, result, failures>>

Point == {"idle", "inspect", "orphan", "orphanMarker", "finish", "finishStaged",
          "finishJournal", "undo", "undoMove", "undoStaged", "discard", "discardMarker",
          "discardJournal", "check", "begin", "copy", "copyFile", "preserve",
          "preserveMove", "activate", "activateMove", "seal", "sealRename", "commit",
          "end", "open"}
Process == [at: Point, left: SUBSET Dest, sync: Directory \cup {"none"}, force: BOOLEAN,
            bad: BOOLEAN, then: {"check", "failed", "restored", "open"}]
NoProcess == [at |-> "idle", left |-> {}, sync |-> "none", force |-> FALSE,
              bad |-> FALSE, then |-> "failed"]

Content == 0..(MaxActivations + 1)
Intent == [op: {"stage", "backup", "absent", "activate"}, dest: Dest]
NoTargets == [d \in {} |-> 0]
NoJournal == [id |-> 1, target |-> NoTargets, log |-> {}]

ProjectIn(f) == [d \in Dest |-> f[Live(d)]]
Project == ProjectIn(seen)

(***************************************************************************)
(* The file system: an operation is seen at once, kept by a power loss     *)
(* only when its directory was synced afterwards.                          *)
(***************************************************************************)
Part(f, dir) == [n \in NamesOf(dir) |-> f[n]]

Put(f) == /\ seen' = f
          /\ disk' = [dir \in Directory |-> disk[dir] \cup {Part(f, dir)}]

Synced(f, dirs) == [dir \in Directory |-> IF dir \in dirs THEN {Part(f, dir)}
                                          ELSE disk[dir]]

\* A process ends with directories it has not synced, and no later one syncs
\* what it finds in them: it gets to the disk in its time.
Abandon ==
  /\ disk' = Synced(seen, Directory)
  /\ stale' = [dir \in Directory |-> (stale[dir] \cup disk[dir]) \ {Part(seen, dir)}]

Unlink(n)    == Put([seen EXCEPT ![n] = 0])
Rename(a, b) == Put([seen EXCEPT ![b] = seen[a], ![a] = 0])

\* What a power loss may leave.
OutcomesOf(d) == {[n \in Name |-> IF n \in NamesOf("objects") THEN o[n] ELSE m[n]] :
                    o \in d["objects"], m \in d["managed"]}
Outcomes      == OutcomesOf(disk)
StaleOutcomes == OutcomesOf([dir \in Directory |-> disk[dir] \cup stale[dir]]) \ Outcomes

(***************************************************************************)
(* The plan (buildActivationPlan): database, sidecars, key, the bundle's   *)
(* objects, in this order.                                                 *)
(***************************************************************************)
First(S) == CHOOSE d \in S :
  \/ d = "database"
  \/ "database" \notin S /\ d \in Sidecar
  \/ S \cap ({"database"} \cup Sidecar) = {} /\ d = "key"
  \/ S \subseteq Object

\* The targets of a bundle with these objects, with or without a key.
Targets(objects, keyed, version) ==
  [d \in (Dest \ Object) \cup objects |->
     IF d \in Sidecar \/ (d = "key" /\ ~keyed) THEN 0 ELSE version]

Plan == DOMAIN journal.target
Replaced == {d \in Plan : journal.target[d] # 0}

Written(op) == {d \in Dest : [op |-> op, dest |-> d] \in journal.log}
WriteIntent(op, d) == journal' = [journal EXCEPT !.log = @ \cup {[op |-> op, dest |-> d]}]

(***************************************************************************)
(* journalCommitted: the marker names the transaction of the journal and   *)
(* every target has the state it was given.                                *)
(***************************************************************************)
CommittedIn(f) == /\ f[Marker] # 0 /\ f[Marker] = journal.id
                  /\ \A d \in DOMAIN journal.target : f[Live(d)] = journal.target[d]

\* The destinations that rollbackJournal visits, in the order in which the
\* journal mentions them: what was staged, then the rest.
Mentioned == Written("stage") \cup Written("backup") \cup Written("absent")
NextUndo  == First(IF proc.left \cap Written("stage") # {} THEN proc.left \cap Written("stage")
                   ELSE proc.left)

\* The project that a recovery started now would leave.
RecoveredIn(f) ==
  IF f[Journal] = 0 \/ CommittedIn(f) THEN ProjectIn(f)
  ELSE [d \in Dest |->
          IF d \in Written("backup")
          THEN IF f[Backup(d)] # 0 THEN f[Backup(d)] ELSE f[Live(d)]
          ELSE IF d \in Written("activate") THEN 0 ELSE f[Live(d)]]

RestoreTypeOK ==
  /\ seen \in [Name -> Content]
  /\ \A dir \in Directory : /\ Part(seen, dir) \in disk[dir]
                            /\ disk[dir] \subseteq [NamesOf(dir) -> Content]
                            /\ stale[dir] \subseteq [NamesOf(dir) -> Content]
  /\ journal \in [id: 1..(MaxActivations + 1), log: SUBSET Intent,
                  target: UNION {[S -> Content] : S \in SUBSET Dest}]
  /\ proc \in Process
  /\ old \in [Dest -> Content] /\ new \in [Dest -> Content]
  /\ committed \in BOOLEAN /\ lost \in BOOLEAN
  /\ result \in {"none", "restored", "failed", "broken", "refused"}
  /\ failures \in 0..MaxFailures

RestoreInit ==
  /\ \E there \in {{}} \cup {t \in SUBSET Dest : "database" \in t} :
       seen = [n \in Name |-> IF n[2] = "live" /\ n[1] \in there THEN 1 ELSE 0]
  /\ disk = [dir \in Directory |-> {Part(seen, dir)}] /\ stale = [dir \in Directory |-> {}]
  /\ journal = NoJournal
  /\ proc = NoProcess
  /\ old = Project /\ new = Project
  /\ committed = FALSE /\ lost = FALSE
  /\ result = "none"
  /\ failures = 0

(***************************************************************************)
(* Starting: an Apply (modelry restore) or the check of a process that     *)
(* opens the project.  The Runtime lock keeps them apart.                  *)
(***************************************************************************)
Step(at) == proc.at = at /\ proc.sync = "none"

Goto(at, left)            == proc' = [proc EXCEPT !.at = at, !.left = left]
GotoSynced(at, left, dir) == proc' = [proc EXCEPT !.at = at, !.left = left, !.sync = dir]

\* What went before.
historyVars == <<old, new, committed, lost, stale>>

StartApply(force) ==
  /\ proc.at = "idle"
  /\ proc' = [NoProcess EXCEPT !.at = "inspect", !.force = force, !.then = "check"]
  /\ result' = "none"
  /\ UNCHANGED <<seen, disk, journal, historyVars, failures>>

StartRuntime ==
  /\ proc.at = "idle"
  /\ proc' = [NoProcess EXCEPT !.at = "inspect", !.then = "open"]
  /\ UNCHANGED <<seen, disk, journal, historyVars, result, failures>>

\* rollbackInterruptedRestore and CheckInterruptedRestore decide alike, but a
\* check leaves a rollback to the operator.
Inspect ==
  /\ Step("inspect")
  /\ \/ seen[Journal] = 0 /\ Goto("orphan", {})
     \/ seen[Journal] # 0 /\ CommittedIn(seen) /\ Goto("finish", Written("backup"))
     \/ seen[Journal] # 0 /\ ~CommittedIn(seen) /\ proc.then = "check" /\ Goto("undo", Mentioned)
     \/ seen[Journal] # 0 /\ ~CommittedIn(seen) /\ proc.then = "open" /\ proc' = NoProcess
  /\ UNCHANGED <<seen, disk, journal, historyVars, result, failures>>

SyncDirectory ==
  /\ proc.sync # "none"
  /\ disk' = Synced(seen, {proc.sync})
  /\ stale' = [stale EXCEPT ![proc.sync] = {}]
  /\ proc' = [proc EXCEPT !.sync = "none"]
  /\ committed' = (committed \/ proc.at = "commit")
  /\ UNCHANGED <<seen, journal, old, new, lost, result, failures>>

\* How an Apply ends that cannot go on: "refused" when it activated nothing.
Outcome == CASE proc.then = "check" -> "refused"
             [] proc.then = "open"  -> result
             [] OTHER -> proc.then

\* What comes after a recovery or a clean-up.
End ==
  /\ Step("end")
  /\ \/ proc.then = "check" /\ Goto("check", {}) /\ UNCHANGED result
     \/ proc.then = "open" /\ Goto("open", {}) /\ UNCHANGED result
     \/ proc.then \in {"failed", "restored"} /\ proc' = NoProcess /\ result' = Outcome
  /\ UNCHANGED <<seen, disk, journal, historyVars, failures>>

Stop ==
  /\ Step("open")
  /\ proc' = NoProcess
  /\ UNCHANGED <<seen, disk, journal, historyVars, result, failures>>

(***************************************************************************)
(* Apply up to the activation: the staged bundle is valid or not, and a    *)
(* project that is there is replaced only by force.                        *)
(***************************************************************************)
\* stageBundle: the archive does not hold what its manifest declares.
RefuseBundle == proc' = NoProcess /\ result' = "refused"

Check ==
  /\ Step("check")
  /\ \/ RefuseBundle
     \/ ~proc.force /\ seen[Live("database")] # 0 /\ proc' = NoProcess /\ result' = "refused"
     \/ proc.force /\ Goto("begin", {}) /\ UNCHANGED result
     \/ seen[Live("database")] = 0 /\ Goto("begin", {}) /\ UNCHANGED result
  /\ UNCHANGED <<seen, disk, journal, historyVars, failures>>

\* planBundle: what the manifest of a valid bundle declares beside a database.
Bundle == [objects: SUBSET Object, keyed: BOOLEAN]

\* Bound: no activation after a power loss has left what was stale.
Begin ==
  /\ Step("begin")
  /\ journal.id <= MaxActivations /\ ~lost
  /\ seen[Journal] = 0
  /\ \E bundle \in Bundle :
       LET version == journal.id + 1
           target  == Targets(bundle.objects, bundle.keyed, version)
       IN /\ journal' = [id |-> version, target |-> target, log |-> {}]
          /\ Put([seen EXCEPT ![Journal] = version])
          /\ old' = Project
          /\ new' = [d \in Dest |-> IF d \in DOMAIN target THEN target[d] ELSE Project[d]]
  /\ committed' = FALSE
  /\ GotoSynced("copy", {d \in DOMAIN journal'.target : journal'.target[d] # 0}, "managed")
  /\ UNCHANGED <<stale, lost, result, failures>>

(***************************************************************************)
(* The activation (activationPlan.run): an intent is recorded and synced,  *)
(* then the action is taken and its directory synced.                      *)
(***************************************************************************)
Copy ==
  /\ Step("copy")
  /\ IF proc.left = {} THEN Goto("preserve", Plan) /\ UNCHANGED journal
     ELSE WriteIntent("stage", First(proc.left)) /\ Goto("copyFile", proc.left)
  /\ UNCHANGED <<seen, disk, historyVars, result, failures>>

CopyFile ==
  /\ Step("copyFile")
  /\ LET d == First(proc.left)
     IN /\ Put([seen EXCEPT ![Staged(d)] = journal.target[d]])
        /\ IF d = "key" THEN Goto("copy", proc.left \ {d})
           ELSE GotoSynced("copy", proc.left \ {d}, Home(d))
  /\ UNCHANGED <<journal, historyVars, result, failures>>

Preserve ==
  /\ Step("preserve")
  /\ LET d == First(proc.left)
     IN \/ proc.left = {} /\ Goto("activate", Replaced) /\ UNCHANGED journal
        \/ /\ proc.left # {} /\ seen[Live(d)] = 0
           /\ WriteIntent("absent", d) /\ Goto("preserve", proc.left \ {d})
        \/ /\ proc.left # {} /\ seen[Live(d)] # 0
           /\ WriteIntent("backup", d) /\ Goto("preserveMove", proc.left)
  /\ UNCHANGED <<seen, disk, historyVars, result, failures>>

PreserveMove ==
  /\ Step("preserveMove")
  /\ LET d == First(proc.left)
     IN Rename(Live(d), Backup(d)) /\ GotoSynced("preserve", proc.left \ {d}, Home(d))
  /\ UNCHANGED <<journal, historyVars, result, failures>>

Activate ==
  /\ Step("activate")
  /\ IF proc.left = {} THEN Goto("seal", {}) /\ UNCHANGED journal
     ELSE WriteIntent("activate", First(proc.left)) /\ Goto("activateMove", proc.left)
  /\ UNCHANGED <<seen, disk, historyVars, result, failures>>

ActivateMove ==
  /\ Step("activateMove")
  /\ LET d == First(proc.left)
     IN Rename(Staged(d), Live(d)) /\ GotoSynced("activate", proc.left \ {d}, Home(d))
  /\ UNCHANGED <<journal, historyVars, result, failures>>

\* installCommitMarker: the marker is written and synced under another name,
\* renamed, and the managed directory synced, which is the commit point.
Seal ==
  /\ Step("seal")
  /\ Put([seen EXCEPT ![MarkerTemporary] = journal.id])
  /\ Goto("sealRename", {})
  /\ UNCHANGED <<journal, historyVars, result, failures>>

SealRename ==
  /\ Step("sealRename")
  /\ Rename(MarkerTemporary, Marker)
  /\ GotoSynced("commit", {}, "managed")
  /\ UNCHANGED <<journal, historyVars, result, failures>>

Commit ==
  /\ Step("commit")
  /\ proc' = [proc EXCEPT !.at = "finish", !.left = Written("backup"), !.then = "restored"]
  /\ UNCHANGED <<seen, disk, journal, historyVars, result, failures>>

(***************************************************************************)
(* cleanupCommittedRestore: backups, staged files, journal, marker.        *)
(***************************************************************************)
Remove(n, at) ==
  LET d == First(proc.left)
  IN IF seen[n] = 0 THEN UNCHANGED <<seen, disk>> /\ Goto(at, proc.left \ {d})
     ELSE Unlink(n) /\ GotoSynced(at, proc.left \ {d}, Home(d))

Finish ==
  /\ Step("finish")
  /\ IF proc.left = {} THEN UNCHANGED <<seen, disk>> /\ Goto("finishStaged", Written("stage"))
     ELSE Remove(Backup(First(proc.left)), "finish")
  /\ UNCHANGED <<journal, historyVars, result, failures>>

FinishStaged ==
  /\ Step("finishStaged")
  /\ IF proc.left = {} THEN UNCHANGED <<seen, disk>> /\ Goto("finishJournal", {})
     ELSE Remove(Staged(First(proc.left)), "finishStaged")
  /\ UNCHANGED <<journal, historyVars, result, failures>>

FinishMarkerFirst ==
  /\ Step("finishJournal")
  /\ IF seen[Marker] # 0 THEN Unlink(Marker) /\ GotoSynced("finishJournal", {}, "managed")
     ELSE Unlink(Journal) /\ GotoSynced("orphan", {}, "managed")
  /\ UNCHANGED <<journal, historyVars, result, failures>>

FinishJournal ==
  /\ Step("finishJournal")
  /\ Unlink(Journal)
  /\ GotoSynced("orphan", {}, "managed")
  /\ UNCHANGED <<journal, historyVars, result, failures>>

\* cleanupOrphanCommitMarker syncs the directory when it removed something.
Orphan ==
  /\ Step("orphan")
  /\ Unlink(MarkerTemporary)
  /\ proc' = [proc EXCEPT !.at = "orphanMarker", !.bad = (seen[MarkerTemporary] # 0)]
  /\ UNCHANGED <<journal, historyVars, result, failures>>

OrphanMarker ==
  /\ Step("orphanMarker")
  /\ Unlink(Marker)
  /\ proc' = [proc EXCEPT !.at = "end", !.bad = FALSE,
                    !.sync = IF proc.bad \/ seen[Marker] # 0 THEN "managed" ELSE "none"]
  /\ UNCHANGED <<journal, historyVars, result, failures>>

(***************************************************************************)
(* rollbackJournal: a backup that is there goes back to its place; one     *)
(* that is recorded but not there never left it, or is back already; what  *)
(* was activated over nothing is removed.                                  *)
(***************************************************************************)
UndoAnyBackup ==
  /\ Step("undo")
  /\ proc.left # {}
  /\ LET d == NextUndo
         gone == d \in Written("backup") \cup Written("activate")
         next == IF seen[Backup(d)] # 0 THEN "undoMove" ELSE "undoStaged"
     IN IF gone /\ seen[Live(d)] # 0
        THEN Unlink(Live(d)) /\ GotoSynced(next, proc.left, Home(d))
        ELSE UNCHANGED <<seen, disk>> /\ Goto(next, proc.left)
  /\ UNCHANGED <<journal, historyVars, result, failures>>

UndoRequiresBackup ==
  /\ Step("undo")
  /\ proc.left # {}
  /\ LET d == NextUndo
         preserved == d \in Written("backup") /\ seen[Backup(d)] # 0
         missing   == d \in Written("backup") /\ ~preserved
         created   == d \notin Written("backup") /\ d \in Written("activate")
         next      == IF preserved THEN "undoMove" ELSE "undoStaged"
         removes   == (preserved \/ created) /\ seen[Live(d)] # 0
     IN /\ IF removes THEN Unlink(Live(d)) ELSE UNCHANGED <<seen, disk>>
        /\ proc' = [proc EXCEPT !.at = next, !.bad = @ \/ missing,
                          !.sync = IF removes THEN Home(d) ELSE "none"]
  /\ UNCHANGED <<journal, historyVars, result, failures>>

Undo ==
  /\ Step("undo")
  /\ proc.left # {}
  /\ LET d == NextUndo
         preserved == d \in Written("backup") /\ seen[Backup(d)] # 0
         created   == d \notin Written("backup") /\ d \in Written("activate")
         next      == IF preserved THEN "undoMove" ELSE "undoStaged"
     IN IF (preserved \/ created) /\ seen[Live(d)] # 0
        THEN Unlink(Live(d)) /\ GotoSynced(next, proc.left, Home(d))
        ELSE UNCHANGED <<seen, disk>> /\ Goto(next, proc.left)
  /\ UNCHANGED <<journal, historyVars, result, failures>>

UndoMove ==
  /\ Step("undoMove")
  /\ LET d == NextUndo
     IN Rename(Backup(d), Live(d)) /\ GotoSynced("undoStaged", proc.left, Home(d))
  /\ UNCHANGED <<journal, historyVars, result, failures>>

UndoStaged ==
  /\ Step("undoStaged")
  /\ LET d == NextUndo
     IN IF seen[Staged(d)] # 0
        THEN Unlink(Staged(d)) /\ GotoSynced("undo", proc.left \ {d}, Home(d))
        ELSE UNCHANGED <<seen, disk>> /\ Goto("undo", proc.left \ {d})
  /\ UNCHANGED <<journal, historyVars, result, failures>>

\* A rollback that failed somewhere keeps the journal for the next one.
UndoDone ==
  /\ Step("undo")
  /\ proc.left = {}
  /\ \/ ~proc.bad /\ Goto("discard", {}) /\ UNCHANGED result
     \/ proc.bad /\ proc' = NoProcess /\ result' = "broken"
  /\ IF proc.bad THEN Abandon ELSE UNCHANGED <<disk, stale>>
  /\ UNCHANGED <<seen, journal, old, new, committed, lost, failures>>

\* cleanupUncommittedRestore: the marker is gone for good before the journal is.
Discard ==
  /\ Step("discard")
  /\ Unlink(MarkerTemporary)
  /\ Goto("discardMarker", {})
  /\ UNCHANGED <<journal, historyVars, result, failures>>

DiscardMarker ==
  /\ Step("discardMarker")
  /\ Unlink(Marker)
  /\ GotoSynced("discardJournal", {}, "managed")
  /\ UNCHANGED <<journal, historyVars, result, failures>>

DiscardJournal ==
  /\ Step("discardJournal")
  /\ Unlink(Journal)
  /\ GotoSynced("end", {}, "managed")
  /\ UNCHANGED <<journal, historyVars, result, failures>>

(***************************************************************************)
(* Failing steps (activationPlan.fail), kills and power losses.            *)
(***************************************************************************)
Activating == {"copy", "copyFile", "preserve", "preserveMove", "activate", "activateMove",
               "seal", "sealRename"}
Recovering == {"finish", "finishStaged", "finishJournal", "orphan", "orphanMarker", "discard",
               "discardMarker", "discardJournal"}

Fails == failures < MaxFailures /\ failures' = failures + 1

ActivationFails ==
  /\ proc.at \in Activating \/ (proc.at = "commit" /\ proc.sync # "none")
  /\ proc' = [proc EXCEPT !.at = "undo", !.left = Mentioned, !.sync = "none", !.then = "failed"]
  /\ Fails
  /\ UNCHANGED <<seen, disk, journal, historyVars, result>>

\* A clean-up that fails leaves the rest to the next process; it does not undo
\* a restore that was committed.
RecoveryFails ==
  /\ proc.at \in Recovering
  /\ proc' = NoProcess
  /\ result' = Outcome
  /\ Abandon
  /\ Fails
  /\ UNCHANGED <<seen, journal, old, new, committed, lost>>

\* A rollback goes on with the next step when one fails; an old project whose
\* place could not be cleared is still renamed over it.
UndoFails ==
  /\ proc.at \in {"undo", "undoMove", "undoStaged"}
  /\ \/ proc.sync # "none" /\ proc' = [proc EXCEPT !.sync = "none", !.bad = TRUE]
     \/ /\ Step("undo") /\ proc.left # {}
        /\ \/ NextUndo \in Written("backup") /\ seen[Backup(NextUndo)] # 0
              /\ proc' = [proc EXCEPT !.at = "undoMove", !.bad = TRUE]
           \/ /\ NextUndo \in Written("backup") \cup Written("activate")
              /\ proc' = [proc EXCEPT !.at = "undoStaged", !.bad = TRUE]
     \/ Step("undoMove") /\ proc' = [proc EXCEPT !.at = "undoStaged", !.bad = TRUE]
     \/ /\ Step("undoStaged") /\ seen[Staged(NextUndo)] # 0
        /\ proc' = [proc EXCEPT !.at = "undo", !.left = @ \ {NextUndo}, !.bad = TRUE]
  /\ Fails
  /\ UNCHANGED <<seen, disk, journal, historyVars, result>>

Kill ==
  /\ proc.at # "idle"
  /\ proc' = NoProcess
  /\ Abandon
  /\ Fails
  /\ UNCHANGED <<seen, journal, old, new, committed, lost, result>>

PowerGone ==
  /\ disk' = [dir \in Directory |-> {Part(seen', dir)}]
  /\ stale' = [dir \in Directory |-> {}]
  /\ proc' = NoProcess
  /\ Fails
  /\ UNCHANGED <<journal, old, new, committed, result>>

PowerLoss == seen' \in Outcomes /\ PowerGone /\ UNCHANGED lost

\* It comes before the disk has got what an ended process did.
StalePowerLoss ==
  /\ seen' \in StaleOutcomes /\ seen'[Journal] \in {0, journal.id}
  /\ PowerGone /\ lost' = TRUE

Work == \/ Inspect \/ SyncDirectory \/ End \/ Check \/ Begin
        \/ Copy \/ CopyFile \/ Preserve \/ PreserveMove \/ Activate \/ ActivateMove
        \/ Seal \/ SealRename \/ Commit
        \/ Finish \/ FinishStaged \/ FinishJournal \/ Orphan \/ OrphanMarker
        \/ Undo \/ UndoMove \/ UndoStaged \/ UndoDone
        \/ Discard \/ DiscardMarker \/ DiscardJournal

RestoreNext == \/ \E force \in BOOLEAN : StartApply(force)
        \/ StartRuntime \/ Stop \/ Work
        \/ ActivationFails \/ RecoveryFails \/ UndoFails \/ Kill
        \/ PowerLoss \/ StalePowerLoss

\* A process that runs goes on; an operator whose project does not open tries
\* the restore again.
Fairness == WF_restoreVars(Work) /\ WF_restoreVars(Stop) /\ SF_restoreVars(StartApply(FALSE))

RestoreSpec == RestoreInit /\ [][RestoreNext]_restoreVars
RestoreFairSpec == RestoreSpec /\ Fairness

(***************************************************************************)
(* Properties.                                                             *)
(***************************************************************************)

\* Whatever was under way, the project that a recovery leaves now, or after a
\* power loss, is the one before the restore or the one after it, to the last
\* file; a process that has the project open, or is about to replace it, sees
\* one of the two (rollbackJournal, journalCommitted).  The exception is a
\* power loss that undoes what a killed process, or a clean-up that failed, had
\* done to a directory and not synced: the recovery after it went by names that
\* were not on the disk.
OldOrNew ==
  \/ lost
  \/ /\ \A f \in {seen} \cup Outcomes : RecoveredIn(f) \in {old, new}
     /\ proc.at \in {"open", "check"} => Project \in {old, new}

\* Past the commit point, and so after a restore that was reported as done,
\* nothing brings the old project back; after one that was reported as failed,
\* its rollback done, nothing brings the new one (installCommitMarker, fail,
\* cleanupUncommittedRestore).  The exception is that of OldOrNew.
CommitPoint ==
  \/ lost
  \/ \A f \in {seen} \cup Outcomes :
       /\ committed \/ result = "restored" => RecoveredIn(f) = new
       /\ result = "failed" => RecoveredIn(f) = old

\* A restore that was interrupted does not keep the project shut for ever: the
\* next restore, whatever becomes of it, leaves no journal behind.
Recovers == []<>(seen[Journal] = 0)
=============================================================================
