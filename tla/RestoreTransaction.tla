------------------------- MODULE RestoreTransaction -------------------------
(***************************************************************************)
(* The crash-consistent restore transaction: bin/lib/restore_transaction.py*)
(*                                                                         *)
(* One session at a time holds the flock on the state directory; it first  *)
(* recovers whatever an earlier session left, and then, if it was asked to *)
(* restore, plans, prepares, applies and retires a transaction of its own. *)
(* Other programs may edit the destination at any moment.  A session may   *)
(* be killed at any step, and power may fail at any step: a directory      *)
(* entry that was changed and not yet fsynced is then either kept or lost. *)
(*                                                                         *)
(* Every place whose entries matter (the destination root, a directory     *)
(* below it, the transaction state directory, the transaction's own        *)
(* directory) has a visible version, which running programs see, and a     *)
(* durable one, which a power failure may fall back to: dest and destD,    *)
(* slot and slotD, and so on.  fsync makes the two agree.                  *)
(***************************************************************************)
EXTENDS Naturals

CONSTANTS
    Path,             \* destination files
    Content,          \* file contents, permission bits included
    Absent,           \* a file that does not exist
    Bytes,            \* [Content -> anything]: a content without its mode
    Dir,              \* directories below the destination root
    Root,             \* the destination root
    StateDir,         \* .local/state/coding-system/recovery-transactions
    TxDir,            \* the directory of the current transaction
    Parent,           \* [Path -> Dir \cup {Root}]
    Requests,         \* the restores a caller may ask for
    Nobody,           \* no current entry, and no request
    MetadataOrdered,  \* TRUE: an fsync makes every earlier change durable,
                      \* as the journal of ext4 and xfs does; FALSE: it does
                      \* so only for the directory it names (POSIX)
    MaxStops,         \* bound: sessions killed or ended by an I/O error
    MaxPowerLosses,   \* bound: power failures
    MaxEdits          \* bound: edits by other programs

File == Content \cup {Absent}

\* A request: the declared paths, the content each is to have (Absent asks
\* for a deletion), and the paths whose divergence the caller accepts.
Request == [paths : SUBSET Path, target : [Path -> File], replace : SUBSET Path]

ASSUME ConstantsAssumption ==
    /\ Absent \notin Content
    /\ Root \notin Dir /\ StateDir \notin Dir \cup {Root}
    /\ TxDir \notin Dir \cup {Root, StateDir}
    /\ Parent \in [Path -> Dir \cup {Root}]
    /\ Requests \subseteq Request
    /\ Nobody \notin Path \cup Dir \cup Requests
    /\ MetadataOrdered \in BOOLEAN

ASSUME BoundsAssumption ==
    /\ MaxStops \in Nat
    /\ MaxPowerLosses \in Nat
    /\ MaxEdits \in Nat

VARIABLES
    dest, destD,        \* [Path -> File]: the destination files
    dirs, dirsD,        \* the directories below the root that exist
    temp, tempD,        \* paths with a .csr-restore or .csr-rollback file beside
    slot, slotD,        \* the name the transaction directory has, if any
    journal, journalD,  \* the state journal.json records
    backup, backupD,    \* the paths with a copy in the backups directory
    tx,                 \* the rest of the journal: what the transaction covers
    touched,            \* paths others wrote since preflight: their runtime
                        \* identity (inode, times) is no longer the inspected one
    pc, todo, cur,      \* where the session is, what its loop still has to do
    seen,               \* what the rollback's validation pass found in each path
    checked,            \* paths not edited since the session last inspected them
    role, req,          \* what the session is doing, and the restore asked for
    report,             \* what the last session told its caller
    stops, losses, edits

visible  == <<dest, dirs, temp, slot, journal, backup>>
durable  == <<destD, dirsD, tempD, slotD, journalD, backupD>>
record   == <<tx, touched>>
bounds   == <<stops, losses, edits>>
vars == <<visible, durable, record, pc, todo, cur, seen, checked, role, req,
          report, bounds>>

Slots     == {"none", "preparing", "tx", "cleanup"}
Decided   == {"applied", "rolled-back"}          \* state "committed"
Journals  == {"none", "prepared", "applying"} \cup Decided
Roles     == {"none", "recover", "restore", "commit", "undo", "abandon"}
Reports   == {"none", "restored", "recovered", "failed"}

Transaction == [paths : SUBSET Path, plan : SUBSET Path, base : [Path -> File],
                target : [Path -> File], made : SUBSET Dir]

ApplyPhase == {"applying", "begun", "mkdirs", "mkdir_sync", "install", "publish",
               "publish_sync", "verify", "commit", "committed"}
RollbackPhase == {"validate", "clear", "undo", "undo_publish", "undo_sync",
                  "rmdirs", "rmdir_sync", "undo_journal", "undo_journaled"}
PreparePhase == {"preflight", "prepare", "opened", "backup", "sealed", "rename",
                 "renamed"}
CleanupPhase == {"retire", "retired", "delete", "unlink", "rmdir", "deleted"}
Phases == {"idle", "recover"} \cup PreparePhase \cup ApplyPhase
              \cup RollbackPhase \cup CleanupPhase

-----------------------------------------------------------------------------
(* File-system primitives *)

\* fsync of the directories hs: their visible entries become durable. fsync of
\* a file is Flush({}): it makes no directory durable, unless metadata is ordered.
Flushed(hs, h) == MetadataOrdered \/ h \in hs

FlushAs(hs, files, subdirs) ==
    /\ destD' = [p \in Path |-> IF Flushed(hs, Parent[p]) THEN files[p] ELSE destD[p]]
    /\ dirsD' = IF Flushed(hs, Root) THEN subdirs ELSE dirsD
    /\ slotD' = IF Flushed(hs, StateDir) THEN slot ELSE slotD
    /\ journalD' = IF Flushed(hs, TxDir) THEN journal ELSE journalD
    /\ backupD' = IF Flushed(hs, TxDir) THEN backup ELSE backupD

Flush(hs) == FlushAs(hs, dest, dirs)

FlushTemp(hs) ==
    {p \in temp \cup tempD : p \in IF Flushed(hs, Parent[p]) THEN temp ELSE tempD}

Fsync(hs) == Flush(hs) /\ tempD' = FlushTemp(hs) /\ UNCHANGED visible

\* A temporary file is written beside p and fsynced.
WriteTemp(p) ==
    /\ temp' = temp \cup {p}
    /\ Flush({}) /\ tempD' = FlushTemp({}) \cup {p}

ParentExists(p) == Parent[p] \in dirs \cup {Root}

\* A directory can be removed when nothing is in it.
EmptyDir(d) ==
    \A p \in Path : Parent[p] = d => dest[p] = Absent /\ p \notin temp

-----------------------------------------------------------------------------
(* A session begins by taking the lock.  restore: transactional_apply;     *)
(* recover: recover_pending_transactions.                                  *)

Goto(next) == pc' = next

Begin(r, why) ==
    /\ pc = "idle"
    /\ pc' = "recover" /\ role' = why /\ req' = r
    /\ report' = "none"
    /\ UNCHANGED <<visible, durable, record, todo, cur, seen, checked, bounds>>

StartRestore == \E r \in Requests : Begin(r, "restore")
StartRecover == Begin(Nobody, "recover")

\* The session ends, releases the lock and forgets everything it held in memory.
EndSession(outcome) ==
    /\ pc' = "idle" /\ role' = "none" /\ req' = Nobody
    /\ todo' = {} /\ cur' = Nobody /\ checked' = {}
    /\ seen' = [p \in Path |-> Absent]
    /\ report' = outcome

\* A step of a session that changes nothing in memory but its position.
Unchanged == UNCHANGED <<record, seen, checked, role, req, report, bounds>>

-----------------------------------------------------------------------------
(* _recover_existing *)

\* A .preparing- or .cleanup- directory is deleted, whatever it holds.
RecoverDiscard ==
    /\ pc = "recover" /\ slot \in {"preparing", "cleanup"}
    /\ Goto("delete")
    /\ UNCHANGED <<visible, durable, todo, cur>> /\ Unchanged

\* Mutant: any journal past the preparation counts as a decision.
RecoverDecidedTooSoon ==
    /\ pc = "recover" /\ slot = "tx" /\ journal # "prepared"
    /\ Goto("retire")
    /\ UNCHANGED <<visible, durable, todo, cur>> /\ Unchanged

\* A committed transaction is only cleanup work.
RecoverDecided ==
    /\ pc = "recover" /\ slot = "tx" /\ journal \in Decided
    /\ Goto("retire")
    /\ UNCHANGED <<visible, durable, todo, cur>> /\ Unchanged

\* An uncommitted one is rolled back first.
RecoverPending ==
    /\ pc = "recover" /\ slot = "tx" /\ journal \in {"prepared", "applying"}
    /\ Goto("validate") /\ todo' = tx.plan
    /\ UNCHANGED <<visible, durable, cur>> /\ Unchanged

RecoverNothing ==
    /\ pc = "recover" /\ slot = "none"
    /\ \/ /\ role = "recover"
          /\ EndSession("recovered")
       \/ /\ role = "restore"
          /\ Goto("preflight")
          /\ UNCHANGED <<todo, cur, seen, checked, role, req, report>>
    /\ UNCHANGED <<visible, durable, record, bounds>>

RecoverStep ==
    RecoverDiscard \/ RecoverDecided \/ RecoverPending \/ RecoverNothing

-----------------------------------------------------------------------------
(* _preflight *)

\* Deleting a file that is already absent is a converged no-op.
Planned == {p \in req.paths : ~(req.target[p] = Absent /\ dest[p] = Absent)}

\* A file the caller did not agree to lose: overwriting a content that differs,
\* or deleting a file that exists, needs replace or an entry in replace_paths.
Divergent(p) ==
    /\ dest[p] # Absent /\ p \notin req.replace
    /\ \/ req.target[p] = Absent
       \/ Bytes[dest[p]] # Bytes[req.target[p]]

PreflightRefuses ==
    /\ pc = "preflight" /\ \E p \in Planned : Divergent(p)
    /\ EndSession("failed")
    /\ UNCHANGED <<visible, durable, record, bounds>>

Preflight ==
    /\ pc = "preflight" /\ \A p \in Planned : ~Divergent(p)
    /\ tx' = [paths  |-> req.paths,
              plan   |-> Planned,
              base   |-> dest,
              target |-> req.target,
              made   |-> {Parent[p] : p \in {q \in Planned : req.target[q] # Absent}}
                             \ (dirs \cup {Root})]
    /\ touched' = {}
    /\ IF Planned = {}
         THEN EndSession("restored")
         ELSE /\ Goto("prepare")
              /\ UNCHANGED <<todo, cur, seen, checked, role, req, report>>
    /\ UNCHANGED <<visible, durable, bounds>>

-----------------------------------------------------------------------------
(* _write_journal: the new journal is written to a file of its own, which is *)
(* fsynced, and replaces journal.json; the next step fsyncs the directory.   *)

WriteJournal(state, next) ==
    /\ journal' = state /\ Goto(next)
    /\ Flush({}) /\ tempD' = FlushTemp({})
    /\ UNCHANGED <<dest, dirs, temp, slot, backup, todo, cur>> /\ Unchanged

-----------------------------------------------------------------------------
(* _prepare_transaction: everything a rollback needs is durable under a      *)
(* .preparing- name before the rename to tx- makes it count.                 *)

PrepareOpen ==
    /\ pc = "prepare"
    /\ slot' = "preparing" /\ Goto("opened")
    /\ UNCHANGED <<dest, dirs, temp, journal, backup, durable, todo, cur>>
    /\ Unchanged

\* Mutant: no backup of the files that are to be deleted.
PrepareOpenedForReplacements ==
    /\ pc = "opened" /\ Fsync({StateDir})
    /\ Goto("backup")
    /\ todo' = {p \in tx.plan : tx.base[p] # Absent /\ tx.target[p] # Absent}
    /\ UNCHANGED cur /\ Unchanged

PrepareOpened ==
    /\ pc = "opened" /\ Fsync({StateDir})
    /\ Goto("backup") /\ todo' = {p \in tx.plan : tx.base[p] # Absent}
    /\ UNCHANGED cur /\ Unchanged

\* The file must still be the one preflight inspected when it is copied.
PrepareBackup(p) ==
    /\ pc = "backup" /\ p \in todo
    /\ p \notin touched /\ dest[p] = tx.base[p]
    /\ backup' = backup \cup {p}
    /\ todo' = todo \ {p}
    /\ Flush({}) /\ tempD' = FlushTemp({})
    /\ UNCHANGED <<dest, dirs, temp, slot, journal, pc, cur>> /\ Unchanged

PrepareJournal == pc = "backup" /\ todo = {} /\ WriteJournal("prepared", "sealed")

PrepareSealed ==
    /\ pc = "sealed" /\ Fsync({TxDir})
    /\ Goto("rename")
    /\ UNCHANGED <<todo, cur>> /\ Unchanged

PrepareRename ==
    /\ pc = "rename"
    /\ slot' = "tx" /\ Goto("renamed")
    /\ UNCHANGED <<dest, dirs, temp, journal, backup, durable, todo, cur>>
    /\ Unchanged

\* Mutant: the rename to tx- is not synced.
PrepareRenamedUnsynced ==
    /\ pc = "renamed" /\ UNCHANGED <<visible, durable>>
    /\ Goto("applying")
    /\ UNCHANGED <<todo, cur>> /\ Unchanged

PrepareRenamed ==
    /\ pc = "renamed" /\ Fsync({StateDir})
    /\ Goto("applying")
    /\ UNCHANGED <<todo, cur>> /\ Unchanged

\* A file that changed, or any other failure: the preparing directory goes.
PrepareFails ==
    /\ pc \in {"backup", "sealed", "rename"}
    /\ Goto("delete") /\ role' = "abandon" /\ todo' = {}
    /\ UNCHANGED <<visible, durable, record, cur, seen, checked, req, report, bounds>>

PrepareStep ==
    \/ PreflightRefuses \/ Preflight
    \/ PrepareOpen \/ PrepareOpened \/ \E p \in Path : PrepareBackup(p)
    \/ PrepareJournal \/ PrepareSealed \/ PrepareRename \/ PrepareRenamed
    \/ PrepareFails

-----------------------------------------------------------------------------
(* _apply_prepared_transaction *)

ApplyBegin == pc = "applying" /\ WriteJournal("applying", "begun")

ApplyBegun ==
    /\ pc = "begun" /\ Fsync({TxDir})
    /\ Goto("mkdirs") /\ todo' = tx.made
    /\ UNCHANGED cur /\ Unchanged

\* _create_planned_directory refuses one that appeared since preflight.
MakeDirectory(d) ==
    /\ pc = "mkdirs" /\ d \in todo /\ d \notin dirs
    /\ dirs' = dirs \cup {d}
    /\ cur' = d /\ Goto("mkdir_sync")
    /\ UNCHANGED <<dest, temp, slot, journal, backup, durable, todo>>
    /\ Unchanged

MadeDirectory ==
    /\ pc = "mkdir_sync" /\ Fsync({Root})
    /\ todo' = todo \ {cur} /\ cur' = Nobody /\ Goto("mkdirs")
    /\ Unchanged

DirectoriesMade ==
    /\ pc = "mkdirs" /\ todo = {}
    /\ Goto("install") /\ todo' = tx.plan
    /\ UNCHANGED <<visible, durable, cur>> /\ Unchanged

\* The entry is still what preflight found: the same runtime file, or absent
\* in a directory that exists.
AsPlanned(p) ==
    IF tx.base[p] # Absent
      THEN p \notin touched /\ dest[p] = tx.base[p]
      ELSE dest[p] = Absent /\ ParentExists(p)

\* Already what it should become: nothing is written.
InstallNothing(p) ==
    /\ pc = "install" /\ p \in todo /\ AsPlanned(p)
    /\ tx.base[p] # Absent /\ dest[p] = tx.target[p]
    /\ todo' = todo \ {p}
    /\ UNCHANGED <<visible, durable, pc, cur>> /\ Unchanged

\* Inspect the entry and write the new content beside it; a deletion writes none.
InstallStage(p) ==
    /\ pc = "install" /\ p \in todo /\ AsPlanned(p)
    /\ dest[p] # tx.target[p]
    /\ IF tx.target[p] = Absent THEN UNCHANGED <<temp, durable>> ELSE WriteTemp(p)
    /\ cur' = p /\ checked' = checked \cup {p} /\ Goto("publish")
    /\ UNCHANGED <<dest, dirs, slot, journal, backup, todo,
                   record, seen, role, req, report, bounds>>

\* os.replace, or os.unlink for a deletion: no second look at what is there.
InstallPublish ==
    /\ pc = "publish" /\ ParentExists(cur)
    /\ tx.target[cur] = Absent => dest[cur] # Absent
    /\ dest' = [dest EXCEPT ![cur] = tx.target[cur]]
    /\ temp' = temp \ {cur} /\ Goto("publish_sync")
    /\ UNCHANGED <<dirs, slot, journal, backup, durable, todo, cur>> /\ Unchanged

\* Mutant: the root is synced in place of the directory that changed.
InstallPublishedInRoot ==
    /\ pc = "publish_sync" /\ Fsync({Root})
    /\ Goto("verify")
    /\ UNCHANGED <<todo, cur>> /\ Unchanged

InstallPublished ==
    /\ pc = "publish_sync" /\ Fsync({Parent[cur]})
    /\ Goto("verify")
    /\ UNCHANGED <<todo, cur>> /\ Unchanged

InstallVerify ==
    /\ pc = "verify" /\ dest[cur] = tx.target[cur]
    /\ todo' = todo \ {cur} /\ cur' = Nobody /\ Goto("install")
    /\ UNCHANGED <<visible, durable>> /\ Unchanged

Installed ==
    /\ pc = "install" /\ todo = {} /\ Fsync({Root})
    /\ Goto("commit")
    /\ UNCHANGED <<todo, cur>> /\ Unchanged

\* Mutant: the state is recorded where the outcome belongs.
ApplyCommitByState == pc = "commit" /\ WriteJournal("committed", "committed")

ApplyCommit == pc = "commit" /\ WriteJournal("applied", "committed")

ApplyCommitted ==
    /\ pc = "committed" /\ Fsync({TxDir})
    /\ Goto("retire") /\ role' = "commit"
    /\ UNCHANGED <<record, todo, cur, seen, checked, req, report, bounds>>

\* Any exception: the journal on disk, not the step that failed, says whether
\* to roll back. The step may have removed its temporary file, or not.
ApplyFails ==
    /\ pc \in ApplyPhase
    /\ \/ UNCHANGED <<temp, durable>>
       \/ /\ pc = "publish" /\ temp' = temp \ {cur}
          /\ Flush({Parent[cur]}) /\ tempD' = FlushTemp({Parent[cur]}) \ {cur}
    /\ role' = "undo" /\ cur' = Nobody /\ checked' = {}
    /\ IF journal \in Decided
         THEN Goto("retire") /\ todo' = {}
         ELSE Goto("validate") /\ todo' = tx.plan
    /\ UNCHANGED <<dest, dirs, slot, journal, backup, record, seen, req, report, bounds>>

ApplyStep ==
    \/ ApplyBegin \/ ApplyBegun
    \/ \E d \in Dir : MakeDirectory(d)
    \/ MadeDirectory \/ DirectoriesMade
    \/ \E p \in Path : InstallNothing(p) \/ InstallStage(p)
    \/ InstallPublish \/ InstallPublished \/ InstallVerify \/ Installed
    \/ ApplyCommit \/ ApplyCommitted \/ ApplyFails

-----------------------------------------------------------------------------
(* _rollback_transaction: first every backup and every destination file is   *)
(* validated, then files are put back, using what the validation found.      *)

\* Mutant: whatever the file holds is taken to be the transaction's.
RecoverableUnseen(p) == tx.base[p] # Absent => p \in backup /\ ParentExists(p)

\* Neither the old nor the new content: somebody else's, never overwritten.
Recoverable(p) ==
    /\ tx.base[p] # Absent => p \in backup /\ ParentExists(p)
    /\ dest[p] \in {Absent, tx.base[p], tx.target[p]}

RollbackValidate(p) ==
    /\ pc = "validate" /\ p \in todo /\ Recoverable(p)
    /\ seen' = [seen EXCEPT ![p] = dest[p]]
    /\ checked' = checked \cup {p}
    /\ todo' = todo \ {p}
    /\ UNCHANGED <<visible, durable, record, pc, cur, role, req, report, bounds>>

RollbackValidated ==
    /\ pc = "validate" /\ todo = {}
    /\ Goto("clear")
    /\ UNCHANGED <<visible, durable, todo, cur>> /\ Unchanged

\* _remove_transaction_temporary, its unlink and fsync taken as one step
RollbackClear(p) ==
    /\ pc = "clear" /\ p \in temp \cap tx.plan
    /\ temp' = temp \ {p} /\ Flush({Parent[p]}) /\ tempD' = FlushTemp({Parent[p]}) \ {p}
    /\ UNCHANGED <<dest, dirs, slot, journal, backup, pc, todo, cur>> /\ Unchanged

\* Mutant: temporary files are left where they are.
RollbackClearedAnyway ==
    /\ pc = "clear"
    /\ Goto("undo") /\ todo' = tx.plan
    /\ UNCHANGED <<visible, durable, cur>> /\ Unchanged

RollbackCleared ==
    /\ pc = "clear" /\ temp \cap tx.plan = {}
    /\ Goto("undo") /\ todo' = tx.plan
    /\ UNCHANGED <<visible, durable, cur>> /\ Unchanged

\* Mutant: a file without a backup has nothing to be put back.
UndoNothingWithoutBackup(p) ==
    /\ pc = "undo" /\ p \in todo /\ (seen[p] = tx.base[p] \/ tx.base[p] = Absent)
    /\ todo' = todo \ {p}
    /\ UNCHANGED <<visible, durable, pc, cur>> /\ Unchanged

\* The validation found the old state: the file is left alone, not even synced.
UndoNothing(p) ==
    /\ pc = "undo" /\ p \in todo /\ seen[p] = tx.base[p]
    /\ todo' = todo \ {p}
    /\ UNCHANGED <<visible, durable, pc, cur>> /\ Unchanged

\* Copy the backup beside the file that is to be put back.
UndoStage(p) ==
    /\ pc = "undo" /\ p \in todo /\ seen[p] # tx.base[p]
    /\ tx.base[p] # Absent /\ ParentExists(p)
    /\ WriteTemp(p) /\ cur' = p /\ Goto("undo_publish")
    /\ UNCHANGED <<dest, dirs, slot, journal, backup, todo>> /\ Unchanged

UndoPublish ==
    /\ pc = "undo_publish" /\ ParentExists(cur)
    /\ dest' = [dest EXCEPT ![cur] = tx.base[cur]]
    /\ temp' = temp \ {cur} /\ Goto("undo_sync")
    /\ UNCHANGED <<dirs, slot, journal, backup, durable, todo, cur>> /\ Unchanged

\* A file that did not exist before the transaction is removed.
UndoRemove(p) ==
    /\ pc = "undo" /\ p \in todo /\ seen[p] # tx.base[p]
    /\ tx.base[p] = Absent /\ dest[p] # Absent
    /\ dest' = [dest EXCEPT ![p] = Absent]
    /\ cur' = p /\ Goto("undo_sync")
    /\ UNCHANGED <<dirs, temp, slot, journal, backup, durable, todo>> /\ Unchanged

UndoSynced ==
    /\ pc = "undo_sync" /\ Fsync({Parent[cur]})
    /\ todo' = todo \ {cur} /\ cur' = Nobody /\ Goto("undo")
    /\ Unchanged

\* Mutant: the loop ends a file early.
UndoneEarly ==
    /\ pc = "undo"
    /\ Goto("rmdirs") /\ todo' = tx.made
    /\ UNCHANGED <<visible, durable, cur>> /\ Unchanged

Undone ==
    /\ pc = "undo" /\ todo = {}
    /\ Goto("rmdirs") /\ todo' = tx.made
    /\ UNCHANGED <<visible, durable, cur>> /\ Unchanged

\* A created directory that is gone already is skipped, unsynced too.
UndoNoDirectory(d) ==
    /\ pc = "rmdirs" /\ d \in todo /\ d \notin dirs
    /\ todo' = todo \ {d}
    /\ UNCHANGED <<visible, durable, pc, cur>> /\ Unchanged

UndoDirectory(d) ==
    /\ pc = "rmdirs" /\ d \in todo /\ d \in dirs /\ EmptyDir(d)
    /\ dirs' = dirs \ {d} /\ cur' = d /\ Goto("rmdir_sync")
    /\ UNCHANGED <<dest, temp, slot, journal, backup, durable, todo>> /\ Unchanged

UndoneDirectory ==
    /\ pc = "rmdir_sync" /\ Fsync({Root})
    /\ todo' = todo \ {cur} /\ cur' = Nobody /\ Goto("rmdirs")
    /\ Unchanged

UndoneDirectories ==
    /\ pc = "rmdirs" /\ todo = {} /\ Fsync({Root})
    /\ Goto("undo_journal")
    /\ UNCHANGED <<todo, cur>> /\ Unchanged

RollbackCommit ==
    pc = "undo_journal" /\ WriteJournal("rolled-back", "undo_journaled")

RollbackCommitted ==
    /\ pc = "undo_journaled" /\ Fsync({TxDir})
    /\ Goto("retire")
    /\ UNCHANGED <<todo, cur>> /\ Unchanged

\* The journal was lost, or what the rollback finds is not something it may undo.
RollbackBlocked ==
    \/ pc = "recover" /\ slot = "tx" /\ journal = "none"
    \/ pc = "validate" /\ \E p \in todo : ~Recoverable(p)
    \/ pc = "undo" /\ \E p \in todo :
          /\ seen[p] # tx.base[p]
          /\ IF tx.base[p] = Absent THEN dest[p] = Absent ELSE ~ParentExists(p)
    \/ pc = "undo_publish" /\ ~ParentExists(cur)
    \/ pc = "rmdirs" /\ \E d \in todo \cap dirs : ~EmptyDir(d)

\* The session gives up; the transaction stays for the next one to recover.
RollbackRefuses ==
    /\ RollbackBlocked
    /\ EndSession("failed")
    /\ UNCHANGED <<visible, durable, record, bounds>>

RollbackStep ==
    \/ \E p \in Path : \/ RollbackValidate(p) \/ RollbackClear(p)
                       \/ UndoNothing(p) \/ UndoStage(p) \/ UndoRemove(p)
    \/ \E d \in Dir : UndoNoDirectory(d) \/ UndoDirectory(d)
    \/ RollbackValidated \/ RollbackCleared \/ UndoPublish \/ UndoSynced
    \/ Undone \/ UndoneDirectory \/ UndoneDirectories
    \/ RollbackCommit \/ RollbackCommitted \/ RollbackRefuses

-----------------------------------------------------------------------------
(* _cleanup_transaction: the rename to .cleanup- retires the transaction     *)
(* before anything a rollback would need is deleted.                         *)

Retire ==
    /\ pc = "retire"
    /\ slot' = "cleanup" /\ Goto("retired") /\ todo' = {} /\ cur' = Nobody
    /\ UNCHANGED <<dest, dirs, temp, journal, backup, durable>> /\ Unchanged

Retired ==
    /\ pc = "retired" /\ Fsync({StateDir})
    /\ Goto("delete")
    /\ UNCHANGED <<todo, cur>> /\ Unchanged

DeleteBackups ==
    /\ pc = "delete"
    /\ backup' = {} /\ Goto("unlink")
    /\ UNCHANGED <<dest, dirs, temp, slot, journal, durable, todo, cur>>
    /\ Unchanged

\* Each deletion is fsynced before the next: the backups, the journal, and at
\* last the directory itself.
DeleteJournal ==
    /\ pc = "unlink"
    /\ Flush({TxDir}) /\ tempD' = FlushTemp({TxDir})
    /\ journal' = "none" /\ Goto("rmdir")
    /\ UNCHANGED <<dest, dirs, temp, slot, backup, todo, cur>> /\ Unchanged

DeleteDirectory ==
    /\ pc = "rmdir"
    /\ Flush({TxDir}) /\ tempD' = FlushTemp({TxDir})
    /\ slot' = "none" /\ Goto("deleted")
    /\ UNCHANGED <<dest, dirs, temp, journal, backup, todo, cur>> /\ Unchanged

\* Mutant: a rollback that worked is reported as a success.
DeletedAlwaysRestored ==
    /\ pc = "deleted" /\ Fsync({StateDir})
    /\ \/ /\ role \in {"recover", "restore"}
          /\ Goto("recover")
          /\ UNCHANGED <<todo, cur, seen, checked, role, req, report>>
       \/ role \in {"commit", "undo"} /\ EndSession("restored")
       \/ role = "abandon" /\ EndSession("failed")
    /\ UNCHANGED <<record, bounds>>

\* What the session does once nothing is pending depends on why it got here.
Deleted ==
    /\ pc = "deleted" /\ Fsync({StateDir})
    /\ \/ /\ role \in {"recover", "restore"}
          /\ Goto("recover")
          /\ UNCHANGED <<todo, cur, seen, checked, role, req, report>>
       \/ role = "commit" /\ EndSession("restored")
       \/ role \in {"undo", "abandon"} /\ EndSession("failed")
    /\ UNCHANGED <<record, bounds>>

CleanupStep ==
    Retire \/ Retired \/ DeleteBackups \/ DeleteJournal \/ DeleteDirectory \/ Deleted

SessionStep ==
    RecoverStep \/ PrepareStep \/ ApplyStep \/ RollbackStep \/ CleanupStep

-----------------------------------------------------------------------------
(* The environment *)

\* Another program creates, rewrites or removes a destination file, and syncs
\* the directory it is in.
Edit(p, c) ==
    /\ edits < MaxEdits
    /\ ParentExists(p) /\ ~(dest[p] = Absent /\ c = Absent)
    /\ dest' = [dest EXCEPT ![p] = c]
    /\ FlushAs({Parent[p]}, dest', dirs) /\ tempD' = FlushTemp({Parent[p]})
    /\ touched' = touched \cup {p} /\ checked' = checked \ {p}
    /\ edits' = edits + 1
    /\ UNCHANGED <<dirs, temp, slot, journal, backup, tx, pc, todo, cur, seen, role,
                   req, report, stops, losses>>

\* Another program creates a directory, or removes an empty one.
EditDirectory(d) ==
    /\ edits < MaxEdits
    /\ \/ d \notin dirs /\ dirs' = dirs \cup {d}
       \/ d \in dirs /\ EmptyDir(d) /\ dirs' = dirs \ {d}
    /\ FlushAs({Root}, dest, dirs') /\ tempD' = FlushTemp({Root})
    /\ edits' = edits + 1
    /\ UNCHANGED <<dest, temp, slot, journal, backup, record, pc, todo, cur, seen,
                   checked, role, req, report, stops, losses>>

\* The session is killed, or an I/O error escapes it. The files stay.
Stop ==
    /\ pc # "idle" /\ stops < MaxStops
    /\ EndSession("failed")
    /\ stops' = stops + 1
    /\ UNCHANGED <<visible, durable, record, losses, edits>>

\* The entries of a directory become durable, by no step of the session.
Flushes(h) ==
    /\ Fsync({h})
    /\ UNCHANGED <<record, pc, todo, cur, seen, checked, role, req, report, bounds>>

\* The kernel writes them back on its own.
WriteBack(h) == losses < MaxPowerLosses /\ Flushes(h)

\* _open_lock: a session on its way to the lock fsyncs the state directory before it
\* asks for it. It may then wait for as long as others hold it, so that Begin does not
\* always have a fsync just before it.
OpenLock == Flushes(StateDir)

\* Power fails: what is left is what was durable, and nothing that was below a
\* directory which is not.
PowerLoss ==
    /\ losses < MaxPowerLosses
    /\ LET Kept(p) == Parent[p] \in dirsD \cup {Root} IN
          /\ dest' = [p \in Path |-> IF Kept(p) THEN destD[p] ELSE Absent]
          /\ temp' = {p \in tempD : Kept(p)}
    /\ dirs' = dirsD /\ slot' = slotD
    /\ journal' = IF slotD = "none" THEN "none" ELSE journalD
    /\ backup' = IF slotD = "none" THEN {} ELSE backupD
    /\ destD' = dest' /\ dirsD' = dirs' /\ tempD' = temp' /\ slotD' = slot'
    /\ journalD' = journal' /\ backupD' = backup'
    /\ EndSession("failed")
    /\ losses' = losses + 1
    /\ UNCHANGED <<record, stops, edits>>

Environment ==
    \/ \E p \in Path, c \in File : Edit(p, c)
    \/ \E d \in Dir : EditDirectory(d)
    \/ \E h \in Dir \cup {Root, StateDir, TxDir} : WriteBack(h)
    \/ OpenLock \/ Stop \/ PowerLoss

-----------------------------------------------------------------------------
Init ==
    /\ dirs \in SUBSET Dir
    /\ dest \in {f \in [Path -> File] : \A p \in Path : f[p] # Absent => ParentExists(p)}
    /\ destD = dest /\ dirsD = dirs
    /\ temp = {} /\ tempD = {}
    /\ slot = "none" /\ slotD = "none"
    /\ journal = "none" /\ journalD = "none"
    /\ backup = {} /\ backupD = {}
    /\ tx = [paths |-> {}, plan |-> {}, base |-> dest, target |-> dest, made |-> {}]
    /\ touched = {}
    /\ pc = "idle" /\ todo = {} /\ cur = Nobody
    /\ seen = [p \in Path |-> Absent] /\ checked = {}
    /\ role = "none" /\ req = Nobody /\ report = "none"
    /\ stops = 0 /\ losses = 0 /\ edits = 0

Start == StartRestore \/ StartRecover

Next == Start \/ SessionStep \/ Environment

Spec == Init /\ [][Next]_vars

\* A session that runs keeps running, and while a transaction is pending
\* somebody eventually runs the next restore or recover-transaction.
Fairness ==
    /\ WF_vars(SessionStep)
    /\ WF_vars(slot # "none" /\ Start)

FairSpec == Spec /\ Fairness

-----------------------------------------------------------------------------
(* Properties *)

\* Every variable stays within its type.
TypeOK ==
    /\ dest \in [Path -> File] /\ destD \in [Path -> File]
    /\ dirs \subseteq Dir /\ dirsD \subseteq Dir
    /\ temp \subseteq Path /\ tempD \subseteq Path
    /\ slot \in Slots /\ slotD \in Slots
    /\ journal \in Journals /\ journalD \in Journals
    /\ backup \subseteq Path /\ backupD \subseteq Path
    /\ tx \in Transaction /\ touched \subseteq Path
    /\ pc \in Phases
    /\ todo \subseteq Path \cup Dir
    /\ cur \in Path \cup Dir \cup {Nobody}
    /\ seen \in [Path -> File] /\ checked \subseteq Path
    /\ role \in Roles /\ req \in Requests \cup {Nobody} /\ report \in Reports
    /\ stops \in Nat /\ losses \in Nat /\ edits \in Nat

\* The planned files nobody else has written since preflight.
Owned == tx.plan \ touched

\* An uncommitted transaction exists: the next session will roll it back.
Pending == slot = "tx" /\ journal \notin Decided

\* The same of the state a power failure would leave.
PendingD == slotD = "tx" /\ journalD \notin Decided

\* Unless a transaction waits to be rolled back, the files it owned are all as
\* they were before it or all as it wanted them, whatever crashed and when.
AllOrNothing ==
    ~Pending => \E image \in {tx.base, tx.target} :
                   \A p \in Owned : dest[p] = image[p]

\* As long as a session would find the transaction uncommitted, now or after a
\* power failure, every file it would have to put back has its backup.
BackupsCoverPending ==
    LET Needed == {p \in tx.plan : tx.base[p] # Absent}
    IN  /\ Pending => Needed \subseteq backup
        /\ PendingD => Needed \subseteq backupD

\* Nothing the transaction wrote beside the owner's files survives it: no
\* temporary copy of a secret in the destination, no backup in the state.
NoResidue ==
    slot = "none" => temp = {} /\ backup = {} /\ journal = "none"

\* A restore reported successful is complete and durable, but for files others
\* have written since.
SuccessIsDurable ==
    report = "restored" =>
        /\ ~Pending /\ ~PendingD
        /\ \A p \in tx.paths \ touched : dest[p] = tx.target[p] /\ destD[p] = dest[p]

\* A session replaces a file only if its transaction planned it, and unless the
\* file was edited after the session inspected it, only if it held its old or
\* its new content or did not exist.
ReplacesOnlyExpected ==
    [][ \A p \in Path :
          SessionStep /\ dest'[p] # dest[p] =>
             /\ p \in tx.plan
             /\ p \in checked => dest[p] \in {Absent, tx.base[p], tx.target[p]}
      ]_vars

\* The detailed transaction implements the promise of AtomicRestore. A file's
\* value is what recovery would leave in it: while the durable state still says
\* that the transaction is to be rolled back, the old content.
Value == [p \in Path |-> IF PendingD /\ p \in Owned THEN tx.base[p] ELSE dest[p]]

Atomic == INSTANCE AtomicRestore
              WITH value <- Value, plan <- tx.plan, target <- tx.target

ImplementsAtomicRestore == Atomic!Spec

\* A pending transaction is recovered unless the destination was changed in a
\* way recovery refuses to overwrite: a file holding someone else's content, a
\* directory that disappeared, or one that somebody else put a file into.
Obstructed ==
    \/ \E p \in touched \cap tx.plan : dest[p] \notin {Absent, tx.base[p], tx.target[p]}
    \/ \E p \in tx.plan : tx.base[p] # Absent /\ ~ParentExists(p)
    \/ \E d \in tx.made \cap dirs :
          \E p \in Path : Parent[p] = d /\ dest[p] # Absent /\ (p \in tx.plan => p \in touched)
RecoveryConverges == slot # "none" ~> slot = "none" \/ Obstructed

\* What docs/SECRETS.md says of the journal: file replacements are fsynced
\* before the next state can be published.
SyncedBeforeDecision ==
    slot = "tx" /\ journal \in Decided => \A p \in Owned : destD[p] = dest[p]
=============================================================================
