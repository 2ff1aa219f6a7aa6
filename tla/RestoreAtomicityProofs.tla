----------------------- MODULE RestoreAtomicityProofs -----------------------
(***************************************************************************)
(* The restore transaction is atomic and durable, for any number of files, *)
(* directories, requests, crashes and edits, on a file system that makes   *)
(* metadata durable in order (ext4, xfs).                                  *)
(*                                                                         *)
(* View (RestoreTransactionProofs) says how what programs see follows from *)
(* where the session stands; a power failure keeps it only because of what *)
(* Durable says here: which durable state can stand behind which visible   *)
(* one.                                                                    *)
(***************************************************************************)
EXTENDS RestoreTransactionProofs

-----------------------------------------------------------------------------
(* The inductive invariant.                                                  *)

\* The durable files: all old or all new unless both the visible and the durable
\* state call for a rollback; synced unless the visible state does; and synced
\* where the transaction writes nothing.
FilesDurable ==
    /\ OldOrNew(destD)
    /\ ~Pending => destD = dest
    /\ Pending /\ slotD # "tx" => AtBase(dest) /\ AtBase(destD)
    /\ \A p \in Path \ tx.plan : destD[p] = dest[p]

\* The durable transaction directory: which name and journal can lag behind which,
\* and that what is needed to roll back is durable before it is called for.
StateDurable ==
    /\ slot \in {"none", "preparing"} => slotD # "tx"
    /\ slot = "tx" \/ slotD = "tx" => Needed \subseteq backupD
    /\ Pending => journalD \notin Decided
    /\ tempD \subseteq tx.plan
    /\ ~Pending \/ slotD # "tx" => tempD = {}

\* What a session has made durable by the time it gets somewhere.
PhaseDurable ==
    /\ pc \in ApplyPhase => slotD = "tx"
    /\ pc \in {"rename", "renamed"} => journalD = "prepared" /\ Needed \subseteq backupD
    /\ pc \in {"prepare", "opened", "backup", "sealed", "rename", "renamed",
               "applying", "begun", "mkdirs", "mkdir_sync"} => AtBase(destD)

Durable == FilesDurable /\ StateDurable /\ PhaseDurable /\ SuccessIsDurable

\* Where metadata is ordered, a durable file also has a durable directory.
Rooted == \A p \in Path : destD[p] # Absent => Parent[p] \in dirsD \cup {Root}

Ordered == Durable /\ Rooted

Inductive == Typed /\ View /\ Ordered

-----------------------------------------------------------------------------
(* Where metadata is ordered, fsync of anything makes all of it durable.     *)

\* Where metadata is ordered, any fsync makes the visible state durable.
LEMMA OrderedFlush ==
  ASSUME MetadataOrdered, TypeOK, NEW hs, NEW files \in [Path -> File], NEW subdirs,
         FlushAs(hs, files, subdirs)
  PROVE  destD' = files /\ dirsD' = subdirs /\ slotD' = slot
         /\ journalD' = journal /\ backupD' = backup
  BY DEF FlushAs, Flushed, TypeOK

\* A flush leaves in tempD exactly the temporary files there are.
LEMMA OrderedFlushTemp ==
  ASSUME MetadataOrdered, NEW hs
  PROVE  FlushTemp(hs) = temp
  BY DEF FlushTemp, Flushed

\* After fsync of any directory the durable state is the visible one.
LEMMA OrderedFsync ==
  ASSUME MetadataOrdered, TypeOK, NEW hs, Fsync(hs)
  PROVE  /\ destD' = dest /\ dirsD' = dirs /\ tempD' = temp
         /\ slotD' = slot /\ journalD' = journal /\ backupD' = backup
         /\ UNCHANGED visible
<1>1. Flush(hs) /\ tempD' = temp /\ UNCHANGED visible
  BY OrderedFlushTemp DEF Fsync
<1> QED
  BY <1>1, OrderedFlush DEF Flush, TypeOK

\* Writing a temporary file makes everything durable, that file included.
LEMMA OrderedWriteTemp ==
  ASSUME MetadataOrdered, TypeOK, NEW p \in Path, WriteTemp(p)
  PROVE  /\ destD' = dest /\ dirsD' = dirs /\ tempD' = temp \cup {p}
         /\ slotD' = slot /\ journalD' = journal /\ backupD' = backup
         /\ temp' = temp \cup {p}
<1>1. Flush({}) /\ tempD' = temp \cup {p} /\ temp' = temp \cup {p}
  BY OrderedFlushTemp DEF WriteTemp
<1> QED
  BY <1>1, OrderedFlush DEF Flush, TypeOK

\* The new journal is not durable yet, everything written before it is.
LEMMA OrderedWriteJournal ==
  ASSUME MetadataOrdered, TypeOK, NEW state, NEW next, WriteJournal(state, next)
  PROVE  /\ destD' = dest /\ dirsD' = dirs /\ tempD' = temp
         /\ slotD' = slot /\ journalD' = journal /\ backupD' = backup
         /\ journal' = state /\ pc' = next
         /\ UNCHANGED <<dest, dirs, temp, slot, backup, todo, cur>> /\ Unchanged
<1>1. Flush({}) /\ tempD' = temp
  BY OrderedFlushTemp DEF WriteJournal
<1>2. /\ journal' = state /\ pc' = next
      /\ UNCHANGED <<dest, dirs, temp, slot, backup, todo, cur>> /\ Unchanged
  BY DEF WriteJournal, Goto
<1> QED
  BY <1>1, <1>2, OrderedFlush DEF Flush, TypeOK

USE DEF visible, durable, record, bounds, Goto, Unchanged, EndSession, File, Slots,
        Journals, Roles, Reports, Phases, PreparePhase, ApplyPhase, RollbackPhase,
        CleanupPhase, Decided

-----------------------------------------------------------------------------
(* Every step keeps the invariant: one lemma for each group of actions.      *)

\* No success was just reported, or the one that was still is.
Reported ==
    \/ report' # "restored"
    \/ /\ SuccessIsDurable
       /\ report = "restored" /\ UNCHANGED <<tx, slot, journal>>
       /\ \A p \in Path \ touched' : dest'[p] = dest[p] /\ p \notin touched

\* When all of the visible state has just become durable, the invariant needs no
\* more than View.
LEMMA SyncedOrdered ==
  ASSUME View', Typed', Reported,
         destD' = dest', dirsD' = dirs', tempD' = temp', slotD' = slot', journalD' = journal',
         backupD' = backup'
  PROVE  Ordered'
<1> USE DEF View, FilesNow, StateNow, PhaseSlot, PhaseJournal, PhaseBackup, PhaseFiles, PhaseTemps,
            Ordered, Durable, FilesDurable, StateDurable, PhaseDurable, SuccessIsDurable, Rooted,
            Needed, Owned, Pending, PendingD, AtBase, AtTarget, OldOrNew, Typed, TypeOK, ParentExists
<1>1. FilesDurable' /\ Rooted'
  OBVIOUS
<1>2. StateDurable' /\ PhaseDurable'
  OBVIOUS
<1>3. SuccessIsDurable'
  BY DEF Reported, Transaction
<1> QED
  BY <1>1, <1>2, <1>3

\* Every declared path is planned, or absent and to be deleted.
LEMMA DeclaredPaths ==
  ASSUME Typed, View, AtTarget(dest)
  PROVE  \A p \in tx.paths \ touched : p \in Path /\ dest[p] = tx.target[p]
  BY DEF AtTarget, Owned, View, FilesNow, Typed, TypeOK, Transaction

\* An edit changes one file, below a directory that exists.
LEMMA EditedFile ==
  ASSUME TypeOK, NEW p \in Path, NEW c \in File, Edit(p, c)
  PROVE  /\ dest' \in [Path -> File] /\ \A q \in Path \ {p} : dest'[q] = dest[q]
         /\ FlushAs({Parent[p]}, dest', dirs) /\ tempD' = FlushTemp({Parent[p]})
         /\ touched' = touched \cup {p}
         /\ UNCHANGED <<dirs, temp, slot, journal, backup, tx, pc, todo, cur, seen, role,
                        req, report, stops, losses>>
<1>1. dest' = [dest EXCEPT ![p] = c]
  BY DEF Edit
<1> QED
  BY <1>1 DEF Edit, TypeOK

\* Nothing needs to be shown of a step that changes no file and leaves the session
\* where it need not have made anything durable.
LEMMA SettledOrdered ==
  ASSUME View, Ordered, Reported, UNCHANGED <<visible, durable, record>>,
         pc' \in {pc, "idle", "recover", "validate", "retire", "delete", "clear"}
  PROVE  Ordered'
<1> USE DEF View, FilesNow, StateNow, PhaseSlot, PhaseJournal, PhaseBackup, PhaseFiles, PhaseTemps,
            Ordered, Durable, FilesDurable, StateDurable, PhaseDurable, SuccessIsDurable, Rooted,
            Needed, Owned, Pending, PendingD, AtBase, AtTarget, OldOrNew, Typed, TypeOK, ParentExists
<1>1. FilesDurable' /\ Rooted' /\ SuccessIsDurable'
  BY DEF Reported
<1> QED
  BY <1>1

\* A session that runs has nothing to report yet.
LEMMA Silent == View /\ report' \in {report, "failed", "recovered"} /\ pc # "idle" => Reported
  BY DEF View, Reported

\* Taking the lock keeps it.
LEMMA StartOrdered ==
  ASSUME MetadataOrdered, Typed, View, Ordered, Start, Typed', View'
  PROVE  Ordered'
<1> USE DEF View, FilesNow, StateNow, PhaseSlot, PhaseJournal, PhaseBackup, PhaseFiles, PhaseTemps,
            Ordered, Durable, FilesDurable, StateDurable, PhaseDurable, SuccessIsDurable, Rooted,
            Needed, Owned, Pending, PendingD, AtBase, AtTarget, OldOrNew, Typed, TypeOK, ParentExists
<1>1. CASE StartRestore
  BY <1>1, SettledOrdered DEF StartRestore, Begin, Reported
<1>2. CASE StartRecover
  BY <1>2, SettledOrdered DEF StartRecover, Begin, Reported
<1> QED
  BY <1>1, <1>2 DEF Start

\* So does deciding what to do with what an earlier session left.
LEMMA RecoverOrdered ==
  ASSUME MetadataOrdered, Typed, View, Ordered, RecoverStep, Typed', View'
  PROVE  Ordered'
<1> USE DEF View, FilesNow, StateNow, PhaseSlot, PhaseJournal, PhaseBackup, PhaseFiles, PhaseTemps,
            Ordered, Durable, FilesDurable, StateDurable, PhaseDurable, SuccessIsDurable, Rooted,
            Needed, Owned, Pending, PendingD, AtBase, AtTarget, OldOrNew, Typed, TypeOK, ParentExists
<1>1. CASE RecoverDiscard
  BY <1>1 DEF RecoverDiscard
<1>2. CASE RecoverDecided
  BY <1>2 DEF RecoverDecided
<1>3. CASE RecoverPending
  BY <1>3 DEF RecoverPending
<1>4. CASE RecoverNothing
  BY <1>4 DEF RecoverNothing
<1> QED
  BY <1>1, <1>2, <1>3, <1>4 DEF RecoverStep

\* Planning and preparing: nothing counts before the rename to tx-.
LEMMA PrepareOrdered ==
  ASSUME MetadataOrdered, Typed, View, Ordered, PrepareStep, Typed', View'
  PROVE  Ordered'
<1> USE DEF View, FilesNow, StateNow, PhaseSlot, PhaseJournal, PhaseBackup, PhaseFiles, PhaseTemps,
            Ordered, Durable, FilesDurable, StateDurable, PhaseDurable, SuccessIsDurable, Rooted,
            Needed, Owned, Pending, PendingD, AtBase, AtTarget, OldOrNew, Typed, TypeOK, ParentExists
<1>1. CASE PreflightRefuses
  BY <1>1 DEF PreflightRefuses
<1>2. CASE Preflight
  <2>1. destD = dest /\ tempD = {} /\ slot = "none" /\ slotD # "tx"
    BY <1>2 DEF Preflight
  <2>2. tx' = [paths |-> req.paths, plan |-> Planned, base |-> dest, target |-> req.target,
               made |-> tx'.made] /\ touched' = {}
    BY <1>2 DEF Preflight
  <2>3. FilesDurable' /\ PhaseDurable'
    BY <1>2, <2>1, <2>2 DEF Preflight, Transaction
  <2>4. StateDurable' /\ Rooted'
    BY <1>2, <2>1, <2>2 DEF Preflight, Transaction
  <2>5. report' = "restored" => \A p \in req.paths : req.target[p] = Absent /\ dest[p] = Absent
    BY <1>2 DEF Preflight, Planned
  <2>6. SuccessIsDurable'
    BY <1>2, <2>1, <2>2, <2>5 DEF Preflight, Request, Transaction
  <2> QED
    BY <2>3, <2>4, <2>6
<1>3. CASE PrepareOpen
  BY <1>3 DEF PrepareOpen
<1>4. CASE PrepareOpened
  BY <1>4, OrderedFsync, Silent, SyncedOrdered DEF PrepareOpened
<1>5. ASSUME NEW p \in Path, PrepareBackup(p) PROVE Ordered'
  <2>1. /\ destD' = dest /\ dirsD' = dirs /\ slotD' = slot /\ tempD' = temp
        /\ journalD' = journal /\ backupD' = backup
    BY <1>5, OrderedFlush, OrderedFlushTemp DEF PrepareBackup, Flush
  <2>2. UNCHANGED <<dest, dirs, temp, slot, journal, tx, touched, pc, report>> /\ pc = "backup"
    BY <1>5 DEF PrepareBackup
  <2> QED
    BY <2>1, <2>2
<1>6. CASE PrepareJournal
  <2>1. /\ destD' = dest /\ dirsD' = dirs /\ tempD' = temp
        /\ slotD' = slot /\ journalD' = journal /\ backupD' = backup
        /\ pc' = "sealed" /\ journal' = "prepared"
        /\ UNCHANGED <<dest, dirs, temp, slot, backup, tx, touched, report>> /\ pc = "backup"
    BY <1>6, OrderedWriteJournal DEF PrepareJournal
  <2> QED
    BY <2>1
<1>7. CASE PrepareSealed
  BY <1>7, OrderedFsync, Silent, SyncedOrdered DEF PrepareSealed
<1>8. CASE PrepareRename
  BY <1>8 DEF PrepareRename
<1>9. CASE PrepareRenamed
  BY <1>9, OrderedFsync, Silent, SyncedOrdered DEF PrepareRenamed
<1>10. CASE PrepareFails
  BY <1>10 DEF PrepareFails
<1> QED
  BY <1>1, <1>2, <1>3, <1>4, <1>5, <1>6, <1>7, <1>8, <1>9, <1>10 DEF PrepareStep

\* Applying: new contents appear only while the durable journal says applying.
LEMMA ApplyOrdered ==
  ASSUME MetadataOrdered, Typed, View, Ordered, ApplyStep, Typed', View'
  PROVE  Ordered'
<1> USE DEF View, FilesNow, StateNow, PhaseSlot, PhaseJournal, PhaseBackup, PhaseFiles, PhaseTemps,
            Ordered, Durable, FilesDurable, StateDurable, PhaseDurable, SuccessIsDurable, Rooted,
            Needed, Owned, Pending, PendingD, AtBase, AtTarget, OldOrNew, Typed, TypeOK, ParentExists
<1>1. CASE ApplyBegin
  BY <1>1, OrderedWriteJournal DEF ApplyBegin
<1>2. CASE ApplyBegun
  BY <1>2, OrderedFsync, Silent, SyncedOrdered DEF ApplyBegun
<1>3. ASSUME NEW d \in Dir, MakeDirectory(d) PROVE Ordered'
  <2>1. /\ pc = "mkdirs" /\ pc' = "mkdir_sync" /\ report' = report
        /\ UNCHANGED <<dest, durable, temp, slot, journal, backup, tx, touched>>
    BY <1>3 DEF MakeDirectory
  <2> QED
    BY <2>1
<1>4. CASE MadeDirectory
  BY <1>4, OrderedFsync, Silent, SyncedOrdered DEF MadeDirectory
<1>5. CASE DirectoriesMade
  <2>1. /\ pc = "mkdirs" /\ pc' = "install" /\ report' = report
        /\ UNCHANGED <<visible, durable, tx, touched>>
    BY <1>5 DEF DirectoriesMade
  <2> QED
    BY <2>1
<1>6. ASSUME NEW p \in Path, InstallNothing(p) PROVE Ordered'
  BY <1>6 DEF InstallNothing
<1>7. ASSUME NEW p \in Path, InstallStage(p) PROVE Ordered'
  <2>1. CASE UNCHANGED <<temp, durable>>
    BY <1>7, <2>1 DEF InstallStage
  <2>2. CASE WriteTemp(p)
    <3>1. /\ destD' = dest' /\ dirsD' = dirs' /\ tempD' = temp' /\ slotD' = slot'
          /\ journalD' = journal' /\ backupD' = backup'
      BY <1>7, <2>2, OrderedWriteTemp DEF InstallStage
    <3> QED
      BY <1>7, <3>1, Silent, SyncedOrdered DEF InstallStage
  <2> QED
    BY <1>7, <2>1, <2>2 DEF InstallStage
<1>8. CASE InstallPublish
  <2>1. /\ cur \in tx.plan /\ \A q \in Path \ {cur} : dest'[q] = dest[q]
        /\ pc = "publish" /\ pc' = "publish_sync"
        /\ UNCHANGED <<durable, dirs, slot, journal, backup, tx, touched, report>>
    BY <1>8 DEF InstallPublish, Loops
  <2>2. FilesDurable' /\ Rooted'
    BY <2>1 DEF Transaction
  <2> QED
    BY <2>1, <2>2
<1>9. CASE InstallPublished
  BY <1>9, OrderedFsync, Silent, SyncedOrdered DEF InstallPublished
<1>10. CASE InstallVerify
  BY <1>10 DEF InstallVerify
<1>11. CASE Installed
  BY <1>11, OrderedFsync, Silent, SyncedOrdered DEF Installed
<1>12. CASE ApplyCommit
  BY <1>12, OrderedWriteJournal DEF ApplyCommit
<1>13. CASE ApplyCommitted
  BY <1>13, OrderedFsync, Silent, SyncedOrdered DEF ApplyCommitted
<1>14. CASE ApplyFails
  <2>1. CASE UNCHANGED <<temp, durable>>
    <3>1. /\ UNCHANGED <<visible, durable, record, report>>
          /\ pc' \in {"retire", "validate"} /\ pc # "idle"
      BY <1>14, <2>1 DEF ApplyFails
    <3> QED
      BY <3>1, Silent, SettledOrdered
  <2>2. CASE /\ pc = "publish" /\ temp' = temp \ {cur}
             /\ Flush({Parent[cur]}) /\ tempD' = FlushTemp({Parent[cur]}) \ {cur}
    <3>1. /\ destD' = dest' /\ dirsD' = dirs' /\ tempD' = temp' /\ slotD' = slot'
          /\ journalD' = journal' /\ backupD' = backup'
      BY <1>14, <2>2, OrderedFlush, OrderedFlushTemp DEF ApplyFails, Flush
    <3> QED
      BY <1>14, <3>1, Silent, SyncedOrdered DEF ApplyFails, Flush
  <2> QED
    BY <1>14, <2>1, <2>2 DEF ApplyFails
<1> QED
  BY <1>1, <1>2, <1>3, <1>4, <1>5, <1>6, <1>7, <1>8, <1>9, <1>10, <1>11, <1>12, <1>13, <1>14 DEF ApplyStep

\* Rolling back: files lag behind only while the rollback is still called for.
LEMMA RollbackOrdered ==
  ASSUME MetadataOrdered, Typed, View, Ordered, RollbackStep, Typed', View'
  PROVE  Ordered'
<1> USE DEF View, FilesNow, StateNow, PhaseSlot, PhaseJournal, PhaseBackup, PhaseFiles, PhaseTemps,
            Ordered, Durable, FilesDurable, StateDurable, PhaseDurable, SuccessIsDurable, Rooted,
            Needed, Owned, Pending, PendingD, AtBase, AtTarget, OldOrNew, Typed, TypeOK, ParentExists
<1>1. ASSUME NEW p \in Path, RollbackValidate(p) PROVE Ordered'
  BY <1>1 DEF RollbackValidate
<1>2. ASSUME NEW p \in Path, RollbackClear(p) PROVE Ordered'
  <2>1. /\ destD' = dest' /\ dirsD' = dirs' /\ tempD' = temp' /\ slotD' = slot'
        /\ journalD' = journal' /\ backupD' = backup'
    BY <1>2, OrderedFlush, OrderedFlushTemp DEF RollbackClear, Flush
  <2> QED
    BY <1>2, <2>1, Silent, SyncedOrdered DEF RollbackClear, Flush
<1>3. ASSUME NEW p \in Path, UndoNothing(p) PROVE Ordered'
  BY <1>3, Silent, SettledOrdered DEF UndoNothing
<1>4. ASSUME NEW p \in Path, UndoStage(p) PROVE Ordered'
  <2>1. /\ destD' = dest' /\ dirsD' = dirs' /\ tempD' = temp' /\ slotD' = slot'
        /\ journalD' = journal' /\ backupD' = backup'
    BY <1>4, OrderedWriteTemp DEF UndoStage
  <2> QED
    BY <1>4, <2>1, Silent, SyncedOrdered DEF UndoStage
<1>5. ASSUME NEW p \in Path, UndoRemove(p) PROVE Ordered'
  BY <1>5 DEF UndoRemove, Loops
<1>6. ASSUME NEW d \in Dir, UndoNoDirectory(d) PROVE Ordered'
  BY <1>6 DEF UndoNoDirectory
<1>7. ASSUME NEW d \in Dir, UndoDirectory(d) PROVE Ordered'
  BY <1>7 DEF UndoDirectory
<1>8. CASE RollbackValidated
  BY <1>8 DEF RollbackValidated
<1>9. CASE RollbackCleared
  BY <1>9 DEF RollbackCleared
<1>10. CASE UndoPublish
  <2>1. /\ cur \in tx.plan /\ \A q \in Path \ {cur} : dest'[q] = dest[q]
        /\ pc = "undo_publish" /\ pc' = "undo_sync"
        /\ UNCHANGED <<durable, dirs, slot, journal, backup, tx, touched, report>>
    BY <1>10 DEF UndoPublish, Loops
  <2>2. FilesDurable' /\ Rooted'
    <3>1. Pending /\ Pending' /\ AtBase(destD)' = AtBase(destD)
      BY <2>1
    <3>2. AtBase(dest) => AtBase(dest)'
      BY <1>10, <2>1 DEF UndoPublish
    <3> QED
      BY <2>1, <3>1, <3>2
  <2> QED
    BY <2>1, <2>2
<1>11. CASE UndoSynced
  BY <1>11, OrderedFsync, Silent, SyncedOrdered DEF UndoSynced
<1>12. CASE Undone
  BY <1>12 DEF Undone
<1>13. CASE UndoneDirectory
  BY <1>13, OrderedFsync, Silent, SyncedOrdered DEF UndoneDirectory
<1>14. CASE UndoneDirectories
  BY <1>14, OrderedFsync, Silent, SyncedOrdered DEF UndoneDirectories
<1>15. CASE RollbackCommit
  BY <1>15, OrderedWriteJournal DEF RollbackCommit
<1>16. CASE RollbackCommitted
  BY <1>16, OrderedFsync, Silent, SyncedOrdered DEF RollbackCommitted
<1>17. CASE RollbackRefuses
  <2>1. UNCHANGED <<visible, durable, record>> /\ pc' = "idle" /\ report' = "failed"
    BY <1>17 DEF RollbackRefuses
  <2> QED
    BY <2>1, SettledOrdered DEF Reported
<1> QED
  BY <1>1, <1>2, <1>3, <1>4, <1>5, <1>6, <1>7, <1>8, <1>9, <1>10, <1>11, <1>12, <1>13, <1>14, <1>15, <1>16, <1>17 DEF RollbackStep

\* Retiring: the backups go only once the transaction is renamed away.
LEMMA CleanupOrdered ==
  ASSUME MetadataOrdered, Typed, View, Ordered, CleanupStep, Typed', View'
  PROVE  Ordered'
<1> USE DEF View, FilesNow, StateNow, PhaseSlot, PhaseJournal, PhaseBackup, PhaseFiles, PhaseTemps,
            Ordered, Durable, FilesDurable, StateDurable, PhaseDurable, SuccessIsDurable, Rooted,
            Needed, Owned, Pending, PendingD, AtBase, AtTarget, OldOrNew, Typed, TypeOK, ParentExists
<1>1. CASE Retire
  BY <1>1 DEF Retire
<1>2. CASE Retired
  BY <1>2, OrderedFsync, Silent, SyncedOrdered DEF Retired
<1>3. CASE DeleteBackups
  BY <1>3 DEF DeleteBackups
<1>4. CASE DeleteJournal
  <2>1. /\ destD' = dest /\ dirsD' = dirs /\ slotD' = slot /\ tempD' = temp
        /\ journalD' = journal /\ backupD' = backup
    BY <1>4, OrderedFlush, OrderedFlushTemp DEF DeleteJournal, Flush
  <2>2. UNCHANGED <<dest, dirs, temp, slot, backup, tx, touched, report>> /\ ~Pending /\ ~Pending'
    BY <1>4 DEF DeleteJournal
  <2> QED
    BY <1>4, <2>1, <2>2 DEF DeleteJournal
<1>5. CASE DeleteDirectory
  <2>1. /\ destD' = dest /\ dirsD' = dirs /\ slotD' = slot /\ tempD' = temp
        /\ journalD' = journal /\ backupD' = backup
    BY <1>5, OrderedFlush, OrderedFlushTemp DEF DeleteDirectory, Flush
  <2>2. UNCHANGED <<dest, dirs, temp, journal, backup, tx, touched, report>> /\ ~Pending /\ ~Pending'
    BY <1>5 DEF DeleteDirectory
  <2> QED
    BY <1>5, <2>1, <2>2 DEF DeleteDirectory
<1>6. CASE Deleted
  <2>1. /\ destD' = dest' /\ dirsD' = dirs' /\ tempD' = temp' /\ slotD' = slot'
        /\ journalD' = journal' /\ backupD' = backup' /\ dest' = dest /\ tx' = tx /\ touched' = touched
        /\ slot' = slot /\ slot = "none"
    BY <1>6, OrderedFsync DEF Deleted
  <2>2. FilesDurable' /\ Rooted' /\ StateDurable' /\ PhaseDurable'
    BY <2>1
  <2>3. report' = "restored" => AtTarget(dest)
    BY <1>6 DEF Deleted
  <2>5. AtTarget(dest) =>
           \A p \in tx.paths \ touched : p \in Path /\ dest[p] = tx.target[p]
    BY DeclaredPaths
  <2>6. SuccessIsDurable'
    BY <2>1, <2>3, <2>5
  <2> QED
    BY <2>2, <2>6
<1> QED
  BY <1>1, <1>2, <1>3, <1>4, <1>5, <1>6 DEF CleanupStep

\* So do edits, write-back and killed sessions.
LEMMA EnvironmentOrdered ==
  ASSUME MetadataOrdered, Typed, View, Ordered, Environment, ~PowerLoss, Typed', View'
  PROVE  Ordered'
<1> USE DEF View, FilesNow, StateNow, PhaseSlot, PhaseJournal, PhaseBackup, PhaseFiles, PhaseTemps,
            Ordered, Durable, FilesDurable, StateDurable, PhaseDurable, SuccessIsDurable, Rooted,
            Needed, Owned, Pending, PendingD, AtBase, AtTarget, OldOrNew, Typed, TypeOK, ParentExists
<1>1. ASSUME NEW p \in Path, NEW c \in File, Edit(p, c) PROVE Ordered'
  <2>1. /\ dest' \in [Path -> File] /\ \A q \in Path \ {p} : dest'[q] = dest[q]
        /\ FlushAs({Parent[p]}, dest', dirs) /\ tempD' = FlushTemp({Parent[p]})
    BY <1>1, EditedFile
  <2>2. /\ touched' = touched \cup {p}
        /\ UNCHANGED <<dirs, temp, slot, journal, backup, tx, pc, todo, cur, seen, role,
                       req, report, stops, losses>>
    BY <1>1, EditedFile
  <2>3. /\ destD' = dest' /\ dirsD' = dirs /\ slotD' = slot
        /\ journalD' = journal /\ backupD' = backup /\ tempD' = temp
    BY <2>1, OrderedFlush, OrderedFlushTemp
  <2>4. Reported
    BY <2>1, <2>2 DEF Reported
  <2> QED
    BY <2>1, <2>2, <2>3, <2>4, SyncedOrdered
<1>2. ASSUME NEW d \in Dir, EditDirectory(d) PROVE Ordered'
  <2>1. FlushAs({Root}, dest, dirs') /\ tempD' = temp
    BY <1>2, OrderedFlushTemp DEF EditDirectory
  <2>2. /\ destD' = dest /\ dirsD' = dirs' /\ slotD' = slot
        /\ journalD' = journal /\ backupD' = backup
    BY <2>1, OrderedFlush
  <2>3. UNCHANGED <<dest, temp, slot, journal, backup, record, pc, report>>
    BY <1>2 DEF EditDirectory
  <2>4. Reported
    BY <2>3 DEF Reported
  <2> QED
    BY <2>1, <2>2, <2>3, <2>4, SyncedOrdered
<1>3. ASSUME NEW h, Flushes(h) PROVE Ordered'
  <2>1. Reported
    BY <1>3 DEF Flushes, Fsync, Reported
  <2>2. /\ destD' = dest' /\ dirsD' = dirs' /\ tempD' = temp' /\ slotD' = slot'
        /\ journalD' = journal' /\ backupD' = backup'
    BY <1>3, OrderedFsync DEF Flushes
  <2> QED
    BY <2>1, <2>2, SyncedOrdered
<1>4. CASE Stop
  BY <1>4, SettledOrdered DEF Stop, Reported
<1> QED
  BY <1>1, <1>2, <1>3, <1>4 DEF Environment, WriteBack, OpenLock

\* A power failure: the durable state that takes the place of the visible one is one
\* that View allows.
LEMMA PowerLossOrdered ==
  ASSUME Typed, View, Ordered, PowerLoss, Typed'
  PROVE  View' /\ Ordered'
<1> USE DEF View, FilesNow, StateNow, PhaseSlot, PhaseJournal, PhaseBackup, PhaseFiles, PhaseTemps,
            Ordered, Durable, FilesDurable, StateDurable, PhaseDurable, SuccessIsDurable, Rooted,
            Needed, Owned, Pending, PendingD, AtBase, AtTarget, OldOrNew, Typed, TypeOK, ParentExists
<1>1. \A p \in Path : dest'[p] = destD[p] /\ destD'[p] = destD[p]
  BY DEF PowerLoss
<1>2. /\ temp' \subseteq tempD /\ tempD' = temp'
      /\ dirs' = dirsD /\ dirsD' = dirsD /\ slot' = slotD /\ slotD' = slotD
      /\ journal' = (IF slotD = "none" THEN "none" ELSE journalD) /\ journalD' = journal'
      /\ backup' = (IF slotD = "none" THEN {} ELSE backupD) /\ backupD' = backup'
      /\ destD' = dest' /\ pc' = "idle" /\ role' = "none" /\ report' = "failed" /\ checked' = {}
      /\ UNCHANGED record
  BY DEF PowerLoss
<1>3. FilesNow' /\ StateNow'
  BY <1>1, <1>2 DEF Transaction
<1>4. View'
  BY <1>2, <1>3 DEF Loops, Expected
<1> QED
  BY <1>2, <1>4, SyncedOrdered DEF Reported

\* The invariant holds initially, ...
LEMMA InitOrdered == Init => Ordered
  BY DEF Init, ParentExists, Ordered, Durable, FilesDurable, StateDurable, PhaseDurable,
     SuccessIsDurable, Rooted, Needed, Owned, Pending, PendingD, AtBase, AtTarget, OldOrNew

\* ... every step keeps it, ...
LEMMA NextOrdered ==
  ASSUME MetadataOrdered, Inductive, [Next]_vars
  PROVE  Inductive'
<1>1. Typed'
  BY NextTyped DEF Inductive
<1>2. CASE PowerLoss
  BY <1>1, <1>2, PowerLossOrdered DEF Inductive
<1>3. CASE ~PowerLoss
  <2>1. View'
    BY <1>3, NextView DEF Inductive
  <2>2. UNCHANGED vars => Ordered'
    BY DEF vars, Inductive, Ordered, Durable, FilesDurable, StateDurable, PhaseDurable,
       SuccessIsDurable, Rooted, Needed, Owned, Pending, PendingD, AtBase, AtTarget, OldOrNew
  <2>3. CASE Next
    BY <1>1, <1>3, <2>1, <2>3, StartOrdered, RecoverOrdered, PrepareOrdered, ApplyOrdered,
       RollbackOrdered, CleanupOrdered, EnvironmentOrdered DEF Next, SessionStep, Inductive
  <2> QED
    BY <1>1, <2>1, <2>2, <2>3 DEF Inductive
<1> QED
  BY <1>2, <1>3

\* ... and so it always holds.
LEMMA InductiveInvariant == MetadataOrdered => (Spec => []Inductive)
<1> SUFFICES ASSUME MetadataOrdered PROVE Spec => []Inductive
  OBVIOUS
<1>1. Init => Inductive
  BY InitTyped, InitView, InitOrdered DEF Inductive
<1>2. Inductive /\ [Next]_vars => Inductive'
  BY NextOrdered
<1> QED
  BY <1>1, <1>2, PTL DEF Spec

-----------------------------------------------------------------------------
(* The safety properties.                                                    *)

\* Unless a transaction waits to be rolled back, the files it owned are all old
\* or all new, at whatever step sessions died and power failed.
THEOREM AtomicAlways == MetadataOrdered => (Spec => []AllOrNothing)
<1> SUFFICES ASSUME MetadataOrdered PROVE Spec => []AllOrNothing
  OBVIOUS
<1>1. Inductive => AllOrNothing
  BY DEF AllOrNothing, Inductive, View, FilesNow, AtBase, AtTarget
<1> QED
  BY <1>1, InductiveInvariant, PTL

\* A transaction that can still be found uncommitted, now or after a power
\* failure, has a backup of every file it would put back.
THEOREM BackupsAlways == MetadataOrdered => (Spec => []BackupsCoverPending)
<1> SUFFICES ASSUME MetadataOrdered PROVE Spec => []BackupsCoverPending
  OBVIOUS
<1>1. Inductive => BackupsCoverPending
  BY DEF BackupsCoverPending, Pending, PendingD, Inductive, View, StateNow, Ordered,
         Durable, StateDurable, Needed
<1> QED
  BY <1>1, InductiveInvariant, PTL

\* No temporary file, backup or journal outlives its transaction.
THEOREM ResidueNever == MetadataOrdered => (Spec => []NoResidue)
<1> SUFFICES ASSUME MetadataOrdered PROVE Spec => []NoResidue
  OBVIOUS
<1>1. Inductive => NoResidue
  BY DEF NoResidue, Inductive, View, StateNow, Pending
<1> QED
  BY <1>1, InductiveInvariant, PTL

\* A restore reported successful is complete, and no power failure undoes it.
THEOREM SuccessAlwaysDurable == MetadataOrdered => (Spec => []SuccessIsDurable)
<1> SUFFICES ASSUME MetadataOrdered PROVE Spec => []SuccessIsDurable
  OBVIOUS
<1>1. Inductive => SuccessIsDurable
  BY DEF Inductive, Ordered, Durable
<1> QED
  BY <1>1, InductiveInvariant, PTL

-----------------------------------------------------------------------------
(* What one step can do to the files, and the refinement of AtomicRestore.   *)

\* Only planning a restore changes what the transaction covers.
LEMMA RecordStays == SessionStep /\ ~Preflight => UNCHANGED record
<1>1. RecoverStep \/ PrepareStep => Preflight \/ UNCHANGED record
  BY DEF RecoverStep, RecoverDiscard, RecoverDecided, RecoverPending, RecoverNothing,
     PrepareStep, PreflightRefuses, PrepareOpen, PrepareOpened, PrepareBackup, PrepareJournal,
     WriteJournal, PrepareSealed, PrepareRename, PrepareRenamed, PrepareFails
<1>2. ApplyStep => UNCHANGED record
  BY DEF ApplyStep, ApplyBegin, ApplyBegun, MakeDirectory, MadeDirectory, DirectoriesMade,
     InstallNothing, InstallStage, InstallPublish, InstallPublished, InstallVerify, Installed,
     ApplyCommit, ApplyCommitted, ApplyFails, WriteJournal
<1>3. RollbackStep => UNCHANGED record
  BY DEF RollbackStep, RollbackValidate, RollbackClear, UndoNothing, UndoStage, UndoPublish,
     UndoRemove, UndoNoDirectory, UndoDirectory, RollbackValidated, RollbackCleared, UndoSynced,
     Undone, UndoneDirectory, UndoneDirectories, RollbackCommit, RollbackCommitted,
     RollbackRefuses, WriteJournal
<1>4. CleanupStep => UNCHANGED record
  BY DEF CleanupStep, Retire, Retired, DeleteBackups, DeleteJournal, DeleteDirectory, Deleted
<1> QED
  BY <1>1, <1>2, <1>3, <1>4 DEF SessionStep

\* The durable name and journal stay or catch up with the visible ones; where
\* metadata is ordered, both together.
CatchesUp ==
    /\ slotD' \in {slotD, slot} /\ journalD' \in {journalD, journal}
    /\ MetadataOrdered => \/ slotD' = slotD /\ journalD' = journalD
                          \/ slotD' = slot /\ journalD' = journal

LEMMA FlushCatchesUp ==
  ASSUME NEW hs, NEW files, NEW subdirs, FlushAs(hs, files, subdirs)
  PROVE  CatchesUp
  BY DEF FlushAs, Flushed, CatchesUp

LEMMA FsyncCatchesUp ==
  ASSUME NEW hs, Flush(hs) \/ Fsync(hs)
  PROVE  CatchesUp
  BY FlushCatchesUp DEF Fsync, Flush

LEMMA StepCatchesUp ==
  ASSUME [Next]_vars, ~PowerLoss
  PROVE  CatchesUp
<1>1. UNCHANGED durable => CatchesUp
  BY DEF CatchesUp
<1>2. CASE RecoverStep \/ PrepareStep
  BY <1>1, <1>2, FsyncCatchesUp
  DEF RecoverStep, RecoverDiscard, RecoverDecided, RecoverPending, RecoverNothing,
     PrepareStep, PreflightRefuses, Preflight, PrepareOpen, PrepareOpened, PrepareBackup,
     PrepareJournal, WriteJournal, PrepareSealed, PrepareRename, PrepareRenamed, PrepareFails
<1>3. CASE ApplyStep
  BY <1>1, <1>3, FsyncCatchesUp
  DEF ApplyStep, ApplyBegin, ApplyBegun, MakeDirectory, MadeDirectory, DirectoriesMade,
     InstallNothing, InstallStage, InstallPublish, InstallPublished, InstallVerify, Installed,
     ApplyCommit, ApplyCommitted, ApplyFails, WriteJournal, WriteTemp
<1>4. CASE RollbackStep
  BY <1>1, <1>4, FsyncCatchesUp
  DEF RollbackStep, RollbackValidate, RollbackClear, UndoNothing, UndoStage, UndoPublish,
     UndoRemove, UndoNoDirectory, UndoDirectory, RollbackValidated, RollbackCleared, UndoSynced,
     Undone, UndoneDirectory, UndoneDirectories, RollbackCommit, RollbackCommitted,
     RollbackRefuses, WriteJournal, WriteTemp
<1>5. CASE CleanupStep
  BY <1>1, <1>5, FsyncCatchesUp
  DEF CleanupStep, Retire, Retired, DeleteBackups, DeleteJournal, DeleteDirectory, Deleted
<1>6. CASE Environment
  BY <1>1, <1>6, FsyncCatchesUp, FlushCatchesUp DEF Environment, Edit, EditDirectory,
     WriteBack, OpenLock, Flushes, Stop
<1>7. CASE Start \/ UNCHANGED vars
  BY <1>1, <1>7 DEF Start, StartRestore, StartRecover, Begin, vars
<1> QED
  BY <1>2, <1>3, <1>4, <1>5, <1>6, <1>7 DEF Next, SessionStep

\* A session changes only planned files of a transaction that is to be rolled back.
LEMMA StepPending ==
  ASSUME Typed, View, SessionStep, NEW p \in Path, dest'[p] # dest[p]
  PROVE  Pending /\ p \in tx.plan
<1>1. p \in tx.plan
  BY StepReplaces DEF View
<1>2. pc \in {"publish", "undo_publish", "undo"}
  BY FileSteps DEF InstallPublish, UndoPublish, UndoRemove
<1> QED
  BY <1>1, <1>2 DEF View, PhaseSlot, PhaseJournal, Pending

\* A power failure takes nothing but what a pending transaction is to put back.
LosesOnlyPending ==
    \A p \in Path \ touched : dest'[p] = dest[p] \/ (Pending /\ p \in tx.plan)

\* The durable name and the durable journal, written back one without the other,
\* do not add up to a rollback that neither state calls for.
VerdictsAgree ==
    \/ MetadataOrdered
    \/ /\ slot = "tx" /\ slotD # "tx" => Pending
       /\ slotD = "tx" /\ slot # "tx" => journal \in Decided

\* No step but Preflight makes a decided transaction pending again, and files
\* change only by a transaction that is to be rolled back, or by others.
LEMMA StepOnFiles ==
  ASSUME Typed, View, Durable, [Next]_vars, ~Preflight,
         PowerLoss => LosesOnlyPending,
         VerdictsAgree
  PROVE  /\ tx' = tx
         /\ touched' = touched \/ \E p \in Path : touched' = touched \cup {p}
         /\ PendingD' => PendingD \/ Pending
         /\ \A p \in Path \ touched' : dest'[p] = dest[p] \/ (Pending /\ p \in tx.plan)
<1>0. ~PowerLoss => (PendingD' => PendingD \/ Pending)
  <2> SUFFICES ASSUME ~PowerLoss, PendingD', ~PendingD PROVE Pending
    OBVIOUS
  <2>1. CatchesUp
    BY StepCatchesUp
  <2> QED
    BY <2>1 DEF CatchesUp, VerdictsAgree, Pending, PendingD
<1>1. CASE SessionStep
  <2>1. \A p \in Path : dest'[p] = dest[p] \/ (Pending /\ p \in tx.plan)
    BY <1>1, StepPending
  <2>2. ~PowerLoss
    BY <1>1, SessionBounds DEF PowerLoss, Typed, TypeOK
  <2> QED
    BY <1>0, <1>1, <2>1, <2>2, RecordStays
<1>2. ASSUME NEW p \in Path, NEW c \in File, Edit(p, c)
      PROVE  /\ tx' = tx /\ touched' = touched \cup {p} /\ ~PowerLoss
             /\ \A q \in Path \ touched' : dest'[q] = dest[q]
  <2>1. losses' = losses /\ tx' = tx /\ touched' = touched \cup {p} /\ p \in touched'
        /\ \A q \in Path \ {p} : dest'[q] = dest[q]
    BY <1>2, EditedFile DEF Typed
  <2> QED
    BY <2>1 DEF PowerLoss, Typed, TypeOK
<1>3. CASE (\E d \in Dir : EditDirectory(d)) \/ (\E h : Flushes(h)) \/ Start \/ Stop
           \/ UNCHANGED vars
  <2>1. UNCHANGED <<record, dest, losses>>
    BY <1>3 DEF EditDirectory, Flushes, Fsync, Start, StartRestore, StartRecover, Begin, Stop,
       vars
  <2>2. ~PowerLoss
    BY <2>1 DEF PowerLoss, Typed, TypeOK
  <2> QED
    BY <1>0, <2>1, <2>2
<1>5. CASE PowerLoss
  BY <1>5 DEF PowerLoss, PendingD, LosesOnlyPending
<1> QED
  BY <1>0, <1>1, <1>2, <1>3, <1>5 DEF Next, Environment, WriteBack, OpenLock

\* The files the transaction owns recover to all old or all new contents.
LEMMA ValueUniform ==
  ASSUME Typed, View, Durable
  PROVE  \/ \A p \in Owned : Value[p] = tx.base[p]
         \/ /\ \A p \in Owned : Value[p] = tx.target[p]
            /\ ~Pending /\ ~PendingD
<1>1. Owned \subseteq Path
  BY DEF Owned, Typed, TypeOK, Transaction
<1>2. CASE PendingD
  BY <1>1, <1>2 DEF Value
<1>3. CASE ~PendingD
  <2>1. \A p \in Owned : Value[p] = dest[p]
    BY <1>1, <1>3 DEF Value
  <2>2. AtBase(dest) \/ (~Pending /\ AtTarget(dest))
    BY <1>3 DEF View, FilesNow, Durable, FilesDurable, StateDurable, Pending, PendingD
  <2> QED
    BY <1>3, <2>1, <2>2 DEF AtBase, AtTarget
<1> QED
  BY <1>2, <1>3

\* Every step between states in order is a step of AtomicRestore, or changes
\* nothing there.
LEMMA StepRefines ==
  ASSUME Typed, View, Durable, Typed', View', Durable', [Next]_vars,
         PowerLoss => LosesOnlyPending,
         VerdictsAgree
  PROVE  [Atomic!Next]_(Atomic!vars)
<1> USE DEF Typed
<1>1. Value \in [Path -> File] /\ Value' \in [Path -> File]
  BY DEF Value, TypeOK, Transaction
<1>2. CASE Preflight
  <2>1. Value = dest /\ Value' = dest
    BY <1>2 DEF Preflight, Value, PendingD, TypeOK, Durable, StateDurable, View, PhaseSlot
  <2>2. tx'.plan \in SUBSET Path /\ tx'.target \in [Path -> File] /\ touched' = {}
    BY <1>2 DEF Preflight, TypeOK, Transaction
  <2> QED
    BY <2>1, <2>2 DEF Atomic!Next, Atomic!Open
<1>3. CASE ~Preflight
  <2>1. /\ tx' = tx
        /\ touched' = touched \/ \E p \in Path : touched' = touched \cup {p}
        /\ PendingD' => PendingD \/ Pending
        /\ \A p \in Path \ touched' : dest'[p] = dest[p] \/ (Pending /\ p \in tx.plan)
    BY <1>3, StepOnFiles
  <2>2. Owned' = tx.plan \ touched' /\ Owned' \subseteq Owned /\ Owned \subseteq Path
    BY <2>1 DEF Owned, TypeOK, Transaction
  <2>3. \A p \in Path \ (tx.plan \cup touched') : Value'[p] = Value[p]
    BY <2>1, <2>2 DEF Value, Owned
  <2>4. \/ \A p \in Owned' : Value'[p] = Value[p]
        \/ \A p \in Owned' : Value'[p] = tx.target[p]
    <3>1. CASE \A p \in Owned : Value[p] = tx.base[p]
      <4>1. \/ \A p \in Owned' : Value'[p] = tx.base[p]
            \/ \A p \in Owned' : Value'[p] = tx.target[p]
        <5>1. CASE PendingD'
          BY <5>1, <2>1, <2>2 DEF Value
        <5>2. CASE ~PendingD'
          <6>1. \A p \in Path : Value'[p] = dest'[p]
            BY <5>2 DEF Value
          <6>2. AtBase(dest)' \/ AtTarget(dest)'
            BY <5>2 DEF View, FilesNow, Durable, FilesDurable, StateDurable, Pending, PendingD
          <6> QED
            BY <2>1, <2>2, <6>1, <6>2 DEF AtBase, AtTarget
        <5> QED
          BY <5>1, <5>2
      <4> QED
        BY <3>1, <4>1, <2>2
    <3>2. CASE /\ \A p \in Owned : Value[p] = tx.target[p]
               /\ ~Pending /\ ~PendingD
      BY <3>2, <2>1, <2>2 DEF Value, Owned
    <3> QED
      BY <3>1, <3>2, ValueUniform
  <2>5. Atomic!Move
    BY <1>1, <2>1, <2>2, <2>3, <2>4 DEF Atomic!Move
  <2> QED
    BY <2>1, <2>5 DEF Atomic!Next, Atomic!Proceed, Atomic!External
<1> QED
  BY <1>2, <1>3

\* The crash-consistent transaction keeps the promise of AtomicRestore: seen
\* through what recovery would leave, a restore happens at once or not at all.
THEOREM RefinesAtomicRestore == MetadataOrdered => (Spec => ImplementsAtomicRestore)
<1> SUFFICES ASSUME MetadataOrdered PROVE Spec => ImplementsAtomicRestore
  OBVIOUS
<1>1. Init => Atomic!Init
  BY DEF Init, Atomic!Init, Value, PendingD
<1>2. Inductive /\ Inductive' /\ [Next]_vars => [Atomic!Next]_(Atomic!vars)
  <2>1. Inductive /\ PowerLoss => LosesOnlyPending
    BY DEF PowerLoss, LosesOnlyPending, Inductive, Ordered, Rooted, Durable, FilesDurable
  <2> QED
    BY <2>1, StepRefines DEF Inductive, Ordered, VerdictsAgree
<1> QED
  BY <1>1, <1>2, InductiveInvariant, PTL DEF Spec, ImplementsAtomicRestore, Atomic!Spec
=============================================================================
