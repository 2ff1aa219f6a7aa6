----------------------- MODULE RestoreUnorderedProofs -----------------------
(***************************************************************************)
(* The restore transaction on any file system, one that orders no metadata *)
(* (POSIX) included, as long as no session is killed: the fsyncs it issues *)
(* are then enough, whatever power failures and edits happen.              *)
(*                                                                         *)
(* What a session leaves unsynced is written down by Lags: which files may *)
(* be older on disk than programs see them, depending on where the session *)
(* stands.  A killed session breaks it, for the next one finds a file as   *)
(* the old one left it and does not sync it again.                         *)
(*                                                                         *)
(* Last, on every file system: what a crash leaves can be rolled back.     *)
(***************************************************************************)
EXTENDS RestoreAtomicityProofs

USE DEF visible, durable, record, bounds, Goto, Unchanged, EndSession, File, Slots,
        Journals, Roles, Reports, Phases, PreparePhase, ApplyPhase, RollbackPhase,
        CleanupPhase, Decided

-----------------------------------------------------------------------------
(* The inductive invariant.                                                  *)

\* The files whose directory holds something older on disk than programs see.
Stale == {p \in Path : destD[p] # dest[p] \/ p \in tempD \ temp}

\* Only planned files of a transaction that is to be rolled back lag behind, and
\* only with their new content, or with their old one just put back.
LagsBehind ==
    \A p \in Stale :
        /\ Pending /\ p \in tx.plan
        /\ \/ dest[p] = tx.target[p] /\ tx.target[p] # tx.base[p]
           \/ pc = "undo_sync" /\ p = cur

\* While it applies, a session lets one file lag, the one it has just published;
\* a rollback syncs every file that lags before it ends.
LagsInSession ==
    \A p \in Stale :
        /\ pc \in ApplyPhase \cup {"renamed"} => pc = "publish_sync" /\ p = cur
        /\ pc = "validate" => p \in todo \/ seen[p] # tx.base[p]
        /\ pc = "clear" => seen[p] # tx.base[p]
        /\ pc \in {"undo", "undo_publish", "undo_sync"} => p \in todo /\ seen[p] # tx.base[p]
        /\ pc \notin {"rmdirs", "rmdir_sync", "undo_journal", "undo_journaled"}

\* A file that is written changes: it was not yet what it is to become.
Changes ==
    /\ pc \in {"publish", "publish_sync"} => tx.base[cur] # tx.target[cur]
    /\ pc \in {"undo_publish", "undo_sync"} => cur \in todo /\ seen[cur] # tx.base[cur]

FilesLag == OldOrNew(destD) /\ LagsBehind /\ LagsInSession /\ Changes

\* Directories lag while the transaction is pending; the ones that are not on disk
\* yet are those it made, and held nothing before it.
DirsLag ==
    /\ ~Pending => dirsD = dirs
    /\ pc \in {"commit", "undo_journal"} => dirsD = dirs
    /\ dirs \ dirsD \subseteq tx.made
    /\ pc \in {"mkdirs", "mkdir_sync"} => todo \subseteq tx.made
    /\ \A p \in Path : Parent[p] \in tx.made => tx.base[p] = Absent
    /\ \A p \in Path \ (tx.plan \cup touched) : dest[p] = tx.base[p]

\* The name of the transaction directory lags only between a rename and the fsync
\* that follows it; what a rollback needs is on disk before it may be needed.
StateLag ==
    /\ slot \in {"none", "preparing"} => slotD # "tx"
    /\ slot = "cleanup" /\ pc # "retired" => slotD # "tx"
    /\ slot = "tx" /\ pc # "renamed" => slotD = "tx"
    /\ slot = "tx" \/ slotD = "tx" => Needed \subseteq backupD
    /\ pc = "retired" => Needed \subseteq backup
    /\ Pending => journalD \notin Decided
    /\ pc \in {"rename", "renamed"} => journalD = "prepared" /\ Needed \subseteq backupD

Lags == FilesLag /\ DirsLag /\ StateLag /\ SuccessIsDurable

\* With View, this is as much as the properties need: Durable.
LEMMA LagsDurable ==
  ASSUME Typed, View, Lags
  PROVE  Durable
<1> USE DEF View, FilesNow, StateNow, PhaseSlot, PhaseJournal, PhaseFiles, PhaseTemps,
            Lags, FilesLag, LagsBehind, LagsInSession, DirsLag, StateLag, Stale,
            Needed, Owned, Pending, AtBase, AtTarget, OldOrNew, Typed, TypeOK
<1>1. \A p \in Path : ~Pending \/ p \notin tx.plan => destD[p] = dest[p] /\ p \notin tempD \ temp
  OBVIOUS
<1>2. Pending /\ slotD # "tx" => pc = "renamed"
  OBVIOUS
<1>3. pc \in {"renamed", "applying", "begun", "mkdirs", "mkdir_sync"} =>
        \A p \in Path : destD[p] = dest[p] /\ p \notin tempD \ temp
  OBVIOUS
<1>4. tx.plan \subseteq Path
  BY DEF Transaction
<1>5. FilesDurable
  BY <1>1, <1>2, <1>3, <1>4 DEF FilesDurable
<1>6. StateDurable
  BY <1>1, <1>2, <1>3 DEF StateDurable
<1>7. PhaseDurable
  BY <1>1, <1>3, <1>4 DEF PhaseDurable
<1> QED
  BY <1>5, <1>6, <1>7 DEF Durable

-----------------------------------------------------------------------------
(* What an fsync makes durable on any file system, at least.                 *)

\* Nothing new lags, and nothing does in a directory that was synced.
Synced(hs) ==
    /\ \A p \in Path : destD'[p] \in {destD[p], dest'[p]}
    /\ Stale' \subseteq Stale /\ \A p \in Stale' : Parent[p] \notin hs
    /\ \A p \in Path \ Stale' : destD'[p] = dest'[p]
    /\ dirsD' \in {dirsD, dirs'} /\ (Root \in hs => dirsD' = dirs')
    /\ slotD' \in {slotD, slot} /\ (StateDir \in hs => slotD' = slot)
    /\ journalD' \in {journalD, journal} /\ (TxDir \in hs => journalD' = journal)
    /\ backupD' \in {backupD, backup} /\ (TxDir \in hs => backupD' = backup)

\* A flush that leaves the temporary files ps, or removes them, beside what it syncs;
\* the files of other directories stay as they were.
LEMMA FlushAsSynced ==
  ASSUME NEW hs, NEW ps \in SUBSET Path, FlushAs(hs, dest', dirs'),
         \A p \in Path : Parent[p] \in hs \/ dest'[p] = dest[p],
         \/ temp' = temp \cup ps /\ tempD' \subseteq FlushTemp(hs) \cup ps
         \/ temp' = temp \ ps /\ tempD' = FlushTemp(hs) \ ps
  PROVE  Synced(hs)
<1>1. /\ \A p \in Path : destD'[p] = IF Flushed(hs, Parent[p]) THEN dest'[p] ELSE destD[p]
      /\ \A h \in hs : Flushed(hs, h)
  BY DEF FlushAs, Flushed
<1>2. \A p \in Path : p \in FlushTemp(hs) \ temp => p \in tempD \ temp /\ ~Flushed(hs, Parent[p])
  BY DEF FlushTemp
<1>3. Stale' \subseteq Stale /\ \A p \in Stale' : Parent[p] \notin hs
  <2> SUFFICES ASSUME NEW p \in Path, p \in Stale' PROVE p \in Stale /\ Parent[p] \notin hs
    BY DEF Stale
  <2>1. destD'[p] # dest'[p] \/ p \in tempD' \ temp'
    BY DEF Stale
  <2>2. ~Flushed(hs, Parent[p])
    BY <1>1, <1>2, <2>1
  <2>3. dest'[p] = dest[p] /\ destD'[p] = destD[p] /\ Parent[p] \notin hs
    BY <1>1, <2>2
  <2> QED
    BY <1>2, <2>1, <2>3 DEF Stale
<1> QED
  BY <1>1, <1>3 DEF Synced, FlushAs, Stale

\* What is planned is a file.
LEMMA PlanPaths == Typed => tx.plan \subseteq Path
  BY DEF Typed, TypeOK, Transaction

\* The same of a flush beside which no temporary file, or a single one, goes.
LEMMA FlushOnce ==
  ASSUME NEW hs, Flush(hs), UNCHANGED <<dest, dirs>>,
         \/ temp' = temp /\ tempD' = FlushTemp(hs)
         \/ \E p \in Path : temp' = temp \ {p} /\ tempD' = FlushTemp(hs) \ {p}
  PROVE  Synced(hs)
<1>0. FlushAs(hs, dest', dirs') /\ \A p \in Path : dest'[p] = dest[p]
  BY DEF Flush
<1>1. CASE temp' = temp /\ tempD' = FlushTemp(hs)
  <2>1. {} \in SUBSET Path /\ temp' = temp \cup {} /\ tempD' \subseteq FlushTemp(hs) \cup {}
    BY <1>1
  <2> QED
    BY <1>0, <2>1, FlushAsSynced
<1>2. ASSUME NEW p \in Path, temp' = temp \ {p} /\ tempD' = FlushTemp(hs) \ {p} PROVE Synced(hs)
  <2>1. {p} \in SUBSET Path
    OBVIOUS
  <2> QED
    BY <1>0, <1>2, <2>1, FlushAsSynced
<1> QED
  BY <1>1, <1>2

\* A whole fsync.
LEMMA FsyncSynced ==
  ASSUME NEW hs, Fsync(hs)
  PROVE  Synced(hs) /\ UNCHANGED visible
  BY FlushOnce DEF Fsync

\* A temporary file written.
LEMMA WriteTempSynced ==
  ASSUME NEW p \in Path, WriteTemp(p), UNCHANGED <<dest, dirs>>
  PROVE  Synced({})
<1>1. FlushAs({}, dest', dirs') /\ \A q \in Path : dest'[q] = dest[q]
  BY DEF WriteTemp, Flush
<1>2. {p} \in SUBSET Path /\ temp' = temp \cup {p} /\ tempD' \subseteq FlushTemp({}) \cup {p}
  BY DEF WriteTemp
<1> QED
  BY <1>1, <1>2, FlushAsSynced

\* A journal written.
LEMMA WriteJournalSynced ==
  ASSUME NEW state, NEW next, WriteJournal(state, next)
  PROVE  /\ Synced({}) /\ journal' = state /\ pc' = next
         /\ UNCHANGED <<dest, dirs, temp, slot, backup, todo, cur>> /\ Unchanged
<1>1. /\ Flush({}) /\ temp' = temp /\ tempD' = FlushTemp({})
      /\ journal' = state /\ pc' = next
      /\ UNCHANGED <<dest, dirs, temp, slot, backup, todo, cur>> /\ Unchanged
  BY DEF WriteJournal
<1> QED
  BY <1>1, FlushOnce

\* Taking the lock keeps it.
LEMMA StartLags ==
  ASSUME Typed, View, Lags, Start
  PROVE  Lags'
<1> USE DEF View, FilesNow, StateNow, PhaseSlot, PhaseJournal, PhaseBackup, PhaseFiles, PhaseTemps, Loops,
            Lags, FilesLag, LagsBehind, LagsInSession, Changes, DirsLag, StateLag, SuccessIsDurable,
            Needed, Owned, Pending, PendingD, AtBase, AtTarget, OldOrNew, ParentExists
<1>1. CASE StartRestore
  BY <1>1 DEF StartRestore, Stale, Begin
<1>2. CASE StartRecover
  BY <1>2 DEF StartRecover, Stale, Begin
<1> QED
  BY <1>1, <1>2 DEF Start

\* So does deciding what to do with what an earlier session left.
LEMMA RecoverLags ==
  ASSUME Typed, View, Lags, RecoverStep
  PROVE  Lags'
<1> USE DEF View, FilesNow, StateNow, PhaseSlot, PhaseJournal, PhaseBackup, PhaseFiles, PhaseTemps, Loops,
            Lags, FilesLag, LagsBehind, LagsInSession, Changes, DirsLag, StateLag, SuccessIsDurable,
            Needed, Owned, Pending, PendingD, AtBase, AtTarget, OldOrNew, ParentExists
<1>1. CASE RecoverDiscard
  BY <1>1 DEF RecoverDiscard, Stale
<1>2. CASE RecoverDecided
  BY <1>2 DEF RecoverDecided, Stale
<1>3. CASE RecoverPending
  BY <1>3 DEF RecoverPending, Stale
<1>4. CASE RecoverNothing
  BY <1>4 DEF RecoverNothing, Stale
<1> QED
  BY <1>1, <1>2, <1>3, <1>4 DEF RecoverStep

\* Planning and preparing.
LEMMA PrepareLags ==
  ASSUME Typed, View, Lags, PrepareStep
  PROVE  Lags'
<1> USE DEF View, FilesNow, StateNow, PhaseSlot, PhaseJournal, PhaseBackup, PhaseFiles, PhaseTemps, Loops,
            Lags, FilesLag, LagsBehind, LagsInSession, Changes, DirsLag, StateLag, SuccessIsDurable,
            Needed, Owned, Pending, PendingD, AtBase, AtTarget, OldOrNew, ParentExists
<1>1. CASE PreflightRefuses
  BY <1>1 DEF PreflightRefuses, Stale
<1>2. CASE Preflight
  BY <1>2 DEF Preflight, Stale, Planned, Request, Transaction, Typed, TypeOK
<1>3. CASE PrepareOpen
  BY <1>3 DEF PrepareOpen, Stale
<1>4. CASE PrepareOpened
  BY <1>4, FsyncSynced, PlanPaths DEF PrepareOpened, Synced
<1>5. ASSUME NEW p \in Path, PrepareBackup(p) PROVE Lags'
  <2>1. Synced({})
    BY <1>5, FlushOnce DEF PrepareBackup
  <2> QED
    BY <1>5, <2>1, PlanPaths DEF PrepareBackup, Synced
<1>6. CASE PrepareJournal
  BY <1>6, WriteJournalSynced, PlanPaths DEF PrepareJournal, Synced
<1>7. CASE PrepareSealed
  BY <1>7, FsyncSynced, PlanPaths DEF PrepareSealed, Synced
<1>8. CASE PrepareRename
  BY <1>8 DEF PrepareRename, Stale
<1>9. CASE PrepareRenamed
  BY <1>9, FsyncSynced, PlanPaths DEF PrepareRenamed, Synced
<1>10. CASE PrepareFails
  BY <1>10 DEF PrepareFails, Stale
<1> QED
  BY <1>1, <1>2, <1>3, <1>4, <1>5, <1>6, <1>7, <1>8, <1>9, <1>10 DEF PrepareStep

\* Applying: each file is synced before the next is written.
LEMMA ApplyLags ==
  ASSUME Typed, View, Lags, ApplyStep
  PROVE  Lags'
<1> USE DEF View, FilesNow, StateNow, PhaseSlot, PhaseJournal, PhaseBackup, PhaseFiles, PhaseTemps, Loops,
            Lags, FilesLag, LagsBehind, LagsInSession, Changes, DirsLag, StateLag, SuccessIsDurable,
            Needed, Owned, Pending, PendingD, AtBase, AtTarget, OldOrNew, ParentExists
<1>1. CASE ApplyBegin
  BY <1>1, WriteJournalSynced, PlanPaths DEF ApplyBegin, Synced
<1>2. CASE ApplyBegun
  BY <1>2, FsyncSynced, PlanPaths DEF ApplyBegun, Synced
<1>3. ASSUME NEW d \in Dir, MakeDirectory(d) PROVE Lags'
  BY <1>3 DEF MakeDirectory, Stale
<1>4. CASE MadeDirectory
  BY <1>4, FsyncSynced, PlanPaths DEF MadeDirectory, Synced
<1>5. CASE DirectoriesMade
  BY <1>5 DEF DirectoriesMade, Stale
<1>6. ASSUME NEW p \in Path, InstallNothing(p) PROVE Lags'
  BY <1>6 DEF InstallNothing, Stale
<1>7. ASSUME NEW p \in Path, InstallStage(p) PROVE Lags'
  <2>1. tx.base[p] # tx.target[p]
    BY <1>7 DEF InstallStage, AsPlanned
  <2>2. CASE UNCHANGED <<temp, durable>>
    BY <1>7, <2>1, <2>2 DEF InstallStage, Stale
  <2>3. CASE WriteTemp(p)
    BY <1>7, <2>1, <2>3, WriteTempSynced, PlanPaths DEF InstallStage, Synced
  <2> QED
    BY <1>7, <2>2, <2>3 DEF InstallStage
<1>8. CASE InstallPublish
  <2>1. tx.target \in [Path -> File] /\ tx.plan \subseteq Path
    BY DEF Typed, TypeOK, Transaction
  <2>2. \A q \in Path \ {cur} : dest'[q] = dest[q] /\ (q \in Stale' => q \in Stale)
    BY <1>8 DEF InstallPublish, Stale
  <2>3. FilesLag'
    BY <1>8, <2>1, <2>2 DEF InstallPublish, Stale, Typed, TypeOK
  <2>4. DirsLag' /\ StateLag' /\ SuccessIsDurable'
    BY <1>8, <2>2 DEF InstallPublish
  <2> QED
    BY <2>3, <2>4
<1>9. CASE InstallPublished
  BY <1>9, FsyncSynced, PlanPaths DEF InstallPublished, Synced
<1>10. CASE InstallVerify
  BY <1>10 DEF InstallVerify, Stale
<1>11. CASE Installed
  BY <1>11, FsyncSynced, PlanPaths DEF Installed, Synced
<1>12. CASE ApplyCommit
  BY <1>12, WriteJournalSynced, PlanPaths DEF ApplyCommit, Synced
<1>13. CASE ApplyCommitted
  BY <1>13, FsyncSynced, PlanPaths DEF ApplyCommitted, Synced
<1>14. CASE ApplyFails
  <2>1. CASE UNCHANGED <<temp, durable>>
    BY <1>14, <2>1 DEF ApplyFails, Stale
  <2>2. CASE /\ pc = "publish" /\ temp' = temp \ {cur}
             /\ Flush({Parent[cur]}) /\ tempD' = FlushTemp({Parent[cur]}) \ {cur}
    <3>1. Synced({Parent[cur]})
      BY <1>14, <2>2, FlushOnce, PlanPaths DEF ApplyFails
    <3> QED
      BY <1>14, <2>2, <3>1, PlanPaths DEF ApplyFails, Synced
  <2> QED
    BY <1>14, <2>1, <2>2 DEF ApplyFails
<1> QED
  BY <1>1, <1>2, <1>3, <1>4, <1>5, <1>6, <1>7, <1>8, <1>9, <1>10, <1>11, <1>12, <1>13, <1>14 DEF ApplyStep

\* Rolling back: what lagged is written and synced again.
LEMMA RollbackLags ==
  ASSUME Typed, View, Lags, RollbackStep
  PROVE  Lags'
<1> USE DEF View, FilesNow, StateNow, PhaseSlot, PhaseJournal, PhaseBackup, PhaseFiles, PhaseTemps, Loops,
            Lags, FilesLag, LagsBehind, LagsInSession, Changes, DirsLag, StateLag, SuccessIsDurable,
            Needed, Owned, Pending, PendingD, AtBase, AtTarget, OldOrNew, ParentExists
<1>1. ASSUME NEW p \in Path, RollbackValidate(p) PROVE Lags'
  BY <1>1 DEF RollbackValidate, Stale, Typed, TypeOK
<1>2. ASSUME NEW p \in Path, RollbackClear(p) PROVE Lags'
  <2>1. Synced({Parent[p]})
    BY <1>2, FlushOnce DEF RollbackClear
  <2> QED
    BY <1>2, <2>1, PlanPaths DEF RollbackClear, Synced
<1>3. ASSUME NEW p \in Path, UndoNothing(p) PROVE Lags'
  BY <1>3 DEF UndoNothing, Stale
<1>4. ASSUME NEW p \in Path, UndoStage(p) PROVE Lags'
  <2>a. /\ Synced({}) /\ pc = "undo" /\ pc' = "undo_publish" /\ cur' = p /\ p \in todo
         /\ seen[p] # tx.base[p] /\ temp' = temp \cup {p}
         /\ UNCHANGED <<dest, dirs, slot, journal, backup, tx, touched, todo, seen, report>>
    BY <1>4, WriteTempSynced DEF UndoStage, WriteTemp
  <2>b. FilesLag'
    BY <2>a, <1>4, PlanPaths DEF Synced
  <2>c. DirsLag'
    BY <2>a, <1>4, PlanPaths DEF Synced
  <2>d. StateLag'
    BY <2>a, <1>4, PlanPaths DEF Synced
  <2>e. SuccessIsDurable'
    BY <2>a, <1>4, PlanPaths DEF Synced
  <2> QED
    BY <2>b, <2>c, <2>d, <2>e
<1>5. ASSUME NEW p \in Path, UndoRemove(p) PROVE Lags'
  BY <1>5 DEF UndoRemove, Stale
<1>6. ASSUME NEW d \in Dir, UndoNoDirectory(d) PROVE Lags'
  BY <1>6 DEF UndoNoDirectory, Stale
<1>7. ASSUME NEW d \in Dir, UndoDirectory(d) PROVE Lags'
  BY <1>7 DEF UndoDirectory, Stale
<1>8. CASE RollbackValidated
  BY <1>8 DEF RollbackValidated, Stale
<1>9. CASE RollbackCleared
  BY <1>9 DEF RollbackCleared, Stale
<1>10. CASE UndoPublish
  BY <1>10 DEF UndoPublish, Stale, Transaction, Typed, TypeOK
<1>11. CASE UndoSynced
  <2>a. /\ Synced({Parent[cur]}) /\ pc = "undo_sync" /\ pc' = "undo" /\ todo' = todo \ {cur}
         /\ UNCHANGED <<dest, temp, dirs, slot, journal, backup, tx, touched, seen, report>>
    BY <1>11, FsyncSynced DEF UndoSynced
  <2>b. FilesLag'
    BY <2>a, <1>11, PlanPaths DEF Synced
  <2>c. DirsLag'
    BY <2>a, <1>11, PlanPaths DEF Synced
  <2>d. StateLag'
    BY <2>a, <1>11, PlanPaths DEF Synced
  <2>e. SuccessIsDurable'
    BY <2>a, <1>11, PlanPaths DEF Synced
  <2> QED
    BY <2>b, <2>c, <2>d, <2>e
<1>12. CASE Undone
  BY <1>12 DEF Undone, Stale
<1>13. CASE UndoneDirectory
  BY <1>13, FsyncSynced, PlanPaths DEF UndoneDirectory, Synced
<1>14. CASE UndoneDirectories
  BY <1>14, FsyncSynced, PlanPaths DEF UndoneDirectories, Synced
<1>15. CASE RollbackCommit
  BY <1>15, WriteJournalSynced, PlanPaths DEF RollbackCommit, Synced
<1>16. CASE RollbackCommitted
  BY <1>16, FsyncSynced, PlanPaths DEF RollbackCommitted, Synced
<1>17. CASE RollbackRefuses
  BY <1>17 DEF RollbackRefuses, Stale, RollbackBlocked
<1> QED
  BY <1>1, <1>2, <1>3, <1>4, <1>5, <1>6, <1>7, <1>8, <1>9, <1>10, <1>11, <1>12, <1>13, <1>14, <1>15, <1>16, <1>17 DEF RollbackStep

\* Retiring.
LEMMA CleanupLags ==
  ASSUME Typed, View, Lags, CleanupStep
  PROVE  Lags'
<1> USE DEF View, FilesNow, StateNow, PhaseSlot, PhaseJournal, PhaseBackup, PhaseFiles, PhaseTemps, Loops,
            Lags, FilesLag, LagsBehind, LagsInSession, Changes, DirsLag, StateLag, SuccessIsDurable,
            Needed, Owned, Pending, PendingD, AtBase, AtTarget, OldOrNew, ParentExists
<1>1. CASE Retire
  BY <1>1 DEF Retire, Stale
<1>2. CASE Retired
  BY <1>2, FsyncSynced, PlanPaths DEF Retired, Synced
<1>3. CASE DeleteBackups
  BY <1>3 DEF DeleteBackups, Stale
<1>4. CASE DeleteJournal
  <2>1. Synced({TxDir})
    BY <1>4, FlushOnce DEF DeleteJournal
  <2> QED
    BY <1>4, <2>1, PlanPaths DEF DeleteJournal, Synced
<1>5. CASE DeleteDirectory
  <2>1. Synced({TxDir})
    BY <1>5, FlushOnce DEF DeleteDirectory
  <2> QED
    BY <1>5, <2>1, PlanPaths DEF DeleteDirectory, Synced
<1>6. CASE Deleted
  <2>1. /\ Synced({StateDir}) /\ pc = "deleted" /\ slot = "none"
        /\ UNCHANGED <<dest, dirs, temp, slot, journal, backup, tx, touched>>
    BY <1>6, FsyncSynced DEF Deleted
  <2>2. pc' \in {"idle", "recover"}
    BY <1>6 DEF Deleted
  <2>3. FilesLag' /\ DirsLag' /\ StateLag'
    BY <2>1, <2>2, PlanPaths DEF Synced
  <2>4. report' = "restored" => AtTarget(dest)
    BY <1>6 DEF Deleted
  <2>5. AtTarget(dest) => \A p \in tx.paths \ touched : p \in Path /\ dest[p] = tx.target[p]
    BY DeclaredPaths
  <2>6. Stale' = {} /\ slotD' = "none"
    BY <2>1 DEF Synced
  <2>7. SuccessIsDurable'
    BY <2>1, <2>4, <2>5, <2>6 DEF Synced
  <2> QED
    BY <2>3, <2>7
<1> QED
  BY <1>1, <1>2, <1>3, <1>4, <1>5, <1>6 DEF CleanupStep

\* Between sessions, a transaction that is neither pending nor will be after a power
\* failure stays so whatever is written back.
LEMMA VerdictStays ==
  ASSUME Typed, StateLag, pc = "idle", ~Pending, ~PendingD, UNCHANGED <<slot, journal>>,
         slotD' \in {slotD, slot}, journalD' \in {journalD, journal}
  PROVE  ~Pending' /\ ~PendingD'
<1>1. slot = "tx" <=> slotD = "tx"
  BY DEF StateLag, Typed, TypeOK
<1>2. slot = "tx" => journal \in Decided /\ journalD \in Decided
  BY <1>1 DEF Pending, PendingD
<1> QED
  BY <1>1, <1>2 DEF Pending, PendingD

\* Whoever syncs what he changes disturbs nothing.
LEMMA SyncedLags ==
  ASSUME Typed, View, Lags, NEW hs, Synced(hs), dirs' = dirs \/ Root \in hs,
         \A p \in Path : dest'[p] = dest[p] \/ p \in touched' \ Stale',
         touched \subseteq touched',
         UNCHANGED <<slot, journal, backup, tx, pc, todo, cur, seen, report>>
  PROVE  Lags'
<1> USE DEF View, FilesNow, StateNow, PhaseSlot, PhaseJournal, PhaseBackup, PhaseFiles, PhaseTemps, Loops,
            Lags, FilesLag, LagsBehind, LagsInSession, Changes, DirsLag, StateLag, SuccessIsDurable,
            Needed, Owned, Pending, PendingD, AtBase, AtTarget, OldOrNew, ParentExists
<1>0. tx.plan \subseteq Path /\ tx.paths \subseteq Path
  BY DEF Typed, TypeOK, Transaction
<1>1. OldOrNew(destD)'
  BY <1>0 DEF Synced
<1>2. LagsBehind'
  <2>1. \A p \in Stale' : p \in Stale /\ dest'[p] = dest[p]
    BY DEF Synced, Stale
  <2> QED
    BY <2>1
<1>3. LagsInSession' /\ Changes'
  BY DEF Synced
<1>4. DirsLag'
  BY DEF Synced
<1>5. StateLag'
  <2>1. slotD' \in {slotD, slot} /\ journalD' \in {journalD, journal} /\ backupD' \in {backupD, backup}
    BY DEF Synced
  <2>2. Needed' = Needed /\ Pending' = Pending
    OBVIOUS
  <2>3. /\ slot = "tx" \/ slotD = "tx" => Needed \subseteq backup
        /\ pc \in {"rename", "renamed"} => Needed \subseteq backup /\ journal = "prepared"
    BY DEF Typed, TypeOK
  <2> HIDE DEF Needed
  <2> QED
    BY <2>1, <2>2, <2>3
<1>6. SuccessIsDurable'
  <2>1. ~Pending => Stale' = {}
    BY DEF Synced
  <2>2. report' = "restored" => ~Pending' /\ ~PendingD'
    <3>1. report = "restored" => ~Pending /\ ~PendingD /\ pc = "idle"
      OBVIOUS
    <3>2. slotD' \in {slotD, slot} /\ journalD' \in {journalD, journal}
      BY DEF Synced
    <3>3. StateLag
      OBVIOUS
    <3> HIDE DEF Pending, PendingD, StateLag, View, Lags
    <3> QED
      BY <3>1, <3>2, <3>3, VerdictStays
  <2>3. report' = "restored" => \A p \in tx.paths \ touched' : dest'[p] = dest[p] /\ destD'[p] = dest'[p]
    BY <1>0, <2>1 DEF Synced
  <2> QED
    BY <2>2, <2>3
<1> QED
  BY <1>1, <1>2, <1>3, <1>4, <1>5, <1>6

\* Edits and write-back: other programs sync what they change.
LEMMA EnvironmentLags ==
  ASSUME Typed, View, Lags, Environment, ~PowerLoss, ~Stop
  PROVE  Lags'
<1>1. ASSUME NEW p \in Path, NEW c \in File, Edit(p, c) PROVE Lags'
  <2>1. /\ \A q \in Path \ {p} : dest'[q] = dest[q]
        /\ FlushAs({Parent[p]}, dest', dirs) /\ tempD' = FlushTemp({Parent[p]})
        /\ touched' = touched \cup {p}
        /\ UNCHANGED <<dirs, temp, slot, journal, backup, tx, pc, todo, cur, seen, role,
                       req, report, stops, losses>>
    BY <1>1, EditedFile DEF Typed
  <2>2. /\ FlushAs({Parent[p]}, dest', dirs') /\ {} \in SUBSET Path
        /\ \A q \in Path : Parent[q] \in {Parent[p]} \/ dest'[q] = dest[q]
        /\ temp' = temp \cup {} /\ tempD' \subseteq FlushTemp({Parent[p]}) \cup {}
    BY <2>1
  <2>3. Synced({Parent[p]})
    BY <2>2, FlushAsSynced
  <2>4. p \notin Stale'
    BY <2>3 DEF Synced
  <2> QED
    BY <2>1, <2>3, <2>4, SyncedLags
<1>2. ASSUME NEW d \in Dir, EditDirectory(d) PROVE Lags'
  <2>1. /\ FlushAs({Root}, dest', dirs') /\ {} \in SUBSET Path
        /\ \A q \in Path : Parent[q] \in {Root} \/ dest'[q] = dest[q]
        /\ temp' = temp \cup {} /\ tempD' \subseteq FlushTemp({Root}) \cup {}
    BY <1>2 DEF EditDirectory
  <2>2. Synced({Root})
    BY <2>1, FlushAsSynced
  <2>3. UNCHANGED <<dest, temp, slot, journal, backup, record, pc, todo, cur, seen, report>>
    BY <1>2 DEF EditDirectory
  <2> QED
    BY <2>2, <2>3, SyncedLags
<1>3. ASSUME NEW h, Flushes(h) PROVE Lags'
  <2>1. UNCHANGED <<visible, record, pc, todo, cur, seen, report>> /\ Synced({h})
    BY <1>3, FsyncSynced DEF Flushes
  <2> QED
    BY <2>1, SyncedLags
<1> QED
  BY <1>1, <1>2, <1>3 DEF Environment, WriteBack, OpenLock

\* A power failure takes back what lagged, and leaves a state View allows: what
\* was lost is either called back by the journal or was not there before.
LEMMA PowerLossLags ==
  ASSUME Typed, View, Lags, PowerLoss
  PROVE  View' /\ Lags' /\ LosesOnlyPending
<1> USE DEF View, FilesNow, StateNow, PhaseSlot, PhaseJournal, PhaseBackup, PhaseFiles, PhaseTemps, Loops,
            Lags, FilesLag, LagsBehind, LagsInSession, Changes, DirsLag, StateLag, SuccessIsDurable,
            Needed, Owned, Pending, PendingD, AtBase, AtTarget, OldOrNew, ParentExists
<1>0. tx.plan \subseteq Path
  BY PlanPaths
<1>1. Durable
  BY LagsDurable
<1>2. \A p \in Path : dest'[p] = IF Parent[p] \in dirsD \cup {Root} THEN destD[p] ELSE Absent
  BY DEF PowerLoss
<1>3. /\ temp' \subseteq tempD /\ tempD' = temp'
      /\ dirs' = dirsD /\ dirsD' = dirsD /\ slot' = slotD /\ slotD' = slotD
      /\ journal' = (IF slotD = "none" THEN "none" ELSE journalD) /\ journalD' = journal'
      /\ backup' = (IF slotD = "none" THEN {} ELSE backupD) /\ backupD' = backup'
      /\ destD' = dest' /\ pc' = "idle" /\ role' = "none" /\ report' = "failed" /\ checked' = {}
      /\ UNCHANGED record
  BY DEF PowerLoss
<1>4. \A p \in Path : destD[p] # dest[p] => p \in Stale
  BY DEF Stale
<1>5. \A p \in Path : dest[p] # Absent /\ Parent[p] \notin dirsD \cup {Root} => tx.base[p] = Absent
  OBVIOUS
<1>6. \A p \in Path : dest'[p] = dest[p] \/ (Pending /\ p \in tx.plan) \/ p \in touched
  BY <1>2, <1>4, <1>5
<1>7. OldOrNew(dest)'
  <2> SUFFICES ASSUME NEW p \in Owned PROVE dest'[p] \in {tx.base[p], tx.target[p]}
    BY <1>3
  <2>1. p \in Path /\ destD[p] \in {tx.base[p], tx.target[p]} /\ dest[p] \in {tx.base[p], tx.target[p]}
    BY <1>0
  <2>2. CASE Parent[p] \in dirsD \cup {Root} \/ destD[p] = Absent
    BY <1>2, <2>1, <2>2
  <2>3. CASE dest'[p] = Absent /\ dest[p] # Absent /\ Parent[p] \notin dirsD \cup {Root}
    BY <1>5, <2>1, <2>3
  <2>4. CASE dest'[p] = Absent /\ dest[p] = Absent
    BY <2>1, <2>4
  <2> QED
    BY <1>2, <2>1, <2>2, <2>3, <2>4
<1>8. ~Pending' => AtBase(dest)' \/ AtTarget(dest)'
  <2>1. CASE ~Pending
    BY <1>0, <1>3, <1>6, <2>1
  <2>2. CASE Pending /\ slotD # "tx"
    <3>1. AtBase(dest) /\ AtBase(destD)
      BY <1>1, <2>2 DEF Durable, FilesDurable
    <3>2. AtBase(dest)'
      BY <1>0, <1>2, <1>3, <1>5, <3>1
    <3> QED
      BY <3>2
  <2>3. CASE Pending /\ slotD = "tx"
    BY <1>3, <2>3
  <2> QED
    BY <2>1, <2>2, <2>3
<1>9. FilesNow'
  <2>1. \A p \in (tx.paths \ tx.plan) \ touched : p \in Path
    BY DEF Typed, TypeOK, Transaction
  <2>2. \A p \in (tx.paths \ tx.plan) \ touched : dest'[p] = Absent /\ tx.target[p] = Absent
    BY <1>6, <2>1
  <2>3. \A p \in Path : dest'[p] # Absent => Parent[p] \in dirs' \cup {Root}
    BY <1>2, <1>3
  <2> QED
    BY <1>3, <1>7, <1>8, <2>2, <2>3
<1>10. StateNow'
  BY <1>1, <1>3 DEF Durable, StateDurable
<1>11. View'
  BY <1>3, <1>9, <1>10 DEF Expected
<1>12. Stale' = {}
  BY <1>3 DEF Stale
<1>13. FilesLag'
  BY <1>3, <1>7, <1>12
<1>14. DirsLag'
  BY <1>3, <1>6
<1>15. StateLag' /\ SuccessIsDurable'
  BY <1>3
<1> QED
  BY <1>6, <1>11, <1>13, <1>14, <1>15 DEF LosesOnlyPending

\* The invariant holds initially, ...
LEMMA InitLags == Init => Lags
<1> SUFFICES ASSUME Init PROVE Lags
  OBVIOUS
<1>1. Stale = {}
  BY DEF Init, Stale
<1> QED
  BY <1>1 DEF Init, Lags, FilesLag, LagsBehind, LagsInSession, Changes, DirsLag, StateLag,
     SuccessIsDurable, Needed, Owned, Pending, PendingD, OldOrNew

\* ... every step keeps it as long as no session has been killed, ...
LEMMA NextLags ==
  ASSUME Typed, View, Lags, [Next]_vars, ~Stop
  PROVE  View' /\ Lags'
<1>1. CASE PowerLoss
  BY <1>1, PowerLossLags
<1>2. CASE ~PowerLoss
  <2>1. View'
    BY <1>2, NextView
  <2>2. UNCHANGED vars => Lags'
    BY DEF vars, Lags, FilesLag, LagsBehind, LagsInSession, Changes, DirsLag, StateLag,
       SuccessIsDurable, Needed, Owned, Pending, PendingD, OldOrNew, Stale
  <2>3. Next => Lags'
    BY <1>2, StartLags, RecoverLags, PrepareLags, ApplyLags, RollbackLags, CleanupLags,
       EnvironmentLags DEF Next, SessionStep
  <2> QED
    BY <2>1, <2>2, <2>3
<1> QED
  BY <1>1, <1>2

\* ... and so it holds until one is.
LEMMA UnkilledInvariant == Spec => [](stops = 0 => Typed /\ View /\ Lags)
<1> DEFINE I == Typed /\ (stops = 0 => View /\ Lags)
<1>1. Init => I
  BY InitTyped, InitView, InitLags
<1>2. I /\ [Next]_vars => I'
  <2> SUFFICES ASSUME I, [Next]_vars PROVE I'
    OBVIOUS
  <2>1. Typed'
    BY NextTyped
  <2>2. ASSUME stops' = 0 PROVE View' /\ Lags'
    <3>1. stops = 0 /\ ~Stop
      BY <2>2, StopsCount
    <3> QED
      BY <3>1, NextLags
  <2> QED
    BY <2>1, <2>2
<1>3. I => (stops = 0 => Typed /\ View /\ Lags)
  OBVIOUS
<1> QED
  BY <1>1, <1>2, <1>3, PTL DEF Spec

-----------------------------------------------------------------------------
(* What no file system can break.                                            *)

\* As long as no session is killed the four safety properties hold on any file
\* system, whatever power failures and edits there are: the transaction issues
\* every fsync that it needs.
THEOREM SafeUnlessKilled ==
  Spec => [](stops = 0 => /\ AllOrNothing /\ BackupsCoverPending
                          /\ NoResidue /\ SuccessIsDurable)
<1>1. ASSUME Typed, View, Lags
      PROVE  AllOrNothing /\ BackupsCoverPending /\ NoResidue /\ SuccessIsDurable
  <2>1. Durable
    BY <1>1, LagsDurable
  <2>2. AllOrNothing
    BY <1>1 DEF AllOrNothing, View, FilesNow, AtBase, AtTarget
  <2>3. BackupsCoverPending
    BY <1>1, <2>1 DEF BackupsCoverPending, Pending, PendingD, View, StateNow, Durable,
       StateDurable, Needed
  <2>4. NoResidue
    BY <1>1 DEF NoResidue, View, StateNow, Pending
  <2> QED
    BY <2>1, <2>2, <2>3, <2>4 DEF Durable
<1> QED
  BY <1>1, UnkilledInvariant, PTL

\* Atomicity fails, if at all, where all three come together: metadata that is not
\* ordered, a session killed, and a power failure.
THEOREM AtomicityBoundary ==
  Spec => [](MetadataOrdered \/ stops = 0 \/ losses = 0 => AllOrNothing)
<1>1. CASE MetadataOrdered
  BY <1>1, AtomicAlways, PTL
<1>2. Spec => [](stops = 0 => AllOrNothing)
  BY SafeUnlessKilled, PTL
<1>3. Spec => [](losses = 0 => AllOrNothing)
  BY AtomicWithoutPowerFailure
<1>4. CASE ~MetadataOrdered
  <2>1. (stops = 0 => AllOrNothing) /\ (losses = 0 => AllOrNothing) =>
          (MetadataOrdered \/ stops = 0 \/ losses = 0 => AllOrNothing)
    BY <1>4
  <2> QED
    BY <1>2, <1>3, <2>1, PTL
<1> QED
  BY <1>1, <1>4

\* Where no session is ever killed the transaction keeps the promise of
\* AtomicRestore on any file system.
THEOREM RefinesUnlessKilled == MaxStops = 0 => (Spec => ImplementsAtomicRestore)
<1> SUFFICES ASSUME MaxStops = 0 PROVE Spec => ImplementsAtomicRestore
  OBVIOUS
<1> DEFINE I == Typed /\ View /\ Lags
<1>1. Init => I
  BY InitTyped, InitView, InitLags
<1>2. I /\ [Next]_vars => I'
  <2> SUFFICES ASSUME I, [Next]_vars PROVE I'
    OBVIOUS
  <2>1. ~Stop
    BY DEF Stop, Typed, TypeOK
  <2> QED
    BY <2>1, NextTyped, NextLags
<1>3. Init => Atomic!Init
  BY DEF Init, Atomic!Init, Value, PendingD
<1>4. I => I /\ Durable
  BY LagsDurable
<1>5. I /\ Durable /\ I' /\ Durable' /\ [Next]_vars => [Atomic!Next]_(Atomic!vars)
  <2> SUFFICES ASSUME I, Durable, I', Durable', [Next]_vars PROVE [Atomic!Next]_(Atomic!vars)
    OBVIOUS
  <2>1. PowerLoss => LosesOnlyPending
    BY PowerLossLags
  <2>2. VerdictsAgree
    BY DEF View, PhaseSlot, PhaseJournal, Lags, StateLag, VerdictsAgree, Pending, Typed, TypeOK
  <2> QED
    BY <2>1, <2>2, StepRefines
<1> QED
  BY <1>1, <1>2, <1>3, <1>4, <1>5, PTL DEF Spec, ImplementsAtomicRestore, Atomic!Spec

-----------------------------------------------------------------------------
(* Recovery is never refused by what a crash has left: what RecoveryConverges  *)
(* needs, besides fairness.                                                    *)

\* Another program has written since the transaction was planned, or has removed a
\* directory that held a file of it.
Disturbed ==
    \/ touched # {}
    \/ \E p \in tx.plan : tx.base[p] # Absent /\ ~ParentExists(p)

\* A rollback that is refused was disturbed by another program.
NeverRefusedAlone == RollbackBlocked => edits > 0 /\ Disturbed

\* A transaction that counts has a journal.
Journalled == slot = "tx" => journal # "none"

\* What the loops of a rollback have still to do is what the validation left to them.
UndoLoops ==
    /\ pc = "validate" => todo \subseteq tx.plan
    /\ pc \in {"rmdirs", "rmdir_sync"} => todo \subseteq tx.made
    /\ pc \in {"undo", "undo_publish", "undo_sync"} /\ touched = {} =>
          \A p \in tx.plan \cap todo : seen[p] = dest[p] \/ (pc = "undo_sync" /\ p = cur)
    /\ pc = "undo_publish" => tx.base[cur] # Absent

\* Where the transaction makes a directory there was no file, and files it does not
\* plan are as it found them.
BaseHeld ==
    /\ \A p \in Path : Parent[p] \in tx.made => tx.base[p] = Absent
    /\ \A p \in Path \ (tx.plan \cup touched) : dest[p] = tx.base[p]

Undisturbed == edits = 0 => ~Disturbed

Undoable == Journalled /\ UndoLoops /\ BaseHeld /\ Undisturbed

\* The same after a power failure.
UndoableD ==
    /\ slot = "tx" \/ slotD = "tx" => journal # "none" /\ journalD # "none"
    /\ edits = 0 => \A p \in tx.plan : tx.base[p] # Absent => Parent[p] \in dirsD \cup {Root}

\* A rollback that finds all of this is not refused.
LEMMA UndoableNotBlocked ==
  ASSUME Typed, View, Undoable
  PROVE  NeverRefusedAlone
<1> USE DEF View, Undoable, UndoLoops, BaseHeld
<1>0. tx.plan \subseteq Path
  BY PlanPaths
<1>1. edits = 0 => ~Disturbed
  BY DEF Undisturbed
<1>2. edits \in Nat
  BY DEF Typed, TypeOK
<1>3. ASSUME ~Disturbed PROVE ~RollbackBlocked
  <2>1. Owned = tx.plan /\ \A p \in tx.plan : tx.base[p] # Absent => ParentExists(p)
    BY <1>3 DEF Disturbed, Owned
  <2>2. ~(pc = "recover" /\ slot = "tx" /\ journal = "none")
    BY DEF Journalled
  <2>3. ~(pc = "validate" /\ \E p \in todo : ~Recoverable(p))
    <3> SUFFICES ASSUME pc = "validate", NEW p \in todo PROVE Recoverable(p)
      OBVIOUS
    <3>1. p \in tx.plan /\ slot = "tx" /\ journal \notin Decided
      BY DEF PhaseSlot, PhaseJournal
    <3>2. tx.base[p] # Absent => p \in backup
      BY <3>1 DEF StateNow, Needed
    <3>3. dest[p] \in {tx.base[p], tx.target[p]}
      BY <2>1, <3>1 DEF FilesNow, OldOrNew
    <3> QED
      BY <2>1, <3>1, <3>2, <3>3 DEF Recoverable
  <2>4. ~(pc = "undo" /\ \E p \in todo :
            /\ seen[p] # tx.base[p]
            /\ IF tx.base[p] = Absent THEN dest[p] = Absent ELSE ~ParentExists(p))
    <3> SUFFICES ASSUME pc = "undo", NEW p \in todo, seen[p] # tx.base[p]
                 PROVE  IF tx.base[p] = Absent THEN dest[p] # Absent ELSE ParentExists(p)
      OBVIOUS
    <3>1. p \in tx.plan
      BY DEF Loops
    <3>2. seen[p] = dest[p]
      BY <1>3, <3>1 DEF Disturbed
    <3> QED
      BY <2>1, <3>1, <3>2
  <2>5. ~(pc = "undo_publish" /\ ~ParentExists(cur))
    BY <2>1 DEF Loops
  <2>6. ~(pc = "rmdirs" /\ \E d \in todo \cap dirs : ~EmptyDir(d))
    <3> SUFFICES ASSUME pc = "rmdirs", NEW d \in todo, NEW p \in Path, Parent[p] = d
                 PROVE  dest[p] = Absent /\ p \notin temp
      BY DEF EmptyDir
    <3>1. tx.base[p] = Absent
      OBVIOUS
    <3>2. CASE p \in tx.plan
      BY <2>1, <3>1, <3>2 DEF PhaseFiles, PhaseTemps, AtBase
    <3>3. CASE p \notin tx.plan
      BY <1>3, <3>1, <3>3 DEF PhaseTemps, Disturbed
    <3> QED
      BY <3>2, <3>3
  <2> QED
    BY <2>2, <2>3, <2>4, <2>5, <2>6 DEF RollbackBlocked
<1> QED
  BY <1>1, <1>2, <1>3 DEF NeverRefusedAlone

\* Only planning records a transaction.
LEMMA RecordSteps ==
  ASSUME SessionStep, ~Preflight
  PROVE  UNCHANGED <<tx, touched>>
<1>1. CASE RecoverStep \/ PrepareStep
  BY <1>1 DEF RecoverStep, RecoverDiscard, RecoverDecided, RecoverPending, RecoverNothing,
     PrepareStep, PreflightRefuses, PrepareOpen, PrepareOpened, PrepareBackup,
     PrepareJournal, WriteJournal, PrepareSealed, PrepareRename, PrepareRenamed, PrepareFails
<1>2. CASE ApplyStep
  BY <1>2 DEF ApplyStep, ApplyBegin, ApplyBegun, MakeDirectory, MadeDirectory, DirectoriesMade,
     InstallNothing, InstallStage, InstallPublish, InstallPublished, InstallVerify, Installed,
     ApplyCommit, ApplyCommitted, ApplyFails, WriteJournal
<1>3. CASE RollbackStep
  BY <1>3 DEF RollbackStep, RollbackValidate, RollbackClear, UndoNothing, UndoStage, UndoNoDirectory,
     UndoDirectory, RollbackValidated, RollbackCleared, UndoPublish, UndoRemove, UndoSynced, Undone,
     UndoneDirectory, UndoneDirectories, RollbackCommit, RollbackCommitted, RollbackRefuses,
     WriteJournal
<1>4. CASE CleanupStep
  BY <1>4 DEF CleanupStep, Retire, Retired, DeleteBackups, DeleteJournal, DeleteDirectory, Deleted
<1> QED
  BY <1>1, <1>2, <1>3, <1>4 DEF SessionStep

\* The steps of a session that make or remove a directory.
LEMMA DirectorySteps ==
  ASSUME SessionStep, dirs' # dirs
  PROVE  \E d \in Dir : MakeDirectory(d) \/ UndoDirectory(d)
<1>1. CASE RecoverStep \/ PrepareStep
  BY <1>1 DEF RecoverStep, RecoverDiscard, RecoverDecided, RecoverPending, RecoverNothing,
     PrepareStep, PreflightRefuses, Preflight, PrepareOpen, PrepareOpened, PrepareBackup,
     PrepareJournal, WriteJournal, PrepareSealed, PrepareRename, PrepareRenamed, PrepareFails, Fsync
<1>2. CASE ApplyStep
  BY <1>2 DEF ApplyStep, ApplyBegin, ApplyBegun, MadeDirectory, DirectoriesMade, InstallNothing,
     InstallStage, InstallPublish, InstallPublished, InstallVerify, Installed, ApplyCommit,
     ApplyCommitted, ApplyFails, WriteJournal, Fsync
<1>3. CASE RollbackStep
  BY <1>3 DEF RollbackStep, RollbackValidate, RollbackClear, UndoNothing, UndoStage, UndoNoDirectory,
     RollbackValidated, RollbackCleared, UndoPublish, UndoRemove, UndoSynced, Undone,
     UndoneDirectory, UndoneDirectories, RollbackCommit, RollbackCommitted, RollbackRefuses,
     WriteJournal, Fsync
<1>4. CASE CleanupStep
  BY <1>4 DEF CleanupStep, Retire, Retired, DeleteBackups, DeleteJournal, DeleteDirectory, Deleted,
     Fsync
<1> QED
  BY <1>1, <1>2, <1>3, <1>4 DEF SessionStep

\* The steps that change the name of the transaction directory or its journal.
LEMMA NameSteps ==
  ASSUME SessionStep, slot' # slot \/ journal' # journal
  PROVE  \/ PrepareOpen \/ PrepareRename \/ Retire \/ DeleteJournal \/ DeleteDirectory
         \/ PrepareJournal \/ ApplyBegin \/ ApplyCommit \/ RollbackCommit
<1>1. CASE RecoverStep \/ PrepareStep
  BY <1>1 DEF RecoverStep, RecoverDiscard, RecoverDecided, RecoverPending, RecoverNothing,
     PrepareStep, PreflightRefuses, Preflight, PrepareOpened, PrepareBackup, PrepareSealed,
     PrepareRenamed, PrepareFails, Fsync
<1>2. CASE ApplyStep
  BY <1>2 DEF ApplyStep, ApplyBegun, MakeDirectory, MadeDirectory, DirectoriesMade, InstallNothing,
     InstallStage, InstallPublish, InstallPublished, InstallVerify, Installed, ApplyCommitted,
     ApplyFails, Fsync
<1>3. CASE RollbackStep
  BY <1>3 DEF RollbackStep, RollbackValidate, RollbackClear, UndoNothing, UndoStage, UndoNoDirectory,
     UndoDirectory, RollbackValidated, RollbackCleared, UndoPublish, UndoRemove, UndoSynced, Undone,
     UndoneDirectory, UndoneDirectories, RollbackCommitted, RollbackRefuses, Fsync
<1>4. CASE CleanupStep
  BY <1>4 DEF CleanupStep, Retired, DeleteBackups, Deleted, Fsync
<1> QED
  BY <1>1, <1>2, <1>3, <1>4 DEF SessionStep

\* A step of another program, but for an edit, leaves all of it as it is.
LEMMA OutsideSteps ==
  ASSUME Start \/ Environment \/ UNCHANGED vars, ~PowerLoss
  PROVE  /\ UNCHANGED <<slot, journal, tx>>
         /\ \/ /\ UNCHANGED <<touched, dest, dirs, edits>>
               /\ \/ UNCHANGED <<pc, todo, cur, seen>>
                  \/ pc' = "recover" \/ pc' = "idle"
            \/ /\ \E p \in Path, c \in File : Edit(p, c)
               /\ UNCHANGED <<dirs, pc, todo, cur, seen>>
            \/ /\ \E d \in Dir : EditDirectory(d)
               /\ UNCHANGED <<touched, dest, pc, todo, cur, seen>>
<1>1. CASE Start \/ UNCHANGED vars
  BY <1>1 DEF Start, StartRestore, StartRecover, Begin, vars
<1>2. ASSUME NEW p \in Path, NEW c \in File, Edit(p, c)
      PROVE  UNCHANGED <<slot, journal, tx, dirs, pc, todo, cur, seen>>
  BY <1>2 DEF Edit
<1>3. ASSUME NEW d \in Dir, EditDirectory(d)
      PROVE  UNCHANGED <<slot, journal, tx, touched, dest, pc, todo, cur, seen>>
  BY <1>3 DEF EditDirectory
<1>4. CASE (\E h : Flushes(h)) \/ Stop
  BY <1>4 DEF Flushes, Fsync, Stop
<1> QED
  BY <1>1, <1>2, <1>3, <1>4 DEF Environment, WriteBack, OpenLock

\* Every step but a power failure keeps the journal,
LEMMA NextJournalled ==
  ASSUME Typed, View, Journalled, [Next]_vars, ~PowerLoss
  PROVE  Journalled'
<1> USE DEF Journalled
<1>1. CASE SessionStep /\ (slot' # slot \/ journal' # journal)
  BY <1>1, NameSteps DEF PrepareOpen, PrepareRename, Retire, DeleteJournal, DeleteDirectory,
     PrepareJournal, ApplyBegin, ApplyCommit, RollbackCommit, WriteJournal, View, PhaseSlot,
     PhaseJournal
<1>2. CASE slot' = slot /\ journal' = journal
  BY <1>2
<1> QED
  BY <1>1, <1>2, OutsideSteps DEF Next

\* the loops of a rollback,
LEMMA NextUndoLoops ==
  ASSUME Typed, View, UndoLoops, [Next]_vars, ~PowerLoss
  PROVE  UndoLoops'
<1> USE DEF UndoLoops
<1>0. tx.plan \subseteq Path /\ touched \subseteq Path /\ dest \in [Path -> File]
  BY PlanPaths DEF Typed, TypeOK
<1>1. CASE Start \/ Environment \/ UNCHANGED vars
  <2>1. ASSUME NEW p \in Path, NEW c \in File, Edit(p, c) PROVE touched' # {} /\ UNCHANGED tx
    BY <2>1 DEF Edit
  <2> QED
    BY <1>1, <2>1, OutsideSteps
<1>2. CASE RecoverStep
  BY <1>2 DEF RecoverStep, RecoverDiscard, RecoverDecided, RecoverPending, RecoverNothing
<1>3. CASE PrepareStep
  BY <1>3 DEF PrepareStep, PreflightRefuses, Preflight, PrepareOpen, PrepareOpened, PrepareBackup,
     PrepareJournal, WriteJournal, PrepareSealed, PrepareRename, PrepareRenamed, PrepareFails
<1>4. CASE ApplyStep
  BY <1>4 DEF ApplyStep, ApplyBegin, ApplyBegun, MakeDirectory, MadeDirectory, DirectoriesMade,
     InstallNothing, InstallStage, InstallPublish, InstallPublished, InstallVerify, Installed,
     ApplyCommit, ApplyCommitted, ApplyFails, WriteJournal
<1>5. CASE RollbackStep
  <2>1. ASSUME NEW p \in Path, RollbackValidate(p) \/ RollbackClear(p) PROVE UndoLoops'
    BY <2>1 DEF RollbackValidate, RollbackClear
  <2>2. ASSUME NEW p \in Path, UndoNothing(p) \/ UndoStage(p) PROVE UndoLoops'
    BY <2>2 DEF UndoNothing, UndoStage
  <2>3. ASSUME NEW p \in Path, UndoRemove(p) PROVE UndoLoops'
    <3>1. /\ pc = "undo" /\ pc' = "undo_sync" /\ cur' = p /\ UNCHANGED <<tx, touched, todo, seen>>
          /\ \A q \in Path \ {p} : dest'[q] = dest[q]
      BY <2>3 DEF UndoRemove
    <3> QED
      BY <1>0, <3>1
  <2>4. CASE UndoPublish
    <3>1. /\ pc = "undo_publish" /\ pc' = "undo_sync" /\ UNCHANGED <<tx, touched, todo, seen, cur>>
          /\ \A q \in Path \ {cur} : dest'[q] = dest[q]
      BY <1>0, <2>4 DEF UndoPublish
    <3> QED
      BY <1>0, <3>1
  <2>5. CASE RollbackValidated \/ UndoSynced \/ Undone \/ RollbackRefuses
    BY <2>5 DEF RollbackValidated, UndoSynced, Undone, RollbackRefuses, Fsync
  <2>6. CASE RollbackCleared
    BY <2>6 DEF RollbackCleared, View, PhaseFiles, Owned
  <2>7. CASE (\E d \in Dir : UndoNoDirectory(d) \/ UndoDirectory(d)) \/ UndoneDirectory
             \/ UndoneDirectories \/ RollbackCommit \/ RollbackCommitted
    BY <2>7 DEF UndoNoDirectory, UndoDirectory, UndoneDirectory, UndoneDirectories, RollbackCommit,
       RollbackCommitted, WriteJournal, Fsync
  <2> QED
    BY <1>5, <2>1, <2>2, <2>3, <2>4, <2>5, <2>6, <2>7 DEF RollbackStep
<1>6. CASE CleanupStep
  BY <1>6 DEF CleanupStep, Retire, Retired, DeleteBackups, DeleteJournal, DeleteDirectory, Deleted
<1> QED
  BY <1>1, <1>2, <1>3, <1>4, <1>5, <1>6 DEF Next, SessionStep

\* the old contents it relies on,
LEMMA NextBaseHeld ==
  ASSUME Typed, View, BaseHeld, [Next]_vars, ~PowerLoss
  PROVE  BaseHeld'
<1> USE DEF BaseHeld
<1>0. dest \in [Path -> File]
  BY DEF Typed, TypeOK
<1>1. CASE Start \/ Environment \/ UNCHANGED vars
  <2>1. ASSUME NEW p \in Path, NEW c \in File, Edit(p, c)
        PROVE  /\ touched' = touched \cup {p} /\ UNCHANGED tx
               /\ \A q \in Path \ {p} : dest'[q] = dest[q]
    BY <2>1, EditedFile DEF Typed
  <2> QED
    BY <1>1, <2>1, OutsideSteps
<1>2. CASE Preflight
  <2>1. /\ tx'.base = dest /\ dest' = dest
        /\ tx'.made \subseteq Dir \ (dirs \cup {Root})
    BY <1>2, ConstantsAssumption DEF Preflight, Planned, Typed, TypeOK, RequestOK, Request
  <2>2. \A p \in Path : dest[p] # Absent => Parent[p] \in dirs \cup {Root}
    BY DEF View, FilesNow, ParentExists
  <2> QED
    BY <2>1, <2>2
<1>3. CASE SessionStep /\ ~Preflight
  <2>1. UNCHANGED <<tx, touched>>
    BY <1>3, RecordSteps
  <2>2. \A p \in Path \ tx.plan : dest'[p] = dest[p]
    BY <1>3, StepReplaces DEF View
  <2> QED
    BY <2>1, <2>2
<1> QED
  BY <1>1, <1>2, <1>3 DEF Next

\* and the directories that hold them.
LEMMA NextUndisturbed ==
  ASSUME Typed, View, UndoLoops, BaseHeld, Undisturbed, [Next]_vars, ~PowerLoss
  PROVE  Undisturbed'
<1> USE DEF Undisturbed, Disturbed, ParentExists
<1>0. edits \in Nat
  BY DEF Typed, TypeOK
<1>1. CASE Start \/ Environment \/ UNCHANGED vars
  <2>1. (\E p \in Path, c \in File : Edit(p, c)) \/ (\E d \in Dir : EditDirectory(d))
          => edits' = edits + 1
    BY DEF Edit, EditDirectory
  <2>2. CASE edits' = edits + 1
    BY <1>0, <2>2
  <2>3. CASE UNCHANGED <<edits, tx, touched, dirs>>
    BY <2>3
  <2> QED
    BY <1>1, <2>1, <2>2, <2>3, OutsideSteps
<1>2. CASE Preflight
  <2>1. /\ tx'.base = dest /\ tx'.plan \subseteq Path /\ UNCHANGED <<dest, dirs>> /\ touched' = {}
    BY <1>2, ConstantsAssumption DEF Preflight, Planned, Typed, TypeOK, RequestOK, Request
  <2>2. \A p \in Path : dest[p] # Absent => Parent[p] \in dirs \cup {Root}
    BY DEF View, FilesNow
  <2> QED
    BY <2>1, <2>2
<1>3. CASE SessionStep /\ ~Preflight
  <2>1. UNCHANGED <<tx, touched, edits>>
    BY <1>3, RecordSteps, SessionBounds
  <2>2. tx.plan \subseteq Path
    BY PlanPaths
  <2>3. \A d \in dirs \ dirs' : d \in tx.made
    BY <1>3, DirectorySteps DEF MakeDirectory, UndoDirectory, UndoLoops
  <2> QED
    BY <2>1, <2>2, <2>3 DEF BaseHeld
<1> QED
  BY <1>1, <1>2, <1>3 DEF Next

\* Together, every step but a power failure keeps a transaction undoable.
LEMMA NextUndoable ==
  ASSUME Typed, View, Undoable, [Next]_vars, ~PowerLoss
  PROVE  Undoable'
  BY NextJournalled, NextUndoLoops, NextBaseHeld, NextUndisturbed DEF Undoable

\* What makes all of that survive a power failure: what the transaction does not touch is
\* on disk with its directory, and a journal is on disk under the name that needs it.
Anchored ==
    /\ \A p \in Path \ (tx.plan \cup touched) :
          destD[p] = dest[p] /\ (dest[p] # Absent => Parent[p] \in dirsD \cup {Root})
    /\ ~Pending => \A p \in Path : dest[p] # Absent => Parent[p] \in dirsD \cup {Root}
    /\ pc = "rename" => journalD = "prepared"
    /\ pc = "unlink" => MetadataOrdered \/ slotD # "tx"

\* Ordered metadata anchors it,
LEMMA OrderedAnchored ==
  ASSUME MetadataOrdered, Inductive
  PROVE  Anchored
  BY DEF Inductive, Ordered, Durable, FilesDurable, PhaseDurable, Rooted, Anchored

\* and so do sessions that are not killed.
LEMMA LagsAnchored ==
  ASSUME Typed, View, Lags, BaseHeld
  PROVE  Anchored
<1> USE DEF Lags, DirsLag, StateLag, BaseHeld
<1>1. \A p \in Path : dest[p] # Absent => Parent[p] \in dirs \cup {Root}
  BY DEF View, FilesNow, ParentExists
<1>2. \A p \in Path \ tx.plan : destD[p] = dest[p]
  BY LagsDurable DEF Durable, FilesDurable
<1>3. pc = "rename" => journalD = "prepared"
  OBVIOUS
<1>4. pc = "unlink" => slotD # "tx"
  BY DEF View, PhaseSlot
<1> QED
  BY <1>1, <1>2, <1>3, <1>4 DEF Anchored

\* An fsync makes durable what is there or leaves it.
LEMMA FlushMoves ==
  ASSUME NEW hs, NEW files, NEW subdirs, FlushAs(hs, files, subdirs)
  PROVE  /\ slotD' \in {slotD, slot} /\ journalD' \in {journalD, journal}
         /\ dirsD' \in {dirsD, subdirs}
         /\ MetadataOrdered => slotD' = slot
  BY DEF FlushAs, Flushed

\* What a step does to the durable name, journal and directories.
Moves ==
    /\ slotD' \in {slotD, slot} /\ journalD' \in {journalD, journal}
    /\ dirsD' \in {dirsD, dirs, dirs'}

\* Every step of a session does no more than that,
LEMMA SessionMoves == SessionStep => Moves
<1> USE DEF Moves
<1>0. /\ \A hs : Fsync(hs) => Moves
      /\ \A hs : Flush(hs) => Moves
      /\ \A p \in Path : WriteTemp(p) => Moves
      /\ \A state, next : WriteJournal(state, next) => Moves
  BY FlushMoves DEF Fsync, Flush, WriteTemp, WriteJournal
<1>1. UNCHANGED durable => Moves
  OBVIOUS
<1> HIDE DEF Moves
<1>2. RecoverStep \/ PrepareStep => Moves
  BY <1>0, <1>1 DEF RecoverStep, RecoverDiscard, RecoverDecided, RecoverPending, RecoverNothing,
     PrepareStep, PreflightRefuses, Preflight, PrepareOpen, PrepareOpened, PrepareBackup,
     PrepareJournal, PrepareSealed, PrepareRename, PrepareRenamed, PrepareFails
<1>3. ApplyStep => Moves
  BY <1>0, <1>1 DEF ApplyStep, ApplyBegin, ApplyBegun, MakeDirectory, MadeDirectory,
     DirectoriesMade, InstallNothing, InstallStage, InstallPublish, InstallPublished, InstallVerify,
     Installed, ApplyCommit, ApplyCommitted, ApplyFails
<1>4. RollbackStep => Moves
  BY <1>0, <1>1 DEF RollbackStep, RollbackValidate, RollbackClear, UndoNothing, UndoStage,
     UndoNoDirectory, UndoDirectory, RollbackValidated, RollbackCleared, UndoPublish, UndoRemove,
     UndoSynced, Undone, UndoneDirectory, UndoneDirectories, RollbackCommit, RollbackCommitted,
     RollbackRefuses
<1>5. CleanupStep => Moves
  BY <1>0, <1>1 DEF CleanupStep, Retire, Retired, DeleteBackups, DeleteJournal, DeleteDirectory,
     Deleted
<1> QED
  BY <1>2, <1>3, <1>4, <1>5 DEF SessionStep

\* and nor does any other but a power failure.
LEMMA OutsideMoves ==
  ASSUME Start \/ Environment \/ UNCHANGED vars, ~PowerLoss
  PROVE  Moves
<1> USE DEF Moves
<1>1. CASE Start \/ UNCHANGED vars \/ Stop
  BY <1>1 DEF Start, StartRestore, StartRecover, Begin, vars, Stop
<1>2. ASSUME NEW p \in Path, NEW c \in File, Edit(p, c) PROVE Moves
  BY <1>2, FlushMoves DEF Edit
<1>3. ASSUME NEW d \in Dir, EditDirectory(d) PROVE Moves
  BY <1>3, FlushMoves DEF EditDirectory
<1>4. ASSUME NEW h, Flushes(h) PROVE Moves
  BY <1>4, FlushMoves DEF Flushes, Fsync, Flush
<1> QED
  BY <1>1, <1>2, <1>3, <1>4 DEF Environment, WriteBack, OpenLock

\* Every step but a power failure keeps what a power failure must leave.
LEMMA NextUndoableD ==
  ASSUME Typed, View, Undoable, UndoableD, Anchored, [Next]_vars, ~PowerLoss
  PROVE  UndoableD'
<1> USE DEF UndoableD
<1>1. Moves
  BY SessionMoves, OutsideMoves DEF Next
<1>2. (slot = "tx" \/ slotD = "tx" => journal # "none" /\ journalD # "none")'
  <2>1. CASE UNCHANGED <<slot, journal>>
    BY <1>1, <2>1 DEF Moves
  <2>2. CASE PrepareOpen \/ Retire
    BY <1>1, <2>2 DEF Moves, PrepareOpen, Retire
  <2>3. CASE PrepareRename
    BY <2>3 DEF PrepareRename, Anchored, View, PhaseJournal
  <2>4. CASE PrepareJournal \/ ApplyBegin \/ ApplyCommit \/ RollbackCommit
    BY <1>1, <2>4 DEF Moves, PrepareJournal, ApplyBegin, ApplyCommit, RollbackCommit, WriteJournal
  <2>5. CASE DeleteJournal
    <3>1. slot \in {"preparing", "cleanup"} /\ slot' = slot /\ pc = "unlink"
      BY <2>5 DEF DeleteJournal, View, PhaseSlot
    <3>2. MetadataOrdered => slotD' = slot
      BY <2>5, FlushMoves DEF DeleteJournal, Flush
    <3>3. slotD' # "tx"
      BY <1>1, <3>1, <3>2 DEF Moves, Anchored
    <3> QED
      BY <3>1, <3>3
  <2>6. CASE DeleteDirectory
    <3>1. slot' = "none" /\ journal = "none"
      BY <2>6 DEF DeleteDirectory, View, PhaseJournal
    <3>2. slotD' # "tx"
      BY <1>1, <3>1 DEF Moves
    <3> QED
      BY <3>1, <3>2
  <2>7. UNCHANGED <<slot, journal>> \/ SessionStep
    BY OutsideSteps DEF Next
  <2> QED
    BY <2>1, <2>2, <2>3, <2>4, <2>5, <2>6, <2>7, NameSteps
<1>3. (edits = 0 => \A p \in tx.plan : tx.base[p] # Absent => Parent[p] \in dirsD \cup {Root})'
  <2>1. CASE Preflight
    <3>1. /\ tx'.base = dest /\ tx'.plan \subseteq Path /\ dirsD' = dirsD /\ ~Pending
      BY <2>1, ConstantsAssumption DEF Preflight, Planned, Typed, TypeOK, RequestOK, Request, View,
         PhaseSlot, Pending
    <3> QED
      BY <3>1 DEF Anchored
  <2>2. CASE SessionStep /\ ~Preflight
    <3>1. UNCHANGED <<tx, touched, edits>>
      BY <2>2, RecordSteps, SessionBounds
    <3>2. Undisturbed /\ Undisturbed'
      BY NextUndoable DEF Undoable
    <3> QED
      BY <1>1, <3>1, <3>2 DEF Moves, Undisturbed, Disturbed, ParentExists
  <2>3. CASE ~SessionStep
    <3>1. edits \in Nat
      BY DEF Typed, TypeOK
    <3>2. (\E p \in Path, c \in File : Edit(p, c)) \/ (\E d \in Dir : EditDirectory(d))
            => edits' = edits + 1
      BY DEF Edit, EditDirectory
    <3>3. CASE edits' = edits + 1
      BY <3>1, <3>3
    <3>4. CASE UNCHANGED <<edits, tx, dirs>>
      BY <1>1, <3>4 DEF Moves, Undoable, Undisturbed, Disturbed, ParentExists
    <3> QED
      BY <2>3, <3>2, <3>3, <3>4, OutsideSteps DEF Next
  <2> QED
    BY <2>1, <2>2, <2>3
<1> QED
  BY <1>2, <1>3

\* A power failure leaves a transaction undoable.
LEMMA PowerLossUndoable ==
  ASSUME Typed, View, Undoable, UndoableD, Anchored, PowerLoss
  PROVE  Undoable' /\ UndoableD'
<1>1. \A p \in Path : dest'[p] = IF Parent[p] \in dirsD \cup {Root} THEN destD[p] ELSE Absent
  BY DEF PowerLoss
<1>2. /\ dirs' = dirsD /\ dirsD' = dirsD /\ slot' = slotD /\ slotD' = slotD /\ pc' = "idle"
      /\ journal' = (IF slotD = "none" THEN "none" ELSE journalD) /\ journalD' = journal'
      /\ UNCHANGED <<tx, touched, edits>>
  BY DEF PowerLoss
<1>3. Journalled' /\ UndoLoops' /\ UndoableD'
  BY <1>2 DEF Journalled, UndoLoops, UndoableD
<1>4. BaseHeld'
  BY <1>1, <1>2 DEF Undoable, BaseHeld, Anchored
<1>5. Undisturbed'
  BY <1>2 DEF Undoable, UndoableD, Undisturbed, Disturbed, ParentExists
<1> QED
  BY <1>3, <1>4, <1>5 DEF Undoable

\* At first there is nothing to undo.
LEMMA InitUndoable == Init => Undoable /\ UndoableD
<1> SUFFICES ASSUME Init PROVE Undoable /\ UndoableD
  OBVIOUS
<1> QED
  BY DEF Init, Undoable, UndoableD, Journalled, UndoLoops, BaseHeld, Undisturbed, Disturbed

\* Whatever crashed and however often, a rollback is refused only if another program has
\* written to the destination or removed a directory of it since the transaction was
\* planned: recovery never gets stuck on its own. Again the exception is a session killed
\* and a power failure where metadata is not ordered.
THEOREM RollbackNeverRefusedAlone ==
  Spec => [](MetadataOrdered \/ stops = 0 \/ losses = 0 => NeverRefusedAlone)
<1> DEFINE Lossless == stops = 0 \/ MetadataOrdered
           I == /\ Typed
                /\ MetadataOrdered => Inductive
                /\ stops = 0 => View /\ Lags
                /\ losses = 0 => View
                /\ Lossless \/ losses = 0 => Undoable
                /\ Lossless => UndoableD
<1>1. Init => I
  BY InitTyped, InitView, InitLags, InitOrdered, InitUndoable DEF Inductive
<1>2. I /\ [Next]_vars => I'
  <2> SUFFICES ASSUME I, [Next]_vars PROVE I'
    OBVIOUS
  <2>1. Typed' /\ (MetadataOrdered => Inductive')
    BY NextTyped, NextOrdered
  <2>2. stops' = 0 => stops = 0 /\ View' /\ Lags'
    BY StopsCount, NextLags
  <2>3. losses' = 0 => losses = 0 /\ ~PowerLoss
    BY LossesStay DEF PowerLoss, Typed, TypeOK
  <2>4. losses' = 0 => View'
    BY <2>3, NextView
  <2>5. ASSUME Lossless' PROVE Undoable' /\ UndoableD'
    <3>1. Lossless
      BY <2>2, <2>5
    <3>2. View /\ Undoable /\ UndoableD
      BY <3>1 DEF Inductive
    <3>3. Anchored
      BY <3>1, <3>2, OrderedAnchored, LagsAnchored DEF Undoable
    <3> QED
      BY <3>2, <3>3, NextUndoable, NextUndoableD, PowerLossUndoable
  <2>6. losses' = 0 => Undoable'
    BY <2>3, NextUndoable
  <2> QED
    BY <2>1, <2>2, <2>4, <2>5, <2>6
<1>3. I => (MetadataOrdered \/ stops = 0 \/ losses = 0 => NeverRefusedAlone)
  BY UndoableNotBlocked DEF Inductive
<1> QED
  BY <1>1, <1>2, <1>3, PTL DEF Spec
=============================================================================
