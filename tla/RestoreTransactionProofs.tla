---------------------- MODULE RestoreTransactionProofs ----------------------
(***************************************************************************)
(* RestoreTransaction on any file system, for every value of its           *)
(* constants: its types, what a session may overwrite, and that it is all  *)
(* or nothing whatever dies, as long as power does not fail.               *)
(***************************************************************************)
EXTENDS RestoreTransaction, TLAPS

\* A request is at hand whenever the session acts for one.
RequestOK ==
    role = "restore" \/ pc = "preflight" => req \in Requests

Typed == TypeOK /\ RequestOK

\* Abbreviations of the model stand for what they expand to in every proof.
USE DEF visible, durable, record, bounds, Goto, Unchanged, EndSession, File, Slots,
        Journals, Roles, Reports, Phases, PreparePhase, ApplyPhase, RollbackPhase,
        CleanupPhase, Decided

\* Every initial state is well typed.
LEMMA InitTyped == Init => Typed
  BY ConstantsAssumption, BoundsAssumption
  DEF Init, Typed, TypeOK, RequestOK, Transaction

\* The part of the type invariant that is on disk.
DiskTyped ==
    /\ dest \in [Path -> File] /\ destD \in [Path -> File]
    /\ dirs \subseteq Dir /\ dirsD \subseteq Dir
    /\ temp \subseteq Path /\ tempD \subseteq Path
    /\ slot \in Slots /\ slotD \in Slots
    /\ journal \in Journals /\ journalD \in Journals
    /\ backup \subseteq Path /\ backupD \subseteq Path

\* fsync keeps the durable versions well typed.
LEMMA FlushTyped ==
  ASSUME TypeOK, NEW hs, NEW files \in [Path -> File], NEW subdirs \in SUBSET Dir,
         FlushAs(hs, files, subdirs)
  PROVE  /\ destD' \in [Path -> File] /\ dirsD' \subseteq Dir
         /\ slotD' \in Slots /\ journalD' \in Journals /\ backupD' \subseteq Path
  BY DEF TypeOK, FlushAs

\* The part of it that is on the platter.
DurableTyped ==
    /\ destD \in [Path -> File] /\ dirsD \subseteq Dir /\ tempD \subseteq Path
    /\ slotD \in Slots /\ journalD \in Journals /\ backupD \subseteq Path

\* The part that the session and its peers see, and the part they remember.
VisibleTyped ==
    /\ dest \in [Path -> File] /\ dirs \subseteq Dir /\ temp \subseteq Path
    /\ slot \in Slots /\ journal \in Journals /\ backup \subseteq Path

MemoryTyped ==
    /\ tx \in Transaction /\ touched \subseteq Path
    /\ pc \in Phases /\ todo \subseteq Path \cup Dir /\ cur \in Path \cup Dir \cup {Nobody}
    /\ seen \in [Path -> File] /\ checked \subseteq Path
    /\ role \in Roles /\ req \in Requests \cup {Nobody} /\ report \in Reports
    /\ stops \in Nat /\ losses \in Nat /\ edits \in Nat
    /\ RequestOK

\* A state is well typed when the three parts of it are.
LEMMA JoinTyped == VisibleTyped' /\ DurableTyped' /\ MemoryTyped' => Typed'
  BY DEF VisibleTyped, DurableTyped, MemoryTyped, Typed, TypeOK

\* The same of a step that syncs the directories hs among other things.
LEMMA FlushDurable ==
  ASSUME TypeOK, NEW hs, Flush(hs), tempD' \subseteq FlushTemp(hs)
  PROVE  DurableTyped'
<1>1. dest \in [Path -> File] /\ dirs \in SUBSET Dir /\ FlushAs(hs, dest, dirs)
  BY DEF TypeOK, Flush
<1>2. tempD' \subseteq Path
  BY DEF FlushTemp, TypeOK
<1> QED
  BY <1>1, <1>2, FlushTyped DEF DurableTyped

\* The same of a step that writes a temporary file.
LEMMA WriteTempTyped ==
  ASSUME TypeOK, NEW p \in Path, WriteTemp(p)
  PROVE  DurableTyped' /\ temp' \subseteq Path
<1>1. dest \in [Path -> File] /\ dirs \in SUBSET Dir /\ FlushAs({}, dest, dirs)
  BY DEF TypeOK, WriteTemp, Flush
<1>2. tempD' \subseteq Path /\ temp' \subseteq Path
  BY DEF FlushTemp, TypeOK, WriteTemp
<1> QED
  BY <1>1, <1>2, FlushTyped DEF DurableTyped

\* The same of a step that is a whole fsync.
LEMMA FsyncTyped ==
  ASSUME TypeOK, NEW hs, Fsync(hs)
  PROVE  DiskTyped'
<1>1. Flush(hs) /\ tempD' = FlushTemp(hs) /\ UNCHANGED visible
  BY DEF Fsync
<1>2. DurableTyped'
  BY <1>1, FlushDurable
<1> QED
  BY <1>1, <1>2 DEF DurableTyped, DiskTyped, TypeOK

\* A step that writes the journal is well typed.
LEMMA WriteJournalTyped ==
  ASSUME Typed, NEW state \in Journals, NEW next \in Phases, next # "preflight",
         WriteJournal(state, next)
  PROVE  Typed'
<1>1. DurableTyped'
  BY FlushDurable DEF WriteJournal, Typed
<1> QED
  BY <1>1 DEF WriteJournal, DurableTyped, Typed, TypeOK, RequestOK

\* Taking the lock is well typed.
LEMMA StartTyped == Typed /\ Start => Typed'
  BY ConstantsAssumption
  DEF Typed, TypeOK, RequestOK, Start, StartRestore, StartRecover, Begin

\* The steps of a session are well typed, group by group.
LEMMA RecoverTyped == Typed /\ RecoverStep => Typed'
  BY DEF Typed, TypeOK, RequestOK, Transaction, RecoverStep, RecoverDiscard,
         RecoverDecided, RecoverPending, RecoverNothing

\* Planning and preparing.
LEMMA PrepareTyped == Typed /\ PrepareStep => Typed'
<1> SUFFICES ASSUME Typed, PrepareStep PROVE Typed'
  OBVIOUS
<1> USE DEF Typed, TypeOK, RequestOK
<1>1. CASE PreflightRefuses
  BY <1>1 DEF PreflightRefuses
<1>2. CASE Preflight
  BY <1>2, ConstantsAssumption DEF Preflight, Planned, Request, Transaction
<1>3. CASE PrepareOpen
  BY <1>3 DEF PrepareOpen
<1>4. CASE PrepareOpened
  BY <1>4, FsyncTyped DEF PrepareOpened, DiskTyped, Transaction
<1>5. ASSUME NEW p \in Path, PrepareBackup(p) PROVE Typed'
  <2>1. DurableTyped'
    BY <1>5, FlushDurable DEF PrepareBackup
  <2>2. VisibleTyped'
    BY <1>5 DEF PrepareBackup, VisibleTyped
  <2>3. MemoryTyped'
    BY <1>5 DEF PrepareBackup, MemoryTyped
  <2> QED
    BY <2>1, <2>2, <2>3, JoinTyped
<1>6. CASE PrepareJournal
  BY <1>6, WriteJournalTyped DEF PrepareJournal
<1>7. CASE PrepareSealed
  BY <1>7, FsyncTyped DEF PrepareSealed, DiskTyped
<1>8. CASE PrepareRename
  BY <1>8 DEF PrepareRename
<1>9. CASE PrepareRenamed
  BY <1>9, FsyncTyped DEF PrepareRenamed, DiskTyped
<1>10. CASE PrepareFails
  BY <1>10 DEF PrepareFails
<1> QED
  BY <1>1, <1>2, <1>3, <1>4, <1>5, <1>6, <1>7, <1>8, <1>9, <1>10 DEF PrepareStep

\* Applying.
LEMMA ApplyTyped == Typed /\ ApplyStep => Typed'
<1> SUFFICES ASSUME Typed, ApplyStep PROVE Typed'
  OBVIOUS
<1> USE DEF Typed, TypeOK, RequestOK
<1>1. CASE ApplyBegin
  BY <1>1, WriteJournalTyped DEF ApplyBegin
<1>2. CASE ApplyBegun
  BY <1>2, FsyncTyped DEF ApplyBegun, DiskTyped, Transaction
<1>3. ASSUME NEW d \in Dir, MakeDirectory(d) PROVE Typed'
  BY <1>3 DEF MakeDirectory
<1>4. CASE MadeDirectory
  BY <1>4, FsyncTyped DEF MadeDirectory, DiskTyped
<1>5. CASE DirectoriesMade
  BY <1>5 DEF DirectoriesMade, Transaction
<1>6. ASSUME NEW p \in Path, InstallNothing(p) PROVE Typed'
  BY <1>6 DEF InstallNothing
<1>7. ASSUME NEW p \in Path, InstallStage(p) PROVE Typed'
  <2>1. DurableTyped' /\ temp' \subseteq Path
    <3>1. CASE UNCHANGED <<temp, durable>>
      BY <3>1 DEF DurableTyped
    <3>2. CASE WriteTemp(p)
      BY <3>2, WriteTempTyped
    <3> QED
      BY <1>7, <3>1, <3>2 DEF InstallStage
  <2>2. VisibleTyped'
    BY <1>7, <2>1 DEF InstallStage, VisibleTyped
  <2>3. MemoryTyped'
    BY <1>7 DEF InstallStage, MemoryTyped
  <2> QED
    BY <2>1, <2>2, <2>3, JoinTyped
<1>8. CASE InstallPublish
  <2>1. tx.target \in [Path -> File]
    BY DEF Transaction
  <2>2. dest' \in [Path -> File]
    BY <1>8, <2>1 DEF InstallPublish
  <2> QED
    BY <1>8, <2>2 DEF InstallPublish
<1>9. CASE InstallPublished
  BY <1>9, FsyncTyped DEF InstallPublished, DiskTyped
<1>10. CASE InstallVerify
  BY <1>10 DEF InstallVerify
<1>11. CASE Installed
  BY <1>11, FsyncTyped DEF Installed, DiskTyped
<1>12. CASE ApplyCommit
  BY <1>12, WriteJournalTyped DEF ApplyCommit
<1>13. CASE ApplyCommitted
  BY <1>13, FsyncTyped DEF ApplyCommitted, DiskTyped
<1>14. CASE ApplyFails
  <2>1. tx.plan \subseteq Path
    BY DEF Transaction
  <2>2. DiskTyped'
    <3>1. CASE UNCHANGED <<temp, durable>>
      BY <1>14, <3>1 DEF ApplyFails, DiskTyped
    <3>2. CASE /\ pc = "publish" /\ temp' = temp \ {cur}
               /\ Flush({Parent[cur]}) /\ tempD' = FlushTemp({Parent[cur]}) \ {cur}
      BY <1>14, <3>2, FlushTyped DEF ApplyFails, Flush, FlushTemp, DiskTyped
    <3> QED
      BY <1>14, <3>1, <3>2 DEF ApplyFails
  <2> QED
    BY <1>14, <2>1, <2>2 DEF ApplyFails, DiskTyped
<1> QED
  BY <1>1, <1>2, <1>3, <1>4, <1>5, <1>6, <1>7, <1>8, <1>9, <1>10, <1>11, <1>12, <1>13,
     <1>14 DEF ApplyStep

\* Rolling back.
LEMMA RollbackTyped == Typed /\ RollbackStep => Typed'
<1> SUFFICES ASSUME Typed, RollbackStep PROVE Typed'
  OBVIOUS
<1> USE DEF Typed, TypeOK, RequestOK
<1>1. ASSUME NEW p \in Path, RollbackValidate(p) PROVE Typed'
  BY <1>1 DEF RollbackValidate
<1>2. ASSUME NEW p \in Path, RollbackClear(p) PROVE Typed'
  <2>1. DurableTyped'
    BY <1>2, FlushDurable DEF RollbackClear
  <2>2. VisibleTyped'
    BY <1>2 DEF RollbackClear, VisibleTyped
  <2>3. MemoryTyped'
    BY <1>2 DEF RollbackClear, MemoryTyped
  <2> QED
    BY <2>1, <2>2, <2>3, JoinTyped
<1>3. ASSUME NEW p \in Path, UndoNothing(p) PROVE Typed'
  BY <1>3 DEF UndoNothing
<1>4. ASSUME NEW p \in Path, UndoStage(p) PROVE Typed'
  <2>1. DurableTyped' /\ temp' \subseteq Path
    BY <1>4, WriteTempTyped DEF UndoStage
  <2>2. VisibleTyped'
    BY <1>4, <2>1 DEF UndoStage, VisibleTyped
  <2>3. MemoryTyped'
    BY <1>4 DEF UndoStage, MemoryTyped
  <2> QED
    BY <2>1, <2>2, <2>3, JoinTyped
<1>5. ASSUME NEW p \in Path, UndoRemove(p) PROVE Typed'
  BY <1>5 DEF UndoRemove
<1>6. ASSUME NEW d \in Dir, UndoNoDirectory(d) PROVE Typed'
  BY <1>6 DEF UndoNoDirectory
<1>7. ASSUME NEW d \in Dir, UndoDirectory(d) PROVE Typed'
  BY <1>7 DEF UndoDirectory
<1>8. CASE RollbackValidated
  BY <1>8 DEF RollbackValidated
<1>9. CASE RollbackCleared
  BY <1>9 DEF RollbackCleared, Transaction
<1>10. CASE UndoPublish
  <2>1. tx.base \in [Path -> File]
    BY DEF Transaction
  <2>2. dest' \in [Path -> File]
    BY <1>10, <2>1 DEF UndoPublish
  <2> QED
    BY <1>10, <2>2 DEF UndoPublish
<1>11. CASE UndoSynced
  BY <1>11, FsyncTyped DEF UndoSynced, DiskTyped
<1>12. CASE Undone
  BY <1>12 DEF Undone, Transaction
<1>13. CASE UndoneDirectory
  BY <1>13, FsyncTyped DEF UndoneDirectory, DiskTyped
<1>14. CASE UndoneDirectories
  BY <1>14, FsyncTyped DEF UndoneDirectories, DiskTyped
<1>15. CASE RollbackCommit
  BY <1>15, WriteJournalTyped DEF RollbackCommit
<1>16. CASE RollbackCommitted
  BY <1>16, FsyncTyped DEF RollbackCommitted, DiskTyped
<1>17. CASE RollbackRefuses
  BY <1>17 DEF RollbackRefuses
<1> QED
  BY <1>1, <1>2, <1>3, <1>4, <1>5, <1>6, <1>7, <1>8, <1>9, <1>10, <1>11, <1>12, <1>13,
     <1>14, <1>15, <1>16, <1>17 DEF RollbackStep

\* Retiring the transaction.
LEMMA CleanupTyped == Typed /\ CleanupStep => Typed'
<1> SUFFICES ASSUME Typed, CleanupStep PROVE Typed'
  OBVIOUS
<1> USE DEF Typed, TypeOK, RequestOK
<1>1. CASE Retire
  BY <1>1 DEF Retire
<1>2. CASE Retired
  BY <1>2, FsyncTyped DEF Retired, DiskTyped
<1>3. CASE DeleteBackups
  BY <1>3 DEF DeleteBackups
<1>4. CASE DeleteJournal
  <2>1. DurableTyped'
    BY <1>4, FlushDurable DEF DeleteJournal
  <2>2. VisibleTyped'
    BY <1>4 DEF DeleteJournal, VisibleTyped
  <2>3. MemoryTyped'
    BY <1>4 DEF DeleteJournal, MemoryTyped
  <2> QED
    BY <2>1, <2>2, <2>3, JoinTyped
<1>5. CASE DeleteDirectory
  <2>1. DurableTyped'
    BY <1>5, FlushDurable DEF DeleteDirectory
  <2>2. VisibleTyped'
    BY <1>5 DEF DeleteDirectory, VisibleTyped
  <2>3. MemoryTyped'
    BY <1>5 DEF DeleteDirectory, MemoryTyped
  <2> QED
    BY <2>1, <2>2, <2>3, JoinTyped
<1>6. CASE Deleted
  BY <1>6, FsyncTyped DEF Deleted, DiskTyped
<1> QED
  BY <1>1, <1>2, <1>3, <1>4, <1>5, <1>6 DEF CleanupStep

\* So are the steps of the environment.
LEMMA EnvironmentTyped == Typed /\ Environment => Typed'
<1> SUFFICES ASSUME Typed, Environment PROVE Typed'
  OBVIOUS
<1> USE DEF Typed, TypeOK, RequestOK
<1>1. ASSUME NEW p \in Path, NEW c \in File, Edit(p, c) PROVE Typed'
  <2>1. dest' \in [Path -> File]
    BY <1>1 DEF Edit
  <2>2. FlushAs({Parent[p]}, dest', dirs) /\ tempD' = FlushTemp({Parent[p]})
    BY <1>1 DEF Edit
  <2>3. /\ destD' \in [Path -> File] /\ dirsD' \subseteq Dir /\ tempD' \subseteq Path
        /\ slotD' \in Slots /\ journalD' \in Journals /\ backupD' \subseteq Path
    BY <2>1, <2>2, FlushTyped DEF FlushTemp
  <2>4. /\ edits' \in Nat /\ touched' \subseteq Path /\ checked' \subseteq Path
        /\ UNCHANGED <<dirs, temp, slot, journal, backup, tx, pc, todo, cur, seen, role,
                       req, report, stops, losses>>
    BY <1>1 DEF Edit
  <2> QED
    BY <2>1, <2>3, <2>4
<1>2. ASSUME NEW d \in Dir, EditDirectory(d) PROVE Typed'
  <2>1. dirs' \subseteq Dir /\ FlushAs({Root}, dest, dirs') /\ tempD' = FlushTemp({Root})
    BY <1>2 DEF EditDirectory
  <2>2. DurableTyped'
    BY <2>1, FlushTyped DEF FlushTemp, DurableTyped
  <2>3. VisibleTyped'
    BY <1>2, <2>1 DEF EditDirectory, VisibleTyped
  <2>4. MemoryTyped'
    BY <1>2 DEF EditDirectory, MemoryTyped
  <2> QED
    BY <2>2, <2>3, <2>4, JoinTyped
<1>3. ASSUME NEW h, Flushes(h) PROVE Typed'
  BY <1>3, FsyncTyped DEF Flushes, DiskTyped
<1>4. CASE Stop
  BY <1>4 DEF Stop
<1>5. CASE PowerLoss
  BY <1>5 DEF PowerLoss
<1> QED
  BY <1>1, <1>2, <1>3, <1>4, <1>5 DEF Environment, WriteBack, OpenLock

\* Every step is well typed.
LEMMA NextTyped == Typed /\ [Next]_vars => Typed'
<1> SUFFICES ASSUME Typed, [Next]_vars PROVE Typed'
  OBVIOUS
<1>1. CASE UNCHANGED vars
  BY <1>1 DEF Typed, TypeOK, RequestOK, vars
<1> QED
  BY <1>1, StartTyped, RecoverTyped, PrepareTyped, ApplyTyped, RollbackTyped,
     CleanupTyped, EnvironmentTyped DEF Next, SessionStep

\* Every variable keeps its type, whatever crashes and whoever edits.
THEOREM TypeCorrect == Spec => []TypeOK
<1>1. Spec => []Typed
  BY InitTyped, NextTyped, PTL DEF Spec
<1>2. Typed => TypeOK
  BY DEF Typed
<1> QED
  BY <1>1, <1>2, PTL
-----------------------------------------------------------------------------
(* What programs see.  View relates where the session stands to the files  *)
(* and to the transaction directory as they are now; none of it is about   *)
(* what a power failure would leave, and no order of the writes matters.   *)

\* The files a rollback would put back from a backup.
Needed == {p \in tx.plan : tx.base[p] # Absent}

\* The owned files are all old, all new, or each of them one or the other.
AtBase(files)   == \A p \in Owned : files[p] = tx.base[p]
AtTarget(files) == \A p \in Owned : files[p] = tx.target[p]
OldOrNew(files) == \A p \in Owned : files[p] \in {tx.base[p], tx.target[p]}

\* No file without its directory; all old or all new unless the transaction is to
\* be rolled back; the paths a deletion had nothing to do for stay absent.
FilesNow ==
    /\ \A p \in Path : dest[p] # Absent => ParentExists(p)
    /\ OldOrNew(dest)
    /\ ~Pending => AtBase(dest) \/ AtTarget(dest)
    /\ \A p \in (tx.paths \ tx.plan) \ touched : dest[p] = Absent /\ tx.target[p] = Absent

\* What the transaction directory holds, and when temporary files may exist.
StateNow ==
    /\ slot = "none" => backup = {} /\ journal = "none"
    /\ slot = "tx" => Needed \subseteq backup
    /\ temp \subseteq tx.plan
    /\ ~Pending => temp = {}

\* Where the session is and what the transaction directory is called.
PhaseSlot ==
    /\ pc \in {"preflight", "prepare", "deleted"} => slot = "none"
    /\ pc \in {"opened", "backup", "sealed", "rename"} => slot = "preparing"
    /\ pc \in {"delete", "unlink", "rmdir"} => slot \in {"preparing", "cleanup"}
    /\ pc = "retired" => slot = "cleanup"
    /\ pc \in {"renamed", "retire"} \cup ApplyPhase \cup RollbackPhase => slot = "tx"

PhaseJournal ==
    /\ pc \in {"opened", "backup", "rmdir", "deleted"} => journal = "none"
    /\ pc \in {"sealed", "rename", "renamed", "applying"} => journal = "prepared"
    /\ pc \in (ApplyPhase \cup RollbackPhase) \ {"committed", "undo_journaled"} => journal \notin Decided
    /\ pc \in {"committed", "undo_journaled", "retire", "retired"} => journal \in Decided
    /\ pc \in {"unlink", "rmdir", "deleted"} => backup = {}

PhaseBackup ==
    /\ pc = "backup" => Needed \subseteq backup \cup todo
    /\ pc \in {"sealed", "rename", "renamed"} => Needed \subseteq backup

\* What each loop has done to the files the transaction owns.
PhaseFiles ==
    /\ pc \in {"prepare", "opened", "backup", "sealed", "rename", "renamed",
               "applying", "begun", "mkdirs", "mkdir_sync"} => AtBase(dest)
    /\ pc \in {"install", "publish", "publish_sync", "verify"} =>
           \A p \in Owned \ todo : dest[p] = tx.target[p]
    /\ pc \in {"commit", "committed"} \/ role = "commit" => AtTarget(dest)
    /\ role = "commit" => pc \in CleanupPhase
    /\ pc = "validate" => \A p \in Owned \ todo : seen[p] = dest[p]
    /\ pc = "clear" => \A p \in Owned : seen[p] = dest[p]
    /\ pc \in {"undo", "undo_publish", "undo_sync"} =>
           \A p \in Owned : \/ p \in todo /\ seen[p] = dest[p]
                            \/ dest[p] = tx.base[p]
    /\ pc = "undo_sync" /\ cur \in Owned => dest[cur] = tx.base[cur]
    /\ pc \in {"rmdirs", "rmdir_sync", "undo_journal", "undo_journaled"} => AtBase(dest)

PhaseTemps ==
    /\ pc \in (ApplyPhase \ {"publish"}) \cup
              {"renamed", "undo", "undo_sync", "rmdirs", "rmdir_sync", "undo_journal",
               "undo_journaled"} => temp = {}
    /\ pc \in {"publish", "undo_publish"} => temp \subseteq {cur}

\* The loops stay within the plan.
Loops ==
    /\ pc \in {"install", "publish", "publish_sync", "verify", "undo", "undo_publish",
               "undo_sync"} => todo \subseteq tx.plan
    /\ pc \in {"publish", "publish_sync", "undo_publish", "undo_sync"} => cur \in tx.plan

\* A file not edited since it was inspected holds something that may be replaced.
Expected ==
    \A p \in checked \cap tx.plan : dest[p] \in {Absent, tx.base[p], tx.target[p]}

View ==
    /\ FilesNow /\ StateNow /\ PhaseSlot /\ PhaseJournal /\ PhaseBackup /\ PhaseFiles /\ PhaseTemps
    /\ Loops /\ Expected /\ (pc # "idle" => report = "none")

\* Taking the lock keeps it.
LEMMA StartView ==
  ASSUME Typed, View, Start, TypeOK'
  PROVE  View'
<1> USE DEF View, FilesNow, StateNow, PhaseSlot, PhaseJournal, PhaseBackup, PhaseFiles, PhaseTemps,
            Loops, Expected, Needed, Owned, Pending, AtBase, AtTarget, OldOrNew, Typed, TypeOK,
            RequestOK, ParentExists
<1>1. CASE StartRestore
  BY <1>1 DEF StartRestore, Begin
<1>2. CASE StartRecover
  BY <1>2 DEF StartRecover, Begin
<1> QED
  BY <1>1, <1>2 DEF Start

\* So does deciding what to do with what an earlier session left.
LEMMA RecoverView ==
  ASSUME Typed, View, RecoverStep, TypeOK'
  PROVE  View'
<1> USE DEF View, FilesNow, StateNow, PhaseSlot, PhaseJournal, PhaseBackup, PhaseFiles, PhaseTemps,
            Loops, Expected, Needed, Owned, Pending, AtBase, AtTarget, OldOrNew, Typed, TypeOK,
            RequestOK, ParentExists
<1>1. CASE RecoverDiscard
  BY <1>1 DEF RecoverDiscard
<1>2. CASE RecoverDecided
  BY <1>2 DEF RecoverDecided
<1>3. CASE RecoverPending
  BY <1>3 DEF RecoverPending, Transaction
<1>4. CASE RecoverNothing
  BY <1>4 DEF RecoverNothing
<1> QED
  BY <1>1, <1>2, <1>3, <1>4 DEF RecoverStep

\* Planning and preparing: nothing counts before the rename to tx-.
LEMMA PrepareView ==
  ASSUME Typed, View, PrepareStep, TypeOK'
  PROVE  View'
<1> USE DEF View, FilesNow, StateNow, PhaseSlot, PhaseJournal, PhaseBackup, PhaseFiles, PhaseTemps,
            Loops, Expected, Needed, Owned, Pending, AtBase, AtTarget, OldOrNew, Typed, TypeOK,
            RequestOK, ParentExists
<1>1. CASE PreflightRefuses
  BY <1>1 DEF PreflightRefuses
<1>2. CASE Preflight
  <2>1. slot = "none" /\ temp = {} /\ UNCHANGED <<visible, durable>> /\ touched' = {}
    BY <1>2 DEF Preflight
  <2>2. tx' = [paths |-> req.paths, plan |-> Planned, base |-> dest, target |-> req.target,
               made |-> tx'.made]
    BY <1>2 DEF Preflight
  <2>3. AtBase(dest)'
    BY <1>2, <2>1, <2>2 DEF Transaction
  <2>4. FilesNow' /\ StateNow' /\ Expected'
    BY <1>2, <2>1, <2>2, <2>3, ConstantsAssumption DEF Planned, Request, Transaction, ParentExists
  <2> QED
    BY <1>2, <2>1, <2>3, <2>4 DEF Preflight
<1>3. CASE PrepareOpen
  BY <1>3 DEF PrepareOpen
<1>4. CASE PrepareOpened
  BY <1>4 DEF PrepareOpened, Fsync, Transaction
<1>5. ASSUME NEW p \in Path, PrepareBackup(p) PROVE View'
  BY <1>5 DEF PrepareBackup
<1>6. CASE PrepareJournal
  BY <1>6 DEF PrepareJournal, WriteJournal
<1>7. CASE PrepareSealed
  BY <1>7 DEF PrepareSealed, Fsync
<1>8. CASE PrepareRename
  BY <1>8 DEF PrepareRename
<1>9. CASE PrepareRenamed
  BY <1>9 DEF PrepareRenamed, Fsync
<1>10. CASE PrepareFails
  BY <1>10 DEF PrepareFails
<1> QED
  BY <1>1, <1>2, <1>3, <1>4, <1>5, <1>6, <1>7, <1>8, <1>9, <1>10 DEF PrepareStep

\* Applying: new contents appear only while the journal says applying.
LEMMA ApplyView ==
  ASSUME Typed, View, ApplyStep, TypeOK'
  PROVE  View'
<1> USE DEF View, FilesNow, StateNow, PhaseSlot, PhaseJournal, PhaseBackup, PhaseFiles, PhaseTemps,
            Loops, Expected, Needed, Owned, Pending, AtBase, AtTarget, OldOrNew, Typed, TypeOK,
            RequestOK, ParentExists
<1>1. CASE ApplyBegin
  BY <1>1 DEF ApplyBegin, WriteJournal
<1>2. CASE ApplyBegun
  BY <1>2 DEF ApplyBegun, Fsync, Transaction
<1>3. ASSUME NEW d \in Dir, MakeDirectory(d) PROVE View'
  BY <1>3 DEF MakeDirectory, ParentExists
<1>4. CASE MadeDirectory
  BY <1>4 DEF MadeDirectory, Fsync
<1>5. CASE DirectoriesMade
  BY <1>5 DEF DirectoriesMade, Transaction
<1>6. ASSUME NEW p \in Path, InstallNothing(p) PROVE View'
  BY <1>6 DEF InstallNothing, AsPlanned, ParentExists
<1>7. ASSUME NEW p \in Path, InstallStage(p) PROVE View'
  BY <1>7 DEF InstallStage, WriteTemp, AsPlanned, ParentExists
<1>8. CASE InstallPublish
  BY <1>8 DEF InstallPublish, Transaction, ParentExists
<1>9. CASE InstallPublished
  BY <1>9 DEF InstallPublished, Fsync
<1>10. CASE InstallVerify
  BY <1>10 DEF InstallVerify
<1>11. CASE Installed
  BY <1>11 DEF Installed, Fsync
<1>12. CASE ApplyCommit
  BY <1>12 DEF ApplyCommit, WriteJournal
<1>13. CASE ApplyCommitted
  BY <1>13 DEF ApplyCommitted, Fsync
<1>14. CASE ApplyFails
  BY <1>14 DEF ApplyFails, Transaction
<1> QED
  BY <1>1, <1>2, <1>3, <1>4, <1>5, <1>6, <1>7, <1>8, <1>9, <1>10, <1>11, <1>12, <1>13, <1>14 DEF ApplyStep

\* Rolling back: what the validation found tells which files are old already.
LEMMA RollbackView ==
  ASSUME Typed, View, RollbackStep, TypeOK'
  PROVE  View'
<1> USE DEF View, FilesNow, StateNow, PhaseSlot, PhaseJournal, PhaseBackup, PhaseFiles, PhaseTemps,
            Loops, Expected, Needed, Owned, Pending, AtBase, AtTarget, OldOrNew, Typed, TypeOK,
            RequestOK, ParentExists
<1>1. ASSUME NEW p \in Path, RollbackValidate(p) PROVE View'
  BY <1>1 DEF RollbackValidate, Recoverable
<1>2. ASSUME NEW p \in Path, RollbackClear(p) PROVE View'
  BY <1>2 DEF RollbackClear
<1>3. ASSUME NEW p \in Path, UndoNothing(p) PROVE View'
  BY <1>3 DEF UndoNothing
<1>4. ASSUME NEW p \in Path, UndoStage(p) PROVE View'
  BY <1>4 DEF UndoStage, WriteTemp
<1>5. ASSUME NEW p \in Path, UndoRemove(p) PROVE View'
  <2>1. dest'[p] = tx.base[p] /\ \A q \in Path \ {p} : dest'[q] = dest[q]
    BY <1>5 DEF UndoRemove
  <2>2. PhaseFiles'
    BY <1>5, <2>1 DEF UndoRemove, Transaction
  <2> QED
    BY <1>5, <2>1, <2>2 DEF UndoRemove, Transaction, ParentExists
<1>6. ASSUME NEW d \in Dir, UndoNoDirectory(d) PROVE View'
  BY <1>6 DEF UndoNoDirectory
<1>7. ASSUME NEW d \in Dir, UndoDirectory(d) PROVE View'
  BY <1>7 DEF UndoDirectory, EmptyDir, ParentExists
<1>8. CASE RollbackValidated
  BY <1>8 DEF RollbackValidated
<1>9. CASE RollbackCleared
  BY <1>9 DEF RollbackCleared, Transaction
<1>10. CASE UndoPublish
  <2>1. /\ cur \in tx.plan /\ cur \in Path
        /\ dest'[cur] = tx.base[cur] /\ \A q \in Path \ {cur} : dest'[q] = dest[q]
    BY <1>10 DEF UndoPublish, Transaction
  <2>2. PhaseFiles'
    BY <1>10, <2>1 DEF UndoPublish, Transaction
  <2> QED
    BY <1>10, <2>1, <2>2 DEF UndoPublish, ParentExists, Transaction
<1>11. CASE UndoSynced
  BY <1>11 DEF UndoSynced, Fsync
<1>12. CASE Undone
  BY <1>12 DEF Undone, Transaction
<1>13. CASE UndoneDirectory
  BY <1>13 DEF UndoneDirectory, Fsync
<1>14. CASE UndoneDirectories
  BY <1>14 DEF UndoneDirectories, Fsync
<1>15. CASE RollbackCommit
  BY <1>15 DEF RollbackCommit, WriteJournal
<1>16. CASE RollbackCommitted
  BY <1>16 DEF RollbackCommitted, Fsync
<1>17. CASE RollbackRefuses
  BY <1>17 DEF RollbackRefuses
<1> QED
  BY <1>1, <1>2, <1>3, <1>4, <1>5, <1>6, <1>7, <1>8, <1>9, <1>10, <1>11, <1>12, <1>13, <1>14, <1>15, <1>16, <1>17 DEF RollbackStep

\* Retiring: the backups go only once the transaction is renamed away.
LEMMA CleanupView ==
  ASSUME Typed, View, CleanupStep, TypeOK'
  PROVE  View'
<1> USE DEF View, FilesNow, StateNow, PhaseSlot, PhaseJournal, PhaseBackup, PhaseFiles, PhaseTemps,
            Loops, Expected, Needed, Owned, Pending, AtBase, AtTarget, OldOrNew, Typed, TypeOK,
            RequestOK, ParentExists
<1>1. CASE Retire
  BY <1>1 DEF Retire
<1>2. CASE Retired
  BY <1>2 DEF Retired, Fsync
<1>3. CASE DeleteBackups
  BY <1>3 DEF DeleteBackups
<1>4. CASE DeleteJournal
  BY <1>4 DEF DeleteJournal
<1>5. CASE DeleteDirectory
  BY <1>5 DEF DeleteDirectory
<1>6. CASE Deleted
  BY <1>6 DEF Deleted, Fsync
<1> QED
  BY <1>1, <1>2, <1>3, <1>4, <1>5, <1>6 DEF CleanupStep

\* It is about what programs see and what the session remembers, and nothing else.
LEMMA SameView ==
  ASSUME View, UNCHANGED <<visible, record, pc, todo, cur, seen, checked, role, report>>
  PROVE  View'
  BY DEF View, FilesNow, StateNow, PhaseSlot, PhaseJournal, PhaseBackup, PhaseFiles, PhaseTemps,
     Loops, Expected, Needed, Owned, Pending, AtBase, AtTarget, OldOrNew, ParentExists

\* Edits, write-back and killed sessions keep it too.
LEMMA EnvironmentView ==
  ASSUME Typed, View, Environment, ~PowerLoss, TypeOK'
  PROVE  View'
<1> USE DEF View, FilesNow, StateNow, PhaseSlot, PhaseJournal, PhaseBackup, PhaseFiles, PhaseTemps,
            Loops, Expected, Needed, Owned, Pending, AtBase, AtTarget, OldOrNew, Typed, TypeOK,
            RequestOK, ParentExists
<1>1. ASSUME NEW p \in Path, NEW c \in File, Edit(p, c) PROVE View'
  <2>1. /\ dest' \in [Path -> File] /\ \A q \in Path \ {p} : dest'[q] = dest[q]
        /\ Parent[p] \in dirs \cup {Root}
    BY <1>1 DEF Edit, ParentExists
  <2>2. /\ touched' = touched \cup {p} /\ checked' = checked \ {p}
        /\ UNCHANGED <<dirs, temp, slot, journal, backup, tx, pc, todo, cur, seen, role,
                       req, report, stops, losses>>
    BY <1>1 DEF Edit
  <2>3. FilesNow' /\ StateNow'
    BY <2>1, <2>2 DEF Transaction, ParentExists
  <2>4. PhaseFiles'
    BY <2>1, <2>2 DEF Transaction
  <2>5. PhaseSlot' /\ PhaseJournal' /\ PhaseBackup' /\ PhaseTemps' /\ Loops' /\ Expected'
    BY <2>1, <2>2 DEF Transaction
  <2> QED
    BY <2>2, <2>3, <2>4, <2>5
<1>2. ASSUME NEW d \in Dir, EditDirectory(d) PROVE View'
  BY <1>2 DEF EditDirectory, EmptyDir, ParentExists
<1>3. ASSUME NEW h, Flushes(h) PROVE View'
  BY <1>3, SameView DEF Flushes, Fsync
<1>4. CASE Stop
  BY <1>4 DEF Stop
<1> QED
  BY <1>1, <1>2, <1>3, <1>4 DEF Environment, WriteBack, OpenLock

\* It holds initially.
LEMMA InitView == Init => View
  BY DEF Init, ParentExists, View, FilesNow, StateNow, PhaseSlot, PhaseJournal, PhaseBackup,
     PhaseFiles, PhaseTemps, Loops, Expected, Needed, Owned, Pending, AtBase, AtTarget, OldOrNew

\* Every step but a power failure keeps what programs see in order.
LEMMA NextView ==
  ASSUME Typed, View, [Next]_vars, ~PowerLoss
  PROVE  View'
<1>1. TypeOK'
  BY NextTyped DEF Typed
<1>2. CASE UNCHANGED vars
  BY <1>2 DEF vars, View, FilesNow, StateNow, PhaseSlot, PhaseJournal, PhaseBackup, PhaseFiles,
     PhaseTemps, Loops, Expected, Needed, Owned, Pending, AtBase, AtTarget, OldOrNew, ParentExists
<1>3. CASE Next
  BY <1>1, <1>3, StartView, RecoverView, PrepareView, ApplyView, RollbackView, CleanupView,
     EnvironmentView DEF Next, SessionStep
<1> QED
  BY <1>2, <1>3

\* The bounds count what they name: only a killed session is a stop, only a power
\* failure a loss.
LEMMA SessionBounds == SessionStep => UNCHANGED bounds
<1>1. RecoverStep \/ PrepareStep => UNCHANGED bounds
  BY DEF RecoverStep, RecoverDiscard, RecoverDecided, RecoverPending, RecoverNothing,
     PrepareStep, PreflightRefuses, Preflight, PrepareOpen, PrepareOpened, PrepareBackup,
     PrepareJournal, WriteJournal, PrepareSealed, PrepareRename, PrepareRenamed, PrepareFails
<1>2. ApplyStep => UNCHANGED bounds
  BY DEF ApplyStep, ApplyBegin, ApplyBegun, MakeDirectory, MadeDirectory, DirectoriesMade,
     InstallNothing, InstallStage, InstallPublish, InstallPublished, InstallVerify, Installed,
     ApplyCommit, ApplyCommitted, ApplyFails, WriteJournal
<1>3. RollbackStep => UNCHANGED bounds
  BY DEF RollbackStep, RollbackValidate, RollbackClear, UndoNothing, UndoStage, UndoNoDirectory,
     UndoDirectory, RollbackValidated, RollbackCleared, UndoPublish, UndoRemove, UndoSynced, Undone,
     UndoneDirectory, UndoneDirectories, RollbackCommit, RollbackCommitted, RollbackRefuses,
     WriteJournal
<1>4. CleanupStep => UNCHANGED bounds
  BY DEF CleanupStep, Retire, Retired, DeleteBackups, DeleteJournal, DeleteDirectory, Deleted
<1> QED
  BY <1>1, <1>2, <1>3, <1>4 DEF SessionStep

\* No step but a power failure counts one.
LEMMA LossesStay == [Next]_vars /\ ~PowerLoss => losses' = losses
  BY SessionBounds DEF Next, vars, Start, StartRestore, StartRecover, Begin, Environment, Edit,
     EditDirectory, WriteBack, OpenLock, Flushes, Stop

\* Where no session has been killed yet, none was before.
LEMMA StopsCount ==
  ASSUME Typed, [Next]_vars, stops' = 0
  PROVE  stops = 0 /\ ~Stop
<1>1. stops' = stops \/ Stop
  BY SessionBounds DEF Next, vars, Start, StartRestore, StartRecover, Begin, Environment, Edit,
     EditDirectory, WriteBack, OpenLock, Flushes, PowerLoss
<1>2. Stop => stops' = stops + 1 /\ stops \in Nat
  BY DEF Stop, Typed, TypeOK
<1> QED
  BY <1>1, <1>2

-----------------------------------------------------------------------------
(* What holds on any file system, of any session.                          *)

\* The steps of a session that change a file.
LEMMA FileSteps ==
  ASSUME SessionStep, dest' # dest
  PROVE  InstallPublish \/ UndoPublish \/ \E q \in Path : UndoRemove(q)
<1>1. CASE RecoverStep \/ PrepareStep
  BY <1>1 DEF RecoverStep, RecoverDiscard, RecoverDecided, RecoverPending, RecoverNothing,
     PrepareStep, PreflightRefuses, Preflight, PrepareOpen, PrepareOpened, PrepareBackup,
     PrepareJournal, WriteJournal, PrepareSealed, PrepareRename, PrepareRenamed, PrepareFails, Fsync
<1>2. CASE ApplyStep
  BY <1>2 DEF ApplyStep, ApplyBegin, ApplyBegun, MakeDirectory, MadeDirectory, DirectoriesMade,
     InstallNothing, InstallStage, InstallPublished, InstallVerify, Installed, ApplyCommit,
     ApplyCommitted, ApplyFails, WriteJournal, Fsync
<1>3. CASE RollbackStep
  BY <1>3 DEF RollbackStep, RollbackValidate, RollbackClear, UndoNothing, UndoStage, UndoNoDirectory,
     UndoDirectory, RollbackValidated, RollbackCleared, UndoSynced, Undone, UndoneDirectory,
     UndoneDirectories, RollbackCommit, RollbackCommitted, RollbackRefuses, WriteJournal, Fsync
<1>4. CASE CleanupStep
  BY <1>4 DEF CleanupStep, Retire, Retired, DeleteBackups, DeleteJournal, DeleteDirectory, Deleted,
     Fsync
<1> QED
  BY <1>1, <1>2, <1>3, <1>4 DEF SessionStep

\* Every step keeps the loops within the plan, and what was inspected replaceable.
LEMMA NextExpected ==
  ASSUME Typed, Loops, Expected, [Next]_vars
  PROVE  Loops' /\ Expected'
<1> USE DEF Typed, TypeOK, RequestOK, Loops, Expected
<1>1. CASE Start
  BY <1>1 DEF Start, StartRestore, StartRecover, Begin
<1>2. CASE RecoverStep
  BY <1>2 DEF RecoverStep, RecoverDiscard, RecoverDecided, RecoverPending, RecoverNothing
<1>3. CASE Preflight \/ PreflightRefuses
  BY <1>3 DEF Preflight, PreflightRefuses
<1>4. CASE PrepareOpen \/ PrepareOpened \/ (\E p \in Path : PrepareBackup(p)) \/ PrepareJournal
  BY <1>4 DEF PrepareOpen, PrepareOpened, PrepareBackup, PrepareJournal, WriteJournal, Fsync
<1>5. CASE PrepareSealed \/ PrepareRename \/ PrepareRenamed \/ PrepareFails
  BY <1>5 DEF PrepareSealed, PrepareRename, PrepareRenamed, PrepareFails, Fsync
<1>6. CASE ApplyStep
  <2>1. CASE ApplyBegin \/ ApplyBegun \/ (\E d \in Dir : MakeDirectory(d)) \/ MadeDirectory
             \/ DirectoriesMade
    BY <2>1 DEF ApplyBegin, ApplyBegun, MakeDirectory, MadeDirectory, DirectoriesMade, WriteJournal,
       Fsync
  <2>2. ASSUME NEW p \in Path, InstallNothing(p) \/ InstallStage(p) PROVE Loops' /\ Expected'
    BY <2>2 DEF InstallNothing, InstallStage, AsPlanned
  <2>3. CASE InstallPublish
    BY <2>3 DEF InstallPublish, Transaction
  <2>4. CASE InstallPublished \/ InstallVerify \/ Installed \/ ApplyCommit \/ ApplyCommitted
    BY <2>4 DEF InstallPublished, InstallVerify, Installed, ApplyCommit, ApplyCommitted, WriteJournal,
       Fsync
  <2>5. CASE ApplyFails
    BY <2>5 DEF ApplyFails
  <2> QED
    BY <1>6, <2>1, <2>2, <2>3, <2>4, <2>5 DEF ApplyStep
<1>7. CASE RollbackStep
  <2>1. ASSUME NEW p \in Path, RollbackValidate(p) \/ RollbackClear(p) PROVE Loops' /\ Expected'
    BY <2>1 DEF RollbackValidate, RollbackClear, Recoverable
  <2>2. ASSUME NEW p \in Path, UndoNothing(p) \/ UndoStage(p) PROVE Loops' /\ Expected'
    BY <2>2 DEF UndoNothing, UndoStage
  <2>3. ASSUME NEW p \in Path, UndoRemove(p) PROVE Loops' /\ Expected'
    BY <2>3 DEF UndoRemove
  <2>4. CASE UndoPublish
    BY <2>4 DEF UndoPublish, Transaction
  <2>5. CASE RollbackValidated \/ RollbackCleared \/ UndoSynced \/ Undone \/ RollbackRefuses
    BY <2>5 DEF RollbackValidated, RollbackCleared, UndoSynced, Undone, RollbackRefuses, Fsync
  <2>6. CASE (\E d \in Dir : UndoNoDirectory(d) \/ UndoDirectory(d)) \/ UndoneDirectory
             \/ UndoneDirectories \/ RollbackCommit \/ RollbackCommitted
    BY <2>6 DEF UndoNoDirectory, UndoDirectory, UndoneDirectory, UndoneDirectories, RollbackCommit,
       RollbackCommitted, WriteJournal, Fsync
  <2> QED
    BY <1>7, <2>1, <2>2, <2>3, <2>4, <2>5, <2>6 DEF RollbackStep
<1>8. CASE CleanupStep
  BY <1>8 DEF CleanupStep, Retire, Retired, DeleteBackups, DeleteJournal, DeleteDirectory, Deleted,
     Fsync
<1>9. ASSUME NEW p \in Path, NEW c \in File, Edit(p, c) PROVE Loops' /\ Expected'
  BY <1>9 DEF Edit
<1>10. CASE (\E d \in Dir : EditDirectory(d)) \/ (\E h : Flushes(h)) \/ Stop \/ PowerLoss
  BY <1>10 DEF EditDirectory, Flushes, Fsync, Stop, PowerLoss
<1>11. CASE UNCHANGED vars
  BY <1>11 DEF vars
<1> QED
  BY <1>1, <1>2, <1>3, <1>4, <1>5, <1>6, <1>7, <1>8, <1>9, <1>10, <1>11
     DEF Next, SessionStep, PrepareStep, Environment, WriteBack, OpenLock

\* A session replaces a planned file only, and never a content that it inspected,
\* that nobody changed since and that it did not expect.
LEMMA StepReplaces ==
  ASSUME Typed, Loops, Expected, SessionStep, NEW p \in Path, dest'[p] # dest[p]
  PROVE  /\ p \in tx.plan
         /\ p \in checked => dest[p] \in {Absent, tx.base[p], tx.target[p]}
<1>1. p \in tx.plan
  BY FileSteps DEF InstallPublish, UndoPublish, UndoRemove, Typed, TypeOK, Loops
<1> QED
  BY <1>1 DEF Expected

\* No session overwrites a file outside its plan, nor one it found to hold neither
\* the old nor the new content: on any file system, whatever crashes.
THEOREM ReplacesExpectedAlways == Spec => ReplacesOnlyExpected
<1>1. Init => Loops /\ Expected
  BY DEF Init, Loops, Expected
<1>2. Typed /\ Loops /\ Expected /\ [Next]_vars => Loops' /\ Expected'
  BY NextExpected
<1>3. Typed /\ Loops /\ Expected /\ [Next]_vars =>
        [\A p \in Path : SessionStep /\ dest'[p] # dest[p] =>
             /\ p \in tx.plan
             /\ p \in checked => dest[p] \in {Absent, tx.base[p], tx.target[p]}]_vars
  BY StepReplaces
<1> QED
  BY <1>1, <1>2, <1>3, InitTyped, NextTyped, PTL DEF Spec, ReplacesOnlyExpected

\* As long as power does not fail a transaction is all or nothing, on any file
\* system and whichever sessions are killed: what fsync makes durable and in which
\* order matters to a power failure alone.
THEOREM AtomicWithoutPowerFailure == Spec => [](losses = 0 => AllOrNothing)
<1> DEFINE I == Typed /\ (losses = 0 => View)
<1>1. Init => I
  BY InitTyped, InitView
<1>2. I /\ [Next]_vars => I'
  <2> SUFFICES ASSUME I, [Next]_vars PROVE I'
    OBVIOUS
  <2>1. Typed'
    BY NextTyped
  <2>2. CASE PowerLoss
    <3>1. losses' # 0
      BY <2>2 DEF PowerLoss, Typed, TypeOK
    <3> QED
      BY <2>1, <3>1
  <2>3. CASE ~PowerLoss
    <3>1. losses' = losses
      BY <2>3, LossesStay
    <3> QED
      BY <2>1, <2>3, <3>1, NextView
  <2> QED
    BY <2>2, <2>3
<1>3. I => (losses = 0 => AllOrNothing)
  BY DEF View, FilesNow, AllOrNothing, AtBase, AtTarget
<1> QED
  BY <1>1, <1>2, <1>3, PTL DEF Spec
=============================================================================
