# Verification of coding-system-rebuild

TLA+ models of the parts of this repository whose correctness depends on the
order of steps: what a crash, a signal, a concurrent edit or a second thread may
do between two of them. TLC checks the models on small instances; the TLA+ proof
system (TLAPS) proves the main safety properties for all values of the constants.
All paths below are relative to the repository.

    RestoreTransaction ──implements──▶ AtomicRestore
      MCRestoreTransaction      3 configurations
      RestoreTransactionProofs ◀── RestoreAtomicityProofs ◀── RestoreUnorderedProofs
    SecretRestore
      MCSecretRestore           2 configurations
      SecretRestoreProofs
    CommittedFrontend ──implements──▶ GenerationGate
      MCCommittedFrontend       3 configurations
      CommittedFrontendProofs ◀── FrontendCutoverProofs
    SessionSupervisor ──implements──▶ SharedRoute ──extends──▶ GenerationGate
      MCSessionSupervisor       3 configurations
      SessionSupervisorProofs
    EpochRecovery
      MCEpochRecovery           1 configuration
      EpochRecoveryProofs

`GenerationGate` is where the service's two halves meet: the frontend is shown to
implement it, and the supervisor drives nothing but such a gate.

## 1. The system

The repository backs up and rebuilds a personal AI-coding workstation. It has two
halves that hardly meet: a *rebuild* half (`bin/`) that captures, encrypts,
verifies, restores and publishes files, and a *session service* for one agent
(`system/grok-proxy/`) that keeps network egress of concurrent sessions on one
provider at a time. `agents/` is payload that the first half moves around.

### Components

| component | state it keeps | operations | hard behaviour | correct when |
|---|---|---|---|---|
| **restore transaction** `bin/lib/restore_transaction.py` | a state directory with a flock, at most one transaction directory (journal, backups), temporaries beside the destination files | `transactional_apply`, `recover_pending_transactions` | crash and power loss at each step, repeated rollback, concurrent edits | a restore is all or nothing and durable, replaces only what it planned, leaves no secret behind, recovery ends |
| **live secret restore** `bin/secrets-restore.sh`, `bin/secret-restore-quiescence.sh` | the set of running systemd units, one record file per run, four shell flags | quiesce, restore, recover, revalidate, resume, EXIT trap | a child that dies with unknown outcome, signals, SIGKILL, orphans | no service runs on credentials that are half replaced or unchecked; no stopped service is forgotten |
| **installer** `bin/install.sh` | its own record of stopped units, phase gates | fourteen phases, release trap | nests the secret restore between its own stop and release | as above, across both scripts |
| **recovery tool** `bin/lib/recovery_tool.py` | recovery sets on disk | create, verify, restore, recover-transaction | cryptography and archive bounds; the restore itself is the transaction above | only verified bytes are staged |
| **Shamir escrow** `bin/lib/shamir.py`, `bin/escrow-passphrase.sh` | shares | split, combine | arithmetic over GF(256) | any 2 of 4 shares recover, one says nothing |
| **manifest synchronisation** `bin/lib/manifest_sync.py`, `bin/sync.sh` | destination trees, stage roots | publish by rename exchange, swap back | exchange, re-check, roll back; several entries of a manifest | readers see an old or a new tree |
| **backup transaction** `bin/backup-transaction.sh`, `bin/lib/stage_backup.py` | git ref, index, flock | stage, commit-tree, update-ref, reset index | crash between ref and index | nothing but the owned paths is committed, nothing is undone |
| **repository generation publisher** `bin/lib/repository_generation.py`, `bin/publish-repository-generation.sh` | immutable generation directories, a selector link | emit, publish, select | concurrent publishers, crash between rename and fsync | the selector names a complete verified generation |
| **schedule reconciliation** `bin/reconcile-host-schedules.py` and others | the user's crontab, the OpenClaw job list | read, plan, install | unlocked read-modify-write | foreign lines survive |
| **restore report and evidence** `bin/lib/restore_evidence.py` | evidence files bound to one tree | write, verify | stale evidence of another tree | fails closed |
| **offsite publication** `bin/offsite-sync.sh` | a remote set | upload, compare, read back | an interrupted upload | no success without readback |
| **committed frontend** `system/grok-proxy/grok_ms/frontend.py` | publication gate (open or not, generation, epoch), backlog, streams, response hold | start, commit, drain, revoke, close, qualification arm, quiesce, reopen, disarm | an accept thread, a worker per stream, callers with deadlines, one lock each for gate, transition and streams | streams of two generations never mix; closed means quiet; nobody sleeps for ever |
| **session supervisor** `system/grok-proxy/grok_ms/supervisor.py` | leases, epoch phase, active provider, transition state, fence and recovery records on disk | register, attach, release, transition, repair, drain, force, finalize; bootstrap, offline recovery | a handler per connection, a worker, a watchdog, signals in the main thread, two locks; kills and reboots between any two records | traffic has one recorded owner; the last lease drains the epoch; the fence goes only over nothing; a crash leaves nothing unrecorded; recovery ends |
| **client, scopes, providers, VPN broker, release installer, bootstrap publication** `system/grok-proxy/` | child processes, cgroup scopes, namespaces, release directories | see PROJECT.json | process death, root-side ledgers | cleanup is exact |

PROJECT.json lists every component with its status, and every hazard at the line
where it bites.

### Interactions

* `install.sh` stops services, calls `secrets-restore.sh`, and resumes services
  from its own trap. `secrets-restore.sh` runs `secret-restore-quiescence.sh` and
  `recovery_tool.py`, which calls `transactional_apply`. They share the units, the
  record files and the flock of the state directory, and otherwise only exit codes.
* `materialize-secret-projections.py` and `recovery_tool.py` hand plans to
  `transactional_apply`; every session first recovers what an earlier one left.
* A client holds a control connection to the supervisor for each of its sessions;
  its child waits behind a barrier until the supervisor has put it into a recorded
  cgroup scope. The supervisor's threads share `_state_lock` and `_transition_lock`.
* The supervisor calls the frontend's operations, one at a time under the
  transition lock (`qualification_disarm` takes none). The frontend's accept thread
  and its workers talk to the caller through counters and one condition variable,
  and through a wake socket per stream.

## 2. The models

### AtomicRestore, RestoreTransaction

`AtomicRestore` is what the owner of a destination tree is promised: files that
belong to the restore and that nobody else touches keep their value or move to
their targets together; all others are left alone.

`RestoreTransaction` is the program. Each place whose directory entries matter has
a *visible* and a *durable* version (`dest`/`destD`, `dirs`/`dirsD`, `temp`/`tempD`,
`slot`/`slotD`, `journal`/`journalD`, `backup`/`backupD`). An fsync copies the first
to the second, `PowerLoss` falls back to the second, `WriteBack` is the kernel
writing an entry by itself, and `OpenLock` the fsync of the state directory by a
session that will then wait for the lock, for however long. `MetadataOrdered` chooses between ext4/xfs behaviour
(an fsync makes all earlier metadata durable) and bare POSIX (only the named
directory). `pc` names where a session stands; a step is one system call that
changes state, or a run of reads:

| code | model |
|---|---|
| `_open_lock`, `_locked_destination`, `_recover_existing` | `OpenLock`, `Begin`, `RecoverDiscard`, `RecoverDecided`, `RecoverPending`, `RecoverNothing` |
| `_preflight` | `Preflight`, `Divergent`, `PreflightRefuses` |
| `_prepare_transaction` | `PrepareOpen` … `PrepareRenamed`, `PrepareFails` |
| `_apply_prepared_transaction` | `ApplyBegin`, `MakeDirectory`, `InstallStage`, `InstallPublish`, `InstallPublished`, `InstallVerify`, `ApplyCommit`, … |
| `_rollback_transaction` | `RollbackValidate`, `RollbackClear`, `UndoStage`, `UndoPublish`, `UndoRemove`, `UndoSynced`, `UndoDirectory`, `RollbackCommit`, `RollbackBlocked`, … |
| `_cleanup_transaction` | `Retire`, `Retired`, `DeleteBackups`, `DeleteJournal`, `DeleteDirectory` |
| an exception handler of `transactional_apply` | `ApplyFails`, `RollbackRefuses`, `Stop` |

A file's content stands for bytes, hash and mode together; `Bytes` forgets the
mode, because the code compares either in different places. Entry validation
(ownership, links, size bounds) is a refusal that changes nothing and is left out;
so are directories nested more than one level below the root.

### SecretRestore

The scripts, the helpers they run and the recovery child are processes of their
own, because a signal ends the first and not always the second. `at` is where a
script is (the shell's line and its flags together), `quiescer` and `resumer` its
quiescence helpers, `child` its `recovery_tool.py`. Of the transaction it keeps
what `RestoreTransaction` promises of it: while it is pending the credentials are
`mixed`; after a commit they are not yet `checked`. `StartInstaller` …
`InstallerStep` are the parts of `install.sh` that stop, nest and release. The
state file is per run and named by a nonce, so a later run does not see an
earlier run's record.

### CommittedFrontend

One accept thread (`acceptor`, with the snapshot of the gate that it takes at the
top of its loop), a worker per stream (`phase`, `revoked`, `wake`, `pending`,
`watching`), one caller at a time under the transition lock (`op`), and
`qualification_disarm`, which takes no lock (`disarm`). A step is what a thread
does under one lock or between two:

| code | model |
|---|---|
| `_accept_loop` | `Observe`, `Take`, `TimeOut`, `AcceptFails`, `Idle`, `Decide` (`Admit` or `Reject`) |
| `_stream_worker`, `_connect_backend` | `Attach`, `ConnectEnds`, `Discard`, `Done` |
| `_relay` | `CheckRevoked`, `Wanted`, `Woken`, `Read`, `Write`, `RelayEnds` |
| `commit_generation` | `Commit`, `Revoke`, `Wake`, `Publish`, `Observed`, `DeadlinePasses` |
| `drain`, `revoke`, `close` | `Drain`, `RevokeAll`, `Drained`; `Close`, `CloseListener`, `Closed` |
| `qualification_*` | `Arm`, `Armed`, `Quiesce`, `Quiesced`, `ReopenOpened`, `Reopen`, `Reopened`, `Disarm`, `DisarmSnapshot`, `DisarmWake` |

Every wait has a deadline that may pass at any moment (`Deadline`), with what the
code does then. Bytes are one chunk per direction; half-closed sockets are the end
of the relay; gauges and other diagnostics are left out. A relay's look at the
response hold and the write that follows are one step. Without the bytes of a SOCKS
handshake the model cannot say which control bytes pass a response hold.

History variables (`opener`, `met`, `took`, `burned`) only record; no guard reads
them.

### GenerationGate, SharedRoute

`GenerationGate` is what whoever drives the frontend relies on: a gate that is open
for one generation or shut, that is shut between two generations, and that never goes
back. `SharedRoute` adds what an epoch promises to the sessions: they join and leave,
nothing is published for nobody or by an epoch that drains, the last that leaves
drains the epoch for good, and the fence goes only with no session and no open gate.

### SessionSupervisor

One epoch of the supervisor process. A step is one critical section of `_state_lock`,
or what a thread does between two of them; `tlock` is the holder of
`_transition_lock`. The threads:

| thread | code | model |
|---|---|---|
| client | its packets, its death | `Register`, `AttachScope`, `Release`, `WrapperDies` |
| control handler | `_register`, `_ensure_generation` | `AwaitGeneration`, `FailedRegistration`, `LinearizeFailed`, `Told`, `Registered` |
| | `_attach_child` | `AttachScope`, `AttachCommit`, `AttachUndo` |
| | `_connection_lost` | `ConnectionLost` |
| generation worker | `_generation_worker_main` | `WorkerBegin`, `WorkerEnd`, `WorkerExit` |
| watchdog | `_watchdog_loop`, `_repair_active` | `DogTick` … `DogForce` |
| main | accept loop, signal handler, `_join_threads`, `finalize` | `MainLeaves`, `Signal`, `Finalize` |
| worker or watchdog | the transition over the rungs | `TransProbe`, `TransStart`, `TransPublish`, `TransCleanup` |
| any caller | `_drop_lease` | `DropLook`, `DropPop` |
| any caller | `_drain_epoch` | `DrainLock`, `DrainTake`, `DrainProve` |
| any caller | `_linearize_draining` | `Linearize` |
| watchdog, main | `_force_shutdown` | `ForceBegin`, `ForceDrain` |

`hpc`, `worker`, `dog`, `main` are where the threads are; `drop`, `drain`, `forced`
the calls they are in; `running` and `scopes` are on the host, `fence`, `providers`
and `children` on disk. A start or a stop of a provider, or a reconcile of a scope,
with its records, is one step here, which may fail: `EpochRecovery` takes them apart.
Every failure the host can produce (a scope that will not empty, a provider that will
not stop, a stream that does not end, a fence that cannot be written, a join deadline
that passes) counts towards `MaxFailures`, with the signals.

Five things the model makes visible and takes as they are, because the code is so:

* A session that comes while the watchdog ends the epoch may start a provider next to
  one that the drain could not stop, on the first rung: hence `stop` in `OneProvider`
  and `NeverClimbs`.
* When the repair of the same rung fails and leaves residue, `_repair_active`
  (supervisor.py:3716) goes on to the lower rungs: hence `residue` in `OneProvider`.
* A fence that cannot be written in `_linearize_draining` ends the watchdog thread.
* The join deadline may pass with a thread alive; `finalize` then ends the process and
  keeps the fence for the offline recovery.
* A signal that arrives while the main thread is itself inside `_force_shutdown`
  would enter it again; `Signal` leaves that out.

### EpochRecovery

What an epoch leaves behind, one durable write or one effect per step, over several
epochs. `actor` is the holder of the bootstrap and the compatibility lock, by which a
bootstrapping client, a supervisor and a recovery exclude each other; `Kill` and
`Reboot` may come between any two steps. A record's own phase tells the order of the
code, so that no program counter is needed.

| code | model |
|---|---|
| `ensure_supervisor` (client.py) | `Boot`; `BootSweep` (`_reconcile_stale_supervisor_scope`), `Launch` (`_spawn_scoped_supervisor`), `BootFails` |
| `bootstrap` | `BootRemove`, `BootClear`, behind `EffectFree`; `BootPublish` |
| `_attach_child`, the client's barrier | `Spawn`, `PutChild`, `MakeScope`, `RecordScope`, `EnterScope`, `RecordAttached`, `Release` |
| its cleanup | `BeginCleaning`, `EmptyScope`, `KillOutside`, `RemoveScope`, `DeleteChild` |
| `_transition_candidates` | `PutProvider`, `PutIntent`, `StartProvider`, `RecordApplied`, `AdvanceIntent`, `SetFence`, `OpenGate`, `GiveUp` |
| `_repair_active`, `_stop_result` | `CloseGate`, `BeginHalt`, `StopProvider`, `CleanIntent`, `CleanProvider`, `DeleteIntent`, `DeleteProvider` |
| `_linearize_draining`, `finalize` | `Drain`, `ReleaseEpoch`, `Finalize`, `OwnerExits` |
| `recover_offline` | `Recover`, the same cleanup, `RecoverEpoch`, `Recovered`; `RecoveryRefuses`; without a fence `RecoverUnfenced` |

`epoch` is the detached record of the supervisor's own scope, below which all others
are made: `launched` by a client, `owned` once the fence names its process.

A record names its scope by the path and the inode of the cgroup that the scope was
made in, and `reconcile` opens that cgroup first (`_open_parent`,
process_scope.py:362-386); if it is gone or another has its place it raises, and the
record stays. tests/test_grok_ms_process_scope.py:724-786 asserts such refusals. The model calls
these records *lost* (`scope[c] = "lost"`, `lost`, `epoch = "lost"`). Two things lose
them, each by `Uprooted`: a `Reboot`, and a bootstrap tried over a dead epoch before
its recovery, which removes the dead epoch's scope with all that is below it
(`BootSweep`), starts a supervisor, and is refused by the fence. From then on every
recovery refuses (`RecoveryRefuses`), there is no case for another boot in
`_recover_child`, and an operator has to step in: the model is `Stranded`, and
`RecoveryConverges` says that nothing but this stops the recovery.
system/grok-proxy/SPEC.md:630-634 says the same of the installer's journal; of the
supervisor's records it says nothing. Also
`Stranded` is a fence behind the record of a launch that was killed before it
published a fence of its own, as long as nobody bootstraps again, which sweeps it.

Two sequences of the code are one step: `BootSweep` removes the scope and its record;
and a scope found empty implies that its child is dead (process_scope.py:1022-1045: a
recovery that looks in between raises once, and the next one succeeds).

## 3. What the runs check

| run | instance | question |
|---|---|---|
| `restore` | two files (one in a directory the restore creates), two requests, one kill, one power loss, one edit; ordered metadata; fair | types, `AllOrNothing`, `BackupsCoverPending`, `NoResidue`, `SuccessIsDurable`, `ReplacesOnlyExpected`, `RecoveryConverges`, and that it implements `AtomicRestore` |
| `restore_posix` | three contents, one power loss, one edit; POSIX metadata | `AllOrNothing` and `SuccessIsDurable` where only the fsynced survives |
| `restore_unsynced` | one kill; POSIX metadata | finding: a decision is published over a removal that was not fsynced |
| `secret_restore` | one service, two runs, one installer; one failure, one signal, one SIGKILL | types, `NothingForgotten`, `UndisturbedResumesSettled`, `PriorSetRestored`, `Finishes` |
| `secret_restore_signal` | two services, one signal | finding on `ResumesOnlySettled` |
| `frontend` | two connections, all operations but disarm, four calls, two generations | `OneGeneration`, `AdmittedByItsGeneration`, `NothingUnderABurnedGeneration`, `ClosedMeansQuiet`, `ReopenedGateIsFresh`, and that it implements `GenerationGate` |
| `frontend_live` | one connection with bytes both ways; commit, close, arm, disarm; three calls | types and budget, `CutoverEnds`, `HeldResponseReleased` |
| `frontend_backlog` | one connection, one commit | finding: a connection made before the gate opened is admitted |
| `supervisor` | two sessions, two rungs, one repair, one failure or signal | `RouteIsOwned`, `ClearedMeansEmpty`, `EffectsAreRecorded`, `OneProvider`, `NeverClimbs`, and that it implements `SharedRoute` |
| `supervisor_live` | one session, two rungs, one repair, two failures or signals | types, `StopEnds`, `StopClears`, `RegistrationIsAnswered` |
| `supervisor_attach` | one session whose wrapper may die while its child is attached | finding: the fence is cleared over a scope |
| `epoch_recovery` | one child, two generations, two epochs, two kills or reboots | types, `EffectsAreRecorded`, `FenceCovers`, `OpenIsApplied`, `NoFalseResidue`, `RecoveryConverges` |

### Bounds, and why they are enough

* *Restore.* Two files are the least that can disagree; one needs its directory
  made and removed. One kill and one power loss cover a crash, a crash of the
  recovery, and the two in either order. The proofs lift the bounds for every safety
  property: atomicity for ordered metadata, and for unordered metadata in every
  behaviour that does not have both a kill and a power failure. Liveness is for
  TLC alone, on ordered metadata: `RecoveryConverges` meets sessions that were killed,
  power that failed and a tree that was edited. One request deletes a file whose directory another
  program may remove, so that a recovery meets a parent that is gone. `Obstructed`
  is what may then stop it: content or directories that another program changed,
  and never what the transaction itself put there. One edit suffices because a
  second edit by another program is only another value, and both requests start from
  any initial tree.
* *Secret restore.* Two runs are the least where a second meets an orphan of the
  first. One fault of each kind may come at every step, and the three may combine.
  One service is enough for the liveness that only TLC checks; that the safety holds
  for any services, half of them stopped, is proved.
* *Frontend.* Two connections can be in different places of the accept path; two
  generations and four calls allow a commit that times out, a retry, a quiesce and
  a reopen. The two connections are symmetric in the safety run, and symmetry is not
  used where liveness is checked. The proofs lift all of these bounds.
* *Supervisor.* Two sessions: one leaves or dies while the other registers, attaches
  or holds the last lease. Two rungs and one repair allow a same-rung repair, its
  failure and a demotion. One failure at any step; the liveness run has two, so that
  the cleanup of a failure may fail. The proofs lift these bounds for the safety.
* *Epoch recovery.* Two kills: of the supervisor and of the recovery that follows;
  two generations are a repair next to what a failed halt left, or one in each epoch.
  Child records do not refer to one another, so one child suffices; the proofs lift it
  all for the safety.
* `transitions`, `stops`, `losses`, `edits`, `failures`, `signals`, `kills`,
  `repairs`, `epochs` are counters of the bounds and nothing else.

Deadlock is checked for the restore, where a session can always be started.
The scripts of `SecretRestore`, a closed frontend, an epoch and the bounded epochs of
`EpochRecovery` end for good, so there it is switched off and the liveness properties
take its place.

### Fairness, and why the code justifies it

* *Restore*: weak fairness of a session that runs (it waits for nobody but the
  flock), and of starting another session while a transaction is pending: the
  documentation has the owner run `recover-transaction`. Nothing is assumed about
  faults, edits or write-back.
* *Secret restore*: weak fairness of each process. None of signals, failures or of
  a run being started.
* *Frontend*: weak fairness of the accept thread, of each worker, and of a caller's
  next step; *strong* fairness of writing a chunk, because `select()` returns every
  ready socket together, so that a wake byte cannot hide a writable one for ever, and
  because the peers are assumed to read. None of deadlines, clients or callers: a
  cutover has to end without its deadline.
* *Supervisor*: weak fairness of each thread: they are scheduled, their waits have
  deadlines or are woken by whoever changes what they wait for. None of clients,
  wrappers or signals: a session may hold its lease for ever.
* *Epoch recovery*: weak fairness of a bootstrap that has begun, of the exit of an
  epoch that is over, and of the recovery's own steps; and *strong* fairness of
  starting the recovery over a dead epoch, which the refused bootstrap tells the owner
  to do. It has to be strong because the recovery does not wait for its locks
  (`_open_recovery_lock`): it is run again until it finds them free, although other
  clients may keep taking them. None of kills: `RecoveryConverges` needs only that
  they stop.

## 4. What the runs found

Four statements of the documentation do not hold of the code; each is a run that
TLC must find violated, and an entry under `findings` in PROJECT.json.

1. `restore_unsynced`: docs/SECRETS.md says that each transition is fsynced before
   the next state can be published. A rollback killed between the `os.unlink` of a file
   that the transaction had created (restore_transaction.py:1672) and the fsync of its
   directory is finished by a recovery that finds the file absent, skips it with its
   fsync (1664), and publishes the decision. A restored file between its `os.replace`
   and its fsync is skipped likewise (1635). On a file system with ordered metadata the
   fsync of the decision covers it (`SuccessIsDurable` and the refinement hold there,
   and are proved). With bare POSIX semantics the run shows the decision published over
   the unsynced removal; a power failure after it could bring the new file back among
   old ones. That last step no run takes: `restore_posix` has a power loss but no kill,
   `restore_unsynced` a kill but no power loss. Section 5 has the proof that nothing
   less than all three (unordered metadata, kill, power loss) can break atomicity or
   recovery. By the same gap a transaction renamed to `.cleanup-` by a killed session
   may be emptied by the next one without an fsync of the state directory; but only by
   a session that was already waiting for the lock, because `_open_lock` fsyncs that
   directory before it asks for it (285).
2. `secret_restore_signal`: docs/RESTORE-SPEC.md says that no service resumes
   before an ambiguous outcome is recovered. SIGTERM or SIGHUP while the child runs
   makes the EXIT trap resume them at once. Without any signal the trap of
   `install.sh` does the same (the run with one failure instead of the signal):
   it resumes what the nested script has deliberately left stopped.
3. `frontend_backlog`: the docstring of `frontend.py` says that the kernel backlog
   does not retain pre-commit bytes for a later generation. A connection waiting in
   the backlog when `commit_generation` opens the gate is admitted. The
   qualification operations do wait for an empty backlog, and for them the property
   is checked and proved (`ReopenedGateIsFresh`).
4. `supervisor_attach`: system/grok-proxy/SPEC.md says that the whole descendant
   scope is reconciled before any empty proof can succeed. If a wrapper dies while its
   child is being attached, the watchdog's `_drop_lease` looks at the lease and finds
   no child; `_attach_child` commits the child; the watchdog pops the lease, takes
   the child for exited, deletes its record, and the epoch is proved empty and its
   fence cleared over the scope. Everything else about child scopes is checked and
   proved with `WrapperDiesAttaching = FALSE`, so that this one race does not hide
   another.

docs/SECRETS.md also says that concurrent path changes are refused rather than
overwritten. Between the last inspection and `os.replace` they are overwritten;
`ReplacesOnlyExpected` says how far the promise goes.

## 5. What is proved

All theorems hold for every value of the constants that the modules' ASSUMEs
allow. Finiteness of the sets of files and connections is assumed nowhere.

* **RestoreTransactionProofs** – what holds on any file system. `View` says for each
  `pc` what programs see: what the slot, the journal, the backups, the files already
  done and the temporaries are, and what the loops have still to do. Every step but a
  power failure keeps it (`NextView`). From it: `TypeCorrect`;
  `ReplacesExpectedAlways`, without any hypothesis; and `AtomicWithoutPowerFailure`,
  all or nothing whichever sessions are killed.
* **RestoreAtomicityProofs** – `AtomicAlways`, `BackupsAlways`, `ResidueNever`,
  `SuccessAlwaysDurable` and `RefinesAtomicRestore`, under the hypothesis
  `MetadataOrdered`, with any number of kills, power failures and edits. `View` says
  nothing of what a power failure leaves; `Durable` adds which durable state can stand
  behind which visible one (files all old or all new unless both call for a rollback,
  synced unless the visible one does; backups durable before the name that needs them).
  Where metadata is ordered any fsync makes the durable state the visible one, so that
  `SyncedOrdered` settles most steps. For the refinement, a file's abstract value is
  what recovery would leave in it; a concrete step moves no value, or all values of
  owned files at once (at the moment the decision becomes durable). `StepRefines` asks
  of the file system only `Durable`, and serves the next module too.
* **RestoreUnorderedProofs** – file systems that order no metadata. `Lags` says which
  files may be older on disk than they are seen, and that the running session still
  has them on its list: one while it applies, those that the validation found changed
  while it rolls back, none when the decision is written. `Synced` is what an fsync of
  the named directories achieves at least. A power failure takes back what lagged and
  leaves a `View` again (`PowerLossLags`). A killed session breaks `Lags`, for the next
  one does not know what to sync. `SafeUnlessKilled`: the four safety properties as
  long as no session was killed; `RefinesUnlessKilled`: the refinement if none ever is.
  `AtomicityBoundary` puts the three modules together: atomicity can fail only where
  metadata is not ordered *and* a session was killed *and* power has failed, the case
  that finding 1 leads into. It does not say that atomicity fails there.

  `RollbackNeverRefusedAlone`, within the same boundary: a rollback is refused only if
  another program has written or removed a directory since the transaction was planned.
  It is the safety half of `RecoveryConverges`, for all sizes. `Undoable` says what a
  rollback relies on (a journal under the name, contents as the validation found them,
  directories of old files still there, nothing foreign in the ones it made),
  `UndoableD` and `Anchored` that a power failure leaves it so.
* **CommittedFrontendProofs** – `FrontendTypeCorrect`: types, the stream limit
  (`Cardinality(Streams) <= MaxStreams`, by the cardinality lemmas for finite sets)
  and every relay's budget. `Sized` adds to `TypesOK` that the set of streams is
  finite.
* **FrontendCutoverProofs** – `OneGenerationAlways`,
  `AdmittedByItsGenerationAlways`, `NothingUnderABurnedGenerationAlways`,
  `ClosedMeansQuietAlways`. The invariant `Cutover` says where the three kinds of
  threads can be relative to one another: a caller waits behind a closed gate for all the
  streams there are (`Behind`); nobody was admitted under a gate that the accept
  thread has not announced (`Unseen`); its snapshot is of the present epoch or is
  refused (`Snapped`, `TakenForActive`); every stream is of the last generation
  (`OfLast`); a closing frontend admits nobody (`Shut`).

  `ReopenedGateStaysFresh`, an action property: `Emptied` says that once the accept
  thread has found the backlog empty under an epoch, whatever waits has connected
  since.

  `FrontendImplementsGate` follows from the same invariant: a gate opens only behind
  a shut one, for the generation of the call under way.
* **SecretRestoreProofs** – `SecretRestoreTypeCorrect`, `NothingEverForgotten`,
  `UndisturbedAlwaysSettled`, `PriorSetAlwaysRestored`. `Fresh` says that a run that
  has not begun has left no trace; `Remembered` where a stopped service is
  listed, which depends on how far the helper is; `Calm` what an undisturbed script
  knows at each place; `SettledOrStopped` that its services stay stopped until the
  credentials are settled and checked.
* **SessionSupervisorProofs** – `SupervisorTypeCorrect`, `RouteAlwaysOwned`,
  `AlwaysOneProvider`, `RouteNeverClimbs`, `SupervisorImplementsRoute`, and, under the
  hypothesis `~WrapperDiesAttaching`, `EffectsAlwaysRecorded` and
  `ClearedAlwaysEmpty`. Without the hypothesis, `OnlyScopesEscape`: finding 4 can cost
  child scopes and nothing else. `NothingAfterCleared`: no thread, handler or drain of
  the epoch is left to act once its fence is cleared. `DrainIsFinal` follows from the
  refinement: whatever a worker or a repair had begun, an epoch that drains takes no
  session and opens no gate. No property of the epoch is inductive, because each thread acts
  on what it saw before it let go of a lock. The invariant says of each thread what may
  still be relied on when it acts: who holds the transition lock (`Locked`), that the
  candidate of a transition is recorded, newer than all that was published and alone
  while the gate is shut (`Transit`, `Sole`), that a repair acts on the generation it
  checked (`Checked`), that a lease found childless by a dropping thread cannot get a
  child before it is popped (`Dropping`; here the hypothesis is used), that a drain
  runs only in an epoch that stops (`Forcing`, `Ending`), that the last lease drains
  the epoch (`Interested`) and that a proof of emptiness stays true (`Proved`).
* **EpochRecoveryProofs** – `RecoveryTypeCorrect`, `EffectsAlwaysRecorded`,
  `FenceAlwaysCovers`, `OpenAlwaysApplied`, `NeverFalseResidue`: `Owned` says who may
  execute at all, `Released` what is left when a supervisor has given up its own scope,
  `ChildrenInOrder` and `RoutesInOrder` which record phases can go with
  which effects, `Committed` what an open gate implies, `Covered` that records go
  before the fence.

Only model-checked: liveness (`RecoveryConverges` of both modules, `Finishes`,
`CutoverEnds`, `HeldResponseReleased`, `StopEnds`, `StopClears`,
`RegistrationIsAnswered`) – the prover has no fairness or ENABLED.

## 6. What is not modelled

* Cryptography, archive parsing, templates, leak patterns, package installation
  and read-only verification: no state that interleaves.
* systemd itself: unit enablement and boot order (units stopped for a restore are
  enabled and start at boot), the kernel's socket buffers, TCP.
* Of the supervisor: the qualification requests (pause, freeze, quiesce, disarm, a
  provider's fault), probe records, status and ip requests, the replay table that
  repeats an answer, the compatibility handoff, and the bootstrap's treatment of a
  fence that says `RECOVERING` beyond the records it refuses over.
* Of the providers: everything below start, stop, probe and recover, each a step that
  may fail or leave something behind.
* In the modelled parts: what section 2 calls abstracted, and more than one state
  directory or destination.
* The remaining components with status `not_modelled` in PROJECT.json, each with its
  reason there. Most of the repository's lines are of these kinds: installers and
  verifiers that run once from top to bottom, providers and probes, agent payload and
  the qualification harness, which is a test of the installed service. The models
  cover the code whose correctness depends on an order of steps that no test fixes.

## 7. Plan

1. **Repository generation publisher** and selector: two publishers and a killed
   one, with the durable/visible pairs of `RestoreTransaction`. Property: the
   selector, also after a power loss, names a complete generation.
2. **Manifest synchronisation**: exchange, re-check and swap back, with an editor.
3. **Schedule reconciliation** and **backup transaction**: one module each,
   small; lost updates of crontab, ref against index.
4. **Release installer**, **bootstrap publication** and the **VPN broker's** ledger:
   deny, select, roll back.
5. **Shamir escrow** as functions over a small field: any two shares give back the secret.
6. The supervisor's qualification requests, on top of `SessionSupervisor`.

The suite stays at a dozen runs, so that all of it can be run at every change. What
is settled makes room: where a theorem covers a safety property for all constants,
its run can shrink to the instance that still fires every action, and runs of the same
module can become one.
