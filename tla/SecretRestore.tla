--------------------------- MODULE SecretRestore ---------------------------
(***************************************************************************)
(* A restore of live credentials and the services that use them:           *)
(* bin/secrets-restore.sh, bin/secret-restore-quiescence.sh, and the       *)
(* quiescence of bin/install.sh around its nested restore.                 *)
(*                                                                         *)
(* A run records which services are active, stops them, lets a child       *)
(* process replace the credentials in a transaction (RestoreTransaction),  *)
(* settles and checks the outcome, and starts the recorded services again. *)
(* The script and the helpers it runs are processes of their own: a signal *)
(* or SIGKILL can end the script while its helper runs on, a helper can    *)
(* die, and another run can start behind an orphan.                        *)
(*                                                                         *)
(* Of the credentials the model keeps what decides whether a service may   *)
(* run on them: a transaction may be half applied, and what was committed  *)
(* may not have been checked yet.                                          *)
(***************************************************************************)
EXTENDS FiniteSets, Naturals

CONSTANTS
    Unit,          \* the supported systemd user services
    Run,           \* runs of bin/secrets-restore.sh
    Installer,     \* the run of bin/install.sh, if there is one
    Nobody,        \* no owner of the transaction lock
    MaxFailures,   \* bound: helpers that fail or die
    MaxSignals,    \* bound: SIGHUP or SIGTERM to a script
    MaxKills       \* bound: SIGKILL to a script

Caller == Run \cup {Installer}

ASSUME RunsAssumption == Installer \notin Run /\ Nobody \notin Caller

ASSUME LimitsAssumption ==
    MaxFailures \in Nat /\ MaxSignals \in Nat /\ MaxKills \in Nat

VARIABLES
    active,            \* the services that run
    recorded, kept,    \* what each caller's state file lists, and which files exist
    mixed,             \* a transaction was interrupted, or is being applied
    checked,           \* the credentials in place have been verified
    lock,              \* who holds the flock of the transaction directory
    at,                \* where each script is
    nested,            \* the run the installer waits for
    quiescer, toStop,  \* its quiescence helper, and what that still has to stop
    resumer, toStart,  \* its resume helper, and what that still has to start
    child,             \* its recovery_tool process
    failures, signals, kills

credentials == <<mixed, checked, lock, child>>
stopping    == <<quiescer, toStop>>
starting    == <<resumer, toStart>>
bounds      == <<failures, signals, kills>>
vars == <<active, recorded, kept, credentials, at, nested, stopping, starting, bounds>>

Places == {"idle", "quiescing", "quiesced", "restoring", "recovering",
           "checking_committed", "checking_recovered",
           "resuming_committed", "resuming_recovered", "trap",
           "ok", "failed", "dead"}
Ended     == {"ok", "failed", "dead"}
Helpers   == {"none", "inspect", "stop", "read", "start", "ok", "failed"}
Children  == {"none", "restore", "locked", "applying", "recover", "ok", "failed"}

Become(c, place) == at' = [at EXCEPT ![c] = place]

\* One helper more fails.
Fails ==
    /\ failures < MaxFailures /\ failures' = failures + 1
    /\ UNCHANGED <<signals, kills>>

-----------------------------------------------------------------------------
(* secret-restore-quiescence.sh --quiesce                                    *)

\* The active set is made durable under a new name before anything is stopped.
Record(c) ==
    /\ quiescer[c] = "inspect"
    /\ recorded' = [recorded EXCEPT ![c] = active] /\ kept' = kept \cup {c}
    /\ quiescer' = [quiescer EXCEPT ![c] = "stop"]
    /\ toStop' = [toStop EXCEPT ![c] = active]
    /\ UNCHANGED <<active, credentials, at, nested, starting, bounds>>

StopUnit(c, u) ==
    /\ quiescer[c] = "stop" /\ u \in toStop[c]
    /\ active' = active \ {u}
    /\ toStop' = [toStop EXCEPT ![c] = @ \ {u}]
    /\ UNCHANGED <<recorded, kept, credentials, at, nested, quiescer, starting, bounds>>

\* No gateway or worker process survived.
Quiesced(c) ==
    /\ quiescer[c] = "stop" /\ toStop[c] = {}
    /\ quiescer' = [quiescer EXCEPT ![c] = "ok"]
    /\ UNCHANGED <<active, recorded, kept, credentials, at, nested, toStop, starting,
                   bounds>>

\* A client is running, a unit is changing state, a stop fails, or a process
\* survives: units stopped until then stay stopped.
QuiesceFails(c) ==
    /\ quiescer[c] \in {"inspect", "stop"}
    /\ quiescer' = [quiescer EXCEPT ![c] = "failed"]
    /\ Fails
    /\ UNCHANGED <<active, recorded, kept, credentials, at, nested, toStop, starting>>

QuiesceHelper(c) ==
    Record(c) \/ (\E u \in Unit : StopUnit(c, u)) \/ Quiesced(c) \/ QuiesceFails(c)

-----------------------------------------------------------------------------
(* secret-restore-quiescence.sh --resume                                     *)

\* Mutant: the state file goes before the services are back.
ReadAndRemoveRecord(c) ==
    /\ resumer[c] = "read"
    /\ kept' = kept \ {c}
    /\ resumer' = [resumer EXCEPT ![c] = "start"]
    /\ toStart' = [toStart EXCEPT ![c] = recorded[c]]
    /\ UNCHANGED <<active, recorded, credentials, at, nested, stopping, bounds>>

\* Without a state file there is nothing to resume.
ReadRecord(c) ==
    /\ resumer[c] = "read"
    /\ IF c \in kept
         THEN /\ resumer' = [resumer EXCEPT ![c] = "start"]
              /\ toStart' = [toStart EXCEPT ![c] = recorded[c]]
         ELSE resumer' = [resumer EXCEPT ![c] = "ok"] /\ UNCHANGED toStart
    /\ UNCHANGED <<active, recorded, kept, credentials, at, nested, stopping, bounds>>

StartUnit(c, u) ==
    /\ resumer[c] = "start" /\ u \in toStart[c]
    /\ active' = active \cup {u}
    /\ toStart' = [toStart EXCEPT ![c] = @ \ {u}]
    /\ UNCHANGED <<recorded, kept, credentials, at, nested, stopping, resumer, bounds>>

\* Mutant: the record is removed although services are still to be started.
RemoveRecordEarly(c) ==
    /\ resumer[c] = "start"
    /\ kept' = kept \ {c}
    /\ resumer' = [resumer EXCEPT ![c] = "ok"]
    /\ UNCHANGED <<active, recorded, credentials, at, nested, stopping, toStart, bounds>>

RemoveRecord(c) ==
    /\ resumer[c] = "start" /\ toStart[c] = {} /\ c \in kept
    /\ kept' = kept \ {c}
    /\ resumer' = [resumer EXCEPT ![c] = "ok"]
    /\ UNCHANGED <<active, recorded, credentials, at, nested, stopping, toStart, bounds>>

ResumeFails(c) ==
    /\ resumer[c] \in {"read", "start"}
    /\ resumer' = [resumer EXCEPT ![c] = "failed"]
    /\ Fails
    /\ UNCHANGED <<active, recorded, kept, credentials, at, nested, stopping, toStart>>

ResumeHelper(c) ==
    \/ ReadRecord(c) \/ RemoveRecord(c) \/ ResumeFails(c)
    \/ \E u \in Unit : StartUnit(c, u)

-----------------------------------------------------------------------------
(* recovery_tool.py restore and recover-transaction: what RestoreTransaction *)
(* says of them, as far as the services are concerned.                       *)

Exit(r, status) ==
    /\ child' = [child EXCEPT ![r] = status]
    /\ lock' = IF lock = r THEN Nobody ELSE lock

\* The child takes the lock and rolls back what an earlier one left.
ChildLocks(r) ==
    /\ child[r] \in {"restore", "recover"} /\ lock = Nobody
    /\ mixed' = FALSE
    /\ IF child[r] = "restore"
         THEN child' = [child EXCEPT ![r] = "locked"] /\ lock' = r
         ELSE Exit(r, "ok")
    /\ UNCHANGED <<active, recorded, kept, checked, at, nested, stopping, starting,
                   bounds>>

ChildApplies(r) ==
    /\ child[r] = "locked"
    /\ mixed' = TRUE /\ child' = [child EXCEPT ![r] = "applying"]
    /\ UNCHANGED <<active, recorded, kept, checked, lock, at, nested, stopping,
                   starting, bounds>>

\* New credentials are in place, not yet checked by anybody.
ChildCommits(r) ==
    /\ child[r] = "applying"
    /\ mixed' = FALSE /\ checked' = FALSE
    /\ Exit(r, "ok")
    /\ UNCHANGED <<active, recorded, kept, at, nested, stopping, starting, bounds>>

\* It rolls back and reports failure, or reports one although it has committed.
ChildFails(r) ==
    /\ child[r] \in {"locked", "applying"}
    /\ mixed' = FALSE
    /\ checked' \in IF child[r] = "applying" THEN {checked, FALSE} ELSE {checked}
    /\ Exit(r, "failed") /\ Fails
    /\ UNCHANGED <<active, recorded, kept, at, nested, stopping, starting>>

\* Mutant: a lock file, which nobody removes when its owner dies.
ChildDiesLocked(r) ==
    /\ child[r] \in {"restore", "recover", "locked", "applying"}
    /\ child' = [child EXCEPT ![r] = "failed"] /\ Fails
    /\ UNCHANGED <<active, recorded, kept, mixed, checked, lock, at, nested,
                   stopping, starting>>

\* It dies, or recovery refuses what it finds: nothing is rolled back.
ChildDies(r) ==
    /\ child[r] \in {"restore", "recover", "locked", "applying"}
    /\ Exit(r, "failed") /\ Fails
    /\ UNCHANGED <<active, recorded, kept, mixed, checked, at, nested, stopping,
                   starting>>

Child(r) ==
    ChildLocks(r) \/ ChildApplies(r) \/ ChildCommits(r) \/ ChildFails(r) \/ ChildDies(r)

-----------------------------------------------------------------------------
(* secrets-restore.sh                                                        *)

Running(c) == at[c] \notin Ended \cup {"idle"}

\* Each run has a state file of its own, whatever earlier ones left. The
\* installer waits for the run it starts; other runs start one at a time.
StartRun(r) ==
    /\ at[r] = "idle" /\ \A q \in Run : ~Running(q)
    /\ \/ ~Running(Installer) /\ Become(r, "quiescing") /\ UNCHANGED nested
       \/ /\ at[Installer] = "quiesced" /\ nested' = r
          /\ at' = [at EXCEPT ![r] = "quiescing", ![Installer] = "restoring"]
    /\ quiescer' = [quiescer EXCEPT ![r] = "inspect"]
    /\ UNCHANGED <<active, recorded, kept, credentials, toStop, starting, bounds>>

Resume(c, place) ==
    /\ Become(c, place)
    /\ resumer' = [resumer EXCEPT ![c] = "read"]

RunChild(r, kind, place) ==
    /\ Become(r, place)
    /\ child' = [child EXCEPT ![r] = kind]

\* The services are stopped: replace the credentials. A quiescence that failed
\* goes through the EXIT trap, which resumes them.
AfterQuiescence(r) ==
    /\ at[r] = "quiescing"
    /\ \/ /\ quiescer[r] = "ok" /\ RunChild(r, "restore", "restoring")
          /\ UNCHANGED resumer
       \/ /\ quiescer[r] = "failed" /\ Resume(r, "trap")
          /\ UNCHANGED child
    /\ UNCHANGED <<active, recorded, kept, mixed, checked, lock, nested, stopping,
                   toStart, bounds>>

\* Mutant: a failed restore is taken to have changed nothing.
AfterRestoreTrusting(r) ==
    /\ at[r] = "restoring"
    /\ \/ child[r] = "ok" /\ Become(r, "checking_committed") /\ UNCHANGED resumer
       \/ child[r] = "failed" /\ Resume(r, "resuming_recovered")
    /\ UNCHANGED <<active, recorded, kept, credentials, nested, stopping, toStart,
                   bounds>>

\* A nonzero exit cannot prove on which side of the commit it happened.
AfterRestore(r) ==
    /\ at[r] = "restoring"
    /\ \/ child[r] = "ok" /\ Become(r, "checking_committed") /\ UNCHANGED child
       \/ child[r] = "failed" /\ RunChild(r, "recover", "recovering")
    /\ UNCHANGED <<active, recorded, kept, mixed, checked, lock, nested, stopping,
                   starting, bounds>>

\* The services stay stopped if the outcome cannot be recovered.
AfterRecovery(r) ==
    /\ at[r] = "recovering"
    /\ \/ child[r] = "ok" /\ Become(r, "checking_recovered")
       \/ child[r] = "failed" /\ Become(r, "failed")
    /\ UNCHANGED <<active, recorded, kept, credentials, nested, stopping, starting,
                   bounds>>

\* materialize-openclaw-runtime.sh and verify-skill-credentials.py
Check(r) ==
    /\ \/ at[r] = "checking_committed" /\ Resume(r, "resuming_committed")
       \/ at[r] = "checking_recovered" /\ Resume(r, "resuming_recovered")
    /\ checked' = TRUE
    /\ UNCHANGED <<active, recorded, kept, mixed, lock, child, nested, stopping,
                   toStart, bounds>>

CheckFails(r) ==
    /\ at[r] \in {"checking_committed", "checking_recovered"}
    /\ Become(r, "failed") /\ Fails
    /\ UNCHANGED <<active, recorded, kept, credentials, nested, stopping, starting>>

\* Only a restore that committed, was checked and resumed is a success.
AfterResume(c) ==
    /\ \/ /\ at[c] = "resuming_committed" /\ resumer[c] = "ok"
          /\ Become(c, "ok")
       \/ /\ at[c] \in {"resuming_recovered", "trap"} /\ resumer[c] = "ok"
          /\ Become(c, "failed")
       \/ /\ at[c] \in {"resuming_committed", "resuming_recovered", "trap"}
          /\ resumer[c] = "failed"
          /\ Become(c, "failed")
    /\ UNCHANGED <<active, recorded, kept, credentials, nested, stopping, starting,
                   bounds>>

RunStep(r) ==
    \/ AfterQuiescence(r) \/ AfterRestore(r) \/ AfterRecovery(r)
    \/ Check(r) \/ CheckFails(r) \/ AfterResume(r)

-----------------------------------------------------------------------------
(* install.sh: its own quiescence, the nested restore of phase 8b, and the   *)
(* release of the recorded services, in line or by the EXIT trap.            *)

StartInstaller ==
    /\ at[Installer] = "idle" /\ \A r \in Run : ~Running(r)
    /\ Become(Installer, "quiescing")
    /\ quiescer' = [quiescer EXCEPT ![Installer] = "inspect"]
    /\ UNCHANGED <<active, recorded, kept, credentials, nested, toStop, starting, bounds>>

\* Until the quiescence has succeeded the EXIT trap has nothing to release.
InstallerQuiesced ==
    /\ at[Installer] = "quiescing"
    /\ \/ quiescer[Installer] = "ok" /\ Become(Installer, "quiesced")
       \/ quiescer[Installer] = "failed" /\ Become(Installer, "failed")
    /\ UNCHANGED <<active, recorded, kept, credentials, nested, stopping, starting,
                   bounds>>

\* Some other step of phases 7 and 8 fails.
InstallerFails ==
    /\ at[Installer] = "quiesced" /\ Resume(Installer, "trap") /\ Fails
    /\ UNCHANGED <<active, recorded, kept, credentials, nested, stopping, toStart>>

\* The nested run ended: go on to the release, or leave through the trap.
InstallerRestored ==
    /\ at[Installer] = "restoring" /\ at[nested] \in Ended
    /\ Resume(Installer, IF at[nested] = "ok" THEN "resuming_committed" ELSE "trap")
    /\ UNCHANGED <<active, recorded, kept, credentials, nested, stopping, toStart,
                   bounds>>

InstallerStep ==
    InstallerQuiesced \/ InstallerFails \/ InstallerRestored \/ AfterResume(Installer)

-----------------------------------------------------------------------------
(* Signals                                                                   *)

\* The EXIT trap resumes the recorded services: secrets-restore.sh while
\* PRECOMMIT_RESUME is 1, install.sh once its writers are quiesced.
TrapResumes(c) ==
    at[c] \in IF c = Installer THEN {"quiesced", "restoring", "resuming_committed"}
                              ELSE {"quiescing", "restoring"}

\* SIGTERM or SIGHUP ends a script, which runs its EXIT trap at once. The helper
\* it was waiting for dies of the same signal, or did not get it and runs on.
Signal(c) ==
    /\ Running(c) /\ signals < MaxSignals
    /\ IF TrapResumes(c) THEN Resume(c, "trap")
                         ELSE Become(c, "failed") /\ UNCHANGED resumer
    /\ \/ UNCHANGED <<quiescer, child, lock>>
       \/ /\ at[c] = "quiescing" /\ quiescer[c] \in {"inspect", "stop"}
          /\ quiescer' = [quiescer EXCEPT ![c] = "failed"]
          /\ UNCHANGED <<child, lock>>
       \/ /\ at[c] \in {"restoring", "recovering"} /\ c \in Run
          /\ child[c] \notin {"ok", "failed"}
          /\ Exit(c, "failed") /\ UNCHANGED quiescer
    /\ signals' = signals + 1
    /\ UNCHANGED <<active, recorded, kept, mixed, checked, nested, toStop, toStart,
                   failures, kills>>

\* SIGKILL: no trap runs, and a helper the script was waiting for runs on.
Kill(c) ==
    /\ Running(c) /\ kills < MaxKills
    /\ Become(c, "dead")
    /\ kills' = kills + 1
    /\ UNCHANGED <<active, recorded, kept, credentials, nested, stopping, starting,
                   failures, signals>>

-----------------------------------------------------------------------------
Init ==
    /\ active \in SUBSET Unit
    /\ recorded = [c \in Caller |-> {}] /\ kept = {}
    /\ mixed = FALSE /\ checked = TRUE /\ lock = Nobody
    /\ child = [r \in Run |-> "none"]
    /\ at = [c \in Caller |-> "idle"] /\ nested = Nobody
    /\ quiescer = [c \in Caller |-> "none"] /\ toStop = [c \in Caller |-> {}]
    /\ resumer = [c \in Caller |-> "none"] /\ toStart = [c \in Caller |-> {}]
    /\ failures = 0 /\ signals = 0 /\ kills = 0

Helper(c) == QuiesceHelper(c) \/ ResumeHelper(c)

Next ==
    \/ StartInstaller \/ InstallerStep
    \/ \E r \in Run : StartRun(r) \/ RunStep(r) \/ Child(r)
    \/ \E c \in Caller : Helper(c) \/ Signal(c) \/ Kill(c)

Spec == Init /\ [][Next]_vars

\* Every process that can take a step eventually does.
Fairness ==
    /\ WF_vars(InstallerStep)
    /\ \A r \in Run : WF_vars(RunStep(r)) /\ WF_vars(Child(r))
    /\ \A c \in Caller : WF_vars(QuiesceHelper(c)) /\ WF_vars(ResumeHelper(c))

FairSpec == Spec /\ Fairness

-----------------------------------------------------------------------------
(* Properties *)

\* Every variable stays within its type, and only a living child holds the lock.
TypeOK ==
    /\ active \subseteq Unit
    /\ recorded \in [Caller -> SUBSET Unit] /\ kept \subseteq Caller
    /\ mixed \in BOOLEAN /\ checked \in BOOLEAN /\ lock \in Run \cup {Nobody}
    /\ at \in [Caller -> Places] /\ nested \in Run \cup {Nobody}
    /\ quiescer \in [Caller -> Helpers] /\ toStop \in [Caller -> SUBSET Unit]
    /\ resumer \in [Caller -> Helpers] /\ toStart \in [Caller -> SUBSET Unit]
    /\ child \in [Run -> Children]
    /\ lock \in Run => child[lock] \in {"locked", "applying"}
    /\ failures \in 0..MaxFailures /\ signals \in 0..MaxSignals /\ kills \in 0..MaxKills

\* A service may run on the credentials in place.
Settled == ~mixed /\ checked

\* The docs' claim for every live restore: no recorded service resumes until an
\* ambiguous outcome has been recovered and the credentials revalidated.
ResumesOnlySettled ==
    [][ ~(active' \subseteq active) => Settled ]_vars

Undisturbed == signals = 0 /\ kills = 0

\* The same for a restore of its own, outside an installation, that no signal or
\* SIGKILL interrupts: whatever fails or dies below the script, it holds.
UndisturbedResumesSettled ==
    [][ /\ ~(active' \subseteq active)
        /\ Undisturbed /\ at[Installer] = "idle"
        => Settled ]_vars

\* A service that a run has stopped runs again or is listed in a state file, also
\* after scripts were killed, unless a signal let the EXIT trap overtake a helper.
NothingForgotten ==
    signals = 0 =>
        \A c \in Caller : \A u \in recorded[c] \ active :
            \E d \in kept : u \in recorded[d]

\* A run that ends well leaves exactly the services running it found running,
\* the installer's nested run included, which finds none.
PriorSetRestored ==
    [][ \A c \in Caller :
          at'[c] = "ok" /\ at[c] # "ok" /\ Undisturbed => active = recorded[c] ]_vars

\* No run waits forever, not even for the lock of a child whose own script was
\* killed, and neither does the installer wait forever for its nested run.
Finishes ==
    /\ \A r \in Run : at[r] = "quiescing" ~> at[r] \in Ended
    /\ at[Installer] = "restoring" ~> at[Installer] \in Ended
=============================================================================
