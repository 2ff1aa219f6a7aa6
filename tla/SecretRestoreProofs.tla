------------------------- MODULE SecretRestoreProofs -------------------------
(***************************************************************************)
(* What SecretRestore promises of the services and of the credentials, for *)
(* any services, any runs, and any number of failures, signals and kills:  *)
(* its types, that no stopped service is forgotten, that an undisturbed    *)
(* run puts back exactly what it found, and that it starts nothing on      *)
(* credentials that are not settled.                                       *)
(*                                                                         *)
(* The invariant has four parts: Fresh, for the lock; Remembered, by which *)
(* a stopped service is always owed by a state file whose resumption has   *)
(* it still to start; Calm, by which the scripts take turns and each knows *)
(* how far the services are stopped; and SettledOrStopped.                 *)
(***************************************************************************)
EXTENDS SecretRestore, TLAPS

USE DEF credentials, stopping, starting, bounds, vars, Caller

-----------------------------------------------------------------------------
(* The parts of the inductive invariant.                                   *)

\* A run has no child before its services are stopped.
Fresh == \A r \in Run : at[r] \in {"idle", "quiescing"} => child[r] = "none"

\* A script and its helpers, as long as no signal let the trap overtake them.
InStep(c) ==
    /\ quiescer[c] \in {"none", "inspect", "stop"} => resumer[c] = "none"
    /\ quiescer[c] \in {"none", "inspect"} => recorded[c] = {} /\ c \notin kept
    /\ quiescer[c] = "stop" => c \in kept /\ toStop[c] \subseteq recorded[c]
    /\ at[c] = "idle" => quiescer[c] = "none"
    /\ at[c] = "quiescing" => resumer[c] = "none"
    /\ at[c] \notin {"idle", "quiescing", "dead"} => quiescer[c] \in {"ok", "failed"}

\* A state file that still says of a service that it has to be started.
Owed(u) == \E d \in kept : u \in recorded[d] /\ (resumer[d] = "start" => u \in toStart[d])

\* Without signals the helpers keep in step, and a stopped service is owed.
Remembered ==
    signals = 0 => \A c \in Caller : InStep(c) /\ \A u \in recorded[c] \ active : Owed(u)

\* Nothing works for a script but what the script waits for.
AtWork(c) ==
    /\ quiescer[c] \in {"inspect", "stop"} => at[c] = "quiescing"
    /\ resumer[c] \in {"read", "start"} =>
         at[c] \in {"resuming_committed", "resuming_recovered", "trap"}
    /\ c \in Run /\ child[c] \in {"restore", "locked", "applying", "recover"} =>
         at[c] \in {"restoring", "recovering"}
    /\ resumer[c] = "start" => toStart[c] \subseteq recorded[c]

Between == {"quiesced", "restoring", "recovering", "checking_committed", "checking_recovered"}

\* How far the services are stopped, and started again.
Emptied(c) ==
    /\ quiescer[c] = "stop" => active \subseteq toStop[c]
    /\ at[c] = "quiescing" /\ quiescer[c] = "ok" => active = {} /\ c \in kept
    /\ at[c] \in Between => active = {} /\ c \in kept
    /\ at[c] = "resuming_committed" =>
         /\ resumer[c] = "read" => active = {} /\ c \in kept
         /\ resumer[c] = "start" => active = recorded[c] \ toStart[c]
         /\ resumer[c] = "ok" => active = recorded[c]

\* One script at a time, but for the run that the installer waits for, which
\* finds no service to stop.
Alone ==
    /\ \A r, q \in Run : Running(r) /\ Running(q) => r = q
    /\ \A r \in Run : Running(r) /\ Running(Installer) => at[Installer] = "restoring" /\ nested = r
    /\ at[Installer] = "restoring" => nested \in Run /\ recorded[nested] = {}

Calm ==
    Undisturbed => /\ Alone
                   /\ \A c \in Caller : AtWork(c) /\ (Running(c) => Emptied(c))

\* No service runs on credentials that are not settled.
SettledOrStopped ==
    Undisturbed /\ at[Installer] = "idle" =>
        /\ ~Settled => active = {}
        /\ \A r \in Run :
             /\ at[r] \in {"resuming_committed", "resuming_recovered"} => Settled
             /\ at[r] \in {"quiescing", "trap"} /\ ~Settled => recorded[r] = {}
             /\ at[r] \in {"restoring", "recovering"} /\ child[r] = "ok" => ~mixed
             /\ at[r] \in {"checking_committed", "checking_recovered"} => ~mixed

IInv == TypeOK /\ Fresh /\ Remembered /\ Calm /\ SettledOrStopped

-----------------------------------------------------------------------------
(* Types.                                                                  *)

LEMMA StepCases ==
  ASSUME [Next]_vars
  PROVE  \/ StartInstaller \/ InstallerQuiesced \/ InstallerFails \/ InstallerRestored
         \/ \E r \in Run : \/ StartRun(r) \/ AfterQuiescence(r) \/ AfterRestore(r)
                           \/ AfterRecovery(r) \/ Check(r) \/ CheckFails(r) \/ Child(r)
         \/ \E c \in Caller : QuiesceHelper(c) \/ ResumeHelper(c) \/ AfterResume(c) \/ Signal(c) \/ Kill(c)
         \/ UNCHANGED vars
  BY DEF Next, InstallerStep, RunStep, Helper

\* A failure more is still within its bound.
LEMMA FailsTyped ==
  ASSUME TypeOK, Fails
  PROVE  failures' \in 0..MaxFailures /\ UNCHANGED <<signals, kills>>
  BY LimitsAssumption DEF TypeOK, Fails

LEMMA QuiesceTypes ==
  ASSUME TypeOK, NEW c \in Caller, QuiesceHelper(c)
  PROVE  TypeOK'
<1>1. CASE Record(c)
  BY <1>1 DEF Record, TypeOK, Helpers
<1>2. CASE \E u \in Unit : StopUnit(c, u)
  BY <1>2 DEF StopUnit, TypeOK
<1>3. CASE Quiesced(c)
  BY <1>3 DEF Quiesced, TypeOK, Helpers
<1>4. CASE QuiesceFails(c)
  BY <1>4, FailsTyped DEF QuiesceFails, TypeOK, Helpers
<1> QED
  BY <1>1, <1>2, <1>3, <1>4 DEF QuiesceHelper

LEMMA ResumeTypes ==
  ASSUME TypeOK, NEW c \in Caller, ResumeHelper(c)
  PROVE  TypeOK'
<1>1. CASE ReadRecord(c)
  BY <1>1 DEF ReadRecord, TypeOK, Helpers
<1>2. CASE \E u \in Unit : StartUnit(c, u)
  BY <1>2 DEF StartUnit, TypeOK
<1>3. CASE RemoveRecord(c)
  BY <1>3 DEF RemoveRecord, TypeOK, Helpers
<1>4. CASE ResumeFails(c)
  BY <1>4, FailsTyped DEF ResumeFails, TypeOK, Helpers
<1> QED
  BY <1>1, <1>2, <1>3, <1>4 DEF ResumeHelper

\* A child that exits gives the lock back.
LEMMA ExitTyped ==
  ASSUME TypeOK, NEW r \in Run, NEW status \in Children, Exit(r, status)
  PROVE  /\ child' \in [Run -> Children] /\ lock' \in Run \cup {Nobody}
         /\ lock' \in Run => child'[lock'] \in {"locked", "applying"}
  BY RunsAssumption DEF Exit, TypeOK

LEMMA ChildTypes ==
  ASSUME TypeOK, NEW r \in Run, Child(r)
  PROVE  TypeOK'
<1>1. CASE ChildLocks(r)
  <2>1. CASE child[r] = "restore"
    BY <1>1, <2>1 DEF ChildLocks, TypeOK, Children
  <2>2. CASE child[r] # "restore"
    <3>1. Exit(r, "ok")
      BY <1>1, <2>2 DEF ChildLocks
    <3> QED
      BY <1>1, <3>1, ExitTyped DEF ChildLocks, TypeOK, Children
  <2> QED
    BY <2>1, <2>2
<1>2. CASE ChildApplies(r)
  BY <1>2 DEF ChildApplies, TypeOK, Children
<1>3. CASE ChildCommits(r)
  BY <1>3, ExitTyped DEF ChildCommits, TypeOK, Children
<1>4. CASE ChildFails(r) \/ ChildDies(r)
  <2>1. Exit(r, "failed") /\ Fails /\ mixed' \in BOOLEAN /\ checked' \in BOOLEAN
    BY <1>4 DEF ChildFails, ChildDies, TypeOK
  <2>2. UNCHANGED <<active, recorded, kept, at, nested, stopping, starting>>
    BY <1>4 DEF ChildFails, ChildDies
  <2> QED
    BY <2>1, <2>2, ExitTyped, FailsTyped DEF TypeOK, Children
<1> QED
  BY <1>1, <1>2, <1>3, <1>4 DEF Child

\* A script moves to a place of its own.
LEMMA PlaceTyped ==
  ASSUME TypeOK, NEW c \in Caller, NEW place \in Places, Become(c, place)
  PROVE  at' \in [Caller -> Places]
  BY DEF TypeOK, Become

LEMMA ScriptTypes ==
  ASSUME TypeOK, Fresh, NEW r \in Run, NEW c \in Caller,
         \/ AfterQuiescence(r) \/ AfterRestore(r) \/ AfterRecovery(r) \/ Check(r)
         \/ CheckFails(r) \/ AfterResume(c)
  PROVE  TypeOK'
<1>1. CASE AfterQuiescence(r)
  <2>1. lock # r
    BY <1>1 DEF AfterQuiescence, Fresh, TypeOK
  <2> QED
    BY <1>1, <2>1 DEF AfterQuiescence, RunChild, Resume, Become, TypeOK, Places, Helpers, Children
<1>2. CASE AfterRestore(r)
  <2>1. child'[lock] \in {"locked", "applying"} \/ lock \notin Run
    BY <1>2 DEF AfterRestore, RunChild, TypeOK
  <2> QED
    BY <1>2, <2>1 DEF AfterRestore, RunChild, Become, TypeOK, Places, Children
<1>3. CASE AfterRecovery(r)
  BY <1>3 DEF AfterRecovery, Become, TypeOK, Places
<1>4. CASE Check(r)
  BY <1>4 DEF Check, Resume, Become, TypeOK, Places, Helpers
<1>5. CASE CheckFails(r)
  BY <1>5, FailsTyped DEF CheckFails, Become, TypeOK, Places
<1>6. CASE AfterResume(c)
  BY <1>6 DEF AfterResume, Become, TypeOK, Places
<1> QED
  BY <1>1, <1>2, <1>3, <1>4, <1>5, <1>6

LEMMA InstallerTypes ==
  ASSUME TypeOK, StartInstaller \/ InstallerQuiesced \/ InstallerFails \/ InstallerRestored
  PROVE  TypeOK'
<1>1. CASE StartInstaller
  BY <1>1 DEF StartInstaller, Become, TypeOK, Places, Helpers
<1>2. CASE InstallerQuiesced
  BY <1>2 DEF InstallerQuiesced, Become, TypeOK, Places
<1>3. CASE InstallerFails
  BY <1>3, FailsTyped DEF InstallerFails, Resume, Become, TypeOK, Places, Helpers
<1>4. CASE InstallerRestored
  BY <1>4 DEF InstallerRestored, Resume, Become, TypeOK, Places, Helpers
<1> QED
  BY <1>1, <1>2, <1>3, <1>4

LEMMA StartRunTypes ==
  ASSUME TypeOK, NEW r \in Run, StartRun(r)
  PROVE  TypeOK'
<1>1. at' \in [Caller -> Places] /\ nested' \in Run \cup {Nobody}
  BY DEF StartRun, Become, TypeOK, Places
<1>2. quiescer' \in [Caller -> Helpers]
  BY DEF StartRun, TypeOK, Helpers
<1> QED
  BY <1>1, <1>2 DEF StartRun, TypeOK

LEMMA SignalTypes ==
  ASSUME TypeOK, NEW c \in Caller, Signal(c) \/ Kill(c)
  PROVE  TypeOK'
<1>1. CASE Kill(c)
  <2>1. kills' \in 0..MaxKills
    BY <1>1, LimitsAssumption DEF Kill, TypeOK
  <2> QED
    BY <1>1, <2>1 DEF Kill, Become, TypeOK, Places
<1>2. CASE Signal(c)
  <2>1. signals' \in 0..MaxSignals
    BY <1>2, LimitsAssumption DEF Signal, TypeOK
  <2>2. at' \in [Caller -> Places] /\ resumer' \in [Caller -> Helpers]
    BY <1>2 DEF Signal, Resume, Become, TypeOK, Places, Helpers
  <2>3. quiescer' \in [Caller -> Helpers]
    BY <1>2 DEF Signal, TypeOK, Helpers
  <2>4. UNCHANGED <<child, lock>> \/ (c \in Run /\ Exit(c, "failed"))
    BY <1>2 DEF Signal
  <2>5. /\ child' \in [Run -> Children] /\ lock' \in Run \cup {Nobody}
        /\ lock' \in Run => child'[lock'] \in {"locked", "applying"}
    BY <2>4, ExitTyped DEF TypeOK, Children
  <2> QED
    BY <1>2, <2>1, <2>2, <2>3, <2>5 DEF Signal, TypeOK
<1> QED
  BY <1>1, <1>2

LEMMA NextTypes == TypeOK /\ Fresh /\ [Next]_vars => TypeOK'
<1> SUFFICES ASSUME TypeOK, Fresh, [Next]_vars PROVE TypeOK'
  OBVIOUS
<1>1. CASE StartInstaller \/ InstallerQuiesced \/ InstallerFails \/ InstallerRestored
  BY <1>1, InstallerTypes
<1>2. ASSUME NEW r \in Run, StartRun(r) \/ Child(r) PROVE TypeOK'
  BY <1>2, StartRunTypes, ChildTypes
<1>3. ASSUME NEW r \in Run,
             \/ AfterQuiescence(r) \/ AfterRestore(r) \/ AfterRecovery(r) \/ Check(r)
             \/ CheckFails(r)
      PROVE  TypeOK'
  BY <1>3, ScriptTypes
<1>4. ASSUME NEW c \in Caller, QuiesceHelper(c) \/ ResumeHelper(c) \/ Signal(c) \/ Kill(c)
      PROVE  TypeOK'
  BY <1>4, QuiesceTypes, ResumeTypes, SignalTypes
<1>5. ASSUME NEW c \in Caller, AfterResume(c) PROVE TypeOK'
  BY <1>5 DEF AfterResume, Become, TypeOK, Places
<1>6. CASE UNCHANGED vars
  BY <1>6 DEF TypeOK
<1> QED
  BY <1>1, <1>2, <1>3, <1>4, <1>5, <1>6, StepCases

LEMMA NextFresh == TypeOK /\ Fresh /\ [Next]_vars => Fresh'
<1> SUFFICES ASSUME TypeOK, Fresh, [Next]_vars, NEW q \in Run,
                    at'[q] \in {"idle", "quiescing"}
             PROVE  child'[q] = "none"
  BY DEF Fresh
<1>1. at[q] \in {"idle", "quiescing"} => child[q] = "none"
  BY DEF Fresh
<1>2. CASE at' = at /\ child' = child
  BY <1>1, <1>2
<1>3. CASE StartInstaller \/ InstallerQuiesced \/ InstallerFails \/ InstallerRestored
  BY <1>1, <1>3, RunsAssumption DEF StartInstaller, InstallerQuiesced, InstallerFails,
     InstallerRestored, Resume, Become, TypeOK
<1>4. ASSUME NEW r \in Run, StartRun(r) PROVE child'[q] = "none"
  <2>1. q # r => at'[q] = at[q]
    BY <1>4, RunsAssumption DEF StartRun, Become, TypeOK
  <2> QED
    BY <1>1, <1>4, <2>1 DEF StartRun
<1>5. ASSUME NEW r \in Run, Child(r) PROVE child'[q] = "none"
  <2>1. at' = at /\ child[r] # "none"
    BY <1>5 DEF Child, ChildLocks, ChildApplies, ChildCommits, ChildFails, ChildDies
  <2>2. q # r
    BY <1>1, <2>1
  <2> QED
    BY <1>1, <1>5, <2>1, <2>2 DEF Child, ChildLocks, ChildApplies, ChildCommits, ChildFails,
      ChildDies, Exit, TypeOK
<1>6. ASSUME NEW r \in Run,
             \/ AfterQuiescence(r) \/ AfterRestore(r) \/ AfterRecovery(r) \/ Check(r)
             \/ CheckFails(r)
      PROVE  child'[q] = "none"
  BY <1>1, <1>6 DEF AfterQuiescence, AfterRestore, AfterRecovery, Check, CheckFails, RunChild,
     Resume, Become, TypeOK
<1>7. ASSUME NEW c \in Caller, QuiesceHelper(c) \/ ResumeHelper(c) PROVE child'[q] = "none"
  BY <1>2, <1>7 DEF QuiesceHelper, Record, StopUnit, Quiesced, QuiesceFails, ResumeHelper,
     ReadRecord, StartUnit, RemoveRecord, ResumeFails
<1>8. ASSUME NEW c \in Caller, AfterResume(c) \/ Kill(c) PROVE child'[q] = "none"
  BY <1>1, <1>8 DEF AfterResume, Kill, Become, TypeOK
<1>9. ASSUME NEW c \in Caller, Signal(c) PROVE child'[q] = "none"
  <2>1. at'[c] \in {"trap", "failed"} /\ \A d \in Caller : d # c => at'[d] = at[d]
    BY <1>9 DEF Signal, Resume, Become, TypeOK
  <2>2. q # c => child'[q] = child[q]
    BY <1>9 DEF Signal, Exit, TypeOK
  <2> QED
    BY <1>1, <2>1, <2>2
<1>10. CASE UNCHANGED vars
  BY <1>2, <1>10
<1> QED
  BY <1>3, <1>4, <1>5, <1>6, <1>7, <1>8, <1>9, <1>10, StepCases

-----------------------------------------------------------------------------
(* Nothing is forgotten.                                                   *)

\* What is owed stays owed while no resumption gets further.
LEMMA OwedStays ==
  ASSUME UNCHANGED <<recorded, kept, toStart>>,
         \A d \in Caller : resumer'[d] = "start" => resumer[d] = "start",
         TypeOK, NEW u, Owed(u)
  PROVE  Owed(u)'
  BY DEF Owed, TypeOK

LEMMA QuiesceRemembers ==
  ASSUME TypeOK, Remembered, signals = 0, NEW c \in Caller, QuiesceHelper(c)
  PROVE  \A d \in Caller : InStep(d)' /\ \A u \in recorded'[d] \ active' : Owed(u)'
<1> SUFFICES ASSUME NEW d \in Caller
             PROVE  InStep(d)' /\ \A u \in recorded'[d] \ active' : Owed(u)'
  OBVIOUS
<1>1. InStep(c) /\ InStep(d) /\ \A e \in Caller : \A u \in recorded[e] \ active : Owed(u)
  BY DEF Remembered
<1>2. CASE Record(c)
  <2>1. InStep(d)'
    BY <1>1, <1>2 DEF Record, InStep, TypeOK
  <2>2. c \notin kept /\ kept' = kept \cup {c} /\ active' = active
    BY <1>1, <1>2 DEF Record, InStep
  <2>3. recorded'[c] = active /\ \A e \in Caller : e # c => recorded'[e] = recorded[e]
    BY <1>2 DEF Record, TypeOK
  <2>4. ASSUME NEW u \in recorded'[d] \ active' PROVE Owed(u)'
    <3>1. u \in recorded[d] \ active
      BY <2>2, <2>3, <2>4
    <3>2. PICK e \in kept : u \in recorded[e] /\ (resumer[e] = "start" => u \in toStart[e])
      BY <1>1, <3>1 DEF Owed
    <3>3. e # c /\ e \in Caller /\ e \in kept'
      BY <2>2, <3>2 DEF TypeOK
    <3> QED
      BY <1>2, <2>3, <3>2, <3>3 DEF Record, Owed
  <2> QED
    BY <2>1, <2>4
<1>3. ASSUME NEW v \in Unit, StopUnit(c, v)
      PROVE  InStep(d)' /\ \A u \in recorded'[d] \ active' : Owed(u)'
  <2>1. InStep(d)'
    BY <1>1, <1>3 DEF StopUnit, InStep, TypeOK
  <2>2. UNCHANGED <<recorded, kept, resumer, toStart>> /\ active' = active \ {v}
    BY <1>3 DEF StopUnit
  <2>3. Owed(v)
    BY <1>1, <1>3 DEF StopUnit, InStep, Owed
  <2>4. ASSUME NEW u \in recorded'[d] \ active' PROVE Owed(u)'
    <3>1. u \in recorded[d] \ active \/ u = v
      BY <2>2, <2>4
    <3> QED
      BY <1>1, <2>2, <2>3, <3>1 DEF Owed
  <2> QED
    BY <2>1, <2>4
<1>4. CASE Quiesced(c) \/ QuiesceFails(c)
  <2>1. InStep(d)'
    BY <1>1, <1>4 DEF Quiesced, QuiesceFails, InStep, TypeOK
  <2>2. UNCHANGED <<active, recorded, kept, resumer, toStart>>
    BY <1>4 DEF Quiesced, QuiesceFails
  <2> QED
    BY <1>1, <2>1, <2>2 DEF Owed
<1> QED
  BY <1>2, <1>3, <1>4 DEF QuiesceHelper

LEMMA ResumeRemembers ==
  ASSUME TypeOK, Remembered, signals = 0, NEW c \in Caller, ResumeHelper(c)
  PROVE  \A d \in Caller : InStep(d)' /\ \A u \in recorded'[d] \ active' : Owed(u)'
<1> SUFFICES ASSUME NEW d \in Caller
             PROVE  InStep(d)' /\ \A u \in recorded'[d] \ active' : Owed(u)'
  OBVIOUS
<1>1. InStep(c) /\ InStep(d) /\ \A e \in Caller : \A u \in recorded[e] \ active : Owed(u)
  BY DEF Remembered
<1>2. CASE ReadRecord(c)
  <2>1. InStep(d)'
    BY <1>1, <1>2 DEF ReadRecord, InStep, TypeOK
  <2>2. ASSUME NEW u \in recorded'[d] \ active' PROVE Owed(u)'
    <3>1. UNCHANGED <<active, recorded, kept>>
      BY <1>2 DEF ReadRecord
    <3>2. PICK e \in kept : u \in recorded[e] /\ (resumer[e] = "start" => u \in toStart[e])
      BY <1>1, <2>2, <3>1 DEF Owed
    <3>3. e \in Caller
      BY <3>2 DEF TypeOK
    <3>4. resumer'[e] = "start" => u \in toStart'[e]
      BY <1>2, <3>2, <3>3 DEF ReadRecord, TypeOK
    <3> QED
      BY <3>1, <3>2, <3>4 DEF Owed
  <2> QED
    BY <2>1, <2>2
<1>3. ASSUME NEW v \in Unit, StartUnit(c, v)
      PROVE  InStep(d)' /\ \A u \in recorded'[d] \ active' : Owed(u)'
  <2>1. InStep(d)'
    BY <1>1, <1>3 DEF StartUnit, InStep, TypeOK
  <2>2. ASSUME NEW u \in recorded'[d] \ active' PROVE Owed(u)'
    <3>1. UNCHANGED <<recorded, kept, resumer>> /\ active' = active \cup {v}
      BY <1>3 DEF StartUnit
    <3>2. PICK e \in kept : u \in recorded[e] /\ (resumer[e] = "start" => u \in toStart[e])
      BY <1>1, <2>2, <3>1 DEF Owed
    <3>3. e \in Caller /\ u # v
      BY <2>2, <3>1, <3>2 DEF TypeOK
    <3>4. resumer[e] = "start" => u \in toStart'[e]
      BY <1>3, <3>2, <3>3 DEF StartUnit, TypeOK
    <3> QED
      BY <3>1, <3>2, <3>4 DEF Owed
  <2> QED
    BY <2>1, <2>2
<1>4. CASE RemoveRecord(c)
  <2>1. InStep(d)'
    BY <1>1, <1>4 DEF RemoveRecord, InStep, TypeOK
  <2>2. ASSUME NEW u \in recorded'[d] \ active' PROVE Owed(u)'
    <3>1. UNCHANGED <<active, recorded, toStart>> /\ kept' = kept \ {c}
      BY <1>4 DEF RemoveRecord
    <3>2. PICK e \in kept : u \in recorded[e] /\ (resumer[e] = "start" => u \in toStart[e])
      BY <1>1, <2>2, <3>1 DEF Owed
    <3>3. e \in Caller /\ e # c
      BY <1>4, <3>2 DEF RemoveRecord, TypeOK
    <3>4. resumer'[e] = resumer[e] /\ e \in kept'
      BY <1>4, <3>1, <3>2, <3>3 DEF RemoveRecord, TypeOK
    <3> QED
      BY <3>1, <3>2, <3>4 DEF Owed
  <2> QED
    BY <2>1, <2>2
<1>5. CASE ResumeFails(c)
  <2>1. InStep(d)'
    BY <1>1, <1>5 DEF ResumeFails, InStep, TypeOK
  <2>2. /\ UNCHANGED <<active, recorded, kept, toStart>>
        /\ \A e \in Caller : resumer'[e] = "start" => resumer[e] = "start"
    BY <1>5 DEF ResumeFails, TypeOK
  <2> QED
    BY <1>1, <2>1, <2>2, OwedStays
<1> QED
  BY <1>2, <1>3, <1>4, <1>5 DEF ResumeHelper

\* The scripts themselves only start helpers that their place allows.
LEMMA ScriptRemembers ==
  ASSUME TypeOK, Remembered, signals = 0, [Next]_vars, signals' = 0,
         UNCHANGED <<active, recorded, kept, toStop, toStart>>,
         \A d \in Caller : InStep(d)',
         \A d \in Caller : resumer'[d] = "start" => resumer[d] = "start"
  PROVE  Remembered'
<1>1. \A e \in Caller : \A u \in recorded[e] \ active : Owed(u)
  BY DEF Remembered
<1> QED
  BY <1>1, OwedStays DEF Remembered

LEMMA NextRemembered == TypeOK /\ Remembered /\ [Next]_vars => Remembered'
<1> SUFFICES ASSUME TypeOK, Remembered, [Next]_vars, signals' = 0 PROVE Remembered'
  BY DEF Remembered
<1>1. signals = 0 /\ \A c \in Caller : ~Signal(c)
  <2>1. ASSUME NEW c \in Caller, Signal(c) PROVE FALSE
    BY <2>1, LimitsAssumption DEF Signal, TypeOK
  <2>2. signals' = signals
    BY <2>1, StepCases DEF StartInstaller, InstallerQuiesced, InstallerFails, InstallerRestored,
       StartRun, AfterQuiescence, AfterRestore, AfterRecovery, Check, CheckFails, Child,
       ChildLocks, ChildApplies, ChildCommits, ChildFails, ChildDies, QuiesceHelper, Record,
       StopUnit, Quiesced, QuiesceFails, ResumeHelper, ReadRecord, StartUnit, RemoveRecord,
       ResumeFails, AfterResume, Kill, Fails
  <2> QED
    BY <2>1, <2>2
<1>2. \A d \in Caller : InStep(d)
  BY <1>1 DEF Remembered
<1>3. ASSUME NEW c \in Caller, QuiesceHelper(c) \/ ResumeHelper(c) PROVE Remembered'
  BY <1>1, <1>3, QuiesceRemembers, ResumeRemembers DEF Remembered
<1>4. ASSUME NEW r \in Run, Child(r) PROVE Remembered'
  <2>1. UNCHANGED <<active, recorded, kept, at, stopping, starting>>
    BY <1>4 DEF Child, ChildLocks, ChildApplies, ChildCommits, ChildFails, ChildDies
  <2> QED
    BY <1>1, <1>2, <2>1, ScriptRemembers DEF InStep
<1>5. CASE StartInstaller \/ InstallerQuiesced \/ InstallerFails \/ InstallerRestored
  <2>1. UNCHANGED <<active, recorded, kept, toStop, toStart>>
    BY <1>5 DEF StartInstaller, InstallerQuiesced, InstallerFails, InstallerRestored
  <2>2. \A d \in Caller : InStep(d)'
    BY <1>2, <1>5, <2>1, RunsAssumption DEF StartInstaller, InstallerQuiesced, InstallerFails,
       InstallerRestored, Resume, Become, InStep, TypeOK
  <2>3. \A d \in Caller : resumer'[d] = "start" => resumer[d] = "start"
    BY <1>5 DEF StartInstaller, InstallerQuiesced, InstallerFails, InstallerRestored, Resume, TypeOK
  <2> QED
    BY <1>1, <2>1, <2>2, <2>3, ScriptRemembers
<1>6. ASSUME NEW r \in Run, StartRun(r) PROVE Remembered'
  <2>1. UNCHANGED <<active, recorded, kept, toStop, toStart, resumer>>
    BY <1>6 DEF StartRun
  <2>2. ASSUME NEW d \in Caller PROVE InStep(d)'
    <3>1. CASE d = r
      BY <1>2, <1>6, <2>1, <3>1, RunsAssumption DEF StartRun, Become, InStep, TypeOK
    <3>2. CASE d # r
      BY <1>2, <1>6, <2>1, <3>2, RunsAssumption DEF StartRun, Become, InStep, TypeOK
    <3> QED
      BY <3>1, <3>2
  <2> QED
    BY <1>1, <2>1, <2>2, ScriptRemembers
<1>7. ASSUME NEW r \in Run,
             \/ AfterQuiescence(r) \/ AfterRestore(r) \/ AfterRecovery(r) \/ Check(r)
             \/ CheckFails(r)
      PROVE  Remembered'
  <2>1. UNCHANGED <<active, recorded, kept, stopping, toStart>>
    BY <1>7 DEF AfterQuiescence, AfterRestore, AfterRecovery, Check, CheckFails
  <2>2. \A d \in Caller : InStep(d)'
    BY <1>2, <1>7, <2>1 DEF AfterQuiescence, AfterRestore, AfterRecovery, Check, CheckFails,
       RunChild, Resume, Become, InStep, TypeOK
  <2>3. \A d \in Caller : resumer'[d] = "start" => resumer[d] = "start"
    BY <1>7 DEF AfterQuiescence, AfterRestore, AfterRecovery, Check, CheckFails, RunChild, Resume,
       TypeOK
  <2> QED
    BY <1>1, <2>1, <2>2, <2>3, ScriptRemembers
<1>8. ASSUME NEW c \in Caller, AfterResume(c) \/ Kill(c) PROVE Remembered'
  <2>1. UNCHANGED <<active, recorded, kept, stopping, starting>>
    BY <1>8 DEF AfterResume, Kill
  <2>2. \A d \in Caller : InStep(d)'
    BY <1>2, <1>8, <2>1 DEF AfterResume, Kill, Running, Ended, Become, InStep, TypeOK
  <2> QED
    BY <1>1, <2>1, <2>2, ScriptRemembers
<1>9. CASE UNCHANGED vars
  BY <1>1, <1>2, <1>9, ScriptRemembers DEF InStep
<1> QED
  BY <1>1, <1>3, <1>4, <1>5, <1>6, <1>7, <1>8, <1>9, StepCases

-----------------------------------------------------------------------------
(* The scripts take turns.                                                 *)

\* A step of an undisturbed session is none of a signal's or a kill's.
LEMMA StaysUndisturbed ==
  ASSUME TypeOK, [Next]_vars, Undisturbed'
  PROVE  Undisturbed /\ \A c \in Caller : ~Signal(c) /\ ~Kill(c)
<1>1. ASSUME NEW c \in Caller, Signal(c) \/ Kill(c) PROVE FALSE
  BY <1>1, LimitsAssumption DEF Signal, Kill, TypeOK, Undisturbed
<1>2. UNCHANGED <<signals, kills>>
  BY <1>1, StepCases DEF StartInstaller, InstallerQuiesced, InstallerFails, InstallerRestored,
     StartRun, AfterQuiescence, AfterRestore, AfterRecovery, Check, CheckFails, Child,
     ChildLocks, ChildApplies, ChildCommits, ChildFails, ChildDies, QuiesceHelper, Record,
     StopUnit, Quiesced, QuiesceFails, ResumeHelper, ReadRecord, StartUnit, RemoveRecord,
     ResumeFails, AfterResume, Fails
<1> QED
  BY <1>1, <1>2 DEF Undisturbed

\* What helpers and children leave to the scripts.
LEMMA HelperFrame ==
  ASSUME NEW c \in Caller, QuiesceHelper(c) \/ ResumeHelper(c)
  PROVE  UNCHANGED <<at, nested, mixed, checked, lock, child>>
  BY DEF QuiesceHelper, Record, StopUnit, Quiesced, QuiesceFails, ResumeHelper, ReadRecord,
     StartUnit, RemoveRecord, ResumeFails

LEMMA ChildFrame ==
  ASSUME NEW r \in Run, Child(r)
  PROVE  UNCHANGED <<active, recorded, kept, at, nested, stopping, starting>>
  BY DEF Child, ChildLocks, ChildApplies, ChildCommits, ChildFails, ChildDies

\* A script that stays on its way, or ends, leaves the others' turn alone.
LEMMA AloneStays ==
  ASSUME Alone, UNCHANGED <<nested, recorded>>,
         \A c \in Caller : Running(c)' => Running(c),
         at'[Installer] = "restoring" => at[Installer] = "restoring",
         at[Installer] # "restoring" \/ at'[Installer] = "restoring" \/ \A r \in Run : ~Running(r)'
  PROVE  Alone'
  BY DEF Alone

LEMMA NextAlone ==
  ASSUME TypeOK, Remembered, Calm, [Next]_vars, Undisturbed'
  PROVE  Alone'
<1>1. Undisturbed /\ \A c \in Caller : ~Signal(c) /\ ~Kill(c)
  BY StaysUndisturbed
<1>2. Alone /\ \A c \in Caller : InStep(c) /\ AtWork(c) /\ (Running(c) => Emptied(c))
  BY <1>1 DEF Calm, Remembered, Undisturbed
<1>3. ASSUME NEW c \in Caller, QuiesceHelper(c) \/ ResumeHelper(c) PROVE Alone'
  <2>1. UNCHANGED <<at, nested>>
    BY <1>3, HelperFrame
  <2>2. CASE UNCHANGED recorded
    BY <1>2, <2>1, <2>2 DEF Alone, Running
  <2>3. CASE Record(c)
    <3>1. recorded'[c] = active /\ \A d \in Caller : d # c => recorded'[d] = recorded[d]
      BY <2>3 DEF Record, TypeOK
    <3>2. at[Installer] = "restoring" => active = {}
      BY <1>2 DEF Running, Ended, Emptied, Between
    <3> QED
      BY <1>2, <2>1, <3>1, <3>2 DEF Alone, Running
  <2> QED
    BY <1>3, <2>2, <2>3 DEF QuiesceHelper, StopUnit, Quiesced, QuiesceFails, ResumeHelper,
       ReadRecord, StartUnit, RemoveRecord, ResumeFails
<1>4. ASSUME NEW r \in Run, Child(r) PROVE Alone'
  BY <1>2, <1>4, ChildFrame DEF Alone, Running
<1>5. CASE StartInstaller
  BY <1>2, <1>5, RunsAssumption DEF StartInstaller, Become, Alone, Running, TypeOK
<1>6. CASE InstallerQuiesced \/ InstallerFails
  BY <1>2, <1>6, RunsAssumption, AloneStays DEF InstallerQuiesced, InstallerFails, Resume, Become,
     Running, Ended, TypeOK
<1>7. CASE InstallerRestored
  <2>1. \A r \in Run : ~Running(r)
    BY <1>2, <1>7 DEF InstallerRestored, Alone, Running, Ended
  <2>2. \A r \in Run : at'[r] = at[r]
    BY <1>7, RunsAssumption DEF InstallerRestored, Resume, Become, TypeOK
  <2>3. Running(Installer)
    BY <1>7 DEF InstallerRestored, Running, Ended
  <2> QED
    BY <1>2, <1>7, <2>1, <2>2, <2>3, AloneStays DEF InstallerRestored, Resume, Become, Running,
       TypeOK
<1>8. ASSUME NEW r \in Run, StartRun(r) PROVE Alone'
  <2>1. \A q \in Run : ~Running(q)
    BY <1>8 DEF StartRun
  <2>2. \A q \in Run : q # r => at'[q] = at[q]
    BY <1>8, RunsAssumption DEF StartRun, Become, TypeOK
  <2>3. recorded' = recorded /\ recorded[r] = {}
    BY <1>2, <1>8 DEF StartRun, InStep
  <2>4. CASE ~Running(Installer) /\ Become(r, "quiescing") /\ UNCHANGED nested
    <3>1. at'[Installer] = at[Installer]
      BY <2>4, RunsAssumption DEF Become, TypeOK
    <3> QED
      BY <2>1, <2>2, <2>4, <3>1 DEF Alone, Running, Ended
  <2>5. CASE nested' = r /\ at' = [at EXCEPT ![r] = "quiescing", ![Installer] = "restoring"]
    <3>1. at'[Installer] = "restoring"
      BY <2>5 DEF TypeOK
    <3> QED
      BY <2>1, <2>2, <2>3, <2>5, <3>1 DEF Alone, Running
  <2> QED
    BY <1>8, <2>4, <2>5 DEF StartRun
<1>9. ASSUME NEW r \in Run,
             \/ AfterQuiescence(r) \/ AfterRestore(r) \/ AfterRecovery(r) \/ Check(r)
             \/ CheckFails(r)
      PROVE  Alone'
  <2>1. UNCHANGED <<nested, recorded>> /\ Running(r)
    BY <1>9 DEF AfterQuiescence, AfterRestore, AfterRecovery, Check, CheckFails, Running, Ended
  <2>2. \A d \in Caller : d # r => at'[d] = at[d]
    BY <1>9 DEF AfterQuiescence, AfterRestore, AfterRecovery, Check, CheckFails, RunChild, Resume,
       Become, TypeOK
  <2> QED
    BY <1>2, <2>1, <2>2, RunsAssumption, AloneStays DEF Running
<1>10. ASSUME NEW c \in Caller, AfterResume(c) PROVE Alone'
  <2>1. UNCHANGED <<nested, recorded>> /\ Running(c) /\ at[c] # "restoring"
    BY <1>10 DEF AfterResume, Running, Ended
  <2>2. at'[c] \in {"ok", "failed"} /\ \A d \in Caller : d # c => at'[d] = at[d]
    BY <1>10 DEF AfterResume, Become, TypeOK
  <2> QED
    BY <1>2, <2>1, <2>2, AloneStays DEF Running
<1>11. CASE UNCHANGED vars
  BY <1>2, <1>11 DEF Alone, Running
<1> QED
  BY <1>1, <1>3, <1>4, <1>5, <1>6, <1>7, <1>8, <1>9, <1>10, <1>11, StepCases

\* Every helper and every child is one that its script waits for.
LEMMA NextAtWork ==
  ASSUME TypeOK, Fresh, Remembered, Calm, [Next]_vars, Undisturbed'
  PROVE  \A d \in Caller : AtWork(d)'
<1> SUFFICES ASSUME NEW d \in Caller PROVE AtWork(d)'
  OBVIOUS
<1>1. Undisturbed /\ \A c \in Caller : ~Signal(c) /\ ~Kill(c)
  BY StaysUndisturbed
<1>2. \A c \in Caller : InStep(c) /\ AtWork(c)
  BY <1>1 DEF Calm, Remembered, Undisturbed
<1>3. ASSUME NEW c \in Caller, QuiesceHelper(c) PROVE AtWork(d)'
  BY <1>2, <1>3 DEF QuiesceHelper, Record, StopUnit, Quiesced, QuiesceFails, AtWork, InStep, TypeOK
<1>4. ASSUME NEW c \in Caller, ResumeHelper(c) PROVE AtWork(d)'
  BY <1>2, <1>4 DEF ResumeHelper, ReadRecord, StartUnit, RemoveRecord, ResumeFails, AtWork, TypeOK
<1>5. ASSUME NEW r \in Run, Child(r) PROVE AtWork(d)'
  <2>1. UNCHANGED <<active, recorded, kept, at, nested, stopping, starting>>
    BY <1>5, ChildFrame
  <2>2. child[r] \in {"restore", "locked", "applying", "recover"}
    BY <1>5 DEF Child, ChildLocks, ChildApplies, ChildCommits, ChildFails, ChildDies
  <2>3. \A q \in Run : q # r => child'[q] = child[q]
    BY <1>5 DEF Child, ChildLocks, ChildApplies, ChildCommits, ChildFails, ChildDies, Exit, TypeOK
  <2> QED
    BY <1>2, <2>1, <2>2, <2>3 DEF AtWork
<1>6. CASE StartInstaller \/ InstallerQuiesced \/ InstallerFails \/ InstallerRestored
  BY <1>2, <1>6, RunsAssumption DEF StartInstaller, InstallerQuiesced, InstallerFails,
     InstallerRestored, Resume, Become, AtWork, InStep, TypeOK
<1>7. ASSUME NEW r \in Run, StartRun(r) PROVE AtWork(d)'
  <2>1. UNCHANGED <<recorded, starting, child>>
    BY <1>7 DEF StartRun
  <2>2. d # r => quiescer'[d] = quiescer[d] /\ (at'[d] = at[d] \/ at[d] = "quiesced")
    BY <1>7, RunsAssumption DEF StartRun, Become, TypeOK
  <2>3. at'[r] = "quiescing" /\ at[r] = "idle"
    BY <1>7, RunsAssumption DEF StartRun, Become, TypeOK
  <2>4. d # r /\ at'[d] # at[d] => d \notin Run
    BY <1>7, RunsAssumption DEF StartRun, Become, TypeOK
  <2> QED
    BY <1>2, <2>1, <2>2, <2>3, <2>4 DEF AtWork, InStep
<1>8. ASSUME NEW r \in Run,
             \/ AfterQuiescence(r) \/ AfterRestore(r) \/ AfterRecovery(r) \/ Check(r)
             \/ CheckFails(r)
      PROVE  AtWork(d)'
  BY <1>2, <1>8 DEF AfterQuiescence, AfterRestore, AfterRecovery, Check, CheckFails, RunChild,
     Resume, Become, AtWork, InStep, TypeOK
<1>9. ASSUME NEW c \in Caller, AfterResume(c) PROVE AtWork(d)'
  BY <1>2, <1>9 DEF AfterResume, Become, AtWork, TypeOK
<1>10. CASE UNCHANGED vars
  BY <1>2, <1>10 DEF AtWork
<1> QED
  BY <1>1, <1>3, <1>4, <1>5, <1>6, <1>7, <1>8, <1>9, <1>10, StepCases

\* Each running script knows how far the services are stopped.
LEMMA NextEmptied ==
  ASSUME TypeOK, Remembered, Calm, [Next]_vars, Undisturbed', NEW d \in Caller, Running(d)'
  PROVE  Emptied(d)'
<1>1. Undisturbed /\ \A c \in Caller : ~Signal(c) /\ ~Kill(c)
  BY StaysUndisturbed
<1>2. Alone /\ \A c \in Caller : InStep(c) /\ AtWork(c) /\ (Running(c) => Emptied(c))
  BY <1>1 DEF Calm, Remembered, Undisturbed
<1>3. ASSUME NEW c \in Caller, NEW u \in Unit, StopUnit(c, u) PROVE Emptied(d)'
  <2>1. Running(c) /\ Running(d)
    BY <1>2, <1>3 DEF StopUnit, AtWork, Running, Ended
  <2>2. CASE d = c
    BY <1>2, <1>3, <2>1, <2>2 DEF StopUnit, AtWork, Emptied, Between, TypeOK
  <2>3. CASE d # c
    <3>1. at[d] = "restoring"
      BY <1>2, <1>3, <2>1, <2>3 DEF Alone, StopUnit, AtWork
    <3>2. active = {} /\ d \in kept /\ quiescer[d] \in {"ok", "failed"}
      BY <1>2, <2>1, <3>1 DEF Emptied, Between, InStep
    <3> QED
      BY <1>3, <2>3, <3>1, <3>2 DEF StopUnit, Emptied
  <2> QED
    BY <2>2, <2>3
<1>4. ASSUME NEW c \in Caller, Record(c) \/ Quiesced(c) \/ QuiesceFails(c) PROVE Emptied(d)'
  <2>1. at' = at /\ active' = active /\ kept \subseteq kept' /\ Running(d)
    BY <1>4 DEF Record, Quiesced, QuiesceFails, Running
  <2>2. CASE d = c
    BY <1>2, <1>4, <2>1, <2>2 DEF Record, Quiesced, QuiesceFails, AtWork, InStep, Emptied, Between,
       TypeOK
  <2>3. CASE d # c
    BY <1>2, <1>4, <2>1, <2>3 DEF Record, Quiesced, QuiesceFails, Emptied, TypeOK
  <2> QED
    BY <2>2, <2>3
<1>5. ASSUME NEW c \in Caller, NEW u \in Unit, StartUnit(c, u) PROVE Emptied(d)'
  <2>1. Running(c) /\ Running(d) /\ u \in recorded[c]
    BY <1>2, <1>5 DEF StartUnit, AtWork, Running, Ended
  <2>2. d = c
    BY <1>2, <1>5, <2>1 DEF Alone, StartUnit, AtWork
  <2> QED
    BY <1>2, <1>5, <2>1, <2>2 DEF StartUnit, AtWork, InStep, Emptied, Between, TypeOK
<1>6. ASSUME NEW c \in Caller, ReadRecord(c) \/ RemoveRecord(c) \/ ResumeFails(c)
      PROVE  Emptied(d)'
  <2>1. UNCHANGED <<active, at, stopping, recorded>> /\ Running(d)
    BY <1>6 DEF ReadRecord, RemoveRecord, ResumeFails, Running
  <2>2. CASE d = c
    <3>1. Emptied(d) /\ AtWork(d) /\ InStep(d) /\ TypeOK
      BY <1>2, <2>1
    <3>2. CASE ReadRecord(d)
      BY <2>1, <3>1, <3>2 DEF ReadRecord, AtWork, Emptied, Between, TypeOK
    <3>3. CASE RemoveRecord(d)
      BY <2>1, <3>1, <3>3 DEF RemoveRecord, AtWork, Emptied, Between, TypeOK
    <3>4. CASE ResumeFails(d)
      BY <2>1, <3>1, <3>4 DEF ResumeFails, AtWork, Emptied, Between, TypeOK
    <3> QED
      BY <1>6, <2>2, <3>2, <3>3, <3>4
  <2>3. CASE d # c
    BY <1>2, <1>6, <2>1, <2>3 DEF ReadRecord, RemoveRecord, ResumeFails, Emptied, TypeOK
  <2> QED
    BY <2>2, <2>3
<1>7. ASSUME NEW r \in Run, Child(r) PROVE Emptied(d)'
  BY <1>2, <1>7, ChildFrame DEF Emptied, Running
<1>8. CASE StartInstaller \/ InstallerQuiesced \/ InstallerFails \/ InstallerRestored
  BY <1>2, <1>8, RunsAssumption DEF StartInstaller, InstallerQuiesced, InstallerFails,
     InstallerRestored, Resume, Become, InStep, Emptied, Between, Running, Ended, TypeOK
<1>9. ASSUME NEW r \in Run, StartRun(r) PROVE Emptied(d)'
  <2>1. UNCHANGED <<active, recorded, kept, toStop, starting>>
    BY <1>9 DEF StartRun
  <2>2. at'[r] = "quiescing" /\ quiescer'[r] = "inspect"
    BY <1>9, RunsAssumption DEF StartRun, Become, TypeOK
  <2>3. d # r => /\ quiescer'[d] = quiescer[d]
                 /\ at'[d] = at[d] \/ (at[d] = "quiesced" /\ at'[d] = "restoring")
    BY <1>9, RunsAssumption DEF StartRun, Become, TypeOK
  <2> QED
    BY <1>2, <2>1, <2>2, <2>3 DEF Emptied, Between, Running, Ended
<1>10. ASSUME NEW r \in Run,
             \/ AfterQuiescence(r) \/ AfterRestore(r) \/ AfterRecovery(r) \/ Check(r)
             \/ CheckFails(r)
      PROVE  Emptied(d)'
  <2>1. UNCHANGED <<active, recorded, kept, stopping, toStart>>
    BY <1>10 DEF AfterQuiescence, AfterRestore, AfterRecovery, Check, CheckFails
  <2>2. CASE d = r
    BY <1>2, <1>10, <2>1, <2>2 DEF AfterQuiescence, AfterRestore, AfterRecovery, Check, CheckFails,
       RunChild, Resume, Become, InStep, Emptied, Between, Running, Ended, TypeOK
  <2>3. CASE d # r
    <3>1. at'[d] = at[d] /\ resumer'[d] = resumer[d]
      BY <1>10, <2>3 DEF AfterQuiescence, AfterRestore, AfterRecovery, Check, CheckFails, RunChild,
         Resume, Become, TypeOK
    <3> QED
      BY <1>2, <2>1, <3>1 DEF Emptied, Running
  <2> QED
    BY <2>2, <2>3
<1>11. ASSUME NEW c \in Caller, AfterResume(c) PROVE Emptied(d)'
  BY <1>2, <1>11 DEF AfterResume, Become, Emptied, Running, Ended, TypeOK
<1>12. CASE UNCHANGED vars
  BY <1>2, <1>12 DEF Emptied, Running
<1> QED
  BY <1>1, <1>3, <1>4, <1>5, <1>6, <1>7, <1>8, <1>9, <1>10, <1>11, <1>12, StepCases
     DEF QuiesceHelper, ResumeHelper

LEMMA NextCalm == TypeOK /\ Fresh /\ Remembered /\ Calm /\ [Next]_vars => Calm'
  BY NextAlone, NextAtWork, NextEmptied DEF Calm

-----------------------------------------------------------------------------
(* Nothing is started on credentials that are not settled.                 *)

\* An installer that is idle after a step was idle before it.
LEMMA IdleBefore ==
  ASSUME TypeOK, [Next]_vars, \A c \in Caller : ~Signal(c) /\ ~Kill(c), at'[Installer] = "idle"
  PROVE  at[Installer] = "idle"
<1>1. CASE StartInstaller
  BY <1>1 DEF StartInstaller
<1>2. CASE InstallerQuiesced \/ InstallerFails \/ InstallerRestored
  BY <1>2 DEF InstallerQuiesced, InstallerFails, InstallerRestored, Resume, Become, TypeOK
<1>3. ASSUME NEW r \in Run, StartRun(r) PROVE at[Installer] = "idle"
  BY <1>3, RunsAssumption DEF StartRun, Become, TypeOK
<1>4. ASSUME NEW r \in Run,
             \/ AfterQuiescence(r) \/ AfterRestore(r) \/ AfterRecovery(r) \/ Check(r) \/ CheckFails(r)
      PROVE  at[Installer] = "idle"
  BY <1>4, RunsAssumption DEF AfterQuiescence, AfterRestore, AfterRecovery, Check, CheckFails,
     RunChild, Resume, Become, TypeOK
<1>5. ASSUME NEW r \in Run, Child(r) PROVE at[Installer] = "idle"
  BY <1>5, ChildFrame
<1>6. ASSUME NEW c \in Caller, QuiesceHelper(c) \/ ResumeHelper(c) PROVE at[Installer] = "idle"
  BY <1>6, HelperFrame
<1>7. ASSUME NEW c \in Caller, AfterResume(c) PROVE at[Installer] = "idle"
  BY <1>7 DEF AfterResume, Become, TypeOK
<1>8. CASE UNCHANGED vars
  BY <1>8 DEF vars
<1> QED
  BY <1>1, <1>2, <1>3, <1>4, <1>5, <1>6, <1>7, <1>8, StepCases

LEMMA NextSettled == IInv /\ [Next]_vars => SettledOrStopped'
<1> SUFFICES ASSUME IInv, [Next]_vars, Undisturbed', at'[Installer] = "idle"
             PROVE  SettledOrStopped'
  BY DEF SettledOrStopped
<1>1. Undisturbed /\ \A c \in Caller : ~Signal(c) /\ ~Kill(c)
  BY StaysUndisturbed DEF IInv
<1>2. TypeOK /\ Alone /\ \A c \in Caller : InStep(c) /\ AtWork(c) /\ (Running(c) => Emptied(c))
  BY <1>1 DEF IInv, Calm, Remembered, Undisturbed
<1>3. at[Installer] = "idle"
  BY <1>1, <1>2, IdleBefore
<1>4. /\ ~Settled => active = {}
      /\ \A r \in Run :
           /\ at[r] \in {"resuming_committed", "resuming_recovered"} => Settled
           /\ at[r] \in {"quiescing", "trap"} /\ ~Settled => recorded[r] = {}
           /\ at[r] \in {"restoring", "recovering"} /\ child[r] = "ok" => ~mixed
           /\ at[r] \in {"checking_committed", "checking_recovered"} => ~mixed
  BY <1>1, <1>3 DEF IInv, SettledOrStopped
<1>5. ASSUME NEW c \in Caller, QuiesceHelper(c) PROVE SettledOrStopped'
  <2>1. UNCHANGED <<at, nested, mixed, checked, lock, child>>
    BY <1>5, HelperFrame
  <2>2. active' \subseteq active
        /\ \A r \in Run : recorded'[r] \in {recorded[r], active}
    BY <1>2, <1>5 DEF QuiesceHelper, Record, StopUnit, Quiesced, QuiesceFails, TypeOK
  <2> QED
    BY <1>4, <2>1, <2>2 DEF SettledOrStopped, Settled
<1>6. ASSUME NEW c \in Caller, ResumeHelper(c) PROVE SettledOrStopped'
  <2>1. UNCHANGED <<at, nested, mixed, checked, lock, child, recorded>>
    BY <1>6, HelperFrame DEF ResumeHelper, ReadRecord, StartUnit, RemoveRecord, ResumeFails
  <2>2. active' = active \/ Settled
    <3>1. ASSUME NEW u \in Unit, StartUnit(c, u) PROVE Settled
      <4>1. c \in Run /\ at[c] \in {"resuming_committed", "resuming_recovered", "trap"}
        BY <1>2, <1>3, <3>1 DEF StartUnit, AtWork
      <4>2. recorded[c] # {}
        BY <1>2, <3>1 DEF StartUnit, AtWork
      <4> QED
        BY <1>4, <4>1, <4>2
    <3> QED
      BY <1>6, <3>1 DEF ResumeHelper, ReadRecord, RemoveRecord, ResumeFails
  <2> QED
    BY <1>4, <2>1, <2>2 DEF SettledOrStopped, Settled
<1>7. ASSUME NEW r \in Run, Child(r) PROVE SettledOrStopped'
  <2>1. UNCHANGED <<active, recorded, kept, at, nested, stopping, starting>>
    BY <1>7, ChildFrame
  <2>2. child[r] \in {"restore", "locked", "applying", "recover"}
    BY <1>7 DEF Child, ChildLocks, ChildApplies, ChildCommits, ChildFails, ChildDies
  <2>3. at[r] \in {"restoring", "recovering"} /\ Running(r)
    BY <1>2, <2>2 DEF AtWork, Running, Ended
  <2>4. active = {} /\ \A q \in Run : q # r => ~Running(q)
    BY <1>2, <2>3 DEF Emptied, Between, Alone
  <2>5. child'[r] = "ok" => ~mixed'
    BY <1>2, <1>7 DEF Child, ChildLocks, ChildApplies, ChildCommits, ChildFails, ChildDies, Exit,
       TypeOK
  <2> QED
    BY <2>1, <2>3, <2>4, <2>5 DEF SettledOrStopped, Running, Ended
<1>8. ASSUME NEW r \in Run, StartRun(r) PROVE SettledOrStopped'
  <2>1. UNCHANGED <<active, recorded, mixed, checked, child>>
    BY <1>8 DEF StartRun
  <2>2. recorded[r] = {} /\ at'[r] = "quiescing"
    BY <1>2, <1>8, RunsAssumption DEF StartRun, InStep, Become, TypeOK
  <2>3. \A q \in Run : q # r => at'[q] = at[q]
    BY <1>2, <1>8, RunsAssumption DEF StartRun, Become, TypeOK
  <2> QED
    BY <1>4, <2>1, <2>2, <2>3 DEF SettledOrStopped, Settled
<1>9. ASSUME NEW r \in Run, AfterQuiescence(r) \/ AfterRestore(r) PROVE SettledOrStopped'
  <2>1. UNCHANGED <<active, recorded, mixed, checked>>
    BY <1>9 DEF AfterQuiescence, AfterRestore
  <2>2. \A q \in Run : q # r => at'[q] = at[q] /\ child'[q] = child[q]
    BY <1>2, <1>9 DEF AfterQuiescence, AfterRestore, RunChild, Resume, Become, TypeOK
  <2>3. \/ at'[r] \in {"restoring", "recovering"} /\ child'[r] # "ok"
        \/ at[r] = "quiescing" /\ at'[r] = "trap"
        \/ at[r] = "restoring" /\ child[r] = "ok" /\ at'[r] = "checking_committed"
    BY <1>2, <1>9 DEF AfterQuiescence, AfterRestore, RunChild, Resume, Become, TypeOK
  <2> QED
    BY <1>4, <2>1, <2>2, <2>3 DEF SettledOrStopped, Settled
<1>10. ASSUME NEW r \in Run, AfterRecovery(r) \/ Check(r) \/ CheckFails(r) PROVE SettledOrStopped'
  <2>1. UNCHANGED <<active, recorded, mixed, child>>
    BY <1>10 DEF AfterRecovery, Check, CheckFails
  <2>2. \A q \in Run : q # r => at'[q] = at[q]
    BY <1>2, <1>10 DEF AfterRecovery, Check, CheckFails, Resume, Become, TypeOK
  <2>3. \/ /\ at[r] = "recovering" /\ child[r] = "ok" /\ at'[r] = "checking_recovered"
           /\ checked' = checked
        \/ at'[r] = "failed" /\ checked' = checked
        \/ /\ at[r] \in {"checking_committed", "checking_recovered"} /\ checked'
           /\ at'[r] \in {"resuming_committed", "resuming_recovered"}
    BY <1>2, <1>10 DEF AfterRecovery, Check, CheckFails, Resume, Become, TypeOK
  <2> QED
    BY <1>4, <2>1, <2>2, <2>3 DEF SettledOrStopped, Settled
<1>11. ASSUME NEW c \in Caller, AfterResume(c) PROVE SettledOrStopped'
  <2>1. UNCHANGED <<active, recorded, mixed, checked, child>>
    BY <1>11 DEF AfterResume
  <2>2. at'[c] \in {"ok", "failed"} /\ \A d \in Caller : d # c => at'[d] = at[d]
    BY <1>2, <1>11 DEF AfterResume, Become, TypeOK
  <2> QED
    BY <1>4, <2>1, <2>2 DEF SettledOrStopped, Settled
<1>12. CASE InstallerQuiesced \/ InstallerFails \/ InstallerRestored \/ StartInstaller
  BY <1>2, <1>12 DEF InstallerQuiesced, InstallerFails, InstallerRestored, StartInstaller, Resume,
     Become, TypeOK
<1>13. CASE UNCHANGED vars
  BY <1>4, <1>13 DEF SettledOrStopped, Settled
<1> QED
  BY <1>1, <1>5, <1>6, <1>7, <1>8, <1>9, <1>10, <1>11, <1>12, <1>13, StepCases

-----------------------------------------------------------------------------
(* The theorems.                                                           *)

LEMMA InitInvariant == Init => IInv
<1> SUFFICES ASSUME Init PROVE IInv
  OBVIOUS
<1>1. /\ recorded \in [Caller -> {{}}] /\ toStop \in [Caller -> {{}}] /\ toStart \in [Caller -> {{}}]
      /\ at \in [Caller -> {"idle"}] /\ child \in [Run -> {"none"}]
      /\ quiescer \in [Caller -> {"none"}] /\ resumer \in [Caller -> {"none"}]
  BY DEF Init
<1>2. 0 \in 0..MaxFailures /\ 0 \in 0..MaxSignals /\ 0 \in 0..MaxKills
  BY LimitsAssumption
<1>3. TypeOK
  BY <1>1, <1>2, RunsAssumption DEF Init, TypeOK, Places, Helpers, Children
<1>4. Fresh /\ Remembered
  BY <1>1 DEF Init, Fresh, Remembered, InStep
<1>5. Calm
  BY <1>1 DEF Init, Calm, Alone, AtWork, Running
<1>6. SettledOrStopped
  BY <1>1 DEF Init, SettledOrStopped, Settled
<1> QED
  BY <1>3, <1>4, <1>5, <1>6 DEF IInv

LEMMA NextInvariant == IInv /\ [Next]_vars => IInv'
<1> SUFFICES ASSUME IInv, [Next]_vars PROVE IInv'
  OBVIOUS
<1>1. TypeOK' /\ Fresh' /\ Remembered' /\ Calm'
  BY NextTypes, NextFresh, NextRemembered, NextCalm DEF IInv
<1> QED
  BY <1>1, NextSettled DEF IInv

LEMMA Invariant == Spec => []IInv
  BY InitInvariant, NextInvariant, PTL DEF Spec

\* The scripts, their helpers and the transaction lock keep their types, and only a
\* living child holds the lock.
THEOREM SecretRestoreTypeCorrect == Spec => []TypeOK
<1>1. IInv => TypeOK
  BY DEF IInv
<1> QED
  BY <1>1, Invariant, PTL

\* A service that any run has stopped runs again or is listed in a state file, whatever
\* failed and was killed, as long as no signal lets a trap overtake a helper.
THEOREM NothingEverForgotten == Spec => []NothingForgotten
<1>1. IInv => NothingForgotten
  BY DEF IInv, Remembered, Owed, NothingForgotten
<1> QED
  BY <1>1, Invariant, PTL

\* An undisturbed restore of its own starts no service on credentials that a transaction
\* has left half applied, or that nobody has verified.
THEOREM UndisturbedAlwaysSettled == Spec => UndisturbedResumesSettled
<1>1. ASSUME IInv, [Next]_vars, ~(active' \subseteq active), Undisturbed, at[Installer] = "idle"
      PROVE  Settled
  <2>1. TypeOK /\ \A c \in Caller : AtWork(c)
    BY <1>1 DEF IInv, Calm
  <2>2. PICK c \in Caller, u \in Unit : StartUnit(c, u)
    BY <1>1, StepCases, ChildFrame DEF StartInstaller, InstallerQuiesced, InstallerFails,
       InstallerRestored, StartRun, AfterQuiescence, AfterRestore, AfterRecovery, Check, CheckFails,
       QuiesceHelper, Record, StopUnit, Quiesced, QuiesceFails, ResumeHelper, ReadRecord,
       RemoveRecord, ResumeFails, AfterResume, Signal, Kill
  <2>3. c \in Run /\ at[c] \in {"resuming_committed", "resuming_recovered", "trap"}
    BY <1>1, <2>1, <2>2 DEF StartUnit, AtWork
  <2>4. recorded[c] # {}
    BY <2>1, <2>2 DEF StartUnit, AtWork
  <2> QED
    BY <1>1, <2>3, <2>4 DEF IInv, SettledOrStopped
<1>2. IInv /\ [Next]_vars =>
        [~(active' \subseteq active) /\ Undisturbed /\ at[Installer] = "idle" => Settled]_vars
  BY <1>1
<1> QED
  BY <1>2, Invariant, PTL DEF Spec, UndisturbedResumesSettled

\* An undisturbed run that ends well leaves exactly the services that it found, and so
\* does an installation around the run it waits for.
THEOREM PriorSetAlwaysRestored == Spec => PriorSetRestored
<1>1. ASSUME IInv, [Next]_vars, NEW c \in Caller, at'[c] = "ok", at[c] # "ok", Undisturbed
      PROVE  active = recorded[c]
  <2>1. TypeOK /\ (Running(c) => Emptied(c))
    BY <1>1 DEF IInv, Calm
  <2>2. at[c] = "resuming_committed" /\ resumer[c] = "ok"
    <3>1. ~(StartInstaller \/ InstallerQuiesced \/ InstallerFails \/ InstallerRestored)
      BY <1>1, <2>1 DEF StartInstaller, InstallerQuiesced, InstallerFails, InstallerRestored,
         Resume, Become, TypeOK
    <3>2. ASSUME NEW r \in Run
          PROVE  ~(StartRun(r) \/ AfterQuiescence(r) \/ AfterRestore(r) \/ AfterRecovery(r)
                   \/ Check(r) \/ CheckFails(r))
      BY <1>1, <2>1, RunsAssumption DEF StartRun, AfterQuiescence, AfterRestore, AfterRecovery,
         Check, CheckFails, RunChild, Resume, Become, TypeOK
    <3>3. ASSUME NEW d \in Caller PROVE ~(Signal(d) \/ Kill(d))
      <4>0. at \in [Caller -> Places]
        BY <2>1 DEF TypeOK
      <4>1. ASSUME NEW p \in {"trap", "failed", "dead"}, at' = [at EXCEPT ![d] = p] PROVE FALSE
        <5>1. at'[c] \in {p, at[c]}
          BY <4>0, <4>1
        <5> QED
          BY <1>1, <5>1
      <4>2. CASE Signal(d)
        BY <4>1, <4>2 DEF Signal, Resume, Become
      <4>3. CASE Kill(d)
        BY <4>1, <4>3 DEF Kill, Become
      <4> QED
        BY <4>2, <4>3
    <3>4. \E d \in Caller : AfterResume(d)
      BY <1>1, <3>1, <3>2, <3>3, StepCases, ChildFrame, HelperFrame DEF vars
    <3> QED
      BY <1>1, <2>1, <3>4 DEF AfterResume, Become, TypeOK
  <2> QED
    BY <2>1, <2>2 DEF Emptied, Running, Ended
<1>2. IInv /\ [Next]_vars =>
        [\A c \in Caller : at'[c] = "ok" /\ at[c] # "ok" /\ Undisturbed => active = recorded[c]]_vars
  BY <1>1
<1> QED
  BY <1>2, Invariant, PTL DEF Spec, PriorSetRestored
=============================================================================
