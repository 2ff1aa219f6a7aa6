----------------------- MODULE SessionSupervisorProofs -----------------------
(***************************************************************************)
(* The safety of one epoch of the session supervisor, for any sessions,    *)
(* any ladder and any number of failures, and the proof that the epoch     *)
(* implements SharedRoute.                                                 *)
(*                                                                         *)
(* What must be known besides the properties themselves: which thread      *)
(* holds the transition lock and how far it is (Locked, Transit, Checked), *)
(* that a drain is only begun by an epoch that stops (Forcing, Ending),    *)
(* what the lease that a thread is dropping may still become (Dropping),   *)
(* that an epoch proved empty has no lease and takes none (Proved), and    *)
(* that the last lease drains the epoch (Interested).  Each part of the    *)
(* invariant has a lemma of its own, with a step per group of actions.     *)
(*                                                                         *)
(* Nothing is assumed of the constants but SupervisorAssumption.  Only the *)
(* two theorems on child scopes need that a wrapper does not die while its *)
(* child is attached: the run of MCSessionSupervisorAttach.cfg shows what  *)
(* happens when it does.                                                   *)
(***************************************************************************)
EXTENDS SessionSupervisor, FiniteSetTheorems, TLAPS

USE SupervisorAssumption
USE DEF epochVars, routeVars, hostVars, storeVars, verdictVars, handlerVars, workerVars, dogVars,
        callVars, boundVars, vars, Caller, Forcer, Thread, NoDrop

-----------------------------------------------------------------------------
(* The steps, grouped by who takes them: the clients and their handlers,   *)
(* the calls the threads share, the transition, and the threads.           *)

HandlerWork(s) ==
    \/ Register(s) \/ AwaitGeneration(s) \/ FailedRegistration(s) \/ LinearizeFailed(s) \/ Told(s)
    \/ Registered(s) \/ AttachScope(s) \/ AttachCommit(s) \/ AttachUndo(s) \/ Release(s)
    \/ WrapperDies(s) \/ ConnectionLost(s)
CallWork(t) == CallStep(t) \/ (t \in Forcer /\ ForceDrain(t))
Mover == {"worker", "watchdog"}
DogWork ==
    \/ DogTick \/ DogLook \/ DogAlone \/ DogCheck \/ DogRepair \/ DogRevoke \/ DogHalt
    \/ DogMended \/ DogFatal \/ DogForce
WorkerWork == WorkerBegin \/ WorkerEnd \/ WorkerExit
MainWork == MainLeaves \/ Finalize \/ Signal

\* Every step is one of these.
LEMMA StepCases ==
  ASSUME [Next]_vars
  PROVE  \/ \E s \in Session : HandlerWork(s)
         \/ \E t \in Caller : CallWork(t)
         \/ \E t \in Mover : Transition(t)
         \/ WorkerWork \/ DogWork \/ MainWork \/ UNCHANGED vars
  BY DEF Next, ClientStep, HandlerStep, WorkerStep, WatchdogStep, MainStep, HandlerWork, CallWork,
         DogWork, WorkerWork, MainWork, Mover

-----------------------------------------------------------------------------
(* The inductive invariant.                                                *)

\* The transition lock is held by whoever is where it needs it.
Locked ==
    /\ tlock = "worker" <=> worker = "transition"
    /\ tlock = "watchdog" <=> \/ dog \in {"revoke", "halt", "mend", "fatal"}
                              \/ drain["watchdog"] \in {"take", "prove"}
    /\ \A t \in Session \cup {"main"} : tlock = t <=> drain[t] \in {"take", "prove"}

\* A forced shutdown drains first; a drain of the watchdog or the main thread has its
\* reason.
Forcing ==
    /\ \A t \in Forcer : forced[t] # "no" => Draining /\ stop
    /\ forced["watchdog"] # "no" => dog = "force"
    /\ drain["watchdog"] # "no" => dog \in {"alone", "force"}
    /\ drain["main"] # "no" => forced["main"] # "no"
    /\ main # "serving" => stop

\* A drain runs in an epoch that stops.
Ending ==
    \A t \in Caller : drain[t] # "no" =>
         stop /\ drop[t] = NoDrop /\ (t \in Session => hpc[t] = "ending")

\* The verdict that the epoch is empty is final.
Proved == proved => stop /\ Leased = {} /\ Draining

\* What thread t knows of the lease it is dropping: whose it is, why it is dropped, and
\* that a lease with a child is not found childless.
DropInOrder(t) ==
    /\ drop[t].of \in Session /\ drop[t].scope # "none"
    /\ t \in Session => drop[t].of = t /\ hpc[t] \in {"failing", "leaving"}
    /\ t \in Forcer => \/ forced[t] # "no"
                       \/ /\ t = "watchdog" /\ dog = "sweep"
                          /\ drop[t].of \in gone \/ hpc[drop[t].of] = "over"
    /\ drop[t].scope = "absent" => t \in Session /\ lease[drop[t].of] = "none"
    /\ lease[drop[t].of] = "live" =>
         \/ WrapperDiesAttaching \/ drop[t].scope = "stuck"
         \/ drop[t].scope = "clean" /\ drop[t].of \notin scopes

Dropping == \A t \in Caller : drop[t] # NoDrop => DropInOrder(t)

Attached == WrapperDiesAttaching \/ \A s \in Session : hpc[s] = "scoped" => s \notin gone

\* A candidate provider exists.
InFlight == {"start", "publish", "rejected", "cancelled"}
\* The transition: under way only under the lock, with the gate shut, its candidate
\* recorded and newer than what was published.
Transit ==
    /\ trans.at \in InFlight \cup {"probe", "done"} => worker = "transition" \/ dog = "mend"
    /\ trans.at \in InFlight \cup {"probe", "raise"} => active = 0 /\ gate = 0
    /\ trans.at \in InFlight =>
         trans.gen \in providers /\ published < trans.gen /\ trans.gen <= generation
    /\ trans.at = "publish" => trans.gen \in running
    /\ published <= generation

\* A repair acts on the generation it has checked.
Checked ==
    /\ dog \in {"check", "repair", "revoke", "halt", "mend"} => seen # 0
    /\ dog \in {"revoke", "halt"} => active = seen /\ trans.at = "no"
    /\ dog = "halt" => gate = 0
    /\ \A t \in Caller : drain[t] = "take" => gate = 0

\* Whatever runs is in use or is the candidate.
Sole ==
    \/ residue \/ stop
    \/ \A g \in running : g # 0 /\ (g = active \/ (trans.at \in InFlight /\ g = trans.gen))

Rung ==
    /\ trans.rung <= trans.last + 1
    /\ trans.at \in {"start", "publish", "rejected", "done"} => trans.rung <= trans.last
    /\ active # 0 /\ dog \notin {"revoke", "halt", "fatal", "force", "gone"} => trans.rung <= Ladder

First ==
    /\ worker = "begin" => ~error
    /\ worker \in {"none", "begin"} /\ ~error /\ ~stop =>
         trans.rung = 1 /\ active = 0 /\ seen = 0

\* The last lease that goes drains the epoch.
Interested ==
    /\ Leased = {} => Draining \/ \A s \in Session : hpc[s] = "new"
    /\ \A s \in Session : lease[s] # "none" => hpc[s] # "new"
    /\ drain["watchdog"] # "no" => Draining \/ \E s \in Session : hpc[s] # "new"

\* After finalize no thread is left; the fence goes no earlier.
Ended ==
    /\ main = "ended" =>
         /\ \A s \in Session : hpc[s] \in {"new", "over"}
         /\ worker = "none" /\ dog = "gone"
         /\ \A t \in Caller : drop[t] = NoDrop /\ drain[t] = "no"
         /\ \A t \in Forcer : forced[t] = "no"
    /\ fence = "none" => main = "ended" /\ Draining

Recorded == running \subseteq providers /\ (WrapperDiesAttaching \/ scopes \subseteq children)

Cleared == fence = "none" => proved /\ running = {} /\ providers = {} /\ children = {}

IInv ==
    /\ TypeOK /\ Locked /\ Forcing /\ Ending /\ Proved /\ Dropping /\ Attached /\ Transit /\ Checked /\ Sole
    /\ Rung /\ First /\ Interested /\ Ended
    /\ RouteIsOwned /\ Recorded /\ Cleared

-----------------------------------------------------------------------------
(* The shape of the state.                                                 *)

\* The values that are written into the record of the transition are its own.
LEMMA Names ==
  /\ \A p \in {"no", "probe", "start", "publish", "rejected", "cancelled", "done", "raise"} : p \in Places
  /\ \A r \in {"initial", "same-rung-repair", "demotion"} : r \in Reasons
  /\ 1 \in 1 .. Ladder + 1 /\ Ladder \in 1 .. Ladder
  BY DEF Places, Reasons

\* A step of a handler, of a shared call, of the transition, of the worker, of the
\* watchdog or of the main thread keeps the shape of the state.
LEMMA HandlerKeepsTypes ==
  ASSUME TypeOK, NEW s \in Session, HandlerWork(s)
  PROVE  TypeOK'
<1>1. UNCHANGED <<trans, drop>>
  BY DEF HandlerWork, Register, AwaitGeneration, FailedRegistration, LinearizeFailed, Told,
         Registered, AttachScope, AttachCommit, AttachUndo, Release, WrapperDies, ConnectionLost
<1>2. EpochTypes'
  <2> USE DEF TypeOK, EpochTypes
  <2>1. CASE Register(s) \/ Registered(s) \/ Told(s) \/ AttachCommit(s)
    BY <2>1 DEF Register, Registered, Told, AttachCommit, Answer
  <2>2. CASE AwaitGeneration(s) \/ FailedRegistration(s) \/ Release(s) \/ WrapperDies(s) \/ ConnectionLost(s)
    BY <2>2 DEF AwaitGeneration, FailedRegistration, Release, WrapperDies, ConnectionLost
  <2>3. CASE LinearizeFailed(s)
    BY <2>3 DEF LinearizeFailed, Linearize, BecomeDraining, NoFail, Fail, MayFail, Phases
  <2>4. CASE AttachScope(s)
    BY <2>4 DEF AttachScope
  <2>5. CASE AttachUndo(s)
    BY <2>5 DEF AttachUndo, Answer, NoFail, Fail
  <2> QED
    BY <2>1, <2>2, <2>3, <2>4, <2>5 DEF HandlerWork
<1>3. HandlerTypes'
  BY DEF TypeOK, HandlerTypes, HandlerWork, Register, AwaitGeneration, FailedRegistration,
         LinearizeFailed, Told, Registered, AttachScope, AttachCommit, AttachUndo, Release, WrapperDies,
         ConnectionLost, Answer, HandlerStates
<1>4. ThreadTypes'
  BY DEF TypeOK, ThreadTypes, HandlerWork, Register, AwaitGeneration, FailedRegistration,
         LinearizeFailed, Told, Registered, AttachScope, AttachCommit, AttachUndo, Release, WrapperDies,
         ConnectionLost, Linearize
<1>v. VerdictTypes'
  <2> USE DEF TypeOK, VerdictTypes
  <2>1. CASE Register(s) \/ Registered(s) \/ Told(s)
    BY <2>1 DEF Register, Registered, Told, Answer
  <2>2. CASE AwaitGeneration(s) \/ FailedRegistration(s) \/ LinearizeFailed(s)
    BY <2>2 DEF AwaitGeneration, FailedRegistration, LinearizeFailed, Linearize
  <2>3. CASE AttachScope(s) \/ AttachCommit(s) \/ AttachUndo(s)
    BY <2>3 DEF AttachScope, AttachCommit, AttachUndo, Answer
  <2>4. CASE Release(s) \/ WrapperDies(s) \/ ConnectionLost(s)
    BY <2>4 DEF Release, WrapperDies, ConnectionLost
  <2> QED
    BY <2>1, <2>2, <2>3, <2>4 DEF HandlerWork
<1> QED
  BY <1>v, <1>1, <1>2, <1>3, <1>4 DEF TypeOK, TransType, DropType

LEMMA CallKeepsTypes ==
  ASSUME TypeOK, NEW t \in Caller, CallWork(t)
  PROVE  TypeOK'
<1>1. UNCHANGED trans
  BY DEF CallWork, CallStep, DropLook, DropPop, DrainLock, DrainTake, DrainProve, ForceDrain
<1>2. EpochTypes'
  <2> USE DEF TypeOK, EpochTypes, NoFail, Fail, MayFail
  <2>1. CASE \E s \in Session : DropLook(t, s)
    BY <2>1 DEF DropLook
  <2>2. CASE DropPop(t)
    <3>1. failures' \in Nat /\ signals' \in Nat /\ repairs' \in Nat
      BY <2>2 DEF DropPop
    <3>2. phase' \in Phases /\ generation' \in Nat /\ fence' \in Phases \cup {"none"}
      BY <2>2 DEF DropPop, BecomeDraining, Phases
    <3>3. children' \subseteq Session 
      BY <2>2 DEF DropPop
    <3> QED
      BY <2>2, <3>1, <3>2, <3>3 DEF DropPop
  <2>3. CASE DrainLock(t)
    BY <2>3 DEF DrainLock
  <2>4. CASE DrainTake(t)
    BY <2>4 DEF DrainTake
  <2>5. CASE DrainProve(t) \/ ForceDrain(t)
    BY <2>5 DEF DrainProve, ForceDrain
  <2> QED
    BY <2>1, <2>2, <2>3, <2>4, <2>5 DEF CallWork, CallStep
<1>3. HandlerTypes'
  BY DEF TypeOK, HandlerTypes, CallWork, CallStep, DropLook, DropPop, DrainLock, DrainTake, DrainProve,
         ForceDrain, HandlerStates
<1>4. ThreadTypes'
  <2> USE DEF TypeOK, ThreadTypes
  <2>1. CASE (\E s \in Session : DropLook(t, s)) \/ DropPop(t)
    BY <2>1 DEF DropLook, DropPop
  <2>2. CASE DrainLock(t) \/ DrainTake(t) \/ ForceDrain(t)
    BY <2>2 DEF DrainLock, DrainTake, ForceDrain
  <2>3. CASE DrainProve(t)
    BY <2>3 DEF DrainProve, DogStates
  <2> QED
    BY <2>1, <2>2, <2>3 DEF CallWork, CallStep
<1>5. DropType'
  <2>1. CASE (\E s \in Session : DropLook(t, s)) \/ DropPop(t)
    BY <2>1 DEF DropLook, DropPop, TypeOK, DropType
  <2>2. CASE DrainLock(t) \/ DrainTake(t)
    BY <2>2 DEF DrainLock, DrainTake, TypeOK, DropType
  <2>3. CASE DrainProve(t) \/ ForceDrain(t)
    BY <2>3 DEF DrainProve, ForceDrain, TypeOK, DropType
  <2> QED
    BY <2>1, <2>2, <2>3 DEF CallWork, CallStep
<1>v. VerdictTypes'
  <2> USE DEF TypeOK, VerdictTypes
  <2>1. CASE (\E s \in Session : DropLook(t, s)) \/ DropPop(t)
    BY <2>1 DEF DropLook, DropPop
  <2>2. CASE DrainLock(t) \/ DrainTake(t)
    BY <2>2 DEF DrainLock, DrainTake
  <2>3. CASE DrainProve(t) \/ ForceDrain(t)
    BY <2>3 DEF DrainProve, ForceDrain
  <2> QED
    BY <2>1, <2>2, <2>3 DEF CallWork, CallStep
<1> QED
  BY <1>v, <1>1, <1>2, <1>3, <1>4, <1>5 DEF TypeOK, TransType

LEMMA TransitionKeepsTypes ==
  ASSUME TypeOK, Rung, NEW t \in Mover, Transition(t)
  PROVE  TypeOK'
<1>1. UNCHANGED <<lease, hpc, gone, tlock, worker, error, dog, seen, main, forced, drain, clean, drop>>
  BY DEF Transition, TransProbe, TransStart, TransPublish, TransCleanup, TransRest
<1>2. EpochTypes'
  <2> USE DEF TypeOK, EpochTypes, TransRest, NoFail, Fail
  <2>1. CASE TransProbe(t)
    <3>1. generation' \in Nat /\ providers' \subseteq Nat
      BY <2>1 DEF TransProbe
    <3> QED
      BY <2>1, <3>1 DEF TransProbe
  <2>2. CASE TransStart(t)
    BY <2>2 DEF TransStart, TransType
  <2>3. CASE TransPublish(t)
    BY <2>3 DEF TransPublish, TransType, Phases
  <2>4. CASE TransCleanup(t)
    BY <2>4 DEF TransCleanup
  <2> QED
    BY <2>1, <2>2, <2>3, <2>4 DEF Transition
<1>3. TransType'
  <2>1. CASE TransProbe(t)
    <3>1. generation + 1 \in Nat
      BY DEF TypeOK, EpochTypes
    <3> QED
      BY <2>1, <3>1, Names DEF TransProbe, TypeOK, TransType
  <2>2. CASE TransStart(t) \/ TransPublish(t)
    BY <2>2, Names DEF TransStart, TransPublish, TypeOK, TransType
  <2>3. CASE TransCleanup(t)
    <3>1. trans.at = "rejected" => trans.rung + 1 \in 1 .. Ladder + 1
      BY DEF TypeOK, TransType, Rung
    <3> QED
      BY <2>3, <3>1, Names DEF TransCleanup, TypeOK, TransType
  <2> QED
    BY <2>1, <2>2, <2>3 DEF Transition
<1>v. VerdictTypes'
  BY DEF TypeOK, VerdictTypes, Transition, TransProbe, TransStart, TransPublish, TransCleanup,
         TransRest
<1> QED
  BY <1>v, <1>1, <1>2, <1>3 DEF TypeOK, HandlerTypes, ThreadTypes, DropType

LEMMA WorkerKeepsTypes ==
  ASSUME TypeOK, WorkerWork
  PROVE  TypeOK'
<1>1. UNCHANGED <<lease, hpc, gone, drop>> /\ EpochTypes'
  BY DEF WorkerWork, WorkerBegin, WorkerEnd, WorkerExit, TypeOK, EpochTypes
<1>2. ThreadTypes'
  BY DEF WorkerWork, WorkerBegin, WorkerEnd, WorkerExit, TypeOK, ThreadTypes
<1>3. TransType'
  <2>1. CASE WorkerBegin
    BY <2>1, Names DEF WorkerBegin, TypeOK, TransType
  <2>2. CASE WorkerEnd
    BY <2>2, Names DEF WorkerEnd, TypeOK, TransType, Rested
  <2>3. CASE WorkerExit
    BY <2>3 DEF WorkerExit, TypeOK, TransType
  <2> QED
    BY <2>1, <2>2, <2>3 DEF WorkerWork
<1>v. VerdictTypes'
  BY DEF TypeOK, VerdictTypes, WorkerWork, WorkerBegin, WorkerEnd, WorkerExit
<1> QED
  BY <1>v, <1>1, <1>2, <1>3 DEF TypeOK, HandlerTypes, DropType

LEMMA DogKeepsTypes ==
  ASSUME TypeOK, Rung, Checked, DogWork
  PROVE  TypeOK'
<1>1. UNCHANGED <<lease, hpc, gone, drop>>
  BY DEF DogWork, DogTick, DogLook, DogAlone, DogCheck, DogRepair, DogRevoke, DogHalt, DogMended,
         DogFatal, DogForce, ForceBegin, DogRest
<1>2. EpochTypes'
  <2> USE DEF TypeOK, EpochTypes, DogRest, NoFail, Fail, MayFail
  <2>1. CASE DogTick \/ DogLook \/ DogMended \/ DogFatal
    BY <2>1 DEF DogTick, DogLook, DogMended, DogFatal
  <2>2. CASE DogCheck
    BY <2>2 DEF DogCheck
  <2>7. CASE DogRevoke
    BY <2>7 DEF DogRevoke
  <2>3. CASE DogAlone
    BY <2>3 DEF DogAlone, Linearize, BecomeDraining, Phases
  <2>4. CASE DogRepair
    BY <2>4 DEF DogRepair, Rung, Checked, TransType
  <2>5. CASE DogHalt
    BY <2>5 DEF DogHalt
  <2>6. CASE DogForce
    BY <2>6 DEF DogForce, ForceBegin, BecomeDraining, Phases
  <2> QED
    BY <2>1, <2>2, <2>3, <2>4, <2>5, <2>6, <2>7 DEF DogWork
<1>3. ThreadTypes'
  <2> USE DEF TypeOK, ThreadTypes, DogStates, DogRest
  <2>1. CASE DogTick \/ DogLook
    BY <2>1 DEF DogTick, DogLook, EpochTypes
  <2>2. CASE DogAlone \/ DogCheck \/ DogRepair
    BY <2>2 DEF DogAlone, DogCheck, DogRepair, Linearize
  <2>3. CASE DogRevoke \/ DogHalt \/ DogMended \/ DogFatal
    BY <2>3 DEF DogRevoke, DogHalt, DogMended, DogFatal
  <2>4. CASE DogForce
    BY <2>4 DEF DogForce, ForceBegin
  <2> QED
    BY <2>1, <2>2, <2>3, <2>4 DEF DogWork
<1>4. TransType'
  <2> USE DEF TypeOK, TransType
  <2>1. CASE UNCHANGED trans
    BY <2>1
  <2>2. CASE DogRepair /\ trans' # trans
    <3>1. trans.rung \in 1 .. Ladder /\ trans.rung + 1 \in 1 .. Ladder + 1
      BY <2>2 DEF DogRepair, Rung, Checked
    <3> QED
      BY <2>2, <3>1, Names DEF DogRepair
  <2>3. CASE DogHalt
    BY <2>3, Names DEF DogHalt
  <2>4. CASE DogMended
    <3>1. trans.last < Ladder => trans.last + 1 \in 1 .. Ladder + 1
      OBVIOUS
    <3>2. CASE trans' = Rested
      BY <3>2, Names DEF Rested
    <3>3. CASE trans.last < Ladder /\ trans' = [trans EXCEPT !.reason = "demotion", !.at = "probe",
                                                             !.rung = trans.last + 1, !.last = Ladder]
      BY <3>1, <3>3, Names
    <3> QED
      BY <2>1, <2>4, <3>2, <3>3 DEF DogMended
  <2>5. CASE DogFatal
    BY <2>5, Names DEF DogFatal, Rested
  <2> QED
    BY <2>1, <2>2, <2>3, <2>4, <2>5 DEF DogWork, DogTick, DogLook, DogAlone, DogCheck, DogRevoke,
       DogForce
<1>v. VerdictTypes'
  <2> USE DEF TypeOK, VerdictTypes
  <2>1. CASE DogTick \/ DogLook \/ DogAlone \/ DogCheck
    BY <2>1 DEF DogTick, DogLook, DogAlone, DogCheck, DogRest, Linearize
  <2>2. CASE DogRepair \/ DogRevoke \/ DogHalt
    BY <2>2 DEF DogRepair, DogRevoke, DogHalt, DogRest, Linearize
  <2>3. CASE DogMended \/ DogFatal \/ DogForce
    BY <2>3 DEF DogMended, DogFatal, DogForce, DogRest, Linearize, ForceBegin
  <2> QED
    BY <2>1, <2>2, <2>3 DEF DogWork
<1> QED
  BY <1>v, <1>1, <1>2, <1>3, <1>4 DEF TypeOK, HandlerTypes, DropType

LEMMA MainKeepsTypes ==
  ASSUME TypeOK, MainWork
  PROVE  TypeOK'
<1>v. VerdictTypes'
  BY DEF TypeOK, VerdictTypes, MainWork, MainLeaves, Finalize, Signal, ForceBegin
<1>1. CASE Finalize
  <2>1. EpochTypes'
    BY <1>1 DEF Finalize, TypeOK, EpochTypes, NoFail, Fail, MayFail
  <2>2. HandlerTypes' /\ ThreadTypes'
    BY <1>1 DEF Finalize, TypeOK, HandlerTypes, HandlerStates, ThreadTypes, DogStates
  <2>3. TransType' /\ DropType'
    BY <1>1, Names DEF Finalize, TypeOK, TransType, DropType, Rested
  <2> QED
    BY <1>v, <2>1, <2>2, <2>3 DEF TypeOK
<1>2. CASE MainLeaves \/ Signal
  <2>1. UNCHANGED <<lease, hpc, gone, trans, drop>>
    BY <1>2 DEF MainLeaves, Signal, ForceBegin
  <2>2. EpochTypes'
    <3>1. CASE UNCHANGED <<epochVars, storeVars, verdictVars, boundVars>>
      BY <1>2, <3>1 DEF MainLeaves, Signal, ForceBegin, TypeOK, EpochTypes
    <3>2. CASE (Signal \/ MainLeaves) /\ ForceBegin("main")
      <4>1. phase' \in Phases /\ generation' \in Nat /\ fence' \in Phases \cup {"none"}
        BY <3>2 DEF ForceBegin, BecomeDraining, TypeOK, EpochTypes, Phases
      <4>2. failures' \in Nat /\ signals' \in Nat /\ repairs' \in Nat
        <5>1. failures' \in Nat /\ repairs' = repairs
          BY <3>2 DEF ForceBegin, TypeOK, EpochTypes
        <5>2. signals' = signals \/ signals' = signals + 1
          BY <3>2 DEF MainLeaves, Signal
        <5> QED
          BY <5>1, <5>2 DEF TypeOK, EpochTypes
      <4> QED
        BY <3>2, <4>1, <4>2 DEF ForceBegin, TypeOK, EpochTypes
    <3> QED
      BY <1>2, <3>1, <3>2 DEF MainLeaves, Signal
  <2>3. ThreadTypes'
    BY <1>2 DEF MainLeaves, Signal, ForceBegin, TypeOK, ThreadTypes
  <2> QED
    BY <1>v, <2>1, <2>2, <2>3 DEF TypeOK, HandlerTypes, TransType, DropType
<1> QED
  BY <1>v, <1>1, <1>2 DEF MainWork

\* Together: every step keeps the shape of the state.
LEMMA NextKeepsTypes ==
  ASSUME TypeOK, Rung, Checked, [Next]_vars
  PROVE  TypeOK'
<1>1. CASE UNCHANGED vars
  BY <1>1 DEF TypeOK, EpochTypes, VerdictTypes, HandlerTypes, ThreadTypes, TransType, DropType
<1> QED
  BY <1>1, StepCases, HandlerKeepsTypes, CallKeepsTypes, TransitionKeepsTypes, WorkerKeepsTypes,
     DogKeepsTypes, MainKeepsTypes

-----------------------------------------------------------------------------
(* The locks and the end of the epoch.                                     *)

\* Every step keeps who holds the transition lock.
LEMMA NextLocked ==
  ASSUME IInv, [Next]_vars
  PROVE  Locked'
<1> USE DEF IInv, Locked, TypeOK, ThreadTypes
<1>1. ASSUME NEW s \in Session, HandlerWork(s) PROVE Locked'
  BY <1>1 DEF HandlerWork, Register, AwaitGeneration, FailedRegistration, LinearizeFailed, Told,
     Registered, AttachScope, AttachCommit, AttachUndo, Release, WrapperDies, ConnectionLost,
     Ending, Linearize, Draining
<1>2. ASSUME NEW t \in Caller, CallWork(t) PROVE Locked'
  <2>1. CASE (\E s \in Session : DropLook(t, s)) \/ DropPop(t)
    <3>1. CASE \E s \in Session : DropLook(t, s)
      BY <3>1 DEF DropLook
    <3>2. CASE DropPop(t)
      BY <3>2 DEF DropPop, Ending, Forcing, HandlerTypes
    <3> QED
      BY <2>1, <3>1, <3>2
  <2>2. CASE DrainLock(t) \/ DrainTake(t)
    BY <2>2 DEF DrainLock, DrainTake, Ending, Forcing, HandlerTypes
  <2>3. CASE DrainProve(t) \/ ForceDrain(t)
    BY <2>3 DEF DrainProve, ForceDrain, Ending, Forcing, HandlerTypes
  <2> QED
    BY <1>2, <2>1, <2>2, <2>3 DEF CallWork, CallStep
<1>3. ASSUME NEW t \in Mover, Transition(t) PROVE Locked'
  BY <1>3 DEF Transition, TransProbe, TransStart, TransPublish, TransCleanup, TransRest, Moves
<1>4. ASSUME WorkerWork PROVE Locked'
  BY <1>4 DEF WorkerWork, WorkerBegin, WorkerEnd, WorkerExit
<1>5. ASSUME DogWork PROVE Locked'
  BY <1>5 DEF DogWork, DogTick, DogLook, DogAlone, DogCheck, DogRepair, DogRevoke, DogHalt, DogMended,
     DogFatal, DogForce, DogRest, Forcing, Ending, Linearize, ForceBegin
<1>6. ASSUME MainWork PROVE Locked'
  BY <1>6 DEF MainWork, MainLeaves, Finalize, Signal, ForceBegin, Ended
<1>7. CASE UNCHANGED vars
  BY <1>7
<1> QED
  BY <1>1, <1>2, <1>3, <1>4, <1>5, <1>6, <1>7, StepCases

\* Every step keeps what a forced shutdown and a drain suppose.
LEMMA NextForcing ==
  ASSUME IInv, [Next]_vars
  PROVE  Forcing'
<1> USE DEF IInv, Forcing, TypeOK, ThreadTypes, Draining
<1>1. ASSUME NEW s \in Session, HandlerWork(s) PROVE Forcing'
  <2>1. CASE Register(s) \/ Registered(s) \/ Told(s)
    BY <2>1 DEF Register, Registered, Told, Answer
  <2>2. CASE AwaitGeneration(s) \/ FailedRegistration(s) \/ LinearizeFailed(s)
    <3>1. CASE AwaitGeneration(s) \/ FailedRegistration(s)
      BY <3>1 DEF AwaitGeneration, FailedRegistration
    <3>2. CASE LinearizeFailed(s)
      <4>1. /\ UNCHANGED <<forced, dog, main>> /\ (stop => stop')
            /\ phase' = phase \/ phase' = "DRAINING"
        BY <3>2 DEF LinearizeFailed, Linearize, BecomeDraining
      <4>2. drain'["watchdog"] = drain["watchdog"] /\ drain'["main"] = drain["main"]
        BY <3>2 DEF LinearizeFailed, Linearize
      <4> QED
        BY <4>1, <4>2
    <3> QED
      BY <2>2, <3>1, <3>2
  <2>3. CASE AttachScope(s) \/ AttachCommit(s) \/ AttachUndo(s)
    BY <2>3 DEF AttachScope, AttachCommit, AttachUndo, Answer
  <2>4. CASE Release(s) \/ WrapperDies(s) \/ ConnectionLost(s)
    BY <2>4 DEF Release, WrapperDies, ConnectionLost
  <2> QED
    BY <1>1, <2>1, <2>2, <2>3, <2>4 DEF HandlerWork
<1>2. ASSUME NEW t \in Caller, CallWork(t) PROVE Forcing'
  <2>1. CASE (\E s \in Session : DropLook(t, s)) \/ DropPop(t)
    BY <2>1 DEF DropLook, DropPop, BecomeDraining
  <2>2. CASE DrainLock(t) \/ DrainTake(t)
    BY <2>2 DEF DrainLock, DrainTake, BecomeDraining
  <2>3. CASE DrainProve(t) \/ ForceDrain(t)
    BY <2>3 DEF DrainProve, ForceDrain, BecomeDraining
  <2> QED
    BY <1>2, <2>1, <2>2, <2>3 DEF CallWork, CallStep
<1>3. ASSUME NEW t \in Mover, Transition(t) PROVE Forcing'
  BY <1>3 DEF Transition, TransProbe, TransStart, TransPublish, TransCleanup, TransRest, Ending
<1>4. ASSUME WorkerWork PROVE Forcing'
  BY <1>4 DEF WorkerWork, WorkerBegin, WorkerEnd, WorkerExit
<1>5. ASSUME DogWork PROVE Forcing'
  BY <1>5 DEF DogWork, DogTick, DogLook, DogAlone, DogCheck, DogRepair, DogRevoke, DogHalt, DogMended,
     DogFatal, DogForce, DogRest, Ending, Linearize, ForceBegin, BecomeDraining
<1>6. ASSUME MainWork PROVE Forcing'
  BY <1>6 DEF MainWork, MainLeaves, Finalize, Signal, ForceBegin, BecomeDraining
<1>7. CASE UNCHANGED vars
  BY <1>7
<1> QED
  BY <1>1, <1>2, <1>3, <1>4, <1>5, <1>6, <1>7, StepCases

\* A handler touches no session but its own, and never one that is leaving.
LEMMA HandlerFrame ==
  ASSUME TypeOK, NEW s \in Session, HandlerWork(s)
  PROVE  /\ \A q \in Session : q # s => hpc'[q] = hpc[q] /\ lease'[q] = lease[q]
         /\ hpc'[s] # hpc[s] => hpc[s] \notin {"failing", "leaving", "ending", "over"}
         /\ stop => stop'
         /\ drop' = drop
         /\ drain' = drain \/ LinearizeFailed(s)
<1>1. stop => stop'
  BY DEF HandlerWork, Register, AwaitGeneration, FailedRegistration, LinearizeFailed, Told,
     Registered, AttachScope, AttachCommit, AttachUndo, Release, WrapperDies, ConnectionLost,
     Answer, Linearize, TypeOK, VerdictTypes
<1>2. drop' = drop /\ (drain' = drain \/ LinearizeFailed(s))
  BY DEF HandlerWork, Register, AwaitGeneration, FailedRegistration, LinearizeFailed, Told,
     Registered, AttachScope, AttachCommit, AttachUndo, Release, WrapperDies, ConnectionLost
<1>3. \A q \in Session : q # s => hpc'[q] = hpc[q] /\ lease'[q] = lease[q]
  BY DEF HandlerWork, Register, AwaitGeneration, FailedRegistration, LinearizeFailed, Told,
     Registered, AttachScope, AttachCommit, AttachUndo, Release, WrapperDies, ConnectionLost,
     Answer, TypeOK, HandlerTypes
<1>4. hpc' # hpc => hpc[s] \notin {"failing", "leaving", "ending", "over"}
  BY DEF HandlerWork, Register, AwaitGeneration, FailedRegistration, LinearizeFailed, Told,
     Registered, AttachScope, AttachCommit, AttachUndo, Release, WrapperDies, ConnectionLost, Idle
<1> QED
  BY <1>1, <1>2, <1>3, <1>4

\* A shared call touches the place of no other thread.
LEMMA CallFrame ==
  ASSUME TypeOK, NEW t \in Caller, CallWork(t)
  PROVE  /\ \A q \in Session : q # t => hpc'[q] = hpc[q]
         /\ \A u \in Caller : u # t => drain'[u] = drain[u] /\ drop'[u] = drop[u]
         /\ stop => stop'
<1>1. stop => stop'
  BY DEF CallWork, CallStep, DropLook, DropPop, DrainLock, DrainTake, DrainProve, ForceDrain,
     TypeOK, VerdictTypes
<1>2. \A q \in Session : q # t => hpc'[q] = hpc[q]
  BY DEF CallWork, CallStep, DropLook, DropPop, DrainLock, DrainTake, DrainProve, ForceDrain,
     TypeOK, HandlerTypes
<1>3. \A u \in Caller : u # t => drain'[u] = drain[u] /\ drop'[u] = drop[u]
  BY DEF CallWork, CallStep, DropLook, DropPop, DrainLock, DrainTake, DrainProve, ForceDrain,
     TypeOK, ThreadTypes, DropType
<1> QED
  BY <1>1, <1>2, <1>3

\* Every step keeps that a drain runs in a stopped epoch, by a thread that drops nothing.
LEMMA NextEnding ==
  ASSUME IInv, [Next]_vars
  PROVE  Ending'
<1> USE DEF IInv, Ending, TypeOK, ThreadTypes
<1>1. ASSUME NEW s \in Session, HandlerWork(s) PROVE Ending'
  <2>1. CASE drain' = drain
    BY <1>1, <2>1, HandlerFrame
  <2>2. CASE LinearizeFailed(s)
    <3>1. \A u \in Caller : u # s => drain'[u] = drain[u]
      BY <2>2 DEF LinearizeFailed, Linearize
    <3>2. drain'[s] # "no" => stop' /\ hpc'[s] = "ending" /\ drop[s] = NoDrop
      <4>1. PICK fails \in BOOLEAN : Linearize(s, fails) /\ hpc'[s] = IF fails THEN "told" ELSE "ending"
        BY <2>2 DEF LinearizeFailed, HandlerTypes
      <4>2. drain'[s] # "no" => ~fails
        BY <4>1 DEF Linearize
      <4>3. ~fails => stop'
        BY <4>1 DEF Linearize
      <4>4. drop[s] = NoDrop
        BY <2>2 DEF LinearizeFailed, Dropping, DropInOrder
      <4> QED
        BY <4>1, <4>2, <4>3, <4>4
    <3> QED
      BY <1>1, <2>2, <3>1, <3>2, HandlerFrame DEF LinearizeFailed
  <2> QED
    BY <1>1, <2>1, <2>2, HandlerFrame
<1>2. ASSUME NEW t \in Caller, CallWork(t) PROVE Ending'
  <2>1. ASSUME NEW u \in Caller, u # t, drain'[u] # "no"
        PROVE  stop' /\ drop'[u] = NoDrop /\ (u \in Session => hpc'[u] = "ending")
    BY <1>2, <2>1, CallFrame
  <2>2. ASSUME drain'[t] # "no"
        PROVE  stop' /\ drop'[t] = NoDrop /\ (t \in Session => hpc'[t] = "ending")
    <3>1. CASE \E s \in Session : DropLook(t, s)
      BY <2>2, <3>1 DEF DropLook, Drops
    <3>2. CASE DropPop(t)
      <4>1. t \in Session /\ drop'[t] = NoDrop
        BY <2>2, <3>2 DEF DropPop, DropType, Dropping, Forcing
      <4>2. stop'
        <5>1. \E drains \in BOOLEAN :
                 stop' = (stop \/ drains) /\ drain' = [drain EXCEPT ![t] = IF drains THEN "lock" ELSE "no"]
          BY <3>2, <4>1 DEF DropPop
        <5>2. \E drains \in BOOLEAN : stop' = (stop \/ drains) /\ drains
          BY <2>2, <5>1
        <5> QED
          BY <5>2
      <4>3. hpc'[t] = "ending"
        BY <2>2, <3>2, <4>1 DEF DropPop, HandlerTypes
      <4> QED
        BY <4>1, <4>2, <4>3
    <3>3. CASE DrainLock(t) \/ DrainTake(t) \/ DrainProve(t)
      BY <2>2, <3>3 DEF DrainLock, DrainTake, DrainProve
    <3>4. CASE t \in Forcer /\ ForceDrain(t)
      BY <2>2, <3>4 DEF ForceDrain, Forcing
    <3> QED
      BY <1>2, <3>1, <3>2, <3>3, <3>4 DEF CallWork, CallStep
  <2> QED
    BY <2>1, <2>2
<1>3. ASSUME NEW t \in Mover, Transition(t) PROVE Ending'
  BY <1>3 DEF Transition, TransProbe, TransStart, TransPublish, TransCleanup, TransRest
<1>4. ASSUME WorkerWork PROVE Ending'
  BY <1>4 DEF WorkerWork, WorkerBegin, WorkerEnd, WorkerExit
<1>5. ASSUME DogWork PROVE Ending'
  <2>3. stop => stop'
    BY <1>5 DEF DogWork, DogTick, DogLook, DogAlone, DogCheck, DogRepair, DogRevoke, DogHalt,
       DogMended, DogFatal, DogForce, DogRest, Linearize, ForceBegin
  <2>1. drop' = drop /\ hpc' = hpc /\ (drain' = drain \/ DogAlone)
    BY <1>5 DEF DogWork, DogTick, DogLook, DogAlone, DogCheck, DogRepair, DogRevoke, DogHalt,
       DogMended, DogFatal, DogForce, DogRest, Linearize, ForceBegin
  <2>2. CASE DogAlone
    <3>1. \A u \in Caller : u # "watchdog" => drain'[u] = drain[u]
      BY <2>2 DEF DogAlone, Linearize
    <3>2. drain'["watchdog"] # "no" => stop'
      BY <2>2 DEF DogAlone, Linearize
    <3>3. drop["watchdog"] = NoDrop
      BY <2>2 DEF DogAlone, Dropping, DropInOrder, Forcing
    <3> QED
      BY <2>1, <2>3, <3>1, <3>2, <3>3
  <2> QED
    BY <2>1, <2>2, <2>3
<1>6. ASSUME MainWork PROVE Ending'
  BY <1>6 DEF MainWork, MainLeaves, Finalize, Signal, ForceBegin
<1>7. CASE UNCHANGED vars
  BY <1>7
<1> QED
  BY <1>1, <1>2, <1>3, <1>4, <1>5, <1>6, <1>7, StepCases

\* Every step keeps that an epoch proved empty has no lease and drains.
LEMMA NextProved ==
  ASSUME IInv, [Next]_vars
  PROVE  Proved'
<1> USE DEF IInv, Proved, TypeOK, HandlerTypes, Draining, Leased
<1>1. ASSUME NEW s \in Session, HandlerWork(s) PROVE Proved'
  BY <1>1 DEF HandlerWork, Register, AwaitGeneration, FailedRegistration, LinearizeFailed, Told,
     Registered, AttachScope, AttachCommit, AttachUndo, Release, WrapperDies, ConnectionLost,
     Answer, Linearize, BecomeDraining
<1>2. ASSUME NEW t \in Caller, CallWork(t) PROVE Proved'
  <2>1. CASE \E s \in Session : DropLook(t, s)
    BY <2>1 DEF DropLook
  <2>2. CASE DropPop(t)
    BY <2>2 DEF DropPop, BecomeDraining
  <2>3. CASE DrainLock(t) \/ DrainTake(t)
    BY <2>3 DEF DrainLock, DrainTake
  <2>4. CASE DrainProve(t)
    <3>1. proved' => Leased = {} /\ stop'
      BY <2>4 DEF DrainProve, Ending
    <3>2. t \in Session => hpc[t] # "new"
      BY <2>4 DEF DrainProve, Ending
    <3>3. Leased = {} => Draining
      BY <2>4, <3>2 DEF DrainProve, Interested, Forcing
    <3> QED
      BY <2>4, <3>1, <3>3 DEF DrainProve
  <2>5. CASE t \in Forcer /\ ForceDrain(t)
    BY <2>5 DEF ForceDrain
  <2> QED
    BY <1>2, <2>1, <2>2, <2>3, <2>4, <2>5 DEF CallWork, CallStep
<1>3. ASSUME NEW t \in Mover, Transition(t) PROVE Proved'
  BY <1>3 DEF Transition, TransProbe, TransStart, TransPublish, TransCleanup, TransRest, Locked
<1>4. ASSUME WorkerWork PROVE Proved'
  BY <1>4 DEF WorkerWork, WorkerBegin, WorkerEnd, WorkerExit
<1>5. ASSUME DogWork PROVE Proved'
  BY <1>5 DEF DogWork, DogTick, DogLook, DogAlone, DogCheck, DogRepair, DogRevoke, DogHalt, DogMended,
     DogFatal, DogForce, DogRest, Linearize, ForceBegin, BecomeDraining
<1>6. ASSUME MainWork PROVE Proved'
  BY <1>6 DEF MainWork, MainLeaves, Finalize, Signal, ForceBegin, BecomeDraining
<1>7. CASE UNCHANGED vars
  BY <1>7
<1> QED
  BY <1>1, <1>2, <1>3, <1>4, <1>5, <1>6, <1>7, StepCases

-----------------------------------------------------------------------------
(* The leases that are dropped.                                            *)

\* Every step keeps that a wrapper lives as long as its child is attached.
LEMMA NextAttached ==
  ASSUME IInv, [Next]_vars
  PROVE  Attached'
<1> USE DEF IInv, Attached, TypeOK, HandlerTypes
<1>1. ASSUME NEW s \in Session, HandlerWork(s) PROVE Attached'
  BY <1>1 DEF HandlerWork, Register, AwaitGeneration, FailedRegistration, LinearizeFailed, Told,
     Registered, AttachScope, AttachCommit, AttachUndo, Release, WrapperDies, ConnectionLost, Answer, Idle
<1>2. ASSUME NEW t \in Caller, CallWork(t) PROVE Attached'
  <2>1. CASE (\E s \in Session : DropLook(t, s)) \/ DropPop(t)
    BY <2>1 DEF DropLook, DropPop
  <2>2. CASE DrainLock(t) \/ DrainTake(t)
    BY <2>2 DEF DrainLock, DrainTake
  <2>3. CASE DrainProve(t) \/ ForceDrain(t)
    BY <2>3 DEF DrainProve, ForceDrain
  <2> QED
    BY <1>2, <2>1, <2>2, <2>3 DEF CallWork, CallStep
<1>3. ASSUME NEW t \in Mover, Transition(t) PROVE Attached'
  BY <1>3 DEF Transition, TransProbe, TransStart, TransPublish, TransCleanup, TransRest
<1>4. ASSUME WorkerWork PROVE Attached'
  BY <1>4 DEF WorkerWork, WorkerBegin, WorkerEnd, WorkerExit
<1>5. ASSUME DogWork PROVE Attached'
  BY <1>5 DEF DogWork, DogTick, DogLook, DogAlone, DogCheck, DogRepair, DogRevoke, DogHalt, DogMended,
     DogFatal, DogForce, DogRest, ForceBegin
<1>6. ASSUME MainWork PROVE Attached'
  BY <1>6 DEF MainWork, MainLeaves, Finalize, Signal, ForceBegin
<1>7. CASE UNCHANGED vars
  BY <1>7
<1> QED
  BY <1>1, <1>2, <1>3, <1>4, <1>5, <1>6, <1>7, StepCases

\* A handler does not invalidate what another thread knows of the lease it is dropping.
LEMMA HandlerKeepsDropping ==
  ASSUME IInv, NEW s \in Session, HandlerWork(s)
  PROVE  Dropping'
<1> SUFFICES ASSUME NEW t \in Caller, drop'[t] # NoDrop PROVE DropInOrder(t)'
  BY DEF Dropping
<1>1. drop' = drop /\ DropInOrder(t)
  BY HandlerFrame DEF IInv, Dropping
<1> DEFINE o == drop[t].of
<1>2. o \in Session /\ TypeOK
  BY <1>1 DEF DropInOrder, IInv
<1>3. UNCHANGED <<forced, dog>>
  BY DEF HandlerWork, Register, AwaitGeneration, FailedRegistration, LinearizeFailed, Told,
     Registered, AttachScope, AttachCommit, AttachUndo, Release, WrapperDies, ConnectionLost
<1>4. o \in gone => o \in gone' \/ hpc'[o] = "over"
  BY <1>2 DEF HandlerWork, Register, AwaitGeneration, FailedRegistration, LinearizeFailed, Told,
     Registered, AttachScope, AttachCommit, AttachUndo, Release, WrapperDies, ConnectionLost,
     TypeOK, HandlerTypes
<1>5. t \in Session => hpc'[t] = hpc[t]
  BY <1>1, <1>2, HandlerFrame DEF DropInOrder
<1>6. hpc[o] = "over" => hpc'[o] = "over"
  BY <1>2, HandlerFrame
<1>7. drop[t].scope = "absent" => lease'[o] = lease[o]
  BY <1>1, <1>2 DEF DropInOrder, HandlerWork, Register, AwaitGeneration, FailedRegistration,
     LinearizeFailed, Told, Registered, AttachScope, AttachCommit, AttachUndo, Release, WrapperDies,
     ConnectionLost, TypeOK, HandlerTypes
<1>8. WrapperDiesAttaching \/ (lease'[o] = "live" => lease[o] = "live")
  <2>1. CASE AttachCommit(s) /\ s = o /\ ~WrapperDiesAttaching
    BY <1>1, <2>1 DEF AttachCommit, DropInOrder, IInv, Attached, Forcing, Draining
  <2>2. CASE ~AttachCommit(s)
    BY <1>2, <2>2 DEF HandlerWork, Register, AwaitGeneration, FailedRegistration,
       LinearizeFailed, Told, Registered, AttachScope, AttachUndo, Release, WrapperDies,
       ConnectionLost, TypeOK, HandlerTypes
  <2> QED
    BY <1>2, <2>1, <2>2, HandlerFrame
<1>9. lease[o] = "live" /\ o \notin scopes => o \notin scopes'
  BY <1>2 DEF HandlerWork, Register, AwaitGeneration, FailedRegistration, LinearizeFailed, Told,
     Registered, AttachScope, AttachCommit, AttachUndo, Release, WrapperDies, ConnectionLost
<1> HIDE DEF o
<1> QED
  BY <1>1, <1>2, <1>3, <1>4, <1>5, <1>6, <1>7, <1>8, <1>9 DEF DropInOrder, o

\* Nor does a shared call, which may be dropping the same lease.
LEMMA CallKeepsDropping ==
  ASSUME IInv, NEW c \in Caller, CallWork(c)
  PROVE  Dropping'
<1> SUFFICES ASSUME NEW t \in Caller, drop'[t] # NoDrop PROVE DropInOrder(t)'
  BY DEF Dropping
<1>1. TypeOK
  BY DEF IInv
<1>2. CASE \E s \in Session : DropLook(c, s) /\ c = t
  <2>1. PICK s \in Session : DropLook(c, s)
    BY <1>2
  <2>2. drop'[t].of = s /\ drop'[t].scope # "none"
    BY <1>1, <1>2, <2>1 DEF DropLook, TypeOK, DropType
  <2>3. t \in Session => s = t /\ hpc'[t] \in {"failing", "leaving"}
    BY <1>2, <2>1 DEF DropLook, Drops
  <2>4. t \in Forcer => \/ forced'[t] # "no"
                        \/ t = "watchdog" /\ dog' = "sweep" /\ s \in gone'
    BY <1>2, <2>1 DEF DropLook, Drops
  <2>5. drop'[t].scope = "absent" => t \in Session /\ lease'[s] = "none"
    BY <1>1, <1>2, <2>1 DEF DropLook, Drops, Leased, TypeOK, DropType
  <2>6. lease'[s] = "live" =>
          drop'[t].scope = "stuck" \/ (drop'[t].scope = "clean" /\ s \notin scopes')
    <3>1. CASE lease[s] = "live"
      <4>1. \/ drop'[t].scope = "stuck"
            \/ drop'[t].scope = "clean" /\ scopes' = scopes \ {s}
        <5>1. PICK fails \in BOOLEAN :
                 /\ drop' = [drop EXCEPT ![c] = [of |-> s, scope |-> IF fails THEN "stuck" ELSE "clean"]]
                 /\ scopes' = IF ~fails THEN scopes \ {s} ELSE scopes
          BY <2>1, <3>1 DEF DropLook
        <5>2. CASE fails
          BY <1>1, <1>2, <5>1, <5>2 DEF TypeOK, DropType
        <5>3. CASE ~fails
          BY <1>1, <1>2, <5>1, <5>3 DEF TypeOK, DropType
        <5> QED
          BY <5>2, <5>3
      <4> QED
        BY <4>1
    <3> QED
      BY <2>1, <3>1 DEF DropLook
  <2> QED
    BY <2>2, <2>3, <2>4, <2>5, <2>6 DEF DropInOrder
<1>3. CASE ~(\E s \in Session : DropLook(c, s) /\ c = t)
  <2>1. drop'[t] = drop[t]
    BY <1>1, <1>3, CallFrame DEF CallWork, CallStep, DropPop, DrainLock, DrainTake, DrainProve, ForceDrain,
       TypeOK, DropType
  <2>2. DropInOrder(t) /\ (drain[t] = "no") /\ (c = t => ForceDrain(c))
    BY <1>1, <1>3, <2>1 DEF IInv, Dropping, Ending, CallWork, CallStep, DropPop, DrainLock, DrainTake, DrainProve,
       TypeOK, DropType
  <2> DEFINE o == drop[t].of
  <2>3. o \in Session
    BY <2>2 DEF DropInOrder
  <2>4. t \in Session => hpc'[t] = hpc[t]
    BY <1>1, <2>2, CallFrame DEF ForceDrain
  <2>5. (hpc[o] = "over" => hpc'[o] = "over") /\ (o \in gone => o \in gone' \/ hpc'[o] = "over")
    <3>1. CASE (\E s \in Session : DropLook(c, s)) \/ DrainLock(c) \/ DrainTake(c) \/ ForceDrain(c)
      BY <3>1 DEF DropLook, DrainLock, DrainTake, ForceDrain
    <3>2. CASE DropPop(c)
      BY <2>3, <3>2 DEF DropPop, TypeOK, HandlerTypes, Drops, IInv, Ending, Dropping, DropInOrder
    <3>3. CASE DrainProve(c)
      <4>1. CASE c \in Session
        <5>1. hpc' = [hpc EXCEPT ![c] = "over"] /\ gone' = gone \ {c}
          BY <3>3, <4>1 DEF DrainProve
        <5>2. hpc \in [Session -> HandlerStates]
          BY <1>1 DEF TypeOK, HandlerTypes
        <5> QED
          BY <2>3, <4>1, <5>1, <5>2
      <4>2. CASE c \notin Session
        BY <3>3, <4>2 DEF DrainProve
      <4> QED
        BY <4>1, <4>2
    <3> QED
      BY <1>1, <3>1, <3>2, <3>3 DEF CallWork, CallStep
  <2>6. t \in Forcer => forced'[t] = forced[t]
    BY <1>1, <2>2 DEF CallWork, CallStep, DropLook, DropPop, DrainLock, DrainTake, DrainProve, ForceDrain,
       TypeOK, ThreadTypes
  <2>7. t = "watchdog" => dog' = dog
    BY <2>2 DEF CallWork, CallStep, DropLook, DropPop, DrainLock, DrainTake, DrainProve, ForceDrain
  <2>8. lease'[o] \in {lease[o], "none"} /\ (o \notin scopes => o \notin scopes')
    BY <1>1, <2>3 DEF CallWork, CallStep, DropLook, DropPop, DrainLock, DrainTake, DrainProve, ForceDrain,
       TypeOK, HandlerTypes
  <2> HIDE DEF o
  <2> QED
    BY <2>1, <2>2, <2>3, <2>4, <2>5, <2>6, <2>7, <2>8 DEF DropInOrder, o
<1> QED
  BY <1>2, <1>3

\* Every step keeps what is known of a lease that is being dropped.
LEMMA NextDropping ==
  ASSUME IInv, [Next]_vars
  PROVE  Dropping'
<1>1. ASSUME UNCHANGED <<drop, hpc, gone, lease, scopes>>,
             \A t \in Forcer : forced[t] # "no" => forced'[t] # "no",
             drop["watchdog"] # NoDrop /\ dog = "sweep" => dog' = "sweep"
      PROVE  Dropping'
  BY <1>1 DEF IInv, Dropping, DropInOrder
<1>2. ASSUME NEW t \in Mover, Transition(t) PROVE Dropping'
  BY <1>1, <1>2 DEF Transition, TransProbe, TransStart, TransPublish, TransCleanup, TransRest
<1>3. ASSUME WorkerWork PROVE Dropping'
  BY <1>1, <1>3 DEF WorkerWork, WorkerBegin, WorkerEnd, WorkerExit
<1>4. ASSUME DogWork PROVE Dropping'
  BY <1>1, <1>4 DEF DogWork, DogTick, DogLook, DogAlone, DogCheck, DogRepair, DogRevoke, DogHalt,
     DogMended, DogFatal, DogForce, DogRest, ForceBegin, IInv, TypeOK, ThreadTypes
<1>5. CASE Finalize
  BY <1>5 DEF Finalize, Dropping
<1>6. CASE MainLeaves \/ Signal
  BY <1>1, <1>6 DEF MainLeaves, Signal, ForceBegin, IInv, TypeOK, ThreadTypes
<1>7. CASE UNCHANGED vars
  BY <1>1, <1>7
<1> QED
  BY <1>2, <1>3, <1>4, <1>5, <1>6, <1>7, HandlerKeepsDropping, CallKeepsDropping, StepCases DEF MainWork

-----------------------------------------------------------------------------
(* The transition and the repair.                                          *)

\* While a drain holds the lock no transition is under way.
LEMMA LockHeld ==
  ASSUME IInv, NEW t \in Caller, DrainLock(t) \/ DrainTake(t) \/ DrainProve(t)
  PROVE  /\ worker # "transition" /\ dog \notin {"revoke", "halt", "mend", "fatal"}
         /\ trans.at \in {"no", "raise"}
<1>1. worker # "transition" /\ dog \notin {"revoke", "halt", "mend", "fatal"}
  BY DEF IInv, Locked, Forcing, DrainLock, DrainTake, DrainProve
<1> QED
  BY <1>1 DEF IInv, TypeOK, TransType, Places, Transit, InFlight

\* Every step keeps how far the transition is: its candidate is recorded and fresh.
LEMMA NextTransit ==
  ASSUME IInv, [Next]_vars
  PROVE  Transit'
<1> USE DEF InFlight
<1>a. TypeOK /\ Transit /\ Locked /\ generation \in Nat
  BY DEF IInv, TypeOK, EpochTypes
<1>b. ASSUME UNCHANGED <<trans, published, active, gate, providers, running>>,
             worker = "transition" \/ dog = "mend" => worker' = "transition" \/ dog' = "mend",
             generation' \in {generation, generation + 1}
      PROVE  Transit'
  BY <1>a, <1>b DEF Transit, TypeOK, EpochTypes, TransType
<1>1. ASSUME NEW s \in Session, HandlerWork(s) PROVE Transit'
  <2>1. UNCHANGED <<trans, published, active, gate, providers, running, dog>>
    BY <1>1 DEF HandlerWork, Register, AwaitGeneration, FailedRegistration, LinearizeFailed, Told,
       Registered, AttachScope, AttachCommit, AttachUndo, Release, WrapperDies, ConnectionLost
  <2>2. worker = "transition" => worker' = "transition"
    BY <1>1 DEF HandlerWork, Register, AwaitGeneration, FailedRegistration, LinearizeFailed, Told,
       Registered, AttachScope, AttachCommit, AttachUndo, Release, WrapperDies, ConnectionLost
  <2>3. generation' \in {generation, generation + 1}
    BY <1>1 DEF HandlerWork, Register, AwaitGeneration, FailedRegistration, LinearizeFailed, Told,
       Registered, AttachScope, AttachCommit, AttachUndo, Release, WrapperDies, ConnectionLost,
       Linearize, BecomeDraining
  <2> QED
    BY <2>1, <2>2, <2>3, <1>b
<1>2. ASSUME NEW t \in Caller, CallWork(t) PROVE Transit'
  <2>1. CASE (\E s \in Session : DropLook(t, s)) \/ DropPop(t) \/ ForceDrain(t)
    BY <1>b, <2>1 DEF DropLook, DropPop, ForceDrain, BecomeDraining
  <2>2. CASE DrainLock(t) \/ DrainTake(t) \/ DrainProve(t)
    BY <1>a, <2>2, LockHeld DEF DrainLock, DrainTake, DrainProve, Transit
  <2> QED
    BY <1>2, <2>1, <2>2 DEF CallWork, CallStep
<1>3. ASSUME NEW t \in Mover, Transition(t) PROVE Transit'
  <2> USE DEF TransRest, Moves
  <2>0. UNCHANGED <<worker, dog>> /\ (worker = "transition" \/ dog = "mend")
    BY <1>3 DEF Transition, TransProbe, TransStart, TransPublish, TransCleanup, Mover
  <2>1. CASE TransProbe(t)
    <3>1. CASE UNCHANGED <<generation, providers>>
      BY <1>a, <2>0, <2>1, <3>1 DEF TransProbe, Transit, TypeOK, TransType
    <3>2. CASE generation' = generation + 1 /\ providers' = providers \cup {generation'}
               /\ trans' = [trans EXCEPT !.at = "start", !.gen = generation']
      <4>1. trans'.gen = generation + 1 /\ trans'.at = "start"
        BY <1>a, <3>2 DEF TypeOK, TransType
      <4> QED
        BY <1>a, <2>0, <2>1, <3>2, <4>1 DEF TransProbe, Transit, TypeOK, EpochTypes
    <3> QED
      BY <2>1, <3>1, <3>2 DEF TransProbe
  <2>2. CASE TransStart(t)
    BY <1>a, <2>0, <2>2 DEF TransStart, Transit, TypeOK, TransType
  <2>3. CASE TransPublish(t)
    <3>1. CASE UNCHANGED <<gate, published, active>>
      BY <1>a, <2>0, <2>3, <3>1 DEF TransPublish, Transit, TypeOK, TransType
    <3>2. CASE trans' = [trans EXCEPT !.at = "done"]
      BY <1>a, <2>0, <2>3, <3>2 DEF TransPublish, Transit, TypeOK, TransType, EpochTypes
    <3>3. CASE trans' = [trans EXCEPT !.at = "rejected"] /\ active' = 0 /\ UNCHANGED <<gate, published>>
      BY <1>a, <2>0, <2>3, <3>3 DEF TransPublish, Transit, TypeOK, TransType
    <3> QED
      BY <2>3, <3>1, <3>2, <3>3 DEF TransPublish
  <2>4. CASE TransCleanup(t)
    BY <1>a, <2>0, <2>4 DEF TransCleanup, Transit, TypeOK, TransType
  <2> QED
    BY <1>3, <2>1, <2>2, <2>3, <2>4 DEF Transition
<1>4. ASSUME WorkerWork PROVE Transit'
  <2>1. CASE WorkerBegin
    <3>1. CASE UNCHANGED <<trans, tlock>> /\ worker # "transition"
      BY <1>a, <2>1, <3>1 DEF IInv, Transit, WorkerBegin
    <3>2. CASE /\ active = 0 /\ worker' = "transition"
               /\ trans' = [trans EXCEPT !.reason = "initial", !.at = "probe", !.rung = 1, !.last = Ladder]
      <4>1. trans'.at = "probe"
        BY <1>a, <3>2 DEF IInv, TypeOK, TransType
      <4>2. gate = 0
        BY <1>a, <3>2 DEF IInv, RouteIsOwned
      <4> QED
        BY <1>a, <2>1, <3>2, <4>1, <4>2 DEF IInv, Transit, WorkerBegin, InFlight
    <3> QED
      BY <2>1, <3>1, <3>2 DEF WorkerBegin
  <2>2. CASE WorkerEnd
    BY <1>a, <2>2 DEF IInv, TypeOK, TransType, EpochTypes, Transit, WorkerEnd, Locked, Rested
  <2>3. CASE WorkerExit
    BY <1>a, <2>3 DEF IInv, Transit, WorkerExit
  <2> QED
    BY <1>4, <2>1, <2>2, <2>3 DEF WorkerWork
<1>5. ASSUME DogWork PROVE Transit'
  <2>1. CASE DogTick \/ DogLook \/ DogCheck \/ DogAlone \/ DogForce
    BY <1>b, <2>1 DEF DogTick, DogLook, DogCheck, DogAlone, DogForce, DogRest, Linearize, ForceBegin,
       BecomeDraining
  <2>2. CASE DogRepair
    <3>1. CASE UNCHANGED trans
      BY <1>b, <2>2, <3>1 DEF DogRepair, DogRest
    <3>2. CASE tlock = "nobody"
      <4>1. trans.at \in {"no", "raise"} /\ trans'.at = trans.at
        <5>1. worker # "transition" /\ dog # "mend" /\ trans.at \in Places
          BY <1>a, <2>2, <3>2 DEF DogRepair, Locked, TypeOK, TransType
        <5>2. trans'.at = trans.at
          BY <1>a, <2>2 DEF DogRepair, TypeOK, TransType
        <5> QED
          BY <1>a, <5>1, <5>2 DEF Transit, Places
      <4> QED
        BY <1>a, <2>2, <4>1 DEF DogRepair, DogRest, Transit
    <3> QED
      BY <2>2, <3>1, <3>2 DEF DogRepair
  <2>3. CASE DogRevoke \/ DogHalt
    <3>1. trans.at = "no"
      BY <2>3 DEF IInv, Checked, DogRevoke, DogHalt
    <3>2. CASE UNCHANGED trans
      BY <1>a, <2>3, <3>1, <3>2 DEF DogRevoke, DogHalt, DogRest, Transit
    <3>3. CASE trans' = [trans EXCEPT !.at = "probe"] /\ DogHalt
      <4>1. trans'.at = "probe" /\ gate = 0
        BY <1>a, <3>3 DEF TypeOK, TransType, IInv, Checked, DogHalt
      <4> QED
        BY <1>a, <3>3, <4>1 DEF DogHalt, Transit
    <3> QED
      BY <2>3, <3>2, <3>3 DEF DogRevoke, DogHalt
  <2>4. CASE DogMended \/ DogFatal
    <3>1. trans'.at \in {"no", "probe", "raise"}
      BY <1>a, <2>4 DEF DogMended, DogFatal, Rested, TypeOK, TransType
    <3>2. trans'.at = "raise" => trans.at = "raise"
      BY <1>a, <2>4 DEF DogMended, DogFatal, Rested, TypeOK, TransType
    <3>3. trans'.at = "probe" => trans.at = "raise" /\ dog' = "mend"
      BY <1>a, <2>4 DEF DogMended, DogFatal, Rested, TypeOK, TransType
    <3> QED
      BY <1>a, <2>4, <3>1, <3>2, <3>3 DEF DogMended, DogFatal, DogRest, Transit
  <2> QED
    BY <1>5, <2>1, <2>2, <2>3, <2>4 DEF DogWork
<1>6. ASSUME MainWork PROVE Transit'
  <2>1. CASE Finalize
    BY <1>a, <2>1 DEF Finalize, Rested, Transit, TypeOK, TransType
  <2>2. CASE MainLeaves \/ Signal
    BY <1>b, <2>2 DEF MainLeaves, Signal, ForceBegin, BecomeDraining
  <2> QED
    BY <1>6, <2>1, <2>2 DEF MainWork
<1>7. CASE UNCHANGED vars
  BY <1>b, <1>7
<1> QED
  BY <1>1, <1>2, <1>3, <1>4, <1>5, <1>6, <1>7, StepCases

\* Every step keeps what a repair and a drain know of the gate.
LEMMA NextChecked ==
  ASSUME IInv, [Next]_vars
  PROVE  Checked'
<1>a. TypeOK /\ Checked /\ Locked /\ Transit
  BY DEF IInv
<1>1. ASSUME NEW s \in Session, HandlerWork(s) PROVE Checked'
  BY <1>a, <1>1 DEF Checked, TypeOK, ThreadTypes, HandlerWork, Register, AwaitGeneration,
     FailedRegistration, LinearizeFailed, Told, Registered, AttachScope, AttachCommit, AttachUndo,
     Release, WrapperDies, ConnectionLost, Linearize
<1>2. ASSUME NEW t \in Caller, CallWork(t) PROVE Checked'
  <2>1. CASE (\E s \in Session : DropLook(t, s)) \/ DropPop(t) \/ ForceDrain(t)
    BY <1>a, <2>1 DEF Checked, TypeOK, ThreadTypes, DropLook, DropPop, ForceDrain
  <2>2. CASE DrainLock(t) \/ DrainTake(t) \/ DrainProve(t)
    <3>1. dog \notin {"revoke", "halt", "mend"} /\ (dog' = "gone" \/ UNCHANGED <<dog, seen>>)
      BY <2>2, LockHeld DEF DrainLock, DrainTake, DrainProve
    <3>2. \A u \in Caller : drain'[u] = "take" => gate' = 0
      BY <1>a, <2>2 DEF Checked, DrainLock, DrainTake, DrainProve, TypeOK, ThreadTypes
    <3> QED
      BY <1>a, <3>1, <3>2 DEF Checked
  <2> QED
    BY <1>2, <2>1, <2>2 DEF CallWork, CallStep
<1>3. ASSUME NEW t \in Mover, Transition(t) PROVE Checked'
  <2>1. tlock \in {"worker", "watchdog"} /\ dog \notin {"revoke", "halt"}
        /\ (tlock = "watchdog" => dog = "mend")
    BY <1>a, <1>3 DEF Transition, TransProbe, TransStart, TransPublish, TransCleanup, Mover, Moves, Locked
  <2>2. \A u \in Caller : drain[u] # "take"
    BY <1>a, <2>1 DEF Locked, IInv, Forcing
  <2> QED
    BY <1>a, <1>3, <2>1, <2>2 DEF Transition, TransProbe, TransStart, TransPublish, TransCleanup, TransRest, Checked
<1>4. ASSUME WorkerWork PROVE Checked'
  <2>1. CASE UNCHANGED <<trans, tlock>>
    BY <1>a, <1>4, <2>1 DEF Checked, WorkerWork, WorkerBegin, WorkerEnd, WorkerExit
  <2>2. CASE (WorkerBegin /\ tlock = "nobody") \/ WorkerEnd
    <3>1. dog \notin {"revoke", "halt"}
      BY <1>a, <2>2 DEF Locked, WorkerEnd
    <3> QED
      BY <1>a, <1>4, <3>1 DEF Checked, WorkerWork, WorkerBegin, WorkerEnd, WorkerExit
  <2> QED
    BY <1>4, <2>1, <2>2 DEF WorkerWork, WorkerBegin, WorkerExit
<1>5. ASSUME DogWork PROVE Checked'
  <2>1. CASE DogTick \/ DogLook \/ DogCheck \/ DogRevoke
    BY <1>a, <2>1 DEF DogTick, DogLook, DogCheck, DogRevoke, DogRest, Checked
  <2>2. CASE DogAlone \/ DogForce
    BY <1>a, <2>2 DEF DogAlone, DogForce, DogRest, Linearize, ForceBegin, Checked, TypeOK, ThreadTypes
  <2>3. CASE DogRepair
    <3>1. CASE dog' = "idle"
      BY <1>a, <2>3, <3>1 DEF DogRepair, DogRest, Checked
    <3>2. CASE dog' = "revoke" /\ tlock = "nobody" /\ active = seen /\ seen' = seen
      <4>1. worker # "transition" /\ dog # "mend" /\ seen # 0 /\ trans.at \in Places
        BY <1>a, <2>3, <3>2 DEF DogRepair, Locked, Checked, TypeOK, TransType
      <4>2. trans.at = "no"
        BY <1>a, <3>2, <4>1 DEF Transit, InFlight, Places
      <4>3. trans'.at = trans.at
        BY <1>a, <2>3 DEF DogRepair, TypeOK, TransType
      <4> QED
        BY <1>a, <2>3, <3>2, <4>1, <4>2, <4>3 DEF DogRepair, DogRest, Checked
    <3> QED
      BY <2>3, <3>1, <3>2 DEF DogRepair
  <2>4. CASE DogHalt \/ DogMended \/ DogFatal
    BY <1>a, <2>4 DEF DogHalt, DogMended, DogFatal, DogRest, Checked
  <2> QED
    BY <1>5, <2>1, <2>2, <2>3, <2>4 DEF DogWork
<1>6. ASSUME MainWork PROVE Checked'
  BY <1>a, <1>6 DEF MainWork, MainLeaves, Finalize, Signal, ForceBegin, Checked
<1>7. CASE UNCHANGED vars
  BY <1>a, <1>7 DEF Checked
<1> QED
  BY <1>1, <1>2, <1>3, <1>4, <1>5, <1>6, <1>7, StepCases

\* Every step keeps that one provider runs, unless residue is known or the epoch stops.
LEMMA NextSole ==
  ASSUME IInv, [Next]_vars
  PROVE  Sole'
<1> USE DEF InFlight
<1>a. TypeOK /\ Sole /\ Locked /\ Transit /\ Ending /\ Forcing /\ Checked
  BY DEF IInv
<1>b. ASSUME UNCHANGED <<running, active, trans>>, residue => residue', stop => stop'
      PROVE  Sole'
  BY <1>a, <1>b DEF Sole
<1>1. ASSUME NEW s \in Session, HandlerWork(s) PROVE Sole'
  <2>1. UNCHANGED <<running, active, trans>> /\ (residue' = residue \/ residue' = TRUE)
    BY <1>1 DEF HandlerWork, Register, AwaitGeneration, FailedRegistration, LinearizeFailed, Told,
       Registered, AttachScope, AttachCommit, AttachUndo, Release, WrapperDies, ConnectionLost
  <2> QED
    BY <1>a, <1>b, <1>1, <2>1, HandlerFrame
<1>2. ASSUME NEW t \in Caller, CallWork(t) PROVE Sole'
  <2>1. CASE ~DrainTake(t)
    <3>1. UNCHANGED <<running, active, trans>>
      BY <1>2, <2>1 DEF CallWork, CallStep, DropLook, DropPop, DrainLock, DrainProve, ForceDrain
    <3>2. residue => residue'
      BY <1>2, <2>1 DEF CallWork, CallStep, DropLook, DropPop, DrainLock, DrainProve, ForceDrain
    <3> QED
      BY <1>a, <1>b, <1>2, <3>1, <3>2, CallFrame
  <2>2. CASE DrainTake(t)
    BY <1>a, <2>2 DEF DrainTake, Ending, Sole
  <2> QED
    BY <2>1, <2>2
<1>3. ASSUME NEW t \in Mover, Transition(t) PROVE Sole'
  <2> USE DEF TransRest, Moves
  <2>1. CASE TransProbe(t)
    BY <1>a, <2>1 DEF TransProbe, Sole, TypeOK, TransType
  <2>2. CASE TransStart(t)
    <3>1. running' = running \cup {trans.gen} /\ trans.gen # 0 /\ active = 0 /\ UNCHANGED <<active, stop>>
      BY <1>a, <2>2 DEF TransStart, Transit, TypeOK, TransType, EpochTypes
    <3>2. trans'.gen = trans.gen /\ (trans'.at \in {"publish", "rejected", "cancelled"} \/ residue')
      BY <1>a, <2>2 DEF TransStart, TypeOK, TransType
    <3>3. residue => residue'
      BY <2>2 DEF TransStart
    <3> QED
      BY <1>a, <2>2, <3>1, <3>2, <3>3 DEF Sole
  <2>3. CASE TransPublish(t)
    <3>1. UNCHANGED <<running, residue, stop>> /\ trans'.gen = trans.gen /\ active = 0
          /\ (active' = trans.gen \/ (active' = 0 /\ trans'.at \in {"cancelled", "rejected"}))
      BY <1>a, <2>3 DEF TransPublish, Transit, TypeOK, TransType
    <3> QED
      BY <1>a, <3>1 DEF Sole
  <2>4. CASE TransCleanup(t)
    <3>1. residue' \/ (running' = running \ {trans.gen} /\ UNCHANGED <<active, stop, residue>>)
      BY <2>4 DEF TransCleanup
    <3> QED
      BY <1>a, <3>1 DEF Sole
  <2> QED
    BY <1>3, <2>1, <2>2, <2>3, <2>4 DEF Transition
<1>4. ASSUME WorkerWork PROVE Sole'
  <2>1. trans.at \notin InFlight \/ UNCHANGED trans
    BY <1>a, <1>4 DEF WorkerWork, WorkerBegin, WorkerEnd, WorkerExit, Transit, Locked
  <2> QED
    BY <1>a, <1>4, <2>1 DEF WorkerWork, WorkerBegin, WorkerEnd, WorkerExit, Sole
<1>5. ASSUME DogWork PROVE Sole'
  <2>5. residue' = residue
    BY <1>5 DEF DogWork, DogTick, DogLook, DogAlone, DogCheck, DogRepair, DogRevoke, DogHalt,
       DogMended, DogFatal, DogForce, DogRest, ForceBegin
  <2>6. stop => stop'
    BY <1>5 DEF DogWork, DogTick, DogLook, DogAlone, DogCheck, DogRepair, DogRevoke, DogHalt,
       DogMended, DogFatal, DogForce, DogRest, Linearize, ForceBegin
  <2>1. residue' = residue /\ (stop => stop')
    BY <2>5, <2>6
  <2>2. CASE UNCHANGED <<running, active, trans>>
    BY <1>a, <1>b, <2>1, <2>2
  <2>3. CASE DogRepair \/ DogMended \/ DogFatal
    <3>1. trans.at \notin InFlight \/ UNCHANGED trans
      BY <1>a, <2>3 DEF DogRepair, DogMended, DogFatal, Transit, Locked
    <3> QED
      BY <1>a, <2>1, <2>3, <3>1 DEF DogRepair, DogMended, DogFatal, DogRest, Sole
  <2>4. CASE DogHalt /\ running' = running \ {seen}
    BY <1>a, <2>1, <2>4 DEF DogHalt, Checked, Sole
  <2> QED
    BY <1>5, <2>2, <2>3, <2>4 DEF DogWork, DogTick, DogLook, DogAlone, DogCheck, DogRevoke, DogHalt,
       DogForce, DogRest, ForceBegin
<1>6. ASSUME MainWork PROVE Sole'
  BY <1>a, <1>6 DEF MainWork, MainLeaves, Finalize, Signal, ForceBegin, Sole, Forcing
<1>7. CASE UNCHANGED vars
  BY <1>b, <1>7
<1> QED
  BY <1>1, <1>2, <1>3, <1>4, <1>5, <1>6, <1>7, StepCases

\* Every step keeps the transition within its rungs.
LEMMA NextRung ==
  ASSUME IInv, [Next]_vars
  PROVE  Rung'
<1>a. TypeOK /\ Rung /\ Transit /\ Checked
  BY DEF IInv
<1>c. /\ trans.rung \in Nat /\ trans.last \in Nat /\ Ladder \in Nat
      /\ 1 <= trans.rung /\ trans.rung <= Ladder + 1 /\ 1 <= trans.last /\ trans.last <= Ladder
  BY <1>a DEF TypeOK, TransType
<1>b. ASSUME trans' = trans, active' \in {active, 0},
             dog \in {"revoke", "halt", "fatal", "force", "gone"} =>
               active' = 0 \/ dog' \in {"revoke", "halt", "fatal", "force", "gone"}
      PROVE  Rung'
  BY <1>a, <1>b DEF Rung
<1>1. ASSUME NEW s \in Session, HandlerWork(s) PROVE Rung'
  BY <1>b, <1>1 DEF HandlerWork, Register, AwaitGeneration, FailedRegistration, LinearizeFailed, Told,
     Registered, AttachScope, AttachCommit, AttachUndo, Release, WrapperDies, ConnectionLost
<1>2. ASSUME NEW t \in Caller, CallWork(t) PROVE Rung'
  BY <1>b, <1>2 DEF CallWork, CallStep, DropLook, DropPop, DrainLock, DrainTake, DrainProve, ForceDrain
<1>3. ASSUME NEW t \in Mover, Transition(t) PROVE Rung'
  <2> USE DEF TransRest, Moves
  <2>1. CASE TransProbe(t)
    <3>1. /\ trans'.rung = trans.rung /\ trans'.last = trans.last /\ trans'.at \in {"raise", "start"}
          /\ trans'.at = "start" => trans.rung <= trans.last
      <4>1. CASE trans' = [trans EXCEPT !.at = "raise"]
        BY <1>a, <4>1 DEF TypeOK, TransType
      <4>2. CASE trans' = [trans EXCEPT !.at = "start", !.gen = generation'] /\ ~(trans.rung > trans.last)
        BY <1>a, <1>c, <4>2 DEF TypeOK, TransType
      <4> QED
        BY <2>1, <4>1, <4>2 DEF TransProbe
    <3> QED
      BY <1>a, <1>c, <2>1, <3>1 DEF TransProbe, Rung, Transit
  <2>2. CASE TransStart(t)
    <3>1. trans'.rung = trans.rung /\ trans'.last = trans.last /\ trans.rung <= trans.last
      BY <1>a, <1>c, <2>2 DEF TransStart, TypeOK, TransType, Rung
    <3> QED
      BY <1>a, <1>c, <2>2, <3>1 DEF TransStart, Rung
  <2>3. CASE TransPublish(t)
    <3>1. trans'.rung = trans.rung /\ trans'.last = trans.last /\ trans.rung <= trans.last
      BY <1>a, <1>c, <2>3 DEF TransPublish, TypeOK, TransType, Rung
    <3> QED
      BY <1>a, <1>c, <2>3, <3>1 DEF TransPublish, Rung
  <2>4. CASE TransCleanup(t)
    <3>1. active' = 0 /\ trans'.last = trans.last /\ trans'.at \in {"raise", "probe"}
      BY <1>a, <2>4 DEF TransCleanup, TypeOK, TransType, Transit, InFlight
    <3>2. trans'.rung = trans.rung \/ (trans'.rung = trans.rung + 1 /\ trans.rung <= trans.last)
      BY <1>a, <2>4 DEF TransCleanup, TypeOK, TransType, Rung
    <3> QED
      BY <1>a, <1>c, <3>1, <3>2 DEF Rung
  <2> QED
    BY <1>3, <2>1, <2>2, <2>3, <2>4 DEF Transition
<1>4. ASSUME WorkerWork PROVE Rung'
  <2>1. CASE trans' = trans
    BY <1>b, <1>4, <2>1 DEF WorkerWork, WorkerBegin, WorkerEnd, WorkerExit
  <2>2. CASE WorkerBegin /\ trans' # trans
    <3>1. trans'.rung = 1 /\ trans'.last = Ladder /\ trans'.at = "probe" /\ active' = active
      BY <1>a, <2>2 DEF WorkerBegin, TypeOK, TransType
    <3> QED
      BY <1>a, <1>c, <3>1 DEF Rung
  <2>3. CASE WorkerEnd
    <3>1. trans'.rung = trans.rung /\ trans'.last = Ladder /\ trans'.at = "no" /\ UNCHANGED <<active, dog>>
      BY <1>a, <2>3 DEF WorkerEnd, Rested, TypeOK, TransType
    <3> QED
      BY <1>a, <1>c, <3>1 DEF Rung
  <2> QED
    BY <1>4, <2>1, <2>2, <2>3 DEF WorkerWork, WorkerExit
<1>5. ASSUME DogWork PROVE Rung'
  <2>1. CASE DogTick \/ DogLook \/ DogCheck \/ DogRevoke \/ DogAlone \/ DogForce
    BY <1>b, <2>1 DEF DogTick, DogLook, DogCheck, DogRevoke, DogAlone, DogForce, DogRest, ForceBegin
  <2>2. CASE DogRepair
    <3>1. CASE trans' = trans
      BY <1>b, <2>2, <3>1 DEF DogRepair
    <3>2. CASE trans' # trans
      <4>1. trans.rung <= Ladder /\ dog' = "revoke"
        BY <1>a, <2>2, <3>2 DEF DogRepair, Rung, Checked
      <4>2. /\ trans'.at = trans.at
            /\ \/ trans'.rung = trans.rung /\ trans'.last = trans.rung
               \/ trans'.rung = trans.rung + 1 /\ trans'.last = Ladder
        BY <1>a, <2>2, <3>2 DEF DogRepair, TypeOK, TransType
      <4>3. trans.at \notin {"start", "publish", "rejected", "done"}
        BY <1>a, <2>2, <3>2 DEF DogRepair, Transit, InFlight, IInv, Locked
      <4> QED
        BY <1>c, <4>1, <4>2, <4>3 DEF Rung
    <3> QED
      BY <3>1, <3>2
  <2>3. CASE DogHalt
    <3>1. trans'.rung = trans.rung /\ trans'.last = trans.last /\ trans'.at \in {trans.at, "probe"}
          /\ (active' = 0 \/ dog' = "fatal")
      BY <1>a, <2>3 DEF DogHalt, TypeOK, TransType
    <3> QED
      BY <1>a, <1>c, <3>1 DEF Rung
  <2>4. CASE DogMended
    <3>1. CASE trans.at = "done"
      <4>1. trans'.rung = trans.rung /\ trans'.last = Ladder /\ trans'.at = "no" /\ trans.rung <= trans.last
        BY <1>a, <2>4, <3>1 DEF DogMended, Rested, TypeOK, TransType, Rung
      <4> QED
        BY <1>c, <4>1 DEF Rung
    <3>2. CASE trans.at = "raise" /\ trans' # trans
      <4>1. trans'.rung = trans.last + 1 /\ trans'.last = Ladder /\ trans'.at = "probe" /\ active' = 0
        BY <1>a, <2>4, <3>2 DEF DogMended, TypeOK, TransType, DogRest, Transit
      <4> QED
        BY <1>c, <4>1 DEF Rung
    <3> QED
      BY <1>b, <2>4, <3>1, <3>2 DEF DogMended
  <2>5. CASE DogFatal
    <3>1. trans'.rung = trans.rung /\ trans'.last = Ladder /\ trans'.at = "no" /\ dog' = "force"
      BY <1>a, <2>5 DEF DogFatal, Rested, TypeOK, TransType
    <3> QED
      BY <1>c, <3>1 DEF Rung
  <2> QED
    BY <1>5, <2>1, <2>2, <2>3, <2>4, <2>5 DEF DogWork
<1>6. ASSUME MainWork PROVE Rung'
  <2>1. CASE Finalize
    <3>1. trans'.rung = trans.rung /\ trans'.last = Ladder /\ trans'.at = "no" /\ dog' = "gone"
      BY <1>a, <2>1 DEF Finalize, Rested, TypeOK, TransType
    <3> QED
      BY <1>c, <3>1 DEF Rung
  <2>2. CASE MainLeaves \/ Signal
    BY <1>b, <2>2 DEF MainLeaves, Signal, ForceBegin
  <2> QED
    BY <1>6, <2>1, <2>2 DEF MainWork
<1>7. CASE UNCHANGED vars
  BY <1>b, <1>7
<1> QED
  BY <1>1, <1>2, <1>3, <1>4, <1>5, <1>6, <1>7, StepCases

\* Every step keeps that the first transition starts with no route behind it.
LEMMA NextFirst ==
  ASSUME IInv, [Next]_vars
  PROVE  First'
<1>a. TypeOK /\ First /\ Checked /\ Forcing
  BY DEF IInv
<1>b. ASSUME trans'.rung = trans.rung, UNCHANGED <<worker, error>>,
             active' \in {active, 0}, seen' \in {seen, 0, active}, stop => stop'
      PROVE  First'
  BY <1>a, <1>b DEF First
<1>1. ASSUME NEW s \in Session, HandlerWork(s) PROVE First'
  <2>1. CASE AwaitGeneration(s)
    BY <1>a, <2>1 DEF AwaitGeneration, First
  <2>2. CASE ~AwaitGeneration(s)
    BY <1>b, <1>1, <2>2, HandlerFrame DEF IInv, HandlerWork, Register, FailedRegistration, LinearizeFailed,
       Told, Registered, AttachScope, AttachCommit, AttachUndo, Release, WrapperDies, ConnectionLost
  <2> QED
    BY <2>1, <2>2
<1>2. ASSUME NEW t \in Caller, CallWork(t) PROVE First'
  <2>1. UNCHANGED <<trans, worker, error>> /\ active' \in {active, 0} /\ seen' \in {seen, 0}
    BY <1>2 DEF CallWork, CallStep, DropLook, DropPop, DrainLock, DrainTake, DrainProve, ForceDrain
  <2> QED
    BY <1>a, <1>b, <1>2, <2>1, CallFrame
<1>3. ASSUME NEW t \in Mover, Transition(t) PROVE First'
  <2>1. UNCHANGED <<worker, error, stop, seen>> /\ (worker = "transition" \/ dog = "mend")
    BY <1>3 DEF Transition, TransProbe, TransStart, TransPublish, TransCleanup, TransRest, Moves, Mover
  <2> QED
    BY <1>a, <2>1 DEF First, Checked
<1>4. ASSUME WorkerWork PROVE First'
  BY <1>a, <1>4 DEF WorkerWork, WorkerBegin, WorkerEnd, WorkerExit, First
<1>5. ASSUME DogWork PROVE First'
  <2>1. CASE DogTick \/ DogLook \/ DogCheck \/ DogRevoke \/ DogForce
    BY <1>b, <2>1 DEF DogTick, DogLook, DogCheck, DogRevoke, DogForce, DogRest, ForceBegin
  <2>2. CASE DogAlone
    BY <1>b, <2>2 DEF DogAlone, Linearize
  <2>3. CASE DogRepair \/ DogHalt \/ DogMended
    <3>1. seen # 0 /\ UNCHANGED <<worker, error, stop>>
      BY <1>a, <2>3 DEF DogRepair, DogHalt, DogMended, DogRest, Checked
    <3> QED
      BY <1>a, <3>1 DEF First
  <2>4. CASE DogFatal
    BY <1>a, <1>b, <2>4 DEF DogFatal, DogRest, Rested, TypeOK, TransType
  <2> QED
    BY <1>5, <2>1, <2>2, <2>3, <2>4 DEF DogWork
<1>6. ASSUME MainWork PROVE First'
  <2>1. CASE Finalize
    BY <1>a, <2>1 DEF Finalize, Forcing, First
  <2>2. CASE MainLeaves \/ Signal
    BY <1>b, <2>2 DEF MainLeaves, Signal, ForceBegin
  <2> QED
    BY <1>6, <2>1, <2>2 DEF MainWork
<1>7. CASE UNCHANGED vars
  BY <1>b, <1>7
<1> QED
  BY <1>1, <1>2, <1>3, <1>4, <1>5, <1>6, <1>7, StepCases

-----------------------------------------------------------------------------
(* The leases and the fence.                                               *)

\* Every step keeps that an epoch nobody is interested in drains, once it was used.
LEMMA NextInterested ==
  ASSUME IInv, [Next]_vars
  PROVE  Interested'
<1> USE DEF Draining
<1>a. /\ Interested /\ lease \in [Session -> {"none", "provisional", "live"}]
      /\ hpc \in [Session -> HandlerStates] /\ drain \in [Caller -> {"no", "lock", "take", "prove"}]
  BY DEF IInv, TypeOK, HandlerTypes, ThreadTypes
<1>b. ASSUME \A s \in Session : hpc'[s] = "new" <=> hpc[s] = "new",
             \A s \in Session : lease'[s] = "none" <=> lease[s] = "none",
             phase' = phase \/ phase' = "DRAINING",
             drain'["watchdog"] # "no" => drain["watchdog"] # "no" \/ phase' = "DRAINING"
      PROVE  Interested'
  BY <1>a, <1>b DEF Interested, Leased
<1>1. ASSUME NEW s \in Session, HandlerWork(s) PROVE Interested'
  <2>1. CASE Register(s)
    <3>1. UNCHANGED <<phase, drain>> /\ hpc[s] = "new"
      BY <2>1 DEF Register
    <3>2. CASE Draining
      BY <1>a, <3>1, <3>2, <2>1 DEF Interested, Leased, Register, Answer
    <3>3. CASE ~Draining /\ Cardinality(Leased) >= MaxLeases
      <4>1. Leased # {}
        BY <3>3, FS_EmptySet
      <4>2. lease' = lease /\ (hpc' = [hpc EXCEPT ![s] = "leaving"] \/ hpc' = [hpc EXCEPT ![s] = "over"])
        BY <2>1, <3>3 DEF Register, Answer
      <4> QED
        BY <1>a, <3>1, <4>1, <4>2 DEF Interested, Leased
    <3>4. CASE ~Draining /\ ~(Cardinality(Leased) >= MaxLeases)
      <4>1. lease' = [lease EXCEPT ![s] = "provisional"] /\ hpc' = [hpc EXCEPT ![s] = "waiting"]
        BY <2>1, <3>4 DEF Register
      <4>2. lease'[s] # "none" /\ hpc'[s] # "new"
        BY <1>a, <4>1
      <4> QED
        BY <1>a, <3>1, <4>1, <4>2 DEF Interested, Leased
    <3> QED
      BY <3>2, <3>3, <3>4
  <2>2. CASE LinearizeFailed(s)
    <3>1. s # "watchdog" /\ hpc[s] = "alone" /\ UNCHANGED lease
      BY <2>2 DEF LinearizeFailed
    <3>2. (phase' = phase \/ phase' = "DRAINING") /\ drain'["watchdog"] = drain["watchdog"]
      BY <1>a, <2>2, <3>1 DEF LinearizeFailed, Linearize, BecomeDraining
    <3>3. hpc' = [hpc EXCEPT ![s] = "told"] \/ hpc' = [hpc EXCEPT ![s] = "ending"]
      BY <2>2 DEF LinearizeFailed
    <3> QED
      BY <1>a, <1>b, <3>1, <3>2, <3>3
  <2>3. CASE ~Register(s) /\ ~LinearizeFailed(s)
    <3>1. UNCHANGED <<phase, drain>>
      BY <1>1, <2>3 DEF HandlerWork, AwaitGeneration, FailedRegistration, Told, Registered,
         AttachScope, AttachCommit, AttachUndo, Release, WrapperDies, ConnectionLost
    <3>2. \A q \in Session : lease'[q] = "none" <=> lease[q] = "none"
      BY <1>a, <1>1, <2>3 DEF HandlerWork, AwaitGeneration, FailedRegistration, Told, Registered,
         AttachScope, AttachCommit, AttachUndo, Release, WrapperDies, ConnectionLost
    <3>3. CASE WrapperDies(s)
      BY <1>b, <3>1, <3>2, <3>3 DEF WrapperDies
    <3>4. CASE ~WrapperDies(s)
      <4>1. hpc[s] # "new"
        BY <1>1, <2>3, <3>4 DEF HandlerWork, AwaitGeneration, FailedRegistration, Told, Registered,
           AttachScope, AttachCommit, AttachUndo, Release, ConnectionLost, Idle
      <4>2. \A q \in Session : q # s => hpc'[q] = hpc[q]
        BY <1>a, <1>1, <2>3, <3>4 DEF HandlerWork, AwaitGeneration, FailedRegistration, Told,
           Registered, AttachScope, AttachCommit, AttachUndo, Release, ConnectionLost, Answer
      <4>3. hpc'[s] # "new"
        BY <1>a, <1>1, <2>3, <3>4, <4>1 DEF HandlerWork, AwaitGeneration, FailedRegistration, Told,
           Registered, AttachScope, AttachCommit, AttachUndo, Release, ConnectionLost, Answer
      <4> QED
        BY <1>b, <3>1, <3>2, <4>1, <4>2, <4>3
    <3> QED
      BY <3>3, <3>4
  <2> QED
    BY <2>1, <2>2, <2>3
<1>2. ASSUME NEW t \in Caller, CallWork(t) PROVE Interested'
  <2>1. CASE (\E s \in Session : DropLook(t, s)) \/ DropPop(t)
    <3>1. CASE \E s \in Session : DropLook(t, s)
      BY <1>a, <3>1 DEF DropLook, IInv, Interested, Leased
    <3>2. CASE DropPop(t)
      <4> DEFINE o == drop[t].of
      <4>1. /\ o \in Session
            /\ t \in Session => o = t /\ hpc[t] \in {"failing", "leaving"}
            /\ t \in Forcer /\ forced[t] # "no" => Draining
            /\ drop[t].scope = "absent" => lease[o] = "none"
        BY <3>2 DEF DropPop, Forcing, Dropping, DropInOrder, IInv
      <4>2. /\ lease' = [lease EXCEPT ![o] = "none"]
            /\ phase' = phase \/ phase' = "DRAINING"
            /\ Draining' \/ lease[o] = "none" \/ ~(Leased \subseteq {o}) \/ drop[t].scope = "absent"
               \/ (t \in Forcer /\ forced[t] # "no")
        BY <3>2 DEF DropPop, BecomeDraining
      <4>3. /\ \A s \in Session : hpc'[s] = "new" <=> hpc[s] = "new"
            /\ drain'["watchdog"] = drain["watchdog"]
        <5>1. CASE t \in Session
          <6>1. PICK h \in {"failed", "ending", "over"}, d \in {"lock", "no"} :
                   hpc' = [hpc EXCEPT ![t] = h] /\ drain' = [drain EXCEPT ![t] = d]
            BY <3>2, <5>1 DEF DropPop
          <6> QED
            BY <1>a, <4>1, <5>1, <6>1
        <5>2. CASE t \notin Session
          BY <3>2, <5>2 DEF DropPop
        <5> QED
          BY <5>1, <5>2
      <4>4. /\ \A s \in Session : lease'[s] # "none" => lease[s] # "none"
            /\ lease'[o] = "none" /\ \A s \in Session : s # o => lease'[s] = lease[s]
        BY <1>a, <4>1, <4>2
      <4>5. Leased' = Leased \ {o}
        BY <4>4 DEF Leased
      <4>6. Leased' = {} => Draining' \/ Leased = {}
        BY <4>1, <4>2, <4>5 DEF Leased
      <4> HIDE DEF o
      <4> QED
        BY <1>a, <4>2, <4>3, <4>4, <4>6 DEF Interested
    <3> QED
      BY <2>1, <3>1, <3>2
  <2>2. CASE DrainLock(t) \/ DrainTake(t)
    BY <1>a, <2>2 DEF DrainLock, DrainTake, BecomeDraining, Forcing, Ending,
       Dropping, DropInOrder, IInv, Interested, Leased, TypeOK
  <2>3. CASE DrainProve(t) \/ ForceDrain(t)
    BY <1>a, <2>3 DEF DrainProve, ForceDrain, BecomeDraining, Forcing, Ending,
       Dropping, DropInOrder, IInv, Interested, Leased, TypeOK
  <2> QED
    BY <1>2, <2>1, <2>2, <2>3 DEF CallWork, CallStep
<1>3. ASSUME NEW t \in Mover, Transition(t) PROVE Interested'
  <2>1. UNCHANGED <<lease, hpc, drain>>
    BY <1>3 DEF Transition, TransProbe, TransStart, TransPublish, TransCleanup, TransRest
  <2>2. CASE phase' = phase
    BY <1>b, <2>1, <2>2
  <2>3. CASE phase' # phase
    <3>1. Leased # {}
      BY <1>3, <2>3 DEF Transition, TransProbe, TransStart, TransPublish, TransCleanup, TransRest
    <3> QED
      BY <1>a, <2>1, <3>1 DEF Interested, Leased
  <2> QED
    BY <2>2, <2>3
<1>4. ASSUME WorkerWork PROVE Interested'
  BY <1>b, <1>4 DEF WorkerWork, WorkerBegin, WorkerEnd, WorkerExit
<1>5. ASSUME DogWork PROVE Interested'
  <2>1. UNCHANGED <<lease, hpc>>
    BY <1>5 DEF DogWork, DogTick, DogLook, DogAlone, DogCheck, DogRepair, DogRevoke, DogHalt, DogMended,
       DogFatal, DogForce, DogRest, ForceBegin
  <2>2. CASE DogAlone
    <3>1. CASE Draining \/ Leased # {}
      BY <1>a, <2>1, <2>2, <3>1 DEF DogAlone, Linearize, Interested, Leased
    <3>2. CASE ~Draining /\ Leased = {}
      <4>1. phase' = "DRAINING"
        BY <2>2, <3>2 DEF DogAlone, Linearize, BecomeDraining
      <4> QED
        BY <1>b, <2>1, <4>1
    <3> QED
      BY <3>1, <3>2
  <2>3. CASE DogForce
    BY <1>b, <2>1, <2>3 DEF DogForce, ForceBegin, BecomeDraining
  <2>4. CASE ~DogAlone /\ ~DogForce
    BY <1>5, <1>b, <2>1, <2>4 DEF DogWork, DogTick, DogLook, DogCheck, DogRepair, DogRevoke, DogHalt,
       DogMended, DogFatal, DogRest
  <2> QED
    BY <2>2, <2>3, <2>4
<1>6. ASSUME MainWork PROVE Interested'
  <2>1. CASE MainLeaves \/ Signal
    BY <1>b, <2>1 DEF MainLeaves, Signal, ForceBegin, BecomeDraining
  <2>2. CASE Finalize
    BY <1>a, <1>b, <2>2 DEF Finalize
  <2> QED
    BY <1>6, <2>1, <2>2 DEF MainWork
<1>7. CASE UNCHANGED vars
  BY <1>b, <1>7
<1> QED
  BY <1>1, <1>2, <1>3, <1>4, <1>5, <1>6, <1>7, StepCases

\* Every step keeps that no thread outlives the process.
LEMMA NextEnded ==
  ASSUME IInv, [Next]_vars
  PROVE  Ended'
<1> USE DEF IInv, Ended, TypeOK, ThreadTypes, HandlerTypes, Draining
<1>1. ASSUME NEW s \in Session, HandlerWork(s) PROVE Ended'
  <2>1. UNCHANGED <<main, dog, drop, forced>> /\ \A t \in Caller : t # s => drain'[t] = drain[t]
    BY <1>1 DEF HandlerWork, Register, AwaitGeneration, FailedRegistration, LinearizeFailed, Told,
       Registered, AttachScope, AttachCommit, AttachUndo, Release, WrapperDies, ConnectionLost,
       Linearize
  <2>2. main # "ended"
    BY <1>1 DEF HandlerWork, Register, AwaitGeneration, FailedRegistration, LinearizeFailed, Told,
       Registered, AttachScope, AttachCommit, AttachUndo, Release, WrapperDies, ConnectionLost, Idle
  <2>3. fence' = "none" => fence = "none"
    BY <1>1 DEF HandlerWork, Register, AwaitGeneration, FailedRegistration, LinearizeFailed, Told,
       Registered, AttachScope, AttachCommit, AttachUndo, Release, WrapperDies, ConnectionLost,
       Linearize, BecomeDraining
  <2> QED
    BY <2>1, <2>2, <2>3
<1>2. ASSUME NEW t \in Caller, CallWork(t) PROVE Ended'
  BY <1>2 DEF CallWork, CallStep, DropLook, DropPop, DrainLock, DrainTake, DrainProve, ForceDrain,
     BecomeDraining, Drops
<1>3. ASSUME NEW t \in Mover, Transition(t) PROVE Ended'
  BY <1>3 DEF Transition, TransProbe, TransStart, TransPublish, TransCleanup, TransRest, Moves
<1>4. ASSUME WorkerWork PROVE Ended'
  BY <1>4 DEF WorkerWork, WorkerBegin, WorkerEnd, WorkerExit
<1>5. ASSUME DogWork PROVE Ended'
  BY <1>5 DEF DogWork, DogTick, DogLook, DogAlone, DogCheck, DogRepair, DogRevoke, DogHalt, DogMended,
     DogFatal, DogForce, DogRest, Linearize, ForceBegin, BecomeDraining
<1>6. ASSUME MainWork PROVE Ended'
  BY <1>6 DEF MainWork, MainLeaves, Finalize, Signal, ForceBegin, BecomeDraining, Proved
<1>7. CASE UNCHANGED vars
  BY <1>7
<1> QED
  BY <1>1, <1>2, <1>3, <1>4, <1>5, <1>6, <1>7, StepCases

\* Every step keeps that traffic has an owner.
LEMMA NextRoute ==
  ASSUME IInv, [Next]_vars
  PROVE  RouteIsOwned'
<1> USE DEF IInv, RouteIsOwned, TypeOK
<1>1. ASSUME NEW s \in Session, HandlerWork(s) PROVE RouteIsOwned'
  BY <1>1 DEF HandlerWork, Register, AwaitGeneration, FailedRegistration, LinearizeFailed, Told,
     Registered, AttachScope, AttachCommit, AttachUndo, Release, WrapperDies, ConnectionLost,
     Linearize, BecomeDraining, Ended
<1>2. ASSUME NEW t \in Caller, CallWork(t) PROVE RouteIsOwned'
  BY <1>2 DEF CallWork, CallStep, DropLook, DropPop, DrainLock, DrainTake, DrainProve, ForceDrain,
     BecomeDraining, Checked
<1>3. ASSUME NEW t \in Mover, Transition(t) PROVE RouteIsOwned'
  BY <1>3 DEF Transition, TransProbe, TransStart, TransPublish, TransCleanup, TransRest, Transit,
     Moves, InFlight
<1>4. ASSUME WorkerWork PROVE RouteIsOwned'
  BY <1>4 DEF WorkerWork, WorkerBegin, WorkerEnd, WorkerExit, Locked
<1>5. ASSUME DogWork PROVE RouteIsOwned'
  BY <1>5 DEF DogWork, DogTick, DogLook, DogAlone, DogCheck, DogRepair, DogRevoke, DogHalt, DogMended,
     DogFatal, DogForce, DogRest, Linearize, ForceBegin, BecomeDraining, Checked, Ended
<1>6. ASSUME MainWork PROVE RouteIsOwned'
  BY <1>6 DEF MainWork, MainLeaves, Finalize, Signal, ForceBegin, BecomeDraining, Ended
<1>7. CASE UNCHANGED vars
  BY <1>7
<1> QED
  BY <1>1, <1>2, <1>3, <1>4, <1>5, <1>6, <1>7, StepCases

\* Every step keeps that what runs on the host is recorded.
LEMMA NextRecorded ==
  ASSUME IInv, [Next]_vars
  PROVE  Recorded'
<1> USE DEF IInv, Recorded, TypeOK
<1>1. ASSUME NEW s \in Session, HandlerWork(s) PROVE Recorded'
  BY <1>1 DEF HandlerWork, Register, AwaitGeneration, FailedRegistration, LinearizeFailed, Told,
     Registered, AttachScope, AttachCommit, AttachUndo, Release, WrapperDies, ConnectionLost
<1>2. ASSUME NEW t \in Caller, CallWork(t) PROVE Recorded'
  <2>1. CASE (\E s \in Session : DropLook(t, s)) \/ DropPop(t)
    <3>1. CASE \E s \in Session : DropLook(t, s)
      BY <3>1 DEF DropLook
    <3>2. CASE DropPop(t)
      BY <3>2 DEF DropPop, Dropping, DropInOrder
    <3> QED
      BY <2>1, <3>1, <3>2
  <2>2. CASE DrainLock(t) \/ DrainTake(t)
    BY <2>2 DEF DrainLock, DrainTake, Dropping, DropInOrder
  <2>3. CASE DrainProve(t) \/ ForceDrain(t)
    BY <2>3 DEF DrainProve, ForceDrain, Dropping, DropInOrder
  <2> QED
    BY <1>2, <2>1, <2>2, <2>3 DEF CallWork, CallStep
<1>3. ASSUME NEW t \in Mover, Transition(t) PROVE Recorded'
  BY <1>3 DEF Transition, TransProbe, TransStart, TransPublish, TransCleanup, TransRest, Transit,
     InFlight
<1>4. ASSUME WorkerWork PROVE Recorded'
  BY <1>4 DEF WorkerWork, WorkerBegin, WorkerEnd, WorkerExit
<1>5. ASSUME DogWork PROVE Recorded'
  BY <1>5 DEF DogWork, DogTick, DogLook, DogAlone, DogCheck, DogRepair, DogRevoke, DogHalt, DogMended,
     DogFatal, DogForce, DogRest, ForceBegin
<1>6. ASSUME MainWork PROVE Recorded'
  BY <1>6 DEF MainWork, MainLeaves, Finalize, Signal, ForceBegin
<1>7. CASE UNCHANGED vars
  BY <1>7
<1> QED
  BY <1>1, <1>2, <1>3, <1>4, <1>5, <1>6, <1>7, StepCases

\* Once the fence is cleared every thread, handler and call has ended, and none begins.
LEMMA ClearedStops ==
  ASSUME IInv, [Next]_vars, fence = "none"
  PROVE  UNCHANGED vars
<1> USE DEF IInv, Ended
<1>1. /\ main = "ended" /\ worker = "none" /\ dog = "gone"
      /\ \A s \in Session : hpc[s] \in {"new", "over"}
      /\ \A t \in Caller : drop[t] = NoDrop /\ drain[t] = "no"
      /\ \A t \in Forcer : forced[t] = "no"
      /\ Leased = {}
  BY DEF Cleared, Proved
<1>2. ASSUME NEW s \in Session, HandlerWork(s) PROVE UNCHANGED vars
  BY <1>1, <1>2 DEF HandlerWork, Register, AwaitGeneration, FailedRegistration, LinearizeFailed,
     Told, Registered, AttachScope, AttachCommit, AttachUndo, Release, WrapperDies,
     ConnectionLost, Idle
<1>3. ASSUME NEW t \in Caller, CallWork(t) PROVE UNCHANGED vars
  BY <1>1, <1>3 DEF CallWork, CallStep, DropLook, DropPop, DrainLock, DrainTake, DrainProve,
     ForceDrain, Drops
<1>4. ~(\E t \in Mover : Transition(t)) /\ ~WorkerWork
  BY <1>1 DEF Transition, TransProbe, TransStart, TransPublish, TransCleanup, Moves, Mover,
     WorkerWork, WorkerBegin, WorkerEnd, WorkerExit
<1>5. ~DogWork /\ ~MainWork
  BY <1>1 DEF DogWork, DogTick, DogLook, DogAlone, DogCheck, DogRepair, DogRevoke, DogHalt,
     DogMended, DogFatal, DogForce, MainWork, MainLeaves, Finalize, Signal
<1> QED
  BY <1>2, <1>3, <1>4, <1>5, StepCases

\* Every step keeps that the fence goes only from an epoch proved empty.
LEMMA NextCleared ==
  ASSUME IInv, [Next]_vars
  PROVE  Cleared'
<1> USE DEF IInv, Ended
<1>1. CASE fence = "none"
  BY <1>1, ClearedStops DEF Cleared
<1>2. CASE fence # "none" /\ ~Finalize
  <2>1. ASSUME NEW s \in Session, HandlerWork(s) PROVE fence' # "none"
    BY <1>2, <2>1 DEF HandlerWork, Register, AwaitGeneration, FailedRegistration, LinearizeFailed,
       Told, Registered, AttachScope, AttachCommit, AttachUndo, Release, WrapperDies,
       ConnectionLost, Linearize, BecomeDraining
  <2>2. ASSUME NEW t \in Caller, CallWork(t) PROVE fence' # "none"
    BY <1>2, <2>2 DEF CallWork, CallStep, DropLook, DropPop, DrainLock, DrainTake, DrainProve,
       ForceDrain, BecomeDraining
  <2>3. ASSUME NEW t \in Mover, Transition(t) PROVE fence' # "none"
    BY <1>2, <2>3 DEF Transition, TransProbe, TransStart, TransPublish, TransCleanup
  <2>4. ASSUME WorkerWork \/ DogWork \/ MainWork PROVE fence' # "none"
    BY <1>2, <2>4 DEF WorkerWork, WorkerBegin, WorkerEnd, WorkerExit, DogWork, DogTick, DogLook,
       DogAlone, DogCheck, DogRepair, DogRevoke, DogHalt, DogMended, DogFatal, DogForce, DogRest,
       Linearize, ForceBegin, BecomeDraining, MainWork, MainLeaves, Signal
  <2>5. CASE UNCHANGED vars
    BY <1>2, <2>5 DEF Cleared
  <2> QED
    BY <2>1, <2>2, <2>3, <2>4, <2>5, StepCases DEF Cleared
<1>3. CASE fence # "none" /\ Finalize
  <2>1. CASE fence' # "none"
    BY <2>1 DEF Cleared
  <2>2. CASE fence' = "none"
    <3>1. proved' /\ proved /\ providers = {} /\ children = {}
      BY <1>3, <2>2 DEF Finalize
    <3>2. UNCHANGED <<running, providers, children>>
      BY <1>3 DEF Finalize
    <3> QED
      BY <3>1, <3>2 DEF Cleared, Recorded
  <2> QED
    BY <2>1, <2>2
<1> QED
  BY <1>1, <1>2, <1>3

-----------------------------------------------------------------------------
(* The theorems.                                                           *)

\* The invariant holds at the start,
LEMMA InitIInv == Init => IInv
<1> SUFFICES ASSUME Init PROVE IInv
  OBVIOUS
<1> USE DEF Init
<1>1. TypeOK
  BY Names DEF TypeOK, EpochTypes, VerdictTypes, HandlerTypes, ThreadTypes, TransType, DropType,
     HandlerStates, DogStates, Phases
<1>2. Locked /\ Forcing /\ Ending /\ Proved /\ Dropping /\ Attached
  BY DEF Locked, Forcing, Ending, Proved, Dropping, Attached
<1>3. Transit /\ Checked /\ Sole /\ Rung /\ First
  BY DEF Transit, InFlight, Checked, Sole, Rung, First
<1>4. Interested /\ Ended /\ RouteIsOwned /\ Recorded /\ Cleared
  BY DEF Interested, Ended, RouteIsOwned, Recorded, Cleared
<1> QED
  BY <1>1, <1>2, <1>3, <1>4 DEF IInv

\* is kept by every step,
LEMMA NextIInv == IInv /\ [Next]_vars => IInv'
<1> SUFFICES ASSUME IInv, [Next]_vars PROVE IInv'
  OBVIOUS
<1>1. TypeOK'
  BY NextKeepsTypes DEF IInv
<1> QED
  BY <1>1, NextLocked, NextForcing, NextEnding, NextProved, NextDropping, NextAttached, NextTransit,
     NextChecked, NextSole, NextRung, NextFirst, NextInterested, NextEnded, NextRoute, NextRecorded,
     NextCleared DEF IInv

\* and so always holds.
LEMMA IInvAlways == Spec => []IInv
  BY InitIInv, NextIInv, PTL DEF Spec

\* The state keeps its shape: in particular no transition leaves the ladder.
THEOREM SupervisorTypeCorrect == Spec => []TypeOK
<1>1. IInv => TypeOK
  BY DEF IInv
<1> QED
  BY <1>1, IInvAlways, PTL

\* Traffic never passes to a provider that is not the active one, that does not run, or
\* that a recovery could not find, whatever the worker, the watchdog, the handlers and
\* the drains do between two of their looks at the state.
THEOREM RouteAlwaysOwned == Spec => []RouteIsOwned
<1>1. IInv => RouteIsOwned
  BY DEF IInv
<1> QED
  BY <1>1, IInvAlways, PTL

\* If no wrapper dies while its child is attached, every provider that runs and every
\* child scope has its durable record: a recovery after a crash finds it.
THEOREM EffectsAlwaysRecorded ==
  ASSUME ~WrapperDiesAttaching
  PROVE  Spec => []EffectsAreRecorded
<1>1. IInv => EffectsAreRecorded
  BY DEF IInv, Recorded, EffectsAreRecorded
<1> QED
  BY <1>1, IInvAlways, PTL

\* If no wrapper dies while its child is attached, finalize clears the fence only over a
\* host on which nothing of the epoch is left.
THEOREM ClearedAlwaysEmpty ==
  ASSUME ~WrapperDiesAttaching
  PROVE  Spec => []ClearedMeansEmpty
<1>1. IInv => ClearedMeansEmpty
  BY DEF IInv, Recorded, Cleared, Proved, RouteIsOwned, ClearedMeansEmpty
<1> QED
  BY <1>1, IInvAlways, PTL

\* Whether or not a wrapper dies while its child is attached, that race costs child scopes
\* and nothing else: the providers that run are recorded, and finalize clears the fence
\* over no provider, no record, no lease and no open gate.
AccountedButForScopes ==
    /\ running \subseteq providers
    /\ fence = "none" => /\ running = {} /\ providers = {} /\ children = {}
                         /\ Leased = {} /\ gate = 0

THEOREM OnlyScopesEscape == Spec => []AccountedButForScopes
<1>1. IInv => AccountedButForScopes
  BY DEF IInv, Recorded, Cleared, Proved, RouteIsOwned, AccountedButForScopes
<1> QED
  BY <1>1, IInvAlways, PTL

\* Nothing of the epoch acts once finalize has cleared its fence: no worker, watchdog,
\* handler or drain is left that could start, stop or record anything after the next
\* epoch may begin.
ClearedIsFinal == [][fence # "none"]_vars

THEOREM NothingAfterCleared == Spec => ClearedIsFinal
<1>1. IInv /\ [Next]_vars => [fence # "none"]_vars
  BY ClearedStops
<1> QED
  BY <1>1, IInvAlways, PTL DEF Spec, ClearedIsFinal

\* Two providers never run at once in an epoch that serves, unless one is known residue.
THEOREM AlwaysOneProvider == Spec => []OneProvider
<1>1. IInv => OneProvider
  <2> SUFFICES ASSUME IInv, NEW g \in running, NEW h \in running, g # h, ~(residue \/ stop)
               PROVE  FALSE
    BY DEF OneProvider
  <2>1. /\ g # 0 /\ (g = active \/ (trans.at \in InFlight /\ g = trans.gen))
        /\ h # 0 /\ (h = active \/ (trans.at \in InFlight /\ h = trans.gen))
    BY DEF IInv, Sole
  <2>2. trans.at \in InFlight => active = 0
    BY DEF IInv, Transit
  <2> QED
    BY <2>1, <2>2
<1> QED
  BY <1>1, IInvAlways, PTL

\* A step that lowers the rung is the first transition of a stopping epoch.
LEMMA RungFalls ==
  ASSUME IInv, Next, trans'.rung < trans.rung
  PROVE  stop
<1>a. TypeOK /\ First /\ Rung
  BY DEF IInv
<1>b. trans \in [reason : Reasons, at : Places, gen : Nat, rung : 1 .. Ladder + 1, last : 1 .. Ladder]
  BY <1>a DEF TypeOK, TransType
<1>c. trans'.rung # trans.rung /\ ~(trans'.rung = trans.rung + 1)
  BY <1>b
<1>1. ASSUME NEW s \in Session, HandlerWork(s) PROVE FALSE
  BY <1>1, <1>c DEF HandlerWork, Register, AwaitGeneration, FailedRegistration, LinearizeFailed,
     Told, Registered, AttachScope, AttachCommit, AttachUndo, Release, WrapperDies, ConnectionLost
<1>2. ASSUME NEW t \in Caller, CallWork(t) PROVE FALSE
  BY <1>2, <1>c DEF CallWork, CallStep, DropLook, DropPop, DrainLock, DrainTake, DrainProve, ForceDrain
<1>3. ASSUME NEW t \in Mover, Transition(t) PROVE FALSE
  <2>1. CASE TransProbe(t)
    BY <1>b, <1>c, <2>1 DEF TransProbe
  <2>2. CASE TransStart(t)
    BY <1>b, <1>c, <2>2 DEF TransStart
  <2>3. CASE TransPublish(t)
    BY <1>b, <1>c, <2>3 DEF TransPublish
  <2>4. CASE TransCleanup(t)
    BY <1>b, <1>c, <2>4 DEF TransCleanup
  <2> QED
    BY <1>3, <2>1, <2>2, <2>3, <2>4 DEF Transition
<1>4. ASSUME WorkerWork PROVE stop
  <2>1. CASE WorkerBegin
    <3>1. worker = "begin" /\ ~error
      BY <1>a, <2>1 DEF WorkerBegin, First
    <3>2. ~stop => trans.rung = 1
      BY <1>a, <3>1 DEF First
    <3>3. trans'.rung \in {trans.rung, 1}
      BY <1>b, <2>1 DEF WorkerBegin
    <3> QED
      BY <1>b, <1>c, <3>2, <3>3
  <2>2. CASE WorkerEnd \/ WorkerExit
    BY <1>b, <1>c, <2>2 DEF WorkerEnd, WorkerExit, Rested
  <2> QED
    BY <1>4, <2>1, <2>2 DEF WorkerWork
<1>5. ASSUME DogWork PROVE FALSE
  <2>1. CASE DogRepair
    BY <1>b, <1>c, <2>1 DEF DogRepair
  <2>2. CASE DogHalt
    BY <1>b, <1>c, <2>2 DEF DogHalt
  <2>3. CASE DogMended
    <3>1. trans' = Rested \/ trans' = trans
          \/ trans' = [trans EXCEPT !.reason = "demotion", !.at = "probe",
                                    !.rung = trans.last + 1, !.last = Ladder]
      BY <2>3 DEF DogMended
    <3>2. trans'.rung \in {trans.rung, trans.last + 1}
      BY <1>b, <3>1 DEF Rested
    <3> QED
      BY <1>a, <1>b, <1>c, <3>2 DEF Rung
  <2>4. CASE DogFatal
    BY <1>b, <1>c, <2>4 DEF DogFatal, Rested
  <2>5. CASE DogTick \/ DogLook \/ DogAlone \/ DogCheck \/ DogRevoke \/ DogForce
    BY <1>c, <2>5 DEF DogTick, DogLook, DogAlone, DogCheck, DogRevoke, DogForce, DogRest, ForceBegin
  <2> QED
    BY <1>5, <2>1, <2>2, <2>3, <2>4, <2>5 DEF DogWork
<1>6. ASSUME MainWork PROVE FALSE
  BY <1>6, <1>b, <1>c DEF MainWork, MainLeaves, Finalize, Signal, ForceBegin, Rested
<1> QED
  BY <1>1, <1>2, <1>3, <1>4, <1>5, <1>6, <1>c, StepCases

\* Repairs and demotions only go down the ladder.
THEOREM RouteNeverClimbs == Spec => NeverClimbs
<1>1. IInv /\ [Next]_vars => [trans'.rung < trans.rung => stop]_vars
  BY RungFalls
<1> QED
  BY <1>1, IInvAlways, PTL DEF Spec, NeverClimbs

-----------------------------------------------------------------------------
(* The shared route.                                                       *)

\* A step of the epoch is a step of the shared route or leaves it as it is.
LEMMA RouteStep ==
  ASSUME IInv, [Next]_vars
  PROVE  [Route!RouteNext]_(Route!routeVars)
<1> DEFINE Same == UNCHANGED <<gate, published, Leased, Draining, fence # "none">>
           Goal == [Route!RouteNext]_(Route!routeVars)
<1>a. /\ lease \in [Session -> {"none", "provisional", "live"}] /\ published \in Nat /\ gate \in Nat
      /\ hpc \in [Session -> HandlerStates]
  BY DEF IInv, TypeOK, EpochTypes, HandlerTypes
<1>b. Ended /\ Interested /\ Forcing /\ Transit /\ Dropping
  BY DEF IInv
<1>0. Same => Goal
  BY DEF Route!routeVars, Route!gateVars
<1>1. UNCHANGED <<gate, published, lease, phase, fence>> => Goal
  BY <1>0 DEF Leased, Draining
<1>2. ASSUME UNCHANGED <<gate, published, lease>>, fence # "none", fence' # "none",
             phase' = phase \/ phase' = "DRAINING"
      PROVE  Goal
  <2>1. UNCHANGED <<gate, published, Leased, fence # "none">>
    BY <1>2 DEF Leased
  <2>2. CASE Draining' = Draining
    BY <2>1, <2>2, <1>0
  <2>3. CASE Draining' # Draining
    <3>1. ~Draining /\ Draining' = TRUE
      BY <1>2, <2>3 DEF Draining
    <3> QED
      BY <2>1, <3>1 DEF Route!RouteNext, Route!Stop, Route!gateVars
  <2> QED
    BY <2>2, <2>3
<1>3. ASSUME gate' = 0, UNCHANGED <<published, lease, phase, fence>> PROVE Goal
  <2>1. UNCHANGED <<published, Leased, Draining, fence # "none">>
    BY <1>3 DEF Leased, Draining
  <2>2. CASE gate = 0
    BY <1>3, <2>1, <2>2, <1>0
  <2>3. CASE gate # 0
    BY <1>3, <2>1, <2>3 DEF Route!RouteNext, Route!Withdraw, Route!Shut
  <2> QED
    BY <2>2, <2>3
<1>4. ASSUME NEW s \in Session, HandlerWork(s) PROVE Goal
  <2>1. CASE Register(s)
    <3>1. UNCHANGED <<gate, published, phase, fence>> /\ s \notin Leased
      BY <1>b, <2>1 DEF Register, Interested, Leased
    <3>2. CASE lease' = lease
      BY <1>1, <3>1, <3>2
    <3>3. CASE ~Draining /\ lease' = [lease EXCEPT ![s] = "provisional"]
      <4>1. Leased' = Leased \cup {s}
        BY <1>a, <3>3 DEF Leased
      <4>2. UNCHANGED <<gate, published, Draining, fence # "none">>
        BY <3>1 DEF Draining
      <4> QED
        BY <3>1, <3>3, <4>1, <4>2 DEF Route!RouteNext, Route!Join, Route!gateVars
    <3> QED
      BY <2>1, <3>2, <3>3 DEF Register
  <2>2. CASE LinearizeFailed(s)
    <3>1. fence # "none"
      BY <1>b, <2>2 DEF LinearizeFailed, Ended
    <3> QED
      BY <1>2, <2>2, <3>1 DEF LinearizeFailed, Linearize, BecomeDraining
  <2>3. CASE ~Register(s) /\ ~LinearizeFailed(s)
    <3>1. UNCHANGED <<gate, published, phase, fence>>
      BY <1>4, <2>3 DEF HandlerWork, AwaitGeneration, FailedRegistration, Told, Registered,
         AttachScope, AttachCommit, AttachUndo, Release, WrapperDies, ConnectionLost
    <3>2. \A q \in Session : lease'[q] = "none" <=> lease[q] = "none"
      BY <1>a, <1>4, <2>3 DEF HandlerWork, AwaitGeneration, FailedRegistration, Told, Registered,
         AttachScope, AttachCommit, AttachUndo, Release, WrapperDies, ConnectionLost
    <3>3. UNCHANGED <<Leased, Draining, fence # "none">>
      BY <3>1, <3>2 DEF Leased, Draining
    <3> QED
      BY <1>0, <3>1, <3>3
  <2> QED
    BY <2>1, <2>2, <2>3
<1>5. ASSUME NEW t \in Caller, CallWork(t) PROVE Goal
  <2>1. CASE DropPop(t)
    <3> DEFINE s == drop[t].of
    <3>1. DropInOrder(t) /\ s \in Session /\ fence # "none"
      BY <1>b, <2>1 DEF DropPop, Dropping, DropInOrder, Ended
    <3>2. UNCHANGED <<gate, published>> /\ lease' = [lease EXCEPT ![s] = "none"]
      BY <2>1 DEF DropPop, routeVars
    <3>3. Leased' = Leased \ {s}
      BY <1>a, <3>1, <3>2 DEF Leased
    <3>4. CASE lease[s] = "none"
      <4>1. UNCHANGED <<phase, fence>>
        BY <2>1, <3>4 DEF DropPop
      <4>2. UNCHANGED <<Leased, Draining, fence # "none">>
        BY <3>3, <3>4, <4>1 DEF Leased, Draining
      <4> QED
        BY <1>0, <3>2, <4>2
    <3>5. CASE lease[s] # "none"
      <4>1. s \in Leased /\ drop[t].scope # "absent" /\ (t \in Forcer /\ forced[t] # "no" => Draining)
        BY <1>b, <3>1, <3>5 DEF DropInOrder, Leased, Forcing
      <4>2. fence' # "none" /\ (Draining' <=> Draining \/ Leased \subseteq {s})
        BY <2>1, <3>1, <4>1 DEF DropPop, BecomeDraining, Draining, Leased
      <4>3. Draining' = (Draining \/ Leased' = {})
        BY <3>3, <4>2 DEF Draining
      <4> QED
        BY <3>1, <3>2, <3>3, <4>1, <4>2, <4>3 DEF Route!RouteNext, Route!Leave, Route!gateVars
    <3> QED
      BY <3>4, <3>5
  <2>2. CASE (\E s \in Session : DropLook(t, s)) \/ DrainTake(t) \/ DrainProve(t) \/ ForceDrain(t)
    BY <1>1, <2>2 DEF DropLook, DrainTake, DrainProve, ForceDrain
  <2>3. CASE DrainLock(t)
    BY <1>3, <2>3 DEF DrainLock
  <2> QED
    BY <1>5, <2>1, <2>2, <2>3 DEF CallWork, CallStep
<1>6. ASSUME NEW t \in Mover, Transition(t) PROVE Goal
  <2>1. CASE TransProbe(t) \/ TransStart(t) \/ TransCleanup(t)
    BY <1>1, <2>1 DEF TransProbe, TransStart, TransCleanup, TransRest
  <2>2. CASE TransPublish(t)
    <3>1. fence # "none" /\ gate = 0 /\ published < trans.gen /\ trans.gen \in Nat /\ UNCHANGED lease
      BY <1>b, <2>2 DEF TransPublish, TransRest, Moves, Ended, Transit, InFlight, IInv, TypeOK,
         TransType, Mover
    <3>2. CASE UNCHANGED <<phase, fence, gate, published>>
      BY <1>1, <3>1, <3>2
    <3>3. CASE ~Draining /\ phase' = "BOOTSTRAPPING" /\ fence' = "BOOTSTRAPPING"
               /\ UNCHANGED <<gate, published>>
      <4>1. UNCHANGED <<Leased, Draining, fence # "none">>
        BY <3>1, <3>3 DEF Leased, Draining
      <4> QED
        BY <1>0, <3>3, <4>1
    <3>4. CASE /\ ~Draining /\ Leased # {} /\ phase' = "READY" /\ fence' = "READY"
               /\ gate' = trans.gen /\ published' = trans.gen
      <4>1. UNCHANGED <<Leased, Draining, fence # "none">>
        BY <3>1, <3>4 DEF Leased, Draining
      <4>2. gate' \in Nat \ {0} /\ gate' >= published /\ gate' > published
        BY <1>a, <3>1, <3>4
      <4> QED
        BY <3>1, <3>4, <4>1, <4>2 DEF Route!RouteNext, Route!Publish, Route!Open
    <3> QED
      BY <2>2, <3>2, <3>3, <3>4 DEF TransPublish
  <2> QED
    BY <1>6, <2>1, <2>2 DEF Transition
<1>7. ASSUME WorkerWork PROVE Goal
  BY <1>1, <1>7 DEF WorkerWork, WorkerBegin, WorkerEnd, WorkerExit
<1>8. ASSUME DogWork PROVE Goal
  <2>1. CASE DogRevoke
    BY <1>3, <2>1 DEF DogRevoke, DogRest
  <2>2. CASE DogAlone \/ DogForce
    <3>1. fence # "none"
      BY <1>b, <2>2 DEF DogAlone, DogForce, Ended
    <3> QED
      BY <1>2, <2>2, <3>1 DEF DogAlone, DogForce, Linearize, ForceBegin, BecomeDraining
  <2>3. CASE DogTick \/ DogLook \/ DogCheck \/ DogRepair \/ DogHalt \/ DogMended \/ DogFatal
    BY <1>1, <2>3 DEF DogTick, DogLook, DogCheck, DogRepair, DogHalt, DogMended, DogFatal, DogRest
  <2> QED
    BY <1>8, <2>1, <2>2, <2>3 DEF DogWork
<1>9. ASSUME MainWork PROVE Goal
  <2>1. CASE MainLeaves \/ Signal
    <3>1. fence # "none"
      BY <1>b, <2>1 DEF MainLeaves, Signal, Ended
    <3> QED
      BY <1>2, <2>1, <3>1 DEF MainLeaves, Signal, ForceBegin, BecomeDraining
  <2>2. CASE Finalize
    <3>1. fence # "none" /\ UNCHANGED <<gate, published, lease, phase>>
      BY <1>b, <2>2 DEF Finalize, Ended
    <3>2. CASE fence' = fence
      BY <1>1, <3>1, <3>2
    <3>3. CASE fence' = "none" /\ proved /\ providers = {}
      <4>1. gate = 0 /\ Leased = {} /\ Draining
        BY <3>3 DEF IInv, RouteIsOwned, Proved
      <4>2. (fence' # "none") = FALSE /\ UNCHANGED <<Leased, Draining>>
        BY <3>1, <3>3 DEF Leased, Draining
      <4> QED
        BY <3>1, <4>1, <4>2 DEF Route!RouteNext, Route!Clear, Route!gateVars
    <3> QED
      BY <2>2, <3>2, <3>3 DEF Finalize
  <2> QED
    BY <1>9, <2>1, <2>2 DEF MainWork
<1>10. CASE UNCHANGED vars
  BY <1>1, <1>10
<1> QED
  BY <1>4, <1>5, <1>6, <1>7, <1>8, <1>9, <1>10, StepCases

\* The epoch implements the shared route: the last lease that goes drains it for good,
\* nothing is published for nobody or for a draining epoch, generations only rise, and
\* the fence goes with no lease and no open gate left.
THEOREM SupervisorImplementsRoute == Spec => ImplementsSharedRoute
<1>1. Init => Route!RouteInit
  BY DEF Init, Route!RouteInit, Route!GateInit, Leased, Draining
<1>2. IInv /\ [Next]_vars => [Route!RouteNext]_(Route!routeVars)
  BY RouteStep
<1> QED
  BY <1>1, <1>2, IInvAlways, PTL DEF Spec, ImplementsSharedRoute, Route!RouteSpec

\* What that means for an epoch that drains: it stays so, no session joins it, and no gate
\* is opened in it, whatever a worker, a repair or a handler had begun before.
DrainedForGood == [][Draining => Draining' /\ Leased' \subseteq Leased /\ gate' \in {0, gate}]_vars

THEOREM DrainIsFinal == Spec => DrainedForGood
<1>1. IInv /\ [Next]_vars =>
        [Draining => Draining' /\ Leased' \subseteq Leased /\ gate' \in {0, gate}]_vars
  <2> SUFFICES ASSUME IInv, [Next]_vars, Draining
               PROVE  Draining' /\ Leased' \subseteq Leased /\ gate' \in {0, gate}
    OBVIOUS
  <2>1. CASE UNCHANGED Route!routeVars
    BY <2>1 DEF Route!routeVars
  <2>2. CASE Route!RouteNext
    BY <2>2 DEF Route!RouteNext, Route!Join, Route!Leave, Route!Publish, Route!Withdraw, Route!Shut,
       Route!Stop, Route!Clear, Route!gateVars
  <2> QED
    BY <2>1, <2>2, RouteStep
<1> QED
  BY <1>1, IInvAlways, PTL DEF Spec, DrainedForGood
=============================================================================
