------------------------- MODULE EpochRecoveryProofs -------------------------
(***************************************************************************)
(* What crashes cannot break in EpochRecovery, for any children, any       *)
(* number of generations and epochs, and any number of kills.              *)
(*                                                                         *)
(* The invariant has parts for the holder of the locks, for an epoch that  *)
(* is being given up, for a child, for a generation, for the committed one *)
(* and for the fence.  The steps of a child and those of a generation leave each       *)
(* other's state alone (ChildFrame, RouteFrame), so that each part has to  *)
(* look at its own steps only.                                             *)
(***************************************************************************)
EXTENDS EpochRecovery, TLAPS

USE DEF fenceVars, childVars, routeVars, boundVars, vars, Generation, Phases

ChildWork(c) == AttachStep(c) \/ ChildExits(c) \/ CleanStep(c)
RouteWork(g) == TransitionStep(g) \/ HaltStep(g)

-----------------------------------------------------------------------------
(* The parts of the inductive invariant.                                   *)

\* The holder of the lock is alone, and it alone works on anything.
Owned ==
    /\ actor = "supervisor" => up
    /\ actor = "recovery" => fence = "RECOVERING"
    /\ actor \in {"client", "boot", "recovery"} => ~up
    /\ up => fence \in {"BOOTSTRAPPING", "READY", "DRAINING"}
    /\ actor # "supervisor" => gate = 0 /\ cleaning = {} /\ halting = {}

\* A supervisor that has left its scope drains, and has nothing left on record.
Released == Serving /\ epoch # "owned" => fence = "DRAINING" /\ Unrecorded /\ Unprovided

\* A child, its scope and its record.
ChildInOrder(c) ==
    /\ proc[c] \in {"inside", "released"} => scope[c] = "full"
    /\ scope[c] = "full" => child[c] \in {"SCOPE_CREATED", "ATTACHED"} /\ proc[c] # "outside"
    /\ scope[c] \in {"empty", "lost"} => child[c] # "none"
    /\ proc[c] = "released" => child[c] = "ATTACHED"
    /\ proc[c] = "outside" => child[c] # "ATTACHED"
    /\ proc[c] = "outside" /\ child[c] = "SCOPE_CREATED" => scope[c] # "none"

ChildrenInOrder == \A c \in Child : ChildInOrder(c)

\* A generation's provider, its intent and its record.
RouteInOrder(g) ==
    /\ g > generation => provider[g] = "none"
    /\ intent[g] # "none" => provider[g] # "none"
    /\ g \in effects \cup lost =>
          {provider[g], intent[g]} \subseteq {"PREPARED", "APPLIED", "FAILED"}
    /\ intent[g] = "APPLIED" => provider[g] = "APPLIED"
    /\ Serving /\ provider[g] = "APPLIED" /\ g \notin halting => g \in effects

RoutesInOrder == \A g \in Generation : RouteInOrder(g)

\* The generation behind the gate is neither begun nor stopped.
Committed ==
    gate # 0 => intent[gate] = "APPLIED" /\ gate \notin halting /\ fence \in {"READY", "DRAINING"}

\* The records go before the fence.
Covered == fence = "none" => Unrecorded /\ Unprovided

IInv == TypeOK /\ Owned /\ Released /\ ChildrenInOrder /\ RoutesInOrder /\ Committed /\ Covered

-----------------------------------------------------------------------------
(* What a step leaves alone.                                               *)

\* The steps of a child touch nothing but children.
LEMMA ChildFrame ==
  ASSUME NEW c \in Child, ChildWork(c)
  PROVE  UNCHANGED <<fenceVars, routeVars, boundVars>>
<1>1. CASE AttachStep(c)
  BY <1>1 DEF AttachStep, Spawn, PutChild, MakeScope, RecordScope, EnterScope, RecordAttached,
              Release, BeginCleaning, ChildRest
<1>2. CASE ChildExits(c) \/ CleanStep(c)
  BY <1>2 DEF CleanStep, ChildExits, EmptyScope, KillOutside, RemoveScope, DeleteChild, ChildRest
<1> QED
  BY <1>1, <1>2 DEF ChildWork

\* The steps of a generation touch no child, and of the fence only its phase.
LEMMA RouteFrame ==
  ASSUME NEW g \in Generation, RouteWork(g)
  PROVE  /\ UNCHANGED <<up, actor, epoch, childVars, lost, epochs, kills>>
         /\ fence' = fence \/ (SetFence(g) /\ fence' \in {"BOOTSTRAPPING", "READY"} /\ gate' = 0)
<1>1. CASE TransitionStep(g)
  BY <1>1 DEF TransitionStep, PutIntent, StartProvider, RecordApplied, AdvanceIntent, SetFence,
              OpenGate, BeginHalt, GiveUp, RouteRest
<1>2. CASE HaltStep(g)
  BY <1>2 DEF HaltStep, StopProvider, CleanIntent, CleanProvider, DeleteIntent, DeleteProvider,
              RouteRest
<1> QED
  BY <1>1, <1>2 DEF RouteWork

\* A bootstrap removes clean records, and a generation's intent before its provider.
LEMMA RemovedRecords ==
  ASSUME TypeOK, NEW g \in Generation, BootRemove(g), NEW h \in Generation
  PROVE  /\ provider'[h] \in {provider[h], "none"} /\ intent'[h] \in {intent[h], "none"}
         /\ provider'[h] # provider[h] => intent'[h] = "none"
<1>1. provider \in [Generation -> {"none", "PREPARED", "APPLIED", "FAILED", "CLEANED"}]
      /\ intent \in [Generation -> {"none", "PREPARED", "APPLIED", "FAILED", "CLEANED"}]
  BY DEF TypeOK
<1>2. CASE intent' = [intent EXCEPT ![g] = "none"] /\ UNCHANGED provider
  BY <1>1, <1>2
<1>3. CASE /\ \A x \in Generation : intent[x] = "none"
           /\ provider' = [provider EXCEPT ![g] = "none"] /\ UNCHANGED intent
  BY <1>1, <1>3
<1> QED
  BY <1>2, <1>3 DEF BootRemove

\* Every step is one of a child, one of a generation, or one of the lock's holder.
LEMMA StepCases ==
  ASSUME [Next]_vars
  PROVE  \/ \E c \in Child : ChildWork(c)
         \/ \E g \in Generation : RouteWork(g)
         \/ PutProvider \/ CloseGate
         \/ Boot \/ Launch \/ BootFails \/ BootClear \/ BootPublish
         \/ \E g \in Generation : BootRemove(g)
         \/ Drain \/ ReleaseEpoch \/ Finalize \/ OwnerExits
         \/ Recover \/ RecoverEpoch \/ Recovered \/ RecoveryRefuses \/ RecoverUnfenced
         \/ Kill \/ BootSweep \/ Reboot
         \/ UNCHANGED vars
  BY DEF Next, BootStep, ChildWork, RouteWork

-----------------------------------------------------------------------------
(* Types.                                                                  *)

LEMMA ChildTypes ==
  ASSUME TypeOK, NEW c \in Child, ChildWork(c)
  PROVE  TypeOK'
<1>1. UNCHANGED <<fenceVars, routeVars, boundVars>>
  BY ChildFrame
<1>2. CASE AttachStep(c)
  BY <1>1, <1>2 DEF TypeOK, AttachStep, Spawn, PutChild, MakeScope, RecordScope, EnterScope,
                    RecordAttached, Release, BeginCleaning, ChildRest
<1>3. CASE ChildExits(c)
  BY <1>1, <1>3 DEF TypeOK, ChildExits, ChildRest
<1>4. CASE CleanStep(c)
  BY <1>1, <1>4 DEF TypeOK, CleanStep, EmptyScope, KillOutside, RemoveScope, DeleteChild, ChildRest
<1> QED
  BY <1>2, <1>3, <1>4 DEF ChildWork

LEMMA RouteTypes ==
  ASSUME TypeOK, NEW g \in Generation, RouteWork(g)
  PROVE  TypeOK'
<1>1. UNCHANGED <<up, actor, epoch, childVars, lost, epochs, kills>> /\ (fence' = fence \/ fence' \in Phases)
  BY RouteFrame
<1>2. /\ provider' \in [Generation -> {"none", "PREPARED", "APPLIED", "FAILED", "CLEANED"}]
      /\ intent' \in [Generation -> {"none", "PREPARED", "APPLIED", "FAILED", "CLEANED"}]
  <2> USE DEF TypeOK
  <2>1. CASE PutIntent(g) \/ StartProvider(g) \/ RecordApplied(g) \/ AdvanceIntent(g)
    BY <2>1 DEF PutIntent, StartProvider, RecordApplied, AdvanceIntent
  <2>2. CASE SetFence(g) \/ OpenGate(g) \/ BeginHalt(g) \/ GiveUp(g)
    BY <2>2 DEF SetFence, OpenGate, BeginHalt, GiveUp
  <2>3. CASE StopProvider(g) \/ CleanIntent(g) \/ CleanProvider(g)
    BY <2>3 DEF StopProvider, CleanIntent, CleanProvider
  <2>4. CASE DeleteIntent(g) \/ DeleteProvider(g)
    BY <2>4 DEF DeleteIntent, DeleteProvider
  <2> QED
    BY <2>1, <2>2, <2>3, <2>4 DEF RouteWork, TransitionStep, HaltStep
<1>3. /\ effects' \subseteq Generation /\ halting' \subseteq Generation
      /\ gate' \in Generation \cup {0} /\ generation' = generation
  <2> USE DEF TypeOK
  <2>1. CASE TransitionStep(g)
    BY <2>1 DEF TransitionStep, PutIntent, StartProvider, RecordApplied, AdvanceIntent, SetFence,
       OpenGate, BeginHalt, GiveUp, RouteRest
  <2>2. CASE HaltStep(g)
    BY <2>2 DEF HaltStep, StopProvider, CleanIntent, CleanProvider, DeleteIntent, DeleteProvider,
       RouteRest
  <2> QED
    BY <2>1, <2>2 DEF RouteWork
<1> QED
  BY <1>1, <1>2, <1>3 DEF TypeOK

LEMMA NextTypes == TypeOK /\ [Next]_vars => TypeOK'
<1> SUFFICES ASSUME TypeOK, [Next]_vars PROVE TypeOK'
  OBVIOUS
<1>1. CASE PutProvider
  <2>1. generation' \in Generation
    BY <1>1, RecoveryAssumption DEF PutProvider, TypeOK
  <2> QED
    BY <1>1, <2>1 DEF PutProvider, TypeOK
<1>2. CASE CloseGate
  BY <1>2 DEF CloseGate, RouteRest, TypeOK
<1>3. CASE Boot \/ Launch \/ BootFails \/ BootClear \/ BootPublish
  <2>1. epochs' \in 0 .. MaxEpochs
    BY <1>3, RecoveryAssumption DEF Boot, Launch, BootFails, BootClear, BootPublish, TypeOK
  <2> QED
    BY <1>3, <2>1 DEF Boot, Launch, BootFails, BootClear, BootPublish, TypeOK
<1>7. CASE \E g \in Generation : BootRemove(g)
  BY <1>7 DEF BootRemove, TypeOK
<1>4. CASE Drain \/ ReleaseEpoch \/ Finalize \/ OwnerExits
  BY <1>4 DEF Drain, ReleaseEpoch, Finalize, OwnerExits, TypeOK
<1>8. CASE Recover \/ RecoverEpoch \/ Recovered \/ RecoveryRefuses \/ RecoverUnfenced
  BY <1>8 DEF Recover, RecoverEpoch, Recovered, RecoveryRefuses, RecoverUnfenced, TypeOK
<1>9. ASSUME Uprooted, TypeOK
      PROVE  /\ scope' \in [Child -> {"none", "empty", "full", "lost"}]
             /\ lost' \subseteq Generation
  BY <1>9 DEF Uprooted, TypeOK
<1>10. CASE BootSweep
  <2>1. proc' \in [Child -> {"dead", "outside", "inside", "released"}]
    BY <1>10 DEF BootSweep, TypeOK
  <2> QED
    BY <1>9, <1>10, <2>1 DEF BootSweep, TypeOK
<1>5. CASE Kill \/ Reboot
  <2>1. kills' \in 0 .. MaxKills
    BY <1>5, RecoveryAssumption DEF Kill, Reboot, TypeOK
  <2>2. CASE Kill
    BY <2>1, <2>2 DEF Kill, TypeOK
  <2>3. CASE Reboot
    <3>1. proc' \in [Child -> {"dead"}]
      BY <2>3 DEF Reboot
    <3> QED
      BY <1>9, <2>1, <2>3, <3>1 DEF Reboot, TypeOK
  <2> QED
    BY <1>5, <2>2, <2>3
<1>6. CASE UNCHANGED vars
  BY <1>6 DEF TypeOK
<1> QED
  BY <1>1, <1>2, <1>3, <1>4, <1>5, <1>6, <1>7, <1>8, <1>10, ChildTypes, RouteTypes, StepCases

-----------------------------------------------------------------------------
(* The holder of the lock.                                                 *)

LEMMA NextOwned == IInv /\ [Next]_vars => Owned'
<1> SUFFICES ASSUME IInv, [Next]_vars PROVE Owned'
  OBVIOUS
<1>1. ASSUME NEW c \in Child, ChildWork(c) PROVE Owned'
  <2>1. UNCHANGED <<fenceVars, routeVars, boundVars>>
    BY <1>1, ChildFrame
  <2>2. actor # "supervisor" => cleaning' \subseteq cleaning
    BY <1>1 DEF ChildWork, AttachStep, CleanStep, Spawn, PutChild, MakeScope, RecordScope,
      EnterScope, RecordAttached, Release, BeginCleaning, ChildExits, EmptyScope, KillOutside,
      RemoveScope, DeleteChild, ChildRest, Serving, Attaching
  <2> QED
    BY <2>1, <2>2 DEF IInv, Owned
<1>2. ASSUME NEW g \in Generation, RouteWork(g) PROVE Owned'
  <2>1. /\ UNCHANGED <<up, actor, childVars, epochs, kills>>
        /\ fence' = fence \/ (SetFence(g) /\ fence' \in {"BOOTSTRAPPING", "READY"})
    BY <1>2, RouteFrame
  <2>2. actor \in {"supervisor", "recovery"}
    BY <1>2 DEF RouteWork, TransitionStep, HaltStep, PutIntent, StartProvider, RecordApplied,
      AdvanceIntent, SetFence, OpenGate, BeginHalt, GiveUp, StopProvider, CleanIntent,
      CleanProvider, DeleteIntent, DeleteProvider, Moving, Halts, Recovering, Serving
  <2>3. actor # "supervisor" => gate' = gate /\ halting' \subseteq halting /\ fence' = fence
    BY <1>2 DEF RouteWork, TransitionStep, HaltStep, PutIntent, StartProvider, RecordApplied,
      AdvanceIntent, SetFence, OpenGate, BeginHalt, GiveUp, StopProvider, CleanIntent,
      CleanProvider, DeleteIntent, DeleteProvider, Moving, Serving, RouteRest
  <2> QED
    BY <2>1, <2>2, <2>3 DEF IInv, Owned
<1>3. CASE PutProvider \/ CloseGate
  BY <1>3 DEF PutProvider, CloseGate, RouteRest, Serving, IInv, Owned
<1>4. CASE Boot \/ Launch \/ BootFails \/ BootSweep
  BY <1>4 DEF Boot, Launch, BootFails, BootSweep, IInv, Owned
<1>5. CASE BootClear \/ BootPublish
  BY <1>5 DEF BootClear, BootPublish, IInv, Owned
<1>6. CASE \E g \in Generation : BootRemove(g)
  BY <1>6 DEF BootRemove, IInv, Owned
<1>7. CASE Drain \/ ReleaseEpoch \/ Finalize
  BY <1>7 DEF Drain, ReleaseEpoch, Finalize, Serving, IInv, Owned
<1>8. CASE OwnerExits \/ Recover \/ RecoverEpoch \/ Recovered
  BY <1>8 DEF OwnerExits, Recover, RecoverEpoch, Recovered, Serving, IInv, Owned
<1>9. CASE RecoveryRefuses \/ RecoverUnfenced \/ Kill \/ Reboot
  BY <1>9 DEF RecoveryRefuses, RecoverUnfenced, Kill, Reboot, IInv, Owned
<1>10. CASE UNCHANGED vars
  BY <1>10 DEF IInv, Owned
<1> QED
  BY <1>1, <1>2, <1>3, <1>4, <1>5, <1>6, <1>7, <1>8, <1>9, <1>10, StepCases

LEMMA NextReleased == IInv /\ [Next]_vars => Released'
<1> SUFFICES ASSUME IInv, [Next]_vars, Serving', epoch' # "owned"
             PROVE  fence' = "DRAINING" /\ Unrecorded' /\ Unprovided'
  BY DEF Released
<1>1. (Serving /\ epoch # "owned" => fence = "DRAINING" /\ Unrecorded /\ Unprovided) /\ TypeOK
  BY DEF IInv, Released
<1>2. CASE UNCHANGED <<actor, epoch, fence, child, provider, intent>>
  BY <1>1, <1>2 DEF Serving, Unrecorded, Unprovided
<1>3. ASSUME NEW c \in Child, ChildWork(c) PROVE child' = child
  <2>1. Serving /\ epoch # "owned" /\ Unrecorded
    BY <1>1, <1>3, ChildFrame DEF Serving
  <2> QED
    BY <1>3, <2>1 DEF ChildWork, AttachStep, CleanStep, Spawn, PutChild, MakeScope, RecordScope,
      EnterScope, RecordAttached, Release, BeginCleaning, ChildExits, EmptyScope, KillOutside,
      RemoveScope, DeleteChild, ChildRest, Attaching, Cleans, Unrecorded
<1>4. CASE \E c \in Child : ChildWork(c)
  BY <1>2, <1>3, <1>4, ChildFrame
<1>5. ASSUME NEW g \in Generation, RouteWork(g) PROVE FALSE
  <2>1. Serving /\ epoch # "owned" /\ Unprovided
    BY <1>1, <1>5, RouteFrame DEF Serving
  <2> QED
    BY <1>1, <1>5, <2>1 DEF RouteWork, TransitionStep, HaltStep, PutIntent, StartProvider,
      RecordApplied, AdvanceIntent, SetFence, OpenGate, BeginHalt, GiveUp, StopProvider,
      CleanIntent, CleanProvider, DeleteIntent, DeleteProvider, Moving, Halts, Unprovided
<1>6. CASE PutProvider
  BY <1>1, <1>6 DEF PutProvider, Serving
<1>7. CASE CloseGate \/ UNCHANGED vars
  BY <1>2, <1>7 DEF CloseGate, RouteRest
<1>8. CASE ReleaseEpoch
  BY <1>8 DEF ReleaseEpoch, Unrecorded, Unprovided
<1>9. CASE Drain
  BY <1>1, <1>9 DEF Drain, Serving
<1>10. CASE OwnerExits \/ RecoverEpoch \/ RecoverUnfenced \/ \E g \in Generation : BootRemove(g)
  BY <1>10 DEF OwnerExits, RecoverEpoch, RecoverUnfenced, BootRemove, Recovering, Serving
<1>11. CASE \/ Boot \/ Launch \/ BootFails \/ BootClear \/ BootPublish \/ BootSweep \/ Finalize
            \/ Recover \/ Recovered \/ RecoveryRefuses \/ Kill \/ Reboot
  BY <1>11 DEF Boot, Launch, BootFails, BootClear, BootPublish, BootSweep, Finalize, Recover,
     Recovered, RecoveryRefuses, Kill, Reboot, Serving
<1> QED
  BY <1>4, <1>5, <1>6, <1>7, <1>8, <1>9, <1>10, <1>11, StepCases

-----------------------------------------------------------------------------
(* Children.                                                               *)

\* A step of a child keeps that child in order.
LEMMA OwnChild ==
  ASSUME IInv, NEW c \in Child, ChildWork(c)
  PROVE  ChildInOrder(c)'
<1>1. ChildInOrder(c) /\ TypeOK
  BY DEF IInv, ChildrenInOrder
<1>2. CASE Spawn(c) \/ PutChild(c) \/ MakeScope(c) \/ RecordScope(c)
  BY <1>1, <1>2 DEF Spawn, PutChild, MakeScope, RecordScope, TypeOK, ChildInOrder
<1>3. CASE EnterScope(c) \/ RecordAttached(c) \/ Release(c) \/ BeginCleaning(c)
  BY <1>1, <1>3 DEF EnterScope, RecordAttached, Release, BeginCleaning, TypeOK, ChildInOrder
<1>4. CASE ChildExits(c) \/ EmptyScope(c) \/ KillOutside(c)
  BY <1>1, <1>4 DEF ChildExits, EmptyScope, KillOutside, TypeOK, ChildInOrder
<1>5. CASE RemoveScope(c) \/ DeleteChild(c)
  BY <1>1, <1>5 DEF RemoveScope, DeleteChild, TypeOK, ChildInOrder
<1> QED
  BY <1>2, <1>3, <1>4, <1>5 DEF ChildWork, AttachStep, CleanStep

\* And every other as it is.
LEMMA OtherChildren ==
  ASSUME TypeOK, NEW c \in Child, ChildWork(c), NEW d \in Child, d # c
  PROVE  child'[d] = child[d] /\ scope'[d] = scope[d] /\ proc'[d] = proc[d]
<1>1. CASE AttachStep(c)
  BY <1>1 DEF TypeOK, AttachStep, Spawn, PutChild, MakeScope, RecordScope, EnterScope,
              RecordAttached, Release, BeginCleaning, ChildRest
<1>2. CASE ChildExits(c) \/ CleanStep(c)
  BY <1>2 DEF TypeOK, CleanStep, ChildExits, EmptyScope, KillOutside, RemoveScope, DeleteChild
<1> QED
  BY <1>1, <1>2 DEF ChildWork

LEMMA NextChildren == IInv /\ [Next]_vars => ChildrenInOrder'
<1> SUFFICES ASSUME IInv, [Next]_vars, NEW d \in Child PROVE ChildInOrder(d)'
  BY DEF ChildrenInOrder
<1>1. ChildInOrder(d)
  BY DEF IInv, ChildrenInOrder
<1>2. CASE \E c \in Child : ChildWork(c)
  <2>1. PICK c \in Child : ChildWork(c)
    BY <1>2
  <2>2. CASE c = d
    BY <2>1, <2>2, OwnChild
  <2>3. CASE c # d
    BY <1>1, <2>1, <2>3, OtherChildren DEF ChildInOrder, IInv
  <2> QED
    BY <2>2, <2>3
<1>3. CASE UNCHANGED <<child, scope, proc>>
  BY <1>1, <1>3 DEF ChildInOrder
<1>4. CASE \E g \in Generation : RouteWork(g)
  BY <1>3, <1>4, RouteFrame
<1>8. CASE PutProvider \/ CloseGate
  BY <1>3, <1>8 DEF PutProvider, CloseGate, RouteRest
<1>5. CASE \/ Boot \/ Launch \/ BootFails \/ BootClear \/ BootPublish
           \/ \E g \in Generation : BootRemove(g)
  BY <1>3, <1>5 DEF Boot, Launch, BootFails, BootClear, BootPublish, BootRemove
<1>6. CASE Drain \/ ReleaseEpoch \/ Finalize \/ OwnerExits \/ Kill \/ UNCHANGED vars
  BY <1>3, <1>6 DEF Drain, ReleaseEpoch, Finalize, OwnerExits, Kill
<1>9. CASE Recover \/ RecoverEpoch \/ Recovered \/ RecoveryRefuses \/ RecoverUnfenced
  BY <1>3, <1>9 DEF Recover, RecoverEpoch, Recovered, RecoveryRefuses, RecoverUnfenced
<1>7. CASE BootSweep \/ Reboot
  <2>1. /\ child' = child
        /\ scope'[d] = IF child[d] = "none" THEN "none" ELSE "lost"
        /\ proc'[d] = "dead" \/ (proc'[d] = proc[d] /\ scope[d] # "full")
    BY <1>7 DEF BootSweep, Reboot, Uprooted
  <2> QED
    BY <1>1, <2>1 DEF ChildInOrder
<1> QED
  BY <1>2, <1>4, <1>5, <1>6, <1>7, <1>8, <1>9, StepCases

-----------------------------------------------------------------------------
(* Generations.                                                            *)

\* A step of a generation keeps that generation in order.
LEMMA OwnRoute ==
  ASSUME IInv, NEW g \in Generation, RouteWork(g)
  PROVE  RouteInOrder(g)'
<1>1. RouteInOrder(g) /\ TypeOK
  BY DEF IInv, RoutesInOrder
<1>2. actor' = actor /\ generation' = generation /\ lost' = lost
  BY RouteFrame DEF RouteWork, TransitionStep, HaltStep, PutIntent, StartProvider, RecordApplied,
     AdvanceIntent, SetFence, OpenGate, BeginHalt, GiveUp, StopProvider, CleanIntent,
     CleanProvider, DeleteIntent, DeleteProvider, RouteRest
<1>3. CASE PutIntent(g) \/ StartProvider(g) \/ RecordApplied(g) \/ AdvanceIntent(g)
  <2>1. CASE PutIntent(g)
    BY <1>1, <1>2, <2>1 DEF PutIntent, RouteInOrder, TypeOK, Serving, Moving
  <2>2. CASE StartProvider(g)
    BY <1>1, <1>2, <2>2 DEF StartProvider, RouteInOrder, TypeOK, Serving, Moving
  <2>3. CASE RecordApplied(g)
    BY <1>1, <1>2, <2>3 DEF RecordApplied, RouteInOrder, TypeOK, Serving, Moving
  <2>4. CASE AdvanceIntent(g)
    BY <1>1, <1>2, <2>4 DEF AdvanceIntent, RouteInOrder, TypeOK, Serving, Moving
  <2> QED
    BY <1>3, <2>1, <2>2, <2>3, <2>4
<1>4. CASE SetFence(g) \/ OpenGate(g) \/ BeginHalt(g) \/ GiveUp(g)
  <2>1. CASE SetFence(g) \/ OpenGate(g)
    BY <1>1, <1>2, <2>1 DEF SetFence, OpenGate, RouteInOrder, TypeOK, Serving, Moving
  <2>2. CASE BeginHalt(g)
    BY <1>1, <1>2, <2>2 DEF BeginHalt, RouteInOrder, TypeOK, Serving, Moving
  <2>3. CASE GiveUp(g)
    <3>1. CASE intent'[g] = "FAILED" /\ provider' = provider
      BY <1>1, <1>2, <2>3, <3>1 DEF GiveUp, RouteInOrder, Moving
    <3>2. CASE provider'[g] = "FAILED" /\ intent' = intent
      BY <1>1, <1>2, <2>3, <3>2 DEF GiveUp, RouteInOrder, Moving
    <3> QED
      BY <1>1, <2>3, <3>1, <3>2 DEF GiveUp, TypeOK
  <2> QED
    BY <1>4, <2>1, <2>2, <2>3
<1>5. CASE StopProvider(g) \/ CleanIntent(g)
  <2>1. CASE actor = "recovery"
    BY <1>1, <1>2, <1>5, <2>1 DEF StopProvider, CleanIntent, RouteInOrder, TypeOK, Serving
  <2>2. CASE g \in halting
    BY <1>1, <1>2, <1>5, <2>2 DEF StopProvider, CleanIntent, RouteInOrder, TypeOK, Serving
  <2> QED
    BY <1>5, <2>1, <2>2 DEF StopProvider, CleanIntent, Halts, Recovering
<1>6. CASE CleanProvider(g) \/ DeleteIntent(g) \/ DeleteProvider(g)
  BY <1>1, <1>2, <1>6 DEF CleanProvider, DeleteIntent, DeleteProvider, RouteInOrder, TypeOK,
                          Serving, Halts
<1> QED
  BY <1>3, <1>4, <1>5, <1>6 DEF RouteWork, TransitionStep, HaltStep

\* And every other as it is.
LEMMA OtherRoutes ==
  ASSUME TypeOK, NEW g \in Generation, RouteWork(g), NEW h \in Generation, h # g
  PROVE  /\ provider'[h] = provider[h] /\ intent'[h] = intent[h] /\ generation' = generation
         /\ lost' = lost
         /\ (h \in effects' <=> h \in effects) /\ (h \in halting' <=> h \in halting)
<1>1. CASE TransitionStep(g)
  BY <1>1 DEF TypeOK, TransitionStep, PutIntent, StartProvider, RecordApplied, AdvanceIntent,
              SetFence, OpenGate, BeginHalt, GiveUp, RouteRest
<1>2. CASE HaltStep(g)
  BY <1>2 DEF TypeOK, HaltStep, StopProvider, CleanIntent, CleanProvider, DeleteIntent,
              DeleteProvider, RouteRest
<1> QED
  BY <1>1, <1>2 DEF RouteWork

LEMMA NextRoutes == IInv /\ [Next]_vars => RoutesInOrder'
<1> SUFFICES ASSUME IInv, [Next]_vars, NEW h \in Generation PROVE RouteInOrder(h)'
  BY DEF RoutesInOrder
<1>1. RouteInOrder(h)
  BY DEF IInv, RoutesInOrder
<1>2. CASE \E g \in Generation : RouteWork(g)
  <2>1. PICK g \in Generation : RouteWork(g)
    BY <1>2
  <2>2. CASE g = h
    BY <2>1, <2>2, OwnRoute
  <2>3. CASE g # h
    <3>1. actor' = actor
      BY <2>1, RouteFrame
    <3> QED
      BY <1>1, <2>1, <2>3, <3>1, OtherRoutes DEF RouteInOrder, IInv, Serving
  <2> QED
    BY <2>2, <2>3
<1>3. CASE UNCHANGED <<routeVars, generation>> /\ (actor' = actor \/ ~Serving')
  BY <1>1, <1>3 DEF RouteInOrder, Serving
<1>4. CASE \E c \in Child : ChildWork(c)
  BY <1>3, <1>4, ChildFrame
<1>5. CASE PutProvider
  BY <1>1, <1>5 DEF PutProvider, RouteInOrder, IInv, TypeOK, Serving
<1>6. CASE CloseGate
  BY <1>1, <1>6 DEF CloseGate, RouteRest, RouteInOrder, Serving
<1>7. CASE Boot \/ Launch \/ BootFails \/ BootClear \/ UNCHANGED vars
  BY <1>3, <1>7 DEF Boot, Launch, BootFails, BootClear, Serving
<1>11. CASE Drain \/ ReleaseEpoch \/ OwnerExits \/ RecoverUnfenced
  BY <1>3, <1>11 DEF Drain, ReleaseEpoch, OwnerExits, RecoverUnfenced
<1>12. CASE Recover \/ RecoverEpoch \/ Recovered \/ RecoveryRefuses
  BY <1>3, <1>12 DEF Recover, RecoverEpoch, Recovered, RecoveryRefuses, Serving
<1>8. CASE BootPublish
  <2>1. provider[h] = "none"
    BY <1>8 DEF BootPublish, IInv, Covered, Unprovided
  <2> QED
    BY <1>1, <1>8, <2>1 DEF BootPublish, RouteInOrder
<1>9. ASSUME NEW g \in Generation, BootRemove(g) PROVE RouteInOrder(h)'
  <2>1. /\ UNCHANGED <<effects, lost, halting, generation>> /\ ~Serving /\ ~Serving'
    BY <1>9 DEF BootRemove, Serving
  <2>2. /\ provider'[h] \in {provider[h], "none"} /\ intent'[h] \in {intent[h], "none"}
        /\ provider'[h] # provider[h] => intent'[h] = "none"
    BY <1>9, RemovedRecords DEF IInv
  <2>3. h \notin effects \cup lost
    BY <1>9 DEF BootRemove, EffectFree
  <2> QED
    BY <1>1, <2>1, <2>2, <2>3 DEF RouteInOrder
<1>10. CASE Finalize \/ Kill
  BY <1>1, <1>10 DEF Finalize, Kill, RouteInOrder, Serving
<1>13. CASE BootSweep \/ Reboot
  <2>1. /\ UNCHANGED <<provider, intent, generation>> /\ ~Serving'
        /\ effects' \subseteq effects /\ lost' = lost \cup effects
    BY <1>13 DEF BootSweep, Reboot, Uprooted, Serving
  <2> QED
    BY <1>1, <2>1 DEF RouteInOrder
<1> QED
  BY <1>2, <1>4, <1>5, <1>6, <1>7, <1>8, <1>9, <1>10, <1>11, <1>12, <1>13, StepCases

-----------------------------------------------------------------------------
(* The committed generation, and the fence.                                *)

LEMMA NextCommitted == IInv /\ [Next]_vars => Committed'
<1> SUFFICES ASSUME IInv, [Next]_vars, gate' # 0 PROVE Committed'
  BY DEF Committed
<1>1. Committed /\ TypeOK /\ (gate # 0 => Serving)
  BY DEF IInv, Owned, Serving
<1>2. ASSUME NEW g \in Generation, RouteWork(g) PROVE Committed'
  <2>1. fence' = fence
    BY <1>2, RouteFrame
  <2>2. CASE OpenGate(g)
    BY <2>1, <2>2 DEF OpenGate, Moving, Committed
  <2>3. CASE SetFence(g)
    BY <2>3 DEF SetFence
  <2>4. CASE PutIntent(g) \/ StartProvider(g) \/ RecordApplied(g) \/ AdvanceIntent(g)
    <3>1. gate' = gate /\ halting' = halting
      BY <2>4 DEF PutIntent, StartProvider, RecordApplied, AdvanceIntent
    <3>2. gate \in Generation /\ intent[gate] = "APPLIED"
      BY <1>1, <3>1 DEF Committed, TypeOK
    <3>3. intent'[gate] = "APPLIED"
      BY <1>1, <2>4, <3>2 DEF PutIntent, StartProvider, RecordApplied, AdvanceIntent, TypeOK
    <3> QED
      BY <1>1, <2>1, <3>1, <3>3 DEF Committed
  <2>5. CASE BeginHalt(g) \/ GiveUp(g)
    <3>1. gate' = gate /\ gate \notin halting'
      BY <1>1, <2>5 DEF BeginHalt, GiveUp, Committed
    <3>2. gate \in Generation /\ intent[gate] = "APPLIED"
      BY <1>1, <3>1 DEF Committed, TypeOK
    <3>3. intent'[gate] = "APPLIED"
      BY <1>1, <2>5, <3>2 DEF BeginHalt, GiveUp, TypeOK
    <3> QED
      BY <1>1, <2>1, <3>1, <3>3 DEF Committed
  <2>6. CASE HaltStep(g)
    <3>1. gate' = gate /\ g # gate
      BY <1>1, <2>6 DEF HaltStep, StopProvider, CleanIntent, CleanProvider, DeleteIntent,
        DeleteProvider, Halts, Recovering, Serving, Committed
    <3> QED
      BY <1>1, <2>1, <2>6, <3>1 DEF HaltStep, StopProvider, CleanIntent, CleanProvider,
        DeleteIntent, DeleteProvider, Committed, TypeOK
  <2> QED
    BY <1>2, <2>2, <2>3, <2>4, <2>5, <2>6 DEF RouteWork, TransitionStep
<1>3. CASE UNCHANGED <<routeVars, fence>>
  BY <1>1, <1>3 DEF Committed
<1>4. CASE \E c \in Child : ChildWork(c)
  BY <1>3, <1>4, ChildFrame
<1>5. CASE PutProvider \/ CloseGate
  BY <1>5 DEF PutProvider, CloseGate
<1>6. CASE \/ Boot \/ BootSweep \/ Launch \/ BootFails \/ BootClear \/ BootPublish
           \/ \E g \in Generation : BootRemove(g)
  BY <1>6 DEF Boot, BootSweep, Launch, BootFails, BootClear, BootPublish, BootRemove, IInv, Owned
<1>7. CASE Drain
  BY <1>1, <1>7 DEF Drain, Committed
<1>8. CASE Finalize \/ Recover \/ Recovered \/ RecoveryRefuses \/ Kill \/ Reboot
  BY <1>1, <1>8 DEF Finalize, Recover, Recovered, RecoveryRefuses, Kill, Reboot, Serving
<1>9. CASE ReleaseEpoch \/ OwnerExits \/ RecoverEpoch \/ RecoverUnfenced \/ UNCHANGED vars
  BY <1>3, <1>9 DEF ReleaseEpoch, OwnerExits, RecoverEpoch, RecoverUnfenced
<1> QED
  BY <1>2, <1>4, <1>5, <1>6, <1>7, <1>8, <1>9, StepCases

LEMMA NextCovered == IInv /\ [Next]_vars => Covered'
<1> SUFFICES ASSUME IInv, [Next]_vars, fence' = "none" PROVE (Unrecorded /\ Unprovided)'
  BY DEF Covered
<1>1. (fence = "none" => Unrecorded /\ Unprovided) /\ (Serving => fence # "none")
      /\ (actor = "recovery" => fence # "none")
  BY DEF IInv, Covered, Owned, Serving
<1>2. CASE fence = "none" /\ UNCHANGED <<child, provider, intent>>
  BY <1>1, <1>2 DEF Unrecorded, Unprovided
<1>3. ASSUME NEW c \in Child, ChildWork(c) PROVE (Unrecorded /\ Unprovided)'
  <2>1. fence' = fence /\ provider' = provider /\ intent' = intent
    BY <1>3, ChildFrame
  <2>2. child' = child
    BY <1>1, <1>3, <2>1 DEF ChildWork, AttachStep, CleanStep, Spawn, PutChild, MakeScope,
      RecordScope, EnterScope, RecordAttached, Release, BeginCleaning, ChildExits, EmptyScope,
      KillOutside, RemoveScope, DeleteChild, Attaching, Cleans, Recovering
  <2> QED
    BY <1>2, <2>1, <2>2
<1>4. ASSUME NEW g \in Generation, RouteWork(g) PROVE FALSE
  <2>1. fence = "none"
    BY <1>4, RouteFrame
  <2> QED
    BY <1>1, <1>4, <2>1 DEF RouteWork, TransitionStep, HaltStep, PutIntent, StartProvider,
      RecordApplied, AdvanceIntent, SetFence, OpenGate, BeginHalt, GiveUp, StopProvider,
      CleanIntent, CleanProvider, DeleteIntent, DeleteProvider, Moving, Halts, Recovering
<1>5. CASE PutProvider \/ CloseGate
  BY <1>1, <1>5 DEF PutProvider, CloseGate, RouteRest
<1>6. CASE Boot \/ BootSweep \/ Launch \/ BootFails \/ BootPublish
  BY <1>1, <1>2, <1>6 DEF Boot, BootSweep, Launch, BootFails, BootPublish
<1>11. CASE \E g \in Generation : BootRemove(g)
  BY <1>1, <1>11 DEF BootRemove
<1>7. CASE BootClear
  BY <1>7 DEF BootClear, EffectFree, Unrecorded, Unprovided
<1>8. CASE Finalize
  BY <1>1, <1>8 DEF Finalize, IInv, Released, Unrecorded, Unprovided
<1>9. CASE Recovered
  BY <1>9 DEF Recovered, Unrecorded, Unprovided
<1>10. CASE Drain \/ ReleaseEpoch \/ OwnerExits \/ Recover \/ UNCHANGED vars
  BY <1>2, <1>10 DEF Drain, ReleaseEpoch, OwnerExits, Recover
<1>12. CASE RecoverEpoch \/ RecoveryRefuses \/ RecoverUnfenced \/ Kill \/ Reboot
  BY <1>2, <1>12 DEF RecoverEpoch, RecoveryRefuses, RecoverUnfenced, Kill, Reboot
<1> QED
  BY <1>3, <1>4, <1>5, <1>6, <1>7, <1>8, <1>9, <1>10, <1>11, <1>12, StepCases

-----------------------------------------------------------------------------
(* The theorems.                                                           *)

LEMMA InitInvariant == Init => IInv
<1> SUFFICES ASSUME Init PROVE IInv
  OBVIOUS
<1>1. TypeOK
  <2>1. child \in [Child -> {"none"}] /\ scope \in [Child -> {"none"}] /\ proc \in [Child -> {"dead"}]
    BY DEF Init
  <2>2. provider \in [Generation -> {"none"}] /\ intent \in [Generation -> {"none"}]
    BY DEF Init
  <2>3. 0 \in 0 .. MaxGeneration /\ 0 \in 0 .. MaxEpochs /\ 0 \in 0 .. MaxKills
    BY RecoveryAssumption
  <2> QED
    BY <2>1, <2>2, <2>3 DEF Init, TypeOK
<1>2. ChildrenInOrder /\ RoutesInOrder
  BY DEF Init, ChildrenInOrder, ChildInOrder, RoutesInOrder, RouteInOrder
<1>3. Owned /\ Released /\ Committed /\ Covered
  BY DEF Init, Owned, Released, Committed, Covered, Serving, Unrecorded, Unprovided
<1> QED
  BY <1>1, <1>2, <1>3 DEF IInv

LEMMA NextInvariant == IInv /\ [Next]_vars => IInv'
  BY NextTypes, NextOwned, NextReleased, NextChildren, NextRoutes, NextCommitted, NextCovered DEF IInv

LEMMA Invariant == Spec => []IInv
  BY InitInvariant, NextInvariant, PTL DEF Spec

\* The records, the effects and the owner keep their types across any crashes.
THEOREM RecoveryTypeCorrect == Spec => []TypeOK
<1>1. IInv => TypeOK
  BY DEF IInv
<1> QED
  BY <1>1, Invariant, PTL

\* Whatever a kill or a reboot interrupts, every provider and every child it leaves is
\* on record, and every intent has the record that its recovery needs.
THEOREM EffectsAlwaysRecorded == Spec => []EffectsAreRecorded
<1>1. IInv => EffectsAreRecorded
  <2> SUFFICES ASSUME IInv PROVE EffectsAreRecorded
    OBVIOUS
  <2>1. \A g \in Generation : RouteInOrder(g)
    BY DEF IInv, RoutesInOrder
  <2>2. \A c \in Child : ChildInOrder(c)
    BY DEF IInv, ChildrenInOrder
  <2>3. effects \subseteq Generation /\ scope \in [Child -> {"none", "empty", "full", "lost"}]
    BY DEF IInv, TypeOK
  <2> QED
    BY <2>1, <2>2, <2>3 DEF EffectsAreRecorded, RouteInOrder, ChildInOrder
<1> QED
  BY <1>1, Invariant, PTL

\* Where there is no fence there is nothing that a dead epoch could have left, so that
\* a bootstrap that finds none may look at nothing.
THEOREM FenceAlwaysCovers == Spec => []FenceCovers
<1>1. IInv => FenceCovers
  <2> SUFFICES ASSUME IInv, fence = "none" PROVE FenceCovers
    BY DEF FenceCovers
  <2>1. Unrecorded /\ Unprovided
    BY DEF IInv, Covered
  <2>2. gate = 0
    BY DEF IInv, Owned
  <2>3. effects \cup lost = {}
    BY <2>1 DEF IInv, TypeOK, RoutesInOrder, RouteInOrder, Unprovided
  <2>4. \A c \in Child : scope[c] = "none"
    BY <2>1 DEF IInv, TypeOK, ChildrenInOrder, ChildInOrder, Unrecorded
  <2> QED
    BY <2>1, <2>2, <2>3, <2>4 DEF FenceCovers
<1> QED
  BY <1>1, Invariant, PTL

\* Public traffic only ever goes to a provider that runs and is recorded as applied, for
\* an owner that executes behind its fence.
THEOREM OpenAlwaysApplied == Spec => []OpenIsApplied
<1>1. IInv => OpenIsApplied
  <2> SUFFICES ASSUME IInv, gate # 0 PROVE OpenIsApplied
    BY DEF OpenIsApplied
  <2>1. gate \in Generation /\ Serving /\ up
    BY DEF IInv, TypeOK, Owned, Serving
  <2>2. intent[gate] = "APPLIED" /\ gate \notin halting /\ fence \in {"READY", "DRAINING"}
    BY DEF IInv, Committed
  <2>3. provider[gate] = "APPLIED" /\ gate \in effects
    BY <2>1, <2>2 DEF IInv, RoutesInOrder, RouteInOrder
  <2> QED
    BY <2>1, <2>2, <2>3 DEF OpenIsApplied
<1> QED
  BY <1>1, Invariant, PTL

\* No cleanup and no recovery ever meets a child that it has to refuse as residue.
THEOREM NeverFalseResidue == Spec => []NoFalseResidue
<1>1. IInv => NoFalseResidue
  BY DEF IInv, ChildrenInOrder, ChildInOrder, NoFalseResidue
<1> QED
  BY <1>1, Invariant, PTL
=============================================================================
