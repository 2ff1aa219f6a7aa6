---------------------------- MODULE EpochRecovery ----------------------------
(***************************************************************************)
(* What an epoch of the Grok session supervisor leaves on disk and on the  *)
(* host, one durable write or one effect at a time, and how a dead epoch   *)
(* is taken back to nothing (grok_ms/supervisor.py: _attach_child,         *)
(* _transition_candidates, _stop_result, bootstrap and recover_offline;    *)
(* grok_ms/process_scope.py; FenceStore and IntentStore of runtime.py).    *)
(*                                                                         *)
(* A bootstrapping client, a supervisor and a recovery exclude each other  *)
(* by the bootstrap and the compatibility lock, whose holder is the        *)
(* variable actor.  Each may be killed between any two steps, and the host *)
(* may reboot: processes and scopes go, files stay.  A record names its    *)
(* scope by the cgroup that the scope is made in; once that is gone, the   *)
(* record cannot be reconciled any more and is called lost.                *)
(* SessionSupervisor has the threads of one epoch; here the handlers of    *)
(* its children and its one transition take their steps in the order of    *)
(* the code, which the records themselves tell.                            *)
(***************************************************************************)
EXTENDS Naturals

CONSTANTS
    Child,          \* the guarded children of the sessions
    MaxGeneration,  \* bound: provider generations, over all epochs
    MaxEpochs,      \* bound: epochs published
    MaxKills        \* bound: kills, reboots and failed recoveries

ASSUME RecoveryAssumption ==
    MaxGeneration \in Nat /\ MaxEpochs \in Nat /\ MaxKills \in Nat

Generation == 1 .. MaxGeneration

VARIABLES
    fence,      \* phase of the durable fence, or "none"
    up,         \* the process that the fence names may still execute
    actor,      \* holder of the locks: nobody, client, boot, supervisor, recovery
    epoch,      \* detached record of the supervisor's own scope: none, launched (no
                \* fence names its process), owned (the fence does), lost
    child,      \* phase of each child's recovery record, or "none"
    scope,      \* each child's cgroup: none, empty, full; or its record is lost
    proc,       \* the child itself: dead, outside its scope, inside, released
    cleaning,   \* children that the supervisor has begun to clean up
    provider,   \* phase of each generation's recovery record, or "none"
    intent,     \* phase of each generation's effect intent, or "none"
    effects,    \* generations whose provider runs
    lost,       \* generations whose provider's scope record is lost
    halting,    \* generations that the supervisor has begun to stop
    gate,       \* the generation with public traffic, or 0
    generation, epochs, kills

fenceVars  == <<fence, up, actor, epoch>>
childVars  == <<child, scope, proc, cleaning>>
routeVars  == <<provider, intent, effects, lost, halting, gate>>
boundVars  == <<generation, epochs, kills>>
vars == <<fenceVars, childVars, routeVars, boundVars>>

Unrecorded == \A c \in Child : child[c] = "none"
Unprovided == \A g \in Generation : provider[g] = "none" /\ intent[g] = "none"

Init ==
    /\ fence = "none" /\ up = FALSE /\ actor = "nobody" /\ epoch = "none"
    /\ child = [c \in Child |-> "none"] /\ scope = [c \in Child |-> "none"]
    /\ proc = [c \in Child |-> "dead"] /\ cleaning = {}
    /\ provider = [g \in Generation |-> "none"] /\ intent = [g \in Generation |-> "none"]
    /\ effects = {} /\ lost = {} /\ halting = {} /\ gate = 0
    /\ generation = 0 /\ epochs = 0 /\ kills = 0

-----------------------------------------------------------------------------
(* Bootstrap: a client clears the way and launches a supervisor in a scope *)
(* of its own; the supervisor adopts nothing of a dead epoch.              *)

\* The cgroup that every scope of the epoch was made in is gone.
Uprooted ==
    /\ scope' = [c \in Child |-> IF child[c] = "none" THEN "none" ELSE "lost"]
    /\ lost' = lost \cup effects

\* Over an epoch that executes, or whose scope is lost, the client gives up.
Boot ==
    /\ actor = "nobody" /\ ~up /\ epoch # "lost"
    /\ actor' = "client"
    /\ UNCHANGED <<fence, up, epoch, childVars, routeVars, boundVars>>

\* _reconcile_stale_supervisor_scope: whatever runs in the scope of the dead epoch is
\* killed and the scope is removed with all below it, the records of which stay.
BootSweep ==
    /\ actor = "client" /\ epoch \in {"launched", "owned"}
    /\ epoch' = "none" /\ Uprooted
    /\ proc' = [c \in Child |-> IF scope[c] = "full" THEN "dead" ELSE proc[c]]
    /\ effects' \in SUBSET effects
    /\ UNCHANGED <<fence, up, actor, child, cleaning, provider, intent, halting, gate,
                   boundVars>>

\* _spawn_scoped_supervisor
Launch ==
    /\ actor = "client" /\ epoch = "none"
    /\ epoch' = "launched" /\ actor' = "boot"
    /\ UNCHANGED <<fence, up, childVars, routeVars, boundVars>>

\* _stale_state_is_effect_free
EffectFree ==
    /\ Unrecorded /\ effects \cup lost = {}
    /\ \A g \in Generation : {provider[g], intent[g]} \subseteq {"none", "CLEANED"}

\* A bootstrap that fails is taken away by its client; over a fence with uncertain
\* state behind it, it has to.
BootFails ==
    /\ actor = "boot"
    /\ actor' = "nobody" /\ epoch' = "none"
    /\ UNCHANGED <<fence, up, childVars, routeVars, boundVars>>

\* _remove_clean_recovery_records: the intents first.
BootRemove(g) ==
    /\ actor = "boot" /\ fence # "none" /\ EffectFree
    /\ \/ /\ intent[g] = "CLEANED"
          /\ intent' = [intent EXCEPT ![g] = "none"] /\ UNCHANGED provider
       \/ /\ provider[g] = "CLEANED" /\ \A h \in Generation : intent[h] = "none"
          /\ provider' = [provider EXCEPT ![g] = "none"] /\ UNCHANGED intent
    /\ UNCHANGED <<fenceVars, childVars, effects, lost, halting, gate, boundVars>>

BootClear ==
    /\ actor = "boot" /\ fence # "none" /\ EffectFree /\ Unprovided
    /\ fence' = "none"
    /\ UNCHANGED <<up, actor, epoch, childVars, routeVars, boundVars>>

\* Without a fence the records are not looked at.
BootPublish ==
    /\ actor = "boot" /\ fence = "none"
    /\ epochs < MaxEpochs /\ epochs' = epochs + 1
    /\ fence' = "BOOTSTRAPPING" /\ up' = TRUE /\ actor' = "supervisor" /\ epoch' = "owned"
    /\ UNCHANGED <<childVars, routeVars, generation, kills>>

-----------------------------------------------------------------------------
(* A child on its way into its scope.                                      *)

Serving == actor = "supervisor"

ChildRest == UNCHANGED <<fenceVars, cleaning, routeVars, boundVars>>

\* The wrapper starts its child, which waits at the barrier.
Spawn(c) ==
    /\ Serving /\ fence # "DRAINING" /\ proc[c] = "dead" /\ child[c] = "none"
    /\ proc' = [proc EXCEPT ![c] = "outside"]
    /\ UNCHANGED <<child, scope>> /\ ChildRest

\* The scope is planned below the supervisor's own, which goes when no handler is left.
PutChild(c) ==
    /\ Serving /\ epoch = "owned" /\ proc[c] = "outside" /\ child[c] = "none"
    /\ child' = [child EXCEPT ![c] = "PREPARED"]
    /\ UNCHANGED <<scope, proc>> /\ ChildRest

Attaching(c) == Serving /\ c \notin cleaning

MakeScope(c) ==
    /\ Attaching(c) /\ child[c] = "PREPARED" /\ scope[c] = "none"
    /\ scope' = [scope EXCEPT ![c] = "empty"]
    /\ UNCHANGED <<child, proc>> /\ ChildRest

RecordScope(c) ==
    /\ Attaching(c) /\ child[c] = "PREPARED" /\ scope[c] = "empty"
    /\ child' = [child EXCEPT ![c] = "SCOPE_CREATED"]
    /\ UNCHANGED <<scope, proc>> /\ ChildRest

EnterScope(c) ==
    /\ Attaching(c) /\ child[c] = "SCOPE_CREATED" /\ proc[c] = "outside"
    /\ scope' = [scope EXCEPT ![c] = "full"] /\ proc' = [proc EXCEPT ![c] = "inside"]
    /\ UNCHANGED child /\ ChildRest

RecordAttached(c) ==
    /\ Attaching(c) /\ child[c] = "SCOPE_CREATED" /\ proc[c] = "inside"
    /\ child' = [child EXCEPT ![c] = "ATTACHED"]
    /\ UNCHANGED <<scope, proc>> /\ ChildRest

\* The acknowledgement opens the barrier; it needs a committed provider.
Release(c) ==
    /\ Attaching(c) /\ child[c] = "ATTACHED" /\ proc[c] = "inside"
    /\ gate # 0 /\ fence # "DRAINING"
    /\ proc' = [proc EXCEPT ![c] = "released"]
    /\ UNCHANGED <<child, scope>> /\ ChildRest

\* A child ends; what it started may go on in its scope.
ChildExits(c) ==
    /\ proc[c] # "dead"
    /\ proc' = [proc EXCEPT ![c] = "dead"]
    /\ scope' \in {scope} \cup (IF scope[c] = "full" THEN {[scope EXCEPT ![c] = "empty"]} ELSE {})
    /\ UNCHANGED child /\ ChildRest

\* A failed attachment or a dropped lease.
BeginCleaning(c) ==
    /\ Attaching(c) /\ child[c] # "none"
    /\ cleaning' = cleaning \cup {c}
    /\ UNCHANGED <<fenceVars, child, scope, proc, routeVars, boundVars>>

-----------------------------------------------------------------------------
(* ProcessScope.reconcile and the deletion of the record, by the supervisor*)
(* or by the recovery, which opens the cgroup of the record first.         *)

\* The epoch's scope has to be that of the process which the fence names.
Recovering == actor = "recovery" /\ epoch # "launched"

Cleans(c) ==
    /\ child[c] # "none" /\ scope[c] # "lost"
    /\ (Serving /\ c \in cleaning) \/ Recovering

\* Signals and cgroup.kill empty the scope.
EmptyScope(c) ==
    /\ Cleans(c) /\ scope[c] = "full"
    /\ scope' = [scope EXCEPT ![c] = "empty"] /\ proc' = [proc EXCEPT ![c] = "dead"]
    /\ UNCHANGED child /\ ChildRest


\* A child that had not entered is killed by its pidfd.
KillOutside(c) ==
    /\ Cleans(c) /\ scope[c] # "full" /\ proc[c] = "outside"
    /\ proc' = [proc EXCEPT ![c] = "dead"]
    /\ UNCHANGED <<child, scope>> /\ ChildRest

\* Mutant: an empty scope is removed over a child that has not entered it.
RemoveScopeOfWaiting(c) ==
    /\ Cleans(c) /\ scope[c] = "empty"
    /\ scope' = [scope EXCEPT ![c] = "none"]
    /\ UNCHANGED <<child, proc>> /\ ChildRest

RemoveScope(c) ==
    /\ Cleans(c) /\ scope[c] = "empty" /\ proc[c] = "dead"
    /\ scope' = [scope EXCEPT ![c] = "none"]
    /\ UNCHANGED <<child, proc>> /\ ChildRest

\* Mutant: the record goes with the child, before its scope.
DeleteChildEarly(c) ==
    /\ Cleans(c) /\ proc[c] = "dead"
    /\ child' = [child EXCEPT ![c] = "none"] /\ cleaning' = cleaning \ {c}
    /\ UNCHANGED <<fenceVars, scope, proc, routeVars, boundVars>>

DeleteChild(c) ==
    /\ Cleans(c) /\ scope[c] = "none" /\ proc[c] = "dead"
    /\ child' = [child EXCEPT ![c] = "none"] /\ cleaning' = cleaning \ {c}
    /\ UNCHANGED <<fenceVars, scope, proc, routeVars, boundVars>>

-----------------------------------------------------------------------------
(* A generation: record and intent before the first effect, and the commit *)
(* after the last write.                                                   *)

RouteRest == UNCHANGED <<fenceVars, childVars, boundVars>>
Moving(g) == Serving /\ g = generation /\ g \notin halting

\* One transition at a time; behind it stays what was given up as failed, and what a
\* halt that failed, in whichever place, leaves to the recovery.
PutProvider ==
    /\ Serving /\ fence # "DRAINING" /\ gate = 0
    /\ \A g \in Generation :
          provider[g] = "none" \/ g \in halting \/ "FAILED" \in {provider[g], intent[g]}
    /\ generation < MaxGeneration /\ generation' = generation + 1
    /\ provider' = [provider EXCEPT ![generation'] = "PREPARED"]
    /\ UNCHANGED <<fenceVars, childVars, intent, effects, lost, halting, gate, epochs, kills>>

\* Mutant: the intent starts where the effect is only about to be.
PutIntentApplied(g) ==
    /\ Moving(g) /\ provider[g] = "PREPARED" /\ intent[g] = "none"
    /\ intent' = [intent EXCEPT ![g] = "STARTED"]
    /\ UNCHANGED <<provider, effects, lost, halting, gate>> /\ RouteRest

PutIntent(g) ==
    /\ Moving(g) /\ provider[g] = "PREPARED" /\ intent[g] = "none"
    /\ intent' = [intent EXCEPT ![g] = "PREPARED"]
    /\ UNCHANGED <<provider, effects, lost, halting, gate>> /\ RouteRest

StartProvider(g) ==
    /\ Moving(g) /\ provider[g] = "PREPARED" /\ intent[g] = "PREPARED"
    /\ effects' = effects \cup {g}
    /\ UNCHANGED <<provider, intent, lost, halting, gate>> /\ RouteRest

RecordApplied(g) ==
    /\ Moving(g) /\ provider[g] = "PREPARED" /\ intent[g] = "PREPARED" /\ g \in effects
    /\ provider' = [provider EXCEPT ![g] = "APPLIED"]
    /\ UNCHANGED <<intent, effects, lost, halting, gate>> /\ RouteRest

AdvanceIntent(g) ==
    /\ Moving(g) /\ provider[g] = "APPLIED" /\ intent[g] = "PREPARED"
    /\ intent' = [intent EXCEPT ![g] = "APPLIED"]
    /\ UNCHANGED <<provider, effects, lost, halting, gate>> /\ RouteRest

\* _set_fence_phase: READY before the gate opens, back if it does not open.
SetFence(g) ==
    /\ Moving(g) /\ intent[g] = "APPLIED" /\ gate = 0
    /\ \/ fence = "BOOTSTRAPPING" /\ fence' = "READY"
       \/ fence = "READY" /\ fence' = "BOOTSTRAPPING"
    /\ UNCHANGED <<up, actor, epoch, childVars, routeVars, boundVars>>

\* Mutant: the gate opens before the last intent is written.
OpenGateEarly(g) ==
    /\ Moving(g) /\ provider[g] = "APPLIED" /\ gate = 0 /\ fence = "READY"
    /\ gate' = g
    /\ UNCHANGED <<provider, intent, effects, lost, halting>> /\ RouteRest

OpenGate(g) ==
    /\ Moving(g) /\ intent[g] = "APPLIED" /\ gate = 0 /\ fence = "READY"
    /\ gate' = g
    /\ UNCHANGED <<provider, intent, effects, lost, halting>> /\ RouteRest

CloseGate ==
    /\ Serving /\ gate # 0 /\ gate' = 0
    /\ UNCHANGED <<provider, intent, effects, lost, halting>> /\ RouteRest

\* The generation failed, is repaired or is drained.
BeginHalt(g) ==
    /\ Moving(g) /\ gate # g
    /\ provider[g] \in {"PREPARED", "APPLIED"} /\ intent[g] # "FAILED"
    /\ halting' = halting \cup {g}
    /\ UNCHANGED <<provider, intent, effects, lost, gate>> /\ RouteRest

\* The start is known to have left something: what is recorded as failed waits
\* for the recovery, and the transition may go on below it.
GiveUp(g) ==
    /\ Moving(g) /\ provider[g] = "PREPARED" /\ intent[g] # "none"
    /\ \/ intent[g] = "PREPARED" /\ intent' = [intent EXCEPT ![g] = "FAILED"]
          /\ UNCHANGED provider
       \/ provider' = [provider EXCEPT ![g] = "FAILED"]
          /\ UNCHANGED intent
    /\ UNCHANGED <<effects, lost, halting, gate>> /\ RouteRest

-----------------------------------------------------------------------------
(* The end of a generation: the provider proved empty, then the intent,    *)
(* then the record, by the supervisor or by the recovery, which takes the  *)
(* latest generation first and the children before any.                    *)

Halts(g) ==
    /\ provider[g] # "none"
    /\ \/ Serving /\ g = generation /\ g \in halting
       \/ /\ Recovering /\ Unrecorded
          /\ \A h \in Generation : h > g => provider[h] = "none"

StopProvider(g) ==
    /\ Halts(g) /\ g \in effects
    /\ effects' = effects \ {g}
    /\ UNCHANGED <<provider, intent, lost, halting, gate>> /\ RouteRest

CleanIntent(g) ==
    /\ Halts(g) /\ g \notin effects \cup lost
    /\ \/ intent[g] = "PREPARED" /\ intent' = [intent EXCEPT ![g] = "FAILED"]
       \/ intent[g] \in {"APPLIED", "FAILED"} /\ intent' = [intent EXCEPT ![g] = "CLEANED"]
    /\ UNCHANGED <<provider, effects, lost, halting, gate>> /\ RouteRest

CleanProvider(g) ==
    /\ Halts(g) /\ g \notin effects \cup lost
    /\ intent[g] \in {"none", "CLEANED"} /\ provider[g] # "CLEANED"
    /\ provider' = [provider EXCEPT ![g] = "CLEANED"]
    /\ UNCHANGED <<intent, effects, lost, halting, gate>> /\ RouteRest

DeleteIntent(g) ==
    /\ Halts(g) /\ provider[g] = "CLEANED" /\ intent[g] = "CLEANED"
    /\ intent' = [intent EXCEPT ![g] = "none"]
    /\ UNCHANGED <<provider, effects, lost, halting, gate>> /\ RouteRest

DeleteProvider(g) ==
    /\ Halts(g) /\ provider[g] = "CLEANED" /\ intent[g] = "none"
    /\ provider' = [provider EXCEPT ![g] = "none"] /\ halting' = halting \ {g}
    /\ UNCHANGED <<intent, effects, lost, gate>> /\ RouteRest

-----------------------------------------------------------------------------
(* The end of the epoch.                                                   *)

Drain ==
    /\ Serving /\ fence # "DRAINING"
    /\ fence' = "DRAINING"
    /\ UNCHANGED <<up, actor, epoch, childVars, routeVars, boundVars>>

\* Mutant: finalize looks at the providers only.
ReleaseEpochOverChildren ==
    /\ Serving /\ fence = "DRAINING" /\ gate = 0 /\ Unprovided
    /\ epoch = "owned" /\ epoch' = "none"
    /\ UNCHANGED <<fence, up, actor, childVars, routeVars, boundVars>>

\* finalize, over nothing: the supervisor leaves its scope, which goes with its record.
ReleaseEpoch ==
    /\ Serving /\ fence = "DRAINING" /\ gate = 0 /\ Unrecorded /\ Unprovided
    /\ epoch = "owned" /\ epoch' = "none"
    /\ UNCHANGED <<fence, up, actor, childVars, routeVars, boundVars>>

\* The fence goes last; or something failed, it stays, and the locks are given back by a
\* process that still executes.
Finalize ==
    /\ Serving /\ fence = "DRAINING" /\ gate = 0
    /\ actor' = "nobody" /\ cleaning' = {} /\ halting' = {}
    /\ \/ epoch = "none" /\ fence' = "none" /\ up' = FALSE
       \/ UNCHANGED <<fence, up>>
    /\ UNCHANGED <<epoch, child, scope, proc, provider, intent, effects, lost, gate, boundVars>>

OwnerExits ==
    /\ up /\ ~Serving
    /\ up' = FALSE
    /\ UNCHANGED <<fence, actor, epoch, childVars, routeVars, boundVars>>

\* recover_offline: the fence of an owner that cannot execute any more becomes
\* RECOVERING, and everything it covers is taken away.
Recover ==
    /\ actor = "nobody" /\ fence # "none" /\ ~up
    /\ actor' = "recovery" /\ fence' = "RECOVERING"
    /\ UNCHANGED <<up, epoch, childVars, routeVars, boundVars>>

RecoverEpoch ==
    /\ Recovering /\ Unrecorded /\ Unprovided
    /\ epoch = "owned" /\ epoch' = "none"
    /\ UNCHANGED <<fence, up, actor, childVars, routeVars, boundVars>>

Recovered ==
    /\ actor = "recovery" /\ Unrecorded /\ Unprovided /\ epoch = "none"
    /\ actor' = "nobody" /\ fence' = "none"
    /\ UNCHANGED <<up, epoch, childVars, routeVars, boundVars>>

\* _open_parent: the cgroup of the next record is gone, or another has its place; or
\* the epoch's scope is that of a process which published no fence.
RecoveryRefuses ==
    /\ actor = "recovery"
    /\ \/ epoch = "launched"
       \/ \E c \in Child : scope[c] = "lost"
       \/ \E g \in lost : Halts(g)
       \/ Unrecorded /\ Unprovided /\ epoch = "lost"
    /\ actor' = "nobody"
    /\ UNCHANGED <<fence, up, epoch, childVars, routeVars, boundVars>>

\* recover_offline without a fence: a bootstrap was killed before it published one.
RecoverUnfenced ==
    /\ actor = "nobody" /\ fence = "none" /\ epoch = "launched"
    /\ epoch' = "none"
    /\ UNCHANGED <<fence, up, actor, childVars, routeVars, boundVars>>

\* The holder of the locks is killed, or its recovery runs out of time.
Kill ==
    /\ actor # "nobody" /\ kills < MaxKills /\ kills' = kills + 1
    /\ actor' = "nobody" /\ up' = FALSE
    /\ cleaning' = {} /\ halting' = {} /\ gate' = 0
    /\ UNCHANGED <<fence, epoch, child, scope, proc, provider, intent, effects, lost,
                   generation, epochs>>

Reboot ==
    /\ kills < MaxKills /\ kills' = kills + 1
    /\ actor' = "nobody" /\ up' = FALSE
    /\ cleaning' = {} /\ halting' = {} /\ gate' = 0
    /\ Uprooted /\ epoch' = IF epoch = "none" THEN "none" ELSE "lost"
    /\ proc' = [c \in Child |-> "dead"] /\ effects' = {}
    /\ UNCHANGED <<fence, child, provider, intent, generation, epochs>>

-----------------------------------------------------------------------------
BootStep ==
    \/ BootSweep \/ Launch \/ BootFails \/ BootClear \/ BootPublish
    \/ \E g \in Generation : BootRemove(g)
AttachStep(c) ==
    \/ Spawn(c) \/ PutChild(c) \/ MakeScope(c) \/ RecordScope(c) \/ EnterScope(c)
    \/ RecordAttached(c) \/ Release(c) \/ BeginCleaning(c)
CleanStep(c) == EmptyScope(c) \/ KillOutside(c) \/ RemoveScope(c) \/ DeleteChild(c)
TransitionStep(g) ==
    \/ PutIntent(g) \/ StartProvider(g) \/ RecordApplied(g) \/ AdvanceIntent(g)
    \/ SetFence(g) \/ OpenGate(g) \/ BeginHalt(g) \/ GiveUp(g)
HaltStep(g) ==
    \/ StopProvider(g) \/ CleanIntent(g) \/ CleanProvider(g) \/ DeleteIntent(g)
    \/ DeleteProvider(g)

RecoveryStep ==
    \/ RecoverEpoch \/ Recovered \/ RecoveryRefuses
    \/ actor = "recovery" /\ \E c \in Child : CleanStep(c)
    \/ actor = "recovery" /\ \E g \in Generation : HaltStep(g)

Next ==
    \/ Boot \/ BootStep
    \/ \E c \in Child : AttachStep(c) \/ ChildExits(c) \/ CleanStep(c)
    \/ PutProvider \/ CloseGate
    \/ \E g \in Generation : TransitionStep(g) \/ HaltStep(g)
    \/ Drain \/ ReleaseEpoch \/ Finalize \/ OwnerExits
    \/ Recover \/ RecoverEpoch \/ Recovered \/ RecoveryRefuses \/ RecoverUnfenced
    \/ Kill \/ Reboot

\* An owner that gave the locks back exits, a bootstrap goes on, and so does a recovery;
\* it is run again until it finds the locks free, however many bootstraps fail in
\* between. The supervisor owes nothing.
Fairness ==
    /\ WF_vars(OwnerExits) /\ WF_vars(BootStep)
    /\ SF_vars(Recover) /\ WF_vars(RecoveryStep)

Spec == Init /\ [][Next]_vars
FairSpec == Spec /\ Fairness

-----------------------------------------------------------------------------
(* What crashes cannot break.                                              *)

Phases == {"BOOTSTRAPPING", "READY", "DRAINING", "RECOVERING"}

\* The shape of the state.
TypeOK ==
    /\ fence \in Phases \cup {"none"} /\ up \in BOOLEAN
    /\ actor \in {"nobody", "client", "boot", "supervisor", "recovery"}
    /\ epoch \in {"none", "launched", "owned", "lost"}
    /\ child \in [Child -> {"none", "PREPARED", "SCOPE_CREATED", "ATTACHED"}]
    /\ scope \in [Child -> {"none", "empty", "full", "lost"}]
    /\ proc \in [Child -> {"dead", "outside", "inside", "released"}]
    /\ cleaning \subseteq Child
    /\ provider \in [Generation -> {"none", "PREPARED", "APPLIED", "FAILED", "CLEANED"}]
    /\ intent \in [Generation -> {"none", "PREPARED", "APPLIED", "FAILED", "CLEANED"}]
    /\ effects \subseteq Generation /\ lost \subseteq Generation /\ halting \subseteq Generation
    /\ gate \in Generation \cup {0}
    /\ generation \in 0 .. MaxGeneration /\ epochs \in 0 .. MaxEpochs /\ kills \in 0 .. MaxKills

\* Whatever a crash may leave is on record: a provider under a record and an
\* intent that are not yet clean, an intent under the record that its recovery
\* needs, a scope and a child in it under a child record, and a child that has
\* passed its barrier under one that says ATTACHED, as long as it lives.
EffectsAreRecorded ==
    /\ \A g \in effects : {provider[g], intent[g]} \subseteq {"PREPARED", "APPLIED", "FAILED"}
    /\ \A g \in Generation : intent[g] # "none" => provider[g] # "none"
    /\ \A c \in Child : scope[c] # "none" \/ proc[c] \in {"inside", "released"} => child[c] # "none"
    /\ \A c \in Child : proc[c] = "released" => child[c] = "ATTACHED"

\* Without the fence there is nothing to recover, so that the next epoch, which
\* then looks at nothing, starts over nothing.
FenceCovers ==
    fence = "none" => /\ Unrecorded /\ Unprovided /\ effects \cup lost = {} /\ gate = 0
                      /\ \A c \in Child : scope[c] = "none"

\* Public traffic goes to a generation that is recorded as applied, for an owner
\* that executes behind a fence that says so.
OpenIsApplied ==
    gate # 0 => /\ gate \in effects /\ provider[gate] = "APPLIED" /\ intent[gate] = "APPLIED"
                /\ up /\ fence \in {"READY", "DRAINING"}

\* The cleanup never meets what it must refuse: a live child outside the scope
\* that its record says it entered, or whose recorded scope is gone.
NoFalseResidue ==
    \A c \in Child : proc[c] = "outside" =>
        /\ child[c] # "ATTACHED"
        /\ child[c] = "SCOPE_CREATED" => scope[c] # "none"

\* Only a reboot, or a bootstrap that was tried before the recovery, leaves records
\* behind that nothing can reconcile, or a scope that no fence names.
Stranded ==
    \/ epoch = "lost" \/ lost # {} \/ \E c \in Child : scope[c] = "lost"
    \/ actor = "nobody" /\ epoch = "launched"

\* The remains of a dead epoch are taken away, however often the recovery is killed or
\* finds the locks taken, unless they are stranded.
RecoveryConverges == (fence # "none" /\ ~up) ~> (fence = "none" \/ Stranded)
=============================================================================
