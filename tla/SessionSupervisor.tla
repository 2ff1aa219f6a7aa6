--------------------------- MODULE SessionSupervisor ---------------------------
(***************************************************************************)
(* One epoch of the Grok session supervisor (grok_ms/supervisor.py): the   *)
(* process that shares one provider route among the sessions that hold a   *)
(* lease on it.  Its threads are a handler per control connection, the     *)
(* generation worker that commits the first route, the watchdog that       *)
(* repairs it, and the main thread that accepts, takes the signals and     *)
(* finalizes the epoch.                                                    *)
(*                                                                         *)
(* A step is one critical section of _state_lock, or what a thread does    *)
(* between two of them; _transition_lock is the variable tlock.  A live    *)
(* lease has its child in a cgroup scope with a durable record, and a      *)
(* generation has a durable record as long as its provider may run.        *)
(* Every failure that the host can produce (a scope that will not empty, a *)
(* provider that will not stop, a fence that cannot be written, a deadline *)
(* that passes) is one of MaxFailures failures.                            *)
(***************************************************************************)
EXTENDS Naturals, FiniteSets

CONSTANTS
    Session,                \* the sessions, each with its control connection
    Ladder,                 \* the number of rungs of the contract
    MaxLeases,              \* limits.max_leases
    MaxRepairs,             \* bound: checks that call for a repair
    MaxFailures,            \* bound: failures of the host, and signals
    WrapperDiesAttaching    \* a wrapper may die while its child is attached

ASSUME SupervisorAssumption ==
    /\ Ladder \in Nat \ {0} /\ MaxLeases \in Nat \ {0}
    /\ MaxRepairs \in Nat /\ MaxFailures \in Nat
    /\ WrapperDiesAttaching \in BOOLEAN
    /\ Session \cap {"worker", "watchdog", "main", "nobody"} = {}

VARIABLES
    phase, stop, generation,            \* the epoch
    lease,                              \* what each session holds
    active, used,                       \* the generation in use, rungs repaired
    frontend, gate, published,          \* the public frontend
    running, scopes,                    \* on the host: providers and child scopes
    fence, providers, children,         \* on disk: fence phase and recovery records
    residue, preserve, proved,          \* what cleanup has found out
    tlock,                              \* the holder of _transition_lock
    hpc, gone,                          \* the handlers; wrappers that have died
    worker, error,                      \* the generation worker and its verdict
    trans,                              \* the transition under tlock
    dog, seen,                          \* the watchdog and the generation it checks
    main, forced,                       \* the main thread; who forces a shutdown
    drop, drain, clean,                 \* the calls in progress, per thread
    failures, signals, repairs          \* what has been counted

epochVars   == <<phase, stop, generation>>
routeVars   == <<active, used, frontend, gate, published>>
hostVars    == <<running, scopes>>
storeVars   == <<fence, providers, children>>
verdictVars == <<residue, preserve, proved>>
handlerVars == <<hpc, gone>>
workerVars  == <<worker, error, trans>>
dogVars     == <<dog, seen>>
callVars    == <<main, forced, drop, drain, clean>>
boundVars   == <<failures, signals, repairs>>
vars == <<epochVars, lease, routeVars, hostVars, storeVars, verdictVars, tlock,
          handlerVars, workerVars, dogVars, callVars, boundVars>>

Forcer == {"watchdog", "main"}
Caller == Session \cup Forcer           \* the threads that drop leases and drain
Thread == Caller \cup {"worker"}
NoDrop == [of |-> "nobody", scope |-> "none"]

Leased   == {s \in Session : lease[s] # "none"}
Draining == phase = "DRAINING"

\* A failure of the host, while the bound lasts.
Spent == failures + signals
Fail == Spent < MaxFailures /\ failures' = failures + 1 /\ UNCHANGED <<signals, repairs>>
NoFail == UNCHANGED boundVars
MayFail(fails) == IF fails THEN Fail ELSE NoFail

\* An idle handler waits for a packet; the others answer a request.
Idle(s) == hpc[s] \in {"registered", "attached", "refused"}

\* The watchdog owns a health check until it has finished with its verdict.
OwnsCheck == dog \notin {"idle", "sweep", "alone", "gone"}

Init ==
    /\ phase = "BOOTSTRAPPING" /\ stop = FALSE /\ generation = 0
    /\ lease = [s \in Session |-> "none"]
    /\ active = 0 /\ used = {}
    /\ frontend = "none" /\ gate = 0 /\ published = 0
    /\ running = {} /\ scopes = {}
    /\ fence = "BOOTSTRAPPING" /\ providers = {} /\ children = {}
    /\ residue = FALSE /\ preserve = FALSE /\ proved = FALSE
    /\ tlock = "nobody"
    /\ hpc = [s \in Session |-> "new"] /\ gone = {}
    /\ worker = "none" /\ error = FALSE
    /\ trans = [reason |-> "initial", at |-> "no", gen |-> 0, rung |-> 1, last |-> Ladder]
    /\ dog = "idle" /\ seen = 0
    /\ main = "serving" /\ forced = [t \in Forcer |-> "no"]
    /\ drop = [t \in Caller |-> NoDrop] /\ drain = [t \in Caller |-> "no"]
    /\ clean = TRUE
    /\ failures = 0 /\ signals = 0 /\ repairs = 0

-----------------------------------------------------------------------------
(* What the threads have in common: the end of the epoch.                  *)

\* The state lock is held: the epoch drains from here on, in memory first.
BecomeDraining(fenced) ==
    /\ phase' = "DRAINING" /\ generation' = generation + 1
    /\ fence' = IF fenced THEN "DRAINING" ELSE fence

\* The lease that a thread is to drop: a handler its own, a thread that forces a
\* shutdown any that is left, the watchdog those of dead wrappers.
Drops(t, s) ==
    /\ drop[t] = NoDrop /\ drain[t] = "no"
    /\ IF t \in Session THEN s = t /\ hpc[t] \in {"failing", "leaving"}
       ELSE IF forced[t] # "no" THEN s \in Leased
       ELSE t = "watchdog" /\ dog = "sweep" /\ s \in Leased \cap gone

\* _drop_lease, first half: the lease is read under the lock, its child's scope
\* is reconciled without it.
DropLook(t, s) ==
    /\ Drops(t, s)
    /\ \E fails \in BOOLEAN :
         /\ fails => lease[s] = "live"
         /\ MayFail(fails)
         /\ drop' = [drop EXCEPT ![t] =
                       [of |-> s, scope |-> CASE lease[s] = "none" -> "absent"
                                              [] lease[s] = "provisional" -> "childless"
                                              [] OTHER -> IF fails THEN "stuck" ELSE "clean"]]
         /\ scopes' = IF lease[s] = "live" /\ ~fails THEN scopes \ {s} ELSE scopes
    /\ UNCHANGED <<epochVars, lease, routeVars, running, storeVars, verdictVars, tlock,
                   handlerVars, workerVars, dogVars, main, forced, drain, clean>>

\* Mutant: a scope that would not empty is not remembered.
DropPopForgetful(t) ==
    /\ drop[t] # NoDrop
    /\ \E fails \in BOOLEAN :
         LET s     == drop[t].of
             held  == lease[s] # "none"
             stuck == FALSE
             last  == Leased \subseteq {s} /\ drop[t].scope # "absent"
             ends  == /\ held /\ last /\ ~Draining
                      /\ ~(t \in Forcer /\ forced[t] # "no")
         IN
         /\ fails => ends
         /\ MayFail(fails)
         /\ lease' = [lease EXCEPT ![s] = "none"]
         /\ children' = IF lease[s] = "live" /\ ~stuck THEN children \ {s} ELSE children
         /\ IF ends THEN BecomeDraining(~fails) ELSE UNCHANGED <<phase, generation, fence>>
         /\ residue' = (residue \/ stuck \/ fails)
         /\ preserve' = (preserve \/ fails)
         /\ drop' = [drop EXCEPT ![t] = NoDrop]
         /\ IF t \in Session
            THEN LET drains == last /\ hpc[t] # "failing" IN
                 /\ hpc' = [hpc EXCEPT ![t] = IF hpc[t] = "failing" THEN "failed"
                                              ELSE IF drains THEN "ending" ELSE "over"]
                 /\ drain' = [drain EXCEPT ![t] = IF drains THEN "lock" ELSE "no"]
                 /\ stop' = (stop \/ drains)
                 /\ gone' = IF hpc'[t] = "over" THEN gone \ {t} ELSE gone
            ELSE UNCHANGED <<hpc, drain, stop, gone>>
    /\ UNCHANGED <<routeVars, hostVars, providers, proved, tlock, workerVars, dogVars, main,
                   forced, clean>>

\* Mutant: the record of a child stays after its scope is gone.
DropPopUnrecorded(t) ==
    /\ drop[t] # NoDrop
    /\ \E fails \in BOOLEAN :
         LET s     == drop[t].of
             held  == lease[s] # "none"
             stuck == held /\ drop[t].scope = "stuck"
             last  == Leased \subseteq {s} /\ drop[t].scope # "absent"
             ends  == /\ held /\ last /\ ~Draining
                      /\ ~(t \in Forcer /\ forced[t] # "no")
         IN
         /\ fails => ends
         /\ MayFail(fails)
         /\ lease' = [lease EXCEPT ![s] = "none"]
         /\ children' = children
         /\ IF ends THEN BecomeDraining(~fails) ELSE UNCHANGED <<phase, generation, fence>>
         /\ residue' = (residue \/ stuck \/ fails)
         /\ preserve' = (preserve \/ fails)
         /\ drop' = [drop EXCEPT ![t] = NoDrop]
         /\ IF t \in Session
            THEN LET drains == last /\ hpc[t] # "failing" IN
                 /\ hpc' = [hpc EXCEPT ![t] = IF hpc[t] = "failing" THEN "failed"
                                              ELSE IF drains THEN "ending" ELSE "over"]
                 /\ drain' = [drain EXCEPT ![t] = IF drains THEN "lock" ELSE "no"]
                 /\ stop' = (stop \/ drains)
                 /\ gone' = IF hpc'[t] = "over" THEN gone \ {t} ELSE gone
            ELSE UNCHANGED <<hpc, drain, stop, gone>>
    /\ UNCHANGED <<routeVars, hostVars, providers, proved, tlock, workerVars, dogVars, main,
                   forced, clean>>

\* _drop_lease, second half: the lease is popped, its child record goes unless
\* the scope is stuck, and the last lease that goes drains the epoch, save in a
\* forced shutdown, which drained it before.
DropPop(t) ==
    /\ drop[t] # NoDrop
    /\ \E fails \in BOOLEAN :
         LET s     == drop[t].of
             held  == lease[s] # "none"
             stuck == held /\ drop[t].scope = "stuck"
             last  == Leased \subseteq {s} /\ drop[t].scope # "absent"
             ends  == /\ held /\ last /\ ~Draining
                      /\ ~(t \in Forcer /\ forced[t] # "no")
         IN
         /\ fails => ends
         /\ MayFail(fails)
         /\ lease' = [lease EXCEPT ![s] = "none"]
         /\ children' = IF lease[s] = "live" /\ ~stuck THEN children \ {s} ELSE children
         /\ IF ends THEN BecomeDraining(~fails) ELSE UNCHANGED <<phase, generation, fence>>
         /\ residue' = (residue \/ stuck \/ fails)
         /\ preserve' = (preserve \/ fails)
         /\ drop' = [drop EXCEPT ![t] = NoDrop]
         /\ IF t \in Session
            THEN LET drains == last /\ hpc[t] # "failing" IN
                 /\ hpc' = [hpc EXCEPT ![t] = IF hpc[t] = "failing" THEN "failed"
                                              ELSE IF drains THEN "ending" ELSE "over"]
                 /\ drain' = [drain EXCEPT ![t] = IF drains THEN "lock" ELSE "no"]
                 /\ stop' = (stop \/ drains)
                 /\ gone' = IF hpc'[t] = "over" THEN gone \ {t} ELSE gone
            ELSE UNCHANGED <<hpc, drain, stop, gone>>
    /\ UNCHANGED <<routeVars, hostVars, providers, proved, tlock, workerVars, dogVars, main,
                   forced, clean>>

\* _drain_epoch: the epoch is stopped where a drain begins (drain' = "lock").  Then
\* a health check of another thread is waited for, up to the stop deadline, and
\* no new one begins after the stop; then the transition lock is taken.  The
\* errors so far are copied, the frontend is revoked and closed; a stream that
\* does not end leaves it revoked.
DrainLock(t) ==
    /\ drain[t] = "lock" /\ tlock = "nobody"
    /\ tlock' = t /\ drain' = [drain EXCEPT ![t] = "take"]
    /\ LET late == t # "watchdog" /\ OwnsCheck IN
       \E fails \in BOOLEAN :
         /\ late => fails
         /\ fails => late \/ frontend # "none"
         /\ MayFail(fails)
         /\ clean' = (~residue /\ ~fails)
         /\ frontend' = IF frontend = "none" \/ (fails /\ ~late) THEN frontend ELSE "closed"
    /\ gate' = 0
    /\ UNCHANGED <<epochVars, lease, active, used, published, hostVars, storeVars,
                   verdictVars, handlerVars, workerVars, dogVars, main, forced, drop>>

\* The active provider becomes nobody's, and is stopped; seen from outside the
\* lock it is stopped with its records, or it is not.
DrainTake(t) ==
    /\ drain[t] = "take"
    /\ active' = 0
    /\ \E fails \in BOOLEAN :
         /\ fails => active # 0
         /\ MayFail(fails)
         /\ clean' = (clean /\ ~fails)
         /\ running' = IF fails THEN running ELSE running \ {active}
         /\ providers' = IF fails THEN providers ELSE providers \ {active}
    /\ drain' = [drain EXCEPT ![t] = "prove"]
    /\ UNCHANGED <<epochVars, lease, used, frontend, gate, published, scopes, fence,
                   children, verdictVars, tlock, handlerVars, workerVars, dogVars, main,
                   forced, drop>>

\* The verdict: empty only with no error and no lease.  A forced shutdown that
\* met an error keeps the fence for the offline recovery.
DrainProve(t) ==
    /\ drain[t] = "prove"
    /\ LET empty == clean /\ Leased = {}
           force == t \in Forcer /\ forced[t] # "no"
           bad   == force /\ (~empty \/ forced[t] = "unfenced")
       IN
       /\ proved' = (empty /\ ~bad)
       /\ preserve' = (preserve \/ bad) /\ residue' = (residue \/ bad)
       /\ forced' = IF force THEN [forced EXCEPT ![t] = "no"] ELSE forced
    /\ tlock' = "nobody"
    /\ drain' = [drain EXCEPT ![t] = "no"]
    /\ IF t \in Session THEN hpc' = [hpc EXCEPT ![t] = "over"] /\ gone' = gone \ {t}
       ELSE UNCHANGED handlerVars
    /\ clean' = TRUE
    /\ IF t = "watchdog" THEN dog' = "gone" /\ seen' = 0 ELSE UNCHANGED dogVars
    /\ UNCHANGED <<epochVars, lease, routeVars, hostVars, storeVars, workerVars, main, drop,
                   boundVars>>

\* _force_shutdown: the epoch drains whoever holds a lease, then every lease is
\* dropped and the epoch is drained.
ForceBegin(t) ==
    /\ stop' = TRUE
    /\ \E fails \in BOOLEAN :
         /\ fails => ~Draining
         /\ failures' = IF fails THEN failures + 1 ELSE failures
         /\ failures' + signals' <= MaxFailures
         /\ IF Draining THEN UNCHANGED <<phase, generation, fence>>
            ELSE BecomeDraining(~fails)
         /\ forced' = [forced EXCEPT ![t] = IF fails THEN "unfenced" ELSE "yes"]
         /\ preserve' = (preserve \/ fails)
    /\ UNCHANGED <<lease, routeVars, hostVars, providers, children, residue, proved, tlock,
                   handlerVars, worker, error, seen, drop, drain, clean, repairs>>

ForceDrain(t) ==
    /\ forced[t] # "no" /\ drop[t] = NoDrop /\ drain[t] = "no" /\ Leased = {}
    /\ drain' = [drain EXCEPT ![t] = "lock"]
    /\ UNCHANGED <<epochVars, lease, routeVars, hostVars, storeVars, verdictVars, tlock,
                   handlerVars, workerVars, dogVars, main, forced, drop, clean, boundVars>>

\* _linearize_draining, for a thread that saw no lease: another session may have
\* registered since, and then only the drain goes on.  A fence that cannot be
\* written leaves the caller before the drain.
Linearize(t, fails) ==
    /\ fails => ~Draining /\ Leased = {}
    /\ MayFail(fails)
    /\ IF Draining \/ Leased # {} THEN UNCHANGED <<phase, generation, fence>>
       ELSE BecomeDraining(~fails)
    /\ drain' = [drain EXCEPT ![t] = IF fails THEN "no" ELSE "lock"]
    /\ stop' = (stop \/ ~fails)

CallStep(t) ==
    \/ DropPop(t) \/ \E s \in Session : DropLook(t, s)
    \/ DrainLock(t) \/ DrainTake(t) \/ DrainProve(t)

-----------------------------------------------------------------------------
(* The control connections: one handler per session.                       *)

\* The answer to a request: a draining epoch tells its client so, stops, and
\* the handler leaves its loop; otherwise it waits for the next packet.
Answer(s, next) ==
    /\ hpc' = [hpc EXCEPT ![s] = IF stop \/ Draining THEN "leaving" ELSE next]
    /\ stop' = (stop \/ Draining)

\* A session connects and registers: refused by a draining epoch, which then
\* stops, and beyond the lease capacity.
Register(s) ==
    /\ hpc[s] = "new" /\ main = "serving" /\ ~stop
    /\ IF Draining \/ Cardinality(Leased) >= MaxLeases
       THEN Answer(s, "over") /\ UNCHANGED lease
       ELSE /\ lease' = [lease EXCEPT ![s] = "provisional"]
            /\ hpc' = [hpc EXCEPT ![s] = "waiting"] /\ UNCHANGED stop
    /\ UNCHANGED <<phase, generation, routeVars, hostVars, storeVars, verdictVars, tlock,
                   gone, workerVars, dogVars, callVars, boundVars>>

\* _ensure_generation: one round of its loop that does not just wait again.
AwaitGeneration(s) ==
    /\ hpc[s] = "waiting"
    /\ LET lost  == lease[s] = "none" \/ Draining
           ready == ~lost /\ active # 0
           bad   == lost \/ (~ready /\ error)
       IN
       \/ (bad \/ (~ready /\ s \in gone))
          /\ hpc' = [hpc EXCEPT ![s] = "failing"] /\ UNCHANGED worker
       \/ ready /\ hpc' = [hpc EXCEPT ![s] = "generated"] /\ UNCHANGED worker
       \/ /\ ~bad /\ ~ready /\ worker = "none"
          /\ worker' = "begin" /\ UNCHANGED hpc
    /\ UNCHANGED <<epochVars, lease, routeVars, hostVars, storeVars, verdictVars, tlock,
                   gone, error, trans, dogVars, callVars, boundVars>>

\* _register after a failure: with no lease left the epoch is to drain.
FailedRegistration(s) ==
    /\ hpc[s] = "failed"
    /\ hpc' = [hpc EXCEPT ![s] = IF Leased = {} THEN "alone" ELSE "told"]
    /\ UNCHANGED <<epochVars, lease, routeVars, hostVars, storeVars, verdictVars, tlock,
                   gone, workerVars, dogVars, callVars, boundVars>>

LinearizeFailed(s) ==
    /\ hpc[s] = "alone"
    /\ \E fails \in BOOLEAN :
         /\ Linearize(s, fails)
         /\ hpc' = [hpc EXCEPT ![s] = IF fails THEN "told" ELSE "ending"]
    /\ UNCHANGED <<lease, routeVars, hostVars, providers, children, verdictVars, tlock,
                   gone, workerVars, dogVars, main, forced, drop, clean>>

\* The error is answered; a draining epoch stops.
Told(s) ==
    /\ hpc[s] = "told"
    /\ hpc' = [hpc EXCEPT ![s] = "over"] /\ gone' = gone \ {s}
    /\ stop' = (stop \/ Draining)
    /\ UNCHANGED <<phase, generation, lease, routeVars, hostVars, storeVars, verdictVars,
                   tlock, workerVars, dogVars, callVars, boundVars>>

\* The last look of _register: a refusal here leaves the lease in place.
Registered(s) ==
    /\ hpc[s] = "generated"
    /\ Answer(s, IF lease[s] = "none" \/ active = 0 THEN "refused" ELSE "registered")
    /\ UNCHANGED <<phase, generation, lease, routeVars, hostVars, storeVars, verdictVars,
                   tlock, gone, workerVars, dogVars, callVars, boundVars>>

\* _attach_child: the lease is looked at; then record, scope and membership are
\* made without the lock; then the lease takes the child if it may still.
AttachScope(s) ==
    /\ hpc[s] = "registered" /\ s \notin gone
    /\ lease[s] = "provisional"
    /\ children' = children \cup {s} /\ scopes' = scopes \cup {s}
    /\ hpc' = [hpc EXCEPT ![s] = "scoped"]
    /\ UNCHANGED <<epochVars, lease, routeVars, running, fence, providers, verdictVars,
                   tlock, gone, workerVars, dogVars, callVars, boundVars>>

AttachCommit(s) ==
    /\ hpc[s] = "scoped"
    /\ IF lease[s] = "none" \/ Draining \/ active = 0
       THEN hpc' = [hpc EXCEPT ![s] = "unattached"] /\ UNCHANGED <<lease, stop>>
       ELSE lease' = [lease EXCEPT ![s] = "live"] /\ Answer(s, "attached")
    /\ UNCHANGED <<phase, generation, routeVars, hostVars, storeVars, verdictVars, tlock,
                   gone, workerVars, dogVars, callVars, boundVars>>

\* Mutant: the record goes whether the scope went or not.
AttachUndoRecord(s) ==
    /\ hpc[s] = "unattached"
    /\ \/ /\ NoFail
          /\ scopes' = scopes \ {s} /\ children' = children \ {s}
          /\ UNCHANGED <<residue, preserve>>
       \/ Fail /\ residue' = TRUE /\ preserve' = TRUE 
          /\ children' = children \ {s} /\ UNCHANGED scopes
    /\ Answer(s, "refused")
    /\ UNCHANGED <<phase, generation, lease, routeVars, running, fence, providers, proved,
                   tlock, gone, workerVars, dogVars, callVars>>

AttachUndo(s) ==
    /\ hpc[s] = "unattached"
    /\ \/ /\ NoFail
          /\ scopes' = scopes \ {s} /\ children' = children \ {s}
          /\ UNCHANGED <<residue, preserve>>
       \/ Fail /\ residue' = TRUE /\ preserve' = TRUE /\ UNCHANGED <<scopes, children>>
    /\ Answer(s, "refused")
    /\ UNCHANGED <<phase, generation, lease, routeVars, running, fence, providers, proved,
                   tlock, gone, workerVars, dogVars, callVars>>

\* _release, once the child has exited.
Release(s) ==
    /\ hpc[s] \in {"registered", "attached"} /\ s \notin gone
    /\ lease[s] # "none"
    /\ hpc' = [hpc EXCEPT ![s] = "leaving"]
    /\ UNCHANGED <<epochVars, lease, routeVars, hostVars, storeVars, verdictVars, tlock,
                   gone, workerVars, dogVars, callVars, boundVars>>

\* A death between these states shows no earlier than in the next of them.
WrapperDies(s) ==
    /\ s \notin gone
    /\ \/ Idle(s) \/ hpc[s] = "waiting"
       \/ WrapperDiesAttaching /\ hpc[s] = "scoped"
    /\ gone' = gone \cup {s}
    /\ UNCHANGED <<epochVars, lease, routeVars, hostVars, storeVars, verdictVars, tlock,
                   hpc, workerVars, dogVars, callVars, boundVars>>

\* _connection_lost: the peer has closed or the main thread has shut the socket;
\* the lease that the connection owns is dropped.
ConnectionLost(s) ==
    /\ Idle(s)
    /\ s \in gone \/ (main = "joining" /\ forced["main"] = "no")
    /\ hpc' = [hpc EXCEPT ![s] = "leaving"]
    /\ UNCHANGED <<epochVars, lease, routeVars, hostVars, storeVars, verdictVars, tlock,
                   gone, workerVars, dogVars, callVars, boundVars>>

HandlerStep(s) ==
    \/ AwaitGeneration(s) \/ Registered(s)
    \/ FailedRegistration(s) \/ LinearizeFailed(s) \/ Told(s)
    \/ AttachCommit(s) \/ AttachUndo(s) \/ ConnectionLost(s)
    \/ CallStep(s)

\* What the clients choose.
ClientStep(s) == Register(s) \/ AttachScope(s) \/ Release(s) \/ WrapperDies(s)

-----------------------------------------------------------------------------
(* The provider transition, by the worker or by the watchdog, under tlock. *)

\* The thread that runs the transition.
Moves(t) == IF t = "worker" THEN worker = "transition" ELSE dog = "mend"

TransRest == UNCHANGED <<stop, lease, used, scopes, children, preserve, proved, tlock,
                         handlerVars, worker, error, dogVars, callVars>>
\* Between two transitions only the rung in use is remembered.
Rested == [trans EXCEPT !.at = "no", !.reason = "initial", !.gen = 0, !.last = Ladder]

\* The next rung: refused when nobody is left to serve, otherwise a fresh
\* generation whose record is durable before its first effect.
TransProbe(t) ==
    /\ Moves(t) /\ trans.at = "probe"
    /\ IF trans.rung > trans.last \/ Draining \/ Leased = {}
       THEN trans' = [trans EXCEPT !.at = "raise"] /\ UNCHANGED <<generation, providers>>
       ELSE /\ generation' = generation + 1
            /\ trans' = [trans EXCEPT !.at = "start", !.gen = generation']
            /\ providers' = providers \cup {generation'}
    /\ TransRest
    /\ UNCHANGED <<phase, active, frontend, gate, published, running, fence, residue, boundVars>>

\* adapter.start: the provider runs, or the start fails, or it is cancelled by
\* the drain, or it fails and knows that it left something.
TransStart(t) ==
    /\ Moves(t) /\ trans.at = "start"
    /\ running' = running \cup {trans.gen}
    /\ \/ trans' = [trans EXCEPT !.at = "publish"] /\ NoFail /\ UNCHANGED residue
       \/ trans' = [trans EXCEPT !.at = "rejected"] /\ Fail /\ UNCHANGED residue
       \/ /\ Draining /\ trans' = [trans EXCEPT !.at = "cancelled"]
          /\ NoFail /\ UNCHANGED residue
       \/ trans' = [trans EXCEPT !.at = "raise"] /\ Fail /\ residue' = TRUE
    /\ TransRest
    /\ UNCHANGED <<phase, generation, active, frontend, gate, published, providers, fence>>

\* Mutant: the candidate is not looked at again before it is published.
TransPublishStale(t) ==
    /\ Moves(t) /\ trans.at = "publish"
    /\ IF FALSE
       THEN /\ trans' = [trans EXCEPT !.at = "cancelled"]
            /\ UNCHANGED <<phase, fence, active, gate, published, boundVars>>
       ELSE \/ /\ frontend = "serving"
               /\ fence' = "READY" /\ phase' = "READY"
               /\ gate' = trans.gen /\ published' = trans.gen /\ active' = trans.gen
               /\ trans' = [trans EXCEPT !.at = "done"]
               /\ NoFail
            \/ /\ IF frontend = "serving" THEN Fail ELSE NoFail
               /\ fence' = "BOOTSTRAPPING" /\ phase' = "BOOTSTRAPPING"
               /\ trans' = [trans EXCEPT !.at = "rejected"]
               /\ active' = 0 /\ UNCHANGED <<gate, published>>
    /\ TransRest /\ UNCHANGED <<generation, frontend, hostVars, providers, residue>>

\* The commit, in one hold of the state lock: fence, frontend, authority.  A
\* closed frontend or a failed write takes it back.
TransPublish(t) ==
    /\ Moves(t) /\ trans.at = "publish"
    /\ IF Draining \/ Leased = {}
       THEN /\ trans' = [trans EXCEPT !.at = "cancelled"]
            /\ UNCHANGED <<phase, fence, active, gate, published, boundVars>>
       ELSE \/ /\ frontend = "serving"
               /\ fence' = "READY" /\ phase' = "READY"
               /\ gate' = trans.gen /\ published' = trans.gen /\ active' = trans.gen
               /\ trans' = [trans EXCEPT !.at = "done"]
               /\ NoFail
            \/ /\ IF frontend = "serving" THEN Fail ELSE NoFail
               /\ fence' = "BOOTSTRAPPING" /\ phase' = "BOOTSTRAPPING"
               /\ trans' = [trans EXCEPT !.at = "rejected"]
               /\ active' = 0 /\ UNCHANGED <<gate, published>>
    /\ TransRest /\ UNCHANGED <<generation, frontend, hostVars, providers, residue>>

\* The candidate is stopped and proved empty with its records, or it stays and
\* the transition ends; a rejected one makes room for the next rung.
TransCleanup(t) ==
    /\ Moves(t) /\ trans.at \in {"rejected", "cancelled"}
    /\ \/ /\ NoFail
          /\ running' = running \ {trans.gen} /\ providers' = providers \ {trans.gen}
          /\ trans' = IF trans.at = "cancelled" THEN [trans EXCEPT !.at = "raise"]
                      ELSE [trans EXCEPT !.at = "probe", !.rung = @ + 1]
          /\ UNCHANGED residue
       \/ /\ Fail
          /\ trans' = [trans EXCEPT !.at = "raise"] /\ residue' = TRUE
          /\ UNCHANGED <<running, providers>>
    /\ TransRest
    /\ UNCHANGED <<phase, generation, active, frontend, gate, published, fence>>

Transition(t) == TransProbe(t) \/ TransStart(t) \/ TransPublish(t) \/ TransCleanup(t)

-----------------------------------------------------------------------------
(* The generation worker: the first route of the epoch.                    *)

\* It works with the transition lock, if there is still something to do.
WorkerBegin ==
    /\ worker = "begin" /\ tlock = "nobody"
    /\ IF Draining \/ Leased = {}
       THEN worker' = "none" /\ error' = TRUE /\ UNCHANGED <<tlock, trans, frontend>>
       ELSE IF active # 0
       THEN worker' = "idle" /\ UNCHANGED <<error, tlock, trans, frontend>>
       ELSE /\ worker' = "transition" /\ tlock' = "worker"
            /\ frontend' = IF frontend = "none" THEN "serving" ELSE frontend
            /\ trans' = [trans EXCEPT !.reason = "initial", !.at = "probe",
                                      !.rung = 1, !.last = Ladder]
            /\ UNCHANGED error
    /\ UNCHANGED <<epochVars, lease, active, used, gate, published, hostVars, storeVars,
                   verdictVars, handlerVars, dogVars, callVars, boundVars>>

\* Mutant: the error of the first transition is not published.
WorkerEndSilent ==
    /\ worker = "transition" /\ trans.at \in {"done", "raise"}
    /\ worker' = "idle"
    /\ error' = FALSE
    /\ trans' = Rested /\ tlock' = "nobody"
    /\ UNCHANGED <<epochVars, lease, routeVars, hostVars, storeVars, verdictVars,
                   handlerVars, dogVars, callVars, boundVars>>

\* The lock is released; an error is for every waiting registration, and the
\* worker lives on only after a success, until the epoch stops.
WorkerEnd ==
    /\ worker = "transition" /\ trans.at \in {"done", "raise"}
    /\ worker' = IF trans.at = "done" THEN "idle" ELSE "none"
    /\ error' = (trans.at = "raise")
    /\ trans' = Rested /\ tlock' = "nobody"
    /\ UNCHANGED <<epochVars, lease, routeVars, hostVars, storeVars, verdictVars,
                   handlerVars, dogVars, callVars, boundVars>>

WorkerExit ==
    /\ worker = "idle" /\ stop
    /\ worker' = "none"
    /\ UNCHANGED <<epochVars, lease, routeVars, hostVars, storeVars, verdictVars, tlock,
                   error, trans, handlerVars, dogVars, callVars, boundVars>>

WorkerStep ==
    \/ WorkerBegin \/ WorkerEnd \/ WorkerExit
    \/ Transition("worker")

-----------------------------------------------------------------------------
(* The watchdog.                                                           *)

DogRest == UNCHANGED <<epochVars, lease, hostVars, storeVars, verdictVars, handlerVars,
                       worker, error, main, forced, clean>>

\* The interval has passed: what is in use, and who still lives.
DogTick ==
    /\ dog = "idle"
    /\ IF stop \/ Draining THEN dog' = "gone" /\ UNCHANGED seen
       ELSE dog' = "sweep" /\ seen' = active
    /\ DogRest /\ UNCHANGED <<routeVars, tlock, trans, drop, drain, boundVars>>

\* After the sweep: nobody is interested, or the route is checked.
DogLook ==
    /\ dog = "sweep" /\ drop["watchdog"] = NoDrop /\ Leased \cap gone = {}
    /\ IF Leased # {} /\ seen # 0 /\ ~stop /\ ~Draining
       THEN dog' = "check" /\ UNCHANGED seen
       ELSE dog' = (IF Leased = {} THEN "alone" ELSE "idle") /\ seen' = 0
    /\ DogRest /\ UNCHANGED <<routeVars, tlock, trans, drop, drain, boundVars>>

DogAlone ==
    /\ dog = "alone" /\ drain["watchdog"] = "no"
    /\ \E fails \in BOOLEAN :
         /\ Linearize("watchdog", fails)
         /\ dog' = IF fails THEN "gone" ELSE "alone"
    /\ UNCHANGED <<lease, routeVars, hostVars, providers, children, verdictVars, tlock,
                   handlerVars, workerVars, seen, main, forced, drop, clean>>

\* The route is healthy, or it has failed its check often enough to be repaired.
DogCheck ==
    /\ dog = "check"
    /\ \/ dog' = "idle" /\ seen' = 0 /\ NoFail
       \/ /\ repairs < MaxRepairs /\ repairs' = repairs + 1
          /\ dog' = "repair" /\ UNCHANGED <<seen, failures, signals>>
    /\ DogRest /\ UNCHANGED <<routeVars, tlock, trans, drop, drain>>

\* _repair_active: the lock if it is free, the same generation still in use, and
\* the one repair of its rung consumed before anything is touched.
DogRepair ==
    /\ dog = "repair"
    /\ IF tlock # "nobody" \/ active # seen \/ Draining \/ Leased = {}
       THEN dog' = "idle" /\ seen' = 0 /\ UNCHANGED <<tlock, used, trans>>
       ELSE LET rung == trans.rung
                same == rung \notin used
            IN
            /\ tlock' = "watchdog" /\ dog' = "revoke" /\ UNCHANGED seen
            /\ used' = used \cup {rung}
            /\ trans' = [trans EXCEPT !.reason = IF same THEN "same-rung-repair" ELSE "demotion",
                                      !.rung = IF same THEN rung ELSE rung + 1,
                                      !.last = IF same THEN rung ELSE Ladder]
    /\ DogRest /\ UNCHANGED <<active, frontend, gate, published, drop, drain, boundVars>>

\* Mutant: the frontend keeps the failed generation.
DogRevokeNothing ==
    /\ dog = "revoke"
    /\ UNCHANGED gate /\ dog' = "halt"
    /\ DogRest /\ UNCHANGED <<active, used, frontend, published, tlock, trans, seen, drop,
                              drain, boundVars>>

DogRevoke ==
    /\ dog = "revoke"
    /\ gate' = 0 /\ dog' = "halt"
    /\ DogRest /\ UNCHANGED <<active, used, frontend, published, tlock, trans, seen, drop,
                              drain, boundVars>>

\* Mutant: a provider that will not stop is given up.
DogHaltAnyway ==
    /\ dog = "halt"
    /\ \/ /\ NoFail /\ dog' = "mend"
          /\ running' = running \ {seen} /\ providers' = providers \ {seen}
          /\ active' = 0 /\ trans' = [trans EXCEPT !.at = "probe"]
       \/ /\ Fail /\ dog' = "mend"
          /\ active' = 0 /\ trans' = [trans EXCEPT !.at = "probe"]
          /\ UNCHANGED <<running, providers>>
    /\ UNCHANGED <<epochVars, lease, used, frontend, gate, published, scopes, fence, children,
                   verdictVars, tlock, handlerVars, worker, error, seen, callVars>>

\* The failed provider is stopped with its records, and no generation is in use;
\* or the repair is over.
DogHalt ==
    /\ dog = "halt"
    /\ \/ /\ NoFail /\ dog' = "mend"
          /\ running' = running \ {seen} /\ providers' = providers \ {seen}
          /\ active' = 0 /\ trans' = [trans EXCEPT !.at = "probe"]
       \/ /\ Fail /\ dog' = "fatal"
          /\ UNCHANGED <<running, providers, active, trans>>
    /\ UNCHANGED <<epochVars, lease, used, frontend, gate, published, scopes, fence, children,
                   verdictVars, tlock, handlerVars, worker, error, seen, callVars>>

\* Mutant: a demotion tries the whole ladder.
DogMendedFromTheTop ==
    /\ dog = "mend"
    /\ \/ /\ trans.at = "done" /\ dog' = "idle" /\ seen' = 0 /\ tlock' = "nobody"
          /\ trans' = Rested
       \/ /\ trans.at = "raise"
          /\ IF trans.reason = "same-rung-repair" /\ trans.last < Ladder
             THEN /\ trans' = [trans EXCEPT !.reason = "demotion", !.at = "probe",
                                            !.rung = 1, !.last = Ladder]
                  /\ UNCHANGED <<dogVars, tlock>>
             ELSE dog' = "fatal" /\ seen' = 0 /\ UNCHANGED <<trans, tlock>>
    /\ DogRest /\ UNCHANGED <<routeVars, drop, drain, boundVars>>

\* Mutant: a demotion goes one rung past the ladder.
DogMendedBeyond ==
    /\ dog = "mend"
    /\ \/ /\ trans.at = "done" /\ dog' = "idle" /\ seen' = 0 /\ tlock' = "nobody"
          /\ trans' = Rested
       \/ /\ trans.at = "raise"
          /\ IF trans.reason = "same-rung-repair" /\ trans.last < Ladder
             THEN /\ trans' = [trans EXCEPT !.reason = "demotion", !.at = "probe",
                                            !.rung = trans.last + 1, !.last = Ladder + 1]
                  /\ UNCHANGED <<dogVars, tlock>>
             ELSE dog' = "fatal" /\ seen' = 0 /\ UNCHANGED <<trans, tlock>>
    /\ DogRest /\ UNCHANGED <<routeVars, drop, drain, boundVars>>

\* Mutant: a repair that succeeds keeps the transition lock.
DogMendedLocked ==
    /\ dog = "mend"
    /\ \/ /\ trans.at = "done" /\ dog' = "idle" /\ seen' = 0 /\ UNCHANGED tlock
          /\ trans' = Rested
       \/ /\ trans.at = "raise"
          /\ IF trans.reason = "same-rung-repair" /\ trans.last < Ladder
             THEN /\ trans' = [trans EXCEPT !.reason = "demotion", !.at = "probe",
                                            !.rung = trans.last + 1, !.last = Ladder]
                  /\ UNCHANGED <<dogVars, tlock>>
             ELSE dog' = "fatal" /\ seen' = 0 /\ UNCHANGED <<trans, tlock>>
    /\ DogRest /\ UNCHANGED <<routeVars, drop, drain, boundVars>>

\* After the transition: repaired; or the same rung failed, whatever it left,
\* and the lower rungs are tried; or the route is lost.
DogMended ==
    /\ dog = "mend"
    /\ \/ /\ trans.at = "done" /\ dog' = "idle" /\ seen' = 0 /\ tlock' = "nobody"
          /\ trans' = Rested
       \/ /\ trans.at = "raise"
          /\ IF trans.reason = "same-rung-repair" /\ trans.last < Ladder
             THEN /\ trans' = [trans EXCEPT !.reason = "demotion", !.at = "probe",
                                            !.rung = trans.last + 1, !.last = Ladder]
                  /\ UNCHANGED <<dogVars, tlock>>
             ELSE dog' = "fatal" /\ seen' = 0 /\ UNCHANGED <<trans, tlock>>
    /\ DogRest /\ UNCHANGED <<routeVars, drop, drain, boundVars>>

DogFatal ==
    /\ dog = "fatal"
    /\ dog' = "force" /\ tlock' = "nobody" /\ trans' = Rested
    /\ DogRest /\ UNCHANGED <<routeVars, seen, drop, drain, boundVars>>

DogForce ==
    /\ dog = "force" /\ forced["watchdog"] = "no"
    /\ UNCHANGED <<dog, main, trans, signals>>
    /\ ForceBegin("watchdog")

WatchdogStep ==
    \/ DogTick \/ DogLook \/ DogAlone \/ DogCheck \/ DogRepair \/ DogRevoke \/ DogHalt
    \/ DogMended \/ DogFatal \/ DogForce
    \/ Transition("watchdog")
    \/ ForceDrain("watchdog") \/ CallStep("watchdog")

-----------------------------------------------------------------------------
(* The main thread.                                                        *)

\* A signal handler runs in the main thread, while it accepts or joins.
Signal ==
    /\ Spent < MaxFailures /\ signals' = signals + 1
    /\ main # "ended" /\ forced["main"] = "no"
    /\ ForceBegin("main")
    /\ UNCHANGED <<main, trans, dog>>

\* The accept loop ends with the epoch; leases that remain are forced out.
MainLeaves ==
    /\ main = "serving" /\ stop /\ forced["main"] = "no"
    /\ main' = "joining"
    /\ IF ~proved /\ Leased # {}
       THEN UNCHANGED <<dog, trans, signals>> /\ ForceBegin("main")
       ELSE UNCHANGED <<epochVars, lease, routeVars, hostVars, storeVars, verdictVars, tlock,
                        handlerVars, workerVars, dogVars, forced, drop, drain, clean,
                        boundVars>>

ThreadsLive == \/ \E s \in Session : hpc[s] \notin {"new", "over"}
               \/ worker # "none" \/ dog # "gone"

\* _join_threads until they are gone or the deadline has passed; finalize then
\* clears the fence only for an epoch that is proved empty, and the process ends
\* with whatever thread is left.
Finalize ==
    /\ main = "joining" /\ forced["main"] = "no"
    /\ MayFail(ThreadsLive)
    /\ main' = "ended"
    /\ LET bad == preserve \/ ThreadsLive \/ children # {} \/ providers # {} IN
       /\ fence' = IF proved /\ ~bad THEN "none" ELSE fence
       /\ proved' = (proved /\ ~bad)
    /\ hpc' = [s \in Session |-> IF hpc[s] = "new" THEN "new" ELSE "over"]
    /\ worker' = "none" /\ trans' = Rested
    /\ dog' = "gone" /\ seen' = 0 /\ tlock' = "nobody"
    /\ forced' = [t \in Forcer |-> "no"] /\ clean' = TRUE
    /\ drop' = [t \in Caller |-> NoDrop] /\ drain' = [t \in Caller |-> "no"]
    /\ UNCHANGED <<epochVars, lease, routeVars, hostVars, providers, children, residue,
                   preserve, gone, error>>

MainStep ==
    MainLeaves \/ Finalize \/ ForceDrain("main") \/ CallStep("main")

-----------------------------------------------------------------------------
Next ==
    \/ \E s \in Session : ClientStep(s) \/ HandlerStep(s)
    \/ WorkerStep \/ WatchdogStep \/ MainStep \/ Signal

\* The threads are scheduled; clients, wrappers and signals owe nothing.
Fairness ==
    /\ \A s \in Session : WF_vars(HandlerStep(s))
    /\ WF_vars(WorkerStep) /\ WF_vars(WatchdogStep) /\ WF_vars(MainStep)

Spec == Init /\ [][Next]_vars
FairSpec == Spec /\ Fairness

-----------------------------------------------------------------------------
(* What the epoch promises.                                                *)

HandlerStates == {"new", "waiting", "failing", "failed", "alone", "told", "generated",
                  "registered", "scoped", "unattached", "attached", "refused", "leaving",
                  "ending", "over"}
DogStates == {"idle", "sweep", "alone", "check", "repair", "revoke", "halt", "mend",
              "fatal", "force", "gone"}
Phases == {"BOOTSTRAPPING", "READY", "DRAINING"}
Reasons == {"initial", "same-rung-repair", "demotion"}
Places == {"no", "probe", "start", "publish", "rejected", "cancelled", "done", "raise"}

\* The shape of the state.
EpochTypes ==
    /\ phase \in Phases /\ generation \in Nat
    /\ active \in Nat /\ used \subseteq 1 .. Ladder
    /\ frontend \in {"none", "serving", "closed"} /\ gate \in Nat /\ published \in Nat
    /\ running \subseteq Nat /\ scopes \subseteq Session
    /\ fence \in Phases \cup {"none"} /\ providers \subseteq Nat /\ children \subseteq Session
    /\ failures \in Nat /\ signals \in Nat /\ repairs \in Nat
VerdictTypes ==
    /\ stop \in BOOLEAN /\ error \in BOOLEAN /\ clean \in BOOLEAN
    /\ residue \in BOOLEAN /\ preserve \in BOOLEAN /\ proved \in BOOLEAN
HandlerTypes ==
    /\ lease \in [Session -> {"none", "provisional", "live"}]
    /\ hpc \in [Session -> HandlerStates] /\ gone \subseteq Session
ThreadTypes ==
    /\ tlock \in Thread \cup {"nobody"}
    /\ worker \in {"none", "begin", "transition", "idle"}
    /\ dog \in DogStates /\ seen \in Nat
    /\ main \in {"serving", "joining", "ended"}
    /\ forced \in [Forcer -> {"no", "yes", "unfenced"}]
    /\ drain \in [Caller -> {"no", "lock", "take", "prove"}]
TransType ==
    trans \in [reason : Reasons, at : Places, gen : Nat, rung : 1 .. Ladder + 1, last : 1 .. Ladder]
DropType ==
    drop \in [Caller -> [of : Session \cup {"nobody"},
                         scope : {"none", "absent", "childless", "clean", "stuck"}]]
TypeOK == EpochTypes /\ VerdictTypes /\ HandlerTypes /\ ThreadTypes /\ TransType /\ DropType

\* Traffic passes only to the generation that is in use, whose provider runs,
\* can be found by a recovery, and is announced by the fence.
RouteIsOwned ==
    gate # 0 => /\ active = gate /\ gate \in running \cap providers
                /\ fence \in {"READY", "DRAINING"}

\* The fence goes only when nothing of the epoch is left: no provider, no child
\* scope, no record of either, no lease and no open gate.
ClearedMeansEmpty ==
    fence = "none" => /\ running = {} /\ scopes = {} /\ providers = {} /\ children = {}
                      /\ Leased = {} /\ gate = 0

\* Whatever runs on the host has its recovery record.
EffectsAreRecorded == running \subseteq providers /\ scopes \subseteq children

\* While the epoch serves, two providers run at once only when one of them is
\* known residue.  (A session that comes while the watchdog ends the epoch may
\* start a provider next to one that the drain could not stop.)
OneProvider == \A g, h \in running : g # h => residue \/ stop

\* The route never climbs back its ladder, but for a session that comes while the
\* watchdog ends the epoch.
NeverClimbs == [][trans'.rung < trans.rung => stop]_vars

\* To its clients the epoch is a shared route.
Route == INSTANCE SharedRoute WITH
    open <- gate, last <- published, interest <- Leased, draining <- Draining,
    fenced <- fence # "none"
ImplementsSharedRoute == Route!RouteSpec

\* An epoch that is told to stop ends, whatever fails.
StopEnds == stop ~> main = "ended"

\* If nothing fails, it ends with the fence cleared.
StopClears == stop ~> (fence = "none" \/ failures > 0)

\* A registration is answered.
RegistrationIsAnswered ==
    \A s \in Session : hpc[s] = "waiting" ~> hpc[s] # "waiting"
=============================================================================
