------------------------- MODULE CommittedFrontend -------------------------
(***************************************************************************)
(* The committed-generation TCP frontend of the Grok session service:      *)
(* system/grok-proxy/grok_ms/frontend.py.                                  *)
(*                                                                         *)
(* One accept thread takes connections from the kernel's backlog.  Those   *)
(* it admits become streams, each relayed to the backend of the generation *)
(* that was published when it was admitted, by a worker thread of its own. *)
(* Callers close the publication gate, revoke the streams, wait until they *)
(* have stopped and open the gate for another generation.                  *)
(*                                                                         *)
(* A step of a thread is what it does under one lock, or between two.  The *)
(* transition lock admits one caller at a time; disarming takes no lock.   *)
(* Bytes are abstracted to chunks: a stream may hold one on its way up to  *)
(* the backend and one on its way down to the client.                      *)
(***************************************************************************)
EXTENDS FiniteSets, Naturals

CONSTANTS
    Client,          \* connections that clients make, one each
    Nobody,          \* no client
    MaxStreams,      \* max_streams
    Budget,          \* per_stream_buffer_bytes, in chunks
    Operations,      \* the operations that callers use
    Traffic,         \* the directions in which bytes flow
    MaxGeneration,   \* bound: generations that callers commit
    MaxTransitions   \* bound: calls of the frontend's operations

ASSUME ClientsAssumption == Nobody \notin Client

Kinds == {"commit", "drain", "revoke", "close", "arm", "disarm", "quiesce", "reopen"}
Chunk == {"up", "down"}

ASSUME SizesAssumption ==
    /\ Operations \subseteq Kinds /\ Traffic \subseteq Chunk
    /\ MaxStreams \in Nat \ {0} /\ Budget \in Nat \ {0}
    /\ MaxGeneration \in Nat /\ MaxTransitions \in Nat

VARIABLES
    life,        \* _started, _closing, _closed
    listening,   \* the listening socket is open
    accepting,   \* _accepting: the publication gate is open
    active,      \* _active_generation, or 0
    last,        \* _last_generation
    epoch,       \* _admission_epoch
    observed,    \* _accept_observed_epoch
    idle,        \* _accept_idle_sequence (has it grown since a caller read it?)
                 \* and _accept_idle_epoch
    barrier,     \* _qualification_accept_barrier
    hold,        \* _qualification_hold_responses: now, and whether it ever was set
    acceptor,    \* the accept thread: where it is, and its snapshot of the gate
    phase,       \* where each connection is, and the worker of its stream
    gen,         \* the generation a stream belongs to
    revoked,     \* stream.revoked
    wake,        \* a byte waits in the stream's wake socket
    pending,     \* the chunks the relay has read and not yet written
    watching,    \* the socket events the relay is registered for
    op,          \* the caller that holds the transition lock
    disarm,      \* qualification_disarm
    opener,      \* history: which operation opened the gate last
    met,         \* history: the gate when a client connected
    took,        \* history: the generation whose gate was open when accept() returned
    burned,      \* history: generations whose publication was taken back
    transitions

gate    == <<accepting, active, last, epoch, barrier, opener>>
ack     == <<observed, idle>>
workers == <<revoked, wake, pending, watching>>
streamState == <<phase, gen, workers>>
history == <<met, took, burned, transitions>>
vars == <<life, listening, gate, ack, hold, acceptor, streamState, op, disarm, history>>

Generation == 1..MaxGeneration
Running == {"attach", "connect", "check", "select", "closing"}
Phases  == {"new", "backlog", "taken", "rejected", "discarded", "done"} \cup Running

\* _streams
Streams == {c \in Client : phase[c] \in Running}

NoOp == [kind |-> "none", at |-> "none", gen |-> 0, epoch |-> 0, waits |-> {},
         todo |-> {}, waking |-> Nobody]

NoSnapshot == [at |-> "top", epoch |-> 0, permitted |-> FALSE, client |-> Nobody]

Become(c, where) == phase' = [phase EXCEPT ![c] = where]

Unmet == [epoch |-> 0, open |-> FALSE]

\* A wake byte for a stream whose sockets are closed is lost, and nobody looks at
\* whether it is revoked any more.
WakeByte(c) == wake' = [wake EXCEPT ![c] = phase[c] \in Running]

-----------------------------------------------------------------------------
(* Clients and the kernel *)

Connect(c) ==
    /\ phase[c] = "new" /\ listening
    /\ Become(c, "backlog")
    /\ met' = [met EXCEPT ![c] = [epoch |-> epoch, open |-> accepting]]
    /\ UNCHANGED <<life, listening, gate, ack, hold, acceptor, gen, workers, op, disarm,
                   took, burned, transitions>>

-----------------------------------------------------------------------------
(* _accept_loop *)

AcceptStep == UNCHANGED <<life, listening, gate, hold, gen, workers, op, disarm>>

\* The top of the loop: a snapshot of the gate, and a notice to whoever waits
\* for the thread to have seen the present epoch.
Observe ==
    /\ acceptor.at = "top"
    /\ observed' = epoch
    /\ acceptor' = [at |-> IF life = "running" THEN "accept" ELSE "stopped",
                    epoch |-> epoch, permitted |-> accepting, client |-> Nobody]
    /\ UNCHANGED <<idle, phase, history>> /\ AcceptStep

Take(c) ==
    /\ acceptor.at = "accept" /\ listening /\ phase[c] = "backlog"
    /\ Become(c, "taken")
    /\ acceptor' = [acceptor EXCEPT !.at = "taken", !.client = c]
    /\ took' = [took EXCEPT ![c] = IF accepting THEN active ELSE 0]
    /\ UNCHANGED <<ack, met, burned, transitions>> /\ AcceptStep

\* accept() timed out: the backlog is empty, or went with the listener.
TimeOut ==
    /\ acceptor.at = "accept"
    /\ \A c \in Client : phase[c] # "backlog"
    /\ acceptor' = [acceptor EXCEPT !.at = "idle"]
    /\ UNCHANGED <<ack, phase, history>> /\ AcceptStep

\* It fails: the listener was closed, or the process is out of descriptors.
AcceptFails ==
    /\ acceptor.at = "accept"
    /\ acceptor' = IF life = "running" THEN NoSnapshot ELSE [acceptor EXCEPT !.at = "stopped"]
    /\ UNCHANGED <<ack, phase, history>> /\ AcceptStep

Idle ==
    /\ acceptor.at = "idle"
    /\ idle' = IF accepting THEN idle ELSE [since |-> TRUE, epoch |-> acceptor.epoch]
    /\ acceptor' = NoSnapshot
    /\ UNCHANGED <<observed, phase, history>> /\ AcceptStep

\* The gate is open and has not moved since the snapshot.
Admissible ==
    /\ life = "running" /\ accepting /\ acceptor.permitted /\ active # 0
    /\ acceptor.epoch = epoch

Decide(c) ==
    /\ acceptor.at = "taken" /\ acceptor.client = c
    /\ acceptor' = NoSnapshot /\ met' = [met EXCEPT ![c] = Unmet]
    /\ UNCHANGED <<life, listening, gate, ack, hold, workers, op, disarm, burned,
                   transitions>>

\* Mutant: the epoch of the snapshot is not compared with the present one.
AdmitAnyEpoch(c) ==
    /\ Decide(c)
    /\ life = "running" /\ accepting /\ active # 0 /\ Cardinality(Streams) < MaxStreams
    /\ Become(c, "attach")
    /\ gen' = [gen EXCEPT ![c] = active] /\ UNCHANGED took

Admit(c) ==
    /\ Decide(c) /\ Admissible /\ Cardinality(Streams) < MaxStreams
    /\ Become(c, "attach")
    /\ gen' = [gen EXCEPT ![c] = active] /\ UNCHANGED took

\* A closed or moved gate, too many streams, or no thread for the worker.
Reject(c) ==
    /\ Decide(c) /\ Become(c, "rejected")
    /\ took' = [took EXCEPT ![c] = 0] /\ UNCHANGED gen

Acceptor ==
    \/ Observe \/ TimeOut \/ AcceptFails \/ Idle
    \/ \E c \in Client : Take(c) \/ Admit(c) \/ Reject(c)

-----------------------------------------------------------------------------
(* _stream_worker, _connect_backend, _relay *)

WorkerStep ==
    UNCHANGED <<life, listening, gate, ack, hold, acceptor, gen, op, disarm, met, burned,
                transitions>>

\* attach_upstream refuses a revoked stream.
Attach(c) ==
    /\ phase[c] = "attach"
    /\ Become(c, IF revoked[c] THEN "closing" ELSE "connect")
    /\ UNCHANGED <<workers, took>> /\ WorkerStep

\* The backend answers, or refuses, or does not in time, or the wake byte ends it.
ConnectEnds(c) ==
    /\ phase[c] = "connect"
    /\ \E outcome \in {"check", "closing"} : Become(c, outcome)
    /\ UNCHANGED <<workers, took>> /\ WorkerStep

\* Mutant: reads go on when the buffer is full.
WantedAlways(c) == {"read"} \cup (pending[c] \ IF hold.now THEN {"down"} ELSE {})

\* The events a relay registers for: reads while there is room in its buffer, and
\* writes of what it holds, but for a response while responses are held.
Wanted(c) ==
    (IF Cardinality(pending[c]) < Budget THEN {"read"} ELSE {})
        \cup (pending[c] \ IF hold.now THEN {"down"} ELSE {})

CheckRevoked(c) ==
    /\ phase[c] = "check"
    /\ IF revoked[c]
         THEN Become(c, "closing") /\ UNCHANGED watching
         ELSE Become(c, "select") /\ watching' = [watching EXCEPT ![c] = Wanted(c)]
    /\ UNCHANGED <<revoked, wake, pending, took>> /\ WorkerStep

\* select() returns for the wake socket.
Woken(c) ==
    /\ phase[c] = "select" /\ wake[c]
    /\ wake' = [wake EXCEPT ![c] = FALSE]
    /\ Become(c, IF revoked[c] THEN "closing" ELSE "check")
    /\ UNCHANGED <<revoked, pending, watching, took>> /\ WorkerStep

\* It returns for a socket: every read and every write looks at revoked first.
Transfer(c, event, chunks) ==
    /\ phase[c] = "select" /\ event \in watching[c]
    /\ IF revoked[c]
         THEN Become(c, "closing") /\ UNCHANGED pending
         ELSE Become(c, "check") /\ pending' = [pending EXCEPT ![c] = chunks]
    /\ UNCHANGED <<revoked, wake, watching, took>> /\ WorkerStep

Read(c) == \E d \in Traffic \ pending[c] : Transfer(c, "read", pending[c] \cup {d})

\* A response is written only if responses are not held now.
Write(c, d) ==
    /\ d \in pending[c]
    /\ Transfer(c, d, IF d = "down" /\ hold.now THEN pending[c] ELSE pending[c] \ {d})

\* Both sides have closed, or one was reset.
RelayEnds(c) ==
    /\ phase[c] \in {"check", "select"}
    /\ Become(c, "closing")
    /\ UNCHANGED <<workers, took>> /\ WorkerStep

\* The sockets are closed, what was buffered is dropped, the stream leaves the
\* set, and at last done is set.
Discard(c) ==
    /\ phase[c] = "closing" /\ Become(c, "discarded")
    /\ pending' = [pending EXCEPT ![c] = {}] /\ watching' = [watching EXCEPT ![c] = {}]
    /\ wake' = [wake EXCEPT ![c] = FALSE] /\ revoked' = [revoked EXCEPT ![c] = FALSE]
    /\ took' = [took EXCEPT ![c] = 0]
    /\ WorkerStep

Done(c) ==
    /\ phase[c] = "discarded" /\ Become(c, "done")
    /\ UNCHANGED <<workers, took>> /\ WorkerStep

\* What a worker does on its own, whatever the client and the backend do.
OwnStep(c) ==
    \/ Attach(c) \/ ConnectEnds(c) \/ CheckRevoked(c) \/ Woken(c) \/ Discard(c) \/ Done(c)

Worker(c) ==
    OwnStep(c) \/ Read(c) \/ (\E d \in Chunk : Write(c, d)) \/ RelayEnds(c)

-----------------------------------------------------------------------------
(* The callers: start, and the operations under the transition lock. Each    *)
(* begins with a critical section that moves the gate, then revokes some     *)
(* streams, waits for some to stop, and ends with another critical section.  *)

CallStep == UNCHANGED <<listening, hold, acceptor, phase, gen, pending, watching, disarm,
                        met, took>>

Start ==
    /\ life = "new"
    /\ life' = "running" /\ listening' = TRUE
    /\ acceptor' = NoSnapshot
    /\ UNCHANGED <<gate, ack, hold, streamState, op, disarm, history>>

\* A call that takes the lock; waits are the streams it will wait for, todo those
\* it will revoke first.
Call(kind, at, g, waits, todo) ==
    /\ op = NoOp /\ kind \in Operations /\ transitions < MaxTransitions
    /\ transitions' = transitions + 1
    /\ op' = [NoOp EXCEPT !.kind = kind, !.at = at, !.gen = g, !.epoch = epoch',
                          !.waits = waits, !.todo = todo]
    /\ UNCHANGED burned

CloseGate ==
    /\ accepting' = FALSE /\ active' = 0 /\ epoch' = epoch + 1
    /\ UNCHANGED <<last, opener>>

OpenGate(g, who) ==
    /\ accepting' = TRUE /\ active' = g /\ epoch' = epoch + 1
    /\ barrier' = FALSE /\ opener' = who

Return == op' = NoOp

\* Mutant: revoke() shuts the stream down and leaves its worker asleep.
RevokeUnwoken(c) ==
    /\ op.at = "streams" /\ op.waking = Nobody /\ c \in op.todo
    /\ revoked' = [revoked EXCEPT ![c] = phase[c] \in Running]
    /\ op' = [op EXCEPT !.todo = @ \ {c}]
    /\ UNCHANGED <<life, gate, ack, wake, burned, transitions>> /\ CallStep

\* revoke() marks the stream under its io lock, and wakes its worker after that.
Revoke(c) ==
    /\ op.at = "streams" /\ op.waking = Nobody /\ c \in op.todo
    /\ revoked' = [revoked EXCEPT ![c] = phase[c] \in Running]
    /\ op' = [op EXCEPT !.todo = @ \ {c}, !.waking = IF revoked[c] THEN Nobody ELSE c]
    /\ UNCHANGED <<life, gate, ack, wake, burned, transitions>> /\ CallStep

Wake ==
    /\ op.at = "streams" /\ op.waking # Nobody
    /\ WakeByte(op.waking)
    /\ op' = [op EXCEPT !.waking = Nobody]
    /\ UNCHANGED <<life, gate, ack, revoked, burned, transitions>> /\ CallStep

\* _wait_streams
Stopped == op.at = "streams" /\ op.todo = {} /\ op.waking = Nobody
               /\ \A c \in op.waits : phase[c] = "done"

\* Mutant: only the streams of the generation that was active are revoked and
\* waited for, so that none is after a drain.
CommitAfterActive(g) ==
    /\ life = "running" /\ g > last
    /\ LET old == {c \in Streams : gen[c] = active}
       IN  CloseGate /\ Call("commit", "streams", g, old, old)
    /\ UNCHANGED <<life, ack, barrier, revoked, wake>> /\ CallStep

\* Mutant: commit_generation takes any generation.
CommitAnyGeneration(g) ==
    /\ life = "running"
    /\ CloseGate /\ Call("commit", "streams", g, Streams, Streams)
    /\ UNCHANGED <<life, ack, barrier, revoked, wake>> /\ CallStep

\* commit_generation
Commit(g) ==
    /\ life = "running" /\ g > last
    /\ CloseGate /\ Call("commit", "streams", g, Streams, Streams)
    /\ UNCHANGED <<life, ack, barrier, revoked, wake>> /\ CallStep

Publish ==
    /\ op.kind = "commit" /\ Stopped
    /\ OpenGate(op.gen, "commit") /\ last' = op.gen
    /\ op' = [op EXCEPT !.at = "observe", !.epoch = epoch']
    /\ UNCHANGED <<life, ack, revoked, wake, burned, transitions>> /\ CallStep

Observed ==
    /\ op.at = "observe" /\ observed = op.epoch
    /\ Return
    /\ UNCHANGED <<life, gate, ack, revoked, wake, burned, transitions>> /\ CallStep

\* drain, revoke and qualification_revoke
Drain ==
    /\ life \in {"running", "closing"}
    /\ CloseGate /\ Call("drain", "streams", 0, Streams, {})
    /\ UNCHANGED <<life, ack, barrier, revoked, wake>> /\ CallStep

RevokeAll ==
    /\ life \in {"running", "closing"}
    /\ CloseGate /\ Call("revoke", "streams", 0, Streams, Streams)
    /\ UNCHANGED <<life, ack, barrier, revoked, wake>> /\ CallStep

Drained ==
    /\ op.kind \in {"drain", "revoke"} /\ Stopped
    /\ Return
    /\ UNCHANGED <<life, gate, ack, revoked, wake, burned, transitions>> /\ CallStep

\* close: the listener goes after the gate, and what waited in its backlog with it.
Close ==
    /\ life \in {"new", "running", "closing"}
    /\ life' = "closing" /\ barrier' = FALSE
    /\ CloseGate /\ Call("close", "listener", 0, Streams, Streams)
    /\ UNCHANGED <<ack, revoked, wake>> /\ CallStep

CloseListener ==
    /\ op.at = "listener"
    /\ listening' = FALSE
    /\ phase' = [c \in Client |-> IF phase[c] = "backlog" THEN "rejected" ELSE phase[c]]
    /\ met' = [c \in Client |-> IF phase[c] = "backlog" THEN Unmet ELSE met[c]]
    /\ op' = [op EXCEPT !.at = "streams"]
    /\ UNCHANGED <<life, gate, ack, hold, acceptor, gen, workers, disarm, took, burned,
                   transitions>>

\* Mutant: the accept thread is not joined.
ClosedUnjoined ==
    /\ op.kind = "close" /\ Stopped
    /\ life' = IF Streams = {} THEN "closed" ELSE life
    /\ Return
    /\ UNCHANGED <<gate, ack, revoked, wake, burned, transitions>> /\ CallStep

Closed ==
    /\ op.kind = "close" /\ Stopped
    /\ acceptor.at \in {"none", "stopped"}
    /\ life' = IF Streams = {} THEN "closed" ELSE life
    /\ Return
    /\ UNCHANGED <<gate, ack, revoked, wake, burned, transitions>> /\ CallStep

\* qualification_arm looks at the gate under one lock and holds responses under
\* another.
Arm ==
    /\ life = "running" /\ active # 0 /\ accepting /\ Streams = {}
    /\ UNCHANGED gate /\ Call("arm", "hold", 0, {}, {})
    /\ UNCHANGED <<life, ack, revoked, wake>> /\ CallStep

Armed ==
    /\ op.at = "hold"
    /\ hold' = [now |-> TRUE, ever |-> TRUE] /\ Return
    /\ UNCHANGED <<life, listening, gate, ack, acceptor, streamState, disarm, history>>

\* qualification_quiesce: the gate stays closed until the accept thread, having
\* seen it closed, has found the backlog empty. It looks whether responses are held
\* before it waits for the transition lock, so that they need not be any more.
Quiesce ==
    /\ hold.ever /\ life = "running" /\ active # 0
    /\ accepting' = FALSE /\ active' = 0 /\ epoch' = epoch + 1 /\ barrier' = TRUE
    /\ idle' = [since |-> FALSE, epoch |-> 0]
    /\ Call("quiesce", "streams", active, Streams, Streams)
    /\ UNCHANGED <<life, last, opener, observed, revoked, wake>> /\ CallStep

\* Mutant: any idle notice will do, whatever gate the accept thread had seen.
BacklogEmptiedOnce == idle.since /\ observed = op.epoch

\* Whoever waits for the backlog to be empty since the gate had that epoch.
BacklogEmptied == idle.since /\ idle.epoch = op.epoch /\ observed = op.epoch

\* The generation is restored, behind a closed gate.
Quiesced ==
    /\ op.kind = "quiesce" /\ Stopped /\ BacklogEmptied /\ Streams = {}
    /\ active' = op.gen /\ Return
    /\ UNCHANGED <<life, accepting, last, epoch, barrier, opener, ack, revoked, wake,
                   burned, transitions>>
    /\ CallStep

\* qualification_reopen: of a gate that is open already, or of a quiesced one.
ReopenOpened ==
    /\ life = "running" /\ active # 0 /\ accepting /\ ~barrier
    /\ UNCHANGED gate /\ Call("reopen", "observe", active, {}, {})
    /\ UNCHANGED <<life, ack, revoked, wake>> /\ CallStep

Reopen ==
    /\ life = "running" /\ active # 0 /\ ~accepting /\ barrier /\ Streams = {}
    /\ epoch' = epoch + 1 /\ idle' = [since |-> FALSE, epoch |-> 0]
    /\ Call("reopen", "backlog", active, {}, {})
    /\ UNCHANGED <<life, accepting, active, last, barrier, opener, observed, revoked, wake>>
    /\ CallStep

Reopened ==
    /\ op.at = "backlog" /\ BacklogEmptied
    /\ OpenGate(op.gen, "reopen")
    /\ op' = [op EXCEPT !.at = "observe", !.epoch = epoch']
    /\ UNCHANGED <<life, last, ack, revoked, wake, burned, transitions>> /\ CallStep

\* What a call still waits for: streams, and then the accept thread.
Waiting ==
    \/ /\ op.at = "streams" /\ op.todo = {} /\ op.waking = Nobody
       /\ \/ ~Stopped
          \/ op.kind = "close" /\ acceptor.at \notin {"none", "stopped"}
          \/ op.kind = "quiesce" /\ ~BacklogEmptied
    \/ op.at = "backlog" /\ ~BacklogEmptied

\* Mutant: a publication is taken back although the accept thread has seen it.
DeadlinePassesUnseen ==
    \/ Waiting /\ UNCHANGED <<gate, burned>>
    \/ op.at = "observe" /\ op.kind = "reopen" /\ UNCHANGED <<gate, burned>>
    \/ /\ op.at = "observe" /\ op.kind = "commit"
       /\ CloseGate /\ UNCHANGED barrier
       /\ burned' = burned \cup {op.gen}

\* The deadline of a call passes. A publication is taken back, unless the accept
\* thread has seen it; everything else stays as it is.
DeadlinePasses ==
    \/ Waiting /\ UNCHANGED <<gate, burned>>
    \/ /\ op.at = "observe" /\ observed # op.epoch
       /\ \/ op.kind = "reopen" /\ UNCHANGED <<gate, burned>>
          \/ /\ op.kind = "commit"
             /\ CloseGate /\ UNCHANGED barrier
             /\ burned' = burned \cup {op.gen}

Deadline ==
    /\ DeadlinePasses /\ Return
    /\ UNCHANGED <<life, ack, revoked, wake, transitions>> /\ CallStep

\* qualification_disarm releases the responses, and then wakes every stream.
Disarm ==
    /\ "disarm" \in Operations
    /\ disarm.at = "none" /\ disarm.todo = {}
    /\ hold' = [hold EXCEPT !.now = FALSE] /\ disarm' = [disarm EXCEPT !.at = "snapshot"]
    /\ UNCHANGED <<life, listening, gate, ack, acceptor, streamState, op, history>>

DisarmSnapshot ==
    /\ disarm.at = "snapshot"
    /\ disarm' = [at |-> "none", todo |-> Streams]
    /\ UNCHANGED <<life, listening, gate, ack, hold, acceptor, streamState, op, history>>

\* Mutant: qualification_disarm wakes nobody.
DisarmWakesNobody(c) ==
    /\ c \in disarm.todo
    /\ disarm' = [disarm EXCEPT !.todo = @ \ {c}]
    /\ UNCHANGED <<life, listening, gate, ack, hold, acceptor, streamState, op, history>>

DisarmWake(c) ==
    /\ c \in disarm.todo
    /\ disarm' = [disarm EXCEPT !.todo = @ \ {c}]
    /\ WakeByte(c)
    /\ UNCHANGED <<life, listening, gate, ack, hold, acceptor, phase, gen, revoked,
                   pending, watching, op, history>>

Begin == \/ \E g \in Generation : Commit(g)
         \/ Drain \/ RevokeAll \/ Close \/ Arm \/ Quiesce \/ ReopenOpened \/ Reopen

\* What the caller in the frontend goes on with, short of its deadline.
Proceed ==
    \/ \E c \in Client : Revoke(c)
    \/ Wake \/ Publish \/ Observed \/ Drained \/ CloseListener \/ Closed \/ Armed
    \/ Quiesced \/ Reopened

Disarming == DisarmSnapshot \/ \E c \in Client : DisarmWake(c)

-----------------------------------------------------------------------------
Init ==
    /\ life = "new" /\ listening = FALSE
    /\ accepting = FALSE /\ active = 0 /\ last = 0 /\ epoch = 0
    /\ observed = 0 /\ idle = [since |-> FALSE, epoch |-> 0]
    /\ barrier = FALSE /\ hold = [now |-> FALSE, ever |-> FALSE] /\ opener = "none"
    /\ acceptor = [NoSnapshot EXCEPT !.at = "none"]
    /\ phase = [c \in Client |-> "new"] /\ gen = [c \in Client |-> 0]
    /\ revoked = [c \in Client |-> FALSE] /\ wake = [c \in Client |-> FALSE]
    /\ pending = [c \in Client |-> {}] /\ watching = [c \in Client |-> {}]
    /\ op = NoOp /\ disarm = [at |-> "none", todo |-> {}]
    /\ met = [c \in Client |-> Unmet]
    /\ took = [c \in Client |-> 0] /\ burned = {} /\ transitions = 0

Next ==
    \/ Start \/ Begin \/ Proceed \/ Deadline \/ Disarm \/ Disarming
    \/ Acceptor
    \/ \E c \in Client : Connect(c) \/ Worker(c)

Spec == Init /\ [][Next]_vars

\* The threads of the frontend run, clients read what is written to them, and the
\* backend reads what is written to it: however often select() also returns for the
\* wake socket, it returns for every socket that is ready. Nobody has to send anything, to
\* close a connection, to call an operation, or to reach a deadline.
Fairness ==
    /\ WF_vars(Acceptor) /\ WF_vars(Proceed) /\ WF_vars(Disarming)
    /\ \A c \in Client : WF_vars(OwnStep(c))
    /\ \A c \in Client : \A d \in Chunk : SF_vars(Write(c, d))

FairSpec == Spec /\ Fairness

-----------------------------------------------------------------------------
(* Properties *)

Snapshot == [at : {"none", "top", "accept", "taken", "idle", "stopped"}, epoch : Nat,
             permitted : BOOLEAN, client : Client \cup {Nobody}]

Calls == [kind : Kinds \cup {"none"},
          at : {"none", "streams", "observe", "listener", "hold", "backlog"},
          gen : Nat, epoch : Nat, waits : SUBSET Client, todo : SUBSET Client,
          waking : Client \cup {Nobody}]

TypesOK ==
    /\ life \in {"new", "running", "closing", "closed"}
    /\ listening \in BOOLEAN /\ accepting \in BOOLEAN
    /\ active \in Nat /\ last \in Nat /\ epoch \in Nat /\ observed \in 0..epoch
    /\ idle \in [since : BOOLEAN, epoch : Nat]
    /\ barrier \in BOOLEAN /\ hold \in [now : BOOLEAN, ever : BOOLEAN]
    /\ opener \in {"none", "commit", "reopen"}
    /\ acceptor \in Snapshot /\ op \in Calls
    /\ disarm \in [at : {"none", "snapshot"}, todo : SUBSET Client]
    /\ phase \in [Client -> Phases] /\ gen \in [Client -> Nat]
    /\ revoked \in [Client -> BOOLEAN] /\ wake \in [Client -> BOOLEAN]
    /\ pending \in [Client -> SUBSET Chunk]
    /\ watching \in [Client -> SUBSET (Chunk \cup {"read"})]
    /\ met \in [Client -> [epoch : Nat, open : BOOLEAN]] /\ took \in [Client -> Nat]
    /\ burned \subseteq Nat /\ transitions \in 0..MaxTransitions

\* Every variable stays within its type; no stream holds more than its budget, and
\* there are never more streams than the limit.
TypeOK ==
    /\ TypesOK
    /\ Cardinality(Streams) <= MaxStreams
    /\ \A c \in Client : Cardinality(pending[c]) <= Budget

\* Once a generation is published no stream of an earlier one is left that could
\* still move a byte, whatever timed out on the way there.
OneGeneration == \A c \in Streams : gen[c] = last /\ (accepting => gen[c] = active)

\* A stream belongs to the generation whose gate was open when its connection was
\* taken from the backlog: no cutover happens between accept() and admission.
AdmittedByItsGeneration == \A c \in Streams : took[c] = gen[c]

\* The generation whose connections are admitted.
OpenGeneration == IF accepting THEN active ELSE 0

Gate == INSTANCE GenerationGate WITH open <- OpenGeneration

\* To whoever drives it the frontend is a gate that is open for one generation at a
\* time, shut in between, and never open for one again after a later one.
ImplementsGate == Gate!GateSpec

\* A commit that fails because the accept thread did not see it in time has let
\* nobody in: no connection ever belongs to a generation that was taken back.
NothingUnderABurnedGeneration == \A c \in Client : gen[c] \notin burned

\* After a quiesce that returned and until the gate is opened there is no stream,
\* and after a close that returned there is none either, nor anybody to make one.
ClosedMeansQuiet ==
    /\ active # 0 /\ ~accepting => Streams = {}
    /\ life = "closed" =>
          /\ Streams = {} /\ acceptor.at \in {"none", "stopped"}
          /\ \A c \in Client : phase[c] \notin {"backlog", "taken"}

Admitted(c) == phase[c] = "taken" /\ phase'[c] = "attach"

\* A gate that qualification_reopen has opened admits no connection made before
\* that call closed the gate for its last look at the backlog.
ReopenedGateIsFresh ==
    [][ \A c \in Client :
          Admitted(c) /\ opener = "reopen" => met[c].epoch >= epoch - 1 ]_vars

\* A cutover and a close end without the help of their deadline: every worker they
\* revoke stops, and the accept thread sees the gate move.
CutoverEnds ==
    \A kind \in {"commit", "close"} : op.kind = kind ~> op.kind # kind

\* A response that was held is written once responses are held no more.
HeldResponseReleased ==
    \A c \in Client :
        phase[c] = "select" /\ "down" \in pending[c] /\ ~hold.now
            ~> "down" \notin pending[c] \/ hold.now

\* What the module's documentation says of the backlog: it does not retain bytes
\* sent before a commit for a later generation, so that no connection made while
\* the gate was closed is ever admitted.
ClosedGateConnectionsRejected ==
    [][ \A c \in Client : Admitted(c) => met[c].open ]_vars
=============================================================================
