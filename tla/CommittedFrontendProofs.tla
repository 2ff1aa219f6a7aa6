---------------------- MODULE CommittedFrontendProofs ----------------------
(***************************************************************************)
(* Type correctness and the limits of CommittedFrontend, for every number  *)
(* of connections, streams, chunks, generations and calls, and what the    *)
(* steps of each thread leave alone.                                       *)
(***************************************************************************)
EXTENDS CommittedFrontend, FiniteSetTheorems, TLAPS

\* Abbreviations of the model stand for what they expand to in every proof.
USE DEF gate, ack, workers, streamState, history, vars, Chunk, Running, Phases, Unmet

\* A caller that returns, and an accept thread at the top of its loop, are well typed.
LEMMA Blanks == NoOp \in Calls /\ NoSnapshot \in Snapshot
  BY DEF NoOp, Calls, NoSnapshot, Snapshot, Kinds

\* So is a caller that has just taken the lock.
LEMMA CallTyped ==
  ASSUME TypesOK, NEW kind, NEW at, NEW g \in Nat, NEW waits \in SUBSET Client,
         NEW todo \in SUBSET Client, epoch' \in Nat, Call(kind, at, g, waits, todo),
         at \in {"streams", "observe", "listener", "hold", "backlog"}
  PROVE  op' \in Calls /\ transitions' \in 0..MaxTransitions /\ burned' \subseteq Nat
<1>1. op' = [kind |-> kind, at |-> at, gen |-> g, epoch |-> epoch', waits |-> waits,
             todo |-> todo, waking |-> Nobody]
  BY DEF Call, NoOp
<1>2. kind \in Kinds
  BY SizesAssumption DEF Call
<1>3. op' \in Calls
  BY <1>1, <1>2 DEF Calls
<1> QED
  BY <1>3, SizesAssumption DEF Call, TypesOK

\* The gate stays well typed when it is closed, and when it is opened.
LEMMA GateTyped ==
  ASSUME TypesOK, CloseGate \/ \E g \in Nat, who \in {"commit", "reopen"} : OpenGate(g, who)
  PROVE  /\ accepting' \in BOOLEAN /\ active' \in Nat /\ epoch' \in Nat
         /\ epoch' = epoch + 1 /\ observed \in 0..epoch'
         /\ opener' \in {"none", "commit", "reopen"}
<1>1. ASSUME CloseGate
      PROVE  /\ accepting' \in BOOLEAN /\ active' \in Nat /\ epoch' = epoch + 1
             /\ opener' \in {"none", "commit", "reopen"}
  BY <1>1 DEF CloseGate, TypesOK
<1>2. ASSUME NEW g \in Nat, NEW who \in {"commit", "reopen"}, OpenGate(g, who)
      PROVE  /\ accepting' \in BOOLEAN /\ active' \in Nat /\ epoch' = epoch + 1
             /\ opener' \in {"none", "commit", "reopen"}
  BY <1>2 DEF OpenGate
<1> QED
  BY <1>1, <1>2 DEF TypesOK

\* A relay's step that sets its phase and its chunks is well typed.
LEMMA RelayTyped ==
  ASSUME TypesOK, NEW c \in Client, NEW chunks \in SUBSET Chunk, NEW event, Transfer(c, event, chunks)
  PROVE  TypesOK'
<1>1. phase' \in [Client -> Phases]
  BY DEF TypesOK, Transfer, Become
<1>2. pending' \in [Client -> SUBSET Chunk]
  <2>1. pending' = pending \/ pending' = [pending EXCEPT ![c] = chunks]
    BY DEF Transfer
  <2>2. pending \in [Client -> SUBSET Chunk]
    BY DEF TypesOK
  <2> QED
    BY <2>1, <2>2
<1> QED
  BY <1>1, <1>2 DEF TypesOK, Transfer, WorkerStep

LEMMA TypesAcceptor == TypesOK /\ Acceptor => TypesOK'
<1> SUFFICES ASSUME TypesOK, Acceptor PROVE TypesOK'
  OBVIOUS
<1> USE ClientsAssumption, SizesAssumption DEF TypesOK, AcceptStep, Become
<1>1. CASE Observe
  <2>1. acceptor' \in Snapshot
    BY <1>1 DEF Observe, Snapshot
  <2> QED
    BY <1>1, <2>1, Blanks DEF Observe
<1>2. CASE TimeOut \/ AcceptFails
  <2>1. \/ acceptor' = NoSnapshot
        \/ acceptor' = [acceptor EXCEPT !.at = "idle"]
        \/ acceptor' = [acceptor EXCEPT !.at = "stopped"]
    BY <1>2 DEF TimeOut, AcceptFails
  <2>2. acceptor' \in Snapshot
    BY <2>1, Blanks DEF Snapshot
  <2> QED
    BY <1>2, <2>2, Blanks DEF TimeOut, AcceptFails
<1>3. CASE Idle
  <2>1. acceptor.epoch \in Nat
    BY <1>3 DEF Snapshot
  <2> QED
    BY <1>3, <2>1, Blanks DEF Idle
<1>4. ASSUME NEW c \in Client, Take(c) PROVE TypesOK'
  <2>1. acceptor' \in Snapshot
    BY <1>4 DEF Take, Snapshot
  <2> QED
    BY <1>4, <2>1, Blanks DEF Take
<1>5. ASSUME NEW c \in Client, Admit(c) PROVE TypesOK'
  BY <1>5, Blanks DEF Admit, Decide, Admissible
<1>6. ASSUME NEW c \in Client, Reject(c) PROVE TypesOK'
  BY <1>6, Blanks DEF Reject, Decide
<1> QED
  BY <1>1, <1>2, <1>3, <1>4, <1>5, <1>6 DEF Acceptor

LEMMA TypesWorker == TypesOK /\ (\E c \in Client : Worker(c)) => TypesOK'
<1> SUFFICES ASSUME TypesOK, (\E c \in Client : Worker(c)) PROVE TypesOK'
  OBVIOUS
<1> USE ClientsAssumption, SizesAssumption DEF TypesOK, WorkerStep, Become
<1>1. ASSUME NEW c \in Client, Attach(c) PROVE TypesOK'
  BY <1>1 DEF Attach
<1>2. ASSUME NEW c \in Client, ConnectEnds(c) PROVE TypesOK'
  BY <1>2 DEF ConnectEnds
<1>3. ASSUME NEW c \in Client, CheckRevoked(c) PROVE TypesOK'
  <2>0. phase' \in {[phase EXCEPT ![c] = "closing"], [phase EXCEPT ![c] = "select"]}
    BY <1>3 DEF CheckRevoked
  <2>1. phase' \in [Client -> Phases]
    BY <2>0
  <2>2. watching' \in [Client -> SUBSET (Chunk \cup {"read"})]
    BY <1>3 DEF CheckRevoked, Wanted
  <2> QED
    BY <1>3, <2>1, <2>2 DEF CheckRevoked
<1>4. ASSUME NEW c \in Client, Woken(c) PROVE TypesOK'
  BY <1>4 DEF Woken
<1>5. ASSUME NEW c \in Client, Discard(c) PROVE TypesOK'
  BY <1>5 DEF Discard
<1>6. ASSUME NEW c \in Client, Done(c) PROVE TypesOK'
  BY <1>6 DEF Done
<1>7. ASSUME NEW c \in Client, Read(c) PROVE TypesOK'
  BY <1>7, RelayTyped DEF Read
<1>8. ASSUME NEW c \in Client, NEW d \in Chunk, Write(c, d) PROVE TypesOK'
  BY <1>8, RelayTyped DEF Write
<1>9. ASSUME NEW c \in Client, RelayEnds(c) PROVE TypesOK'
  BY <1>9 DEF RelayEnds
<1> QED
  BY <1>1, <1>2, <1>3, <1>4, <1>5, <1>6, <1>7, <1>8, <1>9 DEF Worker, OwnStep

LEMMA TypesBegin == TypesOK /\ Begin => TypesOK'
<1> SUFFICES ASSUME TypesOK, Begin PROVE TypesOK'
  OBVIOUS
<1> USE DEF CallStep
<1>0. Streams \in SUBSET Client /\ active \in Nat /\ epoch \in Nat /\ observed \in 0..epoch
  BY DEF Streams, TypesOK
<1>1. ASSUME NEW g \in Generation, Commit(g) PROVE TypesOK'
  <2>1. epoch' \in Nat /\ observed \in 0..epoch'
    BY <1>1, GateTyped DEF Commit
  <2>2. op' \in Calls /\ transitions' \in 0..MaxTransitions /\ burned' \subseteq Nat
    BY <1>0, <1>1, <2>1, SizesAssumption, CallTyped DEF Commit, Generation
  <2> QED
    BY <1>1, <2>1, <2>2 DEF Commit, CloseGate, TypesOK
<1>2. CASE Drain
  <2>1. epoch' \in Nat /\ observed \in 0..epoch'
    BY <1>2, GateTyped DEF Drain
  <2>2. op' \in Calls /\ transitions' \in 0..MaxTransitions /\ burned' \subseteq Nat
    <3>1. Call("drain", "streams", 0, Streams, {})
      BY <1>2 DEF Drain
    <3> QED
      BY <1>0, <2>1, <3>1, CallTyped
  <2> QED
    BY <1>2, <2>1, <2>2 DEF Drain, CloseGate, TypesOK
<1>3. CASE RevokeAll
  <2>1. epoch' \in Nat /\ observed \in 0..epoch'
    BY <1>3, GateTyped DEF RevokeAll
  <2>2. op' \in Calls /\ transitions' \in 0..MaxTransitions /\ burned' \subseteq Nat
    BY <1>0, <1>3, <2>1, CallTyped DEF RevokeAll
  <2> QED
    BY <1>3, <2>1, <2>2 DEF RevokeAll, CloseGate, TypesOK
<1>4. CASE Close
  <2>1. epoch' \in Nat /\ observed \in 0..epoch'
    BY <1>4, GateTyped DEF Close
  <2>2. op' \in Calls /\ transitions' \in 0..MaxTransitions /\ burned' \subseteq Nat
    BY <1>0, <1>4, <2>1, CallTyped DEF Close
  <2> QED
    BY <1>4, <2>1, <2>2 DEF Close, CloseGate, TypesOK
<1>5. CASE Arm
  <2>1. op' \in Calls /\ transitions' \in 0..MaxTransitions /\ burned' \subseteq Nat
    BY <1>0, <1>5, CallTyped DEF Arm
  <2> QED
    BY <1>5, <2>1 DEF Arm, TypesOK
<1>6. CASE Quiesce
  <2>1. epoch' \in Nat /\ observed \in 0..epoch'
    BY <1>0, <1>6 DEF Quiesce
  <2>2. op' \in Calls /\ transitions' \in 0..MaxTransitions /\ burned' \subseteq Nat
    BY <1>0, <1>6, <2>1, CallTyped DEF Quiesce
  <2> QED
    BY <1>6, <2>1, <2>2 DEF Quiesce, TypesOK
<1>7. CASE ReopenOpened
  <2>1. epoch' \in Nat /\ observed \in 0..epoch'
    BY <1>0, <1>7 DEF ReopenOpened
  <2>2. op' \in Calls /\ transitions' \in 0..MaxTransitions /\ burned' \subseteq Nat
    BY <1>0, <1>7, <2>1, CallTyped DEF ReopenOpened
  <2> QED
    BY <1>7, <2>1, <2>2 DEF ReopenOpened, TypesOK
<1>8. CASE Reopen
  <2>1. epoch' \in Nat /\ observed \in 0..epoch'
    BY <1>0, <1>8 DEF Reopen
  <2>2. op' \in Calls /\ transitions' \in 0..MaxTransitions /\ burned' \subseteq Nat
    BY <1>0, <1>8, <2>1, CallTyped DEF Reopen
  <2> QED
    BY <1>8, <2>1, <2>2 DEF Reopen, TypesOK
<1> QED
  BY <1>1, <1>2, <1>3, <1>4, <1>5, <1>6, <1>7, <1>8 DEF Begin

LEMMA TypesProceed == TypesOK /\ Proceed => TypesOK'
<1> SUFFICES ASSUME TypesOK, Proceed PROVE TypesOK'
  OBVIOUS
<1> USE ClientsAssumption, SizesAssumption DEF TypesOK, CallStep, Return
<1>1. ASSUME NEW c \in Client, Revoke(c) PROVE TypesOK'
  <2>1. op' \in Calls
    BY <1>1 DEF Revoke, Calls
  <2> QED
    BY <1>1, <2>1 DEF Revoke
<1>2. CASE Wake
  <2>1. op' \in Calls
    BY <1>2 DEF Wake, Calls
  <2>2. op.waking \in Client
    BY <1>2 DEF Wake, Calls
  <2>3. wake' \in [Client -> BOOLEAN]
    BY <1>2, <2>2 DEF Wake, WakeByte
  <2> QED
    BY <1>2, <2>1, <2>3 DEF Wake
<1>3. CASE Publish
  <2>1. op.gen \in Nat
    BY DEF Calls
  <2>2. epoch' \in Nat /\ observed \in 0..epoch'
    BY <1>3, <2>1, GateTyped DEF Publish
  <2>3. op' \in Calls
    BY <1>3, <2>2 DEF Publish, Calls
  <2> QED
    BY <1>3, <2>1, <2>2, <2>3 DEF Publish, OpenGate
<1>4. CASE Observed
  BY <1>4, Blanks DEF Observed
<1>5. CASE Drained
  BY <1>5, Blanks DEF Drained
<1>6. CASE CloseListener
  <2>1. op' \in Calls
    BY <1>6 DEF CloseListener, Calls
  <2>2. phase' \in [Client -> Phases]
    BY <1>6 DEF CloseListener, Phases
  <2>3. met' \in [Client -> [epoch : Nat, open : BOOLEAN]]
    BY <1>6 DEF CloseListener, Unmet
  <2>4. listening' \in BOOLEAN
        /\ UNCHANGED <<life, gate, ack, hold, acceptor, gen, workers, disarm, took, burned, transitions>>
    BY <1>6 DEF CloseListener
  <2> QED
    BY <2>1, <2>2, <2>3, <2>4 DEF gate, ack, workers
<1>7. CASE Closed
  BY <1>7, Blanks DEF Closed
<1>8. CASE Armed
  BY <1>8, Blanks DEF Armed
<1>9. CASE Quiesced
  <2>1. op.gen \in Nat
    BY <1>9 DEF Calls
  <2> QED
    BY <1>9, <2>1, Blanks DEF Quiesced
<1>10. CASE Reopened
  <2>1. op.gen \in Nat
    BY DEF Calls
  <2>2. epoch' \in Nat /\ observed \in 0..epoch'
    BY <1>10, <2>1, GateTyped DEF Reopened
  <2>3. op' \in Calls
    BY <1>10, <2>2 DEF Reopened, Calls
  <2> QED
    BY <1>10, <2>1, <2>2, <2>3 DEF Reopened, OpenGate
<1> QED
  BY <1>1, <1>2, <1>3, <1>4, <1>5, <1>6, <1>7, <1>8, <1>9, <1>10 DEF Proceed

LEMMA TypesRest == TypesOK /\ (Start \/ Deadline \/ Disarm \/ Disarming \/ \E c \in Client : Connect(c)) => TypesOK'
<1> SUFFICES ASSUME TypesOK, (Start \/ Deadline \/ Disarm \/ Disarming \/ \E c \in Client : Connect(c)) PROVE TypesOK'
  OBVIOUS
<1> USE ClientsAssumption, SizesAssumption DEF TypesOK
<1>1. CASE Start
  BY <1>1, Blanks DEF Start
<1>2. CASE Deadline
  <2>1. op.gen \in Nat
    BY DEF Calls
  <2>2. CASE UNCHANGED <<gate, burned>>
    BY <1>2, <2>2, Blanks DEF Deadline, CallStep, Return
  <2>3. CASE CloseGate /\ UNCHANGED barrier /\ burned' = burned \cup {op.gen}
    <3>1. epoch' \in Nat /\ observed \in 0..epoch'
      BY <2>3, GateTyped
    <3>2. /\ accepting' \in BOOLEAN /\ active' \in Nat /\ op' \in Calls /\ burned' \subseteq Nat
          /\ UNCHANGED <<last, opener, barrier>>
      BY <1>2, <2>1, <2>3, Blanks DEF Deadline, CloseGate, Return
    <3>3. UNCHANGED <<life, ack, revoked, wake, transitions, listening, hold, acceptor, phase, gen,
                      pending, watching, disarm, met, took>>
      BY <1>2 DEF Deadline, CallStep
    <3> QED
      BY <3>1, <3>2, <3>3 DEF ack
  <2> QED
    BY <1>2, <2>2, <2>3 DEF Deadline, DeadlinePasses
<1>3. CASE Disarm
  BY <1>3 DEF Disarm
<1>4. CASE DisarmSnapshot
  BY <1>4 DEF DisarmSnapshot, Streams
<1>5. ASSUME NEW c \in Client, DisarmWake(c) PROVE TypesOK'
  BY <1>5 DEF DisarmWake, WakeByte
<1>6. ASSUME NEW c \in Client, Connect(c) PROVE TypesOK'
  BY <1>6 DEF Connect, Become
<1> QED
  BY <1>1, <1>2, <1>3, <1>4, <1>5, <1>6 DEF Disarming

LEMMA InitTypes == Init => TypesOK
<1> SUFFICES ASSUME Init PROVE TypesOK
  OBVIOUS
<1>1. acceptor \in Snapshot
  BY DEF Init, Snapshot, NoSnapshot
<1>2. transitions \in 0..MaxTransitions
  BY SizesAssumption DEF Init
<1>3. op \in Calls
  BY Blanks DEF Init
<1>4. /\ idle \in [since : BOOLEAN, epoch : Nat]
      /\ disarm \in [at : {"none", "snapshot"}, todo : SUBSET Client]
  BY DEF Init
<1>5. phase \in [Client -> Phases] /\ met \in [Client -> [epoch : Nat, open : BOOLEAN]]
  BY DEF Init
<1>6. /\ pending \in [Client -> SUBSET Chunk]
      /\ watching \in [Client -> SUBSET (Chunk \cup {"read"})]
  BY DEF Init
<1>7. /\ gen \in [Client -> Nat] /\ took \in [Client -> Nat]
      /\ revoked \in [Client -> BOOLEAN] /\ wake \in [Client -> BOOLEAN]
  BY DEF Init
<1>8. /\ life \in {"new", "running", "closing", "closed"}
      /\ listening \in BOOLEAN /\ accepting \in BOOLEAN
      /\ active \in Nat /\ last \in Nat /\ epoch \in Nat
      /\ barrier \in BOOLEAN /\ hold \in [now : BOOLEAN, ever : BOOLEAN]
      /\ opener \in {"none", "commit", "reopen"} /\ burned \subseteq Nat
  BY DEF Init
<1>9. observed \in 0..epoch
  <2>1. observed = 0 /\ epoch = 0
    BY DEF Init
  <2> QED
    BY <2>1
<1> QED
  BY <1>1, <1>2, <1>3, <1>4, <1>5, <1>6, <1>7, <1>8, <1>9 DEF TypesOK

LEMMA NextTypes == TypesOK /\ [Next]_vars => TypesOK'
<1> SUFFICES ASSUME TypesOK, [Next]_vars PROVE TypesOK'
  OBVIOUS
<1>1. CASE UNCHANGED vars
  BY <1>1 DEF TypesOK
<1>2. CASE Next
  BY <1>2, TypesAcceptor, TypesWorker, TypesBegin, TypesProceed, TypesRest DEF Next
<1> QED
  BY <1>1, <1>2

-----------------------------------------------------------------------------
(* What the steps of each thread leave alone *)

\* A worker touches nothing but its own stream, which only ever goes on towards
\* its end.
LEMMA WorkerFrame ==
  ASSUME TypesOK, NEW c \in Client, Worker(c)
  PROVE  /\ UNCHANGED <<life, listening, gate, ack, hold, acceptor, gen, op, disarm, met,
                        burned, transitions>>
         /\ \A x \in Client \ {c} : phase'[x] = phase[x] /\ took'[x] = took[x]
         /\ phase[c] \in Running \cup {"discarded"}
         /\ phase'[c] \in Running \cup {"discarded", "done"}
         /\ phase[c] \notin Running => phase'[c] \notin Running
         /\ phase'[c] \in Running => took'[c] = took[c]
<1> USE DEF TypesOK, WorkerStep, Become
<1>1. CASE Attach(c)
  BY <1>1 DEF Attach
<1>2. CASE ConnectEnds(c)
  BY <1>2 DEF ConnectEnds
<1>3. CASE CheckRevoked(c)
  BY <1>3 DEF CheckRevoked
<1>4. CASE Woken(c)
  BY <1>4 DEF Woken
<1>5. CASE Discard(c)
  BY <1>5 DEF Discard
<1>6. CASE Done(c)
  BY <1>6 DEF Done
<1>7. ASSUME NEW event, NEW chunks, Transfer(c, event, chunks)
      PROVE  /\ WorkerStep /\ UNCHANGED took
             /\ phase[c] = "select" /\ phase' = [phase EXCEPT ![c] = phase'[c]]
             /\ phase'[c] \in {"closing", "check"}
  BY <1>7 DEF Transfer
<1>8. CASE RelayEnds(c)
  BY <1>8 DEF RelayEnds
<1>9. CASE Read(c)
  <2>1. PICK d \in Traffic \ pending[c] : Transfer(c, "read", pending[c] \cup {d})
    BY <1>9 DEF Read
  <2> QED
    BY <2>1, <1>7
<1>10. ASSUME NEW d \in Chunk, Write(c, d)
       PROVE  \E event, chunks : Transfer(c, event, chunks)
  BY <1>10 DEF Write
<1>11. CASE \E d \in Chunk : Write(c, d)
  BY <1>11, <1>10, <1>7
<1> QED
  BY <1>1, <1>2, <1>3, <1>4, <1>5, <1>6, <1>8, <1>9, <1>11 DEF Worker, OwnStep

\* A caller that begins leaves the connections and the accept thread alone.
LEMMA BeginFrame ==
  Begin => UNCHANGED <<listening, hold, acceptor, phase, gen, revoked, wake, pending, watching,
                       disarm, met, took, last, observed, burned>>
  BY DEF Begin, Commit, Drain, RevokeAll, Close, Arm, Quiesce, ReopenOpened, Reopen, CallStep,
         Call, CloseGate

\* So does one that goes on, but for what waits in the backlog of a listener it closes.
LEMMA ProceedFrame ==
  ASSUME TypesOK, Proceed
  PROVE  /\ UNCHANGED <<acceptor, gen, pending, watching, disarm, took, observed, burned>>
         /\ \/ UNCHANGED phase
            \/ phase' = [x \in Client |-> IF phase[x] = "backlog" THEN "rejected" ELSE phase[x]]
  BY DEF Proceed, Revoke, Wake, Publish, Observed, Drained, CloseListener, Closed, Armed, Quiesced,
         Reopened, CallStep

\* The accept thread takes connections and decides about them.
LEMMA AcceptorFrame ==
  ASSUME Acceptor
  PROVE  UNCHANGED <<life, listening, gate, hold, workers, op, disarm, burned, transitions>>
  BY DEF Acceptor, Observe, TimeOut, AcceptFails, Idle, Take, Admit, Reject, Decide, AcceptStep

\* Only the accept thread makes a stream.
LEMMA StreamsFrame ==
  ASSUME TypesOK, [Next]_vars
  PROVE  Streams' \subseteq Streams \/ \E c \in Client : Admit(c) /\ Streams' = Streams \cup {c}
<1>1. CASE UNCHANGED phase
  BY <1>1 DEF Streams
<1>2. ASSUME NEW c \in Client, Worker(c) PROVE Streams' \subseteq Streams
  BY <1>2, WorkerFrame DEF Streams
<1>3. CASE Proceed
  BY <1>3, ProceedFrame DEF Streams
<1>4. CASE Acceptor
  <2>1. CASE Observe \/ TimeOut \/ AcceptFails \/ Idle
    BY <2>1, <1>1 DEF Observe, TimeOut, AcceptFails, Idle
  <2>2. ASSUME NEW c \in Client, Take(c) \/ Reject(c) PROVE Streams' \subseteq Streams
    BY <2>2 DEF Take, Reject, Become, Streams, TypesOK
  <2>3. ASSUME NEW c \in Client, Admit(c) PROVE Streams' = Streams \cup {c}
    BY <2>3 DEF Admit, Become, Streams, TypesOK
  <2> QED
    BY <1>4, <2>1, <2>2, <2>3 DEF Acceptor
<1>5. ASSUME NEW c \in Client, Connect(c) PROVE Streams' \subseteq Streams
  BY <1>5 DEF Connect, Become, Streams, TypesOK
<1>6. CASE Begin
  BY <1>6, <1>1, BeginFrame
<1>7. CASE Start \/ Deadline \/ Disarm \/ Disarming \/ UNCHANGED vars
  BY <1>7, <1>1 DEF Start, Deadline, CallStep, Disarm, Disarming, DisarmSnapshot, DisarmWake
<1> QED
  BY <1>2, <1>3, <1>4, <1>5, <1>6, <1>7 DEF Next

-----------------------------------------------------------------------------
(* The limits *)

\* There are finitely many streams, and a relay that may read has room.
Sized ==
    /\ IsFiniteSet(Streams) /\ Cardinality(Streams) <= MaxStreams
    /\ \A c \in Client :
          /\ Cardinality(pending[c]) <= Budget
          /\ phase[c] = "select" /\ "read" \in watching[c] => Cardinality(pending[c]) < Budget

\* Fewer streams stay within the limit, and one more does if there was room for it.
LEMMA StreamsSized ==
  ASSUME TypesOK, Sized, [Next]_vars
  PROVE  IsFiniteSet(Streams') /\ Cardinality(Streams') <= MaxStreams
<1>1. CASE Streams' \subseteq Streams
  <2>1. IsFiniteSet(Streams') /\ Cardinality(Streams') <= Cardinality(Streams)
    BY <1>1, FS_Subset DEF Sized
  <2>2. Cardinality(Streams') \in Nat /\ Cardinality(Streams) \in Nat
    BY <2>1, FS_CardinalityType DEF Sized
  <2> QED
    BY <2>1, <2>2, SizesAssumption DEF Sized
<1>2. ASSUME NEW c \in Client, Admit(c), Streams' = Streams \cup {c}
      PROVE  IsFiniteSet(Streams') /\ Cardinality(Streams') <= MaxStreams
  <2>1. IsFiniteSet(Streams) /\ Cardinality(Streams) < MaxStreams
    BY <1>2 DEF Sized, Admit
  <2>2. Cardinality(Streams) \in Nat
    BY <2>1, FS_CardinalityType
  <2>3. IsFiniteSet(Streams') /\ Cardinality(Streams') \in {Cardinality(Streams), Cardinality(Streams) + 1}
    BY <1>2, <2>1, FS_AddElement
  <2> QED
    BY <2>1, <2>2, <2>3, SizesAssumption
<1> QED
  BY <1>1, <1>2, StreamsFrame

\* A set of chunks has at most one chunk more than it had.
LEMMA ChunksGrow ==
  ASSUME NEW S \in SUBSET Chunk, NEW d
  PROVE  /\ Cardinality(S) \in Nat /\ Cardinality(S \ {d}) \in Nat
         /\ Cardinality(S \cup {d}) <= Cardinality(S) + 1
         /\ Cardinality(S \ {d}) <= Cardinality(S)
<1>1. IsFiniteSet(S)
  <2>1. IsFiniteSet({"up"})
    BY FS_Singleton
  <2>2. IsFiniteSet({"up"} \cup {"down"})
    BY <2>1, FS_AddElement
  <2>3. S \subseteq {"up"} \cup {"down"}
    OBVIOUS
  <2> QED
    BY <2>2, <2>3, FS_Subset
<1>2. Cardinality(S) \in Nat /\ IsFiniteSet(S \ {d}) /\ IsFiniteSet(S \cup {d})
  BY <1>1, FS_CardinalityType, FS_AddElement, FS_RemoveElement
<1>3. Cardinality(S \ {d}) \in Nat
  BY <1>2, FS_CardinalityType
<1>4. Cardinality(S \cup {d}) \in {Cardinality(S), Cardinality(S) + 1}
  BY <1>1, FS_AddElement
<1>5. Cardinality(S \ {d}) \in {Cardinality(S), Cardinality(S) - 1}
  BY <1>1, FS_RemoveElement
<1> QED
  BY <1>2, <1>3, <1>4, <1>5

\* A relay keeps within its budget.
LEMMA WorkerSized ==
  ASSUME TypesOK, Sized, NEW c \in Client, Worker(c), NEW x \in Client
  PROVE  /\ Cardinality(pending'[x]) <= Budget
         /\ phase'[x] = "select" /\ "read" \in watching'[x] => Cardinality(pending'[x]) < Budget
<1> USE DEF Become
<1>0. /\ Cardinality(pending[x]) <= Budget
      /\ phase[x] = "select" /\ "read" \in watching[x] => Cardinality(pending[x]) < Budget
  BY DEF Sized
<1>1. CASE Attach(c) \/ ConnectEnds(c) \/ Woken(c) \/ Done(c) \/ RelayEnds(c)
  BY <1>0, <1>1 DEF TypesOK, Attach, ConnectEnds, Woken, Done, RelayEnds
<1>2. CASE CheckRevoked(c)
  <2>1. "read" \in Wanted(c) => Cardinality(pending[c]) < Budget
    BY DEF Wanted, TypesOK
  <2> QED
    BY <1>0, <1>2, <2>1 DEF TypesOK, CheckRevoked
<1>3. CASE Discard(c)
  <2>1. Cardinality({}) <= Budget
    BY FS_EmptySet, SizesAssumption
  <2> QED
    BY <1>0, <1>3, <2>1 DEF TypesOK, Discard
<1>4. ASSUME NEW event, NEW chunks \in SUBSET Chunk, Transfer(c, event, chunks),
             Cardinality(chunks) <= Budget
      PROVE  /\ Cardinality(pending'[x]) <= Budget
             /\ phase'[x] = "select" /\ "read" \in watching'[x] => Cardinality(pending'[x]) < Budget
  BY <1>0, <1>4 DEF TypesOK, Transfer
<1>5. pending[c] \subseteq Chunk /\ Cardinality(pending[c]) <= Budget
  BY DEF TypesOK, Sized
<1>6. CASE Read(c)
  <2>1. PICK d \in Traffic \ pending[c] : Transfer(c, "read", pending[c] \cup {d})
    BY <1>6 DEF Read
  <2>2. Cardinality(pending[c]) < Budget
    BY <2>1 DEF Sized, Transfer
  <2>3. Cardinality(pending[c] \cup {d}) <= Budget
    <3>1. Cardinality(pending[c]) \in Nat /\ Cardinality(pending[c] \cup {d}) <= Cardinality(pending[c]) + 1
      BY <1>5, ChunksGrow
    <3>2. Cardinality(pending[c] \cup {d}) \in Nat
      BY <1>5, <2>1, SizesAssumption, ChunksGrow
    <3> QED
      BY <2>2, <3>1, <3>2, SizesAssumption
  <2> QED
    BY <1>4, <1>5, <2>1, <2>3, SizesAssumption
<1>7. ASSUME NEW d \in Chunk, Write(c, d)
      PROVE  /\ Cardinality(pending'[x]) <= Budget
             /\ phase'[x] = "select" /\ "read" \in watching'[x] => Cardinality(pending'[x]) < Budget
  <2>1. PICK chunks \in {pending[c], pending[c] \ {d}} : Transfer(c, d, chunks)
    BY <1>7 DEF Write
  <2>2. Cardinality(chunks) <= Budget
    <3>1. Cardinality(pending[c]) \in Nat /\ Cardinality(chunks) \in Nat
      BY <1>5, <2>1, ChunksGrow
    <3>2. Cardinality(chunks) <= Cardinality(pending[c])
      <4>1. CASE chunks = pending[c]
        BY <3>1, <4>1
      <4>2. CASE chunks = pending[c] \ {d}
        BY <1>5, <4>2, ChunksGrow
      <4> QED
        BY <2>1, <4>1, <4>2
    <3> QED
      BY <1>5, <3>1, <3>2, SizesAssumption
  <2> QED
    BY <1>4, <1>5, <2>1, <2>2
<1> QED
  BY <1>1, <1>2, <1>3, <1>6, <1>7 DEF Worker, OwnStep

LEMMA NextSized == TypesOK /\ Sized /\ [Next]_vars => Sized'
<1> SUFFICES ASSUME TypesOK, Sized, [Next]_vars PROVE Sized'
  OBVIOUS
<1>1. IsFiniteSet(Streams') /\ Cardinality(Streams') <= MaxStreams
  BY StreamsSized
<1>2. ASSUME NEW x \in Client
      PROVE  /\ Cardinality(pending'[x]) <= Budget
             /\ phase'[x] = "select" /\ "read" \in watching'[x] => Cardinality(pending'[x]) < Budget
  <2>1. CASE UNCHANGED <<pending, watching>> /\ (phase'[x] = "select" => phase[x] = "select")
    BY <2>1 DEF Sized
  <2>2. CASE \E c \in Client : Worker(c)
    BY <2>2, WorkerSized
  <2>3. CASE Acceptor
    <3>1. UNCHANGED <<pending, watching>>
      BY <2>3, AcceptorFrame
    <3>2. phase'[x] = "select" => phase[x] = "select"
      BY <2>3 DEF Acceptor, Observe, TimeOut, AcceptFails, Idle, Take, Admit, Reject, Become, TypesOK
    <3> QED
      BY <3>1, <3>2, <2>1
  <2>4. CASE Begin
    BY <2>4, <2>1, BeginFrame
  <2>5. CASE Proceed
    BY <2>5, <2>1, ProceedFrame
  <2>6. CASE Start \/ Deadline \/ Disarm \/ Disarming \/ UNCHANGED vars
    BY <2>6, <2>1 DEF Start, Deadline, CallStep, Disarm, Disarming, DisarmSnapshot, DisarmWake
  <2>7. CASE \E c \in Client : Connect(c)
    BY <2>7, <2>1 DEF Connect, Become, TypesOK
  <2> QED
    BY <2>2, <2>3, <2>4, <2>5, <2>6, <2>7 DEF Next
<1> QED
  BY <1>1, <1>2 DEF Sized, Streams

\* The frontend's variables keep their types, no relay holds more than its budget, and
\* there are never more streams than the limit (max_streams, per_stream_buffer_bytes).
THEOREM FrontendTypeCorrect == Spec => []TypeOK
<1>1. Init => TypesOK /\ Sized
  <2> SUFFICES ASSUME Init PROVE Sized
    BY InitTypes
  <2>1. Streams = {} /\ \A c \in Client : pending[c] = {} /\ watching[c] = {}
    BY DEF Init, Streams
  <2> QED
    BY <2>1, FS_EmptySet, SizesAssumption DEF Sized
<1>2. TypesOK /\ Sized /\ [Next]_vars => (TypesOK /\ Sized)'
  BY NextTypes, NextSized
<1>3. TypesOK /\ Sized => TypeOK
  BY DEF TypeOK, Sized
<1> QED
  BY <1>1, <1>2, <1>3, PTL DEF Spec
=============================================================================
