----------------------- MODULE FrontendCutoverProofs -----------------------
(***************************************************************************)
(* The safety properties of CommittedFrontend, for every number of         *)
(* connections, streams, chunks, generations and calls.                    *)
(*                                                                         *)
(* Cutover is inductive: a caller works behind a closed gate and on a      *)
(* generation that nobody has used, the accept thread holds one connection *)
(* under the snapshot it has made known last, and whatever is in the       *)
(* relays belongs to the last generation.                                  *)
(*                                                                         *)
(* Emptied, on top of it, is about those who wait to be accepted, and      *)
(* GateStep is the refinement of GenerationGate.                           *)
(***************************************************************************)
EXTENDS CommittedFrontendProofs

\* The gate is open for the last generation or for none, and only a generation that
\* was once the last has been taken back.
GateOfLast ==
    /\ accepting => active # 0
    /\ active # 0 => active = last /\ active \notin burned
    /\ \A g \in burned : g <= last

\* Where a caller can be, by what it does.
Stages ==
    /\ op.at = "listener" => op.kind = "close"
    /\ op.at = "backlog" => op.kind = "reopen"
    /\ op.kind = "commit" => op.at \in {"streams", "observe"}
    /\ op.kind = "quiesce" => op.at = "streams"

\* A caller that waits behind the gate has closed it, waits for every stream there
\* is, and commits a generation nobody has used or restores the last.
Behind ==
    /\ op.at \in {"streams", "listener", "backlog"} => ~accepting
    /\ op.at \in {"streams", "listener"} => active = 0 /\ Streams \subseteq op.waits
    /\ op.at = "backlog" => active = op.gen
    /\ op.kind = "commit" /\ op.at = "streams" => op.gen > last
    /\ op.kind = "quiesce" \/ op.at = "backlog" =>
          op.gen # 0 /\ op.gen = last /\ op.gen \notin burned

\* The generation that is published and not yet observed has no stream.
Unseen ==
    op.kind = "commit" /\ op.at = "observe" =>
        /\ op.epoch = epoch /\ op.gen = last
        /\ observed # epoch => \A c \in Client : gen[c] # last

\* The accept thread holds the one connection that is taken, and the snapshot it
\* decides under is the one it has made known.
Snapped ==
    /\ acceptor.at = "taken" => acceptor.client \in Client /\ acceptor.epoch = observed
    /\ acceptor.at = "accept" => acceptor.epoch = observed
    /\ \A c \in Client : phase[c] = "taken" <=> acceptor.at = "taken" /\ acceptor.client = c

\* While the gate has not moved, what was taken was taken for its generation.
TakenForActive ==
    acceptor.at = "taken" /\ acceptor.epoch = epoch /\ accepting
        => took[acceptor.client] = active

\* No stream ever was of a later generation, and those there are belong to the last.
OfLast ==
    /\ \A c \in Client : gen[c] <= last
    /\ \A c \in Streams : gen[c] = last

\* A listener that is closed keeps no backlog, and only a service that was closing
\* is closed.
Shut ==
    /\ ~listening => \A c \in Client : phase[c] # "backlog"
    /\ life = "new" => ~listening /\ acceptor.at = "none"
    /\ op.at = "listener" => life = "closing"
    /\ op.kind = "close" /\ op.at = "streams" => life = "closing" /\ ~listening
    /\ life = "closed" => ~listening /\ Streams = {} /\ acceptor.at \in {"none", "stopped"}

\* Once a generation is prepared behind a closed gate there is no stream.
Prepared == active # 0 /\ ~accepting => Streams = {}

Cutover ==
    /\ TypesOK /\ GateOfLast /\ Stages /\ Behind /\ Unseen /\ Snapped /\ TakenForActive
    /\ OfLast /\ Shut /\ Prepared
    /\ AdmittedByItsGeneration /\ NothingUnderABurnedGeneration

\* Abbreviations of the invariant stand for what they expand to in every proof.
USE DEF gate, ack, workers, streamState, history, vars, Running, Stages, NoOp

LEMMA InitCutover == Init => Cutover
<1> SUFFICES ASSUME Init PROVE Cutover
  OBVIOUS
<1>1. Streams = {} /\ TypesOK
  BY InitTypes DEF Init, Streams
<1>2. Snapped /\ TakenForActive /\ Shut
  BY <1>1 DEF Init, Snapped, TakenForActive, Shut, NoSnapshot
<1> QED
  BY <1>1, <1>2 DEF Init, Cutover, GateOfLast, Behind, Unseen, OfLast, Prepared,
     AdmittedByItsGeneration, NothingUnderABurnedGeneration

-----------------------------------------------------------------------------
(* The threads that do not hold the transition lock *)

LEMMA WorkerCutover ==
  ASSUME Cutover, TypesOK', NEW c \in Client, Worker(c)
  PROVE  Cutover'
<1>1. /\ UNCHANGED <<life, listening, gate, ack, hold, acceptor, gen, op, disarm, met, burned,
                     transitions>>
      /\ \A x \in Client \ {c} : phase'[x] = phase[x] /\ took'[x] = took[x]
      /\ phase[c] \in Running \cup {"discarded"}
      /\ phase'[c] \in Running \cup {"discarded", "done"}
      /\ phase[c] \notin Running => phase'[c] \notin Running
      /\ phase'[c] \in Running => took'[c] = took[c]
  BY WorkerFrame DEF Cutover
<1>2. Streams' \subseteq Streams /\ Streams' \subseteq Client
  BY <1>1 DEF Streams
<1>3. \A x \in Client : /\ phase'[x] = "taken" <=> phase[x] = "taken"
                        /\ phase'[x] = "backlog" <=> phase[x] = "backlog"
                        /\ phase[x] = "taken" => took'[x] = took[x]
                        /\ x \in Streams' => took'[x] = took[x]
  BY <1>1 DEF Streams
<1>4. GateOfLast' /\ Stages' /\ Behind' /\ Unseen'
  BY <1>1, <1>2 DEF Cutover, GateOfLast, Behind, Unseen
<1>5. Snapped' /\ TakenForActive'
  BY <1>1, <1>3 DEF Cutover, Snapped, TakenForActive
<1>6. OfLast' /\ Prepared' /\ NothingUnderABurnedGeneration'
  BY <1>1, <1>2 DEF Cutover, OfLast, Prepared, NothingUnderABurnedGeneration
<1>7. Shut'
  BY <1>1, <1>2, <1>3 DEF Cutover, Shut
<1>8. AdmittedByItsGeneration'
  BY <1>1, <1>2, <1>3 DEF Cutover, AdmittedByItsGeneration
<1> QED
  BY <1>4, <1>5, <1>6, <1>7, <1>8 DEF Cutover

LEMMA AcceptorCutover ==
  ASSUME Cutover, TypesOK', Acceptor
  PROVE  Cutover'
<1>1. UNCHANGED <<life, listening, gate, hold, workers, op, disarm, burned, transitions>>
  BY AcceptorFrame
<1>2. GateOfLast' /\ Stages'
  BY <1>1 DEF Cutover, GateOfLast
<1>3. CASE Observe
  <2>1. UNCHANGED <<phase, gen, took>> /\ Streams' = Streams
    BY <1>3 DEF Observe, AcceptStep, Streams
  <2>2. /\ observed' = epoch /\ acceptor.at = "top"
        /\ acceptor'.epoch = epoch /\ acceptor'.at \in {"accept", "stopped"}
        /\ life = "closed" => acceptor'.at = "stopped"
    BY <1>3 DEF Observe
  <2> QED
    BY <1>1, <1>2, <2>1, <2>2 DEF Cutover, Behind, Unseen, Snapped, TakenForActive, OfLast, Shut,
       Prepared, AdmittedByItsGeneration, NothingUnderABurnedGeneration
<1>4. CASE TimeOut \/ AcceptFails \/ Idle
  <2>1. UNCHANGED <<phase, gen, took, observed>> /\ Streams' = Streams
    BY <1>4 DEF TimeOut, AcceptFails, Idle, AcceptStep, Streams
  <2>2. acceptor'.at \in {"idle", "top", "stopped"} /\ acceptor.at \in {"accept", "idle"}
    BY <1>4 DEF TimeOut, AcceptFails, Idle, NoSnapshot, Cutover, TypesOK, Snapshot
  <2> QED
    BY <1>1, <1>2, <2>1, <2>2 DEF Cutover, Behind, Unseen, Snapped, TakenForActive, OfLast, Shut,
       Prepared, AdmittedByItsGeneration, NothingUnderABurnedGeneration
<1>5. ASSUME NEW c \in Client, Take(c) PROVE Cutover'
  <2>1. /\ phase[c] = "backlog" /\ phase'[c] = "taken" /\ listening
        /\ \A x \in Client \ {c} : phase'[x] = phase[x] /\ took'[x] = took[x]
        /\ took'[c] = IF accepting THEN active ELSE 0
        /\ acceptor.at = "accept" /\ acceptor'.at = "taken" /\ acceptor'.client = c
        /\ acceptor'.epoch = acceptor.epoch /\ UNCHANGED <<gen, observed>>
    BY <1>5 DEF Take, Become, Cutover, TypesOK, Snapshot, AcceptStep
  <2>2. Streams' = Streams /\ c \notin Streams /\ Streams \subseteq Client
    BY <2>1 DEF Streams
  <2>3. Snapped' /\ TakenForActive'
    BY <1>1, <2>1 DEF Cutover, Snapped, TakenForActive
  <2>4. Shut'
    BY <1>1, <2>1, <2>2 DEF Cutover, Shut
  <2> QED
    BY <1>1, <1>2, <2>1, <2>2, <2>3, <2>4 DEF Cutover, Behind, Unseen, OfLast,
       Prepared, AdmittedByItsGeneration, NothingUnderABurnedGeneration
<1>6. ASSUME NEW c \in Client, Admit(c) PROVE Cutover'
  <2>1. /\ acceptor.at = "taken" /\ acceptor.client = c /\ acceptor'.at = "top"
        /\ phase'[c] = "attach" /\ gen'[c] = active
        /\ \A x \in Client \ {c} : phase'[x] = phase[x] /\ gen'[x] = gen[x]
        /\ UNCHANGED <<took, observed>>
        /\ life = "running" /\ accepting /\ acceptor.epoch = epoch
    BY <1>6 DEF Admit, Decide, Admissible, Become, NoSnapshot, Cutover, TypesOK
  <2>2. Streams' = Streams \cup {c} /\ Streams \subseteq Client
    BY <2>1 DEF Streams
  <2>3. observed = epoch /\ took[c] = active /\ active = last /\ active \notin burned
    BY <2>1 DEF Cutover, Snapped, TakenForActive, GateOfLast
  <2>4. Behind' /\ Unseen' /\ Prepared'
    BY <1>1, <2>1, <2>3 DEF Cutover, Behind, Unseen, Prepared
  <2>5. Snapped' /\ TakenForActive'
    BY <1>1, <2>1 DEF Cutover, Snapped, TakenForActive
  <2>6. Shut'
    BY <1>1, <2>1 DEF Cutover, Shut
  <2>7. OfLast'
    BY <1>1, <2>1, <2>2, <2>3 DEF Cutover, OfLast, TypesOK
  <2>8. AdmittedByItsGeneration'
    BY <2>1, <2>2, <2>3 DEF Cutover, AdmittedByItsGeneration
  <2>9. NothingUnderABurnedGeneration'
    BY <1>1, <2>1, <2>3 DEF Cutover, NothingUnderABurnedGeneration
  <2> QED
    BY <1>2, <2>4, <2>5, <2>6, <2>7, <2>8, <2>9 DEF Cutover
<1>7. ASSUME NEW c \in Client, Reject(c) PROVE Cutover'
  <2>1. /\ acceptor.at = "taken" /\ acceptor.client = c /\ acceptor'.at = "top"
        /\ phase'[c] = "rejected" /\ UNCHANGED <<gen, observed>>
        /\ \A x \in Client \ {c} : phase'[x] = phase[x] /\ took'[x] = took[x]
    BY <1>7 DEF Reject, Decide, Become, NoSnapshot, Cutover, TypesOK
  <2>2. phase[c] = "taken"
    BY <2>1 DEF Cutover, Snapped
  <2>3. Streams' = Streams /\ c \notin Streams /\ Streams \subseteq Client
    BY <2>1, <2>2 DEF Streams
  <2>4. Snapped' /\ TakenForActive'
    BY <1>1, <2>1 DEF Cutover, Snapped, TakenForActive
  <2>5. Shut'
    BY <1>1, <2>1, <2>3 DEF Cutover, Shut
  <2> QED
    BY <1>1, <1>2, <2>1, <2>3, <2>4, <2>5 DEF Cutover, Behind, Unseen, OfLast,
       Prepared, AdmittedByItsGeneration, NothingUnderABurnedGeneration
<1> QED
  BY <1>3, <1>4, <1>5, <1>6, <1>7 DEF Acceptor

LEMMA ConnectCutover ==
  ASSUME Cutover, TypesOK', NEW c \in Client, Connect(c)
  PROVE  Cutover'
<1>1. /\ UNCHANGED <<life, listening, gate, ack, hold, acceptor, gen, op, took, burned>>
      /\ \A x \in Client \ {c} : phase'[x] = phase[x]
      /\ phase[c] = "new" /\ phase'[c] = "backlog" /\ listening
  BY DEF Connect, Become, Cutover, TypesOK
<1>2. Streams' = Streams
  BY <1>1 DEF Streams
<1>3. Snapped' /\ TakenForActive' /\ Shut'
  BY <1>1, <1>2 DEF Cutover, Snapped, TakenForActive, Shut
<1> QED
  BY <1>1, <1>2, <1>3 DEF Cutover, GateOfLast, Behind, Unseen, OfLast, Prepared,
     AdmittedByItsGeneration, NothingUnderABurnedGeneration

\* Starting, and disarming.
LEMMA AsideCutover ==
  ASSUME Cutover, TypesOK', Start \/ Disarm \/ Disarming
  PROVE  Cutover'
<1>1. UNCHANGED <<gate, ack, phase, gen, op, took, burned>>
  BY DEF Start, Disarm, Disarming, DisarmSnapshot, DisarmWake
<1>2. Streams' = Streams
  BY <1>1 DEF Streams
<1>3. CASE Start
  <2>1. /\ life = "new" /\ life' = "running" /\ listening' = TRUE
        /\ acceptor.at = "none" /\ acceptor'.at = "top"
    BY <1>3 DEF Start, NoSnapshot, Cutover, Shut
  <2>2. Snapped' /\ TakenForActive' /\ Shut'
    BY <1>1, <1>2, <2>1 DEF Cutover, Snapped, TakenForActive, Shut
  <2> QED
    BY <1>1, <1>2, <2>2 DEF Cutover, GateOfLast, Behind, Unseen, OfLast, Prepared,
       AdmittedByItsGeneration, NothingUnderABurnedGeneration
<1>4. CASE Disarm \/ Disarming
  <2>1. UNCHANGED <<life, listening, acceptor>>
    BY <1>4 DEF Disarm, Disarming, DisarmSnapshot, DisarmWake
  <2> QED
    BY <1>1, <1>2, <2>1 DEF Cutover, GateOfLast, Behind, Unseen, Snapped, TakenForActive, OfLast,
       Shut, Prepared, AdmittedByItsGeneration, NothingUnderABurnedGeneration
<1> QED
  BY <1>3, <1>4

-----------------------------------------------------------------------------
(* The callers *)

\* What follows when the connections and the accept thread stay where they are, the
\* gate moves to a new epoch, and the caller goes on to a stage it may be in.
LEMMA MovedGate ==
  ASSUME Cutover, TypesOK', epoch' = epoch + 1,
         UNCHANGED <<observed, acceptor, phase, gen, took>>
  PROVE  /\ Streams' = Streams
         /\ Snapped' /\ TakenForActive' /\ AdmittedByItsGeneration'
<1>1. Streams' = Streams
  BY DEF Streams
<1>2. acceptor.at = "taken" => acceptor.epoch <= epoch
  BY DEF Cutover, Snapped, TypesOK
<1>3. TakenForActive'
  BY <1>2 DEF TakenForActive, Cutover, TypesOK
<1> QED
  BY <1>1, <1>3 DEF Cutover, Snapped, AdmittedByItsGeneration

LEMMA BeginCutover ==
  ASSUME Cutover, TypesOK', Begin
  PROVE  Cutover'
<1>1. /\ UNCHANGED <<listening, acceptor, phase, gen, took, last, observed, burned>>
      /\ Streams' = Streams
  BY BeginFrame DEF Streams
<1>2. ASSUME accepting' = FALSE, active' = 0, epoch' = epoch + 1, op'.waits = Streams,
             op'.at \in {"streams", "listener"}, op'.at = "listener" => op'.kind = "close",
             op'.kind \in {"commit", "quiesce"} => op'.at = "streams",
             op'.kind = "commit" => op'.gen > last,
             op'.kind = "quiesce" => op'.gen # 0 /\ op'.gen = last /\ op'.gen \notin burned,
             op'.kind = "close" => life' = "closing",
             op'.kind = "close" /\ op'.at = "streams" => ~listening,
             op'.kind # "close" => life' = life, life \notin {"closed", "new"} \/ op'.kind = "close"
      PROVE  Cutover'
  <2>1. Snapped' /\ TakenForActive' /\ AdmittedByItsGeneration'
    BY <1>1, <1>2, MovedGate
  <2>2. GateOfLast' /\ Stages' /\ OfLast' /\ Prepared' /\ NothingUnderABurnedGeneration'
    BY <1>1, <1>2 DEF Cutover, GateOfLast, OfLast, Prepared, NothingUnderABurnedGeneration
  <2>3. Behind' /\ Unseen'
    BY <1>1, <1>2 DEF Cutover, Behind, Unseen
  <2>4. Shut'
    BY <1>1, <1>2 DEF Cutover, Shut
  <2> QED
    BY <2>1, <2>2, <2>3, <2>4 DEF Cutover
<1>3. ASSUME UNCHANGED life, accepting' = accepting, active' = active, active # 0,
             op'.kind = "reopen" => op'.gen = active,
             \/ epoch' = epoch /\ op'.kind = "reopen" /\ op'.at = "observe"
             \/ epoch' = epoch /\ op'.kind = "arm" /\ op'.at = "hold"
             \/ epoch' = epoch + 1 /\ op'.kind = "reopen" /\ op'.at = "backlog" /\ ~accepting
      PROVE  Cutover'
  <2>1. Snapped' /\ TakenForActive' /\ AdmittedByItsGeneration'
    <3>1. CASE epoch' = epoch
      BY <1>1, <3>1, <1>3 DEF Cutover, Snapped, TakenForActive, AdmittedByItsGeneration
    <3>2. CASE epoch' = epoch + 1
      BY <1>1, <3>2, MovedGate
    <3> QED
      BY <1>3, <3>1, <3>2
  <2>2. GateOfLast' /\ Stages' /\ OfLast' /\ Prepared' /\ NothingUnderABurnedGeneration'
    BY <1>1, <1>3 DEF Cutover, GateOfLast, OfLast, Prepared, NothingUnderABurnedGeneration
  <2>3. Behind' /\ Unseen'
    BY <1>1, <1>3 DEF Cutover, Behind, Unseen, GateOfLast
  <2>4. Shut'
    BY <1>1, <1>3 DEF Cutover, Shut
  <2> QED
    BY <2>1, <2>2, <2>3, <2>4 DEF Cutover
<1> USE DEF Call, CallStep, CloseGate
<1>4. ASSUME NEW g \in Generation, Commit(g) PROVE Cutover'
  BY <1>2, <1>4 DEF Commit
<1>5. CASE Drain
  BY <1>2, <1>5 DEF Drain
<1>6. CASE RevokeAll
  BY <1>2, <1>6 DEF RevokeAll
<1>7. CASE Close
  BY <1>2, <1>7 DEF Close
<1>8. CASE Quiesce
  BY <1>2, <1>8 DEF Quiesce, Cutover, GateOfLast
<1>9. CASE Arm
  BY <1>3, <1>9 DEF Arm
<1>10. CASE ReopenOpened
  BY <1>3, <1>10 DEF ReopenOpened
<1>11. CASE Reopen
  BY <1>3, <1>11 DEF Reopen
<1> QED
  BY <1>4, <1>5, <1>6, <1>7, <1>8, <1>9, <1>10, <1>11 DEF Begin

LEMMA ProceedCutover ==
  ASSUME Cutover, TypesOK', Proceed
  PROVE  Cutover'
<1>1. UNCHANGED <<acceptor, gen, took, observed, burned>>
  BY ProceedFrame DEF Cutover
<1>2. ASSUME UNCHANGED <<life, listening, phase, gate>>,
             \/ op' = NoOp
             \/ /\ op'.at = op.at /\ op'.kind = op.kind /\ op'.gen = op.gen /\ op'.epoch = op.epoch
                /\ op'.waits = op.waits
      PROVE  Cutover'
  <2>1. Streams' = Streams
    BY <1>2 DEF Streams
  <2>2. Behind' /\ Unseen' /\ Stages'
    BY <1>1, <1>2, <2>1 DEF Cutover, Behind, Unseen
  <2> QED
    BY <1>1, <1>2, <2>1, <2>2 DEF Cutover, GateOfLast, Snapped, TakenForActive, OfLast, Shut,
       Prepared, AdmittedByItsGeneration, NothingUnderABurnedGeneration
<1> USE DEF CallStep, Return
<1>3. ASSUME NEW c \in Client, Revoke(c) PROVE Cutover'
  BY <1>2, <1>3 DEF Revoke, Cutover, TypesOK, Calls
<1>4. CASE Wake
  BY <1>2, <1>4 DEF Wake, Cutover, TypesOK, Calls
<1>5. CASE Observed \/ Drained \/ Armed
  BY <1>2, <1>5 DEF Observed, Drained, Armed
<1>6. ASSUME OpenGate(op.gen, opener'), UNCHANGED <<life, phase, listening>>, Streams = {}, op'.kind = op.kind,
             op'.gen = op.gen, op'.at = "observe", op'.epoch = epoch', last' = op.gen,
             op.gen # 0, op.gen \notin burned, op.gen >= last,
             \/ op.kind = "commit" /\ op.gen > last
             \/ op.kind = "reopen"
      PROVE  Cutover'
  <2>1. Streams' = {} /\ Snapped' /\ TakenForActive' /\ AdmittedByItsGeneration'
    BY <1>1, <1>6, MovedGate DEF OpenGate
  <2>2. GateOfLast' /\ OfLast' /\ Prepared' /\ NothingUnderABurnedGeneration'
    BY <1>1, <1>6, <2>1 DEF OpenGate, Cutover, GateOfLast, OfLast, Prepared,
       NothingUnderABurnedGeneration, TypesOK
  <2>3. Behind' /\ Stages'
    BY <1>6 DEF Behind
  <2>4. Unseen'
    BY <1>1, <1>6 DEF Unseen, Cutover, OfLast, TypesOK, Calls
  <2>5. Shut'
    BY <1>1, <1>6, <2>1 DEF Cutover, Shut
  <2> QED
    BY <2>1, <2>2, <2>3, <2>4, <2>5 DEF Cutover
<1>7. Stopped /\ Streams \subseteq op.waits => Streams = {}
  BY DEF Stopped, Streams
<1>8. CASE Publish
  <2>1. op.kind = "commit" /\ op.at = "streams" /\ op.gen > last /\ Streams = {}
    BY <1>7, <1>8 DEF Publish, Stopped, Cutover, Behind
  <2>2. op.gen # 0 /\ op.gen \notin burned /\ op.gen >= last
    BY <2>1 DEF Cutover, GateOfLast, TypesOK, Calls
  <2> QED
    BY <1>6, <1>8, <2>1, <2>2 DEF Publish, OpenGate, Cutover, TypesOK, Calls
<1>9. CASE Reopened
  <2>1. /\ op.at = "backlog" /\ op.kind = "reopen" /\ op.gen # 0 /\ op.gen = last
        /\ op.gen \notin burned /\ ~accepting /\ active = op.gen
    BY <1>9 DEF Reopened, Cutover, Behind
  <2>2. Streams = {} /\ op.gen >= last
    BY <2>1 DEF Cutover, Prepared, TypesOK
  <2>3. op' = [op EXCEPT !.at = "observe", !.epoch = epoch'] /\ last' = last
    BY <1>9 DEF Reopened
  <2> QED
    BY <1>6, <1>9, <2>1, <2>2, <2>3 DEF Reopened, OpenGate, Cutover, TypesOK, Calls
<1>10. CASE CloseListener
  <2>1. /\ UNCHANGED <<life, gate>> /\ listening' = FALSE /\ op.at = "listener"
        /\ op'.at = "streams" /\ op'.kind = op.kind /\ op'.waits = op.waits /\ op.kind = "close"
        /\ \A x \in Client : phase'[x] = IF phase[x] = "backlog" THEN "rejected" ELSE phase[x]
    BY <1>10 DEF CloseListener, Cutover, TypesOK, Calls
  <2>2. Streams' = Streams
    BY <2>1 DEF Streams
  <2>3. Snapped' /\ TakenForActive' /\ Shut'
    BY <1>1, <2>1, <2>2 DEF Cutover, Snapped, TakenForActive, Shut
  <2> QED
    BY <1>1, <2>1, <2>2, <2>3 DEF Cutover, GateOfLast, Behind, Unseen, OfLast,
       Prepared, AdmittedByItsGeneration, NothingUnderABurnedGeneration
<1>11. CASE Closed
  <2>1. /\ UNCHANGED <<listening, phase, gate>> /\ op' = NoOp /\ op.kind = "close" /\ op.at = "streams"
        /\ acceptor.at \in {"none", "stopped"}
        /\ (life' = "closed" /\ Streams = {}) \/ life' = life
    BY <1>11 DEF Closed, Stopped
  <2>2. Streams' = Streams /\ active = 0 /\ ~listening /\ life = "closing"
    BY <2>1 DEF Streams, Cutover, Behind, Shut
  <2> QED
    BY <1>1, <2>1, <2>2 DEF Cutover, GateOfLast, Behind, Unseen, Snapped, TakenForActive, OfLast,
       Shut, Prepared, AdmittedByItsGeneration, NothingUnderABurnedGeneration
<1>12. CASE Quiesced
  <2>1. /\ UNCHANGED <<life, listening, phase, accepting, last, epoch>> /\ op' = NoOp
        /\ active' = op.gen /\ op.kind = "quiesce" /\ op.at = "streams" /\ Streams = {}
    BY <1>12 DEF Quiesced, Stopped
  <2>2. Streams' = {} /\ ~accepting /\ op.gen # 0 /\ op.gen = last /\ op.gen \notin burned
    BY <2>1 DEF Streams, Cutover, Behind
  <2> QED
    BY <1>1, <2>1, <2>2 DEF Cutover, GateOfLast, Behind, Unseen, Snapped, TakenForActive, OfLast,
       Shut, Prepared, AdmittedByItsGeneration, NothingUnderABurnedGeneration
<1> QED
  BY <1>3, <1>4, <1>5, <1>8, <1>9, <1>10, <1>11, <1>12 DEF Proceed

LEMMA DeadlineCutover ==
  ASSUME Cutover, TypesOK', Deadline
  PROVE  Cutover'
<1>1. /\ UNCHANGED <<life, listening, acceptor, phase, gen, took, observed>> /\ op' = NoOp
      /\ Streams' = Streams
  BY DEF Deadline, CallStep, Return, Streams
<1>2. CASE UNCHANGED <<gate, burned>>
  BY <1>1, <1>2 DEF Cutover, GateOfLast, Behind, Unseen, Snapped, TakenForActive, OfLast,
     Shut, Prepared, AdmittedByItsGeneration, NothingUnderABurnedGeneration
<1>3. CASE /\ op.at = "observe" /\ op.kind = "commit" /\ observed # op.epoch
           /\ CloseGate /\ burned' = burned \cup {op.gen}
  <2>1. accepting' = FALSE /\ active' = 0 /\ last' = last /\ epoch' = epoch + 1
    BY <1>3 DEF CloseGate
  <2>2. op.gen = last /\ \A c \in Client : gen[c] # last
    BY <1>3 DEF Cutover, Unseen
  <2>3. Snapped' /\ TakenForActive' /\ AdmittedByItsGeneration'
    BY <1>1, <2>1, MovedGate
  <2>4. GateOfLast' /\ NothingUnderABurnedGeneration'
    BY <1>1, <1>3, <2>1, <2>2 DEF Cutover, GateOfLast, NothingUnderABurnedGeneration, TypesOK
  <2> QED
    BY <1>1, <2>1, <2>3, <2>4 DEF Cutover, Behind, Unseen, OfLast, Shut, Prepared
<1> QED
  BY <1>2, <1>3 DEF Deadline, DeadlinePasses

-----------------------------------------------------------------------------
LEMMA NextCutover == Cutover /\ [Next]_vars => Cutover'
<1> SUFFICES ASSUME Cutover, [Next]_vars PROVE Cutover'
  OBVIOUS
<1>1. TypesOK'
  BY NextTypes DEF Cutover
<1>2. CASE UNCHANGED vars
  <2>1. Streams' = Streams
    BY <1>2 DEF Streams
  <2> QED
    BY <1>1, <1>2, <2>1 DEF Cutover, GateOfLast, Behind, Unseen, Snapped, TakenForActive, OfLast,
       Shut, Prepared, AdmittedByItsGeneration, NothingUnderABurnedGeneration
<1> QED
  BY <1>1, <1>2, WorkerCutover, AcceptorCutover, AsideCutover, BeginCutover,
     ProceedCutover, ConnectCutover, DeadlineCutover DEF Next

LEMMA CutoverAlways == Spec => []Cutover
  BY InitCutover, NextCutover, PTL DEF Spec

\* commit_generation, qualification_quiesce and qualification_reopen never leave a stream
\* of an earlier generation behind an open gate, whatever timed out before them.
THEOREM OneGenerationAlways == Spec => []OneGeneration
<1>1. Cutover => OneGeneration
  BY DEF Cutover, OneGeneration, OfLast, GateOfLast
<1> QED
  BY <1>1, CutoverAlways, PTL

\* The accept loop admits a connection to the generation whose gate was open when
\* accept() returned it.
THEOREM AdmittedByItsGenerationAlways == Spec => []AdmittedByItsGeneration
<1>1. Cutover => AdmittedByItsGeneration
  BY DEF Cutover
<1> QED
  BY <1>1, CutoverAlways, PTL

\* A commit_generation that takes its publication back has let nobody in.
THEOREM NothingUnderABurnedGenerationAlways == Spec => []NothingUnderABurnedGeneration
<1>1. Cutover => NothingUnderABurnedGeneration
  BY DEF Cutover
<1> QED
  BY <1>1, CutoverAlways, PTL

\* After qualification_quiesce and close have returned there is no stream, and after
\* close nobody to make one.
THEOREM ClosedMeansQuietAlways == Spec => []ClosedMeansQuiet
<1>1. Cutover => ClosedMeansQuiet
  BY DEF Cutover, ClosedMeansQuiet, Prepared, Shut, Snapped
<1> QED
  BY <1>1, CutoverAlways, PTL

-----------------------------------------------------------------------------
(* The frontend as a gate.                                                 *)

LEMMA GateStep ==
  ASSUME Cutover, Cutover', [Next]_vars
  PROVE  [Gate!GateNext]_(Gate!gateVars)
<1> DEFINE Stutters == UNCHANGED <<accepting, active, last>>
<1>1. active \in Nat /\ last \in Nat /\ op \in Calls /\ accepting \in BOOLEAN
      /\ (accepting => active # 0) /\ (active # 0 => active = last)
  BY DEF Cutover, TypesOK, GateOfLast
<1>2. CASE Stutters
  BY <1>2 DEF Gate!gateVars, OpenGeneration
<1>3. ASSUME CloseGate PROVE [Gate!GateNext]_(Gate!gateVars)
  BY <1>1, <1>3 DEF CloseGate, Gate!gateVars, Gate!GateNext, Gate!Shut, OpenGeneration
<1>4. CASE ~accepting /\ ~accepting' /\ last' = last
  BY <1>4 DEF Gate!gateVars, OpenGeneration
<1>5. ASSUME ~accepting, accepting', active' # 0, active' \in Nat, active' >= last, last' = active'
      PROVE  [Gate!GateNext]_(Gate!gateVars)
  BY <1>5 DEF Gate!GateNext, Gate!Open, OpenGeneration
<1>6. CASE Begin
  <2>1. CASE (\E g \in Generation : Commit(g)) \/ Drain \/ RevokeAll \/ Close
    BY <1>3, <2>1 DEF Commit, Drain, RevokeAll, Close
  <2>2. CASE Quiesce
    <3>1. accepting' = FALSE /\ active' = 0 /\ last' = last
      BY <2>2 DEF Quiesce
    <3> QED
      BY <1>1, <3>1 DEF Gate!gateVars, Gate!GateNext, Gate!Shut, OpenGeneration
  <2>3. CASE Arm \/ ReopenOpened \/ Reopen
    BY <1>2, <2>3 DEF Arm, ReopenOpened, Reopen
  <2> QED
    BY <1>6, <2>1, <2>2, <2>3 DEF Begin
<1>7. CASE Proceed
  <2>1. CASE Publish
    <3>1. op.kind = "commit" /\ op.at = "streams"
      BY <2>1 DEF Publish, Stopped
    <3>2. ~accepting /\ op.gen > last /\ op.gen \in Nat
      BY <1>1, <3>1 DEF Cutover, Behind, Calls
    <3>3. accepting' /\ active' = op.gen /\ last' = op.gen
      BY <2>1 DEF Publish, OpenGate
    <3> QED
      BY <1>1, <1>5, <3>2, <3>3
  <2>2. CASE Reopened
    <3>1. op.at = "backlog"
      BY <2>2 DEF Reopened
    <3>2. ~accepting /\ op.gen # 0 /\ op.gen = last
      BY <3>1 DEF Cutover, Behind
    <3>3. accepting' /\ active' = op.gen /\ last' = last
      BY <2>2 DEF Reopened, OpenGate
    <3> QED
      BY <1>1, <1>5, <3>2, <3>3
  <2>3. CASE Quiesced
    <3>1. op.at = "streams" /\ accepting' = accepting /\ last' = last
      BY <2>3 DEF Quiesced, Stopped
    <3> QED
      BY <1>4, <3>1 DEF Cutover, Behind
  <2>4. CASE (\E c \in Client : Revoke(c)) \/ Wake \/ Observed \/ Drained \/ CloseListener
             \/ Closed \/ Armed
    BY <1>2, <2>4 DEF Revoke, Wake, Observed, Drained, CloseListener, Closed, Armed
  <2> QED
    BY <1>7, <2>1, <2>2, <2>3, <2>4 DEF Proceed
<1>8. CASE Deadline
  BY <1>2, <1>3, <1>8 DEF Deadline, DeadlinePasses
<1>9. CASE Acceptor
  BY <1>2, <1>9 DEF Acceptor, Observe, TimeOut, AcceptFails, Idle, Take, Admit, Reject, Decide,
     AcceptStep
<1>10. CASE \E c \in Client : Worker(c)
  <2>1. Stutters
    BY <1>10, WorkerFrame DEF Cutover
  <2> QED
    BY <1>2, <2>1
<1>11. CASE Start \/ Disarm \/ Disarming \/ (\E c \in Client : Connect(c)) \/ UNCHANGED vars
  BY <1>2, <1>11 DEF Start, Disarm, Disarming, DisarmSnapshot, DisarmWake, Connect
<1> QED
  BY <1>6, <1>7, <1>8, <1>9, <1>10, <1>11 DEF Next

\* The frontend implements GenerationGate, which SharedRoute and with it the supervisor
\* are built on: one generation at a time, shut in between, and none after a later one.
THEOREM FrontendImplementsGate == Spec => ImplementsGate
<1>1. Init => Gate!GateInit
  BY DEF Init, Gate!GateInit, OpenGeneration
<1>2. Cutover /\ Cutover' /\ [Next]_vars => [Gate!GateNext]_(Gate!gateVars)
  BY GateStep
<1> QED
  BY <1>1, <1>2, CutoverAlways, PTL DEF Spec, ImplementsGate, Gate!GateSpec

-----------------------------------------------------------------------------
(* A gate that qualification_reopen opens lets in no connection older than   *)
(* its last look at the backlog: Emptied is the invariant behind it. Whenever *)
(* the accept thread has found the backlog empty under the present epoch,     *)
(* nothing has waited since before that epoch.                                *)

\* Nothing that waits for the accept thread, or that it holds, connected before the
\* gate had that epoch.
WaitingSince(e) ==
    \A c \in Client : phase[c] \in {"backlog", "taken"} => met[c].epoch >= e

Emptied ==
    /\ \A c \in Client : met[c].epoch <= epoch
    /\ idle.since => idle.epoch <= epoch
    /\ acceptor.at = "idle" /\ acceptor.epoch = epoch => WaitingSince(epoch)
    /\ idle.since /\ idle.epoch = epoch => WaitingSince(epoch)
    /\ acceptor.epoch <= epoch
    /\ op.at = "backlog" => op.epoch = epoch
    /\ accepting /\ opener = "reopen" => WaitingSince(epoch - 1)

USE DEF Unmet
HIDE DEF Stages

\* At first nobody has connected.
LEMMA InitEmptied == Init => Emptied
  BY DEF Init, Emptied, WaitingSince, NoSnapshot

\* Whoever waits has not come to wait in this step, or has only just connected.
LEMMA WaitingFrame ==
  ASSUME TypesOK, [Next]_vars, NEW e \in Int, e <= epoch
  PROVE  WaitingSince(e) => WaitingSince(e)'
<1>1. CASE UNCHANGED <<phase, met>>
  BY <1>1 DEF WaitingSince
<1>2. ASSUME NEW c \in Client, Worker(c) PROVE WaitingSince(e) => WaitingSince(e)'
  BY <1>2, WorkerFrame DEF WaitingSince
<1>3. CASE Proceed
  <2>1. CASE CloseListener
    BY <2>1 DEF CloseListener, WaitingSince, TypesOK
  <2>2. CASE ~CloseListener
    BY <1>3, <1>1, <2>2 DEF Proceed, Revoke, Wake, Publish, Observed, Drained, Closed, Armed,
       Quiesced, Reopened, CallStep
  <2> QED
    BY <2>1, <2>2
<1>4. CASE Acceptor
  <2>1. CASE Observe \/ TimeOut \/ AcceptFails \/ Idle
    BY <2>1, <1>1 DEF Observe, TimeOut, AcceptFails, Idle
  <2>2. ASSUME NEW c \in Client, Take(c) \/ Reject(c) \/ Admit(c)
        PROVE  WaitingSince(e) => WaitingSince(e)'
    BY <2>2 DEF Take, Reject, Admit, Decide, Become, WaitingSince, TypesOK
  <2> QED
    BY <1>4, <2>1, <2>2 DEF Acceptor
<1>5. ASSUME NEW c \in Client, Connect(c) PROVE WaitingSince(e) => WaitingSince(e)'
  BY <1>5 DEF Connect, Become, WaitingSince, TypesOK
<1>6. CASE Begin
  BY <1>6, <1>1, BeginFrame
<1>7. CASE Start \/ Deadline \/ Disarm \/ Disarming \/ UNCHANGED vars
  BY <1>7, <1>1 DEF Start, Deadline, CallStep, Disarm, Disarming, DisarmSnapshot, DisarmWake
<1> QED
  BY <1>2, <1>3, <1>4, <1>5, <1>6, <1>7 DEF Next

\* While the gate does not move, it is enough that whoever says the backlog was empty
\* under its present epoch said so before, or has just seen it.
LEMMA StillGate ==
  ASSUME TypesOK, TypesOK', Emptied, [Next]_vars, UNCHANGED <<epoch, accepting, opener>>,
         \A c \in Client : met'[c] = met[c] \/ met'[c].epoch <= epoch,
         acceptor'.epoch <= epoch,
         idle' = idle \/ (idle'.since => idle'.epoch <= epoch),
         /\ acceptor'.at = "idle" /\ acceptor'.epoch = epoch
               => acceptor' = acceptor \/ WaitingSince(epoch)
         /\ idle'.since /\ idle'.epoch = epoch => idle' = idle \/ WaitingSince(epoch),
         op'.at = "backlog" => op'.at = op.at /\ op'.epoch = op.epoch
  PROVE  Emptied'
<1>1. WaitingSince(epoch) => WaitingSince(epoch)'
  BY WaitingFrame DEF TypesOK
<1>2. WaitingSince(epoch - 1) => WaitingSince(epoch - 1)'
  BY WaitingFrame DEF TypesOK
<1> QED
  BY <1>1, <1>2 DEF Emptied, WaitingSince

\* When it moves it is enough that nobody has opened it for a reopen, unless the
\* backlog was found empty before.
LEMMA MovedGateEmptied ==
  ASSUME TypesOK, TypesOK', Emptied, epoch' = epoch + 1,
         UNCHANGED <<acceptor, phase, met>>,
         idle' = idle \/ ~idle'.since,
         accepting' => opener' = "commit" \/ WaitingSince(epoch),
         op'.at = "backlog" => op'.epoch = epoch'
  PROVE  Emptied'
<1>1. idle'.since => idle'.epoch <= epoch /\ idle.epoch \in Nat
  BY DEF Emptied, TypesOK
<1>2. acceptor.epoch <= epoch /\ acceptor.epoch \in Nat /\ epoch \in Nat
  BY DEF Emptied, TypesOK, Snapshot
<1>3. \A c \in Client : met'[c].epoch <= epoch'
  BY DEF Emptied, TypesOK
<1>4. idle'.since => idle'.epoch # epoch'
  BY <1>1, <1>2 DEF TypesOK
<1>5. accepting' /\ opener' = "reopen" => WaitingSince(epoch - 1)'
  <2>1. epoch' - 1 = epoch
    BY <1>2
  <2> QED
    BY <2>1 DEF WaitingSince
<1> QED
  BY <1>1, <1>2, <1>3, <1>4, <1>5 DEF Emptied, TypesOK

LEMMA AcceptorEmptied ==
  ASSUME TypesOK, TypesOK', Emptied, Snapped, Acceptor
  PROVE  Emptied'
<1>1. UNCHANGED <<life, listening, gate, hold, workers, op, disarm, burned, transitions>>
      /\ [Next]_vars
  BY AcceptorFrame DEF Next
<1>2. CASE Observe
  BY <1>1, <1>2, StillGate DEF Observe, TypesOK
<1>3. CASE TimeOut
  <2>1. WaitingSince(epoch)
    BY <1>3 DEF TimeOut, WaitingSince, Snapped
  <2>2. acceptor'.epoch = acceptor.epoch /\ UNCHANGED <<idle, met>>
    BY <1>3 DEF TimeOut, TypesOK, Snapshot
  <2> QED
    BY <1>1, <2>1, <2>2, StillGate DEF Emptied
<1>4. CASE AcceptFails
  <2>1. /\ acceptor'.epoch \in {0, acceptor.epoch} /\ acceptor'.at \in {"top", "stopped"}
        /\ UNCHANGED <<idle, met>>
    BY <1>4 DEF AcceptFails, NoSnapshot, TypesOK, Snapshot
  <2> QED
    BY <1>1, <2>1, StillGate DEF Emptied, TypesOK
<1>5. CASE Idle
  <2>1. acceptor'.epoch = 0 /\ acceptor'.at = "top" /\ UNCHANGED met /\ acceptor.at = "idle"
        /\ (idle' = idle \/ idle'.epoch = acceptor.epoch)
    BY <1>5 DEF Idle, NoSnapshot
  <2> QED
    BY <1>1, <2>1, StillGate DEF Emptied, TypesOK
<1>6. ASSUME NEW c \in Client, Take(c) PROVE Emptied'
  <2>1. acceptor'.epoch = acceptor.epoch /\ acceptor'.at = "taken" /\ UNCHANGED <<idle, met>>
    BY <1>6 DEF Take, TypesOK, Snapshot
  <2> QED
    BY <1>1, <2>1, StillGate DEF Emptied
<1>7. ASSUME NEW c \in Client, Admit(c) \/ Reject(c) PROVE Emptied'
  <2>1. acceptor'.epoch = 0 /\ acceptor'.at = "top" /\ UNCHANGED idle
        /\ \A x \in Client : met'[x] = met[x] \/ met'[x].epoch = 0
    BY <1>7 DEF Admit, Reject, Decide, NoSnapshot, TypesOK
  <2> QED
    BY <1>1, <2>1, StillGate DEF TypesOK
<1> QED
  BY <1>2, <1>3, <1>4, <1>5, <1>6, <1>7 DEF Acceptor

LEMMA BeginEmptied ==
  ASSUME TypesOK, TypesOK', Emptied, Begin
  PROVE  Emptied'
<1>1. UNCHANGED <<acceptor, phase, met>> /\ [Next]_vars
  BY BeginFrame DEF Next
<1> USE DEF Call
<1>2. CASE (\E g \in Generation : Commit(g)) \/ Drain \/ RevokeAll \/ Close
  <2>1. CloseGate /\ UNCHANGED idle /\ op'.at # "backlog"
    BY <1>2 DEF Commit, Drain, RevokeAll, Close
  <2> QED
    BY <1>1, <2>1, MovedGateEmptied DEF CloseGate
<1>3. CASE Arm \/ ReopenOpened
  <2>1. UNCHANGED <<gate, idle>> /\ op'.at # "backlog"
    BY <1>3 DEF Arm, ReopenOpened
  <2> QED
    BY <1>1, <2>1, StillGate DEF Emptied
<1>4. CASE Quiesce
  <2>1. epoch' = epoch + 1 /\ ~accepting' /\ ~idle'.since /\ op'.at # "backlog"
    BY <1>4 DEF Quiesce
  <2> QED
    BY <1>1, <2>1, MovedGateEmptied
<1>5. CASE Reopen
  <2>1. epoch' = epoch + 1 /\ ~accepting' /\ ~idle'.since /\ op'.epoch = epoch'
    BY <1>5 DEF Reopen
  <2> QED
    BY <1>1, <2>1, MovedGateEmptied
<1> QED
  BY <1>2, <1>3, <1>4, <1>5 DEF Begin

LEMMA ProceedEmptied ==
  ASSUME TypesOK, TypesOK', Emptied, Proceed
  PROVE  Emptied'
<1> USE DEF CallStep, Return
<1>1. CASE Publish
  <2>1. op'.at = "observe"
    BY <1>1 DEF Publish, TypesOK, Calls
  <2> QED
    BY <1>1, <2>1, MovedGateEmptied DEF Publish, OpenGate
<1>2. CASE Reopened
  <2>1. op'.at = "observe" /\ UNCHANGED <<acceptor, phase, met, idle>> /\ epoch' = epoch + 1
    BY <1>2 DEF Reopened, OpenGate, TypesOK, Calls
  <2>2. WaitingSince(epoch)
    BY <1>2 DEF Reopened, BacklogEmptied, Emptied
  <2> QED
    BY <2>1, <2>2, MovedGateEmptied
<1>3. CASE CloseListener
  <2>1. op'.at = "streams" /\ UNCHANGED <<gate, acceptor, idle>>
        /\ \A x \in Client : met'[x] = met[x] \/ met'[x].epoch = 0
    BY <1>3 DEF CloseListener, TypesOK, Calls
  <2> QED
    BY <2>1, StillGate DEF Emptied, TypesOK, Next
<1>4. CASE (\E c \in Client : Revoke(c)) \/ Wake
  <2>1. UNCHANGED <<gate, acceptor, idle, met>>
    BY <1>4 DEF Revoke, Wake, gate, ack
  <2>2. op'.at = op.at /\ op'.epoch = op.epoch
    <3>1. op \in Calls
      BY DEF TypesOK
    <3>2. CASE \E c \in Client : Revoke(c)
      BY <3>1, <3>2 DEF Revoke, Calls
    <3>3. CASE Wake
      BY <3>1, <3>3 DEF Wake, Calls
    <3> QED
      BY <1>4, <3>2, <3>3
  <2> QED
    BY <1>4, <2>1, <2>2, StillGate DEF Emptied, Next
<1>5. CASE Observed \/ Drained \/ Closed \/ Armed \/ Quiesced
  <2>1. UNCHANGED <<epoch, accepting, opener, acceptor, idle, met>> /\ op' = NoOp
    BY <1>5 DEF Observed, Drained, Closed, Armed, Quiesced
  <2> QED
    BY <2>1, StillGate DEF Emptied, Next
<1> QED
  BY <1>1, <1>2, <1>3, <1>4, <1>5 DEF Proceed

LEMMA RestEmptied ==
  ASSUME TypesOK, TypesOK', Emptied,
         \/ Start \/ Deadline \/ Disarm \/ Disarming
         \/ \E c \in Client : Connect(c) \/ Worker(c)
  PROVE  Emptied'
<1>1. CASE Start
  <2>1. UNCHANGED <<gate, idle, op, met>> /\ acceptor'.epoch = 0 /\ acceptor'.at = "top"
    BY <1>1 DEF Start, NoSnapshot
  <2> QED
    BY <1>1, <2>1, StillGate DEF Emptied, TypesOK, Next
<1>2. CASE Deadline
  <2>1. UNCHANGED <<acceptor, phase, idle, met>> /\ op' = NoOp
    BY <1>2 DEF Deadline, CallStep, Return
  <2>2. CASE UNCHANGED gate
    BY <1>2, <2>1, <2>2, StillGate DEF Emptied, Next
  <2>3. CASE CloseGate
    BY <2>1, <2>3, MovedGateEmptied DEF CloseGate
  <2> QED
    BY <1>2, <2>2, <2>3 DEF Deadline, DeadlinePasses
<1>3. CASE Disarm \/ Disarming
  <2>1. UNCHANGED <<gate, acceptor, idle, op, met>>
    BY <1>3 DEF Disarm, Disarming, DisarmSnapshot, DisarmWake
  <2> QED
    BY <1>3, <2>1, StillGate DEF Emptied, Next
<1>4. ASSUME NEW c \in Client, Connect(c) PROVE Emptied'
  <2>1. UNCHANGED <<gate, acceptor, idle, op>>
        /\ \A x \in Client : met'[x] = met[x] \/ met'[x].epoch = epoch
    BY <1>4 DEF Connect, TypesOK
  <2> QED
    BY <1>4, <2>1, StillGate DEF Emptied, TypesOK, Next
<1>5. ASSUME NEW c \in Client, Worker(c) PROVE Emptied'
  <2>1. UNCHANGED <<gate, acceptor, idle, op, met>>
    BY <1>5, WorkerFrame
  <2> QED
    BY <1>5, <2>1, StillGate DEF Emptied, Next
<1> QED
  BY <1>1, <1>2, <1>3, <1>4, <1>5

LEMMA NextEmptied == Cutover /\ Emptied /\ [Next]_vars => Emptied'
<1> SUFFICES ASSUME Cutover, Emptied, [Next]_vars PROVE Emptied'
  OBVIOUS
<1>1. TypesOK /\ TypesOK' /\ Snapped
  BY NextTypes DEF Cutover
<1>2. CASE UNCHANGED vars
  BY <1>2 DEF Emptied, WaitingSince
<1> QED
  BY <1>1, <1>2, AcceptorEmptied, BeginEmptied, ProceedEmptied, RestEmptied DEF Next

\* A connection that the accept loop admits behind a gate opened by qualification_reopen
\* was made after that call had closed the gate for its last look at the backlog.
THEOREM ReopenedGateStaysFresh == Spec => ReopenedGateIsFresh
<1>1. ASSUME Cutover, Emptied, [Next]_vars, NEW c \in Client, Admitted(c), opener = "reopen"
      PROVE  met[c].epoch >= epoch - 1
  <2>1. phase[c] = "taken" /\ phase'[c] = "attach"
    BY <1>1 DEF Admitted
  <2>2. accepting
    <3>1. CASE Acceptor
      <4>1. CASE \E x \in Client : Admit(x)
        BY <4>1 DEF Admit, Admissible
      <4>2. CASE Observe \/ TimeOut \/ AcceptFails \/ Idle
        BY <2>1, <4>2 DEF Observe, TimeOut, AcceptFails, Idle
      <4>3. ASSUME NEW x \in Client, Take(x) \/ Reject(x) PROVE FALSE
        BY <1>1, <2>1, <4>3 DEF Take, Reject, Become, Cutover, TypesOK
      <4> QED
        BY <3>1, <4>1, <4>2, <4>3 DEF Acceptor
    <3>2. CASE UNCHANGED phase
      BY <2>1, <3>2
    <3>3. ASSUME NEW x \in Client, Worker(x) PROVE FALSE
      <4>1. TypesOK
        BY <1>1 DEF Cutover
      <4> QED
        BY <1>1, <2>1, <3>3, <4>1, WorkerFrame
    <3>4. CASE Proceed
      BY <1>1, <2>1, <3>4, ProceedFrame DEF Cutover
    <3>5. CASE \E x \in Client : Connect(x)
      BY <1>1, <2>1, <3>5 DEF Connect, Become, Cutover, TypesOK
    <3>6. CASE Begin
      BY <3>6, <3>2, BeginFrame
    <3>7. CASE Start \/ Deadline \/ Disarm \/ Disarming \/ UNCHANGED vars
      BY <3>7, <3>2 DEF Start, Deadline, CallStep, Disarm, Disarming, DisarmSnapshot, DisarmWake
    <3> QED
      BY <1>1, <3>1, <3>3, <3>4, <3>5, <3>6, <3>7 DEF Next
  <2> QED
    BY <1>1, <2>1, <2>2 DEF Emptied, WaitingSince
<1>2. Cutover /\ Emptied /\ [Next]_vars
        => [\A c \in Client : Admitted(c) /\ opener = "reopen" => met[c].epoch >= epoch - 1]_vars
  BY <1>1
<1>3. Init => Emptied
  BY InitEmptied
<1>4. Cutover /\ Emptied /\ [Next]_vars => Emptied'
  BY NextEmptied
<1> QED
  BY <1>2, <1>3, <1>4, CutoverAlways, PTL DEF Spec, ReopenedGateIsFresh
=============================================================================
