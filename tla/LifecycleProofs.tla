--------------------------- MODULE LifecycleProofs ---------------------------
(***************************************************************************)
(* What holds of Lifecycle for every number of workers and any clients.    *)
(***************************************************************************)
EXTENDS Lifecycle, TLAPS

(***************************************************************************)
(* The workers of a client and of its write exist: this, the answers, the  *)
(* writes and the deployment do not rest on each other.                    *)
(***************************************************************************)
THEOREM TypeCorrectness == Spec => []TypeOK
<1>1. Init => TypeOK
  BY LifecycleAssumption DEF Init, TypeOK, Phases, Connections, Writes, Busy
<1>2. TypeOK /\ [Next]_vars => TypeOK'
  <2> SUFFICES ASSUME TypeOK, [Next]_vars
               PROVE  TypeOK'
    OBVIOUS
  <2> USE LifecycleAssumption DEF TypeOK, Phases, Connections, Writes, Busy, Gone
  <2>1. ASSUME NEW w \in Workers, WorkerStep(w)
        PROVE  TypeOK'
    <3>1. CASE Boot(w)
      BY <3>1 DEF Boot, Become, traffic, writes
    <3>2. CASE Listen(w)
      BY <3>2 DEF Listen, Become, traffic, writes
    <3>3. CASE ListenTimeout(w)
      BY <3>3 DEF ListenTimeout, traffic, writes
    <3>4. CASE Reload(w)
      BY <3>4 DEF Reload, Close, Become, traffic, writes
    <3>5. CASE FilesChange(w)
      BY <3>5 DEF FilesChange, Close, Become, traffic, writes
    <3>6. CASE ServerClosed(w)
      BY <3>6 DEF ServerClosed, Become, traffic, writes
    <3>7. CASE Exit(w)
      BY <3>7 DEF Exit, Become, Lost, traffic
    <3>8. CASE Kill(w)
      BY <3>8 DEF Kill, Become, Lost
    <3>9. QED
      BY <2>1, <3>1, <3>2, <3>3, <3>4, <3>5, <3>6, <3>7, <3>8 DEF WorkerStep
  <2>2. ASSUME NEW c \in Clients, ClientStep(c)
        PROVE  TypeOK'
    <3>1. CASE Connect(c)
      BY <3>1 DEF Connect, pm2, writes
    <3>2. CASE Send(c)
      BY <3>2 DEF Send, pm2, writes
    <3>3. CASE Respond(c)
      BY <3>3 DEF Respond, Disconnect, pm2, writes
    <3>4. CASE Hangup(c)
      BY <3>4 DEF Hangup, Disconnect, pm2, writes
    <3>5. CASE StartWrite(c)
      BY <3>5 DEF StartWrite, pm2, traffic
    <3>6. CASE EndWrite(c)
      BY <3>6 DEF EndWrite, pm2, traffic
    <3>7. QED
      BY <2>2, <3>1, <3>2, <3>3, <3>4, <3>5, <3>6 DEF ClientStep
  <2>3. CASE UNCHANGED vars
    BY <2>3 DEF vars
  <2>4. QED
    BY <2>1, <2>2, <2>3 DEF Next
<1>3. QED
  BY <1>1, <1>2, PTL DEF Spec

----------------------------------------------------------------------------
(***************************************************************************)
(* A worker only ever goes forward: it is closing only after it listened,  *)
(* and draining only when no client is connected to it any more.           *)
(***************************************************************************)
THEOREM AcceptedIsAnswered == Spec => []CloseAnswersAll
<1>1. Init => CloseAnswersAll
  BY DEF Init, CloseAnswersAll, Busy
<1>2. TypeOK /\ TypeOK' /\ CloseAnswersAll /\ [Next]_vars => CloseAnswersAll'
  <2> SUFFICES ASSUME TypeOK, TypeOK', CloseAnswersAll, [Next]_vars
               PROVE  CloseAnswersAll'
    OBVIOUS
  <2> USE DEF TypeOK, CloseAnswersAll, Busy
  <2>1. ASSUME NEW w \in Workers, WorkerStep(w)
        PROVE  CloseAnswersAll'
    <3>1. CASE Boot(w)
      BY <3>1 DEF Boot, Become, traffic, writes
    <3>2. CASE Listen(w)
      BY <3>2 DEF Listen, Become, traffic, writes
    <3>3. CASE ListenTimeout(w)
      BY <3>3 DEF ListenTimeout, traffic, writes
    <3>4. CASE Reload(w)
      BY <3>4 DEF Reload, Close, Become, traffic, writes
    <3>5. CASE FilesChange(w)
      BY <3>5 DEF FilesChange, Close, Become, traffic, writes
    <3>6. CASE ServerClosed(w)
      BY <3>6 DEF ServerClosed, ClientsOf, Become, traffic, writes
    <3>7. CASE Exit(w)
      BY <3>7 DEF Exit, Become, traffic
    <3>8. CASE Kill(w)
      BY <3>8 DEF Kill, Become
    <3>9. QED
      BY <2>1, <3>1, <3>2, <3>3, <3>4, <3>5, <3>6, <3>7, <3>8 DEF WorkerStep
  <2>2. ASSUME NEW c \in Clients, ClientStep(c)
        PROVE  CloseAnswersAll'
    <3>1. CASE Connect(c)
      BY <3>1 DEF Connect, pm2, writes
    <3>2. CASE Send(c)
      BY <3>2 DEF Send, pm2, writes
    <3>3. CASE Respond(c)
      BY <3>3 DEF Respond, Disconnect, pm2
    <3>4. CASE Hangup(c)
      BY <3>4 DEF Hangup, Disconnect, pm2, writes
    <3>5. CASE StartWrite(c)
      BY <3>5 DEF StartWrite, pm2, traffic
    <3>6. CASE EndWrite(c)
      BY <3>6 DEF EndWrite, pm2, traffic
    <3>7. QED
      BY <2>2, <3>1, <3>2, <3>3, <3>4, <3>5, <3>6 DEF ClientStep
  <2>3. CASE UNCHANGED vars
    BY <2>3 DEF vars
  <2>4. QED
    BY <2>1, <2>2, <2>3 DEF Next
<1>3. QED
  BY <1>1, <1>2, TypeCorrectness, PTL DEF Spec

----------------------------------------------------------------------------
(***************************************************************************)
(* A save that was cut off was cut off by a kill: app.close() waits for    *)
(* those that have a connection of the pool.                               *)
(***************************************************************************)
THEOREM BegunIsFinished == Spec => []StartedWritesFinish
<1>1. Init => StartedWritesFinish
  BY DEF Init, StartedWritesFinish
<1>2. TypeOK /\ TypeOK' /\ StartedWritesFinish /\ [Next]_vars => StartedWritesFinish'
  <2> SUFFICES ASSUME TypeOK, TypeOK', StartedWritesFinish, [Next]_vars
               PROVE  StartedWritesFinish'
    OBVIOUS
  <2> USE DEF TypeOK, StartedWritesFinish
  <2>1. ASSUME NEW w \in Workers, WorkerStep(w)
        PROVE  StartedWritesFinish'
    <3>1. CASE Exit(w)
      BY <3>1 DEF Exit, PoolEnded, Lost, Become
    <3>2. CASE Kill(w)
      BY <3>2 DEF Kill, Lost, Become
    <3>3. ASSUME phase' \in [Workers -> Phases], UNCHANGED writes,
                 \A v \in Workers : phase[v] = "killed" => phase'[v] = "killed"
          PROVE  StartedWritesFinish'
      BY <3>3 DEF writes
    <3>4. CASE Boot(w) \/ Listen(w) \/ ListenTimeout(w) \/ Reload(w) \/ FilesChange(w) \/ ServerClosed(w)
      BY <3>3, <3>4 DEF Boot, Listen, ListenTimeout, Reload, FilesChange, ServerClosed, Close, Become
    <3>5. QED
      BY <2>1, <3>1, <3>2, <3>4 DEF WorkerStep
  <2>2. ASSUME NEW c \in Clients, ClientStep(c)
        PROVE  StartedWritesFinish'
    <3>1. CASE Respond(c)
      BY <3>1 DEF Respond, pm2, writes
    <3>2. CASE StartWrite(c) \/ EndWrite(c)
      BY <3>2 DEF StartWrite, EndWrite, pm2
    <3>3. CASE Connect(c) \/ Send(c) \/ Hangup(c)
      BY <3>3 DEF Connect, Send, Hangup, pm2, writes
    <3>4. QED
      BY <2>2, <3>1, <3>2, <3>3 DEF ClientStep
  <2>3. CASE UNCHANGED vars
    BY <2>3 DEF vars
  <2>4. QED
    BY <2>1, <2>2, <2>3 DEF Next
<1>3. QED
  BY <1>1, <1>2, TypeCorrectness, PTL DEF Spec

----------------------------------------------------------------------------
(***************************************************************************)
(* The old worker is interrupted only once its successor listens, so that  *)
(* the last one that listens is never interrupted by a deployment.         *)
(***************************************************************************)
THEOREM NoDowntime == Spec => []SomeoneListens
<1>1. Init => SomeoneListens
  BY DEF Init, SomeoneListens, Gone
<1>2. TypeOK /\ TypeOK' /\ SomeoneListens /\ [Next]_vars => SomeoneListens'
  <2> SUFFICES ASSUME TypeOK, TypeOK', SomeoneListens, [Next]_vars
               PROVE  SomeoneListens'
    OBVIOUS
  <2> USE DEF TypeOK, SomeoneListens, Gone
  <2>1. ASSUME NEW w \in Workers, WorkerStep(w)
        PROVE  SomeoneListens'
    <3>1. CASE Boot(w)
      BY <3>1 DEF Boot, Become
    <3>2. CASE Listen(w)
      BY <3>2 DEF Listen, Become
    <3>3. CASE ListenTimeout(w)
      BY <3>3 DEF ListenTimeout
    <3>4. CASE Reload(w)
      <4>1. CASE overdue = {}
        <5>1. w + 1 \in Workers /\ w + 1 # w /\ phase[w + 1] = "listening"
          BY <3>4, <4>1, LifecycleAssumption DEF Reload, SentReady, Workers
        <5>2. phase'[w + 1] = "listening"
          BY <3>4, <5>1 DEF Reload, Close, Become
        <5>3. QED
          BY <5>1, <5>2
      <4>2. CASE overdue # {}
        BY <3>4, <4>2 DEF Reload
      <4>3. QED
        BY <4>1, <4>2
    <3>5. CASE FilesChange(w)
      BY <3>5 DEF FilesChange
    <3>6. CASE ServerClosed(w)
      BY <3>6 DEF ServerClosed, Become
    <3>7. CASE Exit(w)
      BY <3>7 DEF Exit, Become
    <3>8. CASE Kill(w)
      BY <3>8 DEF Kill, Become
    <3>9. QED
      BY <2>1, <3>1, <3>2, <3>3, <3>4, <3>5, <3>6, <3>7, <3>8 DEF WorkerStep
  <2>2. ASSUME NEW c \in Clients, ClientStep(c)
        PROVE  SomeoneListens'
    <3>1. UNCHANGED pm2
      BY <2>2 DEF ClientStep, Connect, Send, Respond, Hangup, StartWrite, EndWrite
    <3>2. QED
      BY <3>1 DEF pm2
  <2>3. CASE UNCHANGED vars
    BY <2>3 DEF vars
  <2>4. QED
    BY <2>1, <2>2, <2>3 DEF Next
<1>3. QED
  BY <1>1, <1>2, TypeCorrectness, PTL DEF Spec
=============================================================================
